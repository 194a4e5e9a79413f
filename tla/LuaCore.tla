------------------------------ MODULE LuaCore ------------------------------
(***************************************************************************)
(* whz::whz_LUA_core: the startup script, named by the caller or by the    *)
(* configuration, read by init_LUA() and run later from the copy that was  *)
(* read; and the steps of the garbage collector, sized by the              *)
(* configuration.                                                          *)
(*                                                                         *)
(* Calls come between calls of read_config(), in any order.                *)
(***************************************************************************)
EXTENDS Config

CONSTANTS
    Script,     \* what there is under each file name: its text, extension ...
    MaxCalls    \* bound: calls of this class

ASSUME ScriptAssumption ==
    /\ empty_string \notin DOMAIN Script
    /\ \A name \in DOMAIN Script :
          /\ Script[name].exists \in BOOLEAN
          /\ Script[name].is_lua \in BOOLEAN
          /\ Script[name].opens \in BOOLEAN
          /\ Script[name].runs \in BOOLEAN
ASSUME MaxCallsAssumption == MaxCalls \in Nat

VARIABLES
    _startup_script_path,           \* empty_string while there is none
    _startup_script_content_str,    \* the name of the script whose text it is
    _lua01,                         \* the scripts run, and the last step_gc
    calls,                          \* the number of calls
    outcome                         \* of the last call: [op, result]

lua_vars ==
    <<_startup_script_path, _startup_script_content_str, _lua01, calls, outcome>>

lua_all == <<config_vars, lua_vars>>

LuaInit ==
    /\ Init
    /\ _startup_script_path = empty_string
    /\ _startup_script_content_str = empty_string
    /\ _lua01 = [ran |-> {}, step |-> "none"]
    /\ calls = 0
    /\ outcome = [op |-> "none", result |-> "none"]

\* A call, made while no read_config() is under way, and what it returns.
LuaReturns(op, result) ==
    /\ Idle
    /\ calls < MaxCalls
    /\ calls' = calls + 1
    /\ outcome' = [op |-> op, result |-> result]
    /\ UNCHANGED config_vars

Exists(name) == name \in DOMAIN Script /\ Script[name].exists

\* The two checks before the path is taken over.
is_script(name) == Exists(name) /\ Script[name].is_lua

\* Mutant: the script is not read again.
load_script_once(op, name, before) ==
    /\ _startup_script_path' = IF is_script(name) THEN name ELSE before
    /\ _startup_script_content_str' =
          IF is_script(name) /\ Script[name].opens /\ _startup_script_content_str = empty_string
          THEN name ELSE _startup_script_content_str
    /\ LuaReturns(op, IF is_script(name) /\ Script[name].opens THEN "true" ELSE "false")
    /\ UNCHANGED _lua01

\* init_LUA(path), when _startup_script_path is `before' at its entry.
load_script(op, name, before) ==
    /\ _startup_script_path' = IF is_script(name) THEN name ELSE before
    /\ _startup_script_content_str' =
          IF is_script(name) /\ Script[name].opens THEN name
          ELSE _startup_script_content_str
    /\ LuaReturns(op, IF is_script(name) /\ Script[name].opens THEN "true" ELSE "false")
    /\ UNCHANGED _lua01

InitPath == \E name \in DOMAIN Script : load_script("init_path", name, _startup_script_path)

\* init_LUA(string): the path is taken over before it is checked.
InitString == \E name \in DOMAIN Script : load_script("init_string", name, name)

\* init_LUA(): with a configured name, the cast to std::string.
InitConfigCasts ==
    LET a == get_config_value("LUA_START_SCRIPT_FILENAME")
    IN  /\ m_bConfigLoaded
        /\ a.type # "empty"
        /\ IF casts_to(a, "std::string")
           THEN load_script("init_config", a.value, a.value)
           ELSE /\ LuaReturns("init_config", "threw")
                /\ UNCHANGED <<_startup_script_path, _startup_script_content_str,
                               _lua01>>

\* init_LUA() without one: the path is what it was, perhaps empty.
InitConfigEmpty ==
    /\ m_bConfigLoaded => get_config_value("LUA_START_SCRIPT_FILENAME").type = "empty"
    /\ load_script("init_config", _startup_script_path, _startup_script_path)

\* run_LUA_startup_script(): an empty text runs, and so does any script that
\* does not throw.
RunStartupScript ==
    /\ _startup_script_path # empty_string
    /\ _lua01' = [_lua01 EXCEPT !.ran = @ \cup {_startup_script_content_str}]
    /\ LuaReturns("run",
          IF \/ _startup_script_content_str = empty_string
             \/ Script[_startup_script_content_str].runs
          THEN "true" ELSE "false")
    /\ UNCHANGED <<_startup_script_path, _startup_script_content_str>>

RunNoScript ==
    /\ _startup_script_path = empty_string
    /\ LuaReturns("run", "false")
    /\ UNCHANGED <<_startup_script_path, _startup_script_content_str, _lua01>>

\* step_LUA_gc(): 100 without a parameter, else the parameter cast to int.
StepGc ==
    LET a == get_config_value("LUA_GC_STEPSIZE")
    IN  /\ IF a.type = "empty" \/ casts_to(a, "int")
           THEN /\ _lua01' = [_lua01 EXCEPT !.step =
                                 IF a.type = "empty" THEN "100" ELSE a.value]
                /\ \E last \in {"true", "false"} : LuaReturns("step_gc", last)
           ELSE /\ LuaReturns("step_gc", "threw")
                /\ UNCHANGED _lua01
        /\ UNCHANGED <<_startup_script_path, _startup_script_content_str>>

\* A step of Config; the outcome is that of a call since.
LuaConfigCall ==
    /\ ConfigNext
    /\ outcome' = [op |-> "none", result |-> "none"]
    /\ UNCHANGED <<_startup_script_path, _startup_script_content_str, _lua01, calls>>

LuaNext ==
    \/ InitPath \/ InitString \/ InitConfigCasts \/ InitConfigEmpty
    \/ RunStartupScript \/ RunNoScript \/ StepGc
    \/ LuaConfigCall

LuaSpec == LuaInit /\ [][LuaNext]_lua_all

----------------------------------------------------------------------------
\* After an init_LUA() that returned true, the next run is that of the script
\* it was given.
InitThenRun ==
    outcome.result = "true" /\ outcome.op \in {"init_path", "init_string", "init_config"}
        => /\ _startup_script_path # empty_string
           /\ _startup_script_content_str = _startup_script_path
=============================================================================
