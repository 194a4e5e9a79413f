----------------------------- MODULE MCLuaCore -----------------------------
(***************************************************************************)
(* Two scripts, one of which throws, a file that is not a script, one that *)
(* cannot be opened and one that is not there; configurations that name a  *)
(* script and a step size, rightly or not, once, twice or not at all.      *)
(***************************************************************************)
EXTENDS LuaCore

File(exists, is_lua, opens, runs) ==
    [exists |-> exists, is_lua |-> is_lua, opens |-> opens, runs |-> runs]

MCScript ==
    [name \in {"good.lua", "bad.lua", "text.txt", "locked.lua", "absent.lua"} |->
        CASE name = "good.lua" -> File(TRUE, TRUE, TRUE, TRUE)
          [] name = "bad.lua" -> File(TRUE, TRUE, TRUE, FALSE)
          [] name = "text.txt" -> File(TRUE, FALSE, TRUE, FALSE)
          [] name = "locked.lua" -> File(TRUE, TRUE, FALSE, FALSE)
          [] name = "absent.lua" -> File(FALSE, TRUE, FALSE, FALSE)]

Member(key, kind, text) == [key |-> key, value |-> [kind |-> kind, text |-> text]]

Members ==
    {Member("LUA_GC_STEPSIZE", "uint64", "7"),
     Member("LUA_GC_STEPSIZE", "null", empty_string),
     Member("LUA_START_SCRIPT_FILENAME", "string", "good.lua"),
     Member("LUA_START_SCRIPT_FILENAME", "other", empty_string),
     Member("port", "uint64", "7")}

\* Two members are of one name and differ, or the first is of a name that is
\* not a parameter.
MemberLists ==
    {<<>>} \cup {<<m>> : m \in Members}
      \cup {ms \in Members \X Members : ms[1] # ms[2] /\ ms[1].key = ms[2].key}
      \cup {<<m, n>> \in Members \X Members :
               m.key = "port" /\ n.key = "LUA_GC_STEPSIZE"}

MCLuaFiles ==
    {[status |-> s, members |-> <<>>] :
        s \in {"unnamed", "missing", "malformed", "not_object"}}
      \cup {[status |-> "object", members |-> ms] : ms \in MemberLists}
=============================================================================
