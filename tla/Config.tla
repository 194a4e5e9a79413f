------------------------------- MODULE Config -------------------------------
(***************************************************************************)
(* whz::Config, the singleton that read_config() fills from a JSON file.   *)
(*                                                                         *)
(* Every parameter is a std::any.  What it holds depends on the parameter  *)
(* and on the JSON value, and so does its C++ type: a value of the right   *)
(* kind is stored as simdjson hands it out, the default as a literal.  An  *)
(* any is a record of its type and value; values are written as strings.   *)
(***************************************************************************)
EXTENDS Integers, Sequences

CONSTANTS
    Files,      \* what may be found under the names read_config() is given
    MaxReads    \* bound: calls of read_config()

UintParams ==
    {"SERVER_HTTP_PORT", "SERVER_HTTPS_PORT", "CONNECTION_TIMEOUT_MS",
     "CONNECTION_MAX_IO_CONTEXTS", "THREADPOOL_SIZE", "CPU_CORES",
     "REQUESTS_ACTIVE_MAX", "REQUESTS_QUEUED_MAX", "DATABASE_PORT",
     "LUA_GC_STEPSIZE", "LOG_ROTATION_DAYS", "LOG_ROTATION_MB"}

StringParams ==
    {"SERVER_ROOTPATH", "SERVER_LOGPATH", "SERVER_DOMAINNAME",
     "SERVER_SSL_CERTPATH", "AVAILABLE_NODENAMES", "WHZ_CLI_PATH",
     "DATABASE_PATH", "DATABASE_NAME", "DATABASE_USER", "DATABASE_PASSWORD",
     "DATABASE_HOST", "DATABASE_ENGINE", "LUA_SCRIPT_PATH",
     "LUA_START_SCRIPT_FILENAME", "LOG_FILENAME", "LOG_PATH"}

LogLevels ==
    {"LOG_TRACE_L3", "LOG_TRACE_L2", "LOG_TRACE_L1", "LOG_DEBUG", "LOG_INFO",
     "LOG_WARNING", "LOG_ERROR", "LOG_CRITICAL", "LOG_BACKTRACE"}

BoolParams == LogLevels \cup {"CONNECTION_USE_IOURING"}

ConfigParameter == UintParams \cup StringParams \cup BoolParams

\* A JSON value: its kind as simdjson's is_uint64, is_string, is_bool and
\* is_null tell it, and its text.
JsonKinds == {"uint64", "string", "bool", "null", "other"}

JsonMember == [key : STRING, value : [kind : JsonKinds, text : STRING]]

\* A file: absent, not JSON, JSON but no object, or the members of an object
\* in their order, of any name.  "unnamed" stands for an empty file name.
FileStatus == {"unnamed", "missing", "malformed", "not_object", "object"}

ASSUME FilesAssumption ==
    \A f \in Files :
        /\ f.status \in FileStatus
        /\ f.members \in Seq(JsonMember)
        /\ f.status # "object" => f.members = <<>>
ASSUME MaxReadsAssumption == MaxReads \in Nat

VARIABLES
    m_bConfigLoaded,
    slot,       \* the std::any of each parameter
    members,    \* the members the loop of read_config() has yet to see
    reads,      \* the files of the calls of read_config(), in order
    returned    \* how the last call ended, or running

config_vars == <<m_bConfigLoaded, slot, members, reads, returned>>

\* How the string of no characters is written here.
empty_string == "empty"

any(type, value) == [type |-> type, value |-> value]
any_empty == any("empty", empty_string)

\* A string is stored as a view into the document of the read that is going on.
any_view(value) ==
    [type |-> "std::string_view", value |-> value, document |-> Len(reads)]

\* The literal a numeric parameter is given when its value is no uint64.
default_number(p) ==
    CASE p \in {"SERVER_HTTP_PORT", "SERVER_HTTPS_PORT", "DATABASE_PORT"} -> "0"
      [] p = "CONNECTION_TIMEOUT_MS" -> "5000"
      [] p \in {"CONNECTION_MAX_IO_CONTEXTS", "THREADPOOL_SIZE",
                "REQUESTS_QUEUED_MAX"} -> "100"
      [] p \in {"CPU_CORES", "REQUESTS_ACTIVE_MAX"} -> "8"
      [] p = "LUA_GC_STEPSIZE" -> "1000000"
      [] p = "LOG_ROTATION_DAYS" -> "1"
      [] p = "LOG_ROTATION_MB" -> "50"

store_number(p, v) ==
    IF v.kind = "uint64"
    THEN any("simdjson_result<uint64_t>", v.text)
    ELSE any("int", default_number(p))

store_string(v) ==
    IF v.kind = "string" THEN any_view(v.text) ELSE any("const char*", empty_string)

\* LOG_INFO alone is converted to bool.
store_bool(p, v) ==
    IF v.kind # "bool" THEN any("bool", "false")
    ELSE any(IF p = "LOG_INFO" THEN "bool" ELSE "simdjson_result<bool>", v.text)

\* What the switch assigns to the member of parameter p.
store(p, v) ==
    CASE p \in UintParams -> store_number(p, v)
      [] p \in StringParams -> store_string(v)
      [] p \in BoolParams -> store_bool(p, v)

Init ==
    /\ m_bConfigLoaded = FALSE
    /\ slot = [p \in ConfigParameter |-> any_empty]
    /\ members = <<>>
    /\ reads = <<>>
    /\ returned = "none"

Idle == returned # "running"

\* read_config(): the name is empty or the file cannot be loaded.
ReadFails ==
    /\ Idle
    /\ Len(reads) < MaxReads
    /\ \E f \in Files :
          /\ f.status \in {"unnamed", "missing", "malformed"}
          /\ reads' = Append(reads, f)
    /\ returned' = "false"
    /\ UNCHANGED <<m_bConfigLoaded, slot, members>>

\* read_config(): begin() of a get_object() that is an error throws.
ReadThrows ==
    /\ Idle
    /\ Len(reads) < MaxReads
    /\ \E f \in Files :
          /\ f.status = "not_object"
          /\ reads' = Append(reads, f)
    /\ returned' = "threw"
    /\ UNCHANGED <<m_bConfigLoaded, slot, members>>

\* Mutant: a read starts from an empty configuration.
ReadBegins_clear ==
    /\ Idle
    /\ Len(reads) < MaxReads
    /\ \E f \in Files :
          /\ f.status = "object"
          /\ reads' = Append(reads, f)
          /\ members' = f.members
    /\ slot' = [p \in ConfigParameter |-> any_empty]
    /\ returned' = "running"
    /\ UNCHANGED m_bConfigLoaded

ReadBegins ==
    /\ Idle
    /\ Len(reads) < MaxReads
    /\ \E f \in Files :
          /\ f.status = "object"
          /\ reads' = Append(reads, f)
          /\ members' = f.members
    /\ returned' = "running"
    /\ UNCHANGED <<m_bConfigLoaded, slot>>

\* A turn of the loop; a member of another name is left alone.
ReadMember ==
    /\ returned = "running"
    /\ members # <<>>
    /\ LET m == Head(members)
       IN  slot' = IF m.key \in ConfigParameter
                   THEN [slot EXCEPT ![m.key] = store(m.key, m.value)]
                   ELSE slot
    /\ members' = Tail(members)
    /\ UNCHANGED <<m_bConfigLoaded, reads, returned>>

\* The end of read_config(): with it goes the parser and its document.
ReadEnds ==
    /\ returned = "running"
    /\ members = <<>>
    /\ m_bConfigLoaded' = TRUE
    /\ returned' = "true"
    /\ UNCHANGED <<slot, members, reads>>

\* any_cast<T>, which throws unless T is exactly what the any holds.
casts_to(a, type) == a.type = type

get_config_value(p) ==
    IF p \in ConfigParameter THEN slot[p] ELSE any("const char*", "Unknown")

\* createJSON_config(): casts every parameter to std::string, the file is
\* opened after the last one.
CreateJSON ==
    /\ Idle
    /\ returned' =
          IF \A p \in ConfigParameter : casts_to(get_config_value(p), "std::string")
          THEN "true" ELSE "threw"
    /\ UNCHANGED <<m_bConfigLoaded, slot, members, reads>>

ConfigNext ==
    \/ ReadFails \/ ReadThrows \/ ReadBegins \/ ReadMember \/ ReadEnds
    \/ CreateJSON

----------------------------------------------------------------------------
\* The calls of read_config() whose file mentions parameter p, and its value
\* in the last of them: the last member of that name.
Mentions(p) ==
    {r \in 1..Len(reads) :
        \E i \in 1..Len(reads[r].members) : reads[r].members[i].key = p}

LastOf(S) == CHOOSE n \in S : \A m \in S : m <= n

LastValue(p) ==
    LET f == reads[LastOf(Mentions(p))]
    IN  f.members[LastOf({i \in 1..Len(f.members) : f.members[i].key = p})].value

\* What parameter p holds when a member of value v was the last to be stored.
RightKind(p, v) ==
    \/ p \in UintParams /\ v.kind = "uint64"
    \/ p \in StringParams /\ v.kind = "string"
    \/ p \in BoolParams /\ v.kind = "bool"

Stored(p, v, a) ==
    IF RightKind(p, v) THEN a.value = v.text
    ELSE a = any(IF p \in UintParams THEN "int"
                 ELSE IF p \in StringParams THEN "const char*" ELSE "bool",
                 IF p \in UintParams THEN default_number(p)
                 ELSE IF p \in StringParams THEN empty_string ELSE "false")

\* Between calls, a parameter holds what the last file that mentions it says
\* of it, or its default if that is of the wrong kind: failed, throwing and
\* empty reads change nothing, a file that leaves a parameter out keeps the
\* earlier value, and the last of two members of the same name counts.
LastMentionWins ==
    Idle =>
        \A p \in ConfigParameter :
            IF Mentions(p) = {} THEN slot[p] = any_empty
            ELSE Stored(p, LastValue(p), slot[p])

\* A parameter can be read between calls: no view into a document that is gone.
ViewsAlive ==
    \A p \in StringParams :
        slot[p].type = "std::string_view" =>
            ~Idle /\ slot[p].document = Len(reads)
=============================================================================
