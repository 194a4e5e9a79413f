------------------------------- MODULE Logger -------------------------------
(***************************************************************************)
(* whz::whz_qlogger: objects that share one quill logger and one backend   *)
(* thread.  A log method writes if the configuration has its level on; the *)
(* destructor flushes; stopLogger() flushes, removes the logger and stops  *)
(* the backend.                                                            *)
(*                                                                         *)
(* Of quill: start() starts the backend; after a stop() it does so again   *)
(* or not, by version.  create_or_get_logger() returns the one logger of   *)
(* that name, or makes it anew.  The backend thread writes the queue;      *)
(* flush_log() waits for it, without end if there is none.  The use of a   *)
(* logger that has been removed is undefined: fault records it, and what   *)
(* the process does after it is not modelled.                              *)
(***************************************************************************)
EXTENDS Config

CONSTANTS
    Objects,        \* the whz_qlogger objects
    MaxMessages     \* bound: messages logged

ASSUME MaxMessagesAssumption == MaxMessages \in Nat

VARIABLES
    object,     \* none, live, closed (is_backend_closed) or destroyed
    attached,   \* the objects whose qlogger is the logger quill knows now
    backend,    \* off, running or stopped
    queue,      \* the levels of the messages the backend has not written
    written,    \* the number of messages it has
    logged,     \* history: the number of messages logged
    fault,      \* a logger that has been removed was used
    early,      \* history: stopLogger() was called while another object lived
    reused,     \* history: an object logged or stopped after its stopLogger()
    call        \* the last log method called, and whether it logged

logger_vars ==
    <<object, attached, backend, queue, written, logged, fault, early, reused, call>>

logger_all == <<config_vars, logger_vars>>

no_call == [level |-> "none", logged |-> FALSE]

LoggerInit ==
    /\ Init
    /\ object = [o \in Objects |-> "none"]
    /\ attached = {}
    /\ backend = "off"
    /\ queue = <<>>
    /\ written = 0
    /\ logged = 0
    /\ fault = FALSE
    /\ early = FALSE
    /\ reused = FALSE
    /\ call = no_call

\* The constructor.
Construct(o) ==
    /\ ~fault
    /\ object[o] = "none"
    /\ object' = [object EXCEPT ![o] = "live"]
    /\ attached' = attached \cup {o}
    /\ backend' \in IF backend = "stopped" THEN {"running", "stopped"} ELSE {"running"}
    /\ UNCHANGED <<config_vars, queue, written, logged, fault, early, reused, call>>

\* Mutant: a level that is not a bool is on.
level_on_lenient(l) ==
    slot[l].type \in {"bool", "simdjson_result<bool>", "empty"} /\ slot[l].value # "false"

\* The test that each of the nine log methods begins with.
level_on(l) ==
    LET a == get_config_value(l) IN casts_to(a, "bool") /\ a.value = "true"

Usable(o) == ~fault /\ object[o] \in {"live", "closed"}

\* A log method.  None of them looks at is_backend_closed.  The macro puts the
\* message into the queue, whether or not there is a backend.
Log(o, l) ==
    /\ Idle
    /\ Usable(o)
    /\ logged < MaxMessages
    /\ call' = [level |-> l, logged |-> level_on(l)]
    /\ IF level_on(l) /\ o \in attached
       THEN queue' = Append(queue, l) /\ logged' = logged + 1
       ELSE UNCHANGED <<queue, logged>>
    /\ fault' = (level_on(l) /\ o \notin attached)
    /\ reused' = (reused \/ (object[o] = "closed" /\ level_on(l)))
    /\ UNCHANGED <<config_vars, object, attached, backend, written, early>>

\* The backend thread writes a message.
BackendWrites ==
    /\ ~fault
    /\ backend = "running"
    /\ queue # <<>>
    /\ queue' = Tail(queue)
    /\ written' = written + 1
    /\ UNCHANGED <<config_vars, object, attached, backend, logged, fault, early,
                   reused, call>>

\* flush_log(): what is in the queue has been written when it returns.
Flush(o) ==
    IF o \in attached
    THEN /\ backend = "running"
         /\ queue' = <<>>
         /\ written' = written + Len(queue)
         /\ UNCHANGED fault
    ELSE /\ fault' = TRUE
         /\ UNCHANGED <<queue, written>>

\* Mutant: the destructor flushes whatever stopLogger() has done.
Destroy_always(o) ==
    /\ Usable(o)
    /\ object' = [object EXCEPT ![o] = "destroyed"]
    /\ attached' = attached \ {o}
    /\ Flush(o)
    /\ UNCHANGED <<config_vars, backend, logged, early, reused, call>>

\* Mutant: the destructor does not flush.
Destroy_quiet(o) ==
    /\ Usable(o)
    /\ object' = [object EXCEPT ![o] = "destroyed"]
    /\ attached' = attached \ {o}
    /\ UNCHANGED <<config_vars, backend, queue, written, logged, fault, early, reused,
                   call>>

\* The destructor: flushes unless this object has stopped the backend.
Destroy(o) ==
    /\ Usable(o)
    /\ object' = [object EXCEPT ![o] = "destroyed"]
    /\ attached' = attached \ {o}
    /\ IF object[o] = "live" THEN Flush(o) ELSE UNCHANGED <<queue, written, fault>>
    /\ UNCHANGED <<config_vars, backend, logged, early, reused, call>>

\* stopLogger(), also of an object that has called it before.
StopLogger(o) ==
    /\ Usable(o)
    /\ object' = [object EXCEPT ![o] = "closed"]
    /\ attached' = {}
    /\ Flush(o)
    /\ backend' = "stopped"
    /\ early' = (early \/ \E other \in Objects \ {o} : object[other] = "live")
    /\ reused' = (reused \/ object[o] = "closed")
    /\ UNCHANGED <<config_vars, logged, call>>

LoggerConfigCall ==
    /\ ~fault
    /\ ConfigNext
    /\ call' = no_call
    /\ UNCHANGED <<object, attached, backend, queue, written, logged, fault, early,
                   reused>>

LoggerNext ==
    \/ \E o \in Objects : Construct(o) \/ Destroy(o) \/ StopLogger(o)
    \/ \E o \in Objects, l \in LogLevels : Log(o, l)
    \/ BackendWrites
    \/ LoggerConfigCall

LoggerSpec == LoggerInit /\ [][LoggerNext]_logger_all

----------------------------------------------------------------------------
\* The level is on in the configuration as the files read so far say.
ConfiguredOn(l) ==
    /\ Mentions(l) # {}
    /\ LastValue(l).kind = "bool"
    /\ LastValue(l).text = "true"

\* A level that no file has turned on, or that the last one to mention it has
\* turned off or given a value that is not a bool, is silent.
SilentUnlessOn == call.logged => ConfiguredOn(call.level)

\* No message is lost: once every object is closed or destroyed, each message
\* that was logged has been written, also those of objects made after the
\* logger was stopped, unless a logger that was removed has been used.
NothingUnwritten ==
    (\A o \in Objects : object[o] \in {"closed", "destroyed"}) /\ ~fault =>
        written = logged

\* A logger that has been removed is used, by a destructor that flushes it or
\* a method that logs to it, only if stopLogger() was called while another
\* object lived, or an object was used after its own stopLogger().  Destroying
\* it is no such use, and an object made after the stop has a logger again.
NoFault == fault => early \/ reused

\* stopLogger() stops the backend if this is the last object to close: the
\* logger of an object that is live has not been removed.
LiveHasLogger == \A o \in Objects : object[o] = "live" => o \in attached

\* A log method whose level is on in the configuration logs.
OnMeansLogged ==
    call.level # "none" /\ ConfiguredOn(call.level) => call.logged
=============================================================================
