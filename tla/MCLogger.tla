------------------------------ MODULE MCLogger ------------------------------
(***************************************************************************)
(* Two logger objects and configurations that turn levels on and off.      *)
(***************************************************************************)
EXTENDS Logger

Level(key, kind, text) == [key |-> key, value |-> [kind |-> kind, text |-> text]]

MCLoggerFiles ==
    {[status |-> "object", members |-> <<m>>] :
        m \in {Level("LOG_INFO", "bool", "true"), Level("LOG_INFO", "bool", "false"),
               Level("LOG_ERROR", "bool", "true"), Level("LOG_ERROR", "null", empty_string)}}
      \cup {[status |-> "malformed", members |-> <<>>],
            [status |-> "not_object", members |-> <<>>]}
=============================================================================
