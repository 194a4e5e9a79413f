------------------------------ MODULE Exchange ------------------------------
(***************************************************************************)
(* What a client may expect of a plain connection: one answer to what it   *)
(* has sent, one of those its bytes allow, then the end.  A connection may   *)
(* also end without an answer.                                             *)
(***************************************************************************)
EXTENDS Integers, Sequences

CONSTANTS
    Streams,        \* what a client may send
    Verdict(_)      \* the answers that may be given to it

VARIABLES stream, reply, ended

vars == <<stream, reply, ended>>

Init ==
    /\ stream \in Streams
    /\ reply = "none"
    /\ ended = FALSE

Answer ==
    /\ reply = "none"
    /\ ~ended
    /\ reply' # "none" /\ reply' \in Verdict(stream)
    /\ UNCHANGED <<stream, ended>>

End ==
    /\ ~ended
    /\ ended' = TRUE
    /\ UNCHANGED <<stream, reply>>

Spec == Init /\ [][Answer \/ End]_vars
=============================================================================
