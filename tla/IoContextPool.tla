--------------------------- MODULE IoContextPool ---------------------------
(***************************************************************************)
(* What io_context_pool::get_io_context promises its callers: contexts are *)
(* handed out one at a time, in turn, starting with the first.             *)
(***************************************************************************)
EXTENDS Integers

CONSTANT N      \* the pool's size (a pool of size 0 exits the process)

Contexts == 0..(N - 1)

VARIABLES
    next,       \* the context to be handed out next
    handed      \* how often each context has been handed out

vars == <<next, handed>>

Init ==
    /\ next = 0
    /\ handed = [k \in Contexts |-> 0]

get_io_context ==
    /\ handed' = [handed EXCEPT ![next] = @ + 1]
    /\ next' = IF next + 1 = N THEN 0 ELSE next + 1

Spec == Init /\ [][get_io_context]_vars

\* The load is spread evenly: two contexts have been handed out equally often,
\* or one of them, an earlier one, once more.
Balanced ==
    \A j, k \in Contexts :
        j <= k => handed[j] - handed[k] \in {0, 1}
=============================================================================
