---------------------------- MODULE ServerProofs ----------------------------
(***************************************************************************)
(* The server, for every pool size and every set of clients: every         *)
(* variable keeps its type, next_io_context is used by one thread at a     *)
(* time, the two-step get_io_context implements IoContextPool, the         *)
(* contexts are handed out evenly, two accepts are always under way, and   *)
(* nothing runs once listen_and_serve has returned.                        *)
(***************************************************************************)
EXTENDS Server, FiniteSetTheorems, TLAPS

\* Who may be inside get_io_context: the main thread until run(), then the
\* thread of the acceptor's context, in an accept handler.
Owner == IF main \in {"run", "join", "returned"} THEN AcceptorContext ELSE Main

\* No thread runs before run(), and only the acceptor's starts accepts.
RearmInv ==
    /\ main \in TakesContext \cup {"bind"} => spawned = 0
    /\ \A w \in Contexts :
          rearm[w] # "none" => w = AcceptorContext /\ w < spawned

\* Only the owner is inside get_io_context; the index is past the end only
\* while it is.
OwnerInv ==
    main # "terminated" =>
        /\ \A t \in Threads : taken[t] # None => t = Owner
        /\ taken[Main] # None => main \in TakesContext
        /\ next = N => taken[Owner] # None

\* The loop of stop() is within the contexts.
StopInv ==
    /\ signal \in {"none", "raised"} => stop_at = 0
    /\ signal = "stopping" => stop_at \in Contexts

\* The contexts before the index have been handed out once more often.
ShareInv ==
    \E m \in Nat : \A k \in Contexts :
        handed[k] = m + (IF next # N /\ k < next THEN 1 ELSE 0)

IInv == TypeOK /\ RearmInv /\ NoRaceOnIndex /\ OwnerInv /\ StopInv /\ ShareInv

LEMMA ContextFacts ==
    /\ AcceptorContext \in Contexts
    /\ SignalContext \in Contexts
    /\ Contexts \subseteq Threads
    /\ Main \in Threads
    /\ Main \notin Contexts
    /\ None \notin Contexts
    /\ Contexts \subseteq Nat
BY NAssumption
DEF AcceptorContext, SignalContext, Contexts, Threads, Main, None

\* The only thread inside get_io_context has read an index within bounds.
LEMMA TakeStep ==
    ASSUME IInv, NEW t \in Threads, t = Owner, main # "terminated", Take(t)
    PROVE  /\ next \in Contexts
           /\ taken' \in [Threads -> Contexts \cup {None}]
           /\ taken'[t] # None
           /\ \A u \in Threads : u # t => taken'[u] = None
           /\ handed' \in [Contexts -> Nat]
           /\ next' \in 0..N
           /\ ShareInv'
<1>1. next \in Contexts
  BY NAssumption DEF IInv, OwnerInv, TypeOK, Take, Contexts
<1>2. taken' = [taken EXCEPT ![t] = next] /\ taken \in [Threads -> Contexts \cup {None}]
  BY DEF IInv, TypeOK, Take
<1>3. \A u \in Threads : u # t => taken[u] = None
  BY DEF IInv, OwnerInv
<1>4. handed' \in [Contexts -> Nat] /\ next' = next + 1
  BY DEF IInv, TypeOK, Take
<1>5. ShareInv'
  <2>1. PICK m \in Nat : \A k \in Contexts :
            handed[k] = m + (IF next # N /\ k < next THEN 1 ELSE 0)
    BY DEF IInv, ShareInv
  <2>2. \A k \in Contexts : handed[k] = m + (IF k < next THEN 1 ELSE 0)
    BY <1>1, <2>1, NAssumption DEF Contexts
  <2>3. \A k \in Contexts :
            handed'[k] = m + (IF k < next + 1 THEN 1 ELSE 0)
    <3> SUFFICES ASSUME NEW k \in Contexts
                 PROVE  handed'[k] = m + (IF k < next + 1 THEN 1 ELSE 0)
      OBVIOUS
    <3>1. handed'[k] = handed[k] + (IF k = next THEN 1 ELSE 0)
      BY DEF Take
    <3> QED
      BY <1>1, <2>2, <3>1, NAssumption DEF Contexts
  <2>4. CASE next + 1 = N
    <3>1. \A k \in Contexts : handed'[k] = (m + 1) + 0
      BY <2>3, <2>4, <1>1, NAssumption DEF Contexts
    <3>2. m + 1 \in Nat /\ next' = N
      BY <1>4, <2>4
    <3> QED
      BY <3>1, <3>2 DEF ShareInv
  <2>5. CASE next + 1 # N
    BY <2>3, <2>5, <1>4 DEF ShareInv
  <2> QED
    BY <2>4, <2>5
<1> QED
  BY <1>1, <1>2, <1>3, <1>4, <1>5, ContextFacts, NAssumption DEF Contexts

\* When it returns, nobody is inside and the index is within bounds.
LEMMA ReturnStep ==
    ASSUME IInv, NEW t \in Threads, t = Owner, main # "terminated", Return(t)
    PROVE  /\ taken[t] \in Contexts
           /\ taken' \in [Threads -> Contexts \cup {None}]
           /\ \A u \in Threads : taken'[u] = None
           /\ handed' = handed
           /\ next' \in Contexts
           /\ ShareInv'
<1>1. taken[t] \in Contexts
  BY DEF IInv, TypeOK, Return
<1>2. taken' = [taken EXCEPT ![t] = None] /\ taken \in [Threads -> Contexts \cup {None}]
  BY DEF IInv, TypeOK, Return
<1>3. \A u \in Threads : u # t => taken[u] = None
  BY DEF IInv, OwnerInv
<1>4. handed' = handed /\ next \in 0..N /\ next' = IF next = N THEN 0 ELSE next
  BY DEF IInv, TypeOK, Return
<1>5. next' \in Contexts
  BY <1>4, NAssumption DEF Contexts
<1>6. ShareInv'
  <2>1. PICK m \in Nat : \A k \in Contexts :
            handed[k] = m + (IF next # N /\ k < next THEN 1 ELSE 0)
    BY DEF IInv, ShareInv
  <2>2. \A k \in Contexts :
            handed'[k] = m + (IF next' # N /\ k < next' THEN 1 ELSE 0)
    <3> SUFFICES ASSUME NEW k \in Contexts
                 PROVE  handed'[k] = m + (IF next' # N /\ k < next' THEN 1 ELSE 0)
      OBVIOUS
    <3>1. (next # N /\ k < next) <=> (next' # N /\ k < next')
      BY <1>4, NAssumption DEF Contexts
    <3> QED
      BY <1>4, <2>1, <3>1
  <2> QED
    BY <2>2 DEF ShareInv
<1> QED
  BY <1>1, <1>2, <1>3, <1>4, <1>5, <1>6

\* The main thread owns the index before run(), an accept handler after.
LEMMA MainOwns ==
    ASSUME IInv, main \in TakesContext
    PROVE  Main = Owner /\ main # "terminated"
BY DEF Owner, TakesContext

LEMMA HandlerOwns ==
    ASSUME IInv, NEW w \in Contexts, Alive, rearm[w] # "none"
    PROVE  w = Owner /\ main # "terminated" /\ w < spawned /\ spawned # 0
BY ContextFacts DEF IInv, RearmInv, TypeOK, Owner, Alive, Contexts

\* A step that leaves the pool alone and does not change the owner.
LEMMA PoolUntouched ==
    ASSUME IInv, UNCHANGED poolVars,
           \/ main' = main
           \/ main' = "terminated"
           \/ main = "bind" /\ main' = "arm_first"
           \/ main = "run" /\ main' = "join"
           \/ main = "join" /\ main' = "returned"
    PROVE  NoRaceOnIndex' /\ OwnerInv' /\ ShareInv'
<1>1. NoRaceOnIndex' /\ ShareInv'
  BY DEF IInv, NoRaceOnIndex, ShareInv, poolVars
<1>2. CASE main' = "terminated"
  BY <1>1, <1>2 DEF OwnerInv
<1>3. CASE main' # "terminated"
  <2>1. Owner' = Owner /\ main # "terminated"
    BY <1>3 DEF Owner
  <2>2. taken[Main] # None => main' \in TakesContext
    BY <1>3, <2>1 DEF IInv, OwnerInv, TakesContext
  <2>3. taken' = taken /\ next' = next
    BY DEF poolVars
  <2> QED
    BY <1>1, <2>1, <2>2, <2>3 DEF IInv, OwnerInv
<1> QED
  BY <1>2, <1>3

LEMMA InitHolds == Init => IInv
<1> SUFFICES ASSUME Init PROVE IInv
  OBVIOUS
<1>1. TypeOK
  BY NAssumption, ContextFacts, MaxErrorsAssumption
  DEF Init, TypeOK, TakesContext
<1>2. \A k \in Contexts : handed[k] = 0 + (IF next # N /\ k < next THEN 1 ELSE 0)
  BY NAssumption DEF Init, Contexts
<1>3. ShareInv
  BY <1>2 DEF ShareInv
<1>4. RearmInv /\ NoRaceOnIndex /\ OwnerInv /\ StopInv
  BY NAssumption, ContextFacts DEF Init, RearmInv, NoRaceOnIndex, OwnerInv, StopInv, TakesContext
<1> QED
  BY <1>1, <1>3, <1>4 DEF IInv

----------------------------------------------------------------------------
(* One lemma per group of actions.                                         *)

LEMMA MainTakeKeeps == ASSUME IInv, MainTake PROVE IInv'
<1>1. Main = Owner /\ main # "terminated" /\ main \in TakesContext /\ main' = main
  BY MainOwns DEF MainTake, runVars
<1>2. Take(Main)
  BY DEF MainTake
<1>3. /\ taken' \in [Threads -> Contexts \cup {None}]
      /\ taken'[Main] # None
      /\ \A u \in Threads : u # Main => taken'[u] = None
      /\ handed' \in [Contexts -> Nat]
      /\ next' \in 0..N
      /\ ShareInv'
  BY <1>1, <1>2, TakeStep, ContextFacts
<1>4. TypeOK'
  BY <1>3 DEF IInv, TypeOK, MainTake, acceptVars, connVars, runVars, stopVars
<1>5. RearmInv' /\ StopInv'
  BY DEF IInv, RearmInv, StopInv, MainTake, acceptVars, runVars, stopVars
<1>6. Owner' = Owner
  BY <1>1 DEF Owner
<1>7. NoRaceOnIndex' /\ OwnerInv'
  BY <1>1, <1>3, <1>6 DEF NoRaceOnIndex, OwnerInv
<1> QED
  BY <1>3, <1>4, <1>5, <1>7 DEF IInv

LEMMA MainConstructKeeps == ASSUME IInv, MainConstruct PROVE IInv'
<1>1. main \in TakesContext /\ Return(Main)
        /\ main' \in {"take_acceptor", "take_resolver", "bind"}
  BY DEF MainConstruct, TakesContext
<1>2. /\ taken' \in [Threads -> Contexts \cup {None}]
      /\ \A u \in Threads : taken'[u] = None
      /\ handed' = handed
      /\ next' \in Contexts
      /\ ShareInv'
  BY <1>1, MainOwns, ReturnStep, ContextFacts
<1>3. next' \in 0..N /\ next' # N
  BY <1>2, NAssumption DEF Contexts
<1>4. TypeOK'
  BY <1>1, <1>2, <1>3
  DEF IInv, TypeOK, MainConstruct, acceptVars, connVars, stopVars, TakesContext
<1>5. RearmInv' /\ StopInv'
  BY <1>1 DEF IInv, RearmInv, StopInv, MainConstruct, acceptVars, stopVars,
              TakesContext
<1>6. NoRaceOnIndex' /\ OwnerInv'
  BY <1>2, <1>3, ContextFacts DEF NoRaceOnIndex, OwnerInv
<1> QED
  BY <1>2, <1>4, <1>5, <1>6 DEF IInv

LEMMA MainArmKeeps == ASSUME IInv, MainArm PROVE IInv'
<1>1. main \in TakesContext /\ Return(Main) /\ main' \in {"arm_second", "run"}
  BY DEF MainArm, TakesContext
<1>2. /\ taken[Main] \in Contexts
      /\ taken' \in [Threads -> Contexts \cup {None}]
      /\ \A u \in Threads : taken'[u] = None
      /\ handed' = handed
      /\ next' \in Contexts
      /\ ShareInv'
  BY <1>1, MainOwns, ReturnStep, ContextFacts
<1>3. next' \in 0..N /\ next' # N
  BY <1>2, NAssumption DEF Contexts
<1>4. pending' \in Seq([kind : Kinds, context : Contexts])
  <2> DEFINE op == [kind |-> IF main = "arm_first"
                             THEN IF tls THEN "do_accept" ELSE "do_accept_http"
                             ELSE IF tls THEN "start_accept"
                                  ELSE "start_accept_http",
                    context |-> taken[Main]]
  <2>1. op \in [kind : Kinds, context : Contexts]
    BY <1>2 DEF Kinds
  <2>2. pending' = Append(pending, op)
    BY DEF MainArm
  <2>3. pending \in Seq([kind : Kinds, context : Contexts])
    BY DEF IInv, TypeOK
  <2> HIDE DEF op
  <2> QED
    BY <2>1, <2>2, <2>3
<1>5. TypeOK'
  BY <1>1, <1>2, <1>3, <1>4
  DEF IInv, TypeOK, MainArm, connVars, stopVars, TakesContext
<1>6. RearmInv' /\ StopInv'
  BY <1>1 DEF IInv, RearmInv, StopInv, MainArm, stopVars, TakesContext
<1>7. NoRaceOnIndex' /\ OwnerInv'
  BY <1>2, <1>3, ContextFacts DEF NoRaceOnIndex, OwnerInv
<1> QED
  BY <1>2, <1>5, <1>6, <1>7 DEF IInv

LEMMA MainRunKeeps == ASSUME IInv, Bind \/ Spawn \/ Join PROVE IInv'
<1>1. NoRaceOnIndex' /\ OwnerInv' /\ ShareInv'
  BY PoolUntouched DEF Bind, Spawn, Join
<1>2. TypeOK'
  BY NAssumption
  DEF IInv, TypeOK, Bind, Spawn, Join, poolVars, acceptVars, connVars,
      stopVars, TakesContext
<1>3. StopInv'
  BY DEF IInv, StopInv, Bind, Spawn, Join, stopVars
<1>4. RearmInv'
  <2>1. CASE Bind \/ Join
    BY <2>1 DEF IInv, RearmInv, Bind, Join, acceptVars, TakesContext
  <2>2. CASE Spawn
    <3>1. main' \in {"run", "join"} /\ rearm' = rearm /\ spawned' = spawned + 1
      BY <2>2 DEF Spawn, acceptVars
    <3>2. \A w \in Contexts : w < spawned => w < spawned + 1
      BY ContextFacts DEF IInv, TypeOK
    <3> QED
      BY <3>1, <3>2 DEF IInv, RearmInv, TakesContext
  <2> QED
    BY <2>1, <2>2
<1> QED
  BY <1>1, <1>2, <1>3, <1>4 DEF IInv

LEMMA HeadTail ==
    ASSUME NEW S, NEW q \in Seq(S), q # <<>>
    PROVE  Head(q) \in S /\ Tail(q) \in Seq(S)
OBVIOUS

\* The handlers of accepts: they run on the acceptor's thread.
LEMMA HandlerTailKeeps ==
    ASSUME IInv, pending # <<>>, MayRun(AcceptThread(Head(pending))),
           HandlerTail(Head(pending)), UNCHANGED runVars
    PROVE  /\ pending' \in Seq([kind : Kinds, context : Contexts])
           /\ rearm' \in [Contexts -> Kinds \cup {"none"}]
           /\ RearmInv'
           /\ Head(pending) \in [kind : Kinds, context : Contexts]
<1>1. pending \in Seq([kind : Kinds, context : Contexts])
  BY DEF IInv, TypeOK
<1>2. Head(pending) \in [kind : Kinds, context : Contexts]
  BY <1>1, HeadTail
<1>3. pending' \in Seq([kind : Kinds, context : Contexts])
  BY <1>1, HeadTail DEF HandlerTail
<1>4. Rearmed(Head(pending).kind) \in Kinds
  BY <1>2 DEF Rearmed, Kinds
<1>5. rearm' = [rearm EXCEPT ![AcceptorContext] = Rearmed(Head(pending).kind)]
  BY DEF HandlerTail, AcceptThread
<1>6. rearm' \in [Contexts -> Kinds \cup {"none"}]
  BY <1>4, <1>5 DEF IInv, TypeOK
<1>7. AcceptorContext < spawned
  BY DEF MayRun, Idle, AcceptThread
<1>8. RearmInv'
  BY <1>5, <1>7 DEF IInv, RearmInv, TypeOK, runVars
<1> QED
  BY <1>2, <1>3, <1>6, <1>8

LEMMA AcceptKeeps ==
    ASSUME IInv, NEW c \in Clients, Accept(c) PROVE IInv'
<1> DEFINE op == Head(pending)
<1>1. /\ pending # <<>> /\ MayRun(AcceptThread(op)) /\ HandlerTail(op)
      /\ UNCHANGED runVars /\ UNCHANGED poolVars
  BY DEF Accept
<1>2. /\ pending' \in Seq([kind : Kinds, context : Contexts])
      /\ rearm' \in [Contexts -> Kinds \cup {"none"}]
      /\ RearmInv'
      /\ op \in [kind : Kinds, context : Contexts]
  BY <1>1, HandlerTailKeeps
<1>3. NoRaceOnIndex' /\ OwnerInv' /\ ShareInv'
  BY <1>1, PoolUntouched DEF runVars
<1>4. conn' \in [Clients -> Pending \cup {"none", "backlog", "closed"}]
  BY DEF IInv, TypeOK, Accept, Pending, Onward
<1>5. place' \in [Clients -> Contexts \cup {None}]
  BY <1>2 DEF IInv, TypeOK, Accept
<1>6. TypeOK'
  BY <1>1, <1>2, <1>4, <1>5
  DEF IInv, TypeOK, Accept, poolVars, runVars, stopVars
<1>7. StopInv'
  BY <1>1 DEF IInv, StopInv, runVars, stopVars
<1> QED
  BY <1>2, <1>3, <1>6, <1>7 DEF IInv

LEMMA AcceptErrorKeeps == ASSUME IInv, AcceptError PROVE IInv'
<1> DEFINE op == Head(pending)
<1>1. /\ pending # <<>> /\ MayRun(AcceptThread(op)) /\ HandlerTail(op)
      /\ UNCHANGED runVars /\ UNCHANGED poolVars /\ UNCHANGED connVars
  BY DEF AcceptError
<1>2. /\ pending' \in Seq([kind : Kinds, context : Contexts])
      /\ rearm' \in [Contexts -> Kinds \cup {"none"}]
      /\ RearmInv'
  BY <1>1, HandlerTailKeeps
<1>3. NoRaceOnIndex' /\ OwnerInv' /\ ShareInv'
  BY <1>1, PoolUntouched DEF runVars
<1>4. errors' \in 0..MaxErrors /\ tls' \in BOOLEAN
  BY MaxErrorsAssumption DEF IInv, TypeOK, AcceptError
<1>5. TypeOK'
  BY <1>1, <1>2, <1>4 DEF IInv, TypeOK, poolVars, connVars, runVars, stopVars
<1>6. StopInv'
  BY <1>1 DEF IInv, StopInv, runVars, stopVars
<1> QED
  BY <1>2, <1>3, <1>5, <1>6 DEF IInv

LEMMA RearmTakeKeeps ==
    ASSUME IInv, NEW w \in Contexts, RearmTake(w) PROVE IInv'
<1>1. /\ w = Owner /\ main # "terminated" /\ main' = main /\ w # Main
      /\ spawned # 0 /\ Take(w)
  BY HandlerOwns, ContextFacts DEF RearmTake, runVars
<1>2. /\ taken' \in [Threads -> Contexts \cup {None}]
      /\ taken'[w] # None
      /\ \A u \in Threads : u # w => taken'[u] = None
      /\ handed' \in [Contexts -> Nat]
      /\ next' \in 0..N
      /\ ShareInv'
  BY <1>1, TakeStep, ContextFacts
<1>3. TypeOK'
  BY <1>2 DEF IInv, TypeOK, RearmTake, acceptVars, connVars, runVars, stopVars
<1>4. RearmInv' /\ StopInv'
  BY DEF IInv, RearmInv, StopInv, RearmTake, acceptVars, runVars, stopVars
<1>5. Owner' = Owner
  BY <1>1 DEF Owner
<1>6. NoRaceOnIndex' /\ OwnerInv'
  BY <1>1, <1>2, <1>5, ContextFacts DEF NoRaceOnIndex, OwnerInv
<1> QED
  BY <1>2, <1>3, <1>4, <1>6 DEF IInv

LEMMA RearmReturnKeeps ==
    ASSUME IInv, NEW w \in Contexts, RearmReturn(w) PROVE IInv'
<1>1. /\ w = Owner /\ main # "terminated" /\ Return(w) /\ rearm[w] # "none"
  BY HandlerOwns, ContextFacts DEF RearmReturn
<1>2. /\ taken[w] \in Contexts
      /\ taken' \in [Threads -> Contexts \cup {None}]
      /\ \A u \in Threads : taken'[u] = None
      /\ handed' = handed
      /\ next' \in Contexts
      /\ ShareInv'
  BY <1>1, ReturnStep, ContextFacts
<1>3. next' \in 0..N /\ next' # N
  BY <1>2, NAssumption DEF Contexts
<1>4. pending' \in Seq([kind : Kinds, context : Contexts])
  <2> DEFINE op == [kind |-> rearm[w], context |-> taken[w]]
  <2>1. op \in [kind : Kinds, context : Contexts]
    BY <1>1, <1>2 DEF IInv, TypeOK
  <2>2. pending' = Append(pending, op)
    BY DEF RearmReturn
  <2>3. pending \in Seq([kind : Kinds, context : Contexts])
    BY DEF IInv, TypeOK
  <2> HIDE DEF op
  <2> QED
    BY <2>1, <2>2, <2>3
<1>5. rearm' \in [Contexts -> Kinds \cup {"none"}]
  BY DEF IInv, TypeOK, RearmReturn
<1>6. TypeOK'
  BY <1>2, <1>3, <1>4, <1>5
  DEF IInv, TypeOK, RearmReturn, connVars, runVars, stopVars
<1>7. RearmInv' /\ StopInv'
  BY DEF IInv, TypeOK, RearmInv, StopInv, RearmReturn, runVars, stopVars
<1>8. NoRaceOnIndex' /\ OwnerInv'
  BY <1>2, <1>3, ContextFacts DEF NoRaceOnIndex, OwnerInv
<1> QED
  BY <1>2, <1>6, <1>7, <1>8 DEF IInv

\* Connections, peers and the end of a thread.
LEMMA ConnectionKeeps ==
    ASSUME IInv, NEW c \in Clients,
           Progress(c) \/ Fail(c) \/ ShutdownThrows(c) \/ Connect(c) \/ Reset(c)
    PROVE  IInv'
<1>1. /\ UNCHANGED poolVars /\ UNCHANGED acceptVars
      /\ UNCHANGED <<spawned, finished, stopVars, errors, tls, place>>
      /\ main' \in {main, "terminated"}
  BY DEF Progress, Fail, ShutdownThrows, Connect, Reset, runVars, connVars
<1>2. NoRaceOnIndex' /\ OwnerInv' /\ ShareInv'
  BY <1>1, PoolUntouched
<1>3. conn' \in [Clients -> Pending \cup {"none", "backlog", "closed"}]
  <2>0. conn \in [Clients -> Pending \cup {"none", "backlog", "closed"}]
    BY DEF IInv, TypeOK
  <2>1. CASE Progress(c)
    <3>1. PICK s \in Onward[conn[c]] : conn' = [conn EXCEPT ![c] = s]
      BY <2>1 DEF Progress
    <3>2. conn[c] \in {"reading", "writing", "handshake", "tls_reading", "tls_writing"}
      BY <2>1 DEF Progress, Pending, Onward
    <3>3. s \in {"reading", "writing", "closed", "tls_reading", "tls_writing"}
      BY <3>1, <3>2 DEF Onward
    <3>4. s \in Pending \cup {"closed"}
      BY <3>3 DEF Pending, Onward
    <3> QED
      BY <2>0, <3>1, <3>4
  <2>2. CASE Fail(c) \/ ShutdownThrows(c) \/ Connect(c) \/ Reset(c)
    BY <2>0, <2>2 DEF Fail, ShutdownThrows, Connect, Reset, connVars
  <2> QED
    BY <2>1, <2>2
<1>4. reset' \subseteq Clients
  BY DEF IInv, TypeOK, Progress, Fail, ShutdownThrows, Connect, Reset, connVars
<1>5. TypeOK'
  BY <1>1, <1>3, <1>4 DEF IInv, TypeOK, poolVars, acceptVars, stopVars
<1>6. RearmInv' /\ StopInv'
  BY <1>1 DEF IInv, RearmInv, StopInv, acceptVars, stopVars, TakesContext
<1> QED
  BY <1>2, <1>5, <1>6 DEF IInv

LEMMA StopKeeps ==
    ASSUME IInv,
           \/ StopBegin \/ StopNext \/ Raise
           \/ \E w \in Contexts : Finish(w)
    PROVE  IInv'
<1>1. /\ UNCHANGED poolVars /\ UNCHANGED acceptVars /\ UNCHANGED connVars
      /\ UNCHANGED <<main, spawned, errors, tls>>
  BY DEF StopBegin, StopNext, Raise, Finish
<1>2. NoRaceOnIndex' /\ OwnerInv' /\ ShareInv'
  BY <1>1, PoolUntouched
<1>3. finished' \subseteq Contexts /\ stopped' \subseteq Contexts
  BY DEF IInv, TypeOK, StopInv, StopBegin, StopNext, Raise, Finish, stopVars
<1>4. signal' \in {"none", "raised", "stopping", "handled"} /\ stop_at' \in 0..N
        /\ StopInv'
  BY NAssumption, SMTT(60)
  DEF IInv, TypeOK, StopInv, StopBegin, StopNext, Raise, Finish, stopVars,
      Contexts
<1>5. TypeOK'
  BY <1>1, <1>3, <1>4 DEF IInv, TypeOK, poolVars, acceptVars, connVars
<1>6. RearmInv'
  BY <1>1 DEF IInv, RearmInv, acceptVars
<1> QED
  BY <1>2, <1>4, <1>5, <1>6 DEF IInv

----------------------------------------------------------------------------
\* Every step of every thread keeps the invariant.
THEOREM ServerInvariant == Spec => []IInv
<1>1. IInv /\ [Next]_vars => IInv'
  <2> SUFFICES ASSUME IInv, [Next]_vars PROVE IInv'
    OBVIOUS
  <2>1. CASE MainNext
    BY <2>1, MainTakeKeeps, MainConstructKeeps, MainArmKeeps, MainRunKeeps
    DEF MainNext
  <2>2. CASE AcceptError \/ StopBegin \/ StopNext \/ Raise
    BY <2>2, AcceptErrorKeeps, StopKeeps
  <2>3. CASE \E w \in Contexts : Finish(w) \/ RearmTake(w) \/ RearmReturn(w)
    BY <2>3, StopKeeps, RearmTakeKeeps, RearmReturnKeeps
  <2>4. CASE \E c \in Clients :
                Accept(c) \/ Progress(c) \/ Fail(c) \/ ShutdownThrows(c)
                   \/ Connect(c) \/ Reset(c)
    BY <2>4, AcceptKeeps, ConnectionKeeps
  <2>5. CASE UNCHANGED vars
    BY <2>5
    DEF vars, IInv, TypeOK, RearmInv, NoRaceOnIndex, OwnerInv, Owner, StopInv,
        ShareInv
  <2> QED
    BY <2>1, <2>2, <2>3, <2>4, <2>5 DEF Next
<1> QED
  BY <1>1, InitHolds, PTL DEF Spec

\* For every pool size, the server's variables keep their types: no context
\* past the end of the pool is ever handed out.
THEOREM ServerTypeCorrect == Spec => []TypeOK
<1>1. IInv => TypeOK
  BY DEF IInv
<1> QED
  BY <1>1, ServerInvariant, PTL

\* For every pool size, next_io_context is never used by two threads at once.
THEOREM IndexIsNotShared == Spec => []NoRaceOnIndex
<1>1. IInv => NoRaceOnIndex
  BY DEF IInv
<1> QED
  BY <1>1, ServerInvariant, PTL

\* For every pool size, the sockets are spread evenly over the contexts.
THEOREM LoadIsBalanced == Spec => []BalancedHandout
<1>1. IInv => BalancedHandout
  <2> SUFFICES ASSUME IInv, NEW j \in Contexts, NEW k \in Contexts, j <= k
               PROVE  handed[j] - handed[k] \in {0, 1}
    BY DEF BalancedHandout, Pool!Balanced, Pool!Contexts, Contexts
  <2>1. PICK m \in Nat : \A q \in Contexts :
            handed[q] = m + (IF next # N /\ q < next THEN 1 ELSE 0)
    BY DEF IInv, ShareInv
  <2>2. next \in 0..N
    BY DEF IInv, TypeOK
  <2> QED
    BY <2>1, <2>2, NAssumption DEF Contexts
<1> QED
  BY <1>1, ServerInvariant, PTL

LEMMA TakeIsGet ==
    ASSUME IInv, NEW t \in Threads, t = Owner, main # "terminated", Take(t)
    PROVE  Pool!get_io_context
<1>0. next \in Contexts
  BY TakeStep
<1>1. next \in Contexts /\ next # N /\ next' = next + 1
  BY <1>0, NAssumption DEF Take, Contexts
<1>2. handed \in [Contexts -> Nat]
  BY DEF IInv, TypeOK
<1>3. handed' = [handed EXCEPT ![next] = handed[next] + 1]
  <2>1. handed' = [k \in Contexts |-> handed[k] + (IF k = next THEN 1 ELSE 0)]
    BY DEF Take
  <2>2. \A k \in Contexts : handed[k] \in Nat
    BY <1>2
  <2>3. \A k \in Contexts :
           handed'[k] = [handed EXCEPT ![next] = handed[next] + 1][k]
    BY <1>0, <1>2, <2>1, <2>2
  <2> QED
    BY <1>0, <1>2, <2>1, <2>3
<1> QED
  BY <1>1, <1>3 DEF Pool!get_io_context

LEMMA ReturnIsStutter ==
    ASSUME IInv, NEW t \in Threads, t = Owner, main # "terminated", Return(t)
    PROVE  UNCHANGED Pool!vars
<1>1. next \in 0..N /\ next' = (IF next = N THEN 0 ELSE next) /\ handed' = handed
  BY DEF IInv, TypeOK, Return
<1> QED
  BY <1>1, NAssumption DEF Pool!vars

\* For every pool size, get_io_context as the threads run it is the atomic
\* round robin of IoContextPool.
THEOREM PoolIsRoundRobin == Spec => PoolSpec
<1>1. Init => Pool!Init
  BY NAssumption DEF Init, Pool!Init, Pool!Contexts, Contexts
<1>2. IInv /\ [Next]_vars => [Pool!get_io_context]_(Pool!vars)
  <2> SUFFICES ASSUME IInv, [Next]_vars
               PROVE  Pool!get_io_context \/ UNCHANGED Pool!vars
    OBVIOUS
  <2>0. UNCHANGED poolVars => UNCHANGED Pool!vars
    BY DEF poolVars, Pool!vars
  <2>1. CASE MainTake
    BY <2>1, MainOwns, TakeIsGet, ContextFacts DEF MainTake
  <2>2. CASE MainConstruct \/ MainArm
    <3>1. main \in TakesContext /\ Return(Main)
      BY <2>2 DEF MainConstruct, MainArm, TakesContext
    <3> QED
      BY <3>1, MainOwns, ReturnIsStutter, ContextFacts
  <2>3. ASSUME NEW w \in Contexts, RearmTake(w)
        PROVE  Pool!get_io_context
    BY <2>3, HandlerOwns, TakeIsGet, ContextFacts DEF RearmTake
  <2>4. ASSUME NEW w \in Contexts, RearmReturn(w)
        PROVE  UNCHANGED Pool!vars
    BY <2>4, HandlerOwns, ReturnIsStutter, ContextFacts DEF RearmReturn
  <2>5. CASE Bind \/ Spawn \/ Join \/ AcceptError \/ StopBegin \/ StopNext \/ Raise
    BY <2>0, <2>5 DEF Bind, Spawn, Join, AcceptError, StopBegin, StopNext, Raise
  <2>6. ASSUME NEW w \in Contexts, Finish(w)
        PROVE  UNCHANGED Pool!vars
    BY <2>0, <2>6 DEF Finish
  <2>7. ASSUME NEW c \in Clients,
               Accept(c) \/ Progress(c) \/ Fail(c) \/ ShutdownThrows(c)
                  \/ Connect(c) \/ Reset(c)
        PROVE  UNCHANGED Pool!vars
    BY <2>0, <2>7 DEF Accept, Progress, Fail, ShutdownThrows, Connect, Reset
  <2>8. CASE UNCHANGED vars
    BY <2>0, <2>8 DEF vars, poolVars
  <2> QED
    BY <2>1, <2>2, <2>3, <2>4, <2>5, <2>6, <2>7, <2>8 DEF Next, MainNext
<1> QED
  BY <1>1, <1>2, ServerInvariant, PTL DEF Spec, PoolSpec, Pool!Spec

----------------------------------------------------------------------------
(* The two accepts.                                                        *)

\* Two accepts of kinds j and k are what the server should have under way.
Two(j, k) ==
    IF tls
    THEN \/ j = "do_accept" /\ k = "start_accept"
         \/ j = "start_accept" /\ k = "do_accept"
    ELSE /\ j \in {"do_accept_http", "start_accept_http"}
         /\ k \in {"do_accept_http", "start_accept_http"}

\* None is under way before the first is armed, one before the second; from
\* then on two are pending, or one is and a handler is about to start another.
AcceptsInv ==
    /\ main \in {"take_signals", "take_acceptor", "take_resolver", "bind", "arm_first"}
          => pending = <<>>
    /\ main = "arm_second" =>
          /\ Len(pending) = 1
          /\ pending[1].kind = IF tls THEN "do_accept" ELSE "do_accept_http"
    /\ main \in {"run", "join", "returned"} =>
          \/ /\ Len(pending) = 2 /\ rearm[AcceptorContext] = "none"
             /\ Two(pending[1].kind, pending[2].kind)
          \/ /\ Len(pending) = 1 /\ rearm[AcceptorContext] # "none"
             /\ Two(pending[1].kind, rearm[AcceptorContext])

LEMMA AppendFacts ==
    ASSUME NEW S, NEW q \in Seq(S), NEW e
    PROVE  /\ Len(Append(q, e)) = Len(q) + 1
           /\ Append(q, e)[Len(q) + 1] = e
           /\ \A i \in 1..Len(q) : Append(q, e)[i] = q[i]
OBVIOUS

LEMMA TailFacts ==
    ASSUME NEW S, NEW q \in Seq(S), q # <<>>
    PROVE  /\ Head(q) = q[1]
           /\ Len(Tail(q)) = Len(q) - 1
           /\ \A i \in 1..(Len(q) - 1) : Tail(q)[i] = q[i + 1]
OBVIOUS

\* The main thread arms the two, one after the other.
LEMMA MainArmAccepts ==
    ASSUME IInv, AcceptsInv, MainArm
    PROVE  AcceptsInv'
<1>1. pending \in Seq([kind : Kinds, context : Contexts])
  BY DEF IInv, TypeOK
<1>2. rearm' = rearm /\ tls' = tls
  BY DEF MainArm
<1>3. rearm[AcceptorContext] = "none"
  BY ContextFacts DEF IInv, RearmInv, TypeOK, MainArm, TakesContext, Contexts
<1>4. CASE main = "arm_first"
  <2>1. PICK e : /\ pending' = Append(pending, e)
                 /\ e.kind = IF tls THEN "do_accept" ELSE "do_accept_http"
    BY <1>4 DEF MainArm
  <2>2. pending = <<>> /\ main' = "arm_second"
    BY <1>4 DEF AcceptsInv, MainArm
  <2>3. Len(pending') = 1 /\ pending'[1] = e
    BY <1>1, <2>1, <2>2, AppendFacts
  <2> QED
    BY <1>2, <2>1, <2>2, <2>3 DEF AcceptsInv
<1>5. CASE main = "arm_second"
  <2>1. PICK e : /\ pending' = Append(pending, e)
                 /\ e.kind = IF tls THEN "start_accept" ELSE "start_accept_http"
    BY <1>5 DEF MainArm
  <2>2. /\ Len(pending) = 1 /\ main' = "run"
        /\ pending[1].kind = IF tls THEN "do_accept" ELSE "do_accept_http"
    BY <1>5 DEF AcceptsInv, MainArm
  <2>3. Len(pending') = 2 /\ pending'[1] = pending[1] /\ pending'[2] = e
    <3>1. /\ Len(Append(pending, e)) = Len(pending) + 1
          /\ Append(pending, e)[Len(pending) + 1] = e
          /\ \A i \in 1..Len(pending) : Append(pending, e)[i] = pending[i]
      BY <1>1, AppendFacts
    <3> QED
      BY <2>1, <2>2, <3>1
  <2>4. Two(pending[1].kind, e.kind)
    BY <2>1, <2>2 DEF Two
  <2>5. Two(pending[1].kind, e.kind)'
    BY <1>2, <2>3, <2>4 DEF Two
  <2> QED
    BY <1>2, <1>3, <2>2, <2>3, <2>5 DEF AcceptsInv
<1> QED
  BY <1>4, <1>5 DEF MainArm

\* An accept handler takes one of the two away and is about to start it again.
LEMMA HandlerTailAccepts ==
    ASSUME IInv, AcceptsInv, pending # <<>>, MayRun(AcceptThread(Head(pending))),
           HandlerTail(Head(pending)), main' = main, tls' = tls
    PROVE  AcceptsInv'
<1>1. pending \in Seq([kind : Kinds, context : Contexts])
  BY DEF IInv, TypeOK
<1>2. /\ rearm[AcceptorContext] = "none" /\ AcceptorContext < spawned
      /\ main # "terminated"
  BY DEF MayRun, Idle, AcceptThread, Alive
<1>3. main \in {"run", "join", "returned"}
  <2>1. spawned # 0
    BY <1>2, ContextFacts DEF Contexts
  <2> QED
    BY <1>2, <2>1 DEF IInv, TypeOK, RearmInv
<1>4. Len(pending) = 2 /\ Two(pending[1].kind, pending[2].kind)
  BY <1>2, <1>3 DEF AcceptsInv
<1>5. Len(pending') = 1 /\ pending'[1] = pending[2] /\ Head(pending) = pending[1]
  BY <1>1, <1>4, TailFacts DEF HandlerTail
<1>6. rearm'[AcceptorContext] = Rearmed(pending[1].kind)
  BY <1>5, ContextFacts DEF HandlerTail, AcceptThread, IInv, TypeOK
<1>7. /\ Rearmed(pending[1].kind) # "none"
      /\ Two(pending[2].kind, Rearmed(pending[1].kind))
  BY <1>4 DEF Two, Rearmed
<1>8. Two(pending[1].kind, rearm[AcceptorContext])'
  BY <1>5, <1>6, <1>7 DEF Two
<1> QED
  BY <1>3, <1>5, <1>6, <1>7, <1>8 DEF AcceptsInv

\* It starts it again.
LEMMA RearmReturnAccepts ==
    ASSUME IInv, AcceptsInv, NEW w \in Contexts, RearmReturn(w)
    PROVE  AcceptsInv'
<1>1. pending \in Seq([kind : Kinds, context : Contexts])
  BY DEF IInv, TypeOK
<1>2. /\ w = AcceptorContext /\ rearm[AcceptorContext] # "none"
      /\ spawned # 0 /\ main # "terminated"
  BY HandlerOwns DEF RearmReturn, IInv, RearmInv
<1>3. main \in {"run", "join", "returned"} /\ main' = main /\ tls' = tls
  BY <1>2 DEF IInv, TypeOK, RearmInv, RearmReturn, runVars
<1>4. Len(pending) = 1 /\ Two(pending[1].kind, rearm[AcceptorContext])
  BY <1>2, <1>3 DEF AcceptsInv
<1>5. PICK e : pending' = Append(pending, e) /\ e.kind = rearm[AcceptorContext]
  BY <1>2 DEF RearmReturn
<1>6. Len(pending') = 2 /\ pending'[1] = pending[1] /\ pending'[2] = e
  <2>1. /\ Len(Append(pending, e)) = Len(pending) + 1
        /\ Append(pending, e)[Len(pending) + 1] = e
        /\ \A i \in 1..Len(pending) : Append(pending, e)[i] = pending[i]
    BY <1>1, AppendFacts
  <2> QED
    BY <1>4, <1>5, <2>1
<1>7. rearm'[AcceptorContext] = "none"
  BY <1>2 DEF RearmReturn, IInv, TypeOK
<1>8. Two(pending[1].kind, pending[2].kind)'
  BY <1>3, <1>4, <1>5, <1>6 DEF Two
<1> QED
  BY <1>3, <1>6, <1>7, <1>8 DEF AcceptsInv

\* A step that leaves the accepts alone.
LEMMA AcceptsUntouched ==
    ASSUME IInv, AcceptsInv, UNCHANGED acceptVars, tls' = tls,
           \/ main' = main
           \/ main' = "terminated"
           \/ /\ main \in {"take_signals", "take_acceptor", "take_resolver", "bind"}
              /\ main' \in {"take_acceptor", "take_resolver", "bind", "arm_first"}
           \/ main \in {"run", "join"} /\ main' \in {"run", "join", "returned"}
    PROVE  AcceptsInv'
<1>1. \A j, k : Two(j, k)' <=> Two(j, k)
  BY DEF Two
<1>2. pending' = pending /\ rearm' = rearm
  BY DEF acceptVars
<1> QED
  BY <1>1, <1>2 DEF AcceptsInv

LEMMA AcceptsInvariant == Spec => []AcceptsInv
<1>1. Init => AcceptsInv
  BY DEF Init, AcceptsInv
<1>2. IInv /\ AcceptsInv /\ [Next]_vars => AcceptsInv'
  <2> SUFFICES ASSUME IInv, AcceptsInv, [Next]_vars
               PROVE  AcceptsInv'
    OBVIOUS
  <2>1. CASE MainTake \/ MainConstruct \/ Bind \/ Spawn \/ Join
    <3>1. UNCHANGED acceptVars /\ tls' = tls
      BY <2>1 DEF MainTake, MainConstruct, Bind, Spawn, Join
    <3>2. \/ main' = main
          \/ main' = "terminated"
          \/ /\ main \in {"take_signals", "take_acceptor", "take_resolver", "bind"}
             /\ main' \in {"take_acceptor", "take_resolver", "bind", "arm_first"}
          \/ main \in {"run", "join"} /\ main' \in {"run", "join", "returned"}
      BY <2>1 DEF MainTake, MainConstruct, Bind, Spawn, Join, runVars
    <3> QED
      BY <3>1, <3>2, AcceptsUntouched
  <2>2. CASE MainArm
    BY <2>2, MainArmAccepts
  <2>3. CASE AcceptError
    BY <2>3, HandlerTailAccepts DEF AcceptError, runVars
  <2>4. CASE StopBegin \/ StopNext \/ Raise
    BY <2>4, AcceptsUntouched DEF StopBegin, StopNext, Raise
  <2>5. ASSUME NEW w \in Contexts, Finish(w) \/ RearmTake(w)
        PROVE  AcceptsInv'
    BY <2>5, AcceptsUntouched DEF Finish, RearmTake, runVars
  <2>6. ASSUME NEW w \in Contexts, RearmReturn(w)
        PROVE  AcceptsInv'
    BY <2>6, RearmReturnAccepts
  <2>7. ASSUME NEW c \in Clients, Accept(c)
        PROVE  AcceptsInv'
    BY <2>7, HandlerTailAccepts DEF Accept, runVars
  <2>8. ASSUME NEW c \in Clients,
               Progress(c) \/ Fail(c) \/ ShutdownThrows(c) \/ Connect(c) \/ Reset(c)
        PROVE  AcceptsInv'
    BY <2>8, AcceptsUntouched
    DEF Progress, Fail, ShutdownThrows, Connect, Reset, runVars
  <2>9. CASE UNCHANGED vars
    BY <2>9, AcceptsUntouched DEF vars, acceptVars
  <2> QED
    BY <2>1, <2>2, <2>3, <2>4, <2>5, <2>6, <2>7, <2>8, <2>9 DEF Next, MainNext
<1> QED
  BY <1>1, <1>2, ServerInvariant, PTL DEF Spec

\* How many of one or two accepts are of a kind.
LEMMA CountTwo ==
    ASSUME NEW q, DOMAIN q = 1..2, NEW kind
    PROVE  Cardinality({k \in DOMAIN q : q[k].kind = kind}) =
              (IF q[1].kind = kind THEN 1 ELSE 0) + (IF q[2].kind = kind THEN 1 ELSE 0)
<1>1. CASE q[1].kind = kind /\ q[2].kind = kind
  <2>1. {k \in DOMAIN q : q[k].kind = kind} = {1} \cup {2}
    BY <1>1
  <2>2. IsFiniteSet({1}) /\ Cardinality({1}) = 1
    BY FS_Singleton
  <2>3. Cardinality({1} \cup {2}) = 2
    BY <2>2, FS_AddElement
  <2> QED
    BY <1>1, <2>1, <2>3
<1>2. CASE q[1].kind = kind /\ q[2].kind # kind
  <2>1. {k \in DOMAIN q : q[k].kind = kind} = {1}
    BY <1>2
  <2> QED
    BY <1>2, <2>1, FS_Singleton
<1>3. CASE q[1].kind # kind /\ q[2].kind = kind
  <2>1. {k \in DOMAIN q : q[k].kind = kind} = {2}
    BY <1>3
  <2> QED
    BY <1>3, <2>1, FS_Singleton
<1>4. CASE q[1].kind # kind /\ q[2].kind # kind
  <2>1. {k \in DOMAIN q : q[k].kind = kind} = {}
    BY <1>4
  <2> QED
    BY <1>4, <2>1, FS_EmptySet
<1> QED
  BY <1>1, <1>2, <1>3, <1>4

LEMMA CountOne ==
    ASSUME NEW q, DOMAIN q = 1..1, NEW kind
    PROVE  Cardinality({k \in DOMAIN q : q[k].kind = kind}) =
              (IF q[1].kind = kind THEN 1 ELSE 0)
<1>1. CASE q[1].kind = kind
  <2>1. {k \in DOMAIN q : q[k].kind = kind} = {1}
    BY <1>1
  <2> QED
    BY <1>1, <2>1, FS_Singleton
<1>2. CASE q[1].kind # kind
  <2>1. {k \in DOMAIN q : q[k].kind = kind} = {}
    BY <1>2
  <2> QED
    BY <1>2, <2>1, FS_EmptySet
<1> QED
  BY <1>1, <1>2

LEMMA CountRearm ==
    ASSUME IInv, NEW kind, kind # "none"
    PROVE  Cardinality({w \in Contexts : rearm[w] = kind}) =
              (IF rearm[AcceptorContext] = kind THEN 1 ELSE 0)
<1>0. \A w \in Contexts : rearm[w] = kind => w = AcceptorContext
  BY DEF IInv, RearmInv
<1>1. CASE rearm[AcceptorContext] = kind
  <2>1. {w \in Contexts : rearm[w] = kind} = {AcceptorContext}
    BY <1>0, <1>1, ContextFacts
  <2> QED
    BY <1>1, <2>1, FS_Singleton
<1>2. CASE rearm[AcceptorContext] # kind
  <2>1. {w \in Contexts : rearm[w] = kind} = {}
    BY <1>0, <1>2
  <2> QED
    BY <1>2, <2>1, FS_EmptySet
<1> QED
  BY <1>1, <1>2

\* For every pool size, any number of clients and of failed accepts, the
\* handlers of do_accept and start_accept keep two accepts under way: with TLS
\* one of each kind, without it two plain ones.
THEOREM TwoAcceptsKept == Spec => []TwoAccepts
<1>1. IInv /\ AcceptsInv => TwoAccepts
  <2> SUFFICES ASSUME IInv, AcceptsInv, main \in {"run", "join"}
               PROVE  TwoAccepts
    BY DEF TwoAccepts
  <2> DEFINE Count(kind) ==
                Cardinality({k \in DOMAIN pending : pending[k].kind = kind})
                  + Cardinality({w \in Contexts : rearm[w] = kind})
             One(x, kind) == IF x = kind THEN 1 ELSE 0
  <2>1. PICK j, k : /\ Two(j, k)
                    /\ \A kind \in Kinds : Count(kind) = One(j, kind) + One(k, kind)
    <3>1. pending \in Seq([kind : Kinds, context : Contexts])
      BY DEF IInv, TypeOK
    <3>2. \A kind \in Kinds :
            Cardinality({w \in Contexts : rearm[w] = kind})
               = One(rearm[AcceptorContext], kind)
      BY CountRearm DEF Kinds
    <3>3. CASE /\ Len(pending) = 2 /\ rearm[AcceptorContext] = "none"
               /\ Two(pending[1].kind, pending[2].kind)
      <4>1. DOMAIN pending = 1..2
        BY <3>1, <3>3
      <4>2. \A kind \in Kinds :
              Cardinality({k \in DOMAIN pending : pending[k].kind = kind})
                 = One(pending[1].kind, kind) + One(pending[2].kind, kind)
        BY <4>1, CountTwo
      <4>3. \A kind \in Kinds : One(rearm[AcceptorContext], kind) = 0
        BY <3>3 DEF Kinds
      <4>4. \A kind \in Kinds :
              Count(kind) = One(pending[1].kind, kind) + One(pending[2].kind, kind)
        BY <3>2, <4>2, <4>3
      <4> QED
        BY <3>3, <4>4
    <3>4. CASE /\ Len(pending) = 1 /\ rearm[AcceptorContext] # "none"
               /\ Two(pending[1].kind, rearm[AcceptorContext])
      <4>1. DOMAIN pending = 1..1
        BY <3>1, <3>4
      <4>2. \A kind \in Kinds :
              Cardinality({k \in DOMAIN pending : pending[k].kind = kind})
                 = One(pending[1].kind, kind)
        BY <4>1, CountOne
      <4>3. \A kind \in Kinds :
              Count(kind) = One(pending[1].kind, kind) + One(rearm[AcceptorContext], kind)
        BY <3>2, <4>2
      <4> QED
        BY <3>4, <4>3
    <3> QED
      BY <3>3, <3>4 DEF AcceptsInv
  <2>2. CASE tls
    <3>1. Count("do_accept") = 1 /\ Count("start_accept") = 1
      <4> HIDE DEF Count
      <4> QED
        BY <2>1, <2>2 DEF Two, Kinds
    <3> QED
      BY <2>2, <3>1 DEF TwoAccepts
  <2>3. CASE ~tls
    <3>1. Count("do_accept_http") + Count("start_accept_http") = 2
      <4> HIDE DEF Count
      <4> QED
        BY <2>1, <2>3 DEF Two, Kinds
    <3> QED
      BY <2>3, <3>1 DEF TwoAccepts
  <2> QED
    BY <2>2, <2>3
<1> QED
  BY <1>1, AcceptsInvariant, ServerInvariant, PTL

----------------------------------------------------------------------------
(* After listen_and_serve has returned.                                    *)

\* A thread that has finished is in no handler and its context is stopped; the
\* main thread returns when all have; a connection has a context.
QuietInv ==
    /\ \A w \in finished : w \in stopped /\ rearm[w] = "none" /\ taken[w] = None
    /\ SignalContext \in finished => signal # "stopping"
    /\ main = "returned" => finished = Contexts
    /\ \A c \in Clients : conn[c] \in Pending => place[c] \in Contexts

\* The threads of accept handlers have not finished.
LEMMA HandlerTailQuiet ==
    ASSUME IInv, QuietInv, pending # <<>>, MayRun(AcceptThread(Head(pending))),
           HandlerTail(Head(pending)), UNCHANGED <<poolVars, runVars>>
    PROVE  \A w \in finished' : w \in stopped' /\ rearm'[w] = "none" /\ taken'[w] = None
<1>1. AcceptorContext \notin finished
  BY DEF MayRun, Idle, AcceptThread
<1>2. UNCHANGED <<finished, stopped, taken>>
  BY DEF runVars, stopVars, poolVars
<1>3. \A w \in Contexts : w # AcceptorContext => rearm'[w] = rearm[w]
  BY DEF HandlerTail, AcceptThread, IInv, TypeOK
<1> QED
  BY <1>1, <1>2, <1>3 DEF IInv, TypeOK, QuietInv

LEMMA QuietInvStep ==
    ASSUME IInv, QuietInv, [Next]_vars
    PROVE  QuietInv'
<1>1. CASE MainTake \/ MainConstruct \/ MainArm
  <2>1. /\ UNCHANGED <<rearm, finished, stopped, signal, conn, place>>
        /\ main' # "returned"
    BY <1>1 DEF MainTake, MainConstruct, MainArm, acceptVars, connVars, runVars,
                stopVars, TakesContext
  <2>2. \A w \in Contexts : taken'[w] = taken[w]
    BY <1>1, ContextFacts
    DEF MainTake, MainConstruct, MainArm, Take, Return, IInv, TypeOK
  <2> QED
    BY <2>1, <2>2 DEF QuietInv, IInv, TypeOK
<1>2. CASE Bind \/ Spawn \/ Join
  <2>1. UNCHANGED <<rearm, taken, finished, stopped, signal, conn, place>>
    BY <1>2 DEF Bind, Spawn, Join, acceptVars, connVars, poolVars, stopVars
  <2>2. main' = "returned" => finished = Contexts
    BY <1>2 DEF Bind, Spawn, Join
  <2> QED
    BY <2>1, <2>2 DEF QuietInv
<1>3. CASE AcceptError
  <2>1. \A w \in finished' : w \in stopped' /\ rearm'[w] = "none" /\ taken'[w] = None
    BY <1>3, HandlerTailQuiet DEF AcceptError
  <2>2. UNCHANGED <<finished, signal, main, conn, place>>
    BY <1>3 DEF AcceptError, runVars, stopVars, connVars
  <2> QED
    BY <2>1, <2>2 DEF QuietInv
<1>4. CASE StopBegin
  <2>1. SignalContext \notin finished
    BY <1>4 DEF StopBegin, MayRun, Idle
  <2>2. UNCHANGED <<rearm, taken, finished, stopped, conn, place, main>>
    BY <1>4 DEF StopBegin, acceptVars, connVars, poolVars
  <2> QED
    BY <2>1, <2>2 DEF QuietInv
<1>5. CASE StopNext
  <2>1. /\ signal = "stopping" /\ stopped \subseteq stopped'
        /\ UNCHANGED <<rearm, taken, finished, conn, place, main>>
    BY <1>5 DEF StopNext, acceptVars, connVars, poolVars
  <2> QED
    BY <2>1 DEF QuietInv
<1>6. CASE Raise
  <2>1. /\ signal' = "raised"
        /\ UNCHANGED <<rearm, taken, finished, stopped, conn, place, main>>
    BY <1>6 DEF Raise, acceptVars, connVars, poolVars
  <2> QED
    BY <2>1 DEF QuietInv
<1>7. ASSUME NEW w \in Contexts, Finish(w)
      PROVE  QuietInv'
  <2>1. /\ Idle(w) /\ w \in stopped /\ finished' = finished \cup {w}
        /\ UNCHANGED <<rearm, taken, stopped, signal, conn, place, main>>
    BY <1>7 DEF Finish, acceptVars, connVars, poolVars, stopVars
  <2>2. taken[w] = None /\ rearm[w] = "none" /\ (w = SignalContext => signal # "stopping")
    BY <2>1 DEF Idle
  <2>3. finished \subseteq Contexts
    BY DEF IInv, TypeOK
  <2> QED
    BY <2>1, <2>2, <2>3 DEF QuietInv
<1>8. ASSUME NEW w \in Contexts, RearmTake(w) \/ RearmReturn(w)
      PROVE  QuietInv'
  <2>1. /\ rearm[w] # "none"
        /\ UNCHANGED <<finished, stopped, signal, conn, place, main>>
    BY <1>8 DEF RearmTake, RearmReturn, connVars, runVars, stopVars
  <2>2. w \notin finished
    BY <2>1 DEF QuietInv
  <2>3. \A v \in Contexts : v # w => taken'[v] = taken[v] /\ rearm'[v] = rearm[v]
    BY <1>8, ContextFacts
    DEF RearmTake, RearmReturn, Take, Return, acceptVars, IInv, TypeOK
  <2> QED
    BY <2>1, <2>2, <2>3 DEF QuietInv, IInv, TypeOK
<1>9. ASSUME NEW c \in Clients, Accept(c)
      PROVE  QuietInv'
  <2>1. \A w \in finished' : w \in stopped' /\ rearm'[w] = "none" /\ taken'[w] = None
    BY <1>9, HandlerTailQuiet DEF Accept
  <2>2. UNCHANGED <<finished, signal, main>>
    BY <1>9 DEF Accept, runVars, stopVars
  <2>3. Head(pending) \in [kind : Kinds, context : Contexts]
    BY <1>9, HandlerTailKeeps DEF Accept
  <2>4. \A d \in Clients : conn'[d] \in Pending => place'[d] \in Contexts
    <3>1. \A d \in Clients : d # c => conn'[d] = conn[d] /\ place'[d] = place[d]
      BY <1>9 DEF Accept, IInv, TypeOK
    <3>2. place'[c] \in Contexts
      BY <1>9, <2>3 DEF Accept, IInv, TypeOK
    <3> QED
      BY <3>1, <3>2 DEF QuietInv
  <2> QED
    BY <2>1, <2>2, <2>4 DEF QuietInv
<1>10. ASSUME NEW c \in Clients,
              Progress(c) \/ Fail(c) \/ ShutdownThrows(c) \/ Connect(c) \/ Reset(c)
       PROVE  QuietInv'
  <2>1. /\ UNCHANGED <<rearm, taken, finished, stopped, signal, place>>
        /\ main' = main \/ main' = "terminated"
    BY <1>10 DEF Progress, Fail, ShutdownThrows, Connect, Reset, acceptVars,
                 poolVars, connVars, runVars, stopVars
  <2>2. ASSUME NEW d \in Clients, conn'[d] \in Pending
        PROVE  place'[d] \in Contexts
    <3>1. conn[d] \in Pending
      <4>1. CASE d # c
        <5>1. conn'[d] = conn[d]
          BY <1>10, <4>1 DEF Progress, Fail, ShutdownThrows, Connect, Reset,
                             connVars, IInv, TypeOK
        <5> QED
          BY <2>2, <5>1
      <4>2. CASE d = c /\ ~Connect(c)
        BY <1>10, <2>2, <4>2 DEF Progress, Fail, ShutdownThrows, Reset, connVars
      <4>3. CASE d = c /\ Connect(c)
        <5>1. conn'[d] = "backlog"
          BY <4>3 DEF Connect, IInv, TypeOK
        <5> QED
          BY <2>2, <5>1 DEF Pending, Onward
      <4> QED
        BY <4>1, <4>2, <4>3
    <3> QED
      BY <2>1, <3>1 DEF QuietInv
  <2> QED
    BY <2>1, <2>2 DEF QuietInv
<1>11. CASE UNCHANGED vars
  BY <1>11 DEF vars, QuietInv
<1> QED
  BY <1>1, <1>2, <1>3, <1>4, <1>5, <1>6, <1>7, <1>8, <1>9, <1>10, <1>11
  DEF Next, MainNext

\* For every pool size and any clients: when listen_and_serve has returned no
\* handler of an accept, a connection or a signal runs any more, and no
\* thread is inside get_io_context.
THEOREM QuietWhenReturned == Spec => QuietAfterReturn
<1>1. Init => QuietInv
  BY DEF Init, QuietInv, Pending, Onward
<1>2. IInv /\ QuietInv /\ [Next]_vars => QuietInv'
  BY QuietInvStep
<1>3. IInv /\ QuietInv /\ [Next]_vars =>
         [main = "returned" => UNCHANGED <<conn, pending, rearm, taken, stopped>>]_vars
  <2> SUFFICES ASSUME IInv, QuietInv, [Next]_vars, main = "returned"
               PROVE  UNCHANGED <<conn, pending, rearm, taken, stopped>>
    OBVIOUS
  <2>1. finished = Contexts
    BY DEF QuietInv
  <2>2. \A w \in Contexts : ~MayRun(w) /\ ~Idle(w) /\ rearm[w] = "none"
    BY <2>1 DEF QuietInv, MayRun, Idle
  <2>3. signal # "stopping"
    BY <2>1, ContextFacts DEF QuietInv
  <2>4. ~MainNext
    BY DEF MainNext, MainTake, MainConstruct, Bind, MainArm, Spawn, Join, TakesContext
  <2>5. ~(AcceptError \/ StopBegin \/ StopNext \/ Raise)
    BY <2>2, <2>3, ContextFacts
    DEF AcceptError, AcceptThread, StopBegin, StopNext, Raise
  <2>6. ASSUME NEW w \in Contexts
        PROVE  ~(Finish(w) \/ RearmTake(w) \/ RearmReturn(w))
    BY <2>2 DEF Finish, RearmTake, RearmReturn
  <2>7. ASSUME NEW c \in Clients
        PROVE  ~(Accept(c) \/ Progress(c) \/ Fail(c) \/ ShutdownThrows(c) \/ Connect(c))
    <3>1. ~Accept(c) /\ ~Connect(c)
      BY <2>2, ContextFacts DEF Accept, AcceptThread, Connect
    <3>2. conn[c] \in Pending => ~MayRun(place[c])
      BY <2>2 DEF QuietInv
    <3>3. "writing" \in Pending
      BY DEF Pending, Onward
    <3> QED
      BY <3>1, <3>2, <3>3 DEF Progress, Fail, ShutdownThrows
  <2>8. ASSUME NEW c \in Clients, Reset(c)
        PROVE  UNCHANGED <<conn, pending, rearm, taken, stopped>>
    BY <2>8 DEF Reset, poolVars, acceptVars, runVars, stopVars
  <2>9. CASE UNCHANGED vars
    BY <2>9 DEF vars
  <2> QED
    BY <2>4, <2>5, <2>6, <2>7, <2>8, <2>9 DEF Next
<1> QED
  BY <1>1, <1>2, <1>3, ServerInvariant, PTL DEF Spec, QuietAfterReturn
=============================================================================
