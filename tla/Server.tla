------------------------------- MODULE Server -------------------------------
(***************************************************************************)
(* whz::server with its io_context_pool: the main thread constructs the    *)
(* server, binds, arms two accept operations and runs one thread per       *)
(* io_context; the threads run accept, connection and signal handlers.     *)
(*                                                                         *)
(* An io_context runs one handler at a time, on its only thread, and       *)
(* starts none once it is stopped.  get_io_context is not atomic: it is    *)
(* called (reads and increments the index) and returns (wraps the index)   *)
(* in two steps.  A connection is its pending operation; what it reads and *)
(* writes is the subject of Connection.                                    *)
(***************************************************************************)
EXTENDS Integers, Sequences, FiniteSets

CONSTANTS
    N,          \* io_pool_size
    Clients,    \* each connects at most once
    MaxErrors   \* bound on the accept operations that fail

ASSUME NAssumption == N \in Nat \ {0}
ASSUME MaxErrorsAssumption == MaxErrors \in Nat

Contexts == 0..(N - 1)
Main == N                       \* the main thread; the others are Contexts
Threads == 0..N
None == -1

\* The first two contexts that the constructor takes from the pool.
SignalContext == 0
AcceptorContext == IF N = 1 THEN 0 ELSE 1

Kinds == {"do_accept_http", "start_accept_http", "do_accept", "start_accept"}

VARIABLES
    main,       \* what the main thread is about to do
    next,       \* next_io_context
    taken,      \* per thread: the context a get_io_context will return, or None
    handed,     \* history: how often each context was taken
    pending,    \* the accept operations of acceptor_, oldest first
    rearm,      \* per thread: the accept its handler is about to start
    conn,       \* per client: the state of its connection
    place,      \* per client: the io_context of its socket, or None
    reset,      \* the clients that have reset their connection
    spawned,    \* how many threads run() has started
    finished,   \* the threads whose context->run() has returned
    signal,     \* SIGINT, SIGTERM or SIGQUIT: where its handling is
    stop_at,    \* the loop of io_context_pool::stop(): the context to stop next
    stopped,    \* the contexts that are stopped
    errors,     \* how many accepts have failed
    tls         \* which listen_and_serve main calls: with a tls_context or not

acceptVars == <<pending, rearm>>
poolVars == <<next, taken, handed>>
connVars == <<conn, place, reset>>
stopVars == <<signal, stop_at, stopped>>
runVars == <<main, spawned, finished, stopVars>>
vars == <<main, next, taken, handed, pending, rearm, conn, place, reset,
          spawned, finished, signal, stop_at, stopped, errors, tls>>

Init ==
    /\ main = "take_signals"
    /\ next = 0
    /\ taken = [t \in Threads |-> None]
    /\ handed = [k \in Contexts |-> 0]
    /\ pending = <<>>
    /\ rearm = [k \in Contexts |-> "none"]
    /\ conn = [c \in Clients |-> "none"]
    /\ place = [c \in Clients |-> None]
    /\ reset = {}
    /\ spawned = 0
    /\ finished = {}
    /\ signal = "none"
    /\ stop_at = 0
    /\ stopped = {}
    /\ errors = 0
    /\ tls \in BOOLEAN

Alive == main # "terminated"

----------------------------------------------------------------------------
(* io_context_pool::get_io_context.                                        *)

\* io_contexts_[next_io_context], ++next_io_context
Take(t) ==
    /\ taken[t] = None
    /\ taken' = [taken EXCEPT ![t] = next]
    /\ handed' = [k \in Contexts |-> handed[k] + (IF k = next THEN 1 ELSE 0)]
    /\ next' = next + 1

\* Mutant: the index wraps one context too early.
Return_early(t) ==
    /\ taken[t] # None
    /\ taken' = [taken EXCEPT ![t] = None]
    /\ next' = IF next >= N - 1 THEN 0 ELSE next
    /\ UNCHANGED handed

\* Mutant: the index wraps one context too late.
Return_late(t) ==
    /\ taken[t] # None
    /\ taken' = [taken EXCEPT ![t] = None]
    /\ next' = IF next > N THEN 0 ELSE next
    /\ UNCHANGED handed

\* if (next_io_context == io_contexts_.size()) next_io_context = 0, return
Return(t) ==
    /\ taken[t] # None
    /\ taken' = [taken EXCEPT ![t] = None]
    /\ next' = IF next = N THEN 0 ELSE next
    /\ UNCHANGED handed

----------------------------------------------------------------------------
(* The main thread.                                                        *)

TakesContext ==
    {"take_signals", "take_acceptor", "take_resolver", "arm_first", "arm_second"}

MainTake ==
    /\ main \in TakesContext
    /\ Take(Main)
    /\ UNCHANGED <<acceptVars, connVars, runVars, errors, tls>>

\* server::server: signals_ and acceptor_ are constructed, in this order;
\* bind_and_listen (with TLS) takes a context for a resolver it does not use.
MainConstruct ==
    /\ main \in {"take_signals", "take_acceptor", "take_resolver"}
    /\ Return(Main)
    /\ main' = CASE main = "take_signals" -> "take_acceptor"
                 [] main = "take_acceptor" -> IF tls THEN "take_resolver" ELSE "bind"
                 [] main = "take_resolver" -> "bind"
    /\ UNCHANGED <<acceptVars, connVars, spawned, finished, stopVars, errors, tls>>

\* resolve, open, bind and listen; each of them throws when it fails, and
\* nobody catches it.
Bind ==
    /\ main = "bind"
    /\ main' \in {"arm_first", "terminated"}
    /\ UNCHANGED <<poolVars, acceptVars, connVars, spawned, finished, stopVars>>
    /\ UNCHANGED <<errors, tls>>

\* do_accept_http() at the end of bind_and_listen_http, then
\* start_accept_http(); do_accept() and start_accept() with TLS.
MainArm ==
    /\ main \in {"arm_first", "arm_second"}
    /\ Return(Main)
    /\ pending' = Append(pending,
          [kind |-> IF main = "arm_first"
                    THEN IF tls THEN "do_accept" ELSE "do_accept_http"
                    ELSE IF tls THEN "start_accept" ELSE "start_accept_http",
           context |-> taken[Main]])
    /\ main' = IF main = "arm_first" THEN "arm_second" ELSE "run"
    /\ UNCHANGED <<rearm, connVars, spawned, finished, stopVars, errors, tls>>

\* io_context_pool::run: one jthread per context, in order.
Spawn ==
    /\ main = "run"
    /\ spawned < N
    /\ spawned' = spawned + 1
    /\ main' = IF spawned' = N THEN "join" ELSE "run"
    /\ UNCHANGED <<poolVars, acceptVars, connVars, finished, stopVars, errors, tls>>

\* Mutant: the threads are detached.
Join_detached ==
    /\ main = "join"
    /\ main' = "returned"
    /\ UNCHANGED <<poolVars, acceptVars, connVars, spawned, finished, stopVars>>
    /\ UNCHANGED <<errors, tls>>

\* The destructors of the jthreads join them; listen_and_serve returns.
Join ==
    /\ main = "join"
    /\ finished = Contexts
    /\ main' = "returned"
    /\ UNCHANGED <<poolVars, acceptVars, connVars, spawned, finished, stopVars>>
    /\ UNCHANGED <<errors, tls>>

----------------------------------------------------------------------------
(* The threads of the pool.                                                *)

\* Thread w is inside context->run() and in no handler.
Idle(w) ==
    /\ w < spawned
    /\ w \notin finished
    /\ taken[w] = None
    /\ rearm[w] = "none"
    /\ ~(w = SignalContext /\ signal = "stopping")

\* Thread w may start a handler.
MayRun(w) == Alive /\ Idle(w) /\ w \notin stopped

\* context->run() returns once the context is stopped.
Finish(w) ==
    /\ Alive
    /\ Idle(w)
    /\ w \in stopped
    /\ finished' = finished \cup {w}
    /\ UNCHANGED <<main, poolVars, acceptVars, connVars, spawned, stopVars>>
    /\ UNCHANGED <<errors, tls>>

\* Mutant: the handler runs on the context of the new socket.
AcceptThread_socket(op) == op.context

\* The handler of async_accept runs on the acceptor's executor.
AcceptThread(op) == AcceptorContext

\* The accept that a handler starts at its end.
Rearmed(kind) ==
    IF kind = "start_accept_http" THEN "do_accept_http" ELSE kind

\* Mutant: the accept handler of start_accept_http does not start another.
HandlerTail_once(op) ==
    /\ pending' = Tail(pending)
    /\ rearm' = [rearm EXCEPT ![AcceptThread(op)] =
                    IF op.kind = "start_accept_http" THEN "none" ELSE op.kind]

\* The acceptor is open for as long as the server lives: no handler returns
\* at its !acceptor_.is_open().
HandlerTail(op) ==
    /\ pending' = Tail(pending)
    /\ rearm' = [rearm EXCEPT ![AcceptThread(op)] = Rearmed(op.kind)]

\* A client has connected: the oldest accept completes, its handler makes a
\* connection (an ssl_connection in start_accept) and starts it.
Accept(c) ==
    /\ pending # <<>>
    /\ conn[c] = "backlog"
    /\ LET op == Head(pending)
       IN  /\ MayRun(AcceptThread(op))
           /\ conn' = [conn EXCEPT ![c] =
                          IF op.kind = "start_accept" THEN "handshake" ELSE "reading"]
           /\ place' = [place EXCEPT ![c] = op.context]
           /\ HandlerTail(op)
    /\ UNCHANGED <<poolVars, reset, runVars, errors, tls>>

\* Mutant: a failed accept is not repeated.
AcceptError_final ==
    /\ pending # <<>>
    /\ errors < MaxErrors
    /\ MayRun(AcceptThread(Head(pending)))
    /\ pending' = Tail(pending)
    /\ errors' = errors + 1
    /\ UNCHANGED <<rearm, poolVars, connVars, runVars, tls>>

\* The oldest accept fails.  do_accept makes a connection all the same, whose
\* first read fails at once: it leaves nothing behind.
AcceptError ==
    /\ pending # <<>>
    /\ errors < MaxErrors
    /\ LET op == Head(pending)
       IN  MayRun(AcceptThread(op)) /\ HandlerTail(op)
    /\ errors' = errors + 1
    /\ UNCHANGED <<poolVars, connVars, runVars, tls>>

RearmTake(w) ==
    /\ Alive
    /\ rearm[w] # "none"
    /\ Take(w)
    /\ UNCHANGED <<acceptVars, connVars, runVars, errors, tls>>

RearmReturn(w) ==
    /\ Alive
    /\ rearm[w] # "none"
    /\ Return(w)
    /\ pending' = Append(pending, [kind |-> rearm[w], context |-> taken[w]])
    /\ rearm' = [rearm EXCEPT ![w] = "none"]
    /\ UNCHANGED <<connVars, runVars, errors, tls>>

----------------------------------------------------------------------------
(* Connections: the completion handlers of whz::connection (reading,       *)
(* writing) and whz::ssl_connection (handshake, tls_reading, tls_writing). *)

\* A successful completion starts the next operation.
Onward ==
    [reading |-> {"reading", "writing"}, writing |-> {"closed"},
     handshake |-> {"tls_reading"}, tls_reading |-> {"tls_writing"},
     tls_writing |-> {"tls_reading"}]

Pending == DOMAIN Onward

Progress(c) ==
    /\ conn[c] \in Pending
    /\ c \notin reset
    /\ MayRun(place[c])
    /\ conn' \in {[conn EXCEPT ![c] = s] : s \in Onward[conn[c]]}
    /\ UNCHANGED <<poolVars, acceptVars, place, reset, runVars, errors, tls>>

\* The operation fails: the peer closed or reset the connection.  Every
\* handler but connection::do_write's lets the connection go.
Fail(c) ==
    /\ conn[c] \in Pending \ {"writing"}
    /\ MayRun(place[c])
    /\ conn' = [conn EXCEPT ![c] = "closed"]
    /\ UNCHANGED <<poolVars, acceptVars, place, reset, runVars, errors, tls>>

\* The handler of do_write ignores the error and calls socket_.shutdown,
\* which throws if the connection is gone: the exception leaves the thread.
ShutdownThrows(c) ==
    /\ conn[c] = "writing"
    /\ c \in reset
    /\ MayRun(place[c])
    /\ main' = "terminated"
    /\ UNCHANGED <<poolVars, acceptVars, connVars, spawned, finished, stopVars>>
    /\ UNCHANGED <<errors, tls>>

----------------------------------------------------------------------------
(* Signals.                                                                *)

\* server::do_await_stop: the handler calls io_context_pool::stop(), which
\* stops the contexts one after the other.
StopBegin ==
    /\ signal = "raised"
    /\ MayRun(SignalContext)
    /\ signal' = "stopping"
    /\ UNCHANGED <<main, poolVars, acceptVars, connVars, spawned, finished,
                   stop_at, stopped, errors, tls>>

\* Mutant: the loop ends before the last context.
StopNext_short ==
    /\ Alive
    /\ signal = "stopping"
    /\ stopped' = IF stop_at + 1 < N THEN stopped \cup {stop_at} ELSE stopped
    /\ stop_at' = stop_at + 1
    /\ signal' = IF stop_at' = N THEN "handled" ELSE signal
    /\ UNCHANGED <<main, poolVars, acceptVars, connVars, spawned, finished>>
    /\ UNCHANGED <<errors, tls>>

StopNext ==
    /\ Alive
    /\ signal = "stopping"
    /\ stopped' = stopped \cup {stop_at}
    /\ stop_at' = stop_at + 1
    /\ signal' = IF stop_at' = N THEN "handled" ELSE signal
    /\ UNCHANGED <<main, poolVars, acceptVars, connVars, spawned, finished>>
    /\ UNCHANGED <<errors, tls>>

----------------------------------------------------------------------------
(* The environment.                                                        *)

Raise ==
    /\ Alive
    /\ main \notin {"take_signals", "take_acceptor", "returned"}
    /\ signal = "none"
    /\ signal' = "raised"
    /\ UNCHANGED <<main, poolVars, acceptVars, connVars, spawned, finished,
                   stop_at, stopped, errors, tls>>

\* The kernel completes a connection to the listening port.
Connect(c) ==
    /\ main \in {"arm_first", "arm_second", "run", "join"}
    /\ conn[c] = "none"
    /\ conn' = [conn EXCEPT ![c] = "backlog"]
    /\ UNCHANGED <<poolVars, acceptVars, place, reset, runVars, errors, tls>>

Reset(c) ==
    /\ Alive
    /\ conn[c] \in Pending
    /\ c \notin reset
    /\ reset' = reset \cup {c}
    /\ UNCHANGED <<poolVars, acceptVars, conn, place, runVars, errors, tls>>

MainNext == MainTake \/ MainConstruct \/ Bind \/ MainArm \/ Spawn \/ Join

Next ==
    \/ MainNext
    \/ AcceptError \/ StopBegin \/ StopNext \/ Raise
    \/ \E w \in Contexts : Finish(w) \/ RearmTake(w) \/ RearmReturn(w)
    \/ \E c \in Clients :
          Accept(c) \/ Progress(c) \/ Fail(c) \/ ShutdownThrows(c)
             \/ Connect(c) \/ Reset(c)

\* Threads are scheduled fairly, and an io_context takes ready handlers from
\* a queue in order, so that none of them is passed over for ever.  Clients,
\* failures and signals owe nothing.
Fairness ==
    /\ WF_vars(MainNext)
    /\ WF_vars(StopBegin) /\ WF_vars(StopNext)
    /\ \A w \in Contexts :
          WF_vars(Finish(w)) /\ WF_vars(RearmTake(w)) /\ WF_vars(RearmReturn(w))
    /\ \A c \in Clients : WF_vars(Accept(c)) /\ WF_vars(ShutdownThrows(c))

Spec == Init /\ [][Next]_vars /\ Fairness

----------------------------------------------------------------------------
\* The type invariant: in particular no get_io_context returns a context past
\* the end of io_contexts_ (whz_io_context_pool.cpp:42).
TypeOK ==
    /\ main \in TakesContext
                \cup {"bind", "run", "join", "returned", "terminated"}
    /\ next \in 0..N
    /\ taken \in [Threads -> Contexts \cup {None}]
    /\ handed \in [Contexts -> Nat]
    /\ pending \in Seq([kind : Kinds, context : Contexts])
    /\ rearm \in [Contexts -> Kinds \cup {"none"}]
    /\ conn \in [Clients -> Pending \cup {"none", "backlog", "closed"}]
    /\ place \in [Clients -> Contexts \cup {None}]
    /\ reset \subseteq Clients
    /\ spawned \in 0..N
    /\ finished \subseteq Contexts
    /\ signal \in {"none", "raised", "stopping", "handled"}
    /\ stop_at \in 0..N
    /\ stopped \subseteq Contexts
    /\ errors \in 0..MaxErrors
    /\ tls \in BOOLEAN

\* next_io_context has no lock and needs none: the main thread is done with it
\* before the threads start, and of those only the acceptor's runs the
\* handlers that call get_io_context (whz_server.cpp:94-106).
NoRaceOnIndex ==
    \A t, u \in Threads : taken[t] # None /\ taken[u] # None => t = u

\* While the server serves, two accepts are outstanding or about to be started
\* again: with TLS one of them makes plain connections and the other TLS
\* connections, so that clients get the two kinds in turn.
TwoAccepts ==
    LET Count(kind) ==
            Cardinality({k \in DOMAIN pending : pending[k].kind = kind})
              + Cardinality({w \in Contexts : rearm[w] = kind})
    IN  main \in {"run", "join"} =>
            IF tls THEN Count("do_accept") = 1 /\ Count("start_accept") = 1
            ELSE Count("do_accept_http") + Count("start_accept_http") = 2

\* Between the call and the return the index may stand at N, which means 0.
Pool == INSTANCE IoContextPool WITH next <- IF next = N THEN 0 ELSE next

\* Called from several threads in two steps, get_io_context still hands out
\* the contexts in turn.
PoolSpec == Pool!Spec

\* No context gets more than one socket, acceptor or signal set more than
\* another.
BalancedHandout == Pool!Balanced

\* When listen_and_serve has returned, no handler runs any more: the server
\* object can be destroyed (its threads have been joined).
QuietAfterReturn ==
    [][main = "returned" => UNCHANGED <<conn, pending, rearm, taken, stopped>>]_vars

\* A signal, whenever it comes, ends the server, even if it is handled while
\* run() is still starting threads.
SignalStops == signal = "raised" ~> main \in {"returned", "terminated"}

\* A client that has connected is accepted, however many accepts fail before,
\* unless the server is being stopped or has crashed.
EveryClientAccepted ==
    \A c \in Clients :
        conn[c] = "backlog" ~> conn[c] # "backlog" \/ signal # "none" \/ ~Alive

\* Once it serves, only a signal ends the server.
ServesUntilSignal == spawned = N => main # "terminated"
=============================================================================
