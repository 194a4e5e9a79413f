--------------------------- MODULE SslConnection ---------------------------
(***************************************************************************)
(* whz::ssl_connection: the completion handlers of one TLS connection.     *)
(* After the handshake it reads into buffer_ and writes what it has read   *)
(* back, over and over; its parser and request handler are never called.   *)
(*                                                                         *)
(* One buffer serves the read and the write, and it starts uninitialised.  *)
(***************************************************************************)
EXTENDS Integers, Sequences

CONSTANTS
    Data,       \* the bytes a client sends
    MaxSent,    \* bound: how many bytes it sends at most
    TlsBufSize, \* the size of buffer_, 8192 in the code
    Indeterminate   \* what buffer_ holds before anything is read into it

ASSUME MaxSentAssumption == MaxSent \in Nat
ASSUME TlsBufSizeAssumption == TlsBufSize \in Nat \ {0}
ASSUME IndeterminateAssumption == Indeterminate \notin Data

VARIABLES
    tls_stream, \* what the client sends once the handshake is done
    tls_got,    \* how many bytes of it have been read
    buffer_,    \* the member
    length,     \* the length that do_write has been given
    written,    \* how many bytes of this write have reached the client
    echoed,     \* everything that has reached the client
    tls_phase,  \* the pending operation
    tls_peer    \* open or gone

tls_vars ==
    <<tls_stream, tls_got, buffer_, length, written, echoed, tls_phase, tls_peer>>

TlsInit ==
    /\ \E n \in 0..MaxSent : tls_stream \in [1..n -> Data]
    /\ tls_got = 0
    /\ buffer_ = [i \in 1..TlsBufSize |-> Indeterminate]
    /\ length = 0
    /\ written = 0
    /\ echoed = <<>>
    /\ tls_phase = "handshake"
    /\ tls_peer = "open"

\* The handler of async_handshake, without error.
Handshake ==
    /\ tls_phase = "handshake"
    /\ tls_peer = "open"
    /\ tls_phase' = "reading"
    /\ UNCHANGED <<tls_stream, tls_got, buffer_, length, written, echoed, tls_peer>>

TlsRoom ==
    LET left == Len(tls_stream) - tls_got
    IN  IF left < TlsBufSize THEN left ELSE TlsBufSize

\* Mutant: the whole buffer is written, whatever has been read.
TlsReadSome_whole ==
    /\ tls_phase = "reading"
    /\ tls_peer = "open"
    /\ \E n \in 1..TlsRoom :
          /\ buffer_' = [i \in 1..TlsBufSize |->
                           IF i <= n THEN tls_stream[tls_got + i] ELSE buffer_[i]]
          /\ tls_got' = tls_got + n
          /\ length' = TlsBufSize
    /\ written' = 0
    /\ tls_phase' = "writing"
    /\ UNCHANGED <<tls_stream, echoed, tls_peer>>

\* The handler of async_read_some, without error: do_write(length).
TlsReadSome ==
    /\ tls_phase = "reading"
    /\ tls_peer = "open"
    /\ \E n \in 1..TlsRoom :
          /\ buffer_' = [i \in 1..TlsBufSize |->
                           IF i <= n THEN tls_stream[tls_got + i] ELSE buffer_[i]]
          /\ tls_got' = tls_got + n
          /\ length' = n
    /\ written' = 0
    /\ tls_phase' = "writing"
    /\ UNCHANGED <<tls_stream, echoed, tls_peer>>

\* Part of a write reaches the client: async_write is made of several.
WriteSome ==
    /\ tls_phase = "writing"
    /\ tls_peer = "open"
    /\ \E k \in 1..(length - written) :
          /\ echoed' = echoed \o SubSeq(buffer_, written + 1, written + k)
          /\ written' = written + k
    /\ UNCHANGED <<tls_stream, tls_got, buffer_, length, tls_phase, tls_peer>>

\* Mutant: the next read does not wait for the end of the write.
TlsWriteDone_early ==
    /\ tls_phase = "writing"
    /\ tls_phase' = "reading"
    /\ UNCHANGED <<tls_stream, tls_got, buffer_, length, written, echoed, tls_peer>>

\* Mutant: the handler does not start another read.
TlsWriteDone_last ==
    /\ tls_phase = "writing"
    /\ written = length
    /\ tls_phase' = "closed"
    /\ UNCHANGED <<tls_stream, tls_got, buffer_, length, written, echoed, tls_peer>>

\* The handler of async_write, without error: do_read().
TlsWriteDone ==
    /\ tls_phase = "writing"
    /\ written = length
    /\ tls_phase' = "reading"
    /\ UNCHANGED <<tls_stream, tls_got, buffer_, length, written, echoed, tls_peer>>

\* Any of the three handlers with an error: nothing is started, and with the
\* handler the last reference to the connection goes.
Error ==
    /\ tls_phase # "closed"
    /\ tls_peer = "gone"
    /\ tls_phase' = "closed"
    /\ UNCHANGED <<tls_stream, tls_got, buffer_, length, written, echoed, tls_peer>>

\* The client closes or breaks the connection, or the handshake fails.
PeerLeaves ==
    /\ tls_peer = "open"
    /\ tls_peer' = "gone"
    /\ UNCHANGED <<tls_stream, tls_got, buffer_, length, written, echoed, tls_phase>>

TlsHandler == Handshake \/ TlsReadSome \/ WriteSome \/ TlsWriteDone \/ Error

TlsNext == TlsHandler \/ PeerLeaves

\* The io_context runs the handlers of completed operations.  Fairness of
\* WriteSome says that the client reads what it is sent.
TlsSpec == TlsInit /\ [][TlsNext]_tls_vars /\ WF_tls_vars(TlsHandler)

----------------------------------------------------------------------------
\* What is written lies within the buffer, and what is read within what the
\* client sends; nothing indeterminate has been sent.
TlsTypeOK ==
    /\ tls_stream \in Seq(Data)
    /\ tls_got \in 0..Len(tls_stream)
    /\ buffer_ \in [1..TlsBufSize -> Data \cup {Indeterminate}]
    /\ length \in 0..TlsBufSize
    /\ written \in 0..length
    /\ echoed \in Seq(Data)
    /\ tls_phase \in {"handshake", "reading", "writing", "closed"}
    /\ tls_peer \in {"open", "gone"}

\* The part of buffer_ that is still to be written.
Pending == SubSeq(buffer_, written + 1, length)

\* The one buffer is never overwritten before it has been sent: what the
\* client has got back, with what is on its way, is what it has sent so far.
EchoComplete == echoed \o Pending = SubSeq(tls_stream, 1, tls_got)

\* A client that stays and reads gets everything back.
EverythingEchoed == <>(echoed = tls_stream \/ tls_peer = "gone")
=============================================================================
