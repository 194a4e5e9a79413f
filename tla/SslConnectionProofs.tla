------------------------ MODULE SslConnectionProofs ------------------------
(***************************************************************************)
(* The echo of a TLS connection, for every buffer size and everything a    *)
(* client may send.                                                        *)
(***************************************************************************)
EXTENDS SslConnection, SequenceTheorems, TLAPS

\* What the client has got is the front of what it has sent, short of the part
\* of the buffer that is still to be written.
EchoInv ==
    /\ length <= tls_got
    /\ Len(echoed) = tls_got - (length - written)
    /\ \A i \in 1..Len(echoed) : echoed[i] = tls_stream[i]

\* The front of the buffer is what was read last.
BufferInv == \A i \in 1..length : buffer_[i] = tls_stream[tls_got - length + i]

\* EchoComplete alone does not tell a read that the buffer is free: between
\* operations everything has been written.
FreeInv == tls_phase \in {"handshake", "reading"} => written = length

IInv == TlsTypeOK /\ EchoInv /\ BufferInv /\ FreeInv

\* A new connection: nothing read, nothing written.
LEMMA InitHolds == ASSUME TlsInit PROVE IInv
<1>1. PICK n \in 0..MaxSent : tls_stream \in [1..n -> Data]
  BY DEF TlsInit
<1>2. tls_stream \in Seq(Data) /\ Len(tls_stream) \in Nat
  BY <1>1, MaxSentAssumption
<1>3. TlsTypeOK
  BY <1>2, TlsBufSizeAssumption DEF TlsInit, TlsTypeOK
<1> QED
  BY <1>2, <1>3 DEF TlsInit, IInv, EchoInv, BufferInv, FreeInv

\* The types in the form the arithmetic needs; what is to be written is data.
LEMMA Types ==
    ASSUME IInv
    PROVE  /\ Len(tls_stream) \in Nat /\ tls_got \in Nat /\ tls_got <= Len(tls_stream)
           /\ length \in Nat /\ length <= TlsBufSize /\ TlsBufSize \in Nat
           /\ written \in Nat /\ written <= length
           /\ \A i \in 1..Len(tls_stream) : tls_stream[i] \in Data
           /\ \A i \in 1..length : buffer_[i] \in Data
<1>1. /\ Len(tls_stream) \in Nat /\ tls_got \in Nat /\ tls_got <= Len(tls_stream)
      /\ length \in Nat /\ length <= TlsBufSize /\ TlsBufSize \in Nat
      /\ written \in Nat /\ written <= length
  BY TlsBufSizeAssumption, LenProperties DEF IInv, TlsTypeOK
<1>2. \A i \in 1..Len(tls_stream) : tls_stream[i] \in Data
  BY ElementOfSeq DEF IInv, TlsTypeOK
<1>3. ASSUME NEW i \in 1..length PROVE buffer_[i] \in Data
  <2>1. tls_got - length + i \in 1..Len(tls_stream)
    BY <1>1 DEF IInv, EchoInv
  <2> QED
    BY <1>2, <2>1 DEF IInv, BufferInv
<1> QED
  BY <1>1, <1>2, <1>3

\* A read finds the buffer written out, and fills its front.
LEMMA ReadKeeps == ASSUME IInv, TlsReadSome PROVE IInv'
<1>1. PICK n \in 1..TlsRoom :
        /\ buffer_' = [i \in 1..TlsBufSize |->
                         IF i <= n THEN tls_stream[tls_got + i] ELSE buffer_[i]]
        /\ tls_got' = tls_got + n
        /\ length' = n
  BY DEF TlsReadSome
<1>2. n \in Nat /\ n >= 1 /\ n <= TlsBufSize /\ tls_got + n <= Len(tls_stream)
  BY Types DEF TlsRoom
<1>3. /\ UNCHANGED <<tls_stream, echoed, tls_peer>>
      /\ written' = 0 /\ tls_phase' = "writing" /\ written = length
  BY DEF TlsReadSome, IInv, FreeInv
<1>4. buffer_' \in [1..TlsBufSize -> Data \cup {Indeterminate}]
  <2> SUFFICES ASSUME NEW i \in 1..TlsBufSize
               PROVE  (IF i <= n THEN tls_stream[tls_got + i] ELSE buffer_[i])
                         \in Data \cup {Indeterminate}
    BY <1>1
  <2>1. CASE i <= n
    <3>1. tls_got + i \in 1..Len(tls_stream)
      BY <1>2, <2>1, Types
    <3> QED
      BY <2>1, <3>1, Types
  <2>2. CASE ~(i <= n)
    BY <2>2 DEF IInv, TlsTypeOK
  <2> QED
    BY <2>1, <2>2
<1>5. TlsTypeOK'
  BY <1>1, <1>2, <1>3, <1>4, Types DEF IInv, TlsTypeOK
<1>6. EchoInv'
  BY <1>1, <1>2, <1>3, Types DEF IInv, EchoInv
<1>7. BufferInv'
  BY <1>1, <1>2, <1>3, Types DEF BufferInv
<1> QED
  BY <1>3, <1>5, <1>6, <1>7 DEF IInv, FreeInv

\* A part of the write that reaches the client is the part it lacks.
LEMMA WriteKeeps == ASSUME IInv, WriteSome PROVE IInv'
<1>1. PICK k \in 1..(length - written) :
        /\ echoed' = echoed \o SubSeq(buffer_, written + 1, written + k)
        /\ written' = written + k
  BY DEF WriteSome
<1>2. UNCHANGED <<tls_stream, tls_got, buffer_, length, tls_phase, tls_peer>> /\ tls_phase = "writing"
  BY DEF WriteSome
<1> DEFINE part == SubSeq(buffer_, written + 1, written + k)
<1>3. k \in Nat /\ k >= 1 /\ written + k <= length
  BY Types
<1>4. /\ part \in Seq(Data)
      /\ Len(part) = k
      /\ \A i \in 1..k : part[i] = buffer_[written + i]
  <2>1. \A i \in (written + 1)..(written + k) : buffer_[i] \in Data
    BY <1>3, Types
  <2>2. written + 1 \in Int /\ written + k \in Int
    BY <1>3, Types
  <2>3. /\ part \in Seq(Data)
        /\ Len(part) = IF written + 1 <= written + k
                       THEN (written + k) - (written + 1) + 1 ELSE 0
        /\ \A i \in 1..((written + k) - (written + 1) + 1) :
              part[i] = buffer_[(written + 1) + i - 1]
    BY <2>1, <2>2, SubSeqProperties
  <2> HIDE DEF part
  <2>4. (written + k) - (written + 1) + 1 = k /\ written + 1 <= written + k
    BY <1>3, Types
  <2>5. ASSUME NEW i \in 1..k PROVE part[i] = buffer_[written + i]
    <3>1. (written + 1) + i - 1 = written + i
      BY <1>3, Types
    <3> QED
      BY <2>3, <2>4, <3>1
  <2> QED
    BY <2>3, <2>4, <2>5
<1> HIDE DEF part
<1>5. echoed \in Seq(Data)
  BY DEF IInv, TlsTypeOK
<1>6. /\ echoed' \in Seq(Data)
      /\ Len(echoed') = Len(echoed) + k
      /\ \A i \in 1..(Len(echoed) + k) :
            echoed'[i] = IF i <= Len(echoed) THEN echoed[i]
                         ELSE part[i - Len(echoed)]
  BY <1>1, <1>4, <1>5, ConcatProperties DEF part
<1>7. TlsTypeOK'
  BY <1>1, <1>2, <1>3, <1>6, Types DEF IInv, TlsTypeOK
<1>8. EchoInv'
  <2>1. Len(echoed) \in Nat /\ Len(echoed) = tls_got - (length - written)
    BY <1>5, LenProperties DEF IInv, EchoInv
  <2>2. ASSUME NEW i \in 1..(Len(echoed) + k) PROVE echoed'[i] = tls_stream[i]
    <3>1. CASE i <= Len(echoed)
      BY <1>6, <2>1, <3>1 DEF IInv, EchoInv
    <3>2. CASE ~(i <= Len(echoed))
      <4>1. i - Len(echoed) \in 1..k
        BY <1>3, <2>1, <3>2
      <4>2. echoed'[i] = buffer_[written + (i - Len(echoed))]
        BY <1>4, <1>6, <3>2, <4>1
      <4>3. written + (i - Len(echoed)) \in 1..length
        BY <1>3, <4>1, Types
      <4>4. tls_got - length + (written + (i - Len(echoed))) = i
        BY <2>1, Types
      <4> QED
        BY <4>2, <4>3, <4>4 DEF IInv, BufferInv
    <3> QED
      BY <3>1, <3>2
  <2>3. length' <= tls_got'
    BY <1>2 DEF IInv, EchoInv
  <2>4. Len(echoed') = tls_got' - (length' - written')
    BY <1>1, <1>2, <1>3, <1>6, <2>1, Types
  <2> QED
    BY <1>2, <1>6, <2>2, <2>3, <2>4 DEF EchoInv
<1>9. BufferInv' /\ FreeInv'
  BY <1>2 DEF IInv, BufferInv, FreeInv
<1> QED
  BY <1>7, <1>8, <1>9 DEF IInv

\* The handlers that move no byte, and the peer.
LEMMA OthersKeep ==
    ASSUME IInv, Handshake \/ TlsWriteDone \/ Error \/ PeerLeaves \/ UNCHANGED tls_vars
    PROVE  IInv'
<1>1. /\ UNCHANGED <<tls_stream, tls_got, buffer_, length, written, echoed>>
      /\ tls_phase' \in {tls_phase, "reading", "closed"}
      /\ tls_peer' \in {tls_peer, "gone"}
      /\ tls_phase' \in {"handshake", "reading"} => written = length
  BY DEF Handshake, TlsWriteDone, Error, PeerLeaves, tls_vars, IInv, FreeInv
<1> QED
  BY <1>1 DEF IInv, TlsTypeOK, EchoInv, BufferInv, FreeInv

\* The invariant holds initially and every handler and the peer keep it.
THEOREM EchoInvariant == TlsSpec => []IInv
<1>1. IInv /\ [TlsNext]_tls_vars => IInv'
  BY ReadKeeps, WriteKeeps, OthersKeep DEF TlsNext, TlsHandler
<1> QED
  BY <1>1, InitHolds, PTL DEF TlsSpec

\* The invariant makes the two sequences of EchoComplete equal.
LEMMA InvGivesEcho == ASSUME IInv PROVE EchoComplete
<1> DEFINE sent == SubSeq(tls_stream, 1, tls_got)
<1>1. /\ Pending \in Seq(Data)
      /\ Len(Pending) = length - written
      /\ \A i \in 1..(length - written) : Pending[i] = buffer_[written + i]
  <2>1. \A i \in (written + 1)..length : buffer_[i] \in Data
    BY Types
  <2>0. written + 1 \in Int /\ length \in Int
    BY Types
  <2>2. /\ Pending \in Seq(Data)
        /\ Len(Pending) = IF written + 1 <= length
                          THEN length - (written + 1) + 1 ELSE 0
        /\ \A i \in 1..(length - (written + 1) + 1) :
              Pending[i] = buffer_[(written + 1) + i - 1]
    BY <2>0, <2>1, SubSeqProperties DEF Pending
  <2> QED
    BY <2>2, Types
<1>2. /\ sent \in Seq(Data)
      /\ Len(sent) = tls_got
      /\ \A i \in 1..tls_got : sent[i] = tls_stream[i]
  <2>1. \A i \in 1..tls_got : tls_stream[i] \in Data
    BY Types
  <2>2. /\ sent \in Seq(Data)
        /\ Len(sent) = IF 1 <= tls_got THEN tls_got - 1 + 1 ELSE 0
        /\ \A i \in 1..(tls_got - 1 + 1) : sent[i] = tls_stream[1 + i - 1]
    BY <2>1, Types, SubSeqProperties
  <2> HIDE DEF sent
  <2> QED
    BY <2>2, Types
<1> HIDE DEF sent
<1>3. /\ echoed \in Seq(Data)
      /\ Len(echoed) \in Nat
      /\ Len(echoed) = tls_got - (length - written)
  BY LenProperties DEF IInv, TlsTypeOK, EchoInv
<1>4. /\ echoed \o Pending \in Seq(Data)
      /\ Len(echoed \o Pending) = Len(echoed) + Len(Pending)
      /\ \A i \in 1..(Len(echoed) + Len(Pending)) :
            (echoed \o Pending)[i] =
               IF i <= Len(echoed) THEN echoed[i] ELSE Pending[i - Len(echoed)]
  BY <1>1, <1>3, ConcatProperties
<1>5. Len(echoed \o Pending) = tls_got
  BY <1>1, <1>3, <1>4, Types
<1>6. ASSUME NEW i \in 1..tls_got PROVE (echoed \o Pending)[i] = sent[i]
  <2>1. CASE i <= Len(echoed)
    BY <1>2, <1>3, <1>4, <1>5, <2>1 DEF IInv, EchoInv
  <2>2. CASE ~(i <= Len(echoed))
    <3>1. i - Len(echoed) \in 1..(length - written)
      BY <1>3, <2>2, Types
    <3>2. (echoed \o Pending)[i] = buffer_[written + (i - Len(echoed))]
      BY <1>1, <1>4, <1>5, <2>2, <3>1
    <3>3. written + (i - Len(echoed)) \in 1..length
      BY <3>1, Types
    <3>4. tls_got - length + (written + (i - Len(echoed))) = i
      BY <1>3, Types
    <3> QED
      BY <1>2, <3>2, <3>3, <3>4 DEF IInv, BufferInv
  <2> QED
    BY <2>1, <2>2
<1>7. echoed \o Pending = sent
  BY <1>2, <1>4, <1>5, <1>6, SeqEqual
<1> QED
  BY <1>7 DEF EchoComplete, sent

\* Whatever the buffer size, the data and the cut of reads and writes, what a
\* client has got back with what is being written is what it has sent so far.
THEOREM EchoIsComplete == TlsSpec => []EchoComplete
BY EchoInvariant, InvGivesEcho, PTL

\* No byte of the uninitialised buffer is ever sent, and no index leaves it.
THEOREM EchoTypeCorrect == TlsSpec => []TlsTypeOK
<1>1. IInv => TlsTypeOK
  BY DEF IInv
<1> QED
  BY <1>1, EchoInvariant, PTL
=============================================================================
