-------------------------- MODULE ConnectionProofs --------------------------
(***************************************************************************)
(* The plain connection, for every buffer size and every stream: what holds *)
(* however it is cut into reads, and, where each read fills the buffer, that *)
(* the client gets what it asked for.                                      *)
(***************************************************************************)
EXTENDS Connection, RequestFieldsProofs

\* The parser is given stale and unreceived bytes too; it stays well formed on
\* whatever the buffer holds.
IInv == TypeOK /\ ParserInv(parser) /\ ReplyFollowsVerdict

\* A new connection: nothing read, a fresh parser.
LEMMA InitHolds == ASSUME Init PROVE IInv
<1>1. PICK u \in Garbage, v \in Garbage : parser = new_parser(u, v)
  BY DEF Init
<1>2. ParserInv(parser) /\ parser.result = "indeterminate"
  BY <1>1, NewParserHolds, GarbageAssumption DEF new_parser
<1>3. parser \in Parser
  BY <1>2 DEF ParserInv
<1>4. stream \in Seq(Byte)
  BY StreamsAssumption DEF Init
<1>5. [i \in 1..BufSize |-> 0] \in [1..BufSize -> Byte]
  BY DEF Byte
<1>6. TypeOK
  BY <1>3, <1>4, <1>5, BufSizeAssumption DEF Init, TypeOK
<1>7. ReplyFollowsVerdict
  BY <1>2 DEF Init, ReplyFollowsVerdict
<1> QED
  BY <1>2, <1>6, <1>7 DEF IInv

\* What is read lies in the stream and fits the buffer.
LEMMA TransferFacts ==
    ASSUME TypeOK, NEW n \in Transfers
    PROVE  /\ n \in Nat /\ n >= 1 /\ n <= BufSize
           /\ got + n \in 0..Len(stream)
           /\ filled(n) \in [1..BufSize -> Byte]
<1>1. got \in Nat /\ Len(stream) \in Nat /\ BufSize \in Nat /\ got <= Len(stream)
  BY BufSizeAssumption DEF TypeOK
<1>2. n \in Nat /\ n >= 1 /\ n <= BufSize /\ got + n <= Len(stream)
  BY <1>1 DEF Transfers, Room
<1>3. ASSUME NEW i \in 1..BufSize
      PROVE  (IF i <= n THEN stream[got + i] ELSE buffer[i]) \in Byte
  <2>1. CASE i <= n
    <3>1. got + i \in 1..Len(stream)
      BY <1>1, <1>2, <2>1
    <3> QED
      BY <2>1, <3>1 DEF TypeOK
  <2>2. CASE ~(i <= n)
    BY <2>2 DEF TypeOK
  <2> QED
    BY <2>1, <2>2
<1> QED
  BY <1>1, <1>2, <1>3 DEF filled

\* A read touches the buffer only.
LEMMA ReadKeeps == ASSUME IInv, ReadSome PROVE IInv'
<1>1. PICK n \in Transfers : got' = got + n /\ buffer' = filled(n)
  BY DEF ReadSome
<1>2. /\ pos' = 1 /\ phase' = "parsing"
      /\ UNCHANGED <<stream, parser, reply, peer>>
  BY DEF ReadSome
<1>3. got' \in 0..Len(stream) /\ buffer' \in [1..BufSize -> Byte]
  BY <1>1, TransferFacts DEF IInv
<1>4. TypeOK'
  BY <1>2, <1>3, BufSizeAssumption DEF IInv, TypeOK
<1> QED
  BY <1>2, <1>4 DEF IInv, ReplyFollowsVerdict

\* A turn of the loop of parse() stays in the buffer.
LEMMA ParseKeeps == ASSUME IInv, ParseByte PROVE IInv'
<1>1. /\ parser' = consume(parser, to_char(buffer[pos]))
      /\ phase = "parsing" /\ pos <= BufSize /\ pos' = pos + 1
      /\ UNCHANGED <<stream, got, buffer, reply, phase, peer>>
  BY BufSizeAssumption DEF ParseByte, ParseOver, IInv, TypeOK
<1>2. buffer[pos] \in Byte
  BY <1>1, BufSizeAssumption DEF IInv, TypeOK
<1>3. ParserInv(parser')
  BY <1>1, <1>2, ByteIsChar, ConsumeKeeps DEF IInv
<1>4. parser' \in Parser
  BY <1>3 DEF ParserInv
<1>5. TypeOK'
  BY <1>1, <1>4, BufSizeAssumption DEF IInv, TypeOK
<1> QED
  BY <1>1, <1>3, <1>5 DEF IInv, ReplyFollowsVerdict

\* The rest of the read handler, for each verdict.
LEMMA DispatchKeeps == ASSUME IInv, Dispatch PROVE IInv'
<1>1. UNCHANGED <<stream, got, buffer, parser, pos, peer>>
  BY DEF Dispatch
<1>2. parser.result \in {"good", "bad", "indeterminate"}
  BY DEF IInv, TypeOK, Parser, Results
<1>3. CASE parser.result = "good"
  <2>1. reply' = "handled" /\ phase' = "writing"
    BY <1>3 DEF Dispatch
  <2> QED
    BY <1>1, <1>3, <2>1 DEF IInv, TypeOK, ReplyFollowsVerdict
<1>4. CASE parser.result = "bad"
  <2>1. reply' = "bad_request" /\ phase' = "writing"
    BY <1>4 DEF Dispatch
  <2> QED
    BY <1>1, <1>4, <2>1 DEF IInv, TypeOK, ReplyFollowsVerdict
<1>5. CASE parser.result = "indeterminate"
  <2>1. reply' = "none" /\ phase' = "reading"
    BY <1>5 DEF Dispatch
  <2> QED
    BY <1>1, <1>5, <2>1 DEF IInv, TypeOK, ReplyFollowsVerdict
<1> QED
  BY <1>2, <1>3, <1>4, <1>5

\* The ends of a connection, and the peer.
LEMMA OthersKeep ==
    ASSUME IInv,
           \/ ReadError \/ WriteDone \/ PeerShuts \/ PeerResets
           \/ UNCHANGED vars
    PROVE  IInv'
<1>1. UNCHANGED <<stream, got, buffer, parser, pos, reply>>
  BY DEF ReadError, WriteDone, PeerShuts, PeerResets, vars
<1>2. peer' \in {"open", "shut", "reset"}
  BY DEF IInv, TypeOK, ReadError, WriteDone, PeerShuts, PeerResets, vars
<1>3. \/ phase' = phase
      \/ phase = "reading" /\ phase' = "closed"
      \/ phase = "writing" /\ phase' \in {"closed", "threw"}
  BY DEF ReadError, WriteDone, PeerShuts, PeerResets, vars
<1>4. TypeOK'
  BY <1>1, <1>2, <1>3 DEF IInv, TypeOK
<1> QED
  BY <1>1, <1>3, <1>4 DEF IInv, ReplyFollowsVerdict

\* The invariant holds initially and every handler and the peer keep it.
THEOREM ConnectionInvariant == Spec => []IInv
<1>1. IInv /\ [Next]_vars => IInv'
  BY ReadKeeps, ParseKeeps, DispatchKeeps, OthersKeep DEF Next
<1> QED
  BY <1>1, InitHolds, PTL DEF Spec

\* Whatever the client sends and however it is cut, the buffer keeps its size
\* and the request its types, also when padding is parsed.
THEOREM ConnectionTypeCorrect == Spec => []TypeOK
<1>1. IInv => TypeOK
  BY DEF IInv
<1> QED
  BY <1>1, ConnectionInvariant, PTL

\* Whatever the client sends and however it is cut, the reply is the one for
\* the parser's verdict, and nothing is read after it.
THEOREM VerdictDecides == Spec => []ReplyFollowsVerdict
<1>1. IInv => ReplyFollowsVerdict
  BY DEF IInv
<1> QED
  BY <1>1, ConnectionInvariant, PTL

----------------------------------------------------------------------------
(* A connection whose reads fill the buffer gives the parser the bytes of  *)
(* the stream, in order, until there are no more.                          *)

\* The parser has been given m bytes.  As long as they are all from the
\* stream it has read them as such, whatever would come next; from then on
\* the stream is known to be the beginning of a message and no more.
Understood(m) ==
    IF m <= Len(stream)
    THEN \A s : (\A k \in 1..m : s[k] = stream[k]) =>
            Follows(s, m, parser) /\ Reads(s, m, parser)
    ELSE ~HasMessage(stream) /\ IsBeginning(stream)

\* parse() is given what was read behind the first base bytes, and stale bytes
\* only if nothing is left to be read.
Loaded(base) ==
    /\ got < Len(stream) => got = base + BufSize
    /\ \A i \in 1..BufSize : base + i <= got => buffer[i] = stream[base + i]

\* Between reads the parser has understood what was read, unless the stream
\* is used up; in parse() it has understood what it was given so far.
WholeInv ==
    /\ phase = "reading" /\ got < Len(stream) => Understood(got)
    /\ phase = "parsing" =>
          reply = "none" /\ \E base \in Nat : Loaded(base)
             /\ Understood(base + pos - 1)
    /\ phase \notin {"reading", "parsing"} /\ reply # "none" =>
          \E m \in Nat : Understood(m)

\* A new connection has given its parser nothing.
LEMMA WholeStart == ASSUME Init PROVE WholeInv
<1>1. PICK u \in Garbage, v \in Garbage : parser = new_parser(u, v)
  BY DEF Init
<1>2. \A s : Follows(s, 0, parser) /\ Reads(s, 0, parser)
  BY <1>1, FollowsStart, ReadsStart, GarbageAssumption
<1>3. got = 0 /\ phase = "reading"
  BY DEF Init
<1>4. got < Len(stream) => Understood(got)
  BY <1>2, <1>3 DEF Understood
<1> QED
  BY <1>3, <1>4 DEF WholeInv

\* A turn of the loop gives the parser the next byte of the stream, or the
\* first one that is not of the stream.
LEMMA UnderstoodStep ==
    ASSUME TypeOK, ParserInv(parser), parser.result = "indeterminate",
           NEW m \in Nat, Understood(m), NEW b \in Byte,
           m < Len(stream) => b = stream[m + 1],
           parser' = consume(parser, to_char(b)), stream' = stream
    PROVE  Understood(m + 1)'
<1>0. stream \in Seq(Byte) /\ Len(stream) \in Nat
  BY DEF TypeOK
<1>1. CASE m < Len(stream)
  <2>1. ASSUME NEW s, \A k \in 1..m + 1 : s[k] = stream[k]
        PROVE  Follows(s, m + 1, parser') /\ Reads(s, m + 1, parser')
    <3>1. \A k \in 1..m : s[k] = stream[k]
      BY <2>1
    <3>2. Follows(s, m, parser) /\ Reads(s, m, parser)
      BY <1>1, <3>1 DEF Understood
    <3>3. s[m + 1] = b
      BY <1>1, <2>1
    <3>4. \A k \in 1..m + 1 : s[k] \in Byte
      BY <1>0, <1>1, <2>1
    <3>5. Follows(s, m + 1, consume(parser, to_char(s[m + 1])))
      BY <3>2, <3>3, FollowsStep
    <3>6. Reads(s, m + 1, consume(parser, to_char(s[m + 1])))
      BY <3>2, <3>4, ReadsStep
    <3> QED
      BY <3>3, <3>5, <3>6
  <2>2. m + 1 <= Len(stream)
    BY <1>0, <1>1
  <2> QED
    BY <2>1, <2>2 DEF Understood
<1>2. CASE m = Len(stream)
  <2>1. \A s : (\A k \in 1..m : s[k] = stream[k]) => Follows(s, m, parser)
    BY <1>0, <1>2 DEF Understood
  <2>2. parser.state_ \in States
    BY DEF TypeOK, Parser
  <2>3. \A s : (\A k \in 1..Len(stream) : s[k] = stream[k])
           => Shape(s, Len(stream), parser.state_)
    BY <1>2, <2>1 DEF Follows
  <2>4. IsBeginning(stream)
    BY <1>0, <2>2, <2>3, ShapeBegins
  <2>5. ~HasMessage(stream)
    BY <1>2, <2>1 DEF Follows, HasMessage
  <2>6. ~(m + 1 <= Len(stream))
    BY <1>0, <1>2
  <2> QED
    BY <2>4, <2>5, <2>6 DEF Understood
<1>3. CASE m > Len(stream)
  <2>1. ~(m + 1 <= Len(stream)) /\ ~(m <= Len(stream))
    BY <1>0, <1>3
  <2> QED
    BY <2>1 DEF Understood
<1> QED
  BY <1>0, <1>1, <1>2, <1>3

\* A read that fills the buffer loads the next bytes of the stream.
LEMMA WholeRead ==
    ASSUME Whole, IInv, WholeInv, ReadSome
    PROVE  WholeInv'
<1>0. /\ got \in Nat /\ Len(stream) \in Nat /\ got <= Len(stream)
      /\ BufSize \in Nat /\ BufSize >= 1
  BY BufSizeAssumption DEF IInv, TypeOK
<1>1. PICK n \in Transfers : got' = got + n /\ buffer' = filled(n)
  BY DEF ReadSome
<1>2. n = Room /\ n > 0
  BY <1>1 DEF Transfers
<1>3. /\ pos' = 1 /\ phase' = "parsing" /\ phase = "reading"
      /\ UNCHANGED <<stream, parser, reply, peer>>
  BY DEF ReadSome
<1>4. got < Len(stream) /\ n <= BufSize /\ (got + n < Len(stream) => n = BufSize)
  BY <1>0, <1>2 DEF Room
<1>a. n \in Nat
  BY <1>0, <1>2 DEF Room
<1>5. Understood(got)
  BY <1>3, <1>4 DEF WholeInv
<1>6. reply = "none"
  BY <1>3 DEF IInv, ReplyFollowsVerdict, TypeOK
<1>7. PICK g \in Nat : g = got
  BY <1>0
<1>8. \A m \in Nat : Understood(m)' <=> Understood(m)
  BY <1>3 DEF Understood
<1>9. Understood(g)'
  BY <1>5, <1>7, <1>8
<1>10. g = g + pos' - 1
  BY <1>3
<1>11. Loaded(g)'
  <2>1. got' < Len(stream) => got' = g + BufSize
    BY <1>0, <1>1, <1>4, <1>7
  <2>2. ASSUME NEW i \in 1..BufSize, g + i <= got' PROVE buffer'[i] = stream[g + i]
    <3>1. i <= n
      BY <1>0, <1>1, <1>7, <1>a, <2>2
    <3> QED
      BY <1>1, <1>7, <3>1 DEF filled
  <2> QED
    BY <1>3, <2>1, <2>2 DEF Loaded
<1> QED
  BY <1>3, <1>6, <1>9, <1>10, <1>11 DEF WholeInv

\* A turn of the loop of parse().
LEMMA WholeParse ==
    ASSUME IInv, WholeInv, ParseByte
    PROVE  WholeInv'
<1>0. /\ got \in Nat /\ Len(stream) \in Nat /\ got <= Len(stream)
      /\ BufSize \in Nat /\ BufSize >= 1 /\ pos \in Nat /\ pos >= 1
  BY BufSizeAssumption DEF IInv, TypeOK
<1>1. /\ parser' = consume(parser, to_char(buffer[pos]))
            /\ parser.result = "indeterminate"
      /\ phase = "parsing" /\ pos <= BufSize /\ pos' = pos + 1
      /\ UNCHANGED <<stream, got, buffer, reply, phase, peer>>
  BY <1>0 DEF ParseByte, ParseOver
<1>2. PICK base \in Nat : Loaded(base) /\ Understood(base + pos - 1)
  BY <1>1 DEF WholeInv
<1>3. PICK m \in Nat : m = base + pos - 1
  BY <1>0
<1>4. PICK b \in Byte : b = buffer[pos]
  BY <1>0, <1>1 DEF IInv, TypeOK
<1>5. m < Len(stream) => b = stream[m + 1]
  <2>1. m + 1 = base + pos /\ pos \in 1..BufSize
    BY <1>0, <1>1, <1>3
  <2>2. m < Len(stream) => base + pos <= got
    BY <1>0, <1>1, <1>2, <2>1 DEF Loaded
  <2> QED
    BY <1>2, <1>4, <2>1, <2>2 DEF Loaded
<1>6. Understood(m)
  BY <1>2, <1>3
<1>7. Understood(m + 1)'
  BY <1>1, <1>4, <1>5, <1>6, UnderstoodStep DEF IInv
<1>8. m + 1 = base + pos' - 1
  BY <1>0, <1>1, <1>3
<1>9. Loaded(base)' /\ reply' = "none"
  BY <1>1, <1>2 DEF Loaded, WholeInv
<1> QED
  BY <1>1, <1>7, <1>8, <1>9 DEF WholeInv

\* When the loop ends without a verdict, all that was read was given.
LEMMA WholeDispatch ==
    ASSUME IInv, WholeInv, Dispatch
    PROVE  WholeInv'
<1>0. /\ got \in Nat /\ Len(stream) \in Nat /\ got <= Len(stream)
      /\ BufSize \in Nat /\ BufSize >= 1 /\ pos \in 1..BufSize + 1
  BY BufSizeAssumption DEF IInv, TypeOK
<1>1. /\ phase = "parsing" /\ ParseOver
      /\ phase' = IF parser.result = "indeterminate" THEN "reading" ELSE "writing"
      /\ UNCHANGED <<stream, got, buffer, parser, pos, peer>>
  BY DEF Dispatch
<1>2. PICK base \in Nat : Loaded(base) /\ Understood(base + pos - 1)
  BY <1>1 DEF WholeInv
<1>3. \A m \in Nat : Understood(m)' <=> Understood(m)
  BY <1>1 DEF Understood
<1>4. CASE parser.result = "indeterminate"
  <2>1. pos = BufSize + 1 /\ phase' = "reading"
    BY <1>0, <1>1, <1>4 DEF ParseOver
  <2>2. got < Len(stream) => Understood(got)
    BY <1>0, <1>2, <2>1 DEF Loaded
  <2>3. got < Len(stream) => Understood(got)'
    BY <1>1, <2>2 DEF Understood
  <2> QED
    BY <1>1, <2>1, <2>3 DEF WholeInv
<1>5. CASE parser.result # "indeterminate"
  <2>1. phase' = "writing"
    BY <1>1, <1>5
  <2>2. base + pos - 1 \in Nat
    BY <1>0
  <2>3. \E m \in Nat : Understood(m)'
    BY <1>2, <1>3, <2>2
  <2> QED
    BY <2>1, <2>3 DEF WholeInv
<1> QED
  BY <1>4, <1>5

\* The ends of a connection, and the peer.
LEMMA WholeOthers ==
    ASSUME IInv, WholeInv,
           \/ ReadError \/ WriteDone \/ PeerShuts \/ PeerResets
           \/ UNCHANGED vars
    PROVE  WholeInv'
<1>1. UNCHANGED <<stream, got, buffer, parser, pos, reply>>
  BY DEF ReadError, WriteDone, PeerShuts, PeerResets, vars
<1>2. \A m \in Nat : (Understood(m)' <=> Understood(m)) /\ (Loaded(m)' <=> Loaded(m))
  BY <1>1 DEF Understood, Loaded
<1>3. got < Len(stream) /\ Understood(got) => Understood(got)'
  BY <1>1 DEF Understood
<1>4. CASE phase' = phase
  <2>1. \A m \in Nat : m + pos - 1 \in Nat /\ m + pos' - 1 = m + pos - 1
    BY <1>1 DEF IInv, TypeOK
  <2>2. ASSUME phase = "parsing"
        PROVE  reply' = "none" /\ \E base \in Nat : Loaded(base)'
                  /\ Understood(base + pos - 1)'
    <3>1. PICK base \in Nat : Loaded(base) /\ Understood(base + pos - 1)
      BY <2>2 DEF WholeInv
    <3>2. PICK m \in Nat : m = base + pos - 1
      BY <2>1
    <3>3. Understood(m)' /\ m = base + pos' - 1
      BY <1>2, <2>1, <3>1, <3>2
    <3> QED
      BY <1>1, <1>2, <2>2, <3>1, <3>3 DEF WholeInv
  <2>3. phase \notin {"reading", "parsing"} /\ reply # "none"
           => \E m \in Nat : Understood(m)'
    BY <1>2 DEF WholeInv
  <2>4. phase = "reading" /\ got < Len(stream) => Understood(got)'
    BY <1>3 DEF WholeInv
  <2> QED
    BY <1>1, <1>4, <2>2, <2>3, <2>4 DEF WholeInv
<1>5. CASE ReadError
  <2>1. phase = "reading" /\ phase' = "closed" /\ reply' = "none"
    BY <1>1, <1>5 DEF ReadError, IInv, ReplyFollowsVerdict, TypeOK
  <2> QED
    BY <1>1, <2>1 DEF WholeInv
<1>6. CASE WriteDone
  <2>1. phase = "writing" /\ phase' \in {"closed", "threw"}
    BY <1>6 DEF WriteDone
  <2> QED
    BY <1>1, <1>2, <2>1 DEF WholeInv
<1> QED
  BY <1>4, <1>5, <1>6 DEF PeerShuts, PeerResets, vars

\* With reads that fill the buffer the parser is given the stream, in order.
THEOREM WholeInvariant == ASSUME Whole PROVE Spec => [](IInv /\ WholeInv)
<1>1. IInv /\ WholeInv /\ [Next]_vars => (IInv /\ WholeInv)'
  <2> SUFFICES ASSUME IInv, WholeInv, [Next]_vars PROVE (IInv /\ WholeInv)'
    OBVIOUS
  <2>1. IInv'
    BY ReadKeeps, ParseKeeps, DispatchKeeps, OthersKeep DEF Next
  <2>2. WholeInv'
    BY WholeRead, WholeParse, WholeDispatch, WholeOthers DEF Next
  <2> QED
    BY <2>1, <2>2
<1>2. Init => IInv /\ WholeInv
  BY InitHolds, WholeStart
<1> QED
  BY <1>1, <1>2, PTL DEF Spec

\* With reads that fill the buffer, whatever their size, the request that
\* handle_request() is given is the first message that the client sent, field
\* by field.  (Without that, ConnectionSplit shows it false.)
THEOREM HandledIsFirst == ASSUME Whole PROVE Spec => []HandledRequest
<1>1. ASSUME IInv, WholeInv, reply = "handled", HasMessage(stream)
      PROVE  parser.req = FieldsOf(stream, MessageEnd(stream))
  <2>0. stream \in Seq(Byte) /\ Len(stream) \in Nat
    BY <1>1 DEF IInv, TypeOK
  <2>1. parser.result = "good" /\ phase \notin {"reading", "parsing"}
    BY <1>1 DEF IInv, ReplyFollowsVerdict, WholeInv
  <2>2. PICK m \in Nat : Understood(m)
    BY <1>1, <2>1 DEF WholeInv
  <2>3. m <= Len(stream) /\ Follows(stream, m, parser) /\ Reads(stream, m, parser)
    BY <1>1, <2>0, <2>2 DEF Understood
  <2>4. IsMessage(stream, m) /\ \A k \in 1..m - 1 : ~IsMessage(stream, k)
    BY <2>1, <2>3 DEF Follows
  <2>5. m \in 1..Len(stream)
    BY <2>0, <2>3, <2>4 DEF IsMessage
  <2>6. MessageEnd(stream) = m
    BY <2>0, <2>4, <2>5, MessageEndIs
  <2> QED
    BY <2>1, <2>3, <2>6 DEF Reads
<1>2. IInv /\ WholeInv => HandledRequest
  BY <1>1 DEF HandledRequest
<1> QED
  BY <1>2, WholeInvariant, PTL

\* What Dispatch answers.
LEMMA AnswerAllowed ==
    ASSUME IInv, WholeInv, phase = "parsing"
    PROVE  /\ parser.result = "good" => "handled" \in Verdicts(stream)
           /\ parser.result = "bad" => "bad_request" \in Verdicts(stream)
<1>0. stream \in Seq(Byte) /\ Len(stream) \in Nat /\ pos \in Nat /\ pos >= 1
  BY BufSizeAssumption DEF IInv, TypeOK
<1>1. PICK base \in Nat : Understood(base + pos - 1)
  BY DEF WholeInv
<1>2. PICK m \in Nat : m = base + pos - 1
  BY <1>0
<1>3. Understood(m)
  BY <1>1, <1>2
<1>4. CASE m <= Len(stream)
  <2>1. Follows(stream, m, parser)
    BY <1>3, <1>4 DEF Understood
  <2>2. ASSUME parser.result = "good" PROVE HasMessage(stream)
    <3>1. IsMessage(stream, m)
      BY <2>1, <2>2 DEF Follows
    <3>2. m \in 1..Len(stream)
      BY <1>0, <1>4, <3>1 DEF IsMessage
    <3> QED
      BY <3>1, <3>2 DEF HasMessage
  <2>3. ASSUME parser.result = "bad" PROVE ~HasMessage(stream)
    BY <1>0, <2>1, <2>3 DEF Follows, HasMessage
  <2> QED
    BY <2>2, <2>3 DEF Verdicts
<1>5. CASE ~(m <= Len(stream))
  BY <1>3, <1>5 DEF Understood, Verdicts
<1> QED
  BY <1>4, <1>5

\* With reads that fill the buffer the connection implements the exchange
\* that the client sees: at most one reply, a message is handled, what cannot
\* become one is refused, and what is still the beginning of one gets either.
THEOREM ExchangeImplemented == ASSUME Whole PROVE Spec => ExchangeSpec
<1>1. Init => Client!Init
  BY DEF Init, Client!Init
<1>2. IInv /\ WholeInv /\ [Next]_vars => [Client!Answer \/ Client!End]_Client!vars
  <2> SUFFICES ASSUME IInv, WholeInv, [Next]_vars
               PROVE  [Client!Answer \/ Client!End]_Client!vars
    OBVIOUS
  <2> USE DEF Client!vars
  <2>1. CASE ReadSome
    BY <2>1 DEF ReadSome
  <2>2. CASE ReadError
    BY <2>2 DEF ReadError, Client!End
  <2>3. CASE ParseByte
    BY <2>3 DEF ParseByte
  <2>4. CASE Dispatch
    <3>1. /\ phase = "parsing" /\ reply = "none" /\ stream' = stream
          /\ phase' \in {"reading", "writing"}
      BY <2>4 DEF Dispatch, WholeInv
    <3>2. parser.result \in {"good", "bad", "indeterminate"}
      BY DEF IInv, TypeOK, Parser, Results
    <3>3. CASE parser.result = "indeterminate"
      BY <2>4, <3>1, <3>3 DEF Dispatch
    <3>4. CASE parser.result # "indeterminate"
      <4>1. reply' \in Verdicts(stream)
        BY <2>4, <3>1, <3>2, <3>4, AnswerAllowed DEF Dispatch
      <4> QED
        BY <3>1, <4>1 DEF Client!Answer
    <3> QED
      BY <3>3, <3>4
  <2>5. CASE WriteDone
    BY <2>5 DEF WriteDone, Client!End
  <2>6. CASE PeerShuts \/ PeerResets
    BY <2>6 DEF PeerShuts, PeerResets
  <2>7. CASE UNCHANGED vars
    BY <2>7 DEF vars
  <2> QED
    BY <2>1, <2>2, <2>3, <2>4, <2>5, <2>6, <2>7 DEF Next
<1> QED
  BY <1>1, <1>2, WholeInvariant, PTL DEF Spec, ExchangeSpec, Client!Spec
=============================================================================
