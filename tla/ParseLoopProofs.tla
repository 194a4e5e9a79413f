-------------------------- MODULE ParseLoopProofs ---------------------------
(***************************************************************************)
(* The invariants of ParseLoop, for every set of streams.                  *)
(***************************************************************************)
EXTENDS ParseLoop, RequestFieldsProofs

\* consume() keeps ParserInv, and keeps to the grammar and to its fields, so
\* that the loop does.
IInv ==
    /\ stream \in Seq(Byte)
    /\ fed \in 0..Len(stream)
    /\ ParserInv(parser)
    /\ Follows(stream, fed, parser)
    /\ Reads(stream, fed, parser)

\* The invariant holds of a fresh parser and whatever its version bytes hold,
\* and each turn of the loop of parse() keeps it.
THEOREM ParserInvariant == LoopSpec => []IInv
<1>1. LoopInit => IInv
  <2> SUFFICES ASSUME LoopInit PROVE IInv
    OBVIOUS
  <2>1. PICK u \in Garbage, v \in Garbage : parser = new_parser(u, v)
    BY DEF LoopInit
  <2>2. ParserInv(parser)
    BY <2>1, NewParserHolds, GarbageAssumption
  <2>3. Follows(stream, 0, parser)
    BY <2>1, FollowsStart, GarbageAssumption
  <2>4. Reads(stream, 0, parser)
    BY <2>1, ReadsStart, GarbageAssumption
  <2> QED
    BY <2>2, <2>3, <2>4, StreamsAssumption DEF LoopInit, IInv
<1>2. IInv /\ [LoopNext]_loop_vars => IInv'
  <2> SUFFICES ASSUME IInv, [LoopNext]_loop_vars PROVE IInv'
    OBVIOUS
  <2>1. CASE Feed
    <3>0. /\ parser.result = "indeterminate"
          /\ fed < Len(stream) /\ fed' = fed + 1 /\ stream' = stream
          /\ parser' = consume(parser, to_char(stream[fed + 1]))
      BY <2>1 DEF Feed
    <3>1. stream[fed + 1] \in Byte
      BY <3>0 DEF IInv
    <3>2. ParserInv(parser')
      BY <3>0, <3>1, ByteIsChar, ConsumeKeeps DEF IInv
    <3>3. Follows(stream, fed + 1, parser')
      BY <3>0, <3>1, FollowsStep DEF IInv
    <3>4. \A k \in 1..fed + 1 : stream[k] \in Byte
      BY <3>0 DEF IInv
    <3>5. Reads(stream, fed + 1, parser')
      BY <3>0, <3>4, ReadsStep DEF IInv
    <3> QED
      BY <3>0, <3>2, <3>3, <3>5 DEF IInv
  <2>2. CASE UNCHANGED loop_vars
    BY <2>2 DEF IInv, loop_vars
  <2> QED
    BY <2>1, <2>2 DEF LoopNext
<1> QED
  BY <1>1, <1>2, PTL DEF LoopSpec

\* Whatever bytes come in, every field of the request keeps its C++ type.
THEOREM TypeCorrect == LoopSpec => []LoopTypeOK
<1>1. IInv => LoopTypeOK
  BY DEF IInv, LoopTypeOK, ParserInv
<1> QED
  BY <1>1, ParserInvariant, PTL

\* Whatever bytes come in, headers.back() is never called on an empty vector.
THEOREM BackIsSafe == LoopSpec => []HeadersBackDefined
<1>1. IInv => HeadersBackDefined
  BY DEF IInv, HeadersBackDefined, ParserInv, BackStates
<1> QED
  BY <1>1, ParserInvariant, PTL

\* Whatever bytes come in, no control character enters a parsed field.
THEOREM FieldsAreClean == LoopSpec => []FieldsClean
<1>1. IInv => FieldsClean
  BY DEF IInv, FieldsClean, ParserInv
<1> QED
  BY <1>1, ParserInvariant, PTL

\* Whatever the bytes, parse() is good at the end of the first message of the
\* grammar and nowhere else, and never good without one.
THEOREM MessagesFound == LoopSpec => []FirstMessageFound
<1>1. ASSUME IInv, Done
      PROVE  IF HasMessage(stream)
             THEN parser.result = "good" /\ fed = MessageEnd(stream)
             ELSE parser.result # "good"
  <2>0. stream \in Seq(Byte) /\ fed \in 0..Len(stream) /\ Follows(stream, fed, parser)
    BY <1>1 DEF IInv
  <2>1. CASE parser.result = "good"
    <3>1. IsMessage(stream, fed) /\ \A k \in 1..fed - 1 : ~IsMessage(stream, k)
      BY <2>0, <2>1 DEF Follows
    <3>2. fed \in 1..Len(stream)
      BY <2>0, <3>1 DEF IsMessage
    <3> QED
      BY <2>0, <2>1, <3>1, <3>2, MessageEndIs
  <2>2. CASE parser.result = "bad"
    <3>1. ~HasMessage(stream)
      BY <2>0, <2>2 DEF Follows, HasMessage
    <3> QED
      BY <2>2, <3>1
  <2>3. CASE parser.result = "indeterminate"
    <3>1. fed = Len(stream)
      BY <1>1, <2>3 DEF Done
    <3>2. ~HasMessage(stream)
      BY <2>0, <2>3, <3>1 DEF Follows, HasMessage
    <3> QED
      BY <2>3, <3>2
  <2> QED
    BY <2>0, <2>1, <2>2, <2>3 DEF Follows, Parser, Results
<1>2. IInv => FirstMessageFound
  BY <1>1 DEF FirstMessageFound
<1> QED
  BY <1>2, ParserInvariant, PTL

\* Whatever the bytes, the request of a good parse is the one the grammar
\* reads in the message: method, uri, versions modulo 256, headers with their
\* folds.
THEOREM FieldsParsed == LoopSpec => []ParsedFields
<1>1. IInv => ParsedFields
  BY DEF IInv, Reads, ParsedFields
<1> QED
  BY <1>1, ParserInvariant, PTL
=============================================================================
