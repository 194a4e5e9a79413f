----------------------------- MODULE Connection -----------------------------
(***************************************************************************)
(* whz::connection: the completion handlers of one plain connection, with  *)
(* its buffer_, its parser and request, and its peer.                      *)
(*                                                                         *)
(* A read puts n bytes at the front of buffer_ and leaves the rest of it,  *)
(* zeros at first, as it was; parse() is given the whole buffer.  What     *)
(* handle_request does with a request is the subject of RequestHandler.    *)
(***************************************************************************)
EXTENDS RequestGrammar

CONSTANTS
    Streams,    \* the bytes a client may send
    Garbage,    \* what the uninitialised version fields of a request may hold
    BufSize,    \* the size of buffer_, 8192 in the code
    Whole       \* TRUE if a read gets all the bytes there are room for

ASSUME StreamsAssumption == Streams \subseteq Seq(Byte)
ASSUME GarbageAssumption == Garbage \subseteq UInt8
ASSUME BufSizeAssumption == BufSize \in Nat \ {0}
ASSUME WholeAssumption == Whole \in BOOLEAN

VARIABLES
    stream,     \* what the client sends
    got,        \* how many bytes of it have been read
    buffer,     \* buffer_
    parser,     \* request_parser_ and request_
    pos,        \* the next byte of buffer_ for parse()
    reply,      \* reply_: none, bad_request or handled (by handle_request)
    phase,      \* the pending operation, or how the connection ended
    peer        \* open, shut (has closed its side) or reset

vars == <<stream, got, buffer, parser, pos, reply, phase, peer>>

Init ==
    /\ stream \in Streams
    /\ got = 0
    /\ buffer = [i \in 1..BufSize |-> 0]
    /\ \E u, v \in Garbage : parser = new_parser(u, v)
    /\ pos = 1
    /\ reply = "none"
    /\ phase = "reading"
    /\ peer = "open"

\* How many bytes a read may transfer.
Room == IF Len(stream) - got < BufSize THEN Len(stream) - got ELSE BufSize

Transfers == IF Whole THEN {n \in {Room} : n > 0} ELSE 1..Room

\* Mutant: the bytes are appended to what the buffer holds.
filled_behind(n) == SubSeq(buffer, 1, BufSize - 1) \o SubSeq(stream, got + 1, got + n)

\* buffer_ after a read of n bytes.
filled(n) ==
    [i \in 1..BufSize |-> IF i <= n THEN stream[got + i] ELSE buffer[i]]

\* The handler of async_read_some, without error: parse() is to begin.
ReadSome ==
    /\ phase = "reading"
    /\ peer # "reset"
    /\ \E n \in Transfers :
          /\ got' = got + n
          /\ buffer' = filled(n)
    /\ pos' = 1
    /\ phase' = "parsing"
    /\ UNCHANGED <<stream, parser, reply, peer>>

\* Mutant: a verdict does not end the loop.
ParseOver_end == pos > BufSize

\* Mutant: the loop stops a byte early.
ParseOver_early == parser.result # "indeterminate" \/ pos >= BufSize

\* The loop of parse() is over: at the first verdict or at buffer_.end().
ParseOver == parser.result # "indeterminate" \/ pos > BufSize

\* One turn of the loop of parse(), which goes to buffer_.end() whatever the
\* number of bytes transferred.
ParseByte ==
    /\ phase = "parsing"
    /\ ~ParseOver
    /\ parser' = consume(parser, to_char(buffer[pos]))
    /\ pos' = pos + 1
    /\ UNCHANGED <<stream, got, buffer, reply, phase, peer>>

\* Mutant: a bad request is read on instead of answered.
Dispatch_lenient ==
    /\ phase = "parsing"
    /\ ParseOver
    /\ reply' = IF parser.result = "good" THEN "handled" ELSE "none"
    /\ phase' = IF parser.result = "good" THEN "writing" ELSE "reading"
    /\ UNCHANGED <<stream, got, buffer, parser, pos, peer>>

\* What the handler goes on with: handle_request or the stock reply
\* bad_request, either one written, or another read.
Dispatch ==
    /\ phase = "parsing"
    /\ ParseOver
    /\ reply' = CASE parser.result = "good" -> "handled"
                  [] parser.result = "bad" -> "bad_request"
                  [] parser.result = "indeterminate" -> "none"
    /\ phase' = IF parser.result = "indeterminate" THEN "reading" ELSE "writing"
    /\ UNCHANGED <<stream, got, buffer, parser, pos, peer>>

\* The same with an error, end of file or connection reset: the handler does
\* nothing, and with it the last reference to the connection goes.
ReadError ==
    /\ phase = "reading"
    /\ peer = "reset" \/ (peer = "shut" /\ got = Len(stream))
    /\ phase' = "closed"
    /\ UNCHANGED <<stream, got, buffer, parser, pos, reply, peer>>

\* The handler of async_write: whatever the error, socket_.shutdown, which
\* throws if there is no connection any more.
WriteDone ==
    /\ phase = "writing"
    /\ phase' = IF peer = "reset" THEN "threw" ELSE "closed"
    /\ UNCHANGED <<stream, got, buffer, parser, pos, reply, peer>>

PeerShuts ==
    /\ peer = "open"
    /\ phase \in {"reading", "parsing", "writing"}
    /\ peer' = "shut"
    /\ UNCHANGED <<stream, got, buffer, parser, pos, reply, phase>>

PeerResets ==
    /\ peer # "reset"
    /\ phase \in {"reading", "parsing", "writing"}
    /\ peer' = "reset"
    /\ UNCHANGED <<stream, got, buffer, parser, pos, reply, phase>>

Next ==
    \/ ReadSome \/ ReadError \/ ParseByte \/ Dispatch \/ WriteDone
    \/ PeerShuts \/ PeerResets

\* The io_context runs a handler whose operation has completed, to its end.
\* A read completes, the client having sent what it sends; a write need not,
\* the client may never read.
Spec ==
    /\ Init
    /\ [][Next]_vars
    /\ WF_vars(ReadSome \/ ReadError)
    /\ WF_vars(ParseByte \/ Dispatch)

----------------------------------------------------------------------------
\* The buffer keeps its size and holds bytes, whatever a read brings; the
\* connection is read no further than the client has sent.
TypeOK ==
    /\ stream \in Seq(Byte)
    /\ got \in 0..Len(stream)
    /\ buffer \in [1..BufSize -> Byte]
    /\ parser \in Parser
    /\ pos \in 1..(BufSize + 1)
    /\ reply \in {"none", "bad_request", "handled"}
    /\ phase \in {"reading", "parsing", "writing", "closed", "threw"}
    /\ peer \in {"open", "shut", "reset"}

\* A reply is written, and the connection ended by it, exactly when the parser
\* has given its verdict, and it is the reply for that verdict; no byte is
\* read after the verdict.
ReplyFollowsVerdict ==
    /\ phase = "reading" => parser.result = "indeterminate"
    /\ phase \in {"writing", "threw"} => reply # "none"
    /\ phase # "parsing" =>
          /\ reply = "handled" <=> parser.result = "good"
          /\ reply = "bad_request" <=> parser.result = "bad"

\* What a client may be answered.  The beginning of a message is owed no
\* answer and gets either: the rest of the buffer is parsed as its end.
Verdicts(s) ==
    IF HasMessage(s) THEN {"handled"}
    ELSE IF IsBeginning(s) THEN {"handled", "bad_request"}
    ELSE {"bad_request"}

Client ==
    INSTANCE Exchange WITH Verdict <- Verdicts, ended <- phase \in {"closed", "threw"}

\* While reads fill the buffer, a connection answers at most once, and its
\* answer is one the client's bytes allow by the grammar of RequestGrammar:
\* a message is handled, what cannot become one is refused, however it falls
\* over the reads.
ExchangeSpec == Client!Spec

\* The request that handle_request is given is the first message the client
\* has sent, whatever follows it in the buffer.
HandledRequest ==
    reply = "handled" /\ HasMessage(stream) =>
        parser.req = FieldsOf(stream, MessageEnd(stream))

\* A client that has sent a message is answered, unless it resets.
MessageAnswered ==
    HasMessage(stream) => <>(reply = "handled" \/ peer = "reset")

\* A client's message is answered as such however the network has cut it.
CutDoesNotMatter ==
    reply # "none" /\ HasMessage(stream) => reply = "handled"
=============================================================================
