----------------------------- MODULE ParseLoop -----------------------------
(***************************************************************************)
(* The loop of request_parser::parse as a specification: one of Streams is *)
(* fed to a fresh parser, one byte per step, until the parser gives a      *)
(* verdict or the bytes run out.                                           *)
(***************************************************************************)
EXTENDS RequestGrammar

CONSTANTS
    Streams,    \* the byte streams a client may send
    Garbage     \* what the uninitialised version fields of a request may hold

ASSUME StreamsAssumption == Streams \subseteq Seq(Byte)
ASSUME GarbageAssumption == Garbage \subseteq UInt8

VARIABLES
    stream,     \* the bytes of this run
    fed,        \* how many of them consume() has been given
    parser      \* the parser and its request

loop_vars == <<stream, fed, parser>>

LoopInit ==
    /\ stream \in Streams
    /\ fed = 0
    /\ \E u, v \in Garbage : parser = new_parser(u, v)

\* One turn of the loop of parse().
Feed ==
    /\ parser.result = "indeterminate"
    /\ fed < Len(stream)
    /\ fed' = fed + 1
    /\ parser' = consume(parser, to_char(stream[fed + 1]))
    /\ UNCHANGED stream

LoopNext == Feed

LoopSpec == LoopInit /\ [][LoopNext]_loop_vars

----------------------------------------------------------------------------
\* Every field keeps its C++ type: the version numbers stay one byte wide and
\* every stored character is a char (struct request, whz_common.hpp:16).
LoopTypeOK ==
    /\ stream \in Seq(Byte)
    /\ fed \in 0..Len(stream)
    /\ parser \in Parser

\* consume() calls req.headers.back() only when a header has been pushed: a
\* continuation line cannot come before the first header, so back() is defined
\* (whz_request_parser.cpp:124, 145, 155, 172).
HeadersBackDefined ==
    (parser.result = "indeterminate" /\ parser.state_ \in UsesBack)
        => parser.req.headers # <<>>

\* Whatever the client sends, no control character (so no CR, LF or NUL) gets
\* into the uri or a header value, the method and the header names are made
\* of token characters, and no header name is empty: each push_back in
\* consume() comes after its character tests.
FieldsClean == IsClean(parser.req)

Done == parser.result # "indeterminate" \/ fed = Len(stream)

\* parse() says good exactly at the end of the first message of the stream,
\* and never when the stream holds none: a bad request is not let through and
\* a correct one is not refused, wherever the wrong byte is.
FirstMessageFound ==
    Done =>
        IF HasMessage(stream)
        THEN parser.result = "good" /\ fed = MessageEnd(stream)
        ELSE parser.result # "good"

\* The request handed to the request handler is what the message says: the
\* version fields hold its numbers modulo 256 whatever the uninitialised
\* request held, and a folded header value is glued without its blanks.
ParsedFields ==
    parser.result = "good" => parser.req = FieldsOf(stream, fed)
=============================================================================
