--------------------------- MODULE RequestHandler ---------------------------
(***************************************************************************)
(* request_handler::handle_request and the url_decode it begins with: one  *)
(* uri of Uris is decoded, checked, looked up under the document root and  *)
(* read, while another process may rewrite the files.                      *)
(*                                                                         *)
(* Characters are C++ chars (see RequestParser).  The document root is the *)
(* same in every path and left out; a file's content is a sequence of      *)
(* marks.  disk maps the names that can be opened to their contents: a     *)
(* directory opens too and reads as empty.                                 *)
(***************************************************************************)
EXTENDS RequestParser, Reply

CONSTANTS
    Uris,       \* the uris of parsed requests
    Names,      \* the paths, relative to the root, that may exist
    Texts,      \* the texts whose percent-encodings are looked at
    Contents,   \* what a file may hold
    Chunk       \* the size of buf, 512 in the code

ASSUME UrisAssumption == Uris \subseteq Seq(Char)
ASSUME NamesAssumption == Names \subseteq Seq(Char)
ASSUME TextsAssumption == Texts \subseteq Seq(Char)
ASSUME ContentsAssumption == Contents \subseteq Seq(Nat)
ASSUME ChunkAssumption == Chunk \in Nat \ {0}

PLUS == 43
PERCENT == 37
MINUS == 45

INDEX_HTML == <<105, 110, 100, 101, 120, 46, 104, 116, 109, 108>>

----------------------------------------------------------------------------
(* Steps of url_decode and handle_request.                                 *)

hex_digit(c) ==
    CASE c \in 48..57 -> {c - 48}
      [] c \in 65..70 -> {c - 55}
      [] c \in 97..102 -> {c - 87}
      [] OTHER -> {}

\* `is >> std::hex >> value` on the two characters after "%": the set of the
\* value read, empty when the extraction fails.  The extraction stops at the
\* first character that is no digit, takes a sign, and finds no digit in "0x".
\* (It would skip white space, which no uri of the parser holds.)
extract_hex(a, b) ==
    IF hex_digit(a) # {} /\ hex_digit(b) # {}
    THEN {16 * x + y : x \in hex_digit(a), y \in hex_digit(b)}
    ELSE IF a = DIGIT0 /\ b \in {88, 120} THEN {}
    ELSE IF hex_digit(a) # {} THEN hex_digit(a)
    ELSE IF a = PLUS THEN hex_digit(b)
    ELSE IF a = MINUS THEN {(65536 - y) % 65536 : y \in hex_digit(b)}
    ELSE {}

\* static_cast<char> of the uint16_t.
narrow(value) == to_char(value % 256)

HasDotDot(path) ==
    \E i \in 1..(Len(path) - 1) : path[i] = DOT /\ path[i + 1] = DOT

\* Mutant: only a ".." with a slash after it is found.
acceptable_slash(path) ==
    /\ path # <<>>
    /\ path[1] = SLASH
    /\ \A i \in 3..Len(path) :
          path[i] = SLASH => path[i - 1] # DOT \/ path[i - 2] # DOT

\* The checks on the decoded path.
acceptable(path) ==
    /\ path # <<>>
    /\ path[1] = SLASH
    /\ ~HasDotDot(path)

with_index(path) ==
    IF path[Len(path)] = SLASH THEN path \o INDEX_HTML ELSE path

\* What the ifstream opens: the path's c_str(), which ends at the first NUL.
c_str(path) ==
    LET ends == {i \in 1..Len(path) : path[i] = 0}
    IN  IF ends = {} THEN path
        ELSE SubSeq(path, 1, (CHOOSE i \in ends : \A j \in ends : i <= j) - 1)

----------------------------------------------------------------------------
VARIABLES
    uri,        \* req.uri
    pc,         \* where handle_request is
    index,      \* url_decode: the index of its loop
    path,       \* url_decode's result, then request_path
    rep,        \* the reply under construction
    offset,     \* how much of the file has been read
    disk        \* the names that can be opened, with what they hold

handler_vars == <<uri, pc, index, path, rep, offset, disk>>

\* `reply reply_;` of the connection: the status is not initialised.
NoReply == [status |-> 0, headers |-> <<>>, content |-> <<>>]

HandlerInit ==
    /\ uri \in Uris
    /\ pc = "decode"
    /\ index = 1
    /\ path = <<>>
    /\ rep = NoReply
    /\ offset = 0
    /\ \E ns \in SUBSET Names : disk \in [ns -> Contents]

\* url_decode returned nullopt, or the decoded path is refused.
BadRequest ==
    /\ rep' = stock_reply(400)
    /\ pc' = "done"
    /\ UNCHANGED <<uri, index, path, offset, disk>>

DecodeTo(c, width) ==
    /\ path' = Append(path, c)
    /\ index' = index + width
    /\ UNCHANGED <<uri, pc, rep, offset, disk>>

\* "%" with two characters after it.
HasPair == index + 2 <= Len(uri)

\* Mutant: the bound of the pair is one too strict.
DecodePercent_strict ==
    /\ pc = "decode" /\ index <= Len(uri) /\ uri[index] = PERCENT
    /\ \/ /\ index + 2 < Len(uri)
          /\ \E value \in extract_hex(uri[index + 1], uri[index + 2]) :
                DecodeTo(narrow(value), 3)
       \/ /\ index + 2 < Len(uri) => extract_hex(uri[index + 1], uri[index + 2]) = {}
          /\ BadRequest

DecodePercent ==
    /\ pc = "decode" /\ index <= Len(uri) /\ uri[index] = PERCENT
    /\ \/ /\ HasPair
          /\ \E value \in extract_hex(uri[index + 1], uri[index + 2]) :
                DecodeTo(narrow(value), 3)
       \/ /\ HasPair => extract_hex(uri[index + 1], uri[index + 2]) = {}
          /\ BadRequest

DecodePlain ==
    /\ pc = "decode" /\ index <= Len(uri) /\ uri[index] # PERCENT
    /\ DecodeTo(IF uri[index] = PLUS THEN SP ELSE uri[index], 1)

\* url_decode has returned; handle_request looks at the path.
CheckPath ==
    /\ pc = "decode" /\ index > Len(uri)
    /\ \/ /\ ~acceptable(path)
          /\ BadRequest
       \/ /\ acceptable(path)
          /\ path' = with_index(path)
          /\ pc' = "open"
          /\ UNCHANGED <<uri, index, rep, offset, disk>>

Open ==
    /\ pc = "open"
    /\ IF c_str(path) \in DOMAIN disk
       THEN /\ rep' = [rep EXCEPT !.status = 200]
            /\ pc' = "read"
       ELSE /\ rep' = stock_reply(404)
            /\ pc' = "done"
    /\ UNCHANGED <<uri, index, path, offset, disk>>

AtMost(n, bound) == IF n < bound THEN n ELSE bound

\* Mutant: the loop goes on while gcount() >= 0.
Read_endless ==
    /\ pc = "read"
    /\ LET content == disk[c_str(path)]
           upto == AtMost(offset + Chunk, Len(content))
           more == SubSeq(content, offset + 1, upto)
       IN  /\ rep' = [rep EXCEPT !.content = @ \o more]
           /\ offset' = offset + Len(more)
    /\ UNCHANGED <<uri, pc, index, path, disk>>

\* One is.read: up to Chunk marks from the offset of the file as it is now.
\* After a short read the stream has failed and the next one gets nothing.
Read ==
    /\ pc = "read"
    /\ LET content == disk[c_str(path)]
           upto == AtMost(offset + Chunk, Len(content))
           more == SubSeq(content, offset + 1, upto)
           all == rep.content \o more
       IN  IF Len(more) = Chunk
           THEN /\ rep' = [rep EXCEPT !.content = all]
                /\ offset' = offset + Chunk
                /\ UNCHANGED pc
           ELSE /\ rep' = [rep EXCEPT !.content = all,
                                      !.headers = content_headers(all)]
                /\ pc' = "done"
                /\ UNCHANGED offset
    /\ UNCHANGED <<uri, index, path, disk>>

HandleRequest == DecodePercent \/ DecodePlain \/ CheckPath \/ Open \/ Read

\* Another process creates a file or rewrites one in place.
Save ==
    /\ \E n \in Names, c \in Contents :
          disk' = [m \in DOMAIN disk \cup {n} |-> IF m = n THEN c ELSE disk[m]]
    /\ UNCHANGED <<uri, pc, index, path, rep, offset>>

HandlerNext == HandleRequest \/ Save

\* The handler runs to its end once called; Save owes nothing.
HandlerSpec ==
    HandlerInit /\ [][HandlerNext]_handler_vars /\ WF_handler_vars(HandleRequest)

----------------------------------------------------------------------------
\* Every decoded character fits a char, the decoder stays within the uri, and
\* only names under the root are on the disk (url_decode, whz_utils.hpp:19).
HandlerTypeOK ==
    /\ uri \in Seq(Char)
    /\ pc \in {"decode", "open", "read", "done"}
    /\ index \in 1..(Len(uri) + 1)
    /\ path \in Seq(Char)
    /\ offset \in Nat
    /\ DOMAIN disk \subseteq Names

\* Nothing outside the document root is opened: the name given to the ifstream
\* starts with "/" and holds no "..", however the uri spelled its characters,
\* with the index page appended or a NUL cutting it short
\* (whz_request_handler.cpp:20-34).
Contained ==
    pc \in {"open", "read"} =>
        LET name == c_str(path)
        IN  name # <<>> /\ name[1] = SLASH /\ ~HasDotDot(name)

UpperHex(n) == IF n < 10 THEN DIGIT0 + n ELSE 55 + n

\* A text with each of its characters as "%" and two hexadecimal digits.
PercentEncoded(text) ==
    [j \in 1..3 * Len(text) |->
        LET c == text[((j - 1) \div 3) + 1] % 256
        IN  CASE (j - 1) % 3 = 0 -> PERCENT
              [] (j - 1) % 3 = 1 -> UpperHex(c \div 16)
              [] OTHER -> UpperHex(c % 16)]

\* url_decode undoes percent-encoding, for every character a char can hold and
\* with the escape at the very end of the uri (whz_utils.hpp:24): such a uri is
\* refused only when the text itself is.
DecodeInverts ==
    \A t \in Texts :
        uri = PercentEncoded(t) =>
            /\ pc = "decode" => path = SubSeq(t, 1, index \div 3)
            /\ acceptable(t) => pc # "done" \/ rep.status # 400

\* How a client reads the buffers of a reply: the empty line is the first CRLF
\* after the CRLF of another line; what follows it is the content.
EmptyLine(wire) ==
    {k \in 2..Len(wire) :
        wire[k][1] = "crlf" /\ wire[k - 1][1] \in {"status line", "crlf"}}

\* A finished reply is framed so that a client finds its end: one empty line,
\* then as many bytes as Content-Length says, also when the file was
\* rewritten while it was read.
WireFramed ==
    pc = "done" =>
        LET wire == to_buffers(rep)
        IN  /\ wire[1] = <<"status line", rep.status>>
            /\ EmptyLine(wire) = {Len(wire) - 1}
            /\ \E k \in 2..(Len(wire) - 2) :
                  /\ wire[k] = <<"name", "Content-Length">>
                  /\ Decimal(wire[k + 2][2]) = Len(wire[Len(wire)][2])

\* Another process makes the file that is being read longer.
Lengthens ==
    /\ pc = "read"
    /\ Len(disk'[c_str(path)]) > Len(disk[c_str(path)])

\* A request gets one of the three replies, while files come and are rewritten
\* under the read, unless the file that is read grows again and again: the loop
\* of handle_request goes on to the end of the file as it is, and a file that
\* grows as fast as it is read has none.
Answered ==
    []<><<Lengthens>>_handler_vars \/ <>(pc = "done" /\ rep.status \in {200, 400, 404})
=============================================================================
