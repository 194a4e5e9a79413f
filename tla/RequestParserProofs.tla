------------------------ MODULE RequestParserProofs -------------------------
(***************************************************************************)
(* What consume() keeps of a parser and its request, whatever the char, and *)
(* that the messages it accepts are those of RequestGrammar: the parser is *)
(* good where the grammar has its first message, bad only where no message is *)
(* possible any more, and otherwise the bytes are the beginning of one.    *)
(***************************************************************************)
EXTENDS RequestGrammar, WellFoundedInduction, TLAPS

----------------------------------------------------------------------------
(* Types, clean fields, and the uses of req.headers.back().                *)

\* The states that a later use of req.headers.back() can be reached from
\* without another push_back: UsesBack and the state between ":" and value.
BackStates == UsesBack \cup {"space_before_header_value"}

\* HeadersBackDefined is not inductive: space_before_header_value leads to
\* header_value and must know of the header too.
ParserInv(p) ==
    /\ p \in Parser
    /\ IsClean(p.req)
    /\ p.state_ \in BackStates => p.req.headers # <<>>

\* A new state or a new result leaves the fields alone.
LEMMA GotoKeeps ==
    ASSUME NEW p, ParserInv(p), NEW s \in States,
           s \in BackStates => p.req.headers # <<>>
    PROVE  ParserInv(goto(p, s))
BY DEF ParserInv, goto, Parser

\* A rejected char.
LEMMA RejectKeeps ==
    ASSUME NEW p, ParserInv(p)
    PROVE  ParserInv(reject(p))
BY DEF ParserInv, reject, Parser, Results

\* The LF that completes the message.
LEMMA GoodKeeps ==
    ASSUME NEW p, ParserInv(p)
    PROVE  ParserInv([p EXCEPT !.result = "good"])
BY DEF ParserInv, Parser, Results

\* A char that has to be b.
LEMMA ExpectKeeps ==
    ASSUME NEW p, ParserInv(p), NEW c, NEW b, NEW s \in States,
           s \in BackStates => p.req.headers # <<>>
    PROVE  ParserInv(expect(p, c, b, s))
BY GotoKeeps, RejectKeeps DEF expect

\* A clean request in place of the old one, with headers if it had some.
LEMMA NewRequestKeeps ==
    ASSUME NEW p, ParserInv(p), NEW r \in Request, IsClean(r),
           p.req.headers # <<>> => r.headers # <<>>
    PROVE  ParserInv([p EXCEPT !.req = r])
BY DEF ParserInv, Parser

\* Appending a character that passed the test the others passed.
LEMMA AppendKeeps ==
    ASSUME NEW s \in Seq(Char), NEW c \in Char
    PROVE  /\ Append(s, c) \in Seq(Char)
           /\ Append(s, c) # <<>>
           /\ AllTokens(s) /\ is_token(c) => AllTokens(Append(s, c))
           /\ NoControls(s) /\ ~is_ctl(c) => NoControls(Append(s, c))
BY DEF AllTokens, NoControls

\* A char of a token on the method.
LEMMA PushMethodKeeps ==
    ASSUME NEW p, ParserInv(p), NEW c \in Char, is_token(c)
    PROVE  ParserInv(push_method(p, c))
<1> DEFINE m == Append(p.req.method, c)
           r == [p.req EXCEPT !.method = m]
<1>1. p.req \in Request /\ p.req.method \in Seq(Char) /\ IsClean(p.req)
  BY DEF ParserInv, Parser, Request
<1>2. m \in Seq(Char) /\ AllTokens(m)
  BY <1>1, AppendKeeps DEF IsClean
<1> HIDE DEF m
<1>3. r \in Request /\ IsClean(r) /\ r.headers = p.req.headers
  BY <1>1, <1>2 DEF Request, IsClean
<1>4. push_method(p, c) = [p EXCEPT !.req = r]
  BY DEF push_method, m
<1> QED
  BY <1>3, <1>4, NewRequestKeeps, ZenonT(60)

\* A char that is no control on the uri.
LEMMA PushUriKeeps ==
    ASSUME NEW p, ParserInv(p), NEW c \in Char, ~is_ctl(c)
    PROVE  ParserInv(push_uri(p, c))
<1> DEFINE m == Append(p.req.uri, c)
           r == [p.req EXCEPT !.uri = m]
<1>1. p.req \in Request /\ p.req.uri \in Seq(Char) /\ IsClean(p.req)
  BY DEF ParserInv, Parser, Request
<1>2. m \in Seq(Char) /\ NoControls(m)
  BY <1>1, AppendKeeps DEF IsClean
<1> HIDE DEF m
<1>3. r \in Request /\ IsClean(r) /\ r.headers = p.req.headers
  BY <1>1, <1>2 DEF Request, IsClean
<1>4. push_uri(p, c) = [p EXCEPT !.req = r]
  BY DEF push_uri, m
<1> QED
  BY <1>3, <1>4, NewRequestKeeps, ZenonT(60)

\* The three pushes on headers replace the sequence by a clean one.
LEMMA NewHeadersKeep ==
    ASSUME NEW p, ParserInv(p), NEW hs \in Seq(Header), hs # <<>>,
           \A i \in DOMAIN hs : IsCleanHeader(hs[i])
    PROVE  ParserInv([p EXCEPT !.req = [p.req EXCEPT !.headers = hs]])
<1> DEFINE r == [p.req EXCEPT !.headers = hs]
<1>1. p.req \in Request /\ IsClean(p.req)
  BY DEF ParserInv, Parser
<1>2. r \in Request /\ IsClean(r) /\ r.headers = hs
  BY <1>1 DEF Request, IsClean
<1> QED
  BY <1>2, NewRequestKeeps

\* push_back() of a header whose name is one char of a token.
LEMMA PushHeaderKeeps ==
    ASSUME NEW p, ParserInv(p), NEW c \in Char, is_token(c)
    PROVE  /\ ParserInv(push_header(p, c))
           /\ push_header(p, c).req.headers # <<>>
<1> DEFINE h == [name |-> <<c>>, value |-> <<>>]
           hs == Append(p.req.headers, h)
<1>1. p.req.headers \in Seq(Header)
        /\ \A i \in DOMAIN p.req.headers : IsCleanHeader(p.req.headers[i])
  BY DEF ParserInv, Parser, Request, IsClean
<1>2. h \in Header /\ IsCleanHeader(h)
  BY DEF Header, IsCleanHeader, AllTokens, NoControls
<1> HIDE DEF h
<1>3. hs \in Seq(Header) /\ hs # <<>>
        /\ \A i \in DOMAIN hs : IsCleanHeader(hs[i])
  BY <1>1, <1>2
<1>4. push_header(p, c) = [p EXCEPT !.req = [p.req EXCEPT !.headers = hs]]
  BY DEF push_header, h
<1>5. push_header(p, c).req.headers = hs
  BY <1>4 DEF ParserInv, Parser, Request
<1> QED
  BY <1>3, <1>4, <1>5, NewHeadersKeep

\* req.headers.back() replaced by another clean header.
LEMMA NewBackKeeps ==
    ASSUME NEW p, ParserInv(p), p.req.headers # <<>>,
           NEW h \in Header, IsCleanHeader(h)
    PROVE  ParserInv([p EXCEPT !.req = [p.req EXCEPT !.headers =
                        [p.req.headers EXCEPT ![Len(p.req.headers)] = h]]])
<1> DEFINE hs == [p.req.headers EXCEPT ![Len(p.req.headers)] = h]
<1>1. p.req.headers \in Seq(Header)
        /\ \A i \in DOMAIN p.req.headers : IsCleanHeader(p.req.headers[i])
  BY DEF ParserInv, Parser, Request, IsClean
<1>2. hs \in Seq(Header) /\ hs # <<>>
        /\ \A i \in DOMAIN hs : IsCleanHeader(hs[i])
  BY <1>1
<1> QED
  BY <1>2, NewHeadersKeep

\* req.headers.back() is a header that was pushed.
LEMMA BackIsClean ==
    ASSUME NEW p, ParserInv(p), p.req.headers # <<>>
    PROVE  /\ p.req.headers[Len(p.req.headers)] \in Header
           /\ IsCleanHeader(p.req.headers[Len(p.req.headers)])
<1>1. p.req.headers \in Seq(Header)
        /\ \A i \in DOMAIN p.req.headers : IsCleanHeader(p.req.headers[i])
  BY DEF ParserInv, Parser, Request, IsClean
<1> QED
  BY <1>1

\* A char of a token on the name of the last header.
LEMMA PushNameKeeps ==
    ASSUME NEW p, ParserInv(p), p.req.headers # <<>>,
           NEW c \in Char, is_token(c)
    PROVE  ParserInv(push_name(p, c))
<1> DEFINE b == p.req.headers[Len(p.req.headers)]
           h == [b EXCEPT !.name = Append(b.name, c)]
<1>1. b \in Header /\ IsCleanHeader(b)
  BY BackIsClean
<1>2. push_name(p, c)
        = [p EXCEPT !.req = [p.req EXCEPT !.headers =
              [p.req.headers EXCEPT ![Len(p.req.headers)] = h]]]
  BY DEF push_name
<1> HIDE DEF b
<1>3. Append(b.name, c) \in Seq(Char) /\ Append(b.name, c) # <<>>
        /\ AllTokens(Append(b.name, c))
  BY <1>1, AppendKeeps DEF Header, IsCleanHeader
<1>4. h \in Header /\ IsCleanHeader(h)
  BY <1>1, <1>3 DEF Header, IsCleanHeader
<1> QED
  BY <1>2, <1>4, NewBackKeeps

\* A char that is no control on the value of the last header.
LEMMA PushValueKeeps ==
    ASSUME NEW p, ParserInv(p), p.req.headers # <<>>,
           NEW c \in Char, ~is_ctl(c)
    PROVE  /\ ParserInv(push_value(p, c))
           /\ push_value(p, c).req.headers # <<>>
<1> DEFINE b == p.req.headers[Len(p.req.headers)]
           h == [b EXCEPT !.value = Append(b.value, c)]
           hs == [p.req.headers EXCEPT ![Len(p.req.headers)] = h]
<1>1. b \in Header /\ IsCleanHeader(b)
  BY BackIsClean
<1>2. push_value(p, c) = [p EXCEPT !.req = [p.req EXCEPT !.headers = hs]]
  BY DEF push_value
<1>3. hs # <<>>
  BY DEF ParserInv, Parser, Request
<1>4. push_value(p, c).req.headers = hs
  BY <1>2 DEF ParserInv, Parser, Request
<1> HIDE DEF b
<1>5. Append(b.value, c) \in Seq(Char) /\ NoControls(Append(b.value, c))
  BY <1>1, AppendKeeps DEF Header, IsCleanHeader
<1>6. h \in Header /\ IsCleanHeader(h)
  BY <1>1, <1>5 DEF Header, IsCleanHeader
<1> QED
  BY <1>2, <1>3, <1>4, <1>6, NewBackKeeps

\* Another version byte.
LEMMA NewVersionKeeps ==
    ASSUME NEW p, ParserInv(p), NEW u \in UInt8, NEW v \in UInt8
    PROVE  ParserInv([p EXCEPT !.req =
                        [p.req EXCEPT !.http_version_major = u,
                                      !.http_version_minor = v]])
<1> DEFINE r == [p.req EXCEPT !.http_version_major = u,
                              !.http_version_minor = v]
<1>1. p.req \in Request /\ IsClean(p.req)
  BY DEF ParserInv, Parser
<1>2. r \in Request /\ r.headers = p.req.headers /\ r.method = p.req.method
        /\ r.uri = p.req.uri
  BY <1>1 DEF Request
<1>3. IsClean(r)
  BY <1>1, <1>2 DEF IsClean
<1> QED
  BY <1>2, <1>3, NewRequestKeeps

\* A digit keeps a version number within its uint8_t.
LEMMA DigitKeepsWidth ==
    ASSUME NEW n \in UInt8, NEW c \in Char
    PROVE  add_digit(n, c) \in UInt8
BY DEF add_digit, UInt8, Char, DIGIT0

\* A digit on a version byte, modulo 256.
LEMMA AddDigitKeeps ==
    ASSUME NEW p, ParserInv(p), NEW c \in Char
    PROVE  /\ ParserInv(add_major(p, c)) /\ add_major(p, c).state_ = p.state_
           /\ ParserInv(add_minor(p, c)) /\ add_minor(p, c).state_ = p.state_
<1> DEFINE u == p.req.http_version_major
           v == p.req.http_version_minor
           u2 == add_digit(u, c)
           v2 == add_digit(v, c)
<1>1. p \in Parser /\ p.req \in Request /\ u \in UInt8 /\ v \in UInt8
  BY DEF ParserInv, Parser, Request
<1>2. u2 \in UInt8 /\ v2 \in UInt8
  BY <1>1, DigitKeepsWidth
<1> HIDE DEF u2, v2
<1>3. add_major(p, c) =
        [p EXCEPT !.req = [p.req EXCEPT !.http_version_major = u2,
                                        !.http_version_minor = v]]
  BY <1>1 DEF add_major, Request, Parser, u2
<1>4. add_minor(p, c) =
        [p EXCEPT !.req = [p.req EXCEPT !.http_version_major = u,
                                        !.http_version_minor = v2]]
  BY <1>1 DEF add_minor, Request, Parser, v2
<1> HIDE DEF u, v
<1>5. ParserInv(add_major(p, c)) /\ ParserInv(add_minor(p, c))
  <2>1. ParserInv([p EXCEPT !.req = [p.req EXCEPT !.http_version_major = u2,
                                                  !.http_version_minor = v]])
    BY <1>1, <1>2, NewVersionKeeps, Zenon
  <2>2. ParserInv([p EXCEPT !.req = [p.req EXCEPT !.http_version_major = u,
                                                  !.http_version_minor = v2]])
    BY <1>1, <1>2, NewVersionKeeps, Zenon
  <2> QED
    BY <1>3, <1>4, <2>1, <2>2, Zenon
<1>6. add_major(p, c).state_ = p.state_ /\ add_minor(p, c).state_ = p.state_
  BY <1>1, <1>3, <1>4 DEF Parser
<1> QED
  BY <1>5, <1>6

\* The slash that resets the version.
LEMMA SlashKeeps ==
    ASSUME NEW p, ParserInv(p), NEW c \in Char
    PROVE  ParserInv(at_slash(p, c))
<1> DEFINE q == [p EXCEPT !.req =
                    [p.req EXCEPT !.http_version_major = 0,
                                  !.http_version_minor = 0]]
<1>0. 0 \in UInt8
  BY DEF UInt8
<1>1. ParserInv(q)
  BY <1>0, NewVersionKeeps, Zenon
<1>2. [p EXCEPT !.req.http_version_major = 0,
                !.req.http_version_minor = 0] = q
  BY DEF ParserInv, Parser, Request
<1> HIDE DEF q
<1>3. at_slash(p, c) \in {goto(q, "http_version_major_start"), reject(p)}
  BY <1>2 DEF at_slash
<1>4. ParserInv(goto(q, "http_version_major_start"))
  BY <1>1, GotoKeeps DEF States, BackStates, UsesBack
<1> QED
  BY <1>3, <1>4, RejectKeeps

----------------------------------------------------------------------------
\* consume() keeps the invariant, one step per state of the parser.
LEMMA ConsumeKeeps ==
    ASSUME NEW p, ParserInv(p), NEW c \in Char
    PROVE  ParserInv(consume(p, c))
<1> USE DEF BackStates, UsesBack
<1>0. p.state_ \in States
  BY DEF ParserInv, Parser
<1>1. CASE p.state_ \in {"http_version_h", "http_version_t_1",
                "http_version_t_2", "http_version_p", "expecting_newline_1",
                "expecting_newline_2"}
  BY <1>1, ExpectKeeps DEF consume, States
<1>2. CASE p.state_ = "space_before_header_value"
  <2>1. p.req.headers # <<>>
    BY <1>2 DEF ParserInv
  <2> QED
    BY <1>2, <2>1, ExpectKeeps DEF consume, States
<1>3. CASE p.state_ = "method_start"
  <2>1. is_token(c) => ParserInv(goto(push_method(p, c), "method"))
    BY PushMethodKeeps, GotoKeeps DEF States
  <2> QED
    BY <1>3, <2>1, RejectKeeps DEF consume, at_method_start
<1>4. CASE p.state_ = "method"
  <2>1. ParserInv(goto(p, "uri"))
    BY GotoKeeps DEF States
  <2> QED
    BY <1>4, <2>1, PushMethodKeeps, RejectKeeps DEF consume, at_method
<1>5. CASE p.state_ = "uri"
  <2>1. ParserInv(goto(p, "http_version_h"))
    BY GotoKeeps DEF States
  <2> QED
    BY <1>5, <2>1, PushUriKeeps, RejectKeeps DEF consume, at_uri
<1>6. CASE p.state_ = "http_version_slash"
  BY <1>6, SlashKeeps DEF consume
<1>7. CASE p.state_ \in {"http_version_major_start", "http_version_major"}
  <2>1. ParserInv(goto(p, "http_version_minor_start"))
    BY GotoKeeps DEF States
  <2>2. ParserInv(goto(add_major(p, c), "http_version_major"))
    BY AddDigitKeeps, GotoKeeps DEF States
  <2> QED
    BY <1>7, <2>1, <2>2, AddDigitKeeps, RejectKeeps
    DEF consume, at_major_start, at_major
<1>8. CASE p.state_ \in {"http_version_minor_start", "http_version_minor"}
  <2>1. ParserInv(goto(p, "expecting_newline_1"))
    BY GotoKeeps DEF States
  <2>2. ParserInv(goto(add_minor(p, c), "http_version_minor"))
    BY AddDigitKeeps, GotoKeeps DEF States
  <2> QED
    BY <1>8, <2>1, <2>2, AddDigitKeeps, RejectKeeps
    DEF consume, at_minor_start, at_minor
<1>9. CASE p.state_ = "header_line_start"
  <2>1. ParserInv(goto(p, "expecting_newline_3"))
    BY GotoKeeps DEF States
  <2>2. p.req.headers # <<>> => ParserInv(goto(p, "header_lws"))
    BY GotoKeeps DEF States
  <2>3. is_token(c) => ParserInv(goto(push_header(p, c), "header_name"))
    BY PushHeaderKeeps, GotoKeeps DEF States
  <2> QED
    BY <1>9, <2>1, <2>2, <2>3, RejectKeeps DEF consume, at_header_line_start
<1>10. CASE p.state_ = "header_lws"
  <2>1. p.req.headers # <<>>
    BY <1>10 DEF ParserInv
  <2>2. ParserInv(goto(p, "expecting_newline_2"))
    BY GotoKeeps DEF States
  <2>3. ~is_ctl(c) => ParserInv(goto(push_value(p, c), "header_value"))
    BY <2>1, PushValueKeeps, GotoKeeps DEF States
  <2> QED
    BY <1>10, <2>2, <2>3, RejectKeeps DEF consume, at_header_lws
<1>11. CASE p.state_ = "header_name"
  <2>1. p.req.headers # <<>>
    BY <1>11 DEF ParserInv
  <2>2. ParserInv(goto(p, "space_before_header_value"))
    BY <2>1, GotoKeeps DEF States
  <2> QED
    BY <1>11, <2>1, <2>2, PushNameKeeps, RejectKeeps
    DEF consume, at_header_name
<1>12. CASE p.state_ = "header_value"
  <2>1. p.req.headers # <<>>
    BY <1>12 DEF ParserInv
  <2>2. ParserInv(goto(p, "expecting_newline_2"))
    BY GotoKeeps DEF States
  <2> QED
    BY <1>12, <2>1, <2>2, PushValueKeeps, RejectKeeps
    DEF consume, at_header_value
<1>13. CASE p.state_ = "expecting_newline_3"
  BY <1>13, GoodKeeps, RejectKeeps DEF consume, at_newline_3
<1> QED
  BY <1>0, <1>1, <1>2, <1>3, <1>4, <1>5, <1>6, <1>7, <1>8, <1>9, <1>10,
     <1>11, <1>12, <1>13 DEF States

\* A byte of a buffer is a char to consume().
LEMMA ByteIsChar == ASSUME NEW b \in Byte PROVE to_char(b) \in Char
BY DEF to_char, Byte, Char

\* The constructor, whatever the uninitialised version fields hold.
LEMMA NewParserHolds ==
    ASSUME NEW u \in UInt8, NEW v \in UInt8
    PROVE  ParserInv(new_parser(u, v))
<1>1. fresh_request(u, v) \in Request /\ IsClean(fresh_request(u, v))
  BY DEF fresh_request, Request, IsClean, AllTokens, NoControls
<1> QED
  BY <1>1
  DEF ParserInv, new_parser, Parser, States, Results, BackStates, UsesBack

----------------------------------------------------------------------------
(* consume() as a transition function on bytes.                            *)

\* The bytes of a token and of a text, as the grammar has them.
TokenByte == 33..126 \ Separators
TextByte(b) == b \notin 0..31 \cup {127}

\* What consume() tests of a char, said of the byte it was.
LEMMA ByteKinds ==
    ASSUME NEW b \in Byte
    PROVE  /\ is_token(to_char(b)) <=> b \in TokenByte
           /\ ~is_ctl(to_char(b)) <=> TextByte(b)
           /\ is_digit(to_char(b)) <=> b \in 48..57
           /\ \A k \in 0..127 : to_char(b) = k <=> b = k
<1> USE DEF Byte
<1>1. CASE b < 128
  BY <1>1 DEF to_char, is_token, is_char, is_ctl, is_tspecial, is_digit,
     TokenByte, TextByte, Separators, COLON, SLASH, SP, HT, DIGIT0
<1>2. CASE ~(b < 128)
  <2>1. to_char(b) < 0
    BY <1>2 DEF to_char
  <2>2. ~is_token(to_char(b)) /\ ~is_ctl(to_char(b)) /\ ~is_digit(to_char(b))
    BY <1>2 DEF to_char, is_token, is_char, is_ctl, is_digit, DIGIT0
  <2> QED
    BY <1>2, <2>1, <2>2 DEF TokenByte, TextByte, Separators
<1> QED
  BY <1>1, <1>2

\* A byte of a token is no line end, no blank and no colon.
LEMMA TokenFacts ==
    ASSUME NEW x, x \in TokenByte
    PROVE  x # 13 /\ x # 10 /\ x # 32 /\ x # 9 /\ x # 58
<1>1. x \in 33..126 /\ x \notin Separators
  BY DEF TokenByte
<1>2. 58 \in Separators
  BY DEF Separators
<1> QED
  BY <1>1, <1>2

\* A byte of a text is no line end.
LEMMA TextFacts ==
    ASSUME NEW x, TextByte(x)
    PROVE  x \notin {13, 10}
<1>1. x \in {13, 10} => x \in 0..31
  OBVIOUS
<1> QED
  BY <1>1 DEF TextByte

\* The state consume() goes to with byte b, or the verdict it gives; h tells
\* whether req.headers has an element.
After(st, h, b) ==
    CASE st = "method_start" -> IF b \in TokenByte THEN "method" ELSE "bad"
      [] st = "method" ->
            IF b = 32 THEN "uri" ELSE IF b \in TokenByte THEN "method" ELSE "bad"
      [] st = "uri" ->
            IF b = 32 THEN "http_version_h" ELSE IF TextByte(b) THEN "uri" ELSE "bad"
      [] st = "http_version_h" -> IF b = 72 THEN "http_version_t_1" ELSE "bad"
      [] st = "http_version_t_1" -> IF b = 84 THEN "http_version_t_2" ELSE "bad"
      [] st = "http_version_t_2" -> IF b = 84 THEN "http_version_p" ELSE "bad"
      [] st = "http_version_p" -> IF b = 80 THEN "http_version_slash" ELSE "bad"
      [] st = "http_version_slash" ->
            IF b = 47 THEN "http_version_major_start" ELSE "bad"
      [] st = "http_version_major_start" ->
            IF b \in 48..57 THEN "http_version_major" ELSE "bad"
      [] st = "http_version_major" ->
            IF b = 46 THEN "http_version_minor_start"
            ELSE IF b \in 48..57 THEN "http_version_major" ELSE "bad"
      [] st = "http_version_minor_start" ->
            IF b \in 48..57 THEN "http_version_minor" ELSE "bad"
      [] st = "http_version_minor" ->
            IF b = 13 THEN "expecting_newline_1"
            ELSE IF b \in 48..57 THEN "http_version_minor" ELSE "bad"
      [] st = "expecting_newline_1" -> IF b = 10 THEN "header_line_start" ELSE "bad"
      [] st = "header_line_start" ->
            IF b = 13 THEN "expecting_newline_3"
            ELSE IF h /\ b \in {32, 9} THEN "header_lws"
            ELSE IF b \in TokenByte THEN "header_name" ELSE "bad"
      [] st = "header_lws" ->
            IF b = 13 THEN "expecting_newline_2"
            ELSE IF b \in {32, 9} THEN "header_lws"
            ELSE IF TextByte(b) THEN "header_value" ELSE "bad"
      [] st = "header_name" ->
            IF b = 58 THEN "space_before_header_value"
            ELSE IF b \in TokenByte THEN "header_name" ELSE "bad"
      [] st = "space_before_header_value" -> IF b = 32 THEN "header_value" ELSE "bad"
      [] st = "header_value" ->
            IF b = 13 THEN "expecting_newline_2"
            ELSE IF TextByte(b) THEN "header_value" ELSE "bad"
      [] st = "expecting_newline_2" -> IF b = 10 THEN "header_line_start" ELSE "bad"
      [] st = "expecting_newline_3" -> IF b = 10 THEN "good" ELSE "bad"

\* Where a parser is: its state or its verdict.
Place(p) == IF p.result = "indeterminate" THEN p.state_ ELSE p.result

\* Where goto(), reject() and the verdict good lead.
LEMMA PlaceFacts ==
    ASSUME NEW p \in Parser, p.result = "indeterminate"
    PROVE  /\ Place(reject(p)) = "bad"
           /\ \A st \in States : Place(goto(p, st)) = st
           /\ Place([p EXCEPT !.result = "good"]) = "good"
BY DEF Place, Parser, reject, goto

\* Writing to the request moves nothing; goto() after it does.
LEMMA PushFacts ==
    ASSUME NEW p \in Parser, p.result = "indeterminate", NEW c
    PROVE  \A q \in {push_method(p, c), push_uri(p, c), push_header(p, c),
              push_name(p, c), push_value(p, c), add_major(p, c), add_minor(p, c)} :
             Place(q) = p.state_ /\ \A st \in States : Place(goto(q, st)) = st
BY DEF Place, Parser, goto, push_method, push_uri, push_header, push_name,
   push_value, add_major, add_minor

\* At the slash the version is reset, and the parser goes on or rejects.
LEMMA SlashFacts ==
    ASSUME NEW p \in Parser, p.result = "indeterminate", NEW c
    PROVE  Place(at_slash(p, c))
             = IF c = SLASH THEN "http_version_major_start" ELSE "bad"
BY DEF Place, Parser, goto, at_slash, reject

\* consume() moves through the states as After says.
LEMMA ConsumeGoes ==
    ASSUME NEW p \in Parser, p.result = "indeterminate", NEW b \in Byte
    PROVE  Place(consume(p, to_char(b))) = After(p.state_, p.req.headers # <<>>, b)
<1> DEFINE c == to_char(b)
           h == p.req.headers # <<>>
<1>0. p.state_ \in States
  BY DEF Parser
<1>1. /\ is_token(c) <=> b \in TokenByte
      /\ ~is_ctl(c) <=> TextByte(b)
      /\ is_digit(c) <=> b \in 48..57
      /\ \A k \in 0..127 : c = k <=> b = k
  BY ByteKinds
<1>2. /\ c = 9 <=> b = 9 
      /\ c = 10 <=> b = 10 
      /\ c = 13 <=> b = 13 
      /\ c = 32 <=> b = 32 
      /\ c = 46 <=> b = 46
      /\ c = 47 <=> b = 47
      /\ c = 58 <=> b = 58
      /\ c = 72 <=> b = 72
      /\ c = 80 <=> b = 80
      /\ c = 84 <=> b = 84
  BY <1>1
<1> DEFINE G(s) == goto(p, s)
           E(byte, s) == expect(p, c, byte, s)
<1>3. /\ Place(reject(p)) = "bad"
      /\ Place([p EXCEPT !.result = "good"]) = "good"
      /\ \A s \in States : Place(goto(p, s)) = s
  BY PlaceFacts
<1>4. \A s \in States : \A k : Place(expect(p, c, k, s)) = IF c = k THEN s ELSE "bad"
  BY <1>3 DEF expect
<1>5. \A q \in {push_method(p, c), push_uri(p, c), push_header(p, c),
         push_name(p, c), push_value(p, c), add_major(p, c), add_minor(p, c)} :
             Place(q) = p.state_ /\ \A s \in States : Place(goto(q, s)) = s
  BY PushFacts
<1> HIDE DEF c, h
<1>6. SUFFICES Place(consume(p, c)) = After(p.state_, h, b)
  BY DEF c, h
<1> USE DEF HT, LF, CR, SP, DOT, SLASH, COLON, CAPITAL_H, CAPITAL_P, CAPITAL_T
<1>7. CASE p.state_ = "method_start"
  BY <1>7, <1>1, <1>2, <1>3, <1>5 DEF consume, After, States, at_method_start
<1>8. CASE p.state_ = "method"
  BY <1>8, <1>1, <1>2, <1>3, <1>5 DEF consume, After, States, at_method
<1>9. CASE p.state_ = "uri"
  BY <1>9, <1>1, <1>2, <1>3, <1>5 DEF consume, After, States, at_uri
<1>10. CASE p.state_ = "http_version_h"
  BY <1>10, <1>2, <1>4 DEF consume, After, States
<1>11. CASE p.state_ = "http_version_t_1"
  BY <1>11, <1>2, <1>4 DEF consume, After, States
<1>12. CASE p.state_ = "http_version_t_2"
  BY <1>12, <1>2, <1>4 DEF consume, After, States
<1>13. CASE p.state_ = "http_version_p"
  BY <1>13, <1>2, <1>4 DEF consume, After, States
<1>14. CASE p.state_ = "http_version_slash"
  BY <1>14, <1>2, SlashFacts DEF consume, After, States
<1>15. CASE p.state_ = "http_version_major_start"
  BY <1>15, <1>1, <1>2, <1>3, <1>5 DEF consume, After, States, at_major_start
<1>16. CASE p.state_ = "http_version_major"
  BY <1>16, <1>1, <1>2, <1>3, <1>5 DEF consume, After, States, at_major
<1>17. CASE p.state_ = "http_version_minor_start"
  BY <1>17, <1>1, <1>2, <1>3, <1>5 DEF consume, After, States, at_minor_start
<1>18. CASE p.state_ = "http_version_minor"
  BY <1>18, <1>1, <1>2, <1>3, <1>5 DEF consume, After, States, at_minor
<1>19. CASE p.state_ = "expecting_newline_1"
  BY <1>19, <1>2, <1>4 DEF consume, After, States
<1>20. CASE p.state_ = "header_line_start"
  <2>1. consume(p, c) = at_header_line_start(p, c)
    BY <1>20 DEF consume
  <2>2. After(p.state_, h, b)
          = IF b = 13 THEN "expecting_newline_3"
            ELSE IF h /\ b \in {32, 9} THEN "header_lws"
            ELSE IF b \in TokenByte THEN "header_name" ELSE "bad"
    BY <1>20 DEF After
  <2>3. at_header_line_start(p, c)
          = IF b = 13 THEN goto(p, "expecting_newline_3")
            ELSE IF h /\ b \in {32, 9} THEN goto(p, "header_lws")
            ELSE IF b \in TokenByte THEN goto(push_header(p, c), "header_name")
            ELSE reject(p)
    BY <1>1, <1>2 DEF at_header_line_start, h
  <2> QED
    BY <2>1, <2>2, <2>3, <1>3, <1>5 DEF States
<1>21. CASE p.state_ = "header_lws"
  BY <1>21, <1>1, <1>2, <1>3, <1>5 DEF consume, After, States, at_header_lws, Place
<1>22. CASE p.state_ = "header_name"
  BY <1>22, <1>1, <1>2, <1>3, <1>5 DEF consume, After, States, at_header_name
<1>23. CASE p.state_ = "space_before_header_value"
  BY <1>23, <1>2, <1>4 DEF consume, After, States
<1>24. CASE p.state_ = "header_value"
  BY <1>24, <1>1, <1>2, <1>3, <1>5 DEF consume, After, States, at_header_value
<1>25. CASE p.state_ = "expecting_newline_2"
  BY <1>25, <1>2, <1>4 DEF consume, After, States
<1>26. CASE p.state_ = "expecting_newline_3"
  BY <1>26, <1>2, <1>3 DEF consume, After, States, at_newline_3
<1> QED
  BY <1>0, <1>7, <1>8, <1>9, <1>10, <1>11, <1>12, <1>13, <1>14, <1>15, <1>16,
     <1>17, <1>18,
     <1>19, <1>20, <1>21, <1>22, <1>23, <1>24, <1>25, <1>26 DEF States

----------------------------------------------------------------------------
(* What the bytes read so far look like in each state: the parser accepts  *)
(* nothing but the grammar.                                                *)

\* In the method: bytes of a token.
InMethod(s, m) == IsToken(s, 1, m)

\* In the uri, after the space a.
InUri(s, m) ==
    \E a \in 1..m :
        IsMethod(s, a) /\ \A k \in a + 1..m : TextByte(s[k]) /\ s[k] # 32

\* The method and the uri end with the spaces a and b.
UpToUri(s, a, b) == a < b /\ IsMethod(s, a) /\ IsUri(s, a, b)

\* The first j bytes of "HTTP/" are read.
InVersion(s, m, j) ==
    \E a, b \in 1..m :
        UpToUri(s, a, b) /\ m = b + j /\ \A k \in 1..j : s[b + k] = VersionPrefix[k]

\* All of "HTTP/" is read after b.
UpToSlash(s, a, b) == UpToUri(s, a, b) /\ IsProtocol(s, b)

\* In the digits of the major version.
InMajor(s, m) ==
    \E a, b \in 1..m :
        UpToSlash(s, a, b) /\ IsDigits(s, b + 6, m)

\* The major version ends with the dot d.
UpToDot(s, a, b, d) == UpToSlash(s, a, b) /\ IsMajor(s, b, d)

\* At the dot.
AtDot(s, m) ==
    \E a, b \in 1..m : b + 6 <= m /\ UpToDot(s, a, b, m)

\* In the digits of the minor version.
InMinor(s, m) ==
    \E a, b, d \in 1..m :
        b + 6 <= d /\ UpToDot(s, a, b, d) /\ IsDigits(s, d + 1, m)

\* At the CR of the request line.
AtNewline1(s, m) == m >= 1 /\ s[m] = 13 /\ IsRequestLine(s, m)

\* A line begins at i, after a request line whose CR is at f; every line
\* between them is a header or a fold.
InHeaders(s, f, i) ==
    /\ IsLine(s, 1, f) /\ IsRequestLine(s, f)
    /\ i >= f + 2 /\ IsStart(s, i)
    /\ \A j \in f + 2..i - 1 :
          IsStart(s, j) => \E e \in j..i - 2 : IsHeaderLine(s, f, j, e)

\* Before the first byte of a line, at the CR of the empty line, in the name
\* of a header, at its colon, in the blanks of a fold.
AtLineStart(s, m) == \E f \in 1..m : InHeaders(s, f, m + 1)
AtNewline3(s, m) == \E f \in 1..m : InHeaders(s, f, m) /\ s[m] = 13
InName(s, m) ==
    \E f \in 1..m : \E i \in 1..m : InHeaders(s, f, i) /\ IsToken(s, i, m)
AtSpace(s, m) ==
    \E f \in 1..m : \E i \in 1..m :
        InHeaders(s, f, i) /\ IsToken(s, i, m - 1) /\ s[m] = 58
InLws(s, m) ==
    \E f \in 1..m : \E i \in 1..m :
        InHeaders(s, f, i) /\ i > f + 2 /\ IsBlank(s, i, m)

\* The line that begins at i has come to its text: a header, or a fold.
ValueOfHeader(s, i, m) ==
    \E c \in i..m - 1 :
        IsFirst(s, i, 58, c) /\ IsToken(s, i, c - 1) /\ s[c + 1] = 32
           /\ IsText(s, c + 2, m)
ValueOfFold(s, i, m) ==
    \E t \in i + 1..m :
        IsBlank(s, i, t - 1) /\ s[t] \notin {32, 9} /\ IsText(s, t, m)
InValue(s, m) ==
    \E f \in 1..m : \E i \in 1..m :
        /\ InHeaders(s, f, i)
        /\ ValueOfHeader(s, i, m) \/ (i > f + 2 /\ ValueOfFold(s, i, m))
\* At the CR of a header or a fold.
AtNewline2(s, m) ==
    \E f \in 1..m : \E i \in 1..m :
        /\ InHeaders(s, f, i) /\ IsFirst(s, i, 13, m)
        /\ IsHeader(s, i, m) \/ (i > f + 2 /\ IsFold(s, i, m))

\* What the first m bytes look like in each state.
Shape(s, m, st) ==
    CASE st = "method_start" -> m = 0
      [] st = "method" -> InMethod(s, m)
      [] st = "uri" -> InUri(s, m)
      [] st = "http_version_h" -> InVersion(s, m, 0)
      [] st = "http_version_t_1" -> InVersion(s, m, 1)
      [] st = "http_version_t_2" -> InVersion(s, m, 2)
      [] st = "http_version_p" -> InVersion(s, m, 3)
      [] st = "http_version_slash" -> InVersion(s, m, 4)
      [] st = "http_version_major_start" -> InVersion(s, m, 5)
      [] st = "http_version_major" -> InMajor(s, m)
      [] st = "http_version_minor_start" -> AtDot(s, m)
      [] st = "http_version_minor" -> InMinor(s, m)
      [] st = "expecting_newline_1" -> AtNewline1(s, m)
      [] st = "header_line_start" -> AtLineStart(s, m)
      [] st = "header_lws" -> InLws(s, m)
      [] st = "header_name" -> InName(s, m)
      [] st = "space_before_header_value" -> AtSpace(s, m)
      [] st = "header_value" -> InValue(s, m)
      [] st = "expecting_newline_2" -> AtNewline2(s, m)
      [] st = "expecting_newline_3" -> AtNewline3(s, m)

\* One lemma for each state: what the next byte, if accepted, makes of the
\* shape.
LEMMA MethodStep ==
    ASSUME NEW s, NEW m \in Nat, InMethod(s, m)
    PROVE  /\ s[m + 1] \in TokenByte => InMethod(s, m + 1)
           /\ s[m + 1] = 32 => InUri(s, m + 1)
<1> USE DEF InMethod, IsToken, TokenByte
<1>1. s[m + 1] \in TokenByte => InMethod(s, m + 1)
  OBVIOUS
<1>2. ASSUME s[m + 1] = 32 PROVE InUri(s, m + 1)
  <2>1. IsMethod(s, m + 1)
    BY <1>2 DEF IsMethod, IsFirst
  <2> QED
    BY <2>1 DEF InUri
<1> QED
  BY <1>1, <1>2

\* A byte of the uri, or the space behind it.
LEMMA UriStep ==
    ASSUME NEW s, NEW m \in Nat, InUri(s, m)
    PROVE  /\ TextByte(s[m + 1]) /\ s[m + 1] # 32 => InUri(s, m + 1)
           /\ s[m + 1] = 32 => InVersion(s, m + 1, 0)
<1>1. PICK a \in 1..m :
        IsMethod(s, a) /\ \A k \in a + 1..m : TextByte(s[k]) /\ s[k] # 32
  BY DEF InUri
<1>2. TextByte(s[m + 1]) /\ s[m + 1] # 32 => InUri(s, m + 1)
  BY <1>1 DEF InUri
<1>3. ASSUME s[m + 1] = 32 PROVE InVersion(s, m + 1, 0)
  <2>1. IsUri(s, a, m + 1)
    BY <1>1, <1>3 DEF IsUri, IsFirst, IsText, TextByte
  <2> QED
    BY <1>1, <2>1 DEF InVersion, UpToUri
<1> QED
  BY <1>2, <1>3

\* The next byte of "HTTP/".
LEMMA VersionStep ==
    ASSUME NEW s, NEW m \in Nat, NEW j \in 0..4, InVersion(s, m, j),
           s[m + 1] = VersionPrefix[j + 1]
    PROVE  InVersion(s, m + 1, j + 1)
<1>1. PICK a \in 1..m, b \in 1..m :
        UpToUri(s, a, b) /\ m = b + j /\ \A k \in 1..j : s[b + k] = VersionPrefix[k]
  BY DEF InVersion
<1>2. \A k \in 1..j + 1 : s[b + k] = VersionPrefix[k]
  BY <1>1
<1> QED
  BY <1>1, <1>2 DEF InVersion

\* The first digit of the major version.
LEMMA SlashStep ==
    ASSUME NEW s, NEW m \in Nat, InVersion(s, m, 5), s[m + 1] \in 48..57
    PROVE  InMajor(s, m + 1)
BY DEF InVersion, InMajor, UpToSlash, IsProtocol, IsDigits

\* Another digit of the major version, or the dot.
LEMMA MajorStep ==
    ASSUME NEW s, NEW m \in Nat, InMajor(s, m)
    PROVE  /\ s[m + 1] \in 48..57 => InMajor(s, m + 1)
           /\ s[m + 1] = 46 => AtDot(s, m + 1)
<1>1. PICK a \in 1..m, b \in 1..m : UpToSlash(s, a, b) /\ IsDigits(s, b + 6, m)
  BY DEF InMajor
<1>2. s[m + 1] \in 48..57 => InMajor(s, m + 1)
  BY <1>1 DEF InMajor, IsDigits
<1>3. ASSUME s[m + 1] = 46 PROVE AtDot(s, m + 1)
  <2>1. b + 6 <= m + 1 /\ IsMajor(s, b, m + 1)
    BY <1>1, <1>3 DEF IsMajor, IsFirst, IsDigits
  <2> QED
    BY <1>1, <2>1 DEF AtDot, UpToDot
<1> QED
  BY <1>2, <1>3

\* The first digit of the minor version.
LEMMA DotStep ==
    ASSUME NEW s, NEW m \in Nat, AtDot(s, m), s[m + 1] \in 48..57
    PROVE  InMinor(s, m + 1)
<1>1. PICK a \in 1..m, b \in 1..m : b + 6 <= m /\ UpToDot(s, a, b, m)
  BY DEF AtDot
<1>2. IsDigits(s, m + 1, m + 1)
  BY DEF IsDigits
<1>3. m \in 1..m + 1 /\ a \in 1..m + 1 /\ b \in 1..m + 1
  BY <1>1
<1> QED
  BY <1>1, <1>2, <1>3 DEF InMinor

\* Another digit of the minor version, or the CR.
LEMMA MinorStep ==
    ASSUME NEW s, NEW m \in Nat, InMinor(s, m)
    PROVE  /\ s[m + 1] \in 48..57 => InMinor(s, m + 1)
           /\ s[m + 1] = 13 => AtNewline1(s, m + 1)
<1>1. PICK a \in 1..m, b \in 1..m, d \in 1..m :
        b + 6 <= d /\ UpToDot(s, a, b, d) /\ IsDigits(s, d + 1, m)
  BY DEF InMinor
<1>2. ASSUME s[m + 1] \in 48..57 PROVE InMinor(s, m + 1)
  <2>1. IsDigits(s, d + 1, m + 1)
    BY <1>1, <1>2 DEF IsDigits
  <2> QED
    BY <1>1, <2>1 DEF InMinor
<1>3. ASSUME s[m + 1] = 13 PROVE AtNewline1(s, m + 1)
  <2>1. IsMinor(s, d, m + 1)
    BY <1>1 DEF IsMinor, IsDigits
  <2>2. a \in 1..(m + 1) - 1 /\ b \in a + 1..(m + 1) - 6 /\ d \in b + 6..(m + 1) - 1
    BY <1>1 DEF IsDigits, UpToDot, UpToSlash, UpToUri
  <2> QED
    BY <1>1, <1>3, <2>1, <2>2 DEF AtNewline1, IsRequestLine, UpToDot, UpToSlash,
       UpToUri
<1> QED
  BY <1>2, <1>3

\* A request line has no CR before its end.
LEMMA RequestLineEnds ==
    ASSUME NEW s, NEW f \in Nat \ {0}, s[f] = 13, IsRequestLine(s, f)
    PROVE  IsFirst(s, 1, 13, f)
<1>1. PICK a \in 1..f - 1 :
        /\ IsMethod(s, a)
        /\ \E b \in a + 1..f - 6 :
              /\ IsUri(s, a, b)
              /\ IsProtocol(s, b)
              /\ \E d \in b + 6..f - 1 : IsMajor(s, b, d) /\ IsMinor(s, d, f)
  BY DEF IsRequestLine
<1>2. PICK b \in a + 1..f - 6 :
              /\ IsUri(s, a, b)
              /\ IsProtocol(s, b)
              /\ \E d \in b + 6..f - 1 : IsMajor(s, b, d) /\ IsMinor(s, d, f)
  BY <1>1
<1>3. PICK d \in b + 6..f - 1 : IsMajor(s, b, d) /\ IsMinor(s, d, f)
  BY <1>2
<1>4. ASSUME NEW k \in 1..f - 1 PROVE s[k] # 13
  <2>1. CASE k <= a
    BY <1>1, <2>1 DEF IsMethod, IsFirst, IsToken
  <2>2. CASE k > a /\ k <= b
    BY <1>2, <2>2 DEF IsUri, IsFirst, IsText
  <2>3. CASE k > b /\ k <= b + 5
    <3>1. k - b \in 1..5 /\ k = b + (k - b)
      BY <2>3
    <3>2. s[k] = VersionPrefix[k - b]
      BY <1>2, <3>1 DEF IsProtocol
    <3> QED
      BY <3>1, <3>2 DEF VersionPrefix
  <2>4. CASE k >= b + 6 /\ k <= d
    BY <1>3, <2>4 DEF IsMajor, IsFirst, IsDigits
  <2>5. CASE k > d
    BY <1>3, <2>5 DEF IsMinor, IsDigits
  <2> QED
    BY <2>1, <2>2, <2>3, <2>4, <2>5
<1> QED
  BY <1>4 DEF IsFirst

\* The LF of the request line: its CR is the first one.
LEMMA Newline1Step ==
    ASSUME NEW s, NEW m \in Nat, AtNewline1(s, m), s[m + 1] = 10
    PROVE  AtLineStart(s, m + 1) /\ IsFirst(s, 1, 13, m)
<1>1. m >= 1 /\ s[m] = 13 /\ IsRequestLine(s, m) /\ IsFirst(s, 1, 13, m)
  BY RequestLineEnds DEF AtNewline1
<1>2. IsLine(s, 1, m)
  BY <1>1 DEF IsLine
<1>3. IsStart(s, m + 2)
  BY <1>1 DEF IsStart
<1>4. InHeaders(s, m, (m + 1) + 1)
  BY <1>1, <1>2, <1>3 DEF InHeaders
<1> QED
  BY <1>1, <1>4 DEF AtLineStart

\* The first byte of a line: the empty line, a fold unless it would be the
\* first line, or a header.
LEMMA LineStartStep ==
    ASSUME NEW s, NEW m \in Nat, AtLineStart(s, m)
    PROVE  /\ s[m + 1] = 13 => AtNewline3(s, m + 1)
           /\ s[m + 1] \in {32, 9} /\ ~IsFirst(s, 1, 13, m - 1) => InLws(s, m + 1)
           /\ s[m + 1] \in TokenByte => InName(s, m + 1)
<1>1. PICK f \in 1..m : InHeaders(s, f, m + 1)
  BY DEF AtLineStart
<1>2. f \in 1..m + 1 /\ m + 1 \in 1..m + 1
  BY <1>1
<1>3. s[m + 1] = 13 => AtNewline3(s, m + 1)
  BY <1>1, <1>2 DEF AtNewline3
<1>4. ASSUME s[m + 1] \in {32, 9}, ~IsFirst(s, 1, 13, m - 1) PROVE InLws(s, m + 1)
  <2>1. IsBlank(s, m + 1, m + 1)
    BY <1>4 DEF IsBlank
  <2>2. m + 1 > f + 2
    BY <1>1, <1>4 DEF InHeaders, IsLine
  <2> QED
    BY <1>1, <1>2, <2>1, <2>2 DEF InLws
<1>5. ASSUME s[m + 1] \in TokenByte PROVE InName(s, m + 1)
  <2>1. IsToken(s, m + 1, m + 1)
    BY <1>5 DEF IsToken, TokenByte
  <2> QED
    BY <1>1, <1>2, <2>1 DEF InName
<1> QED
  BY <1>3, <1>4, <1>5

\* A byte of a name, or the colon.
LEMMA NameStep ==
    ASSUME NEW s, NEW m \in Nat, InName(s, m)
    PROVE  /\ s[m + 1] \in TokenByte => InName(s, m + 1)
           /\ s[m + 1] = 58 => AtSpace(s, m + 1)
<1>1. PICK f \in 1..m, i \in 1..m : InHeaders(s, f, i) /\ IsToken(s, i, m)
  BY DEF InName
<1>2. s[m + 1] \in TokenByte => IsToken(s, i, m + 1)
  BY <1>1 DEF IsToken, TokenByte
<1>3. IsToken(s, i, (m + 1) - 1)
  BY <1>1
<1> QED
  BY <1>1, <1>2, <1>3 DEF InName, AtSpace

\* The space behind the colon.
LEMMA SpaceStep ==
    ASSUME NEW s, NEW m \in Nat, AtSpace(s, m), s[m + 1] = 32
    PROVE  InValue(s, m + 1)
<1>1. PICK f \in 1..m, i \in 1..m :
        InHeaders(s, f, i) /\ IsToken(s, i, m - 1) /\ s[m] = 58
  BY DEF AtSpace
<1>2. IsFirst(s, i, 58, m) /\ m \in i..(m + 1) - 1 /\ IsText(s, m + 2, m + 1)
  BY <1>1 DEF IsFirst, IsToken, Separators, IsText
<1>3. ValueOfHeader(s, i, m + 1)
  BY <1>1, <1>2 DEF ValueOfHeader
<1>4. f \in 1..m + 1 /\ i \in 1..m + 1
  BY <1>1
<1> QED
  BY <1>1, <1>3, <1>4 DEF InValue

\* A blank of a fold, its CR, or the first byte of its text.
LEMMA LwsStep ==
    ASSUME NEW s, NEW m \in Nat, InLws(s, m)
    PROVE  /\ s[m + 1] \in {32, 9} => InLws(s, m + 1)
           /\ s[m + 1] = 13 => AtNewline2(s, m + 1)
           /\ TextByte(s[m + 1]) /\ s[m + 1] \notin {32, 9} => InValue(s, m + 1)
<1>1. PICK f \in 1..m, i \in 1..m :
        InHeaders(s, f, i) /\ i > f + 2 /\ IsBlank(s, i, m)
  BY DEF InLws
<1>2. f \in 1..m + 1 /\ i \in 1..m + 1 /\ m + 1 \in i + 1..m + 1
  BY <1>1
<1>3. ASSUME s[m + 1] \in {32, 9} PROVE InLws(s, m + 1)
  <2>1. IsBlank(s, i, m + 1)
    BY <1>1, <1>3 DEF IsBlank
  <2> QED
    BY <1>1, <1>2, <2>1 DEF InLws
<1>4. ASSUME s[m + 1] = 13 PROVE AtNewline2(s, m + 1)
  <2>1. IsFirst(s, i, 13, m + 1)
    BY <1>1, <1>4 DEF IsFirst, IsBlank
  <2>2. IsFold(s, i, m + 1)
    BY <1>1, <1>2 DEF IsFold, IsText
  <2> QED
    BY <1>1, <1>2, <2>1, <2>2 DEF AtNewline2
<1>5. ASSUME TextByte(s[m + 1]), s[m + 1] \notin {32, 9} PROVE InValue(s, m + 1)
  <2>1. IsText(s, m + 1, m + 1) /\ IsBlank(s, i, (m + 1) - 1)
    BY <1>1, <1>5 DEF IsText, TextByte
  <2>2. ValueOfFold(s, i, m + 1)
    BY <1>2, <1>5, <2>1 DEF ValueOfFold
  <2> QED
    BY <1>1, <1>2, <2>2 DEF InValue
<1> QED
  BY <1>3, <1>4, <1>5

\* The two forms of an unfinished value, with another byte of it or its CR.
LEMMA ValueOfHeaderStep ==
    ASSUME NEW s, NEW m \in Nat, NEW i \in 1..m, ValueOfHeader(s, i, m)
    PROVE  /\ TextByte(s[m + 1]) => ValueOfHeader(s, i, m + 1)
           /\ s[m + 1] = 13 => IsFirst(s, i, 13, m + 1) /\ IsHeader(s, i, m + 1)
<1>1. PICK c \in i..m - 1 :
        IsFirst(s, i, 58, c) /\ IsToken(s, i, c - 1) /\ s[c + 1] = 32
           /\ IsText(s, c + 2, m)
  BY DEF ValueOfHeader
<1>2. c \in i..(m + 1) - 1 /\ c \in i..(m + 1) - 2
  BY <1>1
<1>3. TextByte(s[m + 1]) => IsText(s, c + 2, m + 1)
  BY <1>1 DEF IsText, TextByte
<1>4. IsText(s, c + 2, (m + 1) - 1)
  BY <1>1
<1>5. ASSUME s[m + 1] = 13 PROVE IsFirst(s, i, 13, m + 1)
  <2> SUFFICES ASSUME NEW k \in i..m PROVE s[k] # 13
    BY <1>5 DEF IsFirst
  <2>1. CASE k < c
    BY <1>1, <2>1 DEF IsToken
  <2>2. CASE k = c \/ k = c + 1
    BY <1>1, <2>2 DEF IsFirst
  <2>3. CASE k >= c + 2
    BY <1>1, <2>3 DEF IsText
  <2> QED
    BY <1>1, <2>1, <2>2, <2>3
<1> QED
  BY <1>1, <1>2, <1>3, <1>4, <1>5 DEF ValueOfHeader, IsHeader

\* The same of a fold.
LEMMA ValueOfFoldStep ==
    ASSUME NEW s, NEW m \in Nat, NEW i \in 1..m, ValueOfFold(s, i, m)
    PROVE  /\ TextByte(s[m + 1]) => ValueOfFold(s, i, m + 1)
           /\ s[m + 1] = 13 => IsFirst(s, i, 13, m + 1) /\ IsFold(s, i, m + 1)
<1>1. PICK t \in i + 1..m :
        IsBlank(s, i, t - 1) /\ s[t] \notin {32, 9} /\ IsText(s, t, m)
  BY DEF ValueOfFold
<1>2. t \in i + 1..m + 1
  BY <1>1
<1>3. TextByte(s[m + 1]) => IsText(s, t, m + 1)
  BY <1>1 DEF IsText, TextByte
<1>4. IsText(s, t, (m + 1) - 1)
  BY <1>1
<1>5. ASSUME s[m + 1] = 13 PROVE IsFirst(s, i, 13, m + 1)
  <2> SUFFICES ASSUME NEW k \in i..m PROVE s[k] # 13
    BY <1>5 DEF IsFirst
  <2>1. CASE k < t
    BY <1>1, <2>1 DEF IsBlank
  <2>2. CASE k >= t
    BY <1>1, <2>2 DEF IsText
  <2> QED
    BY <1>1, <2>1, <2>2
<1> QED
  BY <1>1, <1>2, <1>3, <1>4, <1>5 DEF ValueOfFold, IsFold

\* A byte of a text, or the CR of its line.
LEMMA ValueStep ==
    ASSUME NEW s, NEW m \in Nat, InValue(s, m)
    PROVE  /\ TextByte(s[m + 1]) => InValue(s, m + 1)
           /\ s[m + 1] = 13 => AtNewline2(s, m + 1)
<1>1. PICK f \in 1..m, i \in 1..m :
        /\ InHeaders(s, f, i)
        /\ ValueOfHeader(s, i, m) \/ (i > f + 2 /\ ValueOfFold(s, i, m))
  BY DEF InValue
<1>2. f \in 1..m + 1 /\ i \in 1..m + 1
  BY <1>1
<1>3. TextByte(s[m + 1]) => InValue(s, m + 1)
  BY <1>1, <1>2, ValueOfHeaderStep, ValueOfFoldStep DEF InValue
<1>4. s[m + 1] = 13 => AtNewline2(s, m + 1)
  BY <1>1, <1>2, ValueOfHeaderStep, ValueOfFoldStep DEF AtNewline2
<1> QED
  BY <1>3, <1>4

\* The LF of a header or a fold: no line begins inside a line, so that the
\* lines are still all well formed.
LEMMA Newline2Step ==
    ASSUME NEW s, NEW m \in Nat, AtNewline2(s, m), s[m + 1] = 10
    PROVE  AtLineStart(s, m + 1) /\ ~IsFirst(s, 1, 13, m)
<1>1. PICK f \in 1..m, i \in 1..m :
        /\ InHeaders(s, f, i) /\ IsFirst(s, i, 13, m)
        /\ IsHeader(s, i, m) \/ (i > f + 2 /\ IsFold(s, i, m))
  BY DEF AtNewline2
<1>2. IsHeaderLine(s, f, i, m) /\ s[m] = 13 /\ \A k \in i..m - 1 : s[k] # 13
  BY <1>1 DEF IsHeaderLine, IsLine, IsFirst
<1>3. i >= f + 2 /\ s[f] = 13 /\ s[f + 1] = 10
  BY <1>1 DEF InHeaders, IsLine, IsFirst
<1>4. ~IsFirst(s, 1, 13, m)
  BY <1>3 DEF IsFirst
<1>5. IsStart(s, m + 2)
  BY <1>2 DEF IsStart
<1>6. ASSUME NEW j \in f + 2..m + 1, IsStart(s, j)
      PROVE  \E e \in j..m : IsHeaderLine(s, f, j, e)
  <2>1. CASE j < i
    <3>1. PICK e \in j..i - 2 : IsHeaderLine(s, f, j, e)
      BY <1>1, <1>6, <2>1 DEF InHeaders
    <3> QED
      BY <3>1
  <2>2. CASE j = i
    BY <1>2, <2>2
  <2>3. CASE j > i
    <3>1. s[j - 2] = 13 /\ s[j - 1] = 10
      BY <1>6 DEF IsStart
    <3>2. j - 2 < i
      BY <1>2, <2>3, <3>1
    <3>3. j = i + 1 /\ s[i] = 10
      BY <2>3, <3>1, <3>2
    <3>4. ~IsHeader(s, i, m) /\ ~IsFold(s, i, m)
      BY <3>3 DEF IsHeader, IsFold, IsToken, IsBlank, IsFirst
    <3> QED
      BY <1>1, <3>4
  <2> QED
    BY <1>1, <2>1, <2>2, <2>3
<1>7. InHeaders(s, f, (m + 1) + 1)
  BY <1>1, <1>3, <1>5, <1>6 DEF InHeaders
<1> QED
  BY <1>1, <1>4, <1>7 DEF AtLineStart

\* The LF of the empty line completes the message.
LEMMA Newline3Step ==
    ASSUME NEW s, NEW m \in Nat, AtNewline3(s, m), s[m + 1] = 10
    PROVE  IsMessage(s, m + 1)
<1>1. PICK f \in 1..m : InHeaders(s, f, m) /\ s[m] = 13
  BY DEF AtNewline3
<1>2. f \in 1..(m + 1) - 3
  <2>1. m >= f + 2
    BY <1>1 DEF InHeaders
  <2> QED
    BY <2>1
<1> QED
  BY <1>1, <1>2 DEF InHeaders, IsMessage

\* A step from st to q, which may be a verdict, keeps to the grammar.
ShapeKept(s, m, st, q) ==
    /\ q # "bad" /\ q # "good" => Shape(s, m + 1, q)
    /\ q = "good" => IsMessage(s, m + 1)
    /\ q = "header_line_start" =>
          (IsFirst(s, 1, 13, m) <=> st = "expecting_newline_1")

\* A byte that consume() does not reject leads to the shape of the next
\* state, or to a message.
LEMMA ShapeStep ==
    ASSUME NEW s, NEW m \in Nat, NEW st \in States, Shape(s, m, st),
           NEW h \in BOOLEAN,
           st = "header_line_start" => (h <=> ~IsFirst(s, 1, 13, m - 1)),
           NEW q, q = After(st, h, s[m + 1])
    PROVE  ShapeKept(s, m, st, q)
<1> USE DEF ShapeKept
<1>1. CASE st = "method_start"
  <2>1. m = 0
    BY <1>1 DEF Shape
  <2>2. s[m + 1] \in TokenByte => InMethod(s, m + 1)
    BY <2>1 DEF InMethod, IsToken, TokenByte
  <2> QED
    BY <1>1, <2>2 DEF After, Shape
<1>2. CASE st = "method"
  BY <1>2, MethodStep DEF After, Shape
<1>3. CASE st = "uri"
  BY <1>3, UriStep DEF After, Shape
<1>4. CASE st = "http_version_h"
  <2>1. InVersion(s, m, 0)
    BY <1>4 DEF Shape
  <2>2. s[m + 1] = VersionPrefix[1] => InVersion(s, m + 1, 1)
    BY <2>1, VersionStep
  <2> QED
    BY <1>4, <2>2 DEF After, Shape, VersionPrefix
<1>5. CASE st = "http_version_t_1"
  <2>1. InVersion(s, m, 1)
    BY <1>5 DEF Shape
  <2>2. s[m + 1] = VersionPrefix[2] => InVersion(s, m + 1, 2)
    BY <2>1, VersionStep
  <2> QED
    BY <1>5, <2>2 DEF After, Shape, VersionPrefix
<1>6. CASE st = "http_version_t_2"
  <2>1. InVersion(s, m, 2)
    BY <1>6 DEF Shape
  <2>2. s[m + 1] = VersionPrefix[3] => InVersion(s, m + 1, 3)
    BY <2>1, VersionStep
  <2> QED
    BY <1>6, <2>2 DEF After, Shape, VersionPrefix
<1>7. CASE st = "http_version_p"
  <2>1. InVersion(s, m, 3)
    BY <1>7 DEF Shape
  <2>2. s[m + 1] = VersionPrefix[4] => InVersion(s, m + 1, 4)
    BY <2>1, VersionStep
  <2> QED
    BY <1>7, <2>2 DEF After, Shape, VersionPrefix
<1>8. CASE st = "http_version_slash"
  <2>1. InVersion(s, m, 4)
    BY <1>8 DEF Shape
  <2>2. s[m + 1] = VersionPrefix[5] => InVersion(s, m + 1, 5)
    BY <2>1, VersionStep
  <2> QED
    BY <1>8, <2>2 DEF After, Shape, VersionPrefix
<1>9. CASE st = "http_version_major_start"
  BY <1>9, SlashStep DEF After, Shape
<1>10. CASE st = "http_version_major"
  BY <1>10, MajorStep DEF After, Shape
<1>11. CASE st = "http_version_minor_start"
  BY <1>11, DotStep DEF After, Shape
<1>12. CASE st = "http_version_minor"
  BY <1>12, MinorStep DEF After, Shape
<1>13. CASE st = "expecting_newline_1"
  BY <1>13, Newline1Step DEF After, Shape
<1>14. CASE st = "header_line_start"
  BY <1>14, LineStartStep DEF After, Shape
<1>15. CASE st = "header_lws"
  BY <1>15, LwsStep DEF After, Shape
<1>16. CASE st = "header_name"
  BY <1>16, NameStep DEF After, Shape
<1>17. CASE st = "space_before_header_value"
  BY <1>17, SpaceStep DEF After, Shape
<1>18. CASE st = "header_value"
  BY <1>18, ValueStep DEF After, Shape
<1>19. CASE st = "expecting_newline_2"
  BY <1>19, Newline2Step DEF After, Shape
<1>20. CASE st = "expecting_newline_3"
  BY <1>20, Newline3Step DEF After, Shape
<1> QED
  BY <1>1, <1>2, <1>3, <1>4, <1>5, <1>6, <1>7, <1>8, <1>9, <1>10, <1>11, <1>12,
     <1>13, <1>14, <1>15, <1>16, <1>17, <1>18, <1>19, <1>20 DEF States

----------------------------------------------------------------------------
(* The other direction: the parser rejects no byte of a message, and ends  *)
(* with it.                                                                *)

\* There is one first byte b.
LEMMA FirstUnique ==
    ASSUME NEW s, NEW i \in Nat, NEW b, NEW k \in Nat, NEW l \in Nat,
           k >= i, l >= i, IsFirst(s, i, b, k), IsFirst(s, i, b, l)
    PROVE  k = l
<1>1. ~(k < l) /\ ~(l < k)
  BY DEF IsFirst
<1> QED
  BY <1>1

\* The cuts of a request line whose CR is at f.
LineCuts(s, f, a, b, d) ==
    /\ a < b /\ b + 6 <= d /\ d < f
    /\ IsMethod(s, a) /\ IsUri(s, a, b) /\ IsProtocol(s, b)
    /\ IsMajor(s, b, d) /\ IsMinor(s, d, f)

\* A request line has cuts,
LEMMA RequestLineCuts ==
    ASSUME NEW s, NEW f \in Nat, IsRequestLine(s, f)
    PROVE  \E a, b, d \in 1..f : LineCuts(s, f, a, b, d)
<1>1. PICK a \in 1..f - 1 :
        /\ IsMethod(s, a)
        /\ \E b \in a + 1..f - 6 :
              /\ IsUri(s, a, b)
              /\ IsProtocol(s, b)
              /\ \E d \in b + 6..f - 1 : IsMajor(s, b, d) /\ IsMinor(s, d, f)
  BY DEF IsRequestLine
<1>2. PICK b \in a + 1..f - 6 :
              /\ IsUri(s, a, b)
              /\ IsProtocol(s, b)
              /\ \E d \in b + 6..f - 1 : IsMajor(s, b, d) /\ IsMinor(s, d, f)
  BY <1>1
<1>3. PICK d \in b + 6..f - 1 : IsMajor(s, b, d) /\ IsMinor(s, d, f)
  BY <1>2
<1>4. a \in 1..f /\ b \in 1..f /\ d \in 1..f /\ a < b /\ b + 6 <= d /\ d < f
  OBVIOUS
<1> QED
  BY <1>1, <1>2, <1>3, <1>4 DEF LineCuts

\* and the spaces among them are the only ones there can be.
LEMMA CutsUnique ==
    ASSUME NEW s, NEW a \in Nat, NEW b \in Nat, NEW aa \in Nat, NEW bb \in Nat,
           a >= 1, aa >= 1, a < b, aa < bb,
           IsMethod(s, a), IsUri(s, a, b), IsMethod(s, aa), IsUri(s, aa, bb)
    PROVE  a = aa /\ b = bb
<1>1. a = aa
  BY FirstUnique DEF IsMethod
<1> QED
  BY <1>1, FirstUnique DEF IsUri

\* One lemma for each state again: as long as a request line with these cuts
\* is not read to its CR, its next byte is accepted.
LEMMA MethodGoesOn ==
    ASSUME NEW s, NEW f \in Nat, NEW a \in 1..f, NEW b \in 1..f, NEW d \in 1..f,
           LineCuts(s, f, a, b, d), NEW m \in Nat
    PROVE  /\ m = 0 => m < f /\ s[m + 1] \in TokenByte
           /\ InMethod(s, m) => m < f /\ (s[m + 1] = 32 \/ s[m + 1] \in TokenByte)
<1>1. IsFirst(s, 1, 32, a) /\ IsToken(s, 1, a - 1) /\ a < f
  BY DEF LineCuts, IsMethod
<1>2. m = 0 => m < f /\ s[m + 1] \in TokenByte
  BY <1>1 DEF IsToken, TokenByte
<1>3. ASSUME InMethod(s, m)
      PROVE m < f /\ (s[m + 1] = 32 \/ s[m + 1] \in TokenByte)
  <2>1. m < a
    BY <1>1, <1>3 DEF InMethod, IsToken, IsFirst
  <2> QED
    BY <1>1, <2>1 DEF IsToken, TokenByte, IsFirst
<1> QED
  BY <1>2, <1>3

\* In the uri.
LEMMA UriGoesOn ==
    ASSUME NEW s, NEW f \in Nat, NEW a \in 1..f, NEW b \in 1..f, NEW d \in 1..f,
           LineCuts(s, f, a, b, d), NEW m \in Nat, InUri(s, m)
    PROVE  m < f /\ (s[m + 1] = 32 \/ TextByte(s[m + 1]))
<1>1. /\ IsFirst(s, 1, 32, a) /\ IsFirst(s, a + 1, 32, b) /\ IsText(s, a + 1, b - 1)
      /\ b < f /\ a < b
  BY DEF LineCuts, IsMethod, IsUri
<1>2. PICK aa \in 1..m :
        IsMethod(s, aa) /\ \A k \in aa + 1..m : TextByte(s[k]) /\ s[k] # 32
  BY DEF InUri
<1>3. a = aa
  BY <1>1, <1>2, FirstUnique DEF IsMethod
<1>4. m < b
  BY <1>1, <1>2, <1>3 DEF IsFirst
<1> QED
  BY <1>1, <1>2, <1>3, <1>4 DEF IsText, TextByte, IsFirst

\* In "HTTP/" and behind it.
LEMMA VersionGoesOn ==
    ASSUME NEW s, NEW f \in Nat, NEW a \in 1..f, NEW b \in 1..f, NEW d \in 1..f,
           LineCuts(s, f, a, b, d), NEW m \in Nat, NEW j \in 0..5, InVersion(s, m, j)
    PROVE  /\ m < f
           /\ j < 5 => s[m + 1] = VersionPrefix[j + 1]
           /\ j = 5 => s[m + 1] \in 48..57
<1>1. PICK aa \in 1..m, bb \in 1..m : UpToUri(s, aa, bb) /\ m = bb + j
  BY DEF InVersion
<1>2. m = b + j
  BY <1>1, CutsUnique DEF LineCuts, UpToUri
<1>3. m < f
  BY <1>2 DEF LineCuts
<1>4. ASSUME j < 5 PROVE s[m + 1] = VersionPrefix[j + 1]
  <2>1. j + 1 \in 1..5 /\ m + 1 = b + (j + 1)
    BY <1>2, <1>4
  <2> QED
    BY <2>1 DEF LineCuts, IsProtocol
<1>5. j = 5 => s[m + 1] \in 48..57
  BY <1>2 DEF LineCuts, IsMajor, IsDigits
<1> QED
  BY <1>3, <1>4, <1>5

\* In the major version.
LEMMA MajorGoesOn ==
    ASSUME NEW s, NEW f \in Nat, NEW a \in 1..f, NEW b \in 1..f, NEW d \in 1..f,
           LineCuts(s, f, a, b, d), NEW m \in Nat, InMajor(s, m)
    PROVE  m < f /\ (s[m + 1] = 46 \/ s[m + 1] \in 48..57)
<1>1. PICK aa \in 1..m, bb \in 1..m : UpToSlash(s, aa, bb) /\ IsDigits(s, bb + 6, m)
  BY DEF InMajor
<1>2. IsDigits(s, b + 6, m)
  BY <1>1, CutsUnique DEF LineCuts, UpToSlash, UpToUri
<1>3. d < f /\ IsFirst(s, b + 6, 46, d) /\ IsDigits(s, b + 6, d - 1)
  BY DEF LineCuts, IsMajor
<1>4. m < d
  BY <1>2, <1>3 DEF IsFirst, IsDigits
<1> QED
  BY <1>2, <1>3, <1>4 DEF IsFirst, IsDigits

\* At the dot and in the minor version.
LEMMA MinorGoesOn ==
    ASSUME NEW s, NEW f \in Nat, NEW a \in 1..f, NEW b \in 1..f, NEW d \in 1..f,
           LineCuts(s, f, a, b, d), s[f] = 13, NEW m \in Nat
    PROVE  /\ AtDot(s, m) => m < f /\ s[m + 1] \in 48..57
           /\ InMinor(s, m) => m < f /\ (s[m + 1] = 13 \/ s[m + 1] \in 48..57)
<1>1. d < f /\ IsFirst(s, b + 6, 46, d) /\ IsDigits(s, d + 1, f - 1)
  BY DEF LineCuts, IsMajor, IsMinor
<1>2. ASSUME NEW aa \in 1..m, NEW bb \in 1..m, NEW dd \in 1..m, bb + 6 <= dd,
             UpToDot(s, aa, bb, dd)
      PROVE  d = dd
  <2>1. bb = b
    BY <1>2, CutsUnique DEF LineCuts, UpToDot, UpToSlash, UpToUri
  <2>2. IsFirst(s, b + 6, 46, dd)
    BY <1>2, <2>1 DEF UpToDot, IsMajor
  <2>3. d \in Nat /\ dd \in Nat /\ b + 6 \in Nat /\ d >= b + 6 /\ dd >= b + 6
    BY <1>2, <2>1 DEF LineCuts
  <2> QED
    BY <1>1, <2>2, <2>3, FirstUnique
<1>3. ASSUME AtDot(s, m) PROVE m < f /\ s[m + 1] \in 48..57
  <2>1. PICK aa \in 1..m, bb \in 1..m : bb + 6 <= m /\ UpToDot(s, aa, bb, m)
    BY <1>3 DEF AtDot
  <2>2. m = d
    BY <1>2, <2>1
  <2> QED
    BY <1>1, <2>2 DEF IsDigits
<1>4. ASSUME InMinor(s, m)
      PROVE  m < f /\ (s[m + 1] = 13 \/ s[m + 1] \in 48..57)
  <2>1. PICK aa \in 1..m, bb \in 1..m, dd \in 1..m :
          bb + 6 <= dd /\ UpToDot(s, aa, bb, dd) /\ IsDigits(s, dd + 1, m)
    BY <1>4 DEF InMinor
  <2>2. dd = d
    BY <1>2, <2>1
  <2>3. m < f
    BY <1>1, <2>1, <2>2 DEF IsDigits
  <2> QED
    BY <1>1, <2>1, <2>2, <2>3 DEF IsDigits
<1> QED
  BY <1>3, <1>4

\* The first n bytes are a message whose first line ends at f.
IsMessageAt(s, n, f) ==
    /\ IsLine(s, 1, f) /\ IsRequestLine(s, f)
    /\ IsStart(s, n - 1) /\ s[n - 1] = 13 /\ s[n] = 10
    /\ \A i \in f + 2..n - 2 :
          IsStart(s, i) => \E e \in i..n - 3 : IsHeaderLine(s, f, i, e)

\* A line of it that begins at i is the last, empty one or has its end at e.
EndsAt(s, n, f, i, e) ==
    /\ i > f + 1
    /\ \/ i = n - 1 /\ s[i] = 13
       \/ i <= n - 2 /\ e >= i /\ e <= n - 3 /\ IsHeaderLine(s, f, i, e)

\* Every line of a message, the last one included, has its end in it.
LEMMA LineEnds ==
    ASSUME NEW s, NEW n \in Nat, NEW f \in 1..n - 3, IsMessageAt(s, n, f),
           s[n] = 10,
           NEW g \in Nat, NEW i \in Nat, g >= 1, i <= n, InHeaders(s, g, i)
    PROVE  g = f /\ \E e \in Nat : EndsAt(s, n, f, i, e)
<1>1. g = f
  BY FirstUnique DEF IsMessageAt, InHeaders, IsLine
<1>2. i >= f + 2 /\ IsStart(s, i)
  BY <1>1 DEF InHeaders
<1>3. i # n
  BY <1>2 DEF IsMessageAt, IsStart
<1>4. CASE i = n - 1
  <2>1. EndsAt(s, n, f, i, 0)
    BY <1>2, <1>4 DEF EndsAt, IsMessageAt
  <2> QED
    BY <1>1, <2>1
<1>5. CASE i <= n - 2
  <2>1. PICK e \in i..n - 3 : IsHeaderLine(s, f, i, e)
    BY <1>2, <1>5 DEF IsMessageAt
  <2>2. e \in Nat /\ EndsAt(s, n, f, i, e)
    BY <1>2, <1>5, <2>1 DEF EndsAt
  <2> QED
    BY <1>1, <2>2
<1> QED
  BY <1>3, <1>4, <1>5

\* The cut of a header line.
HeaderCut(s, i, e, c) ==
    /\ i < c /\ c <= e - 2
    /\ IsFirst(s, i, 58, c) /\ IsToken(s, i, c - 1)
    /\ s[c + 1] = 32
    /\ IsText(s, c + 2, e - 1)

\* The cut of a fold.
FoldCut(s, i, e, t) ==
    /\ i < t /\ t <= e
    /\ IsBlank(s, i, t - 1)
    /\ t < e => s[t] \notin {32, 9}
    /\ IsText(s, t, e - 1)

\* A line behind the request line is a header or a fold and has its cut.
LEMMA LineCut ==
    ASSUME NEW s, NEW f \in Nat, NEW i \in Nat, NEW e \in Nat,
           IsHeaderLine(s, f, i, e)
    PROVE  /\ IsFirst(s, i, 13, e) /\ s[e + 1] = 10
           /\ \E c \in Nat :
                 HeaderCut(s, i, e, c) \/ (i > f + 2 /\ FoldCut(s, i, e, c))
<1>1. IsFirst(s, i, 13, e) /\ s[e + 1] = 10
  BY DEF IsHeaderLine, IsLine
<1>2. CASE IsHeader(s, i, e)
  <2>1. PICK c \in i..e - 2 :
        /\ IsFirst(s, i, 58, c) /\ IsToken(s, i, c - 1)
        /\ s[c + 1] = 32
        /\ IsText(s, c + 2, e - 1)
    BY <1>2 DEF IsHeader
  <2>2. i < c
    BY <2>1 DEF IsToken
  <2>3. c \in Nat /\ HeaderCut(s, i, e, c)
    BY <2>1, <2>2 DEF HeaderCut
  <2> QED
    BY <1>1, <2>3
<1>3. CASE i > f + 2 /\ IsFold(s, i, e)
  <2>1. PICK t \in i + 1..e :
        /\ IsBlank(s, i, t - 1)
        /\ t < e => s[t] \notin {32, 9}
        /\ IsText(s, t, e - 1)
    BY <1>3 DEF IsFold
  <2>2. t \in Nat /\ FoldCut(s, i, e, t)
    BY <2>1 DEF FoldCut
  <2> QED
    BY <1>1, <1>3, <2>2
<1> QED
  BY <1>2, <1>3 DEF IsHeaderLine

\* At the start of a line of a message.
LEMMA LineStartGoesOn ==
    ASSUME NEW s, NEW n \in Nat, NEW f \in 1..n - 3, IsMessageAt(s, n, f),
           NEW m \in Nat, m < n, AtLineStart(s, m)
    PROVE  /\ m + 1 < n
           /\ \/ s[m + 1] = 13
              \/ s[m + 1] \in TokenByte
              \/ s[m + 1] \in {32, 9} /\ ~IsFirst(s, 1, 13, m - 1)
<1>1. PICK g \in 1..m : InHeaders(s, g, m + 1)
  BY DEF AtLineStart
<1>2. PICK e \in Nat : EndsAt(s, n, f, m + 1, e)
  BY <1>1, LineEnds DEF IsMessageAt
<1>3. CASE m + 1 = n - 1 /\ s[m + 1] = 13
  BY <1>3
<1>4. CASE m + 1 <= n - 2 /\ IsHeaderLine(s, f, m + 1, e)
  <2>1. PICK c \in Nat :
          \/ HeaderCut(s, m + 1, e, c)
          \/ (m + 1 > f + 2 /\ FoldCut(s, m + 1, e, c))
    <3>1. f \in Nat /\ m + 1 \in Nat
      OBVIOUS
    <3> QED
      BY <1>4, <3>1, LineCut
  <2>2. CASE HeaderCut(s, m + 1, e, c)
    BY <1>4, <2>2 DEF HeaderCut, IsToken, TokenByte
  <2>3. CASE m + 1 > f + 2 /\ FoldCut(s, m + 1, e, c)
    <3>1. s[m + 1] \in {32, 9}
      BY <2>3 DEF FoldCut, IsBlank
    <3>2. ~IsFirst(s, 1, 13, m - 1)
      BY <2>3 DEF IsMessageAt, IsLine, IsFirst
    <3> QED
      BY <1>4, <3>1, <3>2
  <2> QED
    BY <2>1, <2>2, <2>3
<1> QED
  BY <1>2, <1>3, <1>4 DEF EndsAt

\* The line that the parser is in the middle of is not the last one.
LEMMA InsideLine ==
    ASSUME NEW s, NEW n \in Nat, NEW f \in 1..n - 3, IsMessageAt(s, n, f),
           NEW m \in Nat, m < n, NEW g \in 1..m, NEW i \in 1..m,
           InHeaders(s, g, i), s[i] # 13
    PROVE  g = f /\ \E e, c \in Nat :
             /\ i <= e /\ e <= n - 3 /\ IsFirst(s, i, 13, e) /\ s[e + 1] = 10
             /\ HeaderCut(s, i, e, c) \/ (i > f + 2 /\ FoldCut(s, i, e, c))
<1>1. PICK e \in Nat : EndsAt(s, n, f, i, e)
  BY LineEnds DEF IsMessageAt
<1>2. i <= e /\ e <= n - 3 /\ IsHeaderLine(s, f, i, e)
  BY <1>1 DEF EndsAt
<1>3. g = f
  BY LineEnds DEF IsMessageAt
<1> QED
  BY <1>2, <1>3, LineCut

\* In a name.
LEMMA NameGoesOn ==
    ASSUME NEW s, NEW n \in Nat, NEW f \in 1..n - 3, IsMessageAt(s, n, f),
           NEW m \in Nat, m < n, InName(s, m)
    PROVE  m + 1 < n /\ (s[m + 1] = 58 \/ s[m + 1] \in TokenByte)
<1>1. PICK g \in 1..m, i \in 1..m : InHeaders(s, g, i) /\ IsToken(s, i, m)
  BY DEF InName
<1>2. s[i] # 13 /\ s[i] \notin {32, 9}
  BY <1>1 DEF IsToken
<1>3. PICK e \in Nat, c \in Nat :
             /\ i <= e /\ e <= n - 3 /\ IsFirst(s, i, 13, e) /\ s[e + 1] = 10
             /\ HeaderCut(s, i, e, c) \/ (i > f + 2 /\ FoldCut(s, i, e, c))
  BY <1>1, <1>2, InsideLine
<1>4. HeaderCut(s, i, e, c)
  BY <1>2, <1>3 DEF FoldCut, IsBlank
<1>5. m < c
  BY <1>1, <1>4 DEF HeaderCut, IsFirst, IsToken, Separators
<1> QED
  BY <1>3, <1>4, <1>5 DEF HeaderCut, IsFirst, IsToken, TokenByte

\* At the colon.
LEMMA SpaceGoesOn ==
    ASSUME NEW s, NEW n \in Nat, NEW f \in 1..n - 3, IsMessageAt(s, n, f),
           NEW m \in Nat, m < n, AtSpace(s, m)
    PROVE  m + 1 < n /\ s[m + 1] = 32
<1>1. PICK g \in 1..m, i \in 1..m :
        InHeaders(s, g, i) /\ IsToken(s, i, m - 1) /\ s[m] = 58
  BY DEF AtSpace
<1>2. s[i] # 13 /\ s[i] \notin {32, 9} /\ IsFirst(s, i, 58, m)
  BY <1>1 DEF IsToken, IsFirst, Separators
<1>3. PICK e \in Nat, c \in Nat :
             /\ i <= e /\ e <= n - 3 /\ IsFirst(s, i, 13, e) /\ s[e + 1] = 10
             /\ HeaderCut(s, i, e, c) \/ (i > f + 2 /\ FoldCut(s, i, e, c))
  BY <1>1, <1>2, InsideLine
<1>4. HeaderCut(s, i, e, c)
  BY <1>2, <1>3 DEF FoldCut, IsBlank
<1>5. m = c
  BY <1>1, <1>2, <1>4, FirstUnique DEF HeaderCut
<1> QED
  BY <1>3, <1>4, <1>5 DEF HeaderCut

\* In the blanks of a fold.
LEMMA LwsGoesOn ==
    ASSUME NEW s, NEW n \in Nat, NEW f \in 1..n - 3, IsMessageAt(s, n, f),
           NEW m \in Nat, m < n, InLws(s, m)
    PROVE  m + 1 < n /\ (s[m + 1] = 13 \/ s[m + 1] \in {32, 9} \/ TextByte(s[m + 1]))
<1>1. PICK g \in 1..m, i \in 1..m :
        InHeaders(s, g, i) /\ i > g + 2 /\ IsBlank(s, i, m)
  BY DEF InLws
<1>2. s[i] # 13 /\ s[i] \in {32, 9}
  BY <1>1 DEF IsBlank
<1>3. PICK e \in Nat, c \in Nat :
             /\ i <= e /\ e <= n - 3 /\ IsFirst(s, i, 13, e) /\ s[e + 1] = 10
             /\ HeaderCut(s, i, e, c) \/ (i > f + 2 /\ FoldCut(s, i, e, c))
  BY <1>1, <1>2, InsideLine
<1>4. FoldCut(s, i, e, c)
  BY <1>2, <1>3 DEF HeaderCut, IsToken
<1>5. m < e
  BY <1>1, <1>3 DEF IsFirst, IsBlank
<1>6. CASE m + 1 < c
  BY <1>3, <1>4, <1>5, <1>6 DEF FoldCut, IsBlank
<1>7. CASE m + 1 >= c
  BY <1>3, <1>4, <1>5, <1>7 DEF FoldCut, IsFirst, IsText, TextByte
<1> QED
  BY <1>6, <1>7

\* In a text.
LEMMA ValueGoesOn ==
    ASSUME NEW s, NEW n \in Nat, NEW f \in 1..n - 3, IsMessageAt(s, n, f),
           NEW m \in Nat, m < n, InValue(s, m)
    PROVE  m + 1 < n /\ (s[m + 1] = 13 \/ TextByte(s[m + 1]))
<1>1. PICK g \in 1..m, i \in 1..m :
        /\ InHeaders(s, g, i)
        /\ ValueOfHeader(s, i, m) \/ (i > g + 2 /\ ValueOfFold(s, i, m))
  BY DEF InValue
<1>2. CASE ValueOfHeader(s, i, m)
  <2>1. PICK k \in i..m - 1 :
          IsFirst(s, i, 58, k) /\ IsToken(s, i, k - 1) /\ s[k + 1] = 32
             /\ IsText(s, k + 2, m)
    BY <1>2 DEF ValueOfHeader
  <2>2. s[i] # 13 /\ s[i] \notin {32, 9}
    BY <2>1 DEF IsToken
  <2>3. PICK e \in Nat, c \in Nat :
             /\ i <= e /\ e <= n - 3 /\ IsFirst(s, i, 13, e) /\ s[e + 1] = 10
             /\ HeaderCut(s, i, e, c) \/ (i > f + 2 /\ FoldCut(s, i, e, c))
    BY <1>1, <2>2, InsideLine
  <2>4. HeaderCut(s, i, e, c)
    BY <2>2, <2>3 DEF FoldCut, IsBlank
  <2>5. k = c
    BY <2>1, <2>4, FirstUnique DEF HeaderCut
  <2>6. m < e
    BY <2>1, <2>3, <2>4, <2>5 DEF HeaderCut, IsFirst, IsText
  <2> QED
    BY <2>1, <2>3, <2>4, <2>5, <2>6 DEF HeaderCut, IsFirst, IsText, TextByte
<1>3. CASE ValueOfFold(s, i, m)
  <2>1. PICK t \in i + 1..m :
          IsBlank(s, i, t - 1) /\ s[t] \notin {32, 9} /\ IsText(s, t, m)
    BY <1>3 DEF ValueOfFold
  <2>2. s[i] # 13 /\ s[i] \in {32, 9}
    BY <2>1 DEF IsBlank
  <2>3. PICK e \in Nat, c \in Nat :
             /\ i <= e /\ e <= n - 3 /\ IsFirst(s, i, 13, e) /\ s[e + 1] = 10
             /\ HeaderCut(s, i, e, c) \/ (i > f + 2 /\ FoldCut(s, i, e, c))
    BY <1>1, <2>2, InsideLine
  <2>4. FoldCut(s, i, e, c)
    BY <2>2, <2>3 DEF HeaderCut, IsToken
  <2>5. c <= t
    BY <2>1, <2>4 DEF FoldCut, IsBlank
  <2>6. m < e
    BY <2>1, <2>3, <2>4 DEF FoldCut, IsFirst, IsText, IsBlank
  <2> QED
    BY <2>1, <2>3, <2>4, <2>5, <2>6 DEF FoldCut, IsFirst, IsText, TextByte
<1> QED
  BY <1>1, <1>2, <1>3

\* At the CR of a header or a fold.
LEMMA Newline2GoesOn ==
    ASSUME NEW s, NEW n \in Nat, NEW f \in 1..n - 3, IsMessageAt(s, n, f),
           NEW m \in Nat, m < n, AtNewline2(s, m)
    PROVE  m + 1 < n /\ s[m + 1] = 10
<1>1. PICK g \in 1..m, i \in 1..m :
        /\ InHeaders(s, g, i) /\ IsFirst(s, i, 13, m)
        /\ IsHeader(s, i, m) \/ (i > g + 2 /\ IsFold(s, i, m))
  BY DEF AtNewline2
<1>2. s[i] # 13
  BY <1>1 DEF IsHeader, IsFold, IsToken, IsBlank, IsFirst
<1>3. PICK e \in Nat, c \in Nat :
             /\ i <= e /\ e <= n - 3 /\ IsFirst(s, i, 13, e) /\ s[e + 1] = 10
             /\ HeaderCut(s, i, e, c) \/ (i > f + 2 /\ FoldCut(s, i, e, c))
  BY <1>1, <1>2, InsideLine
<1>4. m = e
  BY <1>1, <1>3, FirstUnique
<1> QED
  BY <1>3, <1>4

\* At the CR of the empty line there is one byte left.
LEMMA Newline3GoesOn ==
    ASSUME NEW s, NEW n \in Nat, NEW f \in 1..n - 3, IsMessageAt(s, n, f),
           NEW m \in Nat, m < n, AtNewline3(s, m)
    PROVE  m + 1 = n /\ s[m + 1] = 10
<1>1. PICK g \in 1..m : InHeaders(s, g, m) /\ s[m] = 13
  BY DEF AtNewline3
<1>2. PICK e \in Nat : EndsAt(s, n, f, m, e)
  BY <1>1, LineEnds DEF IsMessageAt
<1>3. CASE m = n - 1
  BY <1>3 DEF IsMessageAt
<1>4. CASE m # n - 1
  <2>1. m <= e /\ IsHeaderLine(s, f, m, e)
    BY <1>2, <1>4 DEF EndsAt
  <2>2. PICK c \in Nat : HeaderCut(s, m, e, c) \/ FoldCut(s, m, e, c)
    <3>1. f \in Nat
      OBVIOUS
    <3> QED
      BY <2>1, <3>1, LineCut
  <2>3. s[m] # 13
    BY <2>2 DEF HeaderCut, FoldCut, IsToken, IsBlank
  <2> QED
    BY <1>1, <2>3
<1> QED
  BY <1>3, <1>4

\* Until a message is over, each of its bytes is accepted, and its last one
\* makes it good.
LEMMA MessageGoesOn ==
    ASSUME NEW s, NEW n \in Nat, IsMessage(s, n), NEW m \in Nat, m < n,
           NEW st \in States, Shape(s, m, st), NEW h \in BOOLEAN,
           st = "header_line_start" => (h <=> ~IsFirst(s, 1, 13, m - 1)),
           NEW q, q = After(st, h, s[m + 1])
    PROVE  q # "bad" /\ (q = "good" <=> m + 1 = n)
<1>1. PICK f \in 1..n - 3 : IsMessageAt(s, n, f)
  BY DEF IsMessage, IsMessageAt
<1>2. f \in Nat /\ s[f] = 13 /\ s[f + 1] = 10 /\ IsRequestLine(s, f)
         /\ IsFirst(s, 1, 13, f)
  BY <1>1 DEF IsMessageAt, IsLine, IsFirst
<1>3. PICK a \in 1..f, b \in 1..f, d \in 1..f : LineCuts(s, f, a, b, d)
  BY <1>2, RequestLineCuts
<1>4. CASE st = "method_start"
  <2>1. m = 0
    BY <1>4 DEF Shape
  <2>2. m < f /\ s[m + 1] \in TokenByte
    BY <1>2, <1>3, <2>1, MethodGoesOn
  <2> QED
    BY <1>4, <2>2 DEF After
<1>5. CASE st = "method"
  BY <1>5, <1>2, <1>3, MethodGoesOn DEF After, Shape
<1>6. CASE st = "uri"
  BY <1>6, <1>2, <1>3, UriGoesOn DEF After, Shape
<1>7. CASE st = "http_version_h"
  <2>1. InVersion(s, m, 0)
    BY <1>7 DEF Shape
  <2>2. m < f /\ s[m + 1] = VersionPrefix[1]
    BY <1>2, <1>3, <2>1, VersionGoesOn
  <2> QED
    BY <1>7, <2>2 DEF After, VersionPrefix
<1>8. CASE st = "http_version_t_1"
  <2>1. InVersion(s, m, 1)
    BY <1>8 DEF Shape
  <2>2. m < f /\ s[m + 1] = VersionPrefix[2]
    BY <1>2, <1>3, <2>1, VersionGoesOn
  <2> QED
    BY <1>8, <2>2 DEF After, VersionPrefix
<1>9. CASE st = "http_version_t_2"
  <2>1. InVersion(s, m, 2)
    BY <1>9 DEF Shape
  <2>2. m < f /\ s[m + 1] = VersionPrefix[3]
    BY <1>2, <1>3, <2>1, VersionGoesOn
  <2> QED
    BY <1>9, <2>2 DEF After, VersionPrefix
<1>10. CASE st = "http_version_p"
  <2>1. InVersion(s, m, 3)
    BY <1>10 DEF Shape
  <2>2. m < f /\ s[m + 1] = VersionPrefix[4]
    BY <1>2, <1>3, <2>1, VersionGoesOn
  <2> QED
    BY <1>10, <2>2 DEF After, VersionPrefix
<1>11. CASE st = "http_version_slash"
  <2>1. InVersion(s, m, 4)
    BY <1>11 DEF Shape
  <2>2. m < f /\ s[m + 1] = VersionPrefix[5]
    BY <1>2, <1>3, <2>1, VersionGoesOn
  <2> QED
    BY <1>11, <2>2 DEF After, VersionPrefix
<1>12. CASE st = "http_version_major_start"
  <2>1. InVersion(s, m, 5)
    BY <1>12 DEF Shape
  <2>2. m < f /\ s[m + 1] \in 48..57
    BY <1>2, <1>3, <2>1, VersionGoesOn
  <2> QED
    BY <1>12, <2>2 DEF After
<1>13. CASE st = "http_version_major"
  BY <1>13, <1>2, <1>3, MajorGoesOn DEF After, Shape
<1>14. CASE st = "http_version_minor_start"
  BY <1>14, <1>2, <1>3, MinorGoesOn DEF After, Shape
<1>15. CASE st = "http_version_minor"
  BY <1>15, <1>2, <1>3, MinorGoesOn DEF After, Shape
<1>16. CASE st = "expecting_newline_1"
  <2>1. m >= 1 /\ s[m] = 13 /\ IsRequestLine(s, m)
    BY <1>16 DEF Shape, AtNewline1
  <2>2. IsFirst(s, 1, 13, m)
    BY <2>1, RequestLineEnds
  <2>3. m = f
    BY <1>2, <2>1, <2>2, FirstUnique
  <2> QED
    BY <1>16, <1>2, <2>3 DEF After
<1>17. CASE st = "header_line_start"
  BY <1>17, <1>1, LineStartGoesOn DEF After, Shape
<1>18. CASE st = "header_lws"
  BY <1>18, <1>1, LwsGoesOn DEF After, Shape
<1>19. CASE st = "header_name"
  BY <1>19, <1>1, NameGoesOn DEF After, Shape
<1>20. CASE st = "space_before_header_value"
  BY <1>20, <1>1, SpaceGoesOn DEF After, Shape
<1>21. CASE st = "header_value"
  BY <1>21, <1>1, ValueGoesOn DEF After, Shape
<1>22. CASE st = "expecting_newline_2"
  BY <1>22, <1>1, Newline2GoesOn DEF After, Shape
<1>23. CASE st = "expecting_newline_3"
  BY <1>23, <1>1, Newline3GoesOn DEF After, Shape
<1> QED
  BY <1>4, <1>5, <1>6, <1>7, <1>8, <1>9, <1>10, <1>11, <1>12, <1>13, <1>14, <1>15,
     <1>16, <1>17, <1>18, <1>19, <1>20, <1>21, <1>22, <1>23 DEF States

----------------------------------------------------------------------------
(* What consume() writes, and the parser beside the grammar.               *)

\* What the byte adds to the request, when it is accepted.
ReqAfter(st, r, b) ==
    LET c == to_char(b)
    IN  CASE st = "method_start" \/ (st = "method" /\ b # 32) ->
                [r EXCEPT !.method = Append(@, c)]
          [] st = "uri" /\ b # 32 -> [r EXCEPT !.uri = Append(@, c)]
          [] st = "http_version_slash" ->
                [r EXCEPT !.http_version_major = 0, !.http_version_minor = 0]
          [] st = "http_version_major_start"
                \/ (st = "http_version_major" /\ b # 46) ->
                [r EXCEPT !.http_version_major = add_digit(@, c)]
          [] st = "http_version_minor_start"
                \/ (st = "http_version_minor" /\ b # 13) ->
                [r EXCEPT !.http_version_minor = add_digit(@, c)]
          [] st = "header_line_start" /\ b \notin {13, 32, 9} ->
                [r EXCEPT !.headers = Append(@, [name |-> <<c>>, value |-> <<>>])]
          [] st = "header_name" /\ b # 58 ->
                [r EXCEPT !.headers[Len(r.headers)].name = Append(@, c)]
          [] (st = "header_lws" /\ b \notin {13, 32, 9})
                \/ (st = "header_value" /\ b # 13) ->
                [r EXCEPT !.headers[Len(r.headers)].value = Append(@, c)]
          [] OTHER -> r

\* What the helpers of consume() do to the request.
LEMMA GotoReq ==
    ASSUME NEW p \in Parser
    PROVE  /\ \A st : goto(p, st).req = p.req
           /\ [p EXCEPT !.result = "good"].req = p.req
           /\ \A c : push_method(p, c).req = [p.req EXCEPT !.method = Append(@, c)]
           /\ \A c : push_uri(p, c).req = [p.req EXCEPT !.uri = Append(@, c)]
           /\ \A c : push_header(p, c).req
                 = [p.req EXCEPT !.headers
                    = Append(@, [name |-> <<c>>, value |-> <<>>])]
           /\ \A c : push_name(p, c).req
                 = [p.req EXCEPT !.headers[Len(p.req.headers)].name = Append(@, c)]
           /\ \A c : push_value(p, c).req
                 = [p.req EXCEPT !.headers[Len(p.req.headers)].value = Append(@, c)]
           /\ \A c : add_major(p, c).req
                 = [p.req EXCEPT !.http_version_major = add_digit(@, c)]
           /\ \A c : add_minor(p, c).req
                 = [p.req EXCEPT !.http_version_minor = add_digit(@, c)]
BY DEF Parser, goto, push_method, push_uri, push_header, push_name, push_value,
   add_major, add_minor

\* goto() after a push keeps what was pushed.
LEMMA GotoPushReq ==
    ASSUME NEW p \in Parser, NEW c
    PROVE  \A q \in {push_method(p, c), push_uri(p, c), push_header(p, c),
              push_name(p, c), push_value(p, c), add_major(p, c), add_minor(p, c)} :
             \A st : goto(q, st).req = q.req
BY DEF Parser, goto, push_method, push_uri, push_header, push_name, push_value,
   add_major, add_minor

\* At the slash both version fields are set to 0.
LEMMA SlashReq ==
    ASSUME NEW p \in Parser
    PROVE  at_slash(p, SLASH).req
             = [p.req EXCEPT !.http_version_major = 0, !.http_version_minor = 0]
<1>1. p.req \in Request
  BY DEF Parser
<1> QED
  BY <1>1 DEF Parser, Request, at_slash, goto

\* consume() writes to the request as ReqAfter says.
LEMMA ConsumeWrites ==
    ASSUME NEW p \in Parser, p.result = "indeterminate", NEW b \in Byte,
           After(p.state_, p.req.headers # <<>>, b) # "bad"
    PROVE  consume(p, to_char(b)).req = ReqAfter(p.state_, p.req, b)
<1> DEFINE c == to_char(b)
           r == p.req
           h == p.req.headers # <<>>
<1>0. p.state_ \in States
  BY DEF Parser
<1>1. /\ is_token(c) <=> b \in TokenByte
      /\ ~is_ctl(c) <=> TextByte(b)
      /\ is_digit(c) <=> b \in 48..57
      /\ \A k \in 0..127 : c = k <=> b = k
  BY ByteKinds
<1>2. /\ c = 9 <=> b = 9 
      /\ c = 10 <=> b = 10 
      /\ c = 13 <=> b = 13 
      /\ c = 32 <=> b = 32 
      /\ c = 46 <=> b = 46
      /\ c = 47 <=> b = 47
      /\ c = 58 <=> b = 58
      /\ c = 72 <=> b = 72
      /\ c = 80 <=> b = 80
      /\ c = 84 <=> b = 84
  BY <1>1
<1>3. /\ \A st : goto(p, st).req = p.req
      /\ [p EXCEPT !.result = "good"].req = p.req
  BY GotoReq
<1>4. \A q \in {push_method(p, c), push_uri(p, c), push_header(p, c),
         push_name(p, c), push_value(p, c), add_major(p, c), add_minor(p, c)} :
             \A st : goto(q, st).req = q.req
  BY GotoPushReq
<1>5. After(p.state_, h, b) # "bad"
  OBVIOUS
<1> HIDE DEF c, h
<1>6. SUFFICES consume(p, c).req = ReqAfter(p.state_, p.req, b)
  BY DEF c
<1> USE DEF HT, LF, CR, SP, DOT, SLASH, COLON, CAPITAL_H, CAPITAL_P, CAPITAL_T
<1>7. CASE p.state_ = "method_start"
  <2>1. consume(p, c).req = push_method(p, c).req
    BY <1>7, <1>5, <1>1, <1>4 DEF consume, at_method_start, After
  <2> QED
    BY <1>7, <2>1, GotoReq DEF ReqAfter, c
<1>8. CASE p.state_ = "method"
  <2>1. consume(p, c).req = IF b = 32 THEN p.req ELSE push_method(p, c).req
    BY <1>8, <1>5, <1>1, <1>2, <1>3 DEF consume, at_method, After
  <2> QED
    BY <1>8, <2>1, GotoReq DEF ReqAfter, c
<1>9. CASE p.state_ = "uri"
  <2>1. consume(p, c).req = IF b = 32 THEN p.req ELSE push_uri(p, c).req
    BY <1>9, <1>5, <1>1, <1>2, <1>3 DEF consume, at_uri, After
  <2> QED
    BY <1>9, <2>1, GotoReq DEF ReqAfter, c
<1>10. CASE p.state_ \in {"http_version_h", "http_version_t_1", "http_version_t_2",
               "http_version_p"}
  <2>1. consume(p, c).req = p.req
    BY <1>10, <1>5, <1>2, <1>3 DEF consume, expect, After
  <2> QED
    BY <1>10, <2>1 DEF ReqAfter
<1>11. CASE p.state_ \in {"expecting_newline_1", "expecting_newline_2",
               "space_before_header_value"}
  <2>1. consume(p, c).req = p.req
    BY <1>11, <1>5, <1>2, <1>3 DEF consume, expect, After
  <2> QED
    BY <1>11, <2>1 DEF ReqAfter
<1>12. CASE p.state_ = "expecting_newline_3"
  BY <1>12, <1>5, <1>2, <1>3 DEF consume, at_newline_3, After, ReqAfter
<1>14. CASE p.state_ = "http_version_slash"
  <2>1. c = 47
    BY <1>14, <1>5, <1>2 DEF After
  <2> QED
    BY <1>14, <2>1, SlashReq DEF consume, ReqAfter
<1>15. CASE p.state_ = "http_version_major_start"
  <2>1. consume(p, c).req = add_major(p, c).req
    BY <1>15, <1>5, <1>1, <1>4 DEF consume, at_major_start, After
  <2> QED
    BY <1>15, <2>1, GotoReq DEF ReqAfter, c
<1>16. CASE p.state_ = "http_version_major"
  <2>1. consume(p, c).req = IF b = 46 THEN p.req ELSE add_major(p, c).req
    BY <1>16, <1>5, <1>1, <1>2, <1>3 DEF consume, at_major, After
  <2> QED
    BY <1>16, <2>1, GotoReq DEF ReqAfter, c
<1>17. CASE p.state_ = "http_version_minor_start"
  <2>1. consume(p, c).req = add_minor(p, c).req
    BY <1>17, <1>5, <1>1, <1>4 DEF consume, at_minor_start, After
  <2> QED
    BY <1>17, <2>1, GotoReq DEF ReqAfter, c
<1>18. CASE p.state_ = "http_version_minor"
  <2>1. consume(p, c).req = IF b = 13 THEN p.req ELSE add_minor(p, c).req
    BY <1>18, <1>5, <1>1, <1>2, <1>3 DEF consume, at_minor, After
  <2> QED
    BY <1>18, <2>1, GotoReq DEF ReqAfter, c
<1>20. CASE p.state_ = "header_line_start"
  <2>1. /\ consume(p, c) = at_header_line_start(p, c)
        /\ b = 13 \/ (h /\ b \in {32, 9}) \/ (b \in TokenByte /\ b \notin {13, 32, 9})
    <3>1. b \in TokenByte => b \notin {13, 32, 9}
      BY TokenFacts
    <3> QED
      BY <1>20, <1>5, <3>1 DEF consume, After
  <2>2. consume(p, c).req = IF b \in {13, 32, 9} THEN p.req ELSE push_header(p, c).req
    <3>1. CASE b = 13
      BY <2>1, <3>1, <1>2, <1>3 DEF at_header_line_start
    <3>2. CASE h /\ b \in {32, 9}
      BY <2>1, <3>2, <1>2, <1>3 DEF at_header_line_start, h
    <3>3. CASE b \in TokenByte /\ b \notin {13, 32, 9}
      <4>1. at_header_line_start(p, c) = goto(push_header(p, c), "header_name")
        BY <3>3, <1>1, <1>2 DEF at_header_line_start
      <4>2. goto(push_header(p, c), "header_name").req = push_header(p, c).req
        BY <1>4
      <4> QED
        BY <2>1, <3>3, <4>1, <4>2
    <3> QED
      BY <2>1, <3>1, <3>2, <3>3
  <2>3. push_header(p, c).req =
            [p.req EXCEPT !.headers = Append(@, [name |-> <<c>>, value |-> <<>>])]
    BY DEF Parser, push_header
  <2> QED
    BY <1>20, <2>2, <2>3 DEF ReqAfter, c
<1>21. CASE p.state_ = "header_lws"
  <2>1. consume(p, c).req = IF b \in {13, 32, 9} THEN p.req ELSE push_value(p, c).req
    BY <1>21, <1>5, <1>1, <1>2, <1>3, <1>4 DEF consume, at_header_lws, After
  <2>2. push_value(p, c).req =
            [p.req EXCEPT !.headers[Len(p.req.headers)].value = Append(@, c)]
    BY DEF Parser, push_value
  <2> QED
    BY <1>21, <2>1, <2>2 DEF ReqAfter, c
<1>22. CASE p.state_ = "header_name"
  <2>1. consume(p, c).req = IF b = 58 THEN p.req ELSE push_name(p, c).req
    BY <1>22, <1>5, <1>1, <1>2, <1>3 DEF consume, at_header_name, After
  <2>2. push_name(p, c).req =
            [p.req EXCEPT !.headers[Len(p.req.headers)].name = Append(@, c)]
    BY DEF Parser, push_name
  <2> QED
    BY <1>22, <2>1, <2>2 DEF ReqAfter, c
<1>24. CASE p.state_ = "header_value"
  <2>1. consume(p, c).req = IF b = 13 THEN p.req ELSE push_value(p, c).req
    BY <1>24, <1>5, <1>1, <1>2, <1>3 DEF consume, at_header_value, After
  <2>2. push_value(p, c).req =
            [p.req EXCEPT !.headers[Len(p.req.headers)].value = Append(@, c)]
    BY DEF Parser, push_value
  <2> QED
    BY <1>24, <2>1, <2>2 DEF ReqAfter, c
<1> QED
  BY <1>0, <1>7, <1>8, <1>9, <1>10, <1>11, <1>12, <1>14, <1>15, <1>16, <1>17, <1>18,
     <1>20, <1>21, <1>22, <1>24 DEF States

\* Only the first byte of a name adds a header, and none is removed.
LEMMA HeadersAfter ==
    ASSUME NEW st \in States, NEW r \in Request, NEW b
    PROVE  ReqAfter(st, r, b).headers = <<>>
             <=> r.headers = <<>>
                /\ ~(st = "header_line_start" /\ b \notin {13, 32, 9})
<1>1. r.headers \in Seq(Header)
  BY DEF Request
<1>2. CASE st = "header_line_start" /\ b \notin {13, 32, 9}
  <2>1. ReqAfter(st, r, b).headers
          = Append(r.headers, [name |-> <<to_char(b)>>, value |-> <<>>])
    BY <1>2 DEF ReqAfter, Request
  <2> QED
    BY <1>1, <1>2, <2>1
<1>3. CASE st = "header_name" /\ b # 58
  <2>1. ReqAfter(st, r, b).headers
          = [r.headers EXCEPT ![Len(r.headers)].name = Append(@, to_char(b))]
    BY <1>3 DEF ReqAfter, Request
  <2> QED
    BY <1>1, <1>3, <2>1
<1>4. CASE (st = "header_lws" /\ b \notin {13, 32, 9})
              \/ (st = "header_value" /\ b # 13)
  <2>1. ReqAfter(st, r, b).headers
          = [r.headers EXCEPT ![Len(r.headers)].value = Append(@, to_char(b))]
    BY <1>4 DEF ReqAfter, Request
  <2> QED
    BY <1>1, <1>4, <2>1
<1>5. CASE /\ ~(st = "header_line_start" /\ b \notin {13, 32, 9})
           /\ ~(st = "header_name" /\ b # 58)
           /\ ~((st = "header_lws" /\ b \notin {13, 32, 9})
                 \/ (st = "header_value" /\ b # 13))
  <2>1. ReqAfter(st, r, b).headers = r.headers
    BY <1>5 DEF ReqAfter, Request
  <2> QED
    BY <1>5, <2>1
<1> QED
  BY <1>2, <1>3, <1>4, <1>5

\* The states of the request line.
LineStates ==
    {"method_start", "method", "uri", "http_version_h", "http_version_t_1",
     "http_version_t_2", "http_version_p", "http_version_slash",
     "http_version_major_start", "http_version_major",
     "http_version_minor_start", "http_version_minor", "expecting_newline_1"}

\* When there are headers: after the first line that follows the request line.
HeadersKnown(s, m, st, empty) ==
    /\ st \in LineStates => empty
    /\ st = "header_line_start" => (empty <=> IsFirst(s, 1, 13, m - 1))
    /\ st \in BackStates \cup {"expecting_newline_2"} => ~empty

\* What the parser asks of req.headers to tell a fold from a first line is
\* what the grammar asks of the bytes.
LEMMA HeadersKnownStep ==
    ASSUME NEW s, NEW m \in Nat, NEW st \in States, NEW r \in Request,
           Shape(s, m, st), HeadersKnown(s, m, st, r.headers = <<>>),
           NEW q, q = After(st, r.headers # <<>>, s[m + 1]), q # "bad", q # "good"
    PROVE  HeadersKnown(s, m + 1, q, ReqAfter(st, r, s[m + 1]).headers = <<>>)
<1> DEFINE e == r.headers = <<>>
           g == ReqAfter(st, r, s[m + 1]).headers = <<>>
<1>1. g <=> e /\ ~(st = "header_line_start" /\ s[m + 1] \notin {13, 32, 9})
  BY HeadersAfter
<1>2. HeadersKnown(s, m, st, e) /\ q = After(st, ~e, s[m + 1])
  OBVIOUS
<1>3. q = "header_line_start" => (IsFirst(s, 1, 13, m) <=> st = "expecting_newline_1")
  <2>0. PICK h \in BOOLEAN : h = (r.headers # <<>>)
    OBVIOUS
  <2>1. st = "header_line_start" => (h <=> ~IsFirst(s, 1, 13, m - 1))
    BY <2>0 DEF HeadersKnown
  <2>2. q = After(st, h, s[m + 1])
    BY <2>0
  <2>3. ShapeKept(s, m, st, q)
    BY <2>1, <2>2, ShapeStep, Zenon
  <2> QED
    BY <2>3 DEF ShapeKept
<1> HIDE DEF e, g
<1>4. SUFFICES HeadersKnown(s, m + 1, q, g)
  BY DEF g
<1> USE DEF HeadersKnown, BackStates, UsesBack, LineStates
<1>5. CASE st \in LineStates \ {"expecting_newline_1"}
  <2>1. q \in LineStates /\ st # "header_line_start"
    BY <1>2, <1>5 DEF After
  <2> QED
    BY <1>1, <1>2, <1>5, <2>1
<1>6. CASE st = "expecting_newline_1"
  <2>1. q = "header_line_start"
    BY <1>2, <1>6 DEF After
  <2>2. g /\ IsFirst(s, 1, 13, (m + 1) - 1)
    BY <1>1, <1>2, <1>3, <1>6, <2>1
  <2> QED
    BY <2>1, <2>2
<1>7. CASE st = "header_line_start"
  <2>1. \/ q = "expecting_newline_3"
        \/ q = "header_lws" /\ ~e
        \/ q = "header_name" /\ s[m + 1] \in TokenByte /\ s[m + 1] \notin {13, 32, 9}
    <3>1. s[m + 1] \in TokenByte => s[m + 1] \notin {13, 32, 9}
      BY TokenFacts
    <3>2. q = IF s[m + 1] = 13 THEN "expecting_newline_3"
              ELSE IF ~e /\ s[m + 1] \in {32, 9} THEN "header_lws"
              ELSE IF s[m + 1] \in TokenByte THEN "header_name" ELSE "bad"
      BY <1>2, <1>7 DEF After
    <3> QED
      BY <3>1, <3>2
  <2> QED
    BY <1>1, <1>7, <2>1
<1>8. CASE st \in BackStates \cup {"expecting_newline_2"}
  <2>1. q \in BackStates \cup {"expecting_newline_2", "header_line_start"}
    BY <1>2, <1>8 DEF After
  <2>2. ~g
    BY <1>1, <1>2, <1>8
  <2>3. q = "header_line_start" => ~IsFirst(s, 1, 13, (m + 1) - 1)
    BY <1>3, <1>8
  <2> QED
    BY <2>1, <2>2, <2>3
<1>9. CASE st = "expecting_newline_3"
  BY <1>2, <1>9 DEF After
<1> QED
  BY <1>5, <1>6, <1>7, <1>8, <1>9 DEF States

----------------------------------------------------------------------------
\* A parser that has been given the first m bytes of s.
Follows(s, m, p) ==
    /\ p \in Parser
    /\ p.result = "indeterminate" =>
          /\ Shape(s, m, p.state_)
          /\ HeadersKnown(s, m, p.state_, p.req.headers = <<>>)
          /\ \A k \in 1..m : ~IsMessage(s, k)
    /\ p.result = "good" => IsMessage(s, m) /\ \A k \in 1..m - 1 : ~IsMessage(s, k)
    /\ p.result = "bad" => \A k \in Nat \ {0} : ~IsMessage(s, k)

\* A fresh parser has been given no byte.
LEMMA FollowsStart ==
    ASSUME NEW s, NEW u \in UInt8, NEW v \in UInt8
    PROVE  Follows(s, 0, new_parser(u, v))
<1>1. new_parser(u, v) \in Parser
  BY NewParserHolds DEF ParserInv
<1>2. /\ new_parser(u, v).state_ = "method_start"
      /\ new_parser(u, v).result = "indeterminate"
      /\ new_parser(u, v).req.headers = <<>>
  BY DEF new_parser, fresh_request
<1>3. HeadersKnown(s, 0, new_parser(u, v).state_, new_parser(u, v).req.headers = <<>>)
  BY <1>2 DEF HeadersKnown, LineStates, BackStates, UsesBack
<1>4. Shape(s, 0, new_parser(u, v).state_)
  BY <1>2 DEF Shape
<1> QED
  BY <1>1, <1>2, <1>3, <1>4 DEF Follows

\* consume() follows the grammar: it is bad only where no message is
\* possible any more and good where, for the first time, there is one.
LEMMA FollowsStep ==
    ASSUME NEW s, NEW m \in Nat, s[m + 1] \in Byte, NEW p, ParserInv(p),
           p.result = "indeterminate", Follows(s, m, p)
    PROVE  Follows(s, m + 1, consume(p, to_char(s[m + 1])))
<1> DEFINE b == s[m + 1]
           q == consume(p, to_char(b))
           st == p.state_
<1>0. PICK h \in BOOLEAN : h = (p.req.headers # <<>>)
  OBVIOUS
<1>1. ParserInv(q) /\ q \in Parser
  BY ByteIsChar, ConsumeKeeps DEF ParserInv
<1>2. /\ p \in Parser /\ p.req \in Request /\ st \in States
      /\ Shape(s, m, st)
      /\ HeadersKnown(s, m, st, p.req.headers = <<>>)
      /\ \A k \in 1..m : ~IsMessage(s, k)
  BY DEF Follows, Parser
<1>3. Place(q) = After(st, h, b)
  BY <1>0, <1>2, ConsumeGoes
<1>4. Place(q) # "bad" => q.req = ReqAfter(st, p.req, b)
  BY <1>0, <1>2, <1>3, ConsumeWrites
<1>5. st = "header_line_start" => (h <=> ~IsFirst(s, 1, 13, m - 1))
  BY <1>0, <1>2 DEF HeadersKnown
<1>6. q.result \in Results /\ q.state_ \in States
  BY <1>1 DEF Parser
<1>7. /\ Place(q) # "bad" /\ Place(q) # "good" => Shape(s, m + 1, Place(q))
      /\ Place(q) = "good" => IsMessage(s, m + 1)
  BY <1>2, <1>3, <1>5, ShapeStep DEF ShapeKept
<1>8. \A n \in Nat : IsMessage(s, n) /\ m < n => Place(q) # "bad"
         /\ (Place(q) = "good" <=> m + 1 = n)
  BY <1>2, <1>3, <1>5, MessageGoesOn
<1>9. Place(q) # "bad" /\ Place(q) # "good"
         => HeadersKnown(s, m + 1, Place(q), q.req.headers = <<>>)
  BY <1>0, <1>2, <1>3, <1>4, HeadersKnownStep
<1> HIDE DEF q, b, st
<1>10. SUFFICES Follows(s, m + 1, q)
  BY DEF q, b
<1>11. CASE q.result = "indeterminate"
  <2>1. Place(q) = q.state_ /\ q.state_ # "good" /\ q.state_ # "bad"
    BY <1>6, <1>11 DEF Place, States
  <2>2. \A k \in 1..m + 1 : ~IsMessage(s, k)
    BY <1>2, <1>8, <2>1
  <2> QED
    BY <1>1, <1>7, <1>9, <1>11, <2>1, <2>2 DEF Follows
<1>12. CASE q.result = "good"
  <2>1. Place(q) = "good"
    BY <1>12 DEF Place
  <2>2. \A k \in 1..(m + 1) - 1 : ~IsMessage(s, k)
    BY <1>2
  <2> QED
    BY <1>1, <1>7, <1>12, <2>1, <2>2 DEF Follows
<1>13. CASE q.result = "bad"
  <2>1. Place(q) = "bad"
    BY <1>13 DEF Place
  <2>2. \A k \in Nat \ {0} : ~IsMessage(s, k)
    <3> SUFFICES ASSUME NEW k \in Nat \ {0}, IsMessage(s, k) PROVE FALSE
      OBVIOUS
    <3>1. CASE k <= m
      BY <1>2, <3>1
    <3>2. CASE m < k
      BY <1>8, <2>1, <3>2
    <3> QED
      BY <3>1, <3>2
  <2> QED
    BY <1>1, <1>13, <2>1, <2>2 DEF Follows
<1> QED
  BY <1>6, <1>11, <1>12, <1>13 DEF Results

\* The first message is the one that the grammar chooses.
LEMMA MessageEndIs ==
    ASSUME NEW s \in Seq(Byte), NEW n \in 1..Len(s), IsMessage(s, n),
           \A k \in 1..n - 1 : ~IsMessage(s, k)
    PROVE  HasMessage(s) /\ MessageEnd(s) = n
<1> DEFINE First1(x) == IsMessage(s, x) /\ \A k \in 1..x - 1 : ~IsMessage(s, k)
<1>1. First1(n)
  OBVIOUS
<1>2. \A x \in 1..Len(s) : First1(x) => x = n
  BY <1>1
<1>3. MessageEnd(s) \in 1..Len(s) /\ First1(MessageEnd(s))
  BY <1>1 DEF MessageEnd
<1> QED
  BY <1>2, <1>3 DEF HasMessage

----------------------------------------------------------------------------
(* Every state can be completed: a parser without a verdict has read the   *)
(* beginning of a message.                                                 *)

\* The least-number principle.
LEMMA LeastNatural ==
    ASSUME NEW T, T \subseteq Nat, T # {}
    PROVE  \E x \in T : \A y \in T : x <= y
<1>1. PICK x \in T : \A y \in T : ~(<<y, x>> \in OpToRel(<, Nat))
  BY NatLessThanWellFounded, WFMin
<1>2. \A y \in T : x <= y
  <2> SUFFICES ASSUME NEW y \in T PROVE x <= y
    OBVIOUS
  <2>1. <<y, x>> \in Nat \X Nat
    OBVIOUS
  <2>2. ~(y < x)
    BY <1>1, <2>1 DEF OpToRel
  <2> QED
    BY <2>2
<1> QED
  BY <1>2

\* The bytes of w from its k-th on follow the first m bytes of u.
Continues(u, m, w, k) == \A j \in k..Len(w) : u[m + 1 + j - k] = w[j]

\* In state st, w from its k-th byte on completes a message.
Finishes(st, w, k) ==
    \A u : \A m \in Nat :
        Shape(u, m, st) /\ Continues(u, m, w, k) => IsMessage(u, m + Len(w) - k + 1)

\* z is a sequence of n bytes, those of w.
Spells(z, n, w) == z \in Seq(Nat) /\ Len(z) = n /\ \A i \in 1..n : z[i] = w[i]

\* Two sequences joined.
LEMMA SpellsJoined ==
    ASSUME NEW x, NEW y, NEW w, NEW a \in Nat, NEW b \in Nat, NEW v,
           Spells(x, a, w), Spells(y, b, v), \A i \in 1..b : w[a + i] = v[i]
    PROVE  Spells(x \o y, a + b, w)
<1>1. /\ x \o y \in Seq(Nat) /\ Len(x \o y) = a + b
      /\ \A i \in 1..a : (x \o y)[i] = x[i]
      /\ \A i \in 1..b : (x \o y)[a + i] = y[i]
  <2>1. x \in Seq(Nat) /\ y \in Seq(Nat) /\ Len(x) = a /\ Len(y) = b
    BY DEF Spells
  <2>2. \A p, q \in Seq(Nat) :
          /\ p \o q \in Seq(Nat) /\ Len(p \o q) = Len(p) + Len(q)
          /\ \A i \in 1..Len(p) : (p \o q)[i] = p[i]
          /\ \A i \in 1..Len(q) : (p \o q)[Len(p) + i] = q[i]
    OBVIOUS
  <2> QED
    BY <2>1, <2>2, Zenon
<1>2. ASSUME NEW i \in 1..a + b PROVE (x \o y)[i] = w[i]
  <2>1. i \in 1..a \/ (i - a \in 1..b /\ i = a + (i - a))
    OBVIOUS
  <2>2. CASE i \in 1..a
    BY <1>1, <2>2, Zenon DEF Spells
  <2>3. CASE i - a \in 1..b /\ i = a + (i - a)
    <3>1. \A j \in 1..b : (x \o y)[a + j] = w[a + j]
      BY <1>1, Zenon DEF Spells
    <3> QED
      BY <2>3, <3>1, Zenon
  <2> QED
    BY <2>1, <2>2, <2>3
<1> QED
  BY <1>1, <1>2 DEF Spells

\* The shortest message, byte by byte.
LEMMA ShortMessageIs ==
    Spells(ShortMessage, 15,
       <<71, 32, 32, 72, 84, 84, 80, 47, 49, 46, 48, 13, 10, 13, 10>>)
<1> DEFINE x == <<71, 32, 32>>
           y == VersionPrefix
           z == <<49, 46, 48, 13, 10, 13, 10>>
           w == <<71, 32, 32, 72, 84, 84, 80, 47, 49, 46, 48, 13, 10, 13, 10>>
<1>1. Spells(x, 3, w)
  BY DEF Spells
<1>2. Spells(y, 5, y)
  BY DEF VersionPrefix, Spells
<1>3. Spells(z, 7, z)
  BY DEF Spells
<1>4. \A i \in 1..5 : w[3 + i] = y[i]
  BY DEF VersionPrefix
<1>5. \A i \in 1..7 : w[8 + i] = z[i]
  OBVIOUS
<1>6. 3 \in Nat /\ 5 \in Nat /\ 7 \in Nat /\ 8 \in Nat /\ 3 + 5 = 8 /\ 8 + 7 = 15
  OBVIOUS
<1>7. ShortMessage = (x \o y) \o z
  BY DEF ShortMessage
<1> HIDE DEF x, y, z, w
<1>8. Spells(x \o y, 3 + 5, w)
  BY <1>1, <1>2, <1>4, <1>6, SpellsJoined, Zenon
<1>9. Spells(x \o y, 8, w)
  BY <1>6, <1>8, Zenon
<1>10. Spells((x \o y) \o z, 8 + 7, w)
  BY <1>3, <1>5, <1>6, <1>9, SpellsJoined, Zenon
<1>11. Spells(ShortMessage, 15, w)
  BY <1>6, <1>7, <1>10, Zenon
<1> QED
  BY <1>11, Zenon DEF w

\* The rest of the shortest header, byte by byte.
LEMMA ShortHeaderIs ==
    Spells(ShortHeader, 6, <<58, 32, 13, 10, 13, 10>>)
BY DEF ShortHeader, Spells

\* If the next byte of w leads to a state that the rest of w completes, w
\* completes this one.
LEMMA FinishStep ==
    ASSUME NEW w \in Seq(Nat), NEW k \in 1..Len(w), NEW st \in States,
           NEW q \in States,
           \A h \in BOOLEAN : After(st, h, w[k]) = q, Finishes(q, w, k + 1)
    PROVE  Finishes(st, w, k)
<1> SUFFICES ASSUME NEW u, NEW m \in Nat, Shape(u, m, st), Continues(u, m, w, k)
             PROVE  IsMessage(u, m + Len(w) - k + 1)
  BY DEF Finishes
<1>1. PICK h \in BOOLEAN : h = ~IsFirst(u, 1, 13, m - 1)
  OBVIOUS
<1>2. u[m + 1] = w[k]
  BY DEF Continues
<1>3. q = After(st, h, u[m + 1])
  BY <1>2
<1>4. ShapeKept(u, m, st, q)
  BY <1>1, <1>3, ShapeStep
<1>5. q # "bad" /\ q # "good"
  BY DEF States
<1>6. Shape(u, m + 1, q) /\ m + 1 \in Nat
  BY <1>4, <1>5 DEF ShapeKept
<1>7. Continues(u, m + 1, w, k + 1)
  <2> SUFFICES ASSUME NEW j \in k + 1..Len(w)
               PROVE  u[(m + 1) + 1 + j - (k + 1)] = w[j]
    BY DEF Continues
  <2>1. j \in k..Len(w) /\ (m + 1) + 1 + j - (k + 1) = m + 1 + j - k
    OBVIOUS
  <2> QED
    BY <2>1 DEF Continues
<1>8. IsMessage(u, (m + 1) + Len(w) - (k + 1) + 1)
  BY <1>6, <1>7 DEF Finishes
<1>9. (m + 1) + Len(w) - (k + 1) + 1 = m + Len(w) - k + 1
  OBVIOUS
<1> QED
  BY <1>8, <1>9

\* The last LF completes the last state.
LEMMA FinishLast ==
    ASSUME NEW w \in Seq(Nat), Len(w) >= 1, w[Len(w)] = 10
    PROVE  Finishes("expecting_newline_3", w, Len(w))
<1> DEFINE st == "expecting_newline_3"
<1> SUFFICES ASSUME NEW u, NEW m \in Nat, Shape(u, m, st), Continues(u, m, w, Len(w))
             PROVE  IsMessage(u, m + Len(w) - Len(w) + 1)
  BY DEF Finishes
<1>1. PICK h \in BOOLEAN : h = ~IsFirst(u, 1, 13, m - 1)
  OBVIOUS
<1>2. u[m + 1] = 10
  BY DEF Continues
<1>3. "good" = After(st, h, u[m + 1]) /\ st \in States
  BY <1>2 DEF After, States
<1>4. ShapeKept(u, m, st, "good")
  BY <1>1, <1>3, ShapeStep
<1>5. IsMessage(u, m + 1)
  BY <1>4 DEF ShapeKept
<1>6. m + Len(w) - Len(w) + 1 = m + 1
  OBVIOUS
<1> QED
  BY <1>5, <1>6

\* FinishStep where the bytes of w are known.
LEMMA FinishSpelt ==
    ASSUME NEW w, NEW n \in Nat, NEW v, Spells(w, n, v)
    PROVE  \A k \in 1..n : \A st, q \in States : \A j :
             /\ j = k + 1 /\ \A h \in BOOLEAN : After(st, h, v[k]) = q
             /\ Finishes(q, w, j)
             => Finishes(st, w, k)
<1> SUFFICES ASSUME NEW k \in 1..n, NEW st \in States, NEW q \in States,
                    \A h \in BOOLEAN : After(st, h, v[k]) = q, Finishes(q, w, k + 1)
             PROVE  Finishes(st, w, k)
  BY Zenon
<1>1. w \in Seq(Nat) /\ k \in 1..Len(w) /\ w[k] = v[k]
  BY Zenon DEF Spells
<1> QED
  BY <1>1, FinishStep

\* The states of the request line, of its end and of the lines after it, and
\* where the rest of the shortest message begins that completes them.
ShortStates ==
    <<"method_start", "method", "uri", "http_version_h", "http_version_t_1",
      "http_version_t_2", "http_version_p", "http_version_slash",
      "http_version_major_start", "http_version_major", "http_version_minor_start",
      "http_version_minor", "expecting_newline_1", "header_line_start",
      "expecting_newline_3">>

\* The shortest message leads through these states.
LEMMA ShortSteps ==
    /\ \A k \in 1..14 : \A h \in BOOLEAN :
          After(ShortStates[k], h,
                <<71, 32, 32, 72, 84, 84, 80, 47, 49, 46, 48, 13, 10, 13, 10>>[k])
            = ShortStates[k + 1]
    /\ \A k \in 1..15 : ShortStates[k] \in States
<1>1. \A k \in 1..5 : \A h \in BOOLEAN :
          After(ShortStates[k], h,
                <<71, 32, 32, 72, 84, 84, 80, 47, 49, 46, 48, 13, 10, 13, 10>>[k])
            = ShortStates[k + 1]
  BY DEF ShortStates, After, TokenByte, Separators
<1>2. \A k \in 6..10 : \A h \in BOOLEAN :
          After(ShortStates[k], h,
                <<71, 32, 32, 72, 84, 84, 80, 47, 49, 46, 48, 13, 10, 13, 10>>[k])
            = ShortStates[k + 1]
  BY DEF ShortStates, After
<1>3. \A k \in 11..14 : \A h \in BOOLEAN :
          After(ShortStates[k], h,
                <<71, 32, 32, 72, 84, 84, 80, 47, 49, 46, 48, 13, 10, 13, 10>>[k])
            = ShortStates[k + 1]
  BY DEF ShortStates, After
<1>4. \A k \in 1..15 : ShortStates[k] \in States
  BY DEF ShortStates, States
<1>5. \A k \in 1..14 : k \in 1..5 \/ k \in 6..10 \/ k \in 11..14
  OBVIOUS
<1> QED
  BY <1>1, <1>2, <1>3, <1>4, <1>5, Zenon

\* A word that leads the parser along a path of states to the last LF completes
\* each of them.
LEMMA PathFinishes ==
    ASSUME NEW w, NEW n \in Nat, n >= 1, NEW v, Spells(w, n, v), v[n] = 10,
           NEW path, path[n] = "expecting_newline_3",
           \A k \in 1..n - 1 : \A h \in BOOLEAN : After(path[k], h, v[k])
              = path[k + 1],
           \A k \in 1..n : path[k] \in States
    PROVE  \A k \in 1..n : Finishes(path[k], w, k)
<1> DEFINE F(k) == Finishes(path[k], w, k)
           T == {i \in 0..n - 1 : ~F(n - i)}
<1>1. F(n)
  <2>1. w \in Seq(Nat) /\ Len(w) = n
    BY DEF Spells
  <2>2. w[n] = 10
    BY DEF Spells
  <2>3. Finishes("expecting_newline_3", w, n)
    BY <2>1, <2>2, FinishLast
  <2> QED
    BY <2>3
<1>2. ASSUME NEW k \in 1..n - 1, F(k + 1) PROVE F(k)
  <2>1. k \in 1..n /\ k + 1 \in 1..n
    OBVIOUS
  <2>2. \A kk \in 1..n : \A st, q \in States : \A j :
             /\ j = kk + 1 /\ \A h \in BOOLEAN : After(st, h, v[kk]) = q
             /\ Finishes(q, w, j)
             => Finishes(st, w, kk)
    BY FinishSpelt, Zenon
  <2> QED
    BY <1>2, <2>1, <2>2, Zenon
<1> HIDE DEF F
<1>3. T = {}
  <2> SUFFICES ASSUME T # {} PROVE FALSE
    OBVIOUS
  <2>1. T \subseteq Nat
    OBVIOUS
  <2>2. PICK i \in T : \A j \in T : i <= j
    BY <2>1, LeastNatural
  <2>3. i \in 0..n - 1 /\ ~F(n - i)
    OBVIOUS
  <2>4. i # 0
    BY <1>1, <2>3
  <2>5. i - 1 \in 0..n - 1 /\ ~(i <= i - 1) /\ n - i \in 1..n - 1
           /\ n - (i - 1) = (n - i) + 1
    BY <2>3, <2>4
  <2>6. i - 1 \notin T
    BY <2>2, <2>5
  <2>7. F(n - (i - 1))
    BY <2>5, <2>6
  <2> QED
    BY <1>2, <2>3, <2>5, <2>7
<1>4. ASSUME NEW k \in 1..n PROVE F(k)
  <2>1. n - k \in 0..n - 1 /\ n - (n - k) = k
    OBVIOUS
  <2> QED
    BY <1>3, <2>1
<1> QED
  BY <1>4 DEF F

\* The rests of the shortest message complete the states of its path.
LEMMA ShortFinishes ==
    \A k \in 1..15 : Finishes(ShortStates[k], ShortMessage, k)
<1> DEFINE v == <<71, 32, 32, 72, 84, 84, 80, 47, 49, 46, 48, 13, 10, 13, 10>>
<1>1. Spells(ShortMessage, 15, v)
  BY ShortMessageIs
<1>2. v[15] = 10 /\ ShortStates[15] = "expecting_newline_3"
  BY DEF ShortStates
<1>3. /\ \A k \in 1..14 : \A h \in BOOLEAN : After(ShortStates[k], h, v[k])
            = ShortStates[k + 1]
      /\ \A k \in 1..15 : ShortStates[k] \in States
  BY ShortSteps
<1>4. 15 \in Nat /\ 15 >= 1 /\ 15 - 1 = 14
  OBVIOUS
<1> HIDE DEF v
<1>5. \A k \in 1..15 - 1 : \A h \in BOOLEAN : After(ShortStates[k], h, v[k])
         = ShortStates[k + 1]
  BY <1>3, <1>4, Zenon
<1> QED
  BY <1>1, <1>2, <1>3, <1>4, <1>5, PathFinishes, Zenon

\* The states of a header line are completed by the end of the message.
LEMMA LineFinishes ==
    /\ Finishes("expecting_newline_2", ShortMessage, 13)
    /\ Finishes("header_value", ShortMessage, 12)
    /\ Finishes("header_lws", ShortMessage, 12)
<1> DEFINE w == ShortMessage
           v == <<71, 32, 32, 72, 84, 84, 80, 47, 49, 46, 48, 13, 10, 13, 10>>
<1>1. Spells(w, 15, v) /\ 15 \in Nat
  BY ShortMessageIs
<1>2. v[12] = 13 /\ v[13] = 10
  OBVIOUS
<1>3. \A h \in BOOLEAN :
        /\ After("expecting_newline_2", h, 10) = "header_line_start"
        /\ After("header_value", h, 13) = "expecting_newline_2"
        /\ After("header_lws", h, 13) = "expecting_newline_2"
  BY DEF After
<1>4. /\ "expecting_newline_2" \in States /\ "header_value" \in States
      /\ "header_lws" \in States /\ "header_line_start" \in States
  BY DEF States
<1>5. 12 \in 1..15 /\ 13 \in 1..15 /\ 14 \in 1..15 /\ 13 = 12 + 1 /\ 14 = 13 + 1
  OBVIOUS
<1>6. ShortStates[14] = "header_line_start"
  BY DEF ShortStates
<1>7. Finishes("header_line_start", w, 14)
  BY <1>5, <1>6, ShortFinishes
<1> HIDE DEF w, v
<1>8. \A kk \in 1..15 : \A st, q \in States : \A j :
             /\ j = kk + 1 /\ \A h \in BOOLEAN : After(st, h, v[kk]) = q
             /\ Finishes(q, w, j)
             => Finishes(st, w, kk)
  BY <1>1, FinishSpelt, Zenon
<1>9. Finishes("expecting_newline_2", w, 13)
  BY <1>2, <1>3, <1>4, <1>5, <1>7, <1>8, ZenonT(60)
<1>10. Finishes("header_value", w, 12)
  BY <1>2, <1>3, <1>4, <1>5, <1>8, <1>9, ZenonT(60)
<1>11. Finishes("header_lws", w, 12)
  BY <1>2, <1>3, <1>4, <1>5, <1>8, <1>9, ZenonT(60)
<1> QED
  BY <1>9, <1>10, <1>11 DEF w

\* So are, with the rest of a header, those of its name.
NameStates ==
    <<"header_name", "space_before_header_value", "header_value",
      "expecting_newline_2", "header_line_start", "expecting_newline_3">>

\* The rests of the shortest header complete theirs.
LEMMA NameFinishes ==
    \A k \in 1..6 : Finishes(NameStates[k], ShortHeader, k)
<1> DEFINE v == <<58, 32, 13, 10, 13, 10>>
<1>1. Spells(ShortHeader, 6, v)
  BY ShortHeaderIs
<1>2. v[6] = 10 /\ NameStates[6] = "expecting_newline_3"
  BY DEF NameStates
<1>3. /\ \A k \in 1..5 : \A h \in BOOLEAN : After(NameStates[k], h, v[k])
            = NameStates[k + 1]
      /\ \A k \in 1..6 : NameStates[k] \in States
  BY DEF NameStates, After, States
<1>4. 6 \in Nat /\ 6 >= 1 /\ 6 - 1 = 5
  OBVIOUS
<1> HIDE DEF v
<1>5. \A k \in 1..6 - 1 : \A h \in BOOLEAN : After(NameStates[k], h, v[k])
         = NameStates[k + 1]
  BY <1>3, <1>4, Zenon
<1> QED
  BY <1>1, <1>2, <1>3, <1>4, <1>5, PathFinishes, Zenon

\* Every state can be completed.
LEMMA StateFinishes ==
    ASSUME NEW st \in States
    PROVE  \E w \in {ShortMessage, ShortHeader} :
              w \in Seq(Nat) /\ \E k \in 1..Len(w) : Finishes(st, w, k)
<1>1. Spells(ShortMessage, 15,
         <<71, 32, 32, 72, 84, 84, 80, 47, 49, 46, 48, 13, 10, 13, 10>>)
  BY ShortMessageIs
<1>2. ShortMessage \in Seq(Nat) /\ Len(ShortMessage) = 15
  BY <1>1, Zenon DEF Spells
<1>3. ShortHeader \in Seq(Nat) /\ Len(ShortHeader) = 6
  BY ShortHeaderIs, Zenon DEF Spells
<1>4. CASE \E k \in 1..15 : st = ShortStates[k]
  BY <1>2, <1>4, ShortFinishes, Zenon
<1>5. CASE st \in {"expecting_newline_2", "header_value", "header_lws"}
  <2>1. 12 \in 1..15 /\ 13 \in 1..15
    OBVIOUS
  <2>2. \E k \in 1..15 : Finishes(st, ShortMessage, k)
    BY <1>5, <2>1, LineFinishes, Zenon
  <2> QED
    BY <1>2, <2>2, Zenon
<1>6. CASE st \in {"header_name", "space_before_header_value"}
  <2>1. \E k \in 1..6 : st = NameStates[k]
    BY <1>6 DEF NameStates
  <2>2. \E k \in 1..6 : Finishes(st, ShortHeader, k)
    BY <2>1, NameFinishes, Zenon
  <2> QED
    BY <1>3, <2>2, Zenon
<1>7. \/ \E k \in 1..15 : st = ShortStates[k]
      \/ st \in {"expecting_newline_2", "header_value", "header_lws"}
      \/ st \in {"header_name", "space_before_header_value"}
  BY DEF States, ShortStates
<1> QED
  BY <1>4, <1>5, <1>6, <1>7

\* The bytes of a stream are numbers.
LEMMA BytesAreNaturals ==
    ASSUME NEW s \in Seq(Byte)
    PROVE  s \in Seq(Nat)
<1>1. \A i \in 1..Len(s) : s[i] \in Byte
  OBVIOUS
<1>2. \A i \in 1..Len(s) : s[i] \in Nat
  <2>1. \A x : x \in Byte => x \in Nat
    BY DEF Byte
  <2> QED
    BY <1>1, <2>1, Zenon
<1>3. s = [i \in 1..Len(s) |-> s[i]] /\ Len(s) \in Nat
  OBVIOUS
<1>4. s \in [1..Len(s) -> Nat]
  BY <1>2, <1>3
<1> QED
  BY <1>3, <1>4

\* Bytes that leave the parser without a verdict, however they go on, are the
\* beginning of a message.
LEMMA ShapeBegins ==
    ASSUME NEW s \in Seq(Byte), NEW st \in States,
           \A u : (\A k \in 1..Len(s) : u[k] = s[k]) => Shape(u, Len(s), st)
    PROVE  IsBeginning(s)
<1>1. PICK w \in {ShortMessage, ShortHeader} :
              w \in Seq(Nat) /\ \E k \in 1..Len(w) : Finishes(st, w, k)
  BY StateFinishes
<1>2. PICK k \in 1..Len(w) : Finishes(st, w, k)
  BY <1>1
<1> DEFINE r == SubSeq(w, k, Len(w))
           m == Len(s)
           u == s \o r
<1>3. r \in Seq(Nat) /\ Len(r) = Len(w) - k + 1
         /\ \A j \in 1..Len(r) : r[j] = w[k + j - 1]
  BY <1>1
<1>4. r \in Rests
  BY <1>1 DEF Rests
<1> HIDE DEF r
<1>5. s \in Seq(Nat)
  BY BytesAreNaturals
<1>6. /\ m \in Nat
      /\ \A i \in 1..m : u[i] = s[i]
      /\ \A i \in 1..Len(r) : u[m + i] = r[i]
  BY <1>3, <1>5
<1>7. Shape(u, m, st)
  BY <1>6
<1>8. Continues(u, m, w, k)
  <2> SUFFICES ASSUME NEW j \in k..Len(w) PROVE u[m + 1 + j - k] = w[j]
    BY DEF Continues
  <2>1. /\ j - k + 1 \in 1..Len(r) /\ m + (j - k + 1) = m + 1 + j - k
        /\ k + (j - k + 1) - 1 = j
    BY <1>1, <1>3, <1>6
  <2> HIDE DEF u
  <2>2. u[m + (j - k + 1)] = r[j - k + 1] /\ r[j - k + 1] = w[k + (j - k + 1) - 1]
    BY <1>3, <1>6, <2>1
  <2> QED
    BY <2>1, <2>2
<1>9. IsMessage(u, m + Len(w) - k + 1)
  BY <1>2, <1>6, <1>7, <1>8, Zenon DEF Finishes
<1>10. m + Len(w) - k + 1 = Len(s) + Len(r)
  BY <1>1, <1>3
<1> QED
  BY <1>4, <1>9, <1>10 DEF IsBeginning
=============================================================================
