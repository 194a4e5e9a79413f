--------------------------- MODULE RequestParser ---------------------------
(***************************************************************************)
(* The HTTP request parser of whz_request_parser: consume(), which takes   *)
(* one byte.  The loop of parse() is a step of ParseLoop and Connection.   *)
(*                                                                         *)
(* The buffer holds uint8_t bytes; consume() takes them as (signed) char.  *)
(* The parser object and the request it fills are one record: state_, req  *)
(* and the result of the last consume().                                   *)
(***************************************************************************)
EXTENDS Integers, Sequences

Byte == 0..255
Char == -128..127
UInt8 == 0..255

\* The conversion of a buffer's uint8_t to the char parameter of consume().
to_char(b) == IF b < 128 THEN b ELSE b - 256

HT == 9
LF == 10
CR == 13
SP == 32
DOT == 46
SLASH == 47
DIGIT0 == 48
COLON == 58
CAPITAL_H == 72
CAPITAL_P == 80
CAPITAL_T == 84

is_char(c) == c >= 0 /\ c <= 127

is_ctl(c) == (c >= 0 /\ c <= 31) \/ c = 127

\* ( ) < > @ , ; : \ " / [ ] ? = { } SP HT
is_tspecial(c) ==
    c \in {40, 41, 60, 62, 64, 44, 59, COLON, 92, 34, SLASH, 91, 93, 63, 61,
           123, 125, SP, HT}

is_digit(c) == c >= DIGIT0 /\ c <= DIGIT0 + 9

\* The condition that opens, negated, the branches of methods and header names.
is_token(c) == is_char(c) /\ ~is_ctl(c) /\ ~is_tspecial(c)

States ==
    {"method_start", "method", "uri", "http_version_h", "http_version_t_1",
     "http_version_t_2", "http_version_p", "http_version_slash",
     "http_version_major_start", "http_version_major",
     "http_version_minor_start", "http_version_minor", "expecting_newline_1",
     "header_line_start", "header_lws", "header_name",
     "space_before_header_value", "header_value", "expecting_newline_2",
     "expecting_newline_3"}

Results == {"good", "bad", "indeterminate"}

Header == [name : Seq(Char), value : Seq(Char)]

Request ==
    [method : Seq(Char), uri : Seq(Char), http_version_major : UInt8,
     http_version_minor : UInt8, headers : Seq(Header)]

Parser == [state_ : States, req : Request, result : Results]

\* A request as `request request_;` leaves it: strings and vector empty, the
\* two version bytes whatever the memory held (u and v).
fresh_request(u, v) ==
    [method |-> <<>>, uri |-> <<>>, http_version_major |-> u,
     http_version_minor |-> v, headers |-> <<>>]

\* request_parser::request_parser and reset().
new_parser(u, v) ==
    [state_ |-> "method_start", req |-> fresh_request(u, v),
     result |-> "indeterminate"]

----------------------------------------------------------------------------
(* consume(): one operator per group of cases of the switch.               *)

reject(p) == [p EXCEPT !.result = "bad"]

goto(p, s) == [p EXCEPT !.state_ = s]

expect(p, c, byte, s) == IF c = byte THEN goto(p, s) ELSE reject(p)

push_method(p, c) == [p EXCEPT !.req.method = Append(@, c)]
push_uri(p, c) == [p EXCEPT !.req.uri = Append(@, c)]

\* req.headers.push_back(header()) followed by back().name.push_back(c)
push_header(p, c) ==
    [p EXCEPT !.req.headers = Append(@, [name |-> <<c>>, value |-> <<>>])]

\* req.headers.back() is undefined when the vector is empty.
push_name(p, c) ==
    [p EXCEPT !.req.headers[Len(p.req.headers)].name = Append(@, c)]
push_value(p, c) ==
    [p EXCEPT !.req.headers[Len(p.req.headers)].value = Append(@, c)]

\* Mutant: the version number in a wider type.
add_digit_wide(n, c) == n * 10 + c - DIGIT0

\* uint8_t arithmetic: n * 10 + input - '0', truncated to 8 bits.
add_digit(n, c) == (n * 10 + c - DIGIT0) % 256

add_major(p, c) == [p EXCEPT !.req.http_version_major = add_digit(@, c)]
add_minor(p, c) == [p EXCEPT !.req.http_version_minor = add_digit(@, c)]

at_method_start(p, c) ==
    IF is_token(c) THEN goto(push_method(p, c), "method") ELSE reject(p)

at_method(p, c) ==
    IF c = SP THEN goto(p, "uri")
    ELSE IF is_token(c) THEN push_method(p, c) ELSE reject(p)

at_uri(p, c) ==
    IF c = SP THEN goto(p, "http_version_h")
    ELSE IF is_ctl(c) THEN reject(p) ELSE push_uri(p, c)

\* Mutant: the minor version is not cleared.
at_slash_no_reset(p, c) ==
    IF c = SLASH
    THEN goto([p EXCEPT !.req.http_version_major = 0],
              "http_version_major_start")
    ELSE reject(p)

\* The first digit of the version is read into fields that "/" has cleared.
at_slash(p, c) ==
    IF c = SLASH
    THEN goto([p EXCEPT !.req.http_version_major = 0,
                        !.req.http_version_minor = 0],
              "http_version_major_start")
    ELSE reject(p)

at_major_start(p, c) ==
    IF is_digit(c) THEN goto(add_major(p, c), "http_version_major")
    ELSE reject(p)

at_major(p, c) ==
    IF c = DOT THEN goto(p, "http_version_minor_start")
    ELSE IF is_digit(c) THEN add_major(p, c) ELSE reject(p)

at_minor_start(p, c) ==
    IF is_digit(c) THEN goto(add_minor(p, c), "http_version_minor")
    ELSE reject(p)

at_minor(p, c) ==
    IF c = CR THEN goto(p, "expecting_newline_1")
    ELSE IF is_digit(c) THEN add_minor(p, c) ELSE reject(p)

\* Mutant: a continuation line may come first.
at_header_line_start_any_fold(p, c) ==
    IF c = CR THEN goto(p, "expecting_newline_3")
    ELSE IF c \in {SP, HT} THEN goto(p, "header_lws")
    ELSE IF is_token(c) THEN goto(push_header(p, c), "header_name")
    ELSE reject(p)

at_header_line_start(p, c) ==
    IF c = CR THEN goto(p, "expecting_newline_3")
    ELSE IF p.req.headers # <<>> /\ c \in {SP, HT} THEN goto(p, "header_lws")
    ELSE IF is_token(c) THEN goto(push_header(p, c), "header_name")
    ELSE reject(p)

at_header_lws(p, c) ==
    IF c = CR THEN goto(p, "expecting_newline_2")
    ELSE IF c \in {SP, HT} THEN p
    ELSE IF is_ctl(c) THEN reject(p)
    ELSE goto(push_value(p, c), "header_value")

at_header_name(p, c) ==
    IF c = COLON THEN goto(p, "space_before_header_value")
    ELSE IF is_token(c) THEN push_name(p, c) ELSE reject(p)

\* Mutant: control characters are not tested for.
at_header_value_any(p, c) ==
    IF c = CR THEN goto(p, "expecting_newline_2") ELSE push_value(p, c)

at_header_value(p, c) ==
    IF c = CR THEN goto(p, "expecting_newline_2")
    ELSE IF is_ctl(c) THEN reject(p) ELSE push_value(p, c)

\* Mutant: the byte after the last CR is not looked at.
at_newline_3_any(p, c) == [p EXCEPT !.result = "good"]

at_newline_3(p, c) ==
    IF c = LF THEN [p EXCEPT !.result = "good"] ELSE reject(p)

consume(p, c) ==
    CASE p.state_ = "method_start" -> at_method_start(p, c)
      [] p.state_ = "method" -> at_method(p, c)
      [] p.state_ = "uri" -> at_uri(p, c)
      [] p.state_ = "http_version_h" -> expect(p, c, CAPITAL_H, "http_version_t_1")
      [] p.state_ = "http_version_t_1" -> expect(p, c, CAPITAL_T, "http_version_t_2")
      [] p.state_ = "http_version_t_2" -> expect(p, c, CAPITAL_T, "http_version_p")
      [] p.state_ = "http_version_p" -> expect(p, c, CAPITAL_P, "http_version_slash")
      [] p.state_ = "http_version_slash" -> at_slash(p, c)
      [] p.state_ = "http_version_major_start" -> at_major_start(p, c)
      [] p.state_ = "http_version_major" -> at_major(p, c)
      [] p.state_ = "http_version_minor_start" -> at_minor_start(p, c)
      [] p.state_ = "http_version_minor" -> at_minor(p, c)
      [] p.state_ = "expecting_newline_1" -> expect(p, c, LF, "header_line_start")
      [] p.state_ = "header_line_start" -> at_header_line_start(p, c)
      [] p.state_ = "header_lws" -> at_header_lws(p, c)
      [] p.state_ = "header_name" -> at_header_name(p, c)
      [] p.state_ = "space_before_header_value" -> expect(p, c, SP, "header_value")
      [] p.state_ = "header_value" -> at_header_value(p, c)
      [] p.state_ = "expecting_newline_2" -> expect(p, c, LF, "header_line_start")
      [] p.state_ = "expecting_newline_3" -> at_newline_3(p, c)

----------------------------------------------------------------------------
(* What can be said of a parser and its request, whoever feeds it.        *)

\* The states in which consume() evaluates req.headers.back().
UsesBack == {"header_lws", "header_name", "header_value"}

\* Only token characters, or no control characters.
AllTokens(s) == \A i \in DOMAIN s : is_token(s[i])
NoControls(s) == \A i \in DOMAIN s : ~is_ctl(s[i])

IsCleanHeader(h) == h.name # <<>> /\ AllTokens(h.name) /\ NoControls(h.value)

IsClean(req) ==
    /\ AllTokens(req.method)
    /\ NoControls(req.uri)
    /\ \A i \in DOMAIN req.headers : IsCleanHeader(req.headers[i])

\* The number that a row of decimal digits stands for.
Decimal(digits) ==
    LET value[k \in 0..Len(digits)] ==
            IF k = 0 THEN 0 ELSE 10 * value[k - 1] + digits[k] - DIGIT0
    IN  value[Len(digits)]
=============================================================================
