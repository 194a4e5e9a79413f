----------------------- MODULE RequestHandlerProofs -----------------------
(***************************************************************************)
(* Containment of the request handler, for every set of uris and files.    *)
(***************************************************************************)
EXTENDS RequestHandler, RequestFieldsProofs

\* The part of HandlerTypeOK that containment rests on, and the checks of
\* handle_request kept for as long as the path is used.
PathInv ==
    /\ uri \in Seq(Char)
    /\ pc \in {"decode", "open", "read", "done"}
    /\ index \in 1..(Len(uri) + 1)
    /\ path \in Seq(Char)
    /\ pc \in {"open", "read"} => acceptable(path)

\* Two hexadecimal digits, or what a lenient extraction makes of two
\* characters, give a char once the uint16_t is narrowed.
LEMMA NarrowIsChar ==
    ASSUME NEW v \in Nat
    PROVE  narrow(v) \in Char
BY DEF narrow, to_char, Char

LEMMA HexDigitRange ==
    ASSUME NEW c \in Char
    PROVE  hex_digit(c) \subseteq 0..15
BY DEF hex_digit, Char

LEMMA ExtractIsNatural ==
    ASSUME NEW a \in Char, NEW b \in Char,
           NEW v \in extract_hex(a, b)
    PROVE  v \in Nat
<1> DEFINE S1 == {16 * x + y : x \in hex_digit(a), y \in hex_digit(b)}
           S2 == {(65536 - y) % 65536 : y \in hex_digit(b)}
<1>1. hex_digit(a) \subseteq 0..15 /\ hex_digit(b) \subseteq 0..15
  BY HexDigitRange
<1>2. S1 \subseteq Nat
  <2> SUFFICES ASSUME NEW x \in hex_digit(a), NEW y \in hex_digit(b)
               PROVE  16 * x + y \in Nat
    OBVIOUS
  <2>1. x \in 0..15 /\ y \in 0..15
    BY <1>1
  <2> QED
    BY <2>1
<1>3. S2 \subseteq Nat
  <2> SUFFICES ASSUME NEW y \in hex_digit(b)
               PROVE  (65536 - y) % 65536 \in Nat
    OBVIOUS
  <2>1. y \in 0..15
    BY <1>1
  <2> QED
    BY <2>1
<1>4. hex_digit(a) \subseteq Nat /\ hex_digit(b) \subseteq Nat
  BY <1>1
<1>5. extract_hex(a, b) \in {S1, S2, hex_digit(a), hex_digit(b), {}}
  <2> HIDE DEF S1, S2
  <2>1. extract_hex(a, b) =
          IF hex_digit(a) # {} /\ hex_digit(b) # {} THEN S1
          ELSE IF a = DIGIT0 /\ b \in {88, 120} THEN {}
          ELSE IF hex_digit(a) # {} THEN hex_digit(a)
          ELSE IF a = PLUS THEN hex_digit(b)
          ELSE IF a = MINUS THEN S2
          ELSE {}
    BY DEF extract_hex, S1, S2
  <2> QED
    BY <2>1
<1> HIDE DEF S1, S2
<1> QED
  BY <1>2, <1>3, <1>4, <1>5

\* "index.html" starts with no dot, so appending it after "/" makes no "..".
LEMMA IndexKeepsAcceptable ==
    ASSUME NEW p \in Seq(Char), acceptable(p)
    PROVE  with_index(p) \in Seq(Char) /\ acceptable(with_index(p))
<1>1. CASE p[Len(p)] # SLASH
  BY <1>1 DEF with_index
<1>2. CASE p[Len(p)] = SLASH
  <2> DEFINE q == p \o INDEX_HTML
  <2>1. INDEX_HTML \in Seq(Char) /\ Len(INDEX_HTML) = 10
    BY DEF INDEX_HTML, Char
  <2>0. Len(p) \in Nat /\ Len(p) # 0
    BY DEF acceptable
  <2>2. q \in Seq(Char) /\ Len(q) = Len(p) + 10
    <3>1. \A s, t \in Seq(Char) :
             s \o t \in Seq(Char) /\ Len(s \o t) = Len(s) + Len(t)
      OBVIOUS
    <3> QED
      BY <2>1, <3>1
  <2>3. \A k \in 1..Len(p) : q[k] = p[k]
    BY <2>1
  <2>4. \A k \in 1..10 : q[Len(p) + k] = INDEX_HTML[k]
    <3>1. \A s, t \in Seq(Char) : \A k \in 1..Len(t) : (s \o t)[Len(s) + k] = t[k]
      OBVIOUS
    <3> QED
      BY <2>1, <3>1
  <2> HIDE DEF q
  <2>5. \A k \in 1..9 : ~(INDEX_HTML[k] = DOT /\ INDEX_HTML[k + 1] = DOT)
    BY SMTT(60) DEF INDEX_HTML, DOT
  <2>6. ~HasDotDot(q)
    <3> SUFFICES ASSUME NEW k \in 1..(Len(q) - 1),
                        q[k] = DOT, q[k + 1] = DOT
                 PROVE  FALSE
      BY DEF HasDotDot
    <3>1. CASE k < Len(p)
      BY <3>1, <2>0, <2>2, <2>3 DEF acceptable, HasDotDot
    <3>2. CASE k = Len(p)
      BY <3>2, <1>2, <2>0, <2>2, <2>3 DEF SLASH, DOT
    <3>3. CASE k > Len(p)
      <4>1. k - Len(p) \in 1..9
        <5>1. k \in Nat /\ k <= Len(p) + 9
          BY <2>0, <2>2
        <5> QED
          BY <3>3, <5>1, <2>0
      <4>2. q[k] = INDEX_HTML[k - Len(p)] /\ q[k + 1] = INDEX_HTML[k - Len(p) + 1]
        <5>0. k - Len(p) \in 1..10
          BY <4>1
        <5>1. q[Len(p) + (k - Len(p))] = INDEX_HTML[k - Len(p)]
          BY <5>0, <2>4
        <5>2. k - Len(p) + 1 \in 1..10
          BY <4>1
        <5>3. q[Len(p) + (k - Len(p) + 1)] = INDEX_HTML[k - Len(p) + 1]
          BY <5>2, <2>4
        <5>4. /\ Len(p) + (k - Len(p)) = k
              /\ Len(p) + (k - Len(p) + 1) = k + 1
          BY <2>0
        <5> QED
          BY <5>1, <5>3, <5>4
      <4> QED
        BY <4>1, <4>2, <2>5
    <3> QED
      BY <3>1, <3>2, <3>3, <2>0, <2>2
  <2>7. q # <<>> /\ q[1] = SLASH
    BY <2>0, <2>2, <2>3 DEF acceptable
  <2> QED
    BY <1>2, <2>2, <2>6, <2>7 DEF with_index, acceptable, q
<1> QED
  BY <1>1, <1>2

\* Cutting an acceptable path at a NUL leaves an acceptable one.
LEMMA CutKeepsAcceptable ==
    ASSUME NEW p \in Seq(Char), acceptable(p)
    PROVE  acceptable(c_str(p))
<1> DEFINE ends == {k \in 1..Len(p) : p[k] = 0}
<1>1. CASE ends = {}
  BY <1>1 DEF c_str
<1>2. CASE ends # {}
  <2> DEFINE e == CHOOSE k \in ends : \A j \in ends : k <= j
             q == SubSeq(p, 1, e - 1)
  <2>1. \E k \in ends : \A j \in ends : k <= j
    <3>1. ends \subseteq Nat
      OBVIOUS
    <3> QED
      BY <1>2, <3>1, LeastNatural
  <2>2. e \in 1..Len(p) /\ p[e] = 0
    BY <2>1
  <2> HIDE DEF e
  <2>3. p[1] = 47
    BY DEF acceptable, SLASH
  <2>a. e # 1 /\ e \in Nat /\ Len(p) \in Nat /\ e <= Len(p)
    BY <2>2, <2>3
  <2>4. q \in Seq(Char) /\ Len(q) = e - 1 /\ \A k \in 1..(e - 1) : q[k] = p[k]
    BY <2>2, <2>a
  <2> HIDE DEF q
  <2>5. acceptable(q)
    BY <2>a, <2>2, <2>3, <2>4, SMTT(60) DEF acceptable, HasDotDot
  <2> QED
    BY <1>2, <2>5 DEF c_str, e, q
<1> QED
  BY <1>1, <1>2

\* What a path may be is decided once, by CheckPath, and kept.
THEOREM PathInvariant == HandlerSpec => []PathInv
<1>1. HandlerInit => PathInv
  BY UrisAssumption DEF HandlerInit, PathInv
<1>2. PathInv /\ [HandlerNext]_handler_vars => PathInv'
  <2> SUFFICES ASSUME PathInv, [HandlerNext]_handler_vars PROVE PathInv'
    OBVIOUS
  <2>1. ASSUME BadRequest PROVE PathInv'
    BY <2>1 DEF BadRequest, PathInv
  <2>2. ASSUME NEW c \in Char, NEW w \in {1, 3}, index + w <= Len(uri) + 1,
               pc = "decode", DecodeTo(c, w)
        PROVE  PathInv'
    BY <2>2 DEF DecodeTo, PathInv
  <2>3. CASE DecodePercent
    <3>1. CASE /\ HasPair
               /\ \E value \in extract_hex(uri[index + 1], uri[index + 2]) :
                     DecodeTo(narrow(value), 3)
      <4>1. uri[index + 1] \in Char /\ uri[index + 2] \in Char
        BY <3>1 DEF HasPair, PathInv
      <4>2. PICK value \in extract_hex(uri[index + 1], uri[index + 2]) :
                DecodeTo(narrow(value), 3)
        BY <3>1
      <4>3. narrow(value) \in Char
        <5>1. value \in Nat
          BY <4>1, <4>2, ExtractIsNatural, Zenon
        <5> QED
          BY <5>1, NarrowIsChar, Zenon
      <4>4. index + 3 <= Len(uri) + 1 /\ pc = "decode"
        BY <2>3, <3>1 DEF HasPair, DecodePercent, PathInv
      <4> QED
        BY <2>2, <4>2, <4>3, <4>4
    <3>2. CASE BadRequest
      BY <2>1, <3>2
    <3> QED
      BY <2>3, <3>1, <3>2 DEF DecodePercent
  <2>4. CASE DecodePlain
    <3>0. SP \in Char
      BY DEF SP, Char
    <3>1. (IF uri[index] = PLUS THEN SP ELSE uri[index]) \in Char
      BY <2>4, <3>0 DEF DecodePlain, PathInv
    <3>2. index + 1 <= Len(uri) + 1 /\ pc = "decode"
      BY <2>4 DEF DecodePlain, PathInv
    <3> QED
      BY <2>2, <2>4, <3>1, <3>2 DEF DecodePlain
  <2>5. CASE CheckPath
    <3>1. CASE ~acceptable(path) /\ BadRequest
      BY <2>1, <3>1
    <3>2. CASE /\ acceptable(path) /\ path' = with_index(path) /\ pc' = "open"
               /\ UNCHANGED <<uri, index, rep, offset, disk>>
      BY <3>2, IndexKeepsAcceptable DEF PathInv
    <3> QED
      BY <2>5, <3>1, <3>2 DEF CheckPath
  <2>6. CASE Open
    BY <2>6 DEF Open, PathInv
  <2>7. CASE Read
    BY <2>7 DEF Read, PathInv
  <2>8. CASE Save
    BY <2>8 DEF Save, PathInv
  <2>9. CASE UNCHANGED handler_vars
    BY <2>9 DEF handler_vars, PathInv
  <2> QED
    BY <2>3, <2>4, <2>5, <2>6, <2>7, <2>8, <2>9 DEF HandlerNext, HandleRequest
<1> QED
  BY <1>1, <1>2, PTL DEF HandlerSpec

\* For every uri a client may send, the handler opens no name that leaves the
\* document root through "..".
THEOREM StaysInRoot == HandlerSpec => []Contained
<1>1. PathInv => Contained
  BY CutKeepsAcceptable DEF PathInv, Contained, acceptable
<1> QED
  BY <1>1, PathInvariant, PTL

\* Every decoded character fits a char whatever url_decode was given, its index
\* stays within the uri, and only the names that may exist are opened.
THEOREM HandlerTypeCorrect == HandlerSpec => []HandlerTypeOK
<1> DEFINE FileInv == offset \in Nat /\ DOMAIN disk \subseteq Names
<1>1. HandlerInit => FileInv
  BY DEF HandlerInit
<1>2. FileInv /\ [HandlerNext]_handler_vars => FileInv'
  <2> SUFFICES ASSUME FileInv, [HandlerNext]_handler_vars PROVE FileInv'
    OBVIOUS
  <2>1. CASE DecodePercent \/ DecodePlain \/ CheckPath \/ Open
    BY <2>1 DEF DecodePercent, DecodePlain, CheckPath, Open, DecodeTo, BadRequest
  <2>2. CASE Read
    BY <2>2, ChunkAssumption DEF Read
  <2>3. CASE Save
    BY <2>3 DEF Save
  <2>4. CASE UNCHANGED handler_vars
    BY <2>4 DEF handler_vars
  <2> QED
    BY <2>1, <2>2, <2>3, <2>4 DEF HandlerNext, HandleRequest
<1>3. PathInv /\ FileInv => HandlerTypeOK
  BY DEF PathInv, HandlerTypeOK
<1> QED
  BY <1>1, <1>2, <1>3, PathInvariant, PTL DEF HandlerSpec

----------------------------------------------------------------------------
(* url_decode undoes percent-encoding.                                     *)

LEMMA HexOfUpper ==
    ASSUME NEW n \in 0..15
    PROVE  UpperHex(n) \in Char /\ hex_digit(UpperHex(n)) = {n}
BY DEF UpperHex, hex_digit, Char, DIGIT0

LEMMA EncodedLength ==
    ASSUME NEW t \in Seq(Char)
    PROVE  Len(PercentEncoded(t)) = 3 * Len(t)
BY DEF PercentEncoded

\* The three characters that stand for character k of a text.
LEMMA EncodedTriple ==
    ASSUME NEW t \in Seq(Char), NEW k \in 1..Len(t)
    PROVE  /\ PercentEncoded(t)[3 * k - 2] = PERCENT
           /\ PercentEncoded(t)[3 * k - 1] = UpperHex((t[k] % 256) \div 16)
           /\ PercentEncoded(t)[3 * k] = UpperHex((t[k] % 256) % 16)
<1>1. Len(t) \in Nat /\ k \in Nat /\ k >= 1 /\ k <= Len(t)
  OBVIOUS
<1>2. /\ 3 * k - 2 \in 1..3 * Len(t) /\ 3 * k - 1 \in 1..3 * Len(t)
      /\ 3 * k \in 1..3 * Len(t)
  BY <1>1
<1>3. /\ (3 * k - 2 - 1) \div 3 + 1 = k /\ (3 * k - 2 - 1) % 3 = 0
      /\ (3 * k - 1 - 1) \div 3 + 1 = k /\ (3 * k - 1 - 1) % 3 = 1
      /\ (3 * k - 1) \div 3 + 1 = k /\ (3 * k - 1) % 3 = 2
  BY <1>1
<1>4. PercentEncoded(t)[3 * k - 2] = PERCENT
  BY <1>2, <1>3 DEF PercentEncoded
<1>5. PercentEncoded(t)[3 * k - 1] = UpperHex((t[k] % 256) \div 16)
  BY <1>2, <1>3 DEF PercentEncoded
<1>6. PercentEncoded(t)[3 * k] = UpperHex((t[k] % 256) % 16)
  <2>1. PICK j \in 1..3 * Len(t) : j = 3 * k
    BY <1>2
  <2>2. (j - 1) \div 3 + 1 = k /\ (j - 1) % 3 # 0 /\ (j - 1) % 3 # 1
    BY <1>3, <2>1
  <2>3. PercentEncoded(t)[j] = UpperHex((t[k] % 256) % 16)
    BY <2>2 DEF PercentEncoded
  <2> QED
    BY <2>1, <2>3
<1> QED
  BY <1>4, <1>5, <1>6

\* What url_decode makes of the two digits of a character.
LEMMA DecodedTriple ==
    ASSUME NEW c \in Char
    PROVE  \E v \in Nat :
              /\ extract_hex(UpperHex((c % 256) \div 16), UpperHex((c % 256) % 16)) = {v}
              /\ narrow(v) = c
<1> DEFINE b == c % 256
           x == b \div 16
           y == b % 16
<1>1. b \in 0..255
  BY DEF Char
<1>2. x \in 0..15 /\ y \in 0..15 /\ b = 16 * x + y
  <2> HIDE DEF b
  <2> QED
    BY <1>1
<1>3. narrow(b) = c
  <2>1. b % 256 = b
    <3> HIDE DEF b
    <3> QED
      BY <1>1
  <2>2. to_char(b) = c
    BY DEF to_char, Char
  <2> QED
    BY <2>1, <2>2 DEF narrow
<1> HIDE DEF b, x, y
<1>4. hex_digit(UpperHex(x)) = {x} /\ hex_digit(UpperHex(y)) = {y}
  BY <1>2, HexOfUpper
<1>5. extract_hex(UpperHex(x), UpperHex(y)) = {16 * x + y}
  BY <1>4 DEF extract_hex
<1>6. extract_hex(UpperHex(x), UpperHex(y)) = {b} /\ b \in Nat
  BY <1>1, <1>2, <1>5
<1> QED
  BY <1>3, <1>6 DEF x, y, b

\* After k escapes the first k characters are there; and an acceptable text is
\* never refused.
DecodedUpTo(t) ==
    \E k \in 0..Len(t) :
        /\ index = 3 * k + 1
        /\ Len(path) = k
        /\ \A j \in 1..k : path[j] = t[j]

DecodeInv ==
    \A t \in Texts :
        uri = PercentEncoded(t) =>
            /\ pc = "decode" => DecodedUpTo(t)
            /\ acceptable(t) => rep.status # 400

RepInv == rep = [status |-> rep.status, headers |-> rep.headers, content |-> rep.content]

LEMMA DecodeInvStep ==
    ASSUME PathInv, RepInv, DecodeInv, HandlerNext \/ UNCHANGED handler_vars
    PROVE  DecodeInv'
<1> SUFFICES ASSUME NEW t \in Texts, uri' = PercentEncoded(t)
             PROVE  /\ (pc = "decode" => DecodedUpTo(t))'
                    /\ acceptable(t) => rep'.status # 400
  BY DEF DecodeInv
<1>1. t \in Seq(Char) /\ Len(t) \in Nat
  BY TextsAssumption
<1>2. uri' = uri
  BY DEF HandlerNext, HandleRequest, DecodePercent, DecodePlain, CheckPath, Open, Read,
         Save, BadRequest, DecodeTo, handler_vars
<1>3. /\ pc = "decode" => DecodedUpTo(t)
      /\ acceptable(t) => rep.status # 400
  BY <1>2 DEF DecodeInv
<1>4. CASE DecodePercent \/ DecodePlain
  <2>1. pc = "decode" /\ index <= Len(uri)
    BY <1>4 DEF DecodePercent, DecodePlain
  <2>2. PICK k \in 0..Len(t) :
           index = 3 * k + 1 /\ Len(path) = k /\ \A j \in 1..k : path[j] = t[j]
    BY <1>3, <2>1 DEF DecodedUpTo
  <2>3. Len(uri) = 3 * Len(t) /\ k + 1 \in 1..Len(t)
    <3>1. Len(uri) = 3 * Len(t)
      BY <1>1, <1>2, EncodedLength
    <3> QED
      BY <1>1, <2>1, <2>2, <3>1
  <2>4. /\ uri[index] = PERCENT
        /\ uri[index + 1] = UpperHex((t[k + 1] % 256) \div 16)
        /\ uri[index + 2] = UpperHex((t[k + 1] % 256) % 16)
    <3>1. PICK n \in 1..Len(t) : n = k + 1
      BY <2>3
    <3>2. /\ 3 * n - 2 = index /\ 3 * n - 1 = index + 1 /\ 3 * n = index + 2
      BY <2>2, <3>1
    <3>3. /\ uri[3 * n - 2] = PERCENT
          /\ uri[3 * n - 1] = UpperHex((t[n] % 256) \div 16)
          /\ uri[3 * n] = UpperHex((t[n] % 256) % 16)
      <4>1. uri = PercentEncoded(t)
        BY <1>2
      <4>2. /\ PercentEncoded(t)[3 * n - 2] = PERCENT
            /\ PercentEncoded(t)[3 * n - 1] = UpperHex((t[n] % 256) \div 16)
            /\ PercentEncoded(t)[3 * n] = UpperHex((t[n] % 256) % 16)
        BY <1>1, EncodedTriple
      <4> QED
        BY <4>1, <4>2
    <3> QED
      BY <3>1, <3>2, <3>3
  <2>5. t[k + 1] \in Char
    BY <1>1, <2>3
  <2>6. PICK v \in Nat : extract_hex(uri[index + 1], uri[index + 2]) = {v} /\ narrow(v) = t[k + 1]
    BY <2>4, <2>5, DecodedTriple
  <2>7. HasPair
    BY <1>1, <2>2, <2>3 DEF HasPair
  <2>8. DecodeTo(t[k + 1], 3)
    BY <1>4, <2>4, <2>6, <2>7 DEF DecodePercent, DecodePlain
  <2>9. path' = Append(path, t[k + 1]) /\ index' = index + 3 /\ pc' = "decode" /\ rep' = rep
    BY <2>1, <2>8 DEF DecodeTo
  <2>10. path \in Seq(Char)
    BY DEF PathInv
  <2>11. /\ Len(path') = k + 1 /\ \A j \in 1..k : path'[j] = path[j]
         /\ path'[k + 1] = t[k + 1]
    BY <2>2, <2>5, <2>9, <2>10
  <2>12. \A j \in 1..(k + 1) : path'[j] = t[j]
    <3> SUFFICES ASSUME NEW j \in 1..(k + 1) PROVE path'[j] = t[j]
      OBVIOUS
    <3>1. j = k + 1 \/ j \in 1..k
      OBVIOUS
    <3> QED
      BY <2>2, <2>11, <3>1
  <2>13. k + 1 \in 0..Len(t) /\ index' = 3 * (k + 1) + 1
    BY <1>1, <2>2, <2>3, <2>9
  <2> QED
    BY <1>3, <2>9, <2>11, <2>12, <2>13 DEF DecodedUpTo
<1>5. CASE CheckPath
  <2>1. pc = "decode" /\ index > Len(uri)
    BY <1>5 DEF CheckPath
  <2>2. PICK k \in 0..Len(t) :
           index = 3 * k + 1 /\ Len(path) = k /\ \A j \in 1..k : path[j] = t[j]
    BY <1>3, <2>1 DEF DecodedUpTo
  <2>3. k = Len(t)
    <3>1. Len(uri) = 3 * Len(t)
      BY <1>1, <1>2, EncodedLength
    <3> QED
      BY <1>1, <2>1, <2>2, <3>1
  <2>4. path = t
    <3>1. path \in Seq(Char)
      BY DEF PathInv
    <3> QED
      BY <1>1, <2>2, <2>3, <3>1
  <2>5. pc' # "decode"
    BY <1>5 DEF CheckPath, BadRequest
  <2>6. acceptable(t) => rep' = rep
    BY <1>5, <2>4 DEF CheckPath
  <2> QED
    BY <1>3, <2>5, <2>6
<1>6. CASE Open
  <2>1. pc' # "decode"
    BY <1>6 DEF Open
  <2>2. rep'.status # 400
    <3>1. CASE rep' = [rep EXCEPT !.status = 200]
      BY <3>1 DEF RepInv
    <3>2. CASE rep' = stock_reply(404)
      BY <3>2 DEF stock_reply
    <3> QED
      BY <1>6, <3>1, <3>2 DEF Open
  <2> QED
    BY <2>1, <2>2
<1>7. CASE Read
  <2>1. pc' # "decode"
    BY <1>7 DEF Read
  <2>2. rep'.status = rep.status
    BY <1>7 DEF Read, RepInv
  <2> QED
    BY <1>3, <2>1, <2>2
<1>8. CASE Save \/ UNCHANGED handler_vars
  BY <1>3, <1>8 DEF Save, handler_vars, DecodedUpTo
<1> QED
  BY <1>4, <1>5, <1>6, <1>7, <1>8 DEF HandlerNext, HandleRequest

LEMMA RepInvariant == HandlerSpec => []RepInv
<1>1. HandlerInit => RepInv
  BY DEF HandlerInit, NoReply, RepInv
<1>2. RepInv /\ [HandlerNext]_handler_vars => RepInv'
  <2> SUFFICES ASSUME RepInv, [HandlerNext]_handler_vars PROVE RepInv'
    OBVIOUS
  <2>1. CASE rep' = rep
    BY <2>1 DEF RepInv
  <2>2. ASSUME NEW s, rep' = stock_reply(s) PROVE RepInv'
    BY <2>2 DEF RepInv, stock_reply
  <2>3. CASE Open
    <3>1. CASE rep' = [rep EXCEPT !.status = 200]
      BY <3>1 DEF RepInv
    <3> QED
      BY <2>2, <2>3, <3>1 DEF Open
  <2>4. CASE Read
    BY <2>4 DEF Read, RepInv
  <2>5. CASE DecodePercent \/ DecodePlain \/ CheckPath \/ Save \/ UNCHANGED handler_vars
    BY <2>1, <2>2, <2>5 DEF DecodePercent, DecodePlain, CheckPath, Save, handler_vars,
                            BadRequest, DecodeTo
  <2> QED
    BY <2>3, <2>4, <2>5 DEF HandlerNext, HandleRequest
<1> QED
  BY <1>1, <1>2, PTL DEF HandlerSpec

\* url_decode gives back every text whose percent-encoding it is given, in
\* every state of its loop, and the handler refuses such a uri only when it
\* refuses the text.
THEOREM DecodeIsInverse == HandlerSpec => []DecodeInverts
<1>1. HandlerInit => DecodeInv
  <2> SUFFICES ASSUME HandlerInit, NEW t \in Texts
               PROVE  DecodedUpTo(t) /\ rep.status # 400
    BY DEF DecodeInv
  <2>1. Len(t) \in Nat
    BY TextsAssumption
  <2>2. index = 3 * 0 + 1 /\ Len(path) = 0 /\ rep.status # 400
    BY DEF HandlerInit, NoReply
  <2> QED
    BY <2>1, <2>2 DEF DecodedUpTo
<1>2. PathInv /\ RepInv /\ DecodeInv /\ [HandlerNext]_handler_vars => DecodeInv'
  BY DecodeInvStep
<1>3. PathInv /\ DecodeInv => DecodeInverts
  <2> SUFFICES ASSUME PathInv, DecodeInv, NEW t \in Texts,
                      uri = PercentEncoded(t), pc = "decode"
               PROVE  path = SubSeq(t, 1, index \div 3)
    BY DEF DecodeInv, DecodeInverts
  <2>1. PICK k \in 0..Len(t) :
           index = 3 * k + 1 /\ Len(path) = k /\ \A j \in 1..k : path[j] = t[j]
    BY DEF DecodeInv, DecodedUpTo
  <2>2. t \in Seq(Char) /\ path \in Seq(Char) /\ Len(t) \in Nat
    BY TextsAssumption DEF PathInv
  <2>3. index \div 3 = k
    BY <2>1, <2>2
  <2>4. /\ SubSeq(t, 1, k) \in Seq(Char) /\ Len(SubSeq(t, 1, k)) = k
        /\ \A j \in 1..k : SubSeq(t, 1, k)[j] = t[j]
    BY <2>2
  <2>5. path = SubSeq(t, 1, k)
    BY <2>1, <2>2, <2>4
  <2> QED
    BY <2>3, <2>5
<1> QED
  BY <1>1, <1>2, <1>3, PathInvariant, RepInvariant, PTL DEF HandlerSpec

----------------------------------------------------------------------------
(* Content-Length.  A recursive function is there only if some function    *)
(* satisfies its equation, which is shown here from the least-number       *)
(* principle.                                                              *)

\* g is std::to_string on 0..n.
PrintsTo(n, g) ==
    g = [m \in 0..n |->
           IF m < 10 THEN <<DIGIT0 + m>>
           ELSE Append(g[m \div 10], DIGIT0 + (m % 10))]

\* What PrintsTo() says of the function to_string.
LEMMA TenthSmaller ==
    ASSUME NEW m \in Nat, m >= 10
    PROVE  m \div 10 \in Nat /\ m \div 10 < m /\ m % 10 \in 0..9
           /\ m = 10 * (m \div 10) + (m % 10)
OBVIOUS

LEMMA PrintsUnique ==
    ASSUME NEW n \in Nat, NEW k \in Nat, NEW g, NEW h,
           PrintsTo(n, g), PrintsTo(k, h), NEW m \in Nat, m <= n, m <= k
    PROVE  g[m] = h[m]
<1> DEFINE T == {i \in 0..n : i <= k /\ g[i] # h[i]}
<1> SUFFICES ASSUME T # {} PROVE FALSE
  OBVIOUS
<1>1. T \subseteq Nat
  OBVIOUS
<1>2. PICK i \in T : \A j \in T : i <= j
  BY <1>1, LeastNatural
<1>3. i \in Nat /\ i \in 0..n /\ i \in 0..k
  OBVIOUS
<1>4. /\ g[i] = IF i < 10 THEN <<DIGIT0 + i>> ELSE Append(g[i \div 10], DIGIT0 + (i % 10))
      /\ h[i] = IF i < 10 THEN <<DIGIT0 + i>> ELSE Append(h[i \div 10], DIGIT0 + (i % 10))
  BY <1>3 DEF PrintsTo
<1>5. i >= 10
  BY <1>3, <1>4
<1>6. i \div 10 \in Nat /\ i \div 10 < i
  BY <1>3, <1>5, TenthSmaller
<1>7. i \div 10 \notin T
  BY <1>2, <1>3, <1>6
<1>8. g[i \div 10] = h[i \div 10]
  BY <1>3, <1>6, <1>7
<1> QED
  BY <1>4, <1>8

LEMMA PrintsExists ==
    ASSUME NEW n \in Nat
    PROVE  \E g : PrintsTo(n, g)
<1> DEFINE T == {i \in Nat : ~ \E g : PrintsTo(i, g)}
<1> SUFFICES ASSUME T # {} PROVE FALSE
  OBVIOUS
<1>1. PICK i \in T : \A j \in T : i <= j
  BY LeastNatural
<1>2. CASE i = 0
  <2> DEFINE g == [m \in 0..0 |-> <<DIGIT0 + m>>]
  <2>1. PrintsTo(0, g)
    BY DEF PrintsTo
  <2> QED
    BY <1>2, <2>1
<1>3. CASE i # 0
  <2>1. i \in Nat /\ i - 1 \in Nat /\ i - 1 \notin T
    BY <1>1, <1>3
  <2>2. PICK h : PrintsTo(i - 1, h)
    BY <2>1
  <2> DEFINE g == [m \in 0..i |->
                     IF m < 10 THEN <<DIGIT0 + m>>
                     ELSE Append(h[m \div 10], DIGIT0 + (m % 10))]
  <2>3. \A m \in 0..i : m < i => g[m] = h[m]
    <3> SUFFICES ASSUME NEW m \in 0..i, m < i PROVE g[m] = h[m]
      OBVIOUS
    <3>1. m \in 0..(i - 1)
      BY <2>1
    <3> QED
      BY <2>2, <3>1 DEF PrintsTo
  <2>4. \A m \in 0..i : m >= 10 => g[m \div 10] = h[m \div 10]
    <3> SUFFICES ASSUME NEW m \in 0..i, m >= 10 PROVE g[m \div 10] = h[m \div 10]
      OBVIOUS
    <3>1. m \div 10 \in Nat /\ m \div 10 < m /\ m \in Nat /\ m <= i
      BY <2>1, TenthSmaller
    <3>2. m \div 10 \in 0..i /\ m \div 10 < i
      BY <2>1, <3>1
    <3> QED
      BY <2>3, <3>2
  <2>5. g = [m \in 0..i |->
               IF m < 10 THEN <<DIGIT0 + m>>
               ELSE Append(g[m \div 10], DIGIT0 + (m % 10))]
    <3>1. \A m \in 0..i :
             (IF m < 10 THEN <<DIGIT0 + m>> ELSE Append(h[m \div 10], DIGIT0 + (m % 10)))
               = (IF m < 10 THEN <<DIGIT0 + m>> ELSE Append(g[m \div 10], DIGIT0 + (m % 10)))
      <4> HIDE DEF g
      <4> SUFFICES ASSUME NEW m \in 0..i, ~(m < 10)
                   PROVE  h[m \div 10] = g[m \div 10]
        OBVIOUS
      <4>1. m \in Nat /\ m >= 10
        BY <2>1
      <4> QED
        BY <2>4, <4>1
    <3> QED
      BY <3>1, Zenon
  <2>6. PrintsTo(i, g)
    BY <2>5 DEF PrintsTo
  <2> QED
    BY <2>6
<1> QED
  BY <1>2, <1>3

LEMMA ToString ==
    \A n \in Nat :
        to_string[n] = IF n < 10 THEN <<48 + n>>
                       ELSE Append(to_string[n \div 10], 48 + (n % 10))
<1> DEFINE G(n) == CHOOSE g : PrintsTo(n, g)
           f == [n \in Nat |-> G(n)[n]]
<1>1. \A n \in Nat : PrintsTo(n, G(n))
  BY PrintsExists
<1> HIDE DEF G
<1>2. \A n \in Nat : \A m \in Nat : m <= n => G(n)[m] = f[m]
  <2> SUFFICES ASSUME NEW n \in Nat, NEW m \in Nat, m <= n
               PROVE  G(n)[m] = G(m)[m]
    OBVIOUS
  <2>1. PrintsTo(n, G(n)) /\ PrintsTo(m, G(m)) /\ m <= m
    BY <1>1
  <2> QED
    BY <2>1, PrintsUnique
<1>3. \A n \in Nat :
         f[n] = IF n < 10 THEN <<48 + n>> ELSE Append(f[n \div 10], 48 + (n % 10))
  <2> SUFFICES ASSUME NEW n \in Nat
               PROVE  f[n] = IF n < 10 THEN <<48 + n>>
                             ELSE Append(f[n \div 10], 48 + (n % 10))
    OBVIOUS
  <2>1. n \in 0..n /\ f[n] = G(n)[n]
    OBVIOUS
  <2> HIDE DEF f
  <2>2. f[n] = IF n < 10 THEN <<48 + n>>
               ELSE Append(G(n)[n \div 10], 48 + (n % 10))
    BY <1>1, <2>1 DEF PrintsTo, DIGIT0
  <2>3. CASE n >= 10
    <3>1. n \div 10 \in Nat /\ n \div 10 <= n
      BY <2>3, TenthSmaller
    <3>2. G(n)[n \div 10] = f[n \div 10]
      BY <1>2, <3>1
    <3> QED
      BY <2>2, <3>2
  <2> QED
    BY <2>2, <2>3
<1>4. f = [n \in Nat |-> IF n < 10 THEN <<48 + n>>
                         ELSE Append(f[n \div 10], 48 + (n % 10))]
  <2>1. f = [n \in Nat |-> f[n]]
    BY Zenon
  <2> HIDE DEF f
  <2> QED
    BY <1>3, <2>1, Zenon
<1> HIDE DEF f
<1>5. to_string = [n \in Nat |-> IF n < 10 THEN <<48 + n>>
                                 ELSE Append(to_string[n \div 10], 48 + (n % 10))]
  BY <1>4, Zenon DEF to_string
<1> QED
  BY <1>5, Zenon

\* A client that reads Content-Length gets the number that was printed.
LEMMA DecimalOfString ==
    ASSUME NEW n \in Nat
    PROVE  to_string[n] \in Seq(Nat) /\ Decimal(to_string[n]) = n
<1> DEFINE P(i) == /\ to_string[i] \in Seq(Nat)
                   /\ \E v : ReadsAs(to_string[i], v) /\ v[Len(to_string[i])] = i
           T == {i \in Nat : ~P(i)}
<1>1. P(n)
  <2> SUFFICES ASSUME T # {} PROVE FALSE
    OBVIOUS
  <2>1. PICK i \in T : \A j \in T : i <= j
    BY LeastNatural
  <2>2. i \in Nat /\ ~P(i)
    BY <2>1
  <2>3. CASE i < 10
    <3> DEFINE s == <<48 + i>>
               v == [k \in 0..1 |-> IF k = 0 THEN 0 ELSE i]
    <3>1. to_string[i] = s
      BY <2>2, <2>3, ToString
    <3>2. s \in Seq(Nat) /\ Len(s) = 1 /\ s[1] = 48 + i
      BY <2>2
    <3>3. v[1] = i /\ v[0] = 0
      OBVIOUS
    <3>4. \A k \in 0..1 : v[k] = IF k = 0 THEN 0 ELSE 10 * v[k - 1] + s[k] - DIGIT0
      <4>1. i = 10 * 0 + (48 + i) - 48
        BY <2>2
      <4>2. \A k \in 0..1 : k = 0 \/ k = 1
        OBVIOUS
      <4>3. 1 - 1 = 0
        OBVIOUS
      <4> HIDE DEF s, v
      <4>4. v[1] = 10 * v[1 - 1] + s[1] - DIGIT0
        BY <3>2, <3>3, <4>1, <4>3 DEF DIGIT0
      <4> QED
        BY <3>3, <4>2, <4>4
    <3>5. v = [k \in 0..1 |-> v[k]]
      OBVIOUS
    <3> HIDE DEF s, v
    <3>6. v = [k \in 0..Len(s) |-> IF k = 0 THEN 0 ELSE 10 * v[k - 1] + s[k] - DIGIT0]
      BY <3>2, <3>4, <3>5, Zenon
    <3>7. ReadsAs(s, v)
      BY <3>6 DEF ReadsAs
    <3> QED
      BY <2>2, <3>1, <3>2, <3>3, <3>7
  <2>4. CASE i >= 10
    <3> DEFINE q == i \div 10
               r == i % 10
    <3>1. q \in Nat /\ q < i /\ r \in 0..9 /\ i = 10 * q + r
      BY <2>2, <2>4, TenthSmaller
    <3>2. to_string[i] = Append(to_string[q], 48 + r)
      <4>1. ~(i < 10)
        BY <2>2, <2>4
      <4> QED
        BY <2>2, <4>1, ToString, Zenon
    <3> HIDE DEF q, r
    <3>3. P(q)
      <4>1. ~(i <= q)
        BY <2>2, <3>1
      <4>2. q \notin T
        BY <2>1, <4>1
      <4> QED
        BY <3>1, <4>2
    <3>4. PICK v : ReadsAs(to_string[q], v) /\ v[Len(to_string[q])] = q
      BY <3>3
    <3> DEFINE s == to_string[q]
               t == to_string[i]
               l == Len(s)
    <3>5. s \in Seq(Nat) /\ l \in Nat
      BY <3>3
    <3>6. 48 + r \in Nat
      BY <3>1
    <3> HIDE DEF s
    <3>7. /\ t \in Seq(Nat) /\ Len(t) = l + 1 /\ t[l + 1] = 48 + r
          /\ \A k \in 1..l : t[k] = s[k]
      BY <3>2, <3>5, <3>6 DEF s
    <3> HIDE DEF t
    <3>8. v = [k \in 0..l |-> IF k = 0 THEN 0 ELSE 10 * v[k - 1] + s[k] - DIGIT0]
          /\ v[l] = q
      BY <3>4 DEF ReadsAs, s
    <3> DEFINE w == [k \in 0..(l + 1) |-> IF k = l + 1 THEN i ELSE v[k]]
    <3>9. w[l + 1] = i /\ \A k \in 0..l : w[k] = v[k]
      BY <3>5
    <3>10. w = [k \in 0..(l + 1) |-> w[k]]
      OBVIOUS
    <3> HIDE DEF w, l
    <3>11. \A k \in 0..(l + 1) : w[k] = IF k = 0 THEN 0 ELSE 10 * w[k - 1] + t[k] - DIGIT0
      <4> SUFFICES ASSUME NEW k \in 0..(l + 1)
                   PROVE  w[k] = IF k = 0 THEN 0 ELSE 10 * w[k - 1] + t[k] - DIGIT0
        OBVIOUS
      <4>1. CASE k = l + 1
        <5>1. k # 0 /\ k - 1 = l /\ l \in 0..l
          BY <3>5, <4>1
        <5>2. w[k - 1] = q
          BY <3>8, <3>9, <5>1
        <5>3. 10 * q + (48 + r) - 48 = i
          BY <3>1
        <5> QED
          BY <3>7, <3>9, <4>1, <5>1, <5>2, <5>3 DEF DIGIT0
      <4>2. CASE k = 0
        <5>1. 0 \in 0..l
          BY <3>5
        <5> QED
          BY <3>8, <3>9, <4>2, <5>1
      <4>3. CASE k \in 1..l
        <5>1. k \in 0..l /\ k - 1 \in 0..l /\ k # 0
          BY <3>5, <4>3
        <5>2. v[k] = 10 * v[k - 1] + s[k] - DIGIT0
          BY <3>8, <5>1
        <5> QED
          BY <3>7, <3>9, <4>3, <5>1, <5>2
      <4> QED
        BY <3>5, <4>1, <4>2, <4>3
    <3>12. w = [k \in 0..Len(t) |-> IF k = 0 THEN 0 ELSE 10 * w[k - 1] + t[k] - DIGIT0]
      BY <3>7, <3>10, <3>11, Zenon
    <3>13. ReadsAs(t, w) /\ w[Len(t)] = i
      BY <3>7, <3>9, <3>12 DEF ReadsAs
    <3> QED
      BY <2>2, <3>7, <3>13 DEF t
  <2> QED
    BY <2>2, <2>3, <2>4
<1>2. PICK v : ReadsAs(to_string[n], v) /\ v[Len(to_string[n])] = n
  BY <1>1
<1> QED
  BY <1>1, <1>2, DecimalIs

LEMMA Concat ==
    ASSUME NEW S, NEW s \in Seq(S), NEW t \in Seq(S)
    PROVE  /\ s \o t \in Seq(S) /\ Len(s \o t) = Len(s) + Len(t)
           /\ \A k \in 1..Len(s) : (s \o t)[k] = s[k]
           /\ \A k \in 1..Len(t) : (s \o t)[Len(s) + k] = t[k]
OBVIOUS

\* w begins with the m elements of a and then has the n elements of b.
Joined(w, m, n, a, b) ==
    /\ \A k \in 1..m : w[k] = a[k]
    /\ \A k \in 1..n : w[m + k] = b[k]

LEMMA Join ==
    ASSUME NEW S, NEW s \in Seq(S), NEW t \in Seq(S), NEW m \in Nat, NEW n \in Nat,
           Len(s) = m, Len(t) = n
    PROVE  s \o t \in Seq(S) /\ Len(s \o t) = m + n /\ Joined(s \o t, m, n, s, t)
BY Concat DEF Joined

\* The eleven buffers of a reply with two headers, from their four parts.
Eleven(w, a, b, c, d) ==
    /\ w[1] = a[1]
    /\ w[2] = b[1] /\ w[3] = b[2] /\ w[4] = b[3] /\ w[5] = b[4]
    /\ w[6] = c[1] /\ w[7] = c[2] /\ w[8] = c[3] /\ w[9] = c[4]
    /\ w[10] = d[1] /\ w[11] = d[2]

LEMMA GluedFacts ==
    ASSUME NEW S, NEW a \in Seq(S), NEW b \in Seq(S), NEW c \in Seq(S), NEW d \in Seq(S),
           Len(a) = 1, Len(b) = 4, Len(c) = 4, Len(d) = 2
    PROVE  /\ ((a \o b) \o c) \o d \in Seq(S)
           /\ Len(((a \o b) \o c) \o d) = 11
           /\ Eleven(((a \o b) \o c) \o d, a, b, c, d)
<1>0. 1 \in Nat /\ 2 \in Nat /\ 4 \in Nat /\ 5 \in Nat /\ 9 \in Nat /\ 1 + 4 = 5 /\ 5 + 4 = 9 /\ 9 + 2 = 11
  OBVIOUS
<1>1. a \o b \in Seq(S) /\ Len(a \o b) = 1 + 4 /\ Joined(a \o b, 1, 4, a, b)
  BY <1>0, Join, Zenon
<1>2. PICK x : x = a \o b
  OBVIOUS
<1>3. x \in Seq(S) /\ Len(x) = 5 /\ Joined(x, 1, 4, a, b)
  BY <1>0, <1>1, <1>2, Zenon
<1>4. x \o c \in Seq(S) /\ Len(x \o c) = 5 + 4 /\ Joined(x \o c, 5, 4, x, c)
  BY <1>0, <1>3, Join, Zenon
<1>5. PICK y : y = x \o c
  OBVIOUS
<1>6. y \in Seq(S) /\ Len(y) = 9 /\ Joined(y, 5, 4, x, c)
  BY <1>0, <1>4, <1>5, Zenon
<1>7. y \o d \in Seq(S) /\ Len(y \o d) = 9 + 2 /\ Joined(y \o d, 9, 2, y, d)
  BY <1>0, <1>6, Join, Zenon
<1>8. PICK w : w = y \o d
  OBVIOUS
<1>9. Joined(w, 9, 2, y, d)
  BY <1>7, <1>8, Zenon
<1>10. /\ x[1] = a[1] /\ x[1 + 1] = b[1] /\ x[1 + 2] = b[2]
       /\ x[1 + 3] = b[3] /\ x[1 + 4] = b[4]
  BY <1>3 DEF Joined
<1>11. /\ y[1] = x[1] /\ y[2] = x[2] /\ y[3] = x[3] /\ y[4] = x[4] /\ y[5] = x[5]
       /\ y[5 + 1] = c[1] /\ y[5 + 2] = c[2] /\ y[5 + 3] = c[3] /\ y[5 + 4] = c[4]
  BY <1>6 DEF Joined
<1>12. /\ w[1] = y[1] /\ w[2] = y[2] /\ w[3] = y[3] /\ w[4] = y[4] /\ w[5] = y[5]
       /\ w[6] = y[6] /\ w[7] = y[7] /\ w[8] = y[8] /\ w[9] = y[9]
       /\ w[9 + 1] = d[1] /\ w[9 + 2] = d[2]
  BY <1>9 DEF Joined
<1>13. Eleven(w, a, b, c, d)
  BY <1>10, <1>11, <1>12 DEF Eleven
<1> QED
  BY <1>0, <1>2, <1>5, <1>7, <1>8, <1>13, Zenon

\* The buffers of a reply that has the two headers.
TheBuffers(w, status, length, content) ==
    /\ w[1] = to_buffer(status)
    /\ w[2] = <<"name", "Content-Length">> /\ w[3] = <<"separator">>
    /\ w[4] = <<"value", length>> /\ w[5] = <<"crlf">>
    /\ w[6] = <<"name", "Content-Type">> /\ w[7] = <<"separator">>
    /\ w[8] = <<"value", "text/html">> /\ w[9] = <<"crlf">>
    /\ w[10] = <<"crlf">> /\ w[11] = <<"content", content>>

LEMMA BuffersAre ==
    ASSUME NEW status, NEW content, NEW length, NEW r,
           r = [status |-> status,
                headers |-> << [name |-> "Content-Length", value |-> length],
                               [name |-> "Content-Type", value |-> "text/html"] >>,
                content |-> content]
    PROVE  Len(to_buffers(r)) = 11 /\ TheBuffers(to_buffers(r), status, length, content)
<1> DEFINE hs == << [name |-> "Content-Length", value |-> length],
                    [name |-> "Content-Type", value |-> "text/html"] >>
           four(h) == << <<"name", hs[h].name>>, <<"separator">>,
                         <<"value", hs[h].value>>, <<"crlf">> >>
           L == CHOOSE f : f = [h \in 0..Len(hs) |->
                                  IF h = 0 THEN <<to_buffer(status)>> ELSE f[h - 1] \o four(h)]
           a == <<to_buffer(status)>>
           b == a \o four(1)
           c == b \o four(2)
           g == [h \in 0..2 |-> IF h = 0 THEN a ELSE IF h = 1 THEN b ELSE c]
<1>1. Len(hs) = 2
  OBVIOUS
<1>2. g = [h \in 0..Len(hs) |-> IF h = 0 THEN a ELSE g[h - 1] \o four(h)]
  <2>1. g[0] = a /\ g[1] = b /\ g[2] = c
    <3> HIDE DEF a, b, c
    <3> QED
      OBVIOUS
  <2>2. g = [h \in 0..2 |-> g[h]]
    <3> HIDE DEF a, b, c
    <3> QED
      OBVIOUS
  <2>3. \A h \in 0..2 : h = 0 \/ h = 1 \/ h = 2
    OBVIOUS
  <2>4. 1 - 1 = 0 /\ 2 - 1 = 1 /\ 1 # 0 /\ 2 # 0
    OBVIOUS
  <2>5. b = a \o four(1) /\ c = b \o four(2)
    OBVIOUS
  <2> HIDE DEF g, a, b, c, four
  <2>6. g[1] = g[1 - 1] \o four(1) /\ g[2] = g[2 - 1] \o four(2)
    BY <2>1, <2>4, <2>5
  <2>7. \A h \in 0..2 : g[h] = IF h = 0 THEN a ELSE g[h - 1] \o four(h)
    BY <2>1, <2>3, <2>4, <2>6
  <2> QED
    BY <1>1, <2>2, <2>7, Zenon
<1> HIDE DEF g
<1>3. L = [h \in 0..Len(hs) |-> IF h = 0 THEN a ELSE L[h - 1] \o four(h)]
  BY <1>2, Zenon
<1>4. to_buffers([status |-> status, headers |-> hs, content |-> content])
         = L[Len(hs)] \o << <<"crlf">>, <<"content", content>> >>
  BY ZenonT(60) DEF to_buffers
<1> HIDE DEF L
<1>5. L[0] = a /\ L[1] = L[0] \o four(1) /\ L[2] = L[1] \o four(2)
  <2>1. 0 \in 0..Len(hs) /\ 1 \in 0..Len(hs) /\ 2 \in 0..Len(hs)
        /\ 1 # 0 /\ 2 # 0 /\ 1 - 1 = 0 /\ 2 - 1 = 1
    BY <1>1
  <2> HIDE DEF hs, four, a
  <2>2. L[0] = a
    BY <1>3, <2>1
  <2>3. L[1] = L[1 - 1] \o four(1)
    BY <1>3, <2>1, Zenon
  <2>4. L[2] = L[2 - 1] \o four(2)
    BY <1>3, <2>1, Zenon
  <2> QED
    BY <2>1, <2>2, <2>3, <2>4
<1>6. to_buffers(r) = ((a \o four(1)) \o four(2)) \o << <<"crlf">>, <<"content", content>> >>
  <2>1. r = [status |-> status, headers |-> hs, content |-> content]
    OBVIOUS
  <2> HIDE DEF hs, four, a
  <2> QED
    BY <1>1, <1>4, <1>5, <2>1
<1> DEFINE e1 == to_buffer(status)
           e2 == <<"name", "Content-Length">>
           e3 == <<"separator">>
           e4 == <<"value", length>>
           e5 == <<"crlf">>
           e6 == <<"name", "Content-Type">>
           e8 == <<"value", "text/html">>
           e11 == <<"content", content>>
<1>7. a = <<e1>> /\ four(1) = <<e2, e3, e4, e5>> /\ four(2) = <<e6, e3, e8, e5>>
      /\ << <<"crlf">>, <<"content", content>> >> = <<e5, e11>>
  OBVIOUS
<1> HIDE DEF e1, e2, e3, e4, e5, e6, e8, e11, a, four
<1> DEFINE S == {e1, e2, e3, e4, e5, e6, e8, e11}
           x == <<e1>>
           y == <<e2, e3, e4, e5>>
           z == <<e6, e3, e8, e5>>
           u == <<e5, e11>>
           w == ((x \o y) \o z) \o u
<1>8. x \in Seq(S) /\ y \in Seq(S) /\ z \in Seq(S) /\ u \in Seq(S)
  OBVIOUS
<1>9. Len(x) = 1 /\ Len(y) = 4 /\ Len(z) = 4 /\ Len(u) = 2
  OBVIOUS
<1>10. /\ x[1] = e1
       /\ y[1] = e2 /\ y[2] = e3 /\ y[3] = e4 /\ y[4] = e5
       /\ z[1] = e6 /\ z[2] = e3 /\ z[3] = e8 /\ z[4] = e5
       /\ u[1] = e5 /\ u[2] = e11
  OBVIOUS
<1>11. to_buffers(r) = w
  BY <1>6, <1>7, Zenon
<1> HIDE DEF S, x, y, z, u
<1>12. Len(w) = 11 /\ Eleven(w, x, y, z, u)
  BY <1>8, <1>9, GluedFacts, Zenon
<1> HIDE DEF w
<1>13. TheBuffers(w, status, length, content)
  <2>1. /\ w[1] = e1 /\ w[2] = e2 /\ w[3] = e3 /\ w[4] = e4 /\ w[5] = e5
        /\ w[6] = e6 /\ w[7] = e3 /\ w[8] = e8 /\ w[9] = e5 /\ w[10] = e5
        /\ w[11] = e11
    BY <1>10, <1>12, Zenon DEF Eleven
  <2> QED
    BY <2>1, Zenon DEF TheBuffers, e1, e2, e3, e4, e5, e6, e8, e11
<1> QED
  BY <1>11, <1>12, <1>13, Zenon

\* The content of a reply is a sequence, and a finished reply has the two
\* headers made from the content it is sent with.
ReplyInv ==
    /\ rep.content \in Seq(Nat)
    /\ pc = "done" => /\ rep.status \in {200, 400, 404}
                      /\ rep.headers = content_headers(rep.content)
    /\ pc = "read" => rep.status = 200 /\ c_str(path) \in DOMAIN disk
    /\ \A m \in DOMAIN disk : disk[m] \in Seq(Nat)
    /\ offset \in Nat

LEMMA StockReply ==
    ASSUME NEW s \in {400, 404}
    PROVE  /\ stock_reply(s).status = s /\ stock_reply(s).content \in Seq(Nat)
           /\ stock_reply(s).headers = content_headers(stock_reply(s).content)
<1>1. s \in DOMAIN PageLength /\ PageLength[s] \in Nat
  BY DEF PageLength
<1>2. reply_to_string(s) = [k \in 1..PageLength[s] |-> 0]
  BY <1>1, Zenon DEF reply_to_string
<1>3. \A n \in Nat : [k \in 1..n |-> 0] \in Seq(Nat)
  OBVIOUS
<1>4. reply_to_string(s) \in Seq(Nat)
  <2>1. [k \in 1..PageLength[s] |-> 0] \in Seq(Nat)
    BY <1>1
  <2> QED
    BY <1>2, <2>1, Zenon
<1> QED
  BY <1>4 DEF stock_reply

\* A read gets a part of a file, or nothing when the file has become shorter
\* than what has been read of it.
LEMMA PartOfFile ==
    ASSUME NEW f \in Seq(Nat), NEW o \in Nat
    PROVE  SubSeq(f, o + 1, AtMost(o + Chunk, Len(f))) \in Seq(Nat)
<1>1. Chunk \in Nat /\ Len(f) \in Nat
  BY ChunkAssumption
<1>2. PICK n \in Nat : n = AtMost(o + Chunk, Len(f)) /\ n <= Len(f)
  BY <1>1 DEF AtMost
<1>3. SubSeq(f, o + 1, n) \in Seq(Nat)
  BY <1>2
<1> QED
  BY <1>2, <1>3

LEMMA ReplyInvStep ==
    ASSUME RepInv, ReplyInv, HandlerNext \/ UNCHANGED handler_vars
    PROVE  ReplyInv'
<1>1. ASSUME BadRequest PROVE ReplyInv'
  BY <1>1, StockReply DEF BadRequest, ReplyInv
<1>2. ASSUME pc = "decode", UNCHANGED <<rep, offset, disk>>, pc' \in {"decode", "open"}
      PROVE  ReplyInv'
  BY <1>2 DEF ReplyInv
<1>3. CASE DecodePercent \/ DecodePlain \/ CheckPath
  BY <1>1, <1>2, <1>3 DEF DecodePercent, DecodePlain, CheckPath, DecodeTo
<1>4. CASE Open
  <2>1. CASE c_str(path) \in DOMAIN disk
    <3>1. rep' = [rep EXCEPT !.status = 200] /\ pc' = "read" /\ UNCHANGED <<path, disk, offset>>
      BY <1>4, <2>1 DEF Open
    <3>2. rep'.status = 200 /\ rep'.content = rep.content
      BY <3>1 DEF RepInv
    <3> QED
      BY <2>1, <3>1, <3>2 DEF ReplyInv
  <2>2. CASE c_str(path) \notin DOMAIN disk
    <3>1. rep' = stock_reply(404) /\ pc' = "done" /\ UNCHANGED <<path, disk, offset>>
      BY <1>4, <2>2 DEF Open
    <3> QED
      BY <3>1, StockReply DEF ReplyInv
  <2> QED
    BY <2>1, <2>2
<1>5. CASE Read
  <2> DEFINE file == disk[c_str(path)]
             more == SubSeq(file, offset + 1, AtMost(offset + Chunk, Len(file)))
             all == rep.content \o more
  <2>1. pc = "read" /\ UNCHANGED <<path, disk>>
    BY <1>5 DEF Read
  <2>2. file \in Seq(Nat) /\ offset \in Nat /\ rep.content \in Seq(Nat) /\ rep.status = 200
        /\ c_str(path) \in DOMAIN disk
    BY <2>1 DEF ReplyInv
  <2>3. \/ /\ rep' = [rep EXCEPT !.content = all] /\ pc' = pc /\ offset' = offset + Chunk
        \/ /\ rep' = [rep EXCEPT !.content = all, !.headers = content_headers(all)]
           /\ pc' = "done" /\ offset' = offset
    BY <1>5, Zenon DEF Read
  <2>4. more \in Seq(Nat)
    BY <2>2, PartOfFile, ZenonT(60)
  <2> HIDE DEF file, more
  <2>5. all \in Seq(Nat)
    BY <2>2, <2>4
  <2> HIDE DEF all
  <2>6. /\ rep'.content = all /\ rep'.status = 200
        /\ pc' = "done" => rep'.headers = content_headers(all)
    <3>1. CASE rep' = [rep EXCEPT !.content = all] /\ pc' = pc
      BY <2>1, <2>2, <3>1 DEF RepInv
    <3>2. CASE rep' = [rep EXCEPT !.content = all, !.headers = content_headers(all)]
      BY <2>2, <3>2 DEF RepInv
    <3> QED
      BY <2>3, <3>1, <3>2
  <2>7. offset' \in Nat /\ pc' \in {"read", "done"}
    BY <2>1, <2>2, <2>3, ChunkAssumption
  <2> QED
    BY <2>1, <2>2, <2>5, <2>6, <2>7 DEF ReplyInv
<1>6. CASE Save
  <2>1. PICK n \in Names, c \in Contents :
           disk' = [m \in DOMAIN disk \cup {n} |-> IF m = n THEN c ELSE disk[m]]
    BY <1>6 DEF Save
  <2>2. c \in Seq(Nat)
    BY ContentsAssumption
  <2>3. /\ DOMAIN disk \subseteq DOMAIN disk'
        /\ \A m \in DOMAIN disk' : disk'[m] \in Seq(Nat)
    BY <2>1, <2>2 DEF ReplyInv
  <2> QED
    BY <1>6, <2>3 DEF Save, ReplyInv
<1>7. CASE UNCHANGED handler_vars
  BY <1>7 DEF handler_vars, ReplyInv
<1> QED
  BY <1>3, <1>4, <1>5, <1>6, <1>7 DEF HandlerNext, HandleRequest

\* What a client sees the buffers of a reply to be.
Tagged(w) ==
    /\ w[1][1] = "status line" /\ w[2][1] = "name" /\ w[3][1] = "separator"
    /\ w[4][1] = "value" /\ w[5][1] = "crlf" /\ w[6][1] = "name"
    /\ w[7][1] = "separator" /\ w[8][1] = "value" /\ w[9][1] = "crlf"
    /\ w[10][1] = "crlf" /\ w[11][1] = "content"

LEMMA OneEmptyLine ==
    ASSUME NEW w, Tagged(w), NEW k \in 2..11
    PROVE  (w[k][1] = "crlf" /\ w[k - 1][1] \in {"status line", "crlf"}) <=> k = 10
<1>1. \/ k = 2 \/ k = 3 \/ k = 4 \/ k = 5 \/ k = 6 \/ k = 7 \/ k = 8 \/ k = 9
      \/ k = 10 \/ k = 11
  OBVIOUS
<1>2. 5 - 1 = 4 /\ 9 - 1 = 8 /\ 10 - 1 = 9
  OBVIOUS
<1>3. /\ "name" # "crlf" /\ "separator" # "crlf" /\ "value" # "crlf"
      /\ "content" # "crlf" /\ "value" # "status line"
  OBVIOUS
<1>4. ASSUME w[k][1] = "crlf", w[k - 1][1] = "status line" \/ w[k - 1][1] = "crlf"
      PROVE  k = 10
  BY <1>1, <1>2, <1>3, <1>4, Zenon DEF Tagged
<1>5. ASSUME k = 10
      PROVE  w[k][1] = "crlf" /\ w[k - 1][1] = "crlf"
  BY <1>2, <1>5, Zenon DEF Tagged
<1> QED
  BY <1>4, <1>5, Zenon

Legible(w, s, l, c) ==
    /\ Tagged(w) /\ w[1] = <<"status line", s>> /\ w[2] = <<"name", "Content-Length">>
    /\ w[4][2] = l /\ w[11][2] = c

LEMMA BuffersTagged ==
    ASSUME NEW w, NEW s, NEW l, NEW c, to_buffer(s) = <<"status line", s>>,
           TheBuffers(w, s, l, c)
    PROVE  Legible(w, s, l, c)
<1>1. /\ <<"status line", s>>[1] = "status line" /\ <<"name", "Content-Length">>[1] = "name"
      /\ <<"separator">>[1] = "separator" /\ <<"value", l>>[1] = "value"
      /\ <<"crlf">>[1] = "crlf" /\ <<"name", "Content-Type">>[1] = "name"
      /\ <<"value", "text/html">>[1] = "value" /\ <<"content", c>>[1] = "content"
      /\ <<"value", l>>[2] = l /\ <<"content", c>>[2] = c
  OBVIOUS
<1>2. w[1] = <<"status line", s>> /\ w[2] = <<"name", "Content-Length">>
  BY Zenon DEF TheBuffers
<1>3. w[4][2] = l /\ w[11][2] = c
  BY <1>1, Zenon DEF TheBuffers
<1>4. Tagged(w)
  BY <1>1, <1>2, Zenon DEF TheBuffers, Tagged
<1> QED
  BY <1>2, <1>3, <1>4 DEF Legible

\* A client finds the end of every reply: for every uri and every content of
\* the files, and however often they are rewritten while they are read, the
\* number in Content-Length is the length of what follows the one empty line.
THEOREM RepliesFramed == HandlerSpec => []WireFramed
<1>1. HandlerInit => ReplyInv
  <2> SUFFICES ASSUME HandlerInit PROVE ReplyInv
    OBVIOUS
  <2>1. PICK ns \in SUBSET Names : disk \in [ns -> Contents]
    BY DEF HandlerInit
  <2>2. \A m \in DOMAIN disk : disk[m] \in Seq(Nat)
    BY <2>1, ContentsAssumption
  <2> QED
    BY <2>2 DEF HandlerInit, NoReply, ReplyInv
<1>2. RepInv /\ ReplyInv /\ [HandlerNext]_handler_vars => ReplyInv'
  BY ReplyInvStep
<1>3. RepInv /\ ReplyInv => WireFramed
  <2> SUFFICES ASSUME RepInv, ReplyInv, pc = "done" PROVE WireFramed
    BY DEF WireFramed
  <2> DEFINE length == to_string[Len(rep.content)]
             wire == to_buffers(rep)
  <2>1. rep = [status |-> rep.status,
               headers |-> << [name |-> "Content-Length", value |-> length],
                              [name |-> "Content-Type", value |-> "text/html"] >>,
               content |-> rep.content]
    BY DEF RepInv, ReplyInv, content_headers
  <2>2. Decimal(length) = Len(rep.content)
    BY DecimalOfString DEF ReplyInv
  <2>3. to_buffer(rep.status) = <<"status line", rep.status>>
    BY DEF ReplyInv, to_buffer, PageLength
  <2> HIDE DEF length
  <2>4. Len(wire) = 11 /\ TheBuffers(wire, rep.status, length, rep.content)
    BY <2>1, BuffersAre, Zenon
  <2> HIDE DEF wire
  <2>5. /\ Tagged(wire) /\ wire[1] = <<"status line", rep.status>>
        /\ wire[2] = <<"name", "Content-Length">>
        /\ wire[4][2] = length /\ wire[11][2] = rep.content
    <3>1. Legible(wire, rep.status, length, rep.content)
      BY <2>3, <2>4, BuffersTagged, Zenon
    <3> QED
      BY <3>1, Zenon DEF Legible
  <2>6. PICK n \in Nat : n = Len(wire) /\ n = 11
    BY <2>4, Zenon
  <2>7. EmptyLine(wire) = {n - 1}
    <3>1. \A k \in 2..n :
             (wire[k][1] = "crlf" /\ wire[k - 1][1] \in {"status line", "crlf"}) <=> k = n - 1
      <4>1. n - 1 = 10 /\ n = 11
        BY <2>6
      <4> QED
        BY <2>5, <4>1, OneEmptyLine, Zenon
    <3>2. n - 1 \in 2..n
      BY <2>6
    <3>3. {k \in 2..n : wire[k][1] = "crlf" /\ wire[k - 1][1] \in {"status line", "crlf"}}
             = {n - 1}
      BY <3>1, <3>2, Zenon
    <3> QED
      BY <2>6, <3>3, Zenon DEF EmptyLine
  <2>8. \E k \in 2..(n - 2) :
           wire[k] = <<"name", "Content-Length">> /\ Decimal(wire[k + 2][2]) = Len(wire[n][2])
    <3>1. 2 \in 2..(n - 2) /\ 2 + 2 = 4
      BY <2>6
    <3>2. Decimal(wire[2 + 2][2]) = Len(wire[n][2])
      BY <2>2, <2>5, <2>6, <3>1, Zenon
    <3> QED
      BY <2>5, <3>1, <3>2, Zenon
  <2> QED
    BY <2>5, <2>6, <2>7, <2>8, Zenon DEF WireFramed, wire
<1> QED
  BY <1>1, <1>2, <1>3, RepInvariant, PTL DEF HandlerSpec
=============================================================================
