--------------------------- MODULE RequestGrammar ---------------------------
(***************************************************************************)
(* What a request message is, said without a state machine: the first n    *)
(* bytes of s are lines that end with CR LF, each of one of these forms.   *)
(* The parser of RequestParser is checked against it; nothing here is      *)
(* translated from consume().                                              *)
(*                                                                         *)
(*   message      = request-line *( header | fold ) empty-line             *)
(*   request-line = token SP *text SP "HTTP/" 1*digit "." 1*digit          *)
(*   header       = token ":" SP *text                                     *)
(*   fold         = 1*blank *text                                          *)
(***************************************************************************)
EXTENDS RequestParser, FiniteSets

\* The visible separators of RFC 2616: ( ) < > @ , ; : \ " / [ ] ? = { }
Separators ==
    {34, 40, 41, 44, 47, 58, 59, 60, 61, 62, 63, 64, 91, 92, 93, 123, 125}

\* The bytes from i to j are of one kind.
IsToken(s, i, j) == i <= j /\ \A k \in i..j : s[k] \in 33..126 \ Separators
IsText(s, i, j) == \A k \in i..j : s[k] \notin 0..31 \cup {127}
IsDigits(s, i, j) == i <= j /\ \A k \in i..j : s[k] \in 48..57
IsBlank(s, i, j) == \A k \in i..j : s[k] \in {32, 9}

\* The first byte b at or after i is at k.
IsFirst(s, i, b, k) == s[k] = b /\ \A j \in i..k - 1 : s[j] # b
First(s, i, n, b) == CHOOSE k \in i..n : IsFirst(s, i, b, k)

----------------------------------------------------------------------------
(* The forms of a line whose CR is at e.  The request line begins at 1 and *)
(* is cut at its spaces a and b and its dot d.                             *)

VersionPrefix == <<72, 84, 84, 80, 47>>      \* "HTTP/"

IsMethod(s, a) == IsFirst(s, 1, 32, a) /\ IsToken(s, 1, a - 1)
IsUri(s, a, b) == IsFirst(s, a + 1, 32, b) /\ IsText(s, a + 1, b - 1)
IsProtocol(s, b) == \A k \in 1..5 : s[b + k] = VersionPrefix[k]
IsMajor(s, b, d) == IsFirst(s, b + 6, 46, d) /\ IsDigits(s, b + 6, d - 1)
IsMinor(s, d, e) == IsDigits(s, d + 1, e - 1)

\* The parser, like this grammar, accepts an empty uri between the spaces.
IsRequestLine(s, e) ==
    \E a \in 1..e - 1 :
        /\ IsMethod(s, a)
        /\ \E b \in a + 1..e - 6 :
              /\ IsUri(s, a, b)
              /\ IsProtocol(s, b)
              /\ \E d \in b + 6..e - 1 : IsMajor(s, b, d) /\ IsMinor(s, d, e)

\* The lines that begin at i: a header, cut at its colon c, and a fold, whose
\* text begins at t.
IsHeader(s, i, e) ==
    \E c \in i..e - 2 :
        /\ IsFirst(s, i, 58, c) /\ IsToken(s, i, c - 1)
        /\ s[c + 1] = 32
        /\ IsText(s, c + 2, e - 1)

IsFold(s, i, e) ==
    \E t \in i + 1..e :
        /\ IsBlank(s, i, t - 1)
        /\ t < e => s[t] \notin {32, 9}
        /\ IsText(s, t, e - 1)

----------------------------------------------------------------------------
\* A line begins at i, after a CR LF; it has its CR LF at e.
IsStart(s, i) == i = 1 \/ (s[i - 2] = 13 /\ s[i - 1] = 10)
IsLine(s, i, e) == IsFirst(s, i, 13, e) /\ s[e + 1] = 10

\* A line after the request line, whose CR is at f.  A fold continues a
\* header, it is not the first of them.
IsHeaderLine(s, f, i, e) ==
    /\ IsLine(s, i, e)
    /\ IsHeader(s, i, e) \/ (i > f + 2 /\ IsFold(s, i, e))

IsMessage(s, n) ==
    \E f \in 1..n - 3 :
        /\ IsLine(s, 1, f) /\ IsRequestLine(s, f)
        /\ IsStart(s, n - 1) /\ s[n - 1] = 13 /\ s[n] = 10
        /\ \A i \in f + 2..n - 2 :
              IsStart(s, i) => \E e \in i..n - 3 : IsHeaderLine(s, f, i, e)

HasMessage(s) == \E n \in 1..Len(s) : IsMessage(s, n)

\* The length of the first message.
MessageEnd(s) ==
    CHOOSE n \in 1..Len(s) : IsMessage(s, n) /\ \A k \in 1..n - 1 : ~IsMessage(s, k)

----------------------------------------------------------------------------
(* What the fields of the request of a message are.                        *)

Chars(s, i, j) == [k \in 1..j - i + 1 |-> to_char(s[i + k - 1])]

\* The k-th smallest number of a set.
Nth(S, k) == CHOOSE i \in S : Cardinality({j \in S : j <= i}) = k

\* The first n bytes have a header line at i, the first line ending at f.
HeaderStarts(s, f, n) ==
    {i \in f + 2..n : IsStart(s, i) /\ s[i] \notin {32, 9, 13}}

\* The byte at k is of the value of the header at i: the lines between them
\* are folds, and it does not belong to the blanks one begins with.
IsValue(s, i, k) ==
    /\ s[k] \notin {13, 10}
    /\ \A j \in i + 1..k :
          IsStart(s, j) => s[j] \in {32, 9} /\ ~IsBlank(s, j, k)

\* The values are glued together without CR, LF and blanks.
HeaderAt(s, i, n) ==
    LET c == First(s, i, n, 58)
        value == {k \in c + 2..n : IsValue(s, i, k)}
    IN  [name |-> Chars(s, i, c - 1),
         value |-> [v \in 1..Cardinality(value) |-> to_char(s[Nth(value, v)])]]

FieldsOf(s, n) ==
    LET f == First(s, 1, n, 13)
        a == First(s, 1, n, 32)
        b == First(s, a + 1, n, 32)
        d == First(s, b + 6, n, 46)
        headers == HeaderStarts(s, f, n)
    IN  [method |-> Chars(s, 1, a - 1),
         uri |-> Chars(s, a + 1, b - 1),
         http_version_major |-> Decimal(Chars(s, b + 6, d - 1)) % 256,
         http_version_minor |-> Decimal(Chars(s, d + 1, f - 1)) % 256,
         headers |-> [h \in 1..Cardinality(headers) |->
                         HeaderAt(s, Nth(headers, h), n)]]

----------------------------------------------------------------------------
\* The shortest message and the rest of the shortest header with the end of
\* the message.
ShortMessage == <<71, 32, 32>> \o VersionPrefix \o <<49, 46, 48, 13, 10, 13, 10>>
ShortHeader == <<58, 32, 13, 10, 13, 10>>

Rests ==
    LET rests(w) == {SubSeq(w, k, Len(w)) : k \in 1..Len(w)}
    IN  rests(ShortMessage) \cup rests(ShortHeader)

\* s is the beginning of a message: something is missing and can be added.
IsBeginning(s) == \E w \in Rests : IsMessage(s \o w, Len(s) + Len(w))
=============================================================================
