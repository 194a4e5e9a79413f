------------------------ MODULE RequestFieldsProofs -------------------------
(***************************************************************************)
(* That the request consume() collects is the one the grammar reads in the *)
(* message: the method, the uri, the version bytes and the headers, with the *)
(* folds glued to their values.                                            *)
(***************************************************************************)
EXTENDS RequestParserProofs, FiniteSetTheorems

----------------------------------------------------------------------------
(* The k-th smallest number of a set.                                      *)

----------------------------------------------------------------------------
(* Numbers in increasing order.                                            *)

\* i is the k-th smallest number of S.
IsNth(S, k, i) == i \in S /\ Cardinality({j \in S : j <= i}) = k

\* The sets that are counted are finite.
LEMMA RankFacts ==
    ASSUME NEW m \in Nat, NEW S \in SUBSET (1..m)
    PROVE  /\ IsFiniteSet(S) /\ Cardinality(S) \in Nat
           /\ \A i : IsFiniteSet({j \in S : j <= i})
<1>1. IsFiniteSet(1..m)
  BY FS_Interval
<1>2. IsFiniteSet(S)
  BY <1>1, FS_Subset
<1>3. \A i : {j \in S : j <= i} \in SUBSET S
  OBVIOUS
<1> QED
  BY <1>2, <1>3, FS_Subset, FS_CardinalityType

\* Two elements of a set have different ranks in it.
LEMMA RankUnique ==
    ASSUME NEW m \in Nat, NEW S \in SUBSET (1..m), NEW k,
           NEW i, NEW j, IsNth(S, k, i), IsNth(S, k, j)
    PROVE  i = j
<1> DEFINE B(x) == {y \in S : y <= x}
<1>1. i \in Nat /\ j \in Nat /\ i \in B(i) /\ j \in B(j)
  BY DEF IsNth
<1>2. Cardinality(B(i)) = Cardinality(B(j))
  BY DEF IsNth
<1>3. IsFiniteSet(B(i)) /\ IsFiniteSet(B(j))
  BY RankFacts
<1>0. \A y \in S : y \in Nat
  OBVIOUS
<1>4. CASE i <= j
  <2>1. \A y \in S : y <= i => y <= j
    BY <1>0, <1>1, <1>4
  <2>2. B(i) \in SUBSET B(j)
    BY <2>1
  <2>3. B(i) = B(j)
    BY <1>2, <1>3, <2>2, FS_Subset
  <2> QED
    BY <1>1, <1>4, <2>3
<1>5. CASE j <= i
  <2>1. \A y \in S : y <= j => y <= i
    BY <1>0, <1>1, <1>5
  <2>2. B(j) \in SUBSET B(i)
    BY <2>1
  <2>3. B(i) = B(j)
    BY <1>2, <1>3, <2>2, FS_Subset
  <2> QED
    BY <1>1, <1>5, <2>3
<1> QED
  BY <1>1, <1>4, <1>5

\* So Nth chooses the one number of that rank.
LEMMA NthIs ==
    ASSUME NEW m \in Nat, NEW S \in SUBSET (1..m), NEW k, NEW i, IsNth(S, k, i)
    PROVE  Nth(S, k) = i
<1>1. IsNth(S, k, Nth(S, k))
  BY DEF IsNth, Nth
<1> QED
  BY <1>1, RankUnique

\* A new largest number comes last and moves no other.
LEMMA RankAdd ==
    ASSUME NEW m \in Nat, NEW S \in SUBSET (1..m), NEW n \in Nat, n > m
    PROVE  /\ Cardinality(S \cup {n}) = Cardinality(S) + 1
           /\ IsNth(S \cup {n}, Cardinality(S) + 1, n)
           /\ \A k, i : IsNth(S, k, i) => IsNth(S \cup {n}, k, i)
<1>1. Cardinality(S \cup {n}) = Cardinality(S) + 1
  <2>1. n \notin S
    OBVIOUS
  <2> QED
    BY <2>1, RankFacts, FS_AddElement
<1>2. {j \in S \cup {n} : j <= n} = S \cup {n}
  <2>1. \A j \in S \cup {n} : j <= n
    OBVIOUS
  <2> QED
    BY <2>1
<1>3. \A i \in S : {j \in S \cup {n} : j <= i} = {j \in S : j <= i}
  <2>1. \A i \in S : ~(n <= i)
    OBVIOUS
  <2> QED
    BY <2>1
<1> QED
  BY <1>1, <1>2, <1>3 DEF IsNth

\* Every number up to the size of a set is the rank of an element.
LEMMA RankExists ==
    ASSUME NEW m \in Nat, NEW S \in SUBSET (1..m), NEW k \in 1..Cardinality(S)
    PROVE  \E i : IsNth(S, k, i)
<1> DEFINE Ranked(X) == \A h \in 1..Cardinality(X) : \E i : IsNth(X, h, i)
           T == {x \in Nat : \E X \in SUBSET (1..x) : ~Ranked(X)}
<1>1. SUFFICES ASSUME T # {} PROVE FALSE
  BY Zenon
<1>2. PICK x \in T : \A y \in T : x <= y
  BY <1>1, LeastNatural
<1>3. PICK X \in SUBSET (1..x) : ~Ranked(X)
  BY <1>2
<1>4. x \in Nat
  BY <1>2
<1>5. x # 0
  <2> SUFFICES ASSUME x = 0 PROVE FALSE
    OBVIOUS
  <2>1. X = {}
    BY <1>3
  <2>2. Cardinality(X) = 0
    BY <2>1, FS_EmptySet
  <2> QED
    BY <1>3, <2>2
<1>6. \A Y \in SUBSET (1..x - 1) : Ranked(Y)
  <2>1. x - 1 \in Nat /\ ~(x <= x - 1)
    BY <1>4, <1>5
  <2>2. x - 1 \notin T
    BY <1>2, <2>1
  <2> QED
    BY <2>1, <2>2
<1> DEFINE Y == X \ {x}
<1>7. Y \in SUBSET (1..x - 1)
  BY <1>3, <1>4
<1>8. CASE x \notin X
  <2>1. X \in SUBSET (1..x - 1)
    BY <1>3, <1>4, <1>8
  <2> QED
    BY <1>3, <1>6, <2>1
<1>9. CASE x \in X
  <2>1. X = Y \cup {x}
    BY <1>9
  <2>2. x - 1 \in Nat /\ x > x - 1 /\ Ranked(Y)
    BY <1>4, <1>5, <1>6, <1>7
  <2>3. /\ Cardinality(Y \cup {x}) = Cardinality(Y) + 1
        /\ IsNth(Y \cup {x}, Cardinality(Y) + 1, x)
        /\ \A h, i : IsNth(Y, h, i) => IsNth(Y \cup {x}, h, i)
    BY <1>4, <1>7, <2>2, RankAdd, Zenon
  <2>4. Cardinality(Y) \in Nat
    BY <1>7, <2>2, RankFacts
  <2> HIDE DEF Y
  <2>5. ASSUME NEW h \in 1..Cardinality(X) PROVE \E i : IsNth(X, h, i)
    <3>1. h \in 1..Cardinality(Y) \/ h = Cardinality(Y) + 1
      BY <2>1, <2>3, <2>4
    <3> QED
      BY <2>1, <2>2, <2>3, <3>1, Zenon
  <2> QED
    BY <1>3, <2>5
<1> QED
  BY <1>8, <1>9

\* Nth is defined for every rank up to the size of the set.
LEMMA NthFacts ==
    ASSUME NEW m \in Nat, NEW S \in SUBSET (1..m), NEW k \in 1..Cardinality(S)
    PROVE  Nth(S, k) \in S /\ IsNth(S, k, Nth(S, k))
<1>1. PICK i : IsNth(S, k, i)
  BY RankExists
<1>2. Nth(S, k) = i
  BY <1>1, NthIs
<1> QED
  BY <1>1, <1>2 DEF IsNth

\* What RankAdd says of Nth.
LEMMA NthAdd ==
    ASSUME NEW m \in Nat, NEW S \in SUBSET (1..m), NEW n \in Nat, n > m
    PROVE  /\ Cardinality(S \cup {n}) = Cardinality(S) + 1
           /\ Cardinality(S) \in Nat
           /\ \A k \in 1..Cardinality(S) : Nth(S \cup {n}, k) = Nth(S, k)
           /\ Nth(S \cup {n}, Cardinality(S) + 1) = n
<1> DEFINE R == S \cup {n}
<1>1. R \in SUBSET (1..n)
  OBVIOUS
<1>2. /\ Cardinality(R) = Cardinality(S) + 1
      /\ IsNth(R, Cardinality(S) + 1, n)
      /\ \A k, i : IsNth(S, k, i) => IsNth(R, k, i)
  BY RankAdd, Zenon
<1> HIDE DEF R
<1>3. \A k, i : IsNth(R, k, i) => Nth(R, k) = i
  BY <1>1, NthIs, Zenon
<1>4. \A k \in 1..Cardinality(S) : IsNth(S, k, Nth(S, k))
  BY NthFacts, Zenon
<1>5. Cardinality(S) \in Nat
  BY RankFacts, Zenon
<1> QED
  BY <1>2, <1>3, <1>4, <1>5, Zenon DEF R

\* The largest number comes last, the others before.
LEMMA NthLast ==
    ASSUME NEW m \in Nat, NEW S \in SUBSET (1..m), NEW i \in S,
           \A j \in S : j <= i
    PROVE  /\ Cardinality(S) \in Nat \ {0}
           /\ Nth(S, Cardinality(S)) = i
           /\ \A k \in 1..Cardinality(S) - 1 : Nth(S, k) \in S /\ Nth(S, k) # i
<1>1. Cardinality(S) \in Nat /\ IsFiniteSet(S)
  BY RankFacts, Zenon
<1>2. Cardinality(S) # 0
  BY <1>1, FS_EmptySet
<1>3. {j \in S : j <= i} = S
  OBVIOUS
<1>4. IsNth(S, Cardinality(S), i)
  BY <1>3 DEF IsNth
<1>5. Nth(S, Cardinality(S)) = i
  BY <1>4, NthIs
<1>6. ASSUME NEW k \in 1..Cardinality(S) - 1 PROVE Nth(S, k) \in S /\ Nth(S, k) # i
  <2>1. k \in 1..Cardinality(S) /\ k # Cardinality(S)
    BY <1>1
  <2>2. Nth(S, k) \in S /\ IsNth(S, k, Nth(S, k))
    BY <2>1, NthFacts
  <2>3. Nth(S, k) = i => k = Cardinality(S)
    BY <1>3, <2>2 DEF IsNth
  <2> QED
    BY <2>1, <2>2, <2>3
<1> QED
  BY <1>1, <1>2, <1>5, <1>6

----------------------------------------------------------------------------
(* The numbers of the version.                                             *)

\* v[k] is the number that the first k digits spell.
ReadsAs(digits, v) ==
    v = [k \in 0..Len(digits) |->
           IF k = 0 THEN 0 ELSE 10 * v[k - 1] + digits[k] - DIGIT0]

\* x is what a row of digits leaves in a version field.
Counts(digits, x) ==
    \E v \in [0..Len(digits) -> Nat] :
        ReadsAs(digits, v) /\ x = v[Len(digits)] % 256

\* The wrap of a version byte can be taken after each digit or at the end.
LEMMA DigitWraps ==
    ASSUME NEW n \in Nat, NEW e \in 0..9
    PROVE  (10 * (n % 256) + e) % 256 = (10 * n + e) % 256
<1> DEFINE q == n \div 256
           r == n % 256
<1>1. q \in Int /\ r \in Int /\ n = 256 * q + r
  OBVIOUS
<1> HIDE DEF q, r
<1>2. \A k, y \in Int : (256 * k + y) % 256 = y % 256
  OBVIOUS
<1>3. 10 * n + e = 256 * (10 * q) + (10 * r + e)
  BY <1>1
<1>4. 10 * q \in Int /\ 10 * r + e \in Int
  BY <1>1
<1>5. (10 * r + e) % 256 = (10 * n + e) % 256
  BY <1>2, <1>3, <1>4
<1> QED
  BY <1>5 DEF r

\* A version field begins at 0.
LEMMA CountsNothing == Counts(<<>>, 0)
<1> DEFINE v == [k \in 0..0 |-> 0]
<1>1. v \in [0..0 -> Nat] /\ v[0] = 0 /\ 0 % 256 = 0
  OBVIOUS
<1>2. v = [k \in 0..0 |-> IF k = 0 THEN 0 ELSE 10 * v[k - 1] + (<<>>)[k] - DIGIT0]
  OBVIOUS
<1> HIDE DEF v
<1>3. Len(<<>>) = 0
  OBVIOUS
<1> QED
  BY <1>1, <1>2, <1>3 DEF Counts, ReadsAs

\* Another digit is added to the number.
LEMMA CountsDigit ==
    ASSUME NEW ds \in Seq(Int), NEW x, Counts(ds, x), NEW c \in 48..57
    PROVE  Counts(Append(ds, c), add_digit(x, c))
<1> DEFINE n == Len(ds)
           t == Append(ds, c)
<1>1. n \in Nat /\ Len(t) = n + 1 /\ t[n + 1] = c /\ \A k \in 1..n : t[k] = ds[k]
  OBVIOUS
<1>2. PICK v \in [0..n -> Nat] : ReadsAs(ds, v) /\ x = v[n] % 256
  BY DEF Counts
<1> HIDE DEF n, t
<1>3. \A k \in 0..n : v[k] = IF k = 0 THEN 0 ELSE 10 * v[k - 1] + ds[k] - 48
  <2>1. v = [k \in 0..n |-> IF k = 0 THEN 0 ELSE 10 * v[k - 1] + ds[k] - 48]
    BY <1>2 DEF ReadsAs, DIGIT0, n
  <2> QED
    BY <2>1
<1> DEFINE w == [k \in 0..n + 1 |-> IF k <= n THEN v[k] ELSE 10 * v[n] + c - 48]
<1>4. v[n] \in Nat
  BY <1>1
<1>5. w \in [0..n + 1 -> Nat] /\ w[n + 1] = 10 * v[n] + c - 48
        /\ \A k \in 0..n : w[k] = v[k]
  BY <1>1, <1>4
<1>6. ASSUME NEW k \in 0..n + 1
      PROVE  w[k] = IF k = 0 THEN 0 ELSE 10 * w[k - 1] + t[k] - 48
  <2>1. CASE k <= n
    <3>1. w[k] = v[k] /\ k \in 0..n
      BY <1>1, <1>5, <2>1
    <3>2. k # 0 => w[k - 1] = v[k - 1] /\ t[k] = ds[k]
      BY <1>1, <1>5, <2>1
    <3> QED
      BY <1>3, <3>1, <3>2
  <2>2. CASE k = n + 1
    BY <1>1, <1>5, <2>2
  <2> QED
    BY <1>1, <2>1, <2>2
<1>7. w = [k \in 0..n + 1 |-> IF k = 0 THEN 0 ELSE 10 * w[k - 1] + t[k] - 48]
  <2>1. w = [k \in 0..n + 1 |-> w[k]]
    OBVIOUS
  <2> HIDE DEF w
  <2> QED
    BY <1>6, <2>1
<1>8. add_digit(x, c) = w[n + 1] % 256
  <2>1. c - 48 \in 0..9
    OBVIOUS
  <2>2. add_digit(x, c) = (10 * (v[n] % 256) + (c - 48)) % 256
    BY <1>2, <1>4 DEF add_digit, DIGIT0
  <2>3. w[n + 1] = 10 * v[n] + (c - 48)
    BY <1>4, <1>5
  <2> HIDE DEF w
  <2>5. PICK y \in Nat, e \in 0..9 : y = v[n] /\ e = c - 48
    BY <1>4, <2>1
  <2>6. (10 * (y % 256) + e) % 256 = (10 * y + e) % 256
    BY DigitWraps
  <2> QED
    BY <2>2, <2>3, <2>5, <2>6, Zenon
<1> HIDE DEF w
<1>9. ReadsAs(t, w)
  BY <1>1, <1>7, Zenon DEF ReadsAs, DIGIT0
<1> QED
  BY <1>1, <1>5, <1>8, <1>9 DEF Counts, t

\* The chars of a longer stretch, and of none.
LEMMA CharsGrow ==
    ASSUME NEW s, NEW i \in Nat, NEW m \in Nat, i <= m + 1
    PROVE  /\ Chars(s, i, m + 1) = Append(Chars(s, i, m), to_char(s[m + 1]))
           /\ Chars(s, i, i - 1) = <<>>
<1> DEFINE n == m - i + 1
           x == Chars(s, i, m)
           y == Chars(s, i, m + 1)
           z == Append(x, to_char(s[m + 1]))
<1>1. n \in Nat /\ m + 1 - i + 1 = n + 1 /\ i + (n + 1) - 1 = m + 1
  OBVIOUS
<1>2. x = [k \in 1..n |-> to_char(s[i + k - 1])]
  BY DEF Chars
<1>3. y = [k \in 1..n + 1 |-> to_char(s[i + k - 1])]
  BY <1>1 DEF Chars
<1> HIDE DEF n, x, y
<1>4. Len(x) = n /\ DOMAIN x = 1..n /\ x \in Seq({x[k] : k \in 1..n})
  <2>1. DOMAIN x = 1..n
    BY <1>2
  <2>2. x \in [1..n -> {x[k] : k \in 1..n}]
    BY <1>2
  <2>3. \A S : \A w \in [1..n -> S] : w \in Seq(S) /\ Len(w) = n
    BY <1>1
  <2> QED
    BY <2>1, <2>2, <2>3, Zenon
<1>5. z = [k \in 1..n + 1 |-> IF k <= n THEN x[k] ELSE to_char(s[m + 1])]
  BY <1>1, <1>4
<1>6. \A k \in 1..n + 1 : (IF k <= n THEN x[k] ELSE to_char(s[m + 1]))
         = to_char(s[i + k - 1])
  BY <1>1, <1>2
<1>7. y = z
  BY <1>3, <1>5, <1>6
<1>8. Chars(s, i, i - 1) = <<>>
  BY DEF Chars
<1> QED
  BY <1>7, <1>8 DEF x, y

----------------------------------------------------------------------------
(* The fields of the request line.                                         *)

\* The states by the field that they write.
MethodStates == {"method_start", "method"}
UriStates == MethodStates \cup {"uri"}
PrefixStates ==
    UriStates \cup {"http_version_h", "http_version_t_1", "http_version_t_2",
                    "http_version_p", "http_version_slash"}
MajorStates == {"http_version_major_start", "http_version_major"}
MinorStates == {"http_version_minor_start", "http_version_minor"}

\* What a byte does to each field but the headers.
LEMMA FieldsAfter ==
    ASSUME NEW st \in States, NEW r \in Request, NEW b, NEW t, t = ReqAfter(st, r, b)
    PROVE  /\ t.method = IF st = "method_start" \/ (st = "method" /\ b # 32)
                         THEN Append(r.method, to_char(b)) ELSE r.method
           /\ t.uri = IF st = "uri" /\ b # 32 THEN Append(r.uri, to_char(b))
                 ELSE r.uri
           /\ t.http_version_major =
                IF st = "http_version_slash" THEN 0
                ELSE IF st = "http_version_major_start"
                   \/ (st = "http_version_major" /\ b # 46)
                     THEN add_digit(r.http_version_major, to_char(b))
                     ELSE r.http_version_major
           /\ t.http_version_minor =
                IF st = "http_version_slash" THEN 0
                ELSE IF st = "http_version_minor_start"
                   \/ (st = "http_version_minor" /\ b # 13)
                     THEN add_digit(r.http_version_minor, to_char(b))
                     ELSE r.http_version_minor
BY DEF ReqAfter, Request, States

\* The states do not go back.
LEMMA AfterForward ==
    ASSUME NEW st \in States, NEW h \in BOOLEAN, NEW b, NEW q, q = After(st, h, b),
           q # "bad", q # "good"
    PROVE  /\ q \in MethodStates
                 <=> (st = "method_start" \/ (st = "method" /\ b # 32))
           /\ q = "uri" <=> (st = "method" /\ b = 32) \/ (st = "uri" /\ b # 32)
           /\ q \in UriStates => st \in UriStates
           /\ q \in MajorStates <=> st = "http_version_slash"
                 \/ st = "http_version_major_start"
                    \/ (st = "http_version_major" /\ b # 46)
           /\ q \in MinorStates <=> (st = "http_version_major" /\ b = 46)
                 \/ st = "http_version_minor_start"
                    \/ (st = "http_version_minor" /\ b # 13)
           /\ q = "expecting_newline_1" <=> st = "http_version_minor" /\ b = 13
           /\ q \in PrefixStates => st \in PrefixStates
           /\ q # "method_start"
           /\ q \in States
<1> USE DEF MethodStates, UriStates, PrefixStates, MajorStates, MinorStates
<1>1. CASE st \in {"method_start", "method", "uri"}
  BY <1>1, ZenonT(60) DEF After, States
<1>2. CASE st \in {"http_version_h", "http_version_t_1", "http_version_t_2",
              "http_version_p", "http_version_slash"}
  BY <1>2, ZenonT(60) DEF After, States
<1>3. CASE st \in {"http_version_major_start", "http_version_major",
              "http_version_minor_start", "http_version_minor"}
  BY <1>3, ZenonT(60) DEF After, States
<1>4. CASE st \in {"expecting_newline_1", "expecting_newline_2",
              "expecting_newline_3", "header_line_start"}
  BY <1>4, ZenonT(60) DEF After, States
<1>5. CASE st \in {"header_lws", "header_name", "space_before_header_value",
              "header_value"}
  BY <1>5, ZenonT(60) DEF After, States
<1> QED
  BY <1>1, <1>2, <1>3, <1>4, <1>5 DEF States

\* The chars of bytes are chars.
LEMMA CharsType ==
    ASSUME NEW s, NEW i \in Nat \ {0}, NEW m \in Nat, \A k \in 1..m : s[k] \in Byte
    PROVE  Chars(s, i, m) \in Seq(Char) /\ Chars(s, i, m) \in Seq(Int)
<1>1. \A k \in 1..m - i + 1 : to_char(s[i + k - 1]) \in Char
  BY ByteIsChar
<1>2. Chars(s, i, m) \in Seq(Char)
  BY <1>1 DEF Chars
<1>3. \A k \in 1..m - i + 1 : to_char(s[i + k - 1]) \in Int
  BY <1>1 DEF Char
<1>4. Chars(s, i, m) \in Seq(Int)
  BY <1>3 DEF Chars
<1> QED
  BY <1>2, <1>4

\* What each field of the request holds in each state: the chars between the
\* cuts that have been passed.
MethodField(s, m, st, x) ==
    /\ st \in MethodStates => x = Chars(s, 1, m)
    /\ st \notin MethodStates => \E a \in 1..m : IsMethod(s, a)
          /\ x = Chars(s, 1, a - 1)

\* The uri.
UriField(s, m, st, x) ==
    /\ st \in MethodStates => x = <<>>
    /\ st = "uri" => \E a \in 1..m : IsMethod(s, a) /\ x = Chars(s, a + 1, m)
    /\ st \notin UriStates =>
          \E a, b \in 1..m : UpToUri(s, a, b) /\ x = Chars(s, a + 1, b - 1)

\* The major version.
MajorField(s, m, st, x) ==
    /\ st \in MajorStates =>
          \E a, b \in 1..m :
             b + 5 <= m /\ UpToSlash(s, a, b) /\ Counts(Chars(s, b + 6, m), x)
    /\ st \notin PrefixStates \cup MajorStates =>
          \E a, b, d \in 1..m :
             b + 6 <= d /\ UpToDot(s, a, b, d) /\ Counts(Chars(s, b + 6, d - 1), x)

\* The minor version.
MinorField(s, m, st, x) ==
    /\ st \in MajorStates => x = 0
    /\ st \in MinorStates =>
          \E a, b, d \in 1..m :
             b + 6 <= d /\ UpToDot(s, a, b, d) /\ Counts(Chars(s, d + 1, m), x)
    /\ st \notin PrefixStates \cup MajorStates \cup MinorStates =>
          \E a, b, d, f \in 1..m :
             /\ b + 6 <= d /\ UpToDot(s, a, b, d) /\ IsFirst(s, 1, 13, f)
             /\ Counts(Chars(s, d + 1, f - 1), x)

\* Every byte keeps the method so.
LEMMA MethodFieldStep ==
    ASSUME NEW s, NEW m \in Nat, NEW st \in States, Shape(s, m, st),
           NEW r \in Request, MethodField(s, m, st, r.method),
           NEW h \in BOOLEAN, NEW q, q = After(st, h, s[m + 1]), q # "bad", q # "good"
    PROVE  MethodField(s, m + 1, q, ReqAfter(st, r, s[m + 1]).method)
<1> DEFINE x == ReqAfter(st, r, s[m + 1]).method
<1>1. x = IF st = "method_start" \/ (st = "method" /\ s[m + 1] # 32)
          THEN Append(r.method, to_char(s[m + 1])) ELSE r.method
  BY FieldsAfter
<1>2. q \in MethodStates <=> (st = "method_start" \/ (st = "method" /\ s[m + 1] # 32))
  BY AfterForward
<1> HIDE DEF x
<1>3. CASE st = "method_start" \/ (st = "method" /\ s[m + 1] # 32)
  <2>1. r.method = Chars(s, 1, m)
    BY <1>3 DEF MethodField, MethodStates
  <2>2. Chars(s, 1, m + 1) = Append(Chars(s, 1, m), to_char(s[m + 1]))
    <3>1. \A i \in Nat : i <= m + 1 =>
            Chars(s, i, m + 1) = Append(Chars(s, i, m), to_char(s[m + 1]))
      BY CharsGrow
    <3>2. 1 \in Nat /\ 1 <= m + 1
      OBVIOUS
    <3> QED
      BY <3>1, <3>2, Zenon
  <2>3. x = Chars(s, 1, m + 1)
    BY <1>1, <1>3, <2>1, <2>2
  <2> QED
    BY <1>2, <1>3, <2>3 DEF MethodField, x
<1>4. CASE st = "method" /\ s[m + 1] = 32
  <2>1. x = Chars(s, 1, m)
    BY <1>1, <1>4 DEF MethodField, MethodStates
  <2>2. IsToken(s, 1, m)
    BY <1>4 DEF Shape, InMethod
  <2>3. IsMethod(s, m + 1) /\ (m + 1) - 1 = m
    BY <1>4, <2>2 DEF IsMethod, IsFirst, IsToken
  <2>4. m + 1 \in 1..m + 1 /\ x = Chars(s, 1, (m + 1) - 1)
    BY <2>1, <2>3
  <2> QED
    BY <1>2, <1>4, <2>3, <2>4 DEF MethodField, x
<1>5. CASE st \notin MethodStates
  <2>1. PICK a \in 1..m : IsMethod(s, a) /\ r.method = Chars(s, 1, a - 1)
    BY <1>5 DEF MethodField
  <2>2. x = r.method /\ q \notin MethodStates
    BY <1>1, <1>2, <1>5 DEF MethodStates
  <2>3. a \in 1..m + 1
    OBVIOUS
  <2> QED
    BY <2>1, <2>2, <2>3 DEF MethodField, x
<1> QED
  BY <1>3, <1>4, <1>5 DEF MethodStates

\* Every byte keeps the uri so.
LEMMA UriFieldStep ==
    ASSUME NEW s, NEW m \in Nat, NEW st \in States, Shape(s, m, st),
           NEW r \in Request, UriField(s, m, st, r.uri),
           NEW h \in BOOLEAN, NEW q, q = After(st, h, s[m + 1]), q # "bad", q # "good"
    PROVE  UriField(s, m + 1, q, ReqAfter(st, r, s[m + 1]).uri)
<1> DEFINE x == ReqAfter(st, r, s[m + 1]).uri
<1>1. x = IF st = "uri" /\ s[m + 1] # 32 THEN Append(r.uri, to_char(s[m + 1]))
         ELSE r.uri
  BY FieldsAfter
<1>2. /\ q \in MethodStates
            <=> (st = "method_start" \/ (st = "method" /\ s[m + 1] # 32))
      /\ q = "uri" <=> (st = "method" /\ s[m + 1] = 32)
            \/ (st = "uri" /\ s[m + 1] # 32)
      /\ q \in UriStates => st \in UriStates
  BY AfterForward
<1> HIDE DEF x
<1>3. CASE st = "method_start" \/ (st = "method" /\ s[m + 1] # 32)
  <2>1. x = <<>> /\ q \in MethodStates
    BY <1>1, <1>2, <1>3 DEF UriField, MethodStates
  <2> QED
    BY <2>1 DEF UriField, UriStates, MethodStates, x
<1>4. CASE st = "method" /\ s[m + 1] = 32
  <2>1. x = <<>> /\ q = "uri"
    BY <1>1, <1>2, <1>4 DEF UriField, MethodStates
  <2>2. IsToken(s, 1, m)
    BY <1>4 DEF Shape, InMethod
  <2>3. IsMethod(s, m + 1) /\ m + 1 \in 1..m + 1
    BY <1>4, <2>2 DEF IsMethod, IsFirst, IsToken
  <2>4. Chars(s, (m + 1) + 1, m + 1) = <<>>
    BY DEF Chars
  <2> QED
    BY <2>1, <2>3, <2>4 DEF UriField, UriStates, MethodStates, x
<1>5. CASE st = "uri"
  <2>1. PICK a \in 1..m : IsMethod(s, a) /\ r.uri = Chars(s, a + 1, m)
    BY <1>5 DEF UriField
  <2>2. PICK aa \in 1..m :
          IsMethod(s, aa) /\ \A k \in aa + 1..m : TextByte(s[k]) /\ s[k] # 32
    BY <1>5 DEF Shape, InUri
  <2>3. aa = a
    BY <2>1, <2>2, FirstUnique DEF IsMethod
  <2>4. CASE s[m + 1] # 32
    <3>1. x = Chars(s, a + 1, m + 1) /\ q = "uri"
      BY <1>1, <1>2, <1>5, <2>1, <2>4, CharsGrow
    <3> QED
      BY <2>1, <3>1 DEF UriField, UriStates, MethodStates, x
  <2>5. CASE s[m + 1] = 32
    <3>1. x = Chars(s, a + 1, (m + 1) - 1) /\ q \notin UriStates
      <4>1. q \notin UriStates
        BY <1>2, <1>5, <2>5 DEF UriStates, MethodStates
      <4> QED
        BY <1>1, <2>1, <2>5, <4>1
    <3>2. UpToUri(s, a, m + 1)
      BY <2>1, <2>2, <2>3, <2>5 DEF UpToUri, IsUri, IsFirst, IsText, TextByte
    <3>3. a \in 1..m + 1 /\ m + 1 \in 1..m + 1
      OBVIOUS
    <3> QED
      BY <3>1, <3>2, <3>3 DEF UriField, UriStates, MethodStates, x
  <2> QED
    BY <2>4, <2>5
<1>6. CASE st \notin UriStates
  <2>1. PICK a \in 1..m, b \in 1..m : UpToUri(s, a, b)
           /\ r.uri = Chars(s, a + 1, b - 1)
    BY <1>6 DEF UriField
  <2>2. x = r.uri /\ q \notin UriStates
    BY <1>1, <1>2, <1>6 DEF UriStates
  <2>3. a \in 1..m + 1 /\ b \in 1..m + 1
    OBVIOUS
  <2> QED
    BY <2>1, <2>2, <2>3 DEF UriField, UriStates, MethodStates, x
<1> QED
  BY <1>3, <1>4, <1>5, <1>6 DEF MethodStates, UriStates

\* The number that another byte of a version makes.
LEMMA CountsMore ==
    ASSUME NEW s, NEW i \in Nat \ {0}, NEW m \in Nat, i <= m + 1,
           \A k \in 1..m + 1 : s[k] \in Byte,
           NEW x, Counts(Chars(s, i, m), x), s[m + 1] \in 48..57
    PROVE  Counts(Chars(s, i, m + 1), add_digit(x, to_char(s[m + 1])))
<1>1. to_char(s[m + 1]) \in 48..57
  BY DEF to_char
<1>2. Chars(s, i, m) \in Seq(Int)
  BY CharsType
<1>3. Chars(s, i, m + 1) = Append(Chars(s, i, m), to_char(s[m + 1]))
  BY CharsGrow
<1> QED
  BY <1>1, <1>2, <1>3, CountsDigit

\* The number of no digits.
LEMMA CountsStart ==
    ASSUME NEW s, NEW i \in Nat
    PROVE  Counts(Chars(s, i, i - 1), 0)
<1>1. Chars(s, i, i - 1) = <<>>
  BY DEF Chars
<1> QED
  BY <1>1, CountsNothing

\* Every byte keeps the major version so.
LEMMA MajorFieldStep ==
    ASSUME NEW s, NEW m \in Nat, NEW st \in States, Shape(s, m, st),
           \A k \in 1..m + 1 : s[k] \in Byte,
           NEW r \in Request, MajorField(s, m, st, r.http_version_major),
           NEW h \in BOOLEAN, NEW q, q = After(st, h, s[m + 1]), q # "bad", q # "good"
    PROVE  MajorField(s, m + 1, q, ReqAfter(st, r, s[m + 1]).http_version_major)
<1> DEFINE x == ReqAfter(st, r, s[m + 1]).http_version_major
           y == r.http_version_major
<1>1. x = IF st = "http_version_slash" THEN 0
          ELSE IF st = "http_version_major_start"
             \/ (st = "http_version_major" /\ s[m + 1] # 46)
               THEN add_digit(y, to_char(s[m + 1])) ELSE y
  BY FieldsAfter
<1>2. /\ q \in MajorStates <=> st = "http_version_slash"
            \/ st = "http_version_major_start"
               \/ (st = "http_version_major" /\ s[m + 1] # 46)
      /\ q \in PrefixStates => st \in PrefixStates
  BY AfterForward
<1>a. MajorField(s, m, st, y)
  OBVIOUS
<1> HIDE DEF x, y
<1>b. SUFFICES MajorField(s, m + 1, q, x)
  BY DEF x
<1>c. PrefixStates \cap MajorStates = {}
         /\ MajorStates = {"http_version_major_start", "http_version_major"}
  BY DEF PrefixStates, MajorStates, UriStates, MethodStates
<1>3. CASE st = "http_version_slash"
  <2>1. InVersion(s, m, 4) /\ s[m + 1] = 47
    BY <1>3 DEF Shape, After
  <2>2. InVersion(s, m + 1, 5)
    BY <2>1, VersionStep DEF VersionPrefix
  <2>3. PICK a \in 1..m + 1, b \in 1..m + 1 :
          UpToUri(s, a, b) /\ m + 1 = b + 5
             /\ \A k \in 1..5 : s[b + k] = VersionPrefix[k]
    BY <2>2 DEF InVersion
  <2>4. UpToSlash(s, a, b) /\ b + 5 <= m + 1 /\ (b + 6) - 1 = m + 1 /\ b + 6 \in Nat
    BY <2>3 DEF UpToSlash, IsProtocol
  <2>5. Counts(Chars(s, b + 6, m + 1), x)
    BY <1>1, <1>3, <2>4, CountsStart
  <2>6. q \in MajorStates
    BY <1>2, <1>3
  <2> QED
    BY <1>c, <2>4, <2>5, <2>6 DEF MajorField
<1>4. CASE st \in MajorStates
  <2>1. PICK a \in 1..m, b \in 1..m :
             b + 5 <= m /\ UpToSlash(s, a, b) /\ Counts(Chars(s, b + 6, m), y)
    BY <1>a, <1>4 DEF MajorField
  <2>0. a \in 1..m + 1 /\ b \in 1..m + 1 /\ b + 6 <= m + 1 /\ b + 6 \in Nat \ {0}
           /\ b + 5 <= m + 1
    BY <2>1
  <2>2. CASE q \in MajorStates
    <3>1. s[m + 1] \in 48..57 /\ x = add_digit(y, to_char(s[m + 1]))
      BY <1>1, <1>2, <1>4, <2>2 DEF After, MajorStates
    <3>2. Counts(Chars(s, b + 6, m + 1), x)
      BY <2>0, <2>1, <3>1, CountsMore
    <3> QED
      BY <1>c, <2>0, <2>1, <2>2, <3>2 DEF MajorField
  <2>3. CASE q \notin MajorStates
    <3>1. st = "http_version_major" /\ s[m + 1] = 46 /\ x = y
      BY <1>1, <1>2, <1>4, <2>3 DEF MajorStates
    <3>2. PICK aa \in 1..m, bb \in 1..m : UpToSlash(s, aa, bb)
             /\ IsDigits(s, bb + 6, m)
      BY <3>1 DEF Shape, InMajor
    <3>3. bb = b
      BY <2>1, <3>2, CutsUnique DEF UpToSlash, UpToUri
    <3>4. UpToDot(s, a, b, m + 1)
      BY <2>1, <3>1, <3>2, <3>3 DEF UpToDot, IsMajor, IsFirst, IsDigits
    <3>5. (m + 1) - 1 = m /\ m + 1 \in 1..m + 1
      OBVIOUS
    <3>6. Counts(Chars(s, b + 6, (m + 1) - 1), x)
      BY <2>1, <3>1, <3>5
    <3> QED
      BY <2>0, <2>3, <3>4, <3>5, <3>6 DEF MajorField
  <2> QED
    BY <2>2, <2>3
<1>5. CASE st \notin PrefixStates \cup MajorStates
  <2>1. PICK a \in 1..m, b \in 1..m, d \in 1..m :
             b + 6 <= d /\ UpToDot(s, a, b, d) /\ Counts(Chars(s, b + 6, d - 1), y)
    BY <1>a, <1>5 DEF MajorField
  <2>2. st # "http_version_slash"
    BY <1>5 DEF PrefixStates
  <2>3. x = y /\ q \notin MajorStates
    BY <1>1, <1>2, <1>5, <2>2 DEF MajorStates
  <2>4. a \in 1..m + 1 /\ b \in 1..m + 1 /\ d \in 1..m + 1
    BY <2>1
  <2> QED
    BY <2>1, <2>3, <2>4 DEF MajorField
<1>6. CASE st \in PrefixStates /\ st # "http_version_slash"
  <2>1. q \in PrefixStates
    BY <1>6 DEF PrefixStates, UriStates, MethodStates, After
  <2> QED
    BY <1>c, <2>1 DEF MajorField
<1> QED
  BY <1>3, <1>4, <1>5, <1>6

\* Every byte keeps the minor version so.
LEMMA MinorFieldStep ==
    ASSUME NEW s, NEW m \in Nat, NEW st \in States, Shape(s, m, st),
           \A k \in 1..m + 1 : s[k] \in Byte,
           NEW r \in Request, MinorField(s, m, st, r.http_version_minor),
           NEW h \in BOOLEAN, NEW q, q = After(st, h, s[m + 1]), q # "bad", q # "good"
    PROVE  MinorField(s, m + 1, q, ReqAfter(st, r, s[m + 1]).http_version_minor)
<1> DEFINE x == ReqAfter(st, r, s[m + 1]).http_version_minor
           y == r.http_version_minor
<1>1. x = IF st = "http_version_slash" THEN 0
          ELSE IF st = "http_version_minor_start"
             \/ (st = "http_version_minor" /\ s[m + 1] # 13)
               THEN add_digit(y, to_char(s[m + 1])) ELSE y
  BY FieldsAfter
<1>2. /\ q \in MajorStates <=> st = "http_version_slash"
            \/ st = "http_version_major_start"
               \/ (st = "http_version_major" /\ s[m + 1] # 46)
      /\ q \in MinorStates <=> (st = "http_version_major" /\ s[m + 1] = 46)
            \/ st = "http_version_minor_start"
               \/ (st = "http_version_minor" /\ s[m + 1] # 13)
      /\ q \in PrefixStates => st \in PrefixStates
  BY AfterForward
<1>a. MinorField(s, m, st, y)
  OBVIOUS
<1> HIDE DEF x, y
<1>b. SUFFICES MinorField(s, m + 1, q, x)
  BY DEF x
<1>c. /\ PrefixStates \cap MajorStates = {} /\ PrefixStates \cap MinorStates = {}
      /\ MinorStates \cap MajorStates = {}
      /\ MajorStates = {"http_version_major_start", "http_version_major"}
      /\ MinorStates = {"http_version_minor_start", "http_version_minor"}
      /\ "http_version_slash" \in PrefixStates
  BY DEF PrefixStates, MajorStates, MinorStates, UriStates, MethodStates
<1>3. CASE st = "http_version_slash"
  <2>1. x = 0 /\ q \in MajorStates
    BY <1>1, <1>2, <1>3
  <2> QED
    BY <1>c, <2>1 DEF MinorField
<1>4. CASE st \in MajorStates
  <2>1. x = y /\ y = 0
    BY <1>1, <1>4, <1>a, <1>c DEF MinorField
  <2>2. CASE q \in MajorStates
    BY <1>c, <2>1, <2>2 DEF MinorField
  <2>3. CASE q \notin MajorStates
    <3>1. st = "http_version_major" /\ s[m + 1] = 46 /\ q \in MinorStates
      BY <1>2, <1>4, <2>3 DEF MajorStates
    <3>2. AtDot(s, m + 1)
      BY <3>1, MajorStep DEF Shape
    <3>3. PICK a \in 1..m + 1, b \in 1..m + 1 : b + 6 <= m + 1
             /\ UpToDot(s, a, b, m + 1)
      BY <3>2 DEF AtDot
    <3>4. Counts(Chars(s, (m + 1) + 1, m + 1), x)
      <4>1. m + 2 \in Nat /\ (m + 2) - 1 = m + 1 /\ (m + 1) + 1 = m + 2
        OBVIOUS
      <4> QED
        BY <2>1, <4>1, CountsStart
    <3>5. m + 1 \in 1..m + 1
      OBVIOUS
    <3> QED
      BY <1>c, <3>1, <3>3, <3>4, <3>5 DEF MinorField
  <2> QED
    BY <2>2, <2>3
<1>5. CASE st \in MinorStates
  <2>1. PICK a \in 1..m, b \in 1..m, d \in 1..m :
             b + 6 <= d /\ UpToDot(s, a, b, d) /\ Counts(Chars(s, d + 1, m), y)
    BY <1>a, <1>5 DEF MinorField
  <2>0. /\ a \in 1..m + 1 /\ b \in 1..m + 1 /\ d \in 1..m + 1
        /\ d + 1 <= m + 1 /\ d + 1 \in Nat \ {0}
    BY <2>1
  <2>2. CASE q \in MinorStates
    <3>1. s[m + 1] \in 48..57 /\ x = add_digit(y, to_char(s[m + 1]))
      BY <1>1, <1>2, <1>5, <2>2 DEF After, MinorStates
    <3>2. Counts(Chars(s, d + 1, m + 1), x)
      BY <2>0, <2>1, <3>1, CountsMore
    <3> QED
      BY <1>c, <2>0, <2>1, <2>2, <3>2 DEF MinorField
  <2>3. CASE q \notin MinorStates
    <3>1. st = "http_version_minor" /\ s[m + 1] = 13 /\ x = y
      BY <1>1, <1>2, <1>5, <2>3 DEF MinorStates
    <3>2. AtNewline1(s, m + 1)
      BY <3>1, MinorStep DEF Shape
    <3>3. IsFirst(s, 1, 13, m + 1)
      BY <3>2, RequestLineEnds DEF AtNewline1
    <3>4. (m + 1) - 1 = m /\ m + 1 \in 1..m + 1
      OBVIOUS
    <3>5. Counts(Chars(s, d + 1, (m + 1) - 1), x)
      BY <2>1, <3>1, <3>4
    <3>6. q \notin MajorStates
      BY <1>2, <3>1
    <3> QED
      BY <2>0, <2>1, <2>3, <3>3, <3>4, <3>5, <3>6 DEF MinorField
  <2> QED
    BY <2>2, <2>3
<1>6. CASE st \notin PrefixStates \cup MajorStates \cup MinorStates
  <2>1. PICK a \in 1..m, b \in 1..m, d \in 1..m, f \in 1..m :
             /\ b + 6 <= d /\ UpToDot(s, a, b, d) /\ IsFirst(s, 1, 13, f)
             /\ Counts(Chars(s, d + 1, f - 1), y)
    BY <1>a, <1>6 DEF MinorField
  <2>2. st # "http_version_slash"
    BY <1>6, <1>c
  <2>3. x = y /\ q \notin MajorStates /\ q \notin MinorStates
    BY <1>1, <1>2, <1>6, <2>2 DEF MajorStates, MinorStates
  <2>4. a \in 1..m + 1 /\ b \in 1..m + 1 /\ d \in 1..m + 1 /\ f \in 1..m + 1
    BY <2>1
  <2> QED
    BY <2>1, <2>3, <2>4 DEF MinorField
<1>7. CASE st \in PrefixStates /\ st # "http_version_slash"
  <2>1. q \in PrefixStates
    BY <1>7 DEF PrefixStates, UriStates, MethodStates, After
  <2> QED
    BY <1>c, <2>1 DEF MinorField
<1> QED
  BY <1>3, <1>4, <1>5, <1>6, <1>7

----------------------------------------------------------------------------
(* A header as far as it is read.                                          *)

\* First chooses the one first byte.
LEMMA FirstIs ==
    ASSUME NEW s, NEW i \in Nat, NEW n \in Nat, NEW b, NEW c \in i..n,
           IsFirst(s, i, b, c)
    PROVE  First(s, i, n, b) = c
<1>1. \A k \in i..n : IsFirst(s, i, b, k) => k = c
  BY FirstUnique
<1>2. First(s, i, n, b) \in i..n /\ IsFirst(s, i, b, First(s, i, n, b))
  BY DEF First
<1> QED
  BY <1>1, <1>2

\* The positions of a header's value among the first n bytes.
ValueAt(s, i, c, n) == {k \in c + 2..n : IsValue(s, i, k)}

\* The chars at the positions of V.
Glued(s, V) == [v \in 1..Cardinality(V) |-> to_char(s[Nth(V, v)])]

\* A header whose colon is at c.
LEMMA HeaderIs ==
    ASSUME NEW s, NEW i \in Nat, NEW n \in Nat, NEW c \in i..n, IsFirst(s, i, 58, c)
    PROVE  HeaderAt(s, i, n)
             = [name |-> Chars(s, i, c - 1), value |-> Glued(s, ValueAt(s, i, c, n))]
<1>1. First(s, i, n, 58) = c
  BY FirstIs
<1> QED
  BY <1>1 DEF HeaderAt, ValueAt, Glued

\* The next position adds its char at the end.
LEMMA GluedGrows ==
    ASSUME NEW s, NEW m \in Nat, NEW V \in SUBSET (1..m)
    PROVE  Glued(s, V \cup {m + 1}) = Append(Glued(s, V), to_char(s[m + 1]))
<1> DEFINE W == V \cup {m + 1}
           n == Cardinality(V)
           x == Glued(s, V)
           y == Glued(s, W)
           z == Append(x, to_char(s[m + 1]))
<1>1. /\ Cardinality(W) = n + 1 /\ n \in Nat
      /\ \A k \in 1..n : Nth(W, k) = Nth(V, k)
      /\ Nth(W, n + 1) = m + 1
  <2>1. m + 1 \in Nat /\ m + 1 > m
    OBVIOUS
  <2> QED
    BY <2>1, NthAdd, ZenonT(60)
<1>2. x = [k \in 1..n |-> to_char(s[Nth(V, k)])]
  BY DEF Glued
<1>3. y = [k \in 1..n + 1 |-> to_char(s[Nth(W, k)])]
  BY <1>1 DEF Glued
<1> HIDE DEF W, n, x, y
<1>4. Len(x) = n /\ DOMAIN x = 1..n /\ x \in Seq({x[k] : k \in 1..n})
  <2>1. DOMAIN x = 1..n
    BY <1>2
  <2>2. x \in [1..n -> {x[k] : k \in 1..n}]
    BY <1>2
  <2>3. \A S : \A w \in [1..n -> S] : w \in Seq(S) /\ Len(w) = n
    BY <1>1
  <2> QED
    BY <2>1, <2>2, <2>3, Zenon
<1>5. z = [k \in 1..n + 1 |-> IF k <= n THEN x[k] ELSE to_char(s[m + 1])]
  BY <1>1, <1>4
<1>6. \A k \in 1..n + 1 : (IF k <= n THEN x[k] ELSE to_char(s[m + 1]))
         = to_char(s[Nth(W, k)])
  BY <1>1, <1>2
<1>7. y = z
  BY <1>3, <1>5, <1>6
<1> QED
  BY <1>7 DEF x, y, W

\* What the parser has of the header at i after m bytes.
Part(s, i, m) ==
    IF \E c \in i..m : s[c] = 58 THEN HeaderAt(s, i, m)
    ELSE [name |-> Chars(s, i, m), value |-> <<>>]

\* A byte that is not of its value leaves a header alone.
LEMMA PartKept ==
    ASSUME NEW s, NEW m \in Nat, NEW i \in 1..m, NEW c \in i..m, IsFirst(s, i, 58, c),
           m < c + 1 \/ ~IsValue(s, i, m + 1)
    PROVE  Part(s, i, m + 1) = Part(s, i, m)
<1>1. c \in i..m + 1 /\ s[c] = 58 /\ i \in Nat /\ m + 1 \in Nat
  BY DEF IsFirst
<1>2. ValueAt(s, i, c, m + 1) = ValueAt(s, i, c, m)
  BY DEF ValueAt
<1>3. HeaderAt(s, i, m + 1) = HeaderAt(s, i, m)
  BY <1>1, <1>2, HeaderIs
<1>4. Part(s, i, m + 1) = HeaderAt(s, i, m + 1) /\ Part(s, i, m) = HeaderAt(s, i, m)
  BY <1>1 DEF Part
<1> QED
  BY <1>3, <1>4

\* A byte of its value is added to it.
LEMMA PartGrows ==
    ASSUME NEW s, NEW m \in Nat, NEW i \in 1..m, NEW c \in i..m - 1,
           IsFirst(s, i, 58, c),
           IsValue(s, i, m + 1)
    PROVE  /\ Part(s, i, m).value = Glued(s, ValueAt(s, i, c, m))
           /\ Part(s, i, m + 1)
                = [name |-> Part(s, i, m).name,
                   value |-> Append(Part(s, i, m).value, to_char(s[m + 1]))]
<1>1. c \in i..m + 1 /\ c \in i..m /\ s[c] = 58 /\ i \in Nat /\ m + 1 \in Nat
  BY DEF IsFirst
<1>2. ValueAt(s, i, c, m + 1) = ValueAt(s, i, c, m) \cup {m + 1}
  BY DEF ValueAt
<1>3. ValueAt(s, i, c, m) \in SUBSET (1..m)
  BY DEF ValueAt
<1>4. Glued(s, ValueAt(s, i, c, m + 1))
         = Append(Glued(s, ValueAt(s, i, c, m)), to_char(s[m + 1]))
  BY <1>2, <1>3, GluedGrows
<1>5. Part(s, i, m + 1) = HeaderAt(s, i, m + 1) /\ Part(s, i, m) = HeaderAt(s, i, m)
  BY <1>1 DEF Part
<1>6. HeaderAt(s, i, m)
         = [name |-> Chars(s, i, c - 1), value |-> Glued(s, ValueAt(s, i, c, m))]
  BY <1>1, HeaderIs
<1>7. HeaderAt(s, i, m + 1)
         = [name |-> Chars(s, i, c - 1), value |-> Glued(s, ValueAt(s, i, c, m + 1))]
  BY <1>1, HeaderIs
<1> DEFINE X == Glued(s, ValueAt(s, i, c, m))
           N == Chars(s, i, c - 1)
<1>8. Part(s, i, m) = [name |-> N, value |-> X]
  BY <1>5, <1>6, Zenon
<1>9. Part(s, i, m + 1) = [name |-> N, value |-> Append(X, to_char(s[m + 1]))]
  BY <1>4, <1>5, <1>7, Zenon
<1> HIDE DEF X, N
<1>10. Part(s, i, m).name = N /\ Part(s, i, m).value = X
  BY <1>8
<1> QED
  BY <1>9, <1>10, Zenon DEF X

\* A header without a colon is all name.
LEMMA PartNamed ==
    ASSUME NEW s, NEW m \in Nat, NEW i \in 1..m, \A k \in i..m : s[k] # 58
    PROVE  /\ Part(s, i, m) = [name |-> Chars(s, i, m), value |-> <<>>]
           /\ s[m + 1] = 58 => Part(s, i, m + 1) = Part(s, i, m)
           /\ s[m + 1] # 58
                 => Part(s, i, m + 1)
                    = [name |-> Append(Chars(s, i, m), to_char(s[m + 1])),
                       value |-> <<>>]
<1>1. Part(s, i, m) = [name |-> Chars(s, i, m), value |-> <<>>]
  BY DEF Part
<1>2. ASSUME s[m + 1] = 58 PROVE Part(s, i, m + 1) = Part(s, i, m)
  <2>1. IsFirst(s, i, 58, m + 1) /\ m + 1 \in i..m + 1 /\ (m + 1) - 1 = m
           /\ i \in Nat /\ m + 1 \in Nat
    BY <1>2 DEF IsFirst
  <2>2. ValueAt(s, i, m + 1, m + 1) = {}
    BY DEF ValueAt
  <2>3. Glued(s, {}) = <<>>
    <3>1. Cardinality({}) = 0
      BY FS_EmptySet
    <3> QED
      BY <3>1 DEF Glued
  <2>4. HeaderAt(s, i, m + 1)
           = [name |-> Chars(s, i, (m + 1) - 1),
              value |-> Glued(s, ValueAt(s, i, m + 1, m + 1))]
    BY <2>1, HeaderIs
  <2>5. Part(s, i, m + 1) = HeaderAt(s, i, m + 1)
    BY <1>2, <2>1 DEF Part
  <2> QED
    BY <1>1, <2>1, <2>2, <2>3, <2>4, <2>5
<1>3. ASSUME s[m + 1] # 58
      PROVE  Part(s, i, m + 1)
                = [name |-> Append(Chars(s, i, m), to_char(s[m + 1])), value |-> <<>>]
  <2>1. Part(s, i, m + 1) = [name |-> Chars(s, i, m + 1), value |-> <<>>]
    BY <1>3 DEF Part
  <2>2. Chars(s, i, m + 1) = Append(Chars(s, i, m), to_char(s[m + 1]))
    BY CharsGrow
  <2> QED
    BY <2>1, <2>2
<1> QED
  BY <1>1, <1>2, <1>3

\* A header that begins.
LEMMA PartNew ==
    ASSUME NEW s, NEW m \in Nat, s[m + 1] # 58
    PROVE  Part(s, m + 1, m + 1) = [name |-> <<to_char(s[m + 1])>>, value |-> <<>>]
<1>1. Chars(s, m + 1, m + 1) = <<to_char(s[m + 1])>>
  BY DEF Chars
<1>2. ~\E c \in m + 1..m + 1 : s[c] = 58
  OBVIOUS
<1> QED
  BY <1>1, <1>2 DEF Part

\* hs are the headers that begin in the first m bytes, as far as they go.
HeadersRead(s, f, m, hs) ==
    LET S == HeaderStarts(s, f, m)
    IN  /\ Len(hs) = Cardinality(S)
        /\ \A h \in 1..Len(hs) : hs[h] = Part(s, Nth(S, h), m)

\* When another byte begins a header.
LEMMA StartsFacts ==
    ASSUME NEW s, NEW m \in Nat, NEW f \in 1..m
    PROVE  /\ HeaderStarts(s, f, m) \in SUBSET (1..m)
           /\ HeaderStarts(s, f, m + 1)
                = IF m + 1 >= f + 2 /\ IsStart(s, m + 1)
                   /\ s[m + 1] \notin {32, 9, 13}
                  THEN HeaderStarts(s, f, m) \cup {m + 1} ELSE HeaderStarts(s, f, m)
BY DEF HeaderStarts

\* No header is touched.
LEMMA HeadersKept ==
    ASSUME NEW s, NEW m \in Nat, NEW f \in 1..m, NEW hs \in Seq(Header),
           HeadersRead(s, f, m, hs),
           HeaderStarts(s, f, m + 1) = HeaderStarts(s, f, m),
           \A i \in HeaderStarts(s, f, m) : Part(s, i, m + 1) = Part(s, i, m)
    PROVE  HeadersRead(s, f, m + 1, hs)
<1> DEFINE S == HeaderStarts(s, f, m)
<1>1. S \in SUBSET (1..m)
  BY StartsFacts
<1>2. Len(hs) = Cardinality(S) /\ \A h \in 1..Len(hs) : hs[h] = Part(s, Nth(S, h), m)
  BY DEF HeadersRead
<1>3. \A h \in 1..Cardinality(S) : Nth(S, h) \in S
  BY <1>1, NthFacts
<1>4. \A h \in 1..Len(hs) : hs[h] = Part(s, Nth(S, h), m + 1)
  BY <1>2, <1>3
<1> QED
  BY <1>2, <1>4 DEF HeadersRead

\* A header is begun.
LEMMA HeadersAppended ==
    ASSUME NEW s, NEW m \in Nat, NEW f \in 1..m, NEW hs \in Seq(Header),
           HeadersRead(s, f, m, hs),
           HeaderStarts(s, f, m + 1) = HeaderStarts(s, f, m) \cup {m + 1},
           \A i \in HeaderStarts(s, f, m) : Part(s, i, m + 1) = Part(s, i, m),
           NEW x \in Header, x = Part(s, m + 1, m + 1)
    PROVE  HeadersRead(s, f, m + 1, Append(hs, x))
<1> DEFINE S == HeaderStarts(s, f, m)
           W == HeaderStarts(s, f, m + 1)
           n == Cardinality(S)
           gs == Append(hs, x)
<1>0. m + 1 \in Nat /\ m + 1 > m
  OBVIOUS
<1>1. S \in SUBSET (1..m)
  BY StartsFacts
<1>2. Len(hs) = n /\ \A h \in 1..Len(hs) : hs[h] = Part(s, Nth(S, h), m)
  BY DEF HeadersRead
<1>3. \A h \in 1..n : Nth(S, h) \in S
  BY <1>1, NthFacts
<1>a. W = S \cup {m + 1}
  OBVIOUS
<1>b. \A i \in S : Part(s, i, m + 1) = Part(s, i, m)
  OBVIOUS
<1> HIDE DEF S, W
<1>4. /\ Cardinality(W) = n + 1 /\ n \in Nat
      /\ \A k \in 1..n : Nth(W, k) = Nth(S, k)
      /\ Nth(W, n + 1) = m + 1
  BY <1>0, <1>1, <1>a, NthAdd, ZenonT(60)
<1> HIDE DEF n
<1>5. Len(gs) = n + 1 /\ gs[n + 1] = x /\ \A h \in 1..n : gs[h] = hs[h]
  BY <1>2
<1> HIDE DEF gs
<1>6. \A h \in 1..n + 1 : gs[h] = Part(s, Nth(W, h), m + 1)
  <2> SUFFICES ASSUME NEW h \in 1..n + 1 PROVE gs[h] = Part(s, Nth(W, h), m + 1)
    OBVIOUS
  <2>1. CASE h \in 1..n
    <3>1. gs[h] = Part(s, Nth(S, h), m)
      BY <1>2, <1>5, <2>1
    <3>2. Part(s, Nth(S, h), m + 1) = Part(s, Nth(S, h), m)
      BY <1>3, <1>b, <2>1
    <3> QED
      BY <1>4, <2>1, <3>1, <3>2
  <2>2. CASE h = n + 1
    BY <1>4, <1>5, <2>2
  <2> QED
    BY <1>4, <2>1, <2>2
<1> QED
  BY <1>4, <1>5, <1>6 DEF HeadersRead, W, gs

\* The last header, the one at i, is changed.
LEMMA HeadersChanged ==
    ASSUME NEW s, NEW m \in Nat, NEW f \in 1..m, NEW hs \in Seq(Header),
           HeadersRead(s, f, m, hs),
           HeaderStarts(s, f, m + 1) = HeaderStarts(s, f, m),
           NEW i \in HeaderStarts(s, f, m),
           \A j \in HeaderStarts(s, f, m) :
              j <= i /\ (j # i => Part(s, j, m + 1) = Part(s, j, m)),
           NEW gs \in Seq(Header), Len(gs) = Len(hs),
           \A h \in 1..Len(hs) - 1 : gs[h] = hs[h],
           hs[Len(hs)] = Part(s, i, m) => gs[Len(hs)] = Part(s, i, m + 1)
    PROVE  /\ HeadersRead(s, f, m + 1, gs)
           /\ Len(hs) \in Nat \ {0} /\ hs[Len(hs)] = Part(s, i, m)
<1> DEFINE S == HeaderStarts(s, f, m)
           W == HeaderStarts(s, f, m + 1)
           n == Cardinality(S)
<1>1. S \in SUBSET (1..m)
  BY StartsFacts
<1>2. Len(hs) = n /\ \A h \in 1..n : hs[h] = Part(s, Nth(S, h), m)
  BY DEF HeadersRead
<1>a. W = S /\ i \in S
  OBVIOUS
<1>b. \A j \in S : j <= i /\ (j # i => Part(s, j, m + 1) = Part(s, j, m))
  OBVIOUS
<1> HIDE DEF S, W
<1>3. /\ n \in Nat \ {0}
      /\ Nth(S, n) = i
      /\ \A k \in 1..n - 1 : Nth(S, k) \in S /\ Nth(S, k) # i
  BY <1>1, <1>a, <1>b, NthLast
<1> HIDE DEF n
<1>4. hs[n] = Part(s, i, m)
  BY <1>2, <1>3
<1>5. gs[n] = Part(s, i, m + 1)
  BY <1>2, <1>4
<1>6. \A h \in 1..n : gs[h] = Part(s, Nth(W, h), m + 1)
  <2> SUFFICES ASSUME NEW h \in 1..n PROVE gs[h] = Part(s, Nth(S, h), m + 1)
    BY <1>a
  <2>1. CASE h \in 1..n - 1
    <3>1. gs[h] = Part(s, Nth(S, h), m)
      BY <1>2, <2>1
    <3>2. Part(s, Nth(S, h), m + 1) = Part(s, Nth(S, h), m)
      BY <1>3, <1>b, <2>1
    <3> QED
      BY <3>1, <3>2
  <2>2. CASE h = n
    BY <1>3, <1>5, <2>2
  <2> QED
    BY <1>3, <2>1, <2>2
<1>7. Len(gs) = Cardinality(W)
  BY <1>2, <1>a DEF n
<1>8. HeadersRead(s, f, m + 1, gs)
  BY <1>2, <1>6, <1>7 DEF HeadersRead, W
<1> QED
  BY <1>2, <1>3, <1>4, <1>8

----------------------------------------------------------------------------
(* What each byte does to the headers.                                     *)

\* Every header before the line at i has its colon.
LEMMA OldColon ==
    ASSUME NEW s, NEW m \in Nat, NEW f \in 1..m, NEW i \in 1..m + 1,
           InHeaders(s, f, i),
           NEW j \in HeaderStarts(s, f, m), j < i
    PROVE  j \in 1..m /\ IsStart(s, j) /\ \E c \in j..i - 1 : IsFirst(s, j, 58, c)
<1>1. j \in f + 2..i - 1 /\ IsStart(s, j) /\ s[j] \notin {32, 9, 13} /\ j \in 1..m
  BY DEF HeaderStarts
<1>2. PICK e \in j..i - 2 : IsHeaderLine(s, f, j, e)
  BY <1>1 DEF InHeaders
<1>3. ~IsFold(s, j, e)
  BY <1>1 DEF IsFold, IsBlank
<1>4. IsHeader(s, j, e)
  BY <1>2, <1>3 DEF IsHeaderLine
<1>5. PICK c \in j..e - 2 : IsFirst(s, j, 58, c)
  BY <1>4 DEF IsHeader
<1>6. c \in j..i - 1
  BY <1>1, <1>2, <1>5
<1> QED
  BY <1>1, <1>5, <1>6

\* A later line that is no fold, or is blank so far, ends a value.
LEMMA ValueEnded ==
    ASSUME NEW s, NEW m \in Nat, NEW j \in Nat, NEW i \in Nat, j < i, i <= m + 1,
           IsStart(s, i),
           s[i] \notin {32, 9} \/ IsBlank(s, i, m + 1)
    PROVE  ~IsValue(s, j, m + 1)
<1>1. i \in j + 1..m + 1
  OBVIOUS
<1> QED
  BY <1>1 DEF IsValue

\* The header at j is complete but for folds.
LEMMA OldPart ==
    ASSUME NEW s, NEW m \in Nat, NEW f \in 1..m, NEW i \in 1..m + 1,
           InHeaders(s, f, i),
           NEW j \in HeaderStarts(s, f, m), j < i, ~IsValue(s, j, m + 1)
    PROVE  Part(s, j, m + 1) = Part(s, j, m)
<1>1. PICK c \in j..i - 1 : IsFirst(s, j, 58, c)
  BY OldColon
<1>2. j \in 1..m /\ c \in j..m
  BY OldColon
<1> QED
  BY <1>1, <1>2, PartKept

\* None of them is touched by a line that is no fold.
LEMMA OldParts ==
    ASSUME NEW s, NEW m \in Nat, NEW f \in 1..m, NEW i \in 1..m + 1,
           InHeaders(s, f, i),
           s[i] \notin {32, 9} \/ IsBlank(s, i, m + 1)
    PROVE  \A j \in HeaderStarts(s, f, m) : j < i => Part(s, j, m + 1) = Part(s, j, m)
<1> SUFFICES ASSUME NEW j \in HeaderStarts(s, f, m), j < i
             PROVE  Part(s, j, m + 1) = Part(s, j, m)
  OBVIOUS
<1>1. IsStart(s, i) /\ j \in Nat /\ i \in Nat /\ i <= m + 1
  BY DEF InHeaders, HeaderStarts
<1>2. ~IsValue(s, j, m + 1)
  BY <1>1, ValueEnded
<1> QED
  BY <1>2, OldPart

\* No line begins inside the line at i.
LEMMA NoStart ==
    ASSUME NEW s, NEW i \in Nat, i >= 3, NEW m \in Nat,
           \A k \in i..m : s[k] \notin {13, 10}
    PROVE  \A k \in i + 1..m + 1 : ~IsStart(s, k)
<1> SUFFICES ASSUME NEW k \in i + 1..m + 1, IsStart(s, k) PROVE FALSE
  OBVIOUS
<1>1. s[k - 2] = 13 /\ s[k - 1] = 10
  BY DEF IsStart
<1>2. k - 1 \in i..m
  OBVIOUS
<1> QED
  BY <1>1, <1>2

\* One lemma for each state: what the byte does to req.headers is what it
\* adds to the headers of the message.  Here the first byte of a line.
LEMMA LineStartHeaders ==
    ASSUME NEW s, NEW m \in Nat, NEW f \in 1..m, InHeaders(s, f, m + 1),
           NEW hs \in Seq(Header), HeadersRead(s, f, m, hs), s[m + 1] \in Byte
    PROVE  /\ s[m + 1] \in {13, 32, 9} => HeadersRead(s, f, m + 1, hs)
           /\ s[m + 1] \in TokenByte =>
                 HeadersRead(s, f, m + 1,
                    Append(hs, [name |-> <<to_char(s[m + 1])>>, value |-> <<>>]))
<1>1. \A j \in HeaderStarts(s, f, m) : j < m + 1
  BY DEF HeaderStarts
<1>2. s[m + 1] \notin {32, 9} \/ IsBlank(s, m + 1, m + 1)
  BY DEF IsBlank
<1>3. m + 1 \in 1..m + 1
  OBVIOUS
<1>4. \A j \in HeaderStarts(s, f, m) : Part(s, j, m + 1) = Part(s, j, m)
  BY <1>1, <1>2, <1>3, OldParts
<1>5. ASSUME s[m + 1] \in {13, 32, 9} PROVE HeadersRead(s, f, m + 1, hs)
  <2>1. HeaderStarts(s, f, m + 1) = HeaderStarts(s, f, m)
    BY <1>5, StartsFacts
  <2> QED
    BY <1>4, <2>1, HeadersKept
<1>6. ASSUME s[m + 1] \in TokenByte
      PROVE  HeadersRead(s, f, m + 1,
                Append(hs, [name |-> <<to_char(s[m + 1])>>, value |-> <<>>]))
  <2> DEFINE x == [name |-> <<to_char(s[m + 1])>>, value |-> <<>>]
  <2>1. s[m + 1] \notin {13, 32, 9} /\ s[m + 1] # 58
    BY <1>6, TokenFacts
  <2>2. m + 1 >= f + 2 /\ IsStart(s, m + 1)
    BY DEF InHeaders
  <2>3. HeaderStarts(s, f, m + 1) = HeaderStarts(s, f, m) \cup {m + 1}
    BY <2>1, <2>2, StartsFacts
  <2>4. x = Part(s, m + 1, m + 1)
    BY <2>1, PartNew
  <2>5. x \in Header
    BY ByteIsChar DEF Header
  <2> HIDE DEF x
  <2>6. HeadersRead(s, f, m + 1, Append(hs, x))
    BY <1>4, <2>3, <2>4, <2>5, HeadersAppended
  <2> QED
    BY <2>6 DEF x
<1> QED
  BY <1>5, <1>6

\* Where a header's own line has come to m, it is the last one.
LEMMA OwnLine ==
    ASSUME NEW s, NEW m \in Nat, NEW f \in 1..m, NEW i \in 1..m, InHeaders(s, f, i),
           \A k \in i..m : s[k] \notin {13, 10}
    PROVE  /\ HeaderStarts(s, f, m + 1) = HeaderStarts(s, f, m)
           /\ \A j \in HeaderStarts(s, f, m) : j <= i
           /\ s[i] \notin {32, 9} => i \in HeaderStarts(s, f, m)
           /\ s[i] \in {32, 9} => i \notin HeaderStarts(s, f, m)
<1>1. i >= f + 2 /\ IsStart(s, i)
  BY DEF InHeaders
<1>2. i \in Nat /\ i >= 3
  BY <1>1
<1>3. \A k \in i + 1..m + 1 : ~IsStart(s, k)
  BY <1>2, NoStart
<1>4. ~IsStart(s, m + 1)
  BY <1>3
<1>5. \A j \in HeaderStarts(s, f, m) : j <= i
  BY <1>3 DEF HeaderStarts
<1>6. HeaderStarts(s, f, m + 1) = HeaderStarts(s, f, m)
  BY <1>4, StartsFacts
<1>7. s[i] \notin {32, 9, 13} => i \in HeaderStarts(s, f, m)
  BY <1>1 DEF HeaderStarts
<1>8. s[i] # 13
  OBVIOUS
<1>9. s[i] \in {32, 9} => i \notin HeaderStarts(s, f, m)
  BY DEF HeaderStarts
<1> QED
  BY <1>5, <1>6, <1>7, <1>8, <1>9

\* A header with a longer name or a longer value.
LEMMA HeaderPushed ==
    ASSUME NEW y \in Header, NEW c \in Char
    PROVE  /\ [y EXCEPT !.name = Append(@, c)]
                 = [name |-> Append(y.name, c), value |-> y.value]
           /\ [y EXCEPT !.value = Append(@, c)]
                 = [name |-> y.name, value |-> Append(y.value, c)]
           /\ [name |-> Append(y.name, c), value |-> y.value] \in Header
           /\ [name |-> y.name, value |-> Append(y.value, c)] \in Header
<1>1. y.name \in Seq(Char) /\ y.value \in Seq(Char)
  BY DEF Header
<1>2. Append(y.name, c) \in Seq(Char) /\ Append(y.value, c) \in Seq(Char)
  BY <1>1
<1>3. \A u, v : [y EXCEPT !.name = u] = [name |-> u, value |-> y.value]
                /\ [y EXCEPT !.value = v] = [name |-> y.name, value |-> v]
  BY DEF Header
<1>4. \A u, v \in Seq(Char) : [name |-> u, value |-> v] \in Header
  BY DEF Header
<1> QED
  BY <1>1, <1>2, <1>3, <1>4, Zenon

\* The last header with another name or value.
LEMMA BackChanged ==
    ASSUME NEW hs \in Seq(Header), NEW x \in Header, hs # <<>>,
           NEW gs, gs = [hs EXCEPT ![Len(hs)] = x]
    PROVE  /\ gs \in Seq(Header) /\ Len(gs) = Len(hs) /\ gs[Len(hs)] = x
           /\ \A h \in 1..Len(hs) - 1 : gs[h] = hs[h]
OBVIOUS

\* A byte of a name, or the colon.
LEMMA NameHeaders ==
    ASSUME NEW s, NEW m \in Nat, NEW f \in 1..m, NEW i \in 1..m, InHeaders(s, f, i),
           IsToken(s, i, m), NEW hs \in Seq(Header), hs # <<>>,
           HeadersRead(s, f, m, hs),
           s[m + 1] \in Byte
    PROVE  /\ s[m + 1] = 58 => HeadersRead(s, f, m + 1, hs)
           /\ s[m + 1] # 58 =>
                HeadersRead(s, f, m + 1,
                   [hs EXCEPT ![Len(hs)].name = Append(@, to_char(s[m + 1]))])
<1>1. \A k \in i..m : s[k] \notin {13, 10} /\ s[k] # 58 /\ s[k] \notin {32, 9}
  <2>1. \A k \in i..m : s[k] \in TokenByte
    BY DEF IsToken, TokenByte
  <2> QED
    BY <2>1, TokenFacts
<1>2. /\ HeaderStarts(s, f, m + 1) = HeaderStarts(s, f, m)
      /\ \A j \in HeaderStarts(s, f, m) : j <= i
      /\ i \in HeaderStarts(s, f, m)
  <2>1. s[i] \notin {32, 9}
    BY <1>1
  <2>2. \A k \in i..m : s[k] \notin {13, 10}
    BY <1>1
  <2> QED
    BY <2>1, <2>2, OwnLine
<1>3. \A j \in HeaderStarts(s, f, m) : j < i => Part(s, j, m + 1) = Part(s, j, m)
  <2>1. i \in 1..m + 1 /\ s[i] \notin {32, 9}
    BY <1>1
  <2> QED
    BY <2>1, OldParts
<1>4. \A j \in HeaderStarts(s, f, m) : j # i => j < i
  BY <1>2 DEF HeaderStarts
<1>5. /\ Part(s, i, m) = [name |-> Chars(s, i, m), value |-> <<>>]
      /\ s[m + 1] = 58 => Part(s, i, m + 1) = Part(s, i, m)
      /\ s[m + 1] # 58
            => Part(s, i, m + 1)
               = [name |-> Append(Chars(s, i, m), to_char(s[m + 1])), value |-> <<>>]
  <2>1. \A k \in i..m : s[k] # 58
    BY <1>1
  <2> QED
    BY <2>1, PartNamed
<1>6. ASSUME s[m + 1] = 58 PROVE HeadersRead(s, f, m + 1, hs)
  <2>1. \A j \in HeaderStarts(s, f, m) : Part(s, j, m + 1) = Part(s, j, m)
    BY <1>3, <1>4, <1>5, <1>6
  <2> QED
    BY <1>2, <2>1, HeadersKept
<1>7. ASSUME s[m + 1] # 58
      PROVE  HeadersRead(s, f, m + 1,
                   [hs EXCEPT ![Len(hs)].name = Append(@, to_char(s[m + 1]))])
  <2> DEFINE c == to_char(s[m + 1])
             y == hs[Len(hs)]
             x == [y EXCEPT !.name = Append(@, c)]
             gs == [hs EXCEPT ![Len(hs)] = x]
  <2>0. y \in Header
    <3>1. Len(hs) \in 1..Len(hs)
      OBVIOUS
    <3> QED
      BY <3>1
  <2>b. c \in Char
    BY ByteIsChar
  <2>3. gs = [hs EXCEPT ![Len(hs)].name = Append(@, c)]
    OBVIOUS
  <2> HIDE DEF y, c
  <2>a. x = [name |-> Append(y.name, c), value |-> y.value]
    BY <2>0, <2>b, HeaderPushed, Zenon
  <2>2. x \in Header
    BY <2>0, <2>b, <2>a, HeaderPushed, Zenon
  <2>4. y = Part(s, i, m) => x = Part(s, i, m + 1)
    <3>1. SUFFICES ASSUME y = Part(s, i, m)
                   PROVE  [name |-> Append(y.name, c), value |-> y.value]
                            = [name |-> Append(Chars(s, i, m), c), value |-> <<>>]
      BY <1>5, <1>7, <2>a DEF c
    <3>2. y.name = Chars(s, i, m) /\ y.value = <<>>
      BY <1>5, <3>1
    <3> QED
      BY <3>2
  <2> HIDE DEF x
  <2>5. /\ gs \in Seq(Header) /\ Len(gs) = Len(hs) /\ gs[Len(hs)] = x
        /\ \A h \in 1..Len(hs) - 1 : gs[h] = hs[h]
    BY <2>2, BackChanged
  <2> HIDE DEF gs
  <2>6. HeadersRead(s, f, m + 1, gs)
    BY <1>2, <1>3, <1>4, <2>4, <2>5, HeadersChanged DEF y
  <2> QED
    BY <2>3, <2>6 DEF c
<1> QED
  BY <1>6, <1>7

\* At a CR or an LF nothing is added to a header that has its colon.
LEMMA LineEndHeaders ==
    ASSUME NEW s, NEW m \in Nat, NEW f \in 1..m, NEW hs \in Seq(Header),
           HeadersRead(s, f, m, hs), s[m + 1] \in {13, 10},
           HeaderStarts(s, f, m + 1) = HeaderStarts(s, f, m),
           \A j \in HeaderStarts(s, f, m) : \E c \in j..m : IsFirst(s, j, 58, c)
    PROVE  HeadersRead(s, f, m + 1, hs)
<1>1. ASSUME NEW j \in HeaderStarts(s, f, m) PROVE Part(s, j, m + 1) = Part(s, j, m)
  <2>1. PICK c \in j..m : IsFirst(s, j, 58, c)
    OBVIOUS
  <2>2. j \in 1..m
    BY DEF HeaderStarts
  <2>3. ~IsValue(s, j, m + 1)
    BY DEF IsValue
  <2> QED
    BY <2>1, <2>2, <2>3, PartKept
<1> QED
  BY <1>1, HeadersKept

\* A byte is added to the value of the last header, the one at i.
LEMMA ValueHeaders ==
    ASSUME NEW s, NEW m \in Nat, NEW f \in 1..m, NEW hs \in Seq(Header), hs # <<>>,
           HeadersRead(s, f, m, hs), s[m + 1] \in Byte,
           HeaderStarts(s, f, m + 1) = HeaderStarts(s, f, m),
           NEW i \in HeaderStarts(s, f, m),
           \A j \in HeaderStarts(s, f, m) :
              j <= i /\ (j # i => Part(s, j, m + 1) = Part(s, j, m)),
           NEW k \in i..m - 1, IsFirst(s, i, 58, k), IsValue(s, i, m + 1)
    PROVE  HeadersRead(s, f, m + 1,
              [hs EXCEPT ![Len(hs)].value = Append(@, to_char(s[m + 1]))])
<1> DEFINE c == to_char(s[m + 1])
           y == hs[Len(hs)]
           x == [y EXCEPT !.value = Append(@, c)]
           gs == [hs EXCEPT ![Len(hs)] = x]
<1>0. y \in Header
  <2>1. Len(hs) \in 1..Len(hs)
    OBVIOUS
  <2> QED
    BY <2>1
<1>1. c \in Char
  BY ByteIsChar
<1>2. gs = [hs EXCEPT ![Len(hs)].value = Append(@, c)]
  OBVIOUS
<1>3. Part(s, i, m + 1)
         = [name |-> Part(s, i, m).name, value |-> Append(Part(s, i, m).value, c)]
  <2>1. i \in 1..m
    BY DEF HeaderStarts
  <2> QED
    BY <2>1, PartGrows
<1> HIDE DEF y, c
<1>4. x = [name |-> y.name, value |-> Append(y.value, c)]
  BY <1>0, <1>1, HeaderPushed, Zenon
<1>5. x \in Header
  BY <1>0, <1>1, <1>4, HeaderPushed, Zenon
<1>6. y = Part(s, i, m) => x = Part(s, i, m + 1)
  BY <1>3, <1>4, Zenon
<1> HIDE DEF x
<1>7. /\ gs \in Seq(Header) /\ Len(gs) = Len(hs) /\ gs[Len(hs)] = x
      /\ \A h \in 1..Len(hs) - 1 : gs[h] = hs[h]
  BY <1>5, BackChanged
<1> HIDE DEF gs
<1>8. HeadersRead(s, f, m + 1, gs)
  BY <1>6, <1>7, HeadersChanged DEF y
<1> QED
  BY <1>2, <1>8 DEF c

\* The space behind the colon.
LEMMA SpaceHeaders ==
    ASSUME NEW s, NEW m \in Nat, NEW f \in 1..m, NEW i \in 1..m, InHeaders(s, f, i),
           IsToken(s, i, m - 1), s[m] = 58, NEW hs \in Seq(Header),
           HeadersRead(s, f, m, hs)
    PROVE  HeadersRead(s, f, m + 1, hs)
<1>1. \A k \in i..m - 1 : s[k] \in TokenByte
  BY DEF IsToken, TokenByte
<1>2. \A k \in i..m : s[k] \notin {13, 10} /\ s[k] \notin {32, 9}
  BY <1>1, TokenFacts
<1>3. IsFirst(s, i, 58, m)
  BY <1>1, TokenFacts DEF IsFirst
<1>4. /\ HeaderStarts(s, f, m + 1) = HeaderStarts(s, f, m)
      /\ \A j \in HeaderStarts(s, f, m) : j <= i
  <2>1. \A k \in i..m : s[k] \notin {13, 10}
    BY <1>2
  <2> QED
    BY <2>1, OwnLine
<1>5. \A j \in HeaderStarts(s, f, m) : j < i => Part(s, j, m + 1) = Part(s, j, m)
  <2>1. i \in 1..m + 1 /\ s[i] \notin {32, 9}
    BY <1>2
  <2> QED
    BY <2>1, OldParts
<1>6. Part(s, i, m + 1) = Part(s, i, m)
  <2>1. m \in i..m /\ m < m + 1
    OBVIOUS
  <2> QED
    BY <1>3, <2>1, PartKept
<1>7. \A j \in HeaderStarts(s, f, m) : j # i => j < i
  BY <1>4 DEF HeaderStarts
<1> QED
  BY <1>4, <1>5, <1>6, <1>7, HeadersKept

\* A byte of the text of a header, or its CR.
LEMMA HeaderValueHeaders ==
    ASSUME NEW s, NEW m \in Nat, NEW f \in 1..m, NEW i \in 1..m, InHeaders(s, f, i),
           ValueOfHeader(s, i, m), NEW hs \in Seq(Header), hs # <<>>,
           HeadersRead(s, f, m, hs), s[m + 1] \in Byte
    PROVE  /\ s[m + 1] = 13 => HeadersRead(s, f, m + 1, hs)
           /\ TextByte(s[m + 1]) =>
                HeadersRead(s, f, m + 1,
                   [hs EXCEPT ![Len(hs)].value = Append(@, to_char(s[m + 1]))])
<1>1. PICK c \in i..m - 1 :
        IsFirst(s, i, 58, c) /\ IsToken(s, i, c - 1) /\ s[c + 1] = 32
           /\ IsText(s, c + 2, m)
  BY DEF ValueOfHeader
<1>2. \A k \in i..m : s[k] \notin {13, 10}
  <2> SUFFICES ASSUME NEW k \in i..m PROVE s[k] \notin {13, 10}
    OBVIOUS
  <2>1. CASE k < c
    BY <1>1, <2>1, TokenFacts DEF IsToken, TokenByte
  <2>2. CASE k = c \/ k = c + 1
    BY <1>1, <2>2 DEF IsFirst
  <2>3. CASE k >= c + 2
    BY <1>1, <2>3 DEF IsText
  <2> QED
    BY <1>1, <2>1, <2>2, <2>3
<1>3. s[i] \notin {32, 9}
  BY <1>1, TokenFacts DEF IsToken, TokenByte
<1>4. /\ HeaderStarts(s, f, m + 1) = HeaderStarts(s, f, m)
      /\ \A j \in HeaderStarts(s, f, m) : j <= i
      /\ i \in HeaderStarts(s, f, m)
  BY <1>2, <1>3, OwnLine
<1>5. \A j \in HeaderStarts(s, f, m) : j # i => j < i
  BY <1>4 DEF HeaderStarts
<1>6. i \in 1..m + 1 /\ i \in Nat /\ c \in i..m /\ i >= 3
  BY DEF InHeaders
<1>7. ASSUME s[m + 1] = 13 PROVE HeadersRead(s, f, m + 1, hs)
  <2>1. ASSUME NEW j \in HeaderStarts(s, f, m)
        PROVE  \E k \in j..m : IsFirst(s, j, 58, k)
    <3>1. CASE j = i
      BY <1>1, <1>6, <3>1
    <3>2. CASE j # i
      <4>1. PICK k \in j..i - 1 : IsFirst(s, j, 58, k)
        BY <1>5, <1>6, <3>2, OldColon
      <4>2. k \in j..m
        BY <4>1 DEF HeaderStarts
      <4> QED
        BY <4>1, <4>2
    <3> QED
      BY <3>1, <3>2
  <2> QED
    BY <1>4, <1>7, <2>1, LineEndHeaders
<1>8. ASSUME TextByte(s[m + 1])
      PROVE  HeadersRead(s, f, m + 1,
                   [hs EXCEPT ![Len(hs)].value = Append(@, to_char(s[m + 1]))])
  <2>1. \A j \in HeaderStarts(s, f, m) : j < i => Part(s, j, m + 1) = Part(s, j, m)
    BY <1>3, <1>6, OldParts
  <2>2. \A k \in i + 1..m + 1 : ~IsStart(s, k)
    BY <1>2, <1>6, NoStart
  <2>3. IsValue(s, i, m + 1)
    <3>1. s[m + 1] \notin {13, 10}
      BY <1>8, TextFacts
    <3> QED
      BY <2>2, <3>1, Zenon DEF IsValue
  <2>4. \A j \in HeaderStarts(s, f, m) :
              j <= i /\ (j # i => Part(s, j, m + 1) = Part(s, j, m))
    BY <1>4, <1>5, <2>1
  <2> QED
    BY <1>1, <1>4, <2>3, <2>4, ValueHeaders
<1> QED
  BY <1>7, <1>8

\* On a fold that begins at i, the headers are all before it.
LEMMA FoldFacts ==
    ASSUME NEW s, NEW m \in Nat, NEW f \in 1..m, NEW i \in 1..m, InHeaders(s, f, i),
           s[i] \in {32, 9}, \A k \in i..m : s[k] \notin {13, 10}
    PROVE  /\ HeaderStarts(s, f, m + 1) = HeaderStarts(s, f, m)
           /\ \A j \in HeaderStarts(s, f, m) :
                 j < i /\ \E c \in j..m - 1 : IsFirst(s, j, 58, c)
<1>1. /\ HeaderStarts(s, f, m + 1) = HeaderStarts(s, f, m)
      /\ \A j \in HeaderStarts(s, f, m) : j <= i
      /\ i \notin HeaderStarts(s, f, m)
  BY OwnLine
<1>2. i \in 1..m + 1
  OBVIOUS
<1>3. ASSUME NEW j \in HeaderStarts(s, f, m)
      PROVE  j < i /\ \E c \in j..m - 1 : IsFirst(s, j, 58, c)
  <2>1. j < i
    BY <1>1 DEF HeaderStarts
  <2>2. PICK c \in j..i - 1 : IsFirst(s, j, 58, c)
    BY <1>2, <2>1, OldColon
  <2>3. c \in j..m - 1
    BY <2>2 DEF HeaderStarts
  <2> QED
    BY <2>1, <2>2, <2>3
<1> QED
  BY <1>1, <1>3

\* The CR of a fold and its blanks.
LEMMA FoldEndHeaders ==
    ASSUME NEW s, NEW m \in Nat, NEW f \in 1..m, NEW i \in 1..m, InHeaders(s, f, i),
           s[i] \in {32, 9}, \A k \in i..m : s[k] \notin {13, 10},
           NEW hs \in Seq(Header), HeadersRead(s, f, m, hs)
    PROVE  s[m + 1] = 13 \/ IsBlank(s, i, m + 1) => HeadersRead(s, f, m + 1, hs)
<1>1. /\ HeaderStarts(s, f, m + 1) = HeaderStarts(s, f, m)
      /\ \A j \in HeaderStarts(s, f, m) :
                 j < i /\ \E c \in j..m - 1 : IsFirst(s, j, 58, c)
  BY FoldFacts
<1>2. ASSUME s[m + 1] = 13 PROVE HeadersRead(s, f, m + 1, hs)
  <2>1. \A j \in HeaderStarts(s, f, m) : \E c \in j..m : IsFirst(s, j, 58, c)
    BY <1>1 DEF HeaderStarts
  <2> QED
    BY <1>1, <1>2, <2>1, LineEndHeaders
<1>3. ASSUME IsBlank(s, i, m + 1) PROVE HeadersRead(s, f, m + 1, hs)
  <2>1. i \in 1..m + 1
    OBVIOUS
  <2>2. \A j \in HeaderStarts(s, f, m) : Part(s, j, m + 1) = Part(s, j, m)
    BY <1>1, <1>3, <2>1, OldParts
  <2> QED
    BY <1>1, <2>2, HeadersKept
<1> QED
  BY <1>2, <1>3

\* A set of headers has a last one.
LEMMA LastHeader ==
    ASSUME NEW m \in Nat, NEW S \in SUBSET (1..m), S # {}
    PROVE  \E i \in S : \A j \in S : j <= i
<1> DEFINE T == {m - j : j \in S}
<1>1. T \subseteq Nat /\ T # {}
  <2>1. \A j \in S : m - j \in Nat
    OBVIOUS
  <2>2. \E j \in S : TRUE
    OBVIOUS
  <2> QED
    BY <2>1, <2>2
<1>2. PICK x \in T : \A y \in T : x <= y
  BY <1>1, LeastNatural
<1>3. PICK i \in S : x = m - i
  OBVIOUS
<1>4. ASSUME NEW j \in S PROVE j <= i
  <2>1. m - i <= m - j
    BY <1>2, <1>3
  <2> QED
    BY <2>1
<1> QED
  BY <1>4

\* A byte of the text of a fold goes to the header before it.
LEMMA FoldValueHeaders ==
    ASSUME NEW s, NEW m \in Nat, NEW f \in 1..m, NEW i \in 1..m, InHeaders(s, f, i),
           s[i] \in {32, 9}, \A k \in i..m : s[k] \notin {13, 10},
           NEW hs \in Seq(Header), hs # <<>>, HeadersRead(s, f, m, hs),
           s[m + 1] \in Byte, TextByte(s[m + 1]), ~IsBlank(s, i, m + 1)
    PROVE  HeadersRead(s, f, m + 1,
              [hs EXCEPT ![Len(hs)].value = Append(@, to_char(s[m + 1]))])
<1> DEFINE S == HeaderStarts(s, f, m)
<1>1. /\ HeaderStarts(s, f, m + 1) = S
      /\ \A j \in S : j < i /\ \E c \in j..m - 1 : IsFirst(s, j, 58, c)
  BY FoldFacts
<1>2. S \in SUBSET (1..m)
  BY StartsFacts
<1>3. S # {}
  <2>1. Len(hs) = Cardinality(S) /\ Len(hs) # 0
    BY DEF HeadersRead
  <2> QED
    BY <2>1, FS_EmptySet
<1>4. PICK l \in S : \A j \in S : j <= l
  BY <1>2, <1>3, LastHeader
<1>5. /\ IsStart(s, l) /\ s[l] \notin {32, 9, 13} /\ l \in f + 2..m /\ l < i
      /\ l \in Nat /\ l <= m + 1
  BY <1>1, <1>4 DEF HeaderStarts
<1>6. PICK k \in l..m - 1 : IsFirst(s, l, 58, k)
  BY <1>1
<1>7. ASSUME NEW j \in S, j # l PROVE Part(s, j, m + 1) = Part(s, j, m)
  <2>1. j < l /\ j \in Nat /\ j < i /\ i \in 1..m + 1
    BY <1>1, <1>4, <1>7 DEF HeaderStarts
  <2>2. ~IsValue(s, j, m + 1)
    BY <1>5, <2>1, ValueEnded
  <2> QED
    BY <2>1, <2>2, OldPart
<1>8. IsValue(s, l, m + 1)
  <2>1. s[m + 1] \notin {13, 10}
    BY TextFacts
  <2>2. i \in Nat /\ i >= 3
    BY DEF InHeaders
  <2>3. \A j \in i + 1..m + 1 : ~IsStart(s, j)
    BY <2>2, NoStart
  <2>4. ASSUME NEW j \in l + 1..m + 1, IsStart(s, j)
        PROVE  s[j] \in {32, 9} /\ ~IsBlank(s, j, m + 1)
    <3>1. j <= i
      BY <2>3, <2>4
    <3>2. CASE j = i
      BY <3>2
    <3>3. CASE j < i
      <4>1. j \in f + 2..i - 1 /\ j \notin S
        BY <1>4, <1>5, <3>3
      <4>2. PICK e \in j..i - 2 : IsHeaderLine(s, f, j, e)
        BY <2>4, <4>1 DEF InHeaders
      <4>3. s[j] \in {32, 9, 13}
        BY <2>4, <4>1 DEF HeaderStarts
      <4>4. s[j] \in {32, 9}
        <5>1. s[j] # 13
          BY <4>2 DEF IsHeaderLine, IsLine, IsFirst, IsHeader, IsFold, IsToken,
             IsBlank
        <5> QED
          BY <4>3, <5>1
      <4>5. s[e] = 13 /\ e \in j..m + 1
        BY <4>2 DEF IsHeaderLine, IsLine, IsFirst
      <4>6. ~IsBlank(s, j, m + 1)
        BY <4>5 DEF IsBlank
      <4> QED
        BY <4>4, <4>6
    <3> QED
      BY <3>1, <3>2, <3>3
  <2> QED
    BY <2>1, <2>4, Zenon DEF IsValue
<1> QED
  BY <1>1, <1>4, <1>6, <1>7, <1>8, ValueHeaders

\* The LF of a header or a fold.
LEMMA Newline2Headers ==
    ASSUME NEW s, NEW m \in Nat, NEW f \in 1..m, NEW i \in 1..m, InHeaders(s, f, i),
           IsFirst(s, i, 13, m), IsHeader(s, i, m) \/ IsFold(s, i, m), s[m + 1] = 10,
           NEW hs \in Seq(Header), HeadersRead(s, f, m, hs)
    PROVE  HeadersRead(s, f, m + 1, hs)
<1>1. s[m] = 13 /\ \A k \in i..m - 1 : s[k] # 13
  BY DEF IsFirst
<1>2. i >= f + 2 /\ i < m /\ s[i] # 10
  <2>1. i >= f + 2
    BY DEF InHeaders
  <2>2. CASE IsHeader(s, i, m)
    <3>1. PICK c \in i..m - 2 : IsToken(s, i, c - 1)
      BY <2>2 DEF IsHeader
    <3> QED
      BY <2>1, <3>1, TokenFacts DEF IsToken, TokenByte
  <2>3. CASE IsFold(s, i, m)
    <3>1. PICK t \in i + 1..m : IsBlank(s, i, t - 1)
      BY <2>3 DEF IsFold
    <3> QED
      BY <2>1, <3>1 DEF IsBlank
  <2> QED
    BY <2>2, <2>3
<1>3. ~IsStart(s, m + 1)
  BY <1>1, <1>2 DEF IsStart
<1>4. HeaderStarts(s, f, m + 1) = HeaderStarts(s, f, m)
  BY <1>3, StartsFacts
<1>5. ASSUME NEW j \in HeaderStarts(s, f, m)
      PROVE  \E c \in j..m : IsFirst(s, j, 58, c)
  <2>0. j \in f + 2..m /\ IsStart(s, j) /\ s[j] \notin {32, 9, 13} /\ i \in 1..m + 1
    BY DEF HeaderStarts
  <2>1. CASE j < i
    <3>1. PICK c \in j..i - 1 : IsFirst(s, j, 58, c)
      BY <2>0, <2>1, OldColon
    <3>2. c \in j..m
      BY <2>0, <3>1
    <3> QED
      BY <3>1, <3>2
  <2>2. CASE j = i
    <3>1. IsHeader(s, i, m)
      BY <2>0, <2>2 DEF IsFold, IsBlank
    <3> QED
      BY <2>2, <3>1 DEF IsHeader
  <2>3. CASE j > i
    <3>1. s[j - 2] = 13 /\ s[j - 1] = 10
      BY <2>0 DEF IsStart
    <3>2. j - 2 < i
      BY <1>1, <2>0, <2>3, <3>1
    <3>3. j - 1 = i
      BY <2>0, <2>3, <3>2
    <3> QED
      BY <1>2, <3>1, <3>3
  <2> QED
    BY <2>0, <2>1, <2>2, <2>3
<1> QED
  BY <1>4, <1>5, LineEndHeaders

----------------------------------------------------------------------------
(* The headers in each state.                                              *)

\* The three ways to write to headers hs.
ValuePushed(hs, c) == [hs EXCEPT ![Len(hs)].value = Append(@, c)]
NamePushed(hs, c) == [hs EXCEPT ![Len(hs)].name = Append(@, c)]
HeaderBegun(hs, c) == Append(hs, [name |-> <<c>>, value |-> <<>>])

\* gs is what the byte b makes of hs.
Written(st, hs, b, gs) ==
    LET c == to_char(b)
    IN  gs = CASE st = "header_line_start"
       /\ b \notin {13, 32, 9} -> HeaderBegun(hs, c)
               [] st = "header_name" /\ b # 58 -> NamePushed(hs, c)
               [] (st = "header_lws" /\ b \notin {13, 32, 9})
                     \/ (st = "header_value" /\ b # 13) ->
                     ValuePushed(hs, c)
               [] OTHER -> hs

\* What a byte does to the headers.
LEMMA HeadersWritten ==
    ASSUME NEW st \in States, NEW r \in Request, NEW b,
           NEW hs, hs = r.headers, NEW gs, gs = ReqAfter(st, r, b).headers
    PROVE  Written(st, hs, b, gs)
<1>1. CASE st = "header_line_start" /\ b \notin {13, 32, 9}
  <2>1. gs = Append(hs, [name |-> <<to_char(b)>>, value |-> <<>>])
    BY <1>1 DEF ReqAfter, Request
  <2> QED
    BY <1>1, <2>1 DEF Written, HeaderBegun
<1>2. CASE st = "header_name" /\ b # 58
  <2>1. gs = [hs EXCEPT ![Len(hs)].name = Append(@, to_char(b))]
    BY <1>2 DEF ReqAfter, Request
  <2> QED
    BY <1>2, <2>1 DEF Written, NamePushed
<1>3. CASE (st = "header_lws" /\ b \notin {13, 32, 9})
              \/ (st = "header_value" /\ b # 13)
  <2>1. gs = [hs EXCEPT ![Len(hs)].value = Append(@, to_char(b))]
    BY <1>3 DEF ReqAfter, Request
  <2> QED
    BY <1>3, <2>1 DEF Written, ValuePushed
<1>4. CASE /\ ~(st = "header_line_start" /\ b \notin {13, 32, 9})
           /\ ~(st = "header_name" /\ b # 58)
           /\ ~((st = "header_lws" /\ b \notin {13, 32, 9})
                 \/ (st = "header_value" /\ b # 13))
  <2>1. gs = hs
    BY <1>4 DEF ReqAfter, Request
  <2> QED
    BY <1>4, <2>1 DEF Written
<1> QED
  BY <1>1, <1>2, <1>3, <1>4

\* What req.headers holds in each state.
HeadersField(s, m, st, hs) ==
    /\ st \in LineStates => hs = <<>>
    /\ st \notin LineStates =>
          \E f \in 1..m : IsFirst(s, 1, 13, f) /\ HeadersRead(s, f, m, hs)

\* The line that the parser is in, after a request line that ends at f.
LEMMA SameLine ==
    ASSUME NEW s, NEW m \in Nat, NEW f \in 1..m, IsFirst(s, 1, 13, f),
           NEW g \in 1..m, NEW i, InHeaders(s, g, i)
    PROVE  g = f
<1>1. IsFirst(s, 1, 13, g)
  BY DEF InHeaders, IsLine
<1>2. \A j \in Nat : IsFirst(s, j, 13, f) /\ IsFirst(s, j, 13, g) /\ f >= j
         /\ g >= j => f = g
  BY FirstUnique
<1>3. 1 \in Nat /\ f >= 1 /\ g >= 1
  OBVIOUS
<1> QED
  BY <1>1, <1>2, <1>3, Zenon

\* There is no header yet where the request line ends.
LEMMA NoHeaders ==
    ASSUME NEW s, NEW m \in Nat, m >= 1
    PROVE  HeadersRead(s, m, m + 1, <<>>)
<1>1. HeaderStarts(s, m, m + 1) = {}
  BY DEF HeaderStarts
<1>2. Len(<<>>) = 0 /\ Cardinality({}) = 0
  BY FS_EmptySet
<1> QED
  BY <1>1, <1>2 DEF HeadersRead

\* The bytes of a fold are blanks or text.
LEMMA FoldBytes ==
    ASSUME NEW s, NEW m \in Nat, NEW i \in 1..m, IsBlank(s, i, m)
           \/ ValueOfFold(s, i, m)
    PROVE  /\ s[i] \in {32, 9}
           /\ \A k \in i..m : s[k] \notin {13, 10}
           /\ ValueOfFold(s, i, m) => ~IsBlank(s, i, m + 1)
<1>1. CASE IsBlank(s, i, m)
  <2>1. \A k \in i..m : s[k] \in {32, 9}
    BY <1>1 DEF IsBlank
  <2>2. ~ValueOfFold(s, i, m)
    BY <2>1 DEF ValueOfFold
  <2> QED
    BY <2>1, <2>2
<1>2. CASE ValueOfFold(s, i, m)
  <2>1. PICK t \in i + 1..m : IsBlank(s, i, t - 1) /\ s[t] \notin {32, 9}
           /\ IsText(s, t, m)
    BY <1>2 DEF ValueOfFold
  <2>2. \A k \in i..t - 1 : s[k] \in {32, 9}
    BY <2>1 DEF IsBlank
  <2>3. \A k \in t..m : s[k] \notin {13, 10}
    BY <2>1, TextFacts DEF IsText, TextByte
  <2>4. \A k \in i..m : s[k] \notin {13, 10}
    BY <2>1, <2>2, <2>3
  <2>5. ~IsBlank(s, i, m + 1)
    BY <2>1 DEF IsBlank
  <2> QED
    BY <2>1, <2>2, <2>4, <2>5
<1> QED
  BY <1>1, <1>2

\* In the blanks of a fold.
LEMMA LwsHeaders ==
    ASSUME NEW s, NEW m \in Nat, NEW f \in 1..m, NEW i \in 1..m, InHeaders(s, f, i),
           IsBlank(s, i, m), NEW hs \in Seq(Header), hs # <<>>,
           HeadersRead(s, f, m, hs),
           s[m + 1] \in Byte
    PROVE  /\ s[m + 1] \in {13, 32, 9} => HeadersRead(s, f, m + 1, hs)
           /\ TextByte(s[m + 1]) /\ s[m + 1] \notin {32, 9} =>
                HeadersRead(s, f, m + 1,
                   [hs EXCEPT ![Len(hs)].value = Append(@, to_char(s[m + 1]))])
<1>1. s[i] \in {32, 9} /\ \A k \in i..m : s[k] \notin {13, 10}
  BY FoldBytes
<1>2. s[m + 1] \in {32, 9} <=> IsBlank(s, i, m + 1)
  BY DEF IsBlank
<1>3. s[m + 1] = 13 \/ IsBlank(s, i, m + 1) => HeadersRead(s, f, m + 1, hs)
  BY <1>1, FoldEndHeaders
<1>4. ASSUME TextByte(s[m + 1]), s[m + 1] \notin {32, 9}
      PROVE  HeadersRead(s, f, m + 1,
                   [hs EXCEPT ![Len(hs)].value = Append(@, to_char(s[m + 1]))])
  BY <1>1, <1>2, <1>4, FoldValueHeaders
<1> QED
  BY <1>2, <1>3, <1>4

\* In the text of a fold.
LEMMA FoldTextHeaders ==
    ASSUME NEW s, NEW m \in Nat, NEW f \in 1..m, NEW i \in 1..m, InHeaders(s, f, i),
           ValueOfFold(s, i, m), NEW hs \in Seq(Header), hs # <<>>,
           HeadersRead(s, f, m, hs),
           s[m + 1] \in Byte
    PROVE  /\ s[m + 1] = 13 => HeadersRead(s, f, m + 1, hs)
           /\ TextByte(s[m + 1]) =>
                HeadersRead(s, f, m + 1,
                   [hs EXCEPT ![Len(hs)].value = Append(@, to_char(s[m + 1]))])
<1>1. s[i] \in {32, 9} /\ (\A k \in i..m : s[k] \notin {13, 10})
         /\ ~IsBlank(s, i, m + 1)
  BY FoldBytes
<1>3. s[m + 1] = 13 => HeadersRead(s, f, m + 1, hs)
  BY <1>1, FoldEndHeaders
<1>4. ASSUME TextByte(s[m + 1])
      PROVE  HeadersRead(s, f, m + 1,
                   [hs EXCEPT ![Len(hs)].value = Append(@, to_char(s[m + 1]))])
  BY <1>1, <1>4, FoldValueHeaders
<1> QED
  BY <1>3, <1>4

\* Every byte keeps the headers so.
LEMMA HeadersFieldStep ==
    ASSUME NEW s, NEW m \in Nat, NEW st \in States, Shape(s, m, st),
           s[m + 1] \in Byte,
           NEW r \in Request, HeadersKnown(s, m, st, r.headers = <<>>),
           HeadersField(s, m, st, r.headers),
           NEW h \in BOOLEAN, NEW q, q = After(st, h, s[m + 1]), q # "bad", q # "good"
    PROVE  HeadersField(s, m + 1, q, ReqAfter(st, r, s[m + 1]).headers)
<1> DEFINE b == s[m + 1]
           hs == r.headers
           gs == ReqAfter(st, r, b).headers
<1>0. hs \in Seq(Header)
  BY DEF Request
<1>1. Written(st, hs, b, gs)
  BY HeadersWritten
<1>2. st \in BackStates => hs # <<>>
  BY DEF HeadersKnown
<1>3. HeadersField(s, m, st, hs) /\ b \in Byte
  OBVIOUS
<1> HIDE DEF hs, gs
<1>4. SUFFICES HeadersField(s, m + 1, q, gs)
  BY DEF gs
<1>5. CASE st \in LineStates \ {"expecting_newline_1"}
  <2>1. q \in LineStates /\ gs = hs /\ hs = <<>>
    <3>1. q \in LineStates
      BY <1>5 DEF After, LineStates
    <3>2. gs = hs
      BY <1>1, <1>5 DEF LineStates, Written
    <3> QED
      BY <1>3, <1>5, <3>1, <3>2 DEF HeadersField
  <2> QED
    BY <2>1 DEF HeadersField
<1>6. CASE st = "expecting_newline_1"
  <2>1. gs = <<>> /\ q = "header_line_start" /\ b = 10
    BY <1>1, <1>3, <1>6 DEF HeadersField, LineStates, After, Written
  <2>2. m >= 1 /\ IsFirst(s, 1, 13, m)
    BY <1>6, <2>1, Newline1Step DEF Shape, AtNewline1
  <2>3. HeadersRead(s, m, m + 1, gs)
    BY <2>1, <2>2, NoHeaders
  <2>4. m \in 1..m + 1
    BY <2>2
  <2> QED
    BY <2>1, <2>2, <2>3, <2>4 DEF HeadersField, LineStates
<1>7. CASE st \notin LineStates
  <2>1. PICK f \in 1..m : IsFirst(s, 1, 13, f) /\ HeadersRead(s, f, m, hs)
    BY <1>3, <1>7 DEF HeadersField
  <2>2. q \notin LineStates
    BY <1>7 DEF After, LineStates, States
  <2>3. \A g \in 1..m : \A i : InHeaders(s, g, i) => g = f
    BY <2>1, SameLine
  <2>4. f \in 1..m + 1
    OBVIOUS
  <2>5. SUFFICES HeadersRead(s, f, m + 1, gs)
    BY <2>1, <2>2, <2>4 DEF HeadersField
  <2>6. CASE st = "header_line_start"
    <3>1. InHeaders(s, f, m + 1)
      BY <2>3, <2>6 DEF Shape, AtLineStart
    <3>2. b \in {13, 32, 9} \/ (b \in TokenByte /\ b \notin {13, 32, 9})
      BY <2>6, TokenFacts DEF After
    <3>3. /\ b \in {13, 32, 9} => HeadersRead(s, f, m + 1, hs)
          /\ b \in TokenByte => HeadersRead(s, f, m + 1, HeaderBegun(hs, to_char(b)))
      BY <1>0, <2>1, <3>1, LineStartHeaders DEF HeaderBegun
    <3>4. gs = IF b \in {13, 32, 9} THEN hs ELSE HeaderBegun(hs, to_char(b))
      BY <1>1, <2>6 DEF Written
    <3> QED
      BY <3>2, <3>3, <3>4
  <2>7. CASE st = "header_lws"
    <3>1. PICK i \in 1..m : InHeaders(s, f, i) /\ IsBlank(s, i, m)
      BY <2>3, <2>7 DEF Shape, InLws
    <3>2. b \in {13, 32, 9} \/ (TextByte(b) /\ b \notin {13, 32, 9})
      BY <2>7, TextFacts DEF After
    <3>3. hs # <<>>
      BY <1>2, <2>7 DEF BackStates, UsesBack
    <3>4. /\ b \in {13, 32, 9} => HeadersRead(s, f, m + 1, hs)
          /\ TextByte(b) /\ b \notin {32, 9} =>
                HeadersRead(s, f, m + 1, ValuePushed(hs, to_char(b)))
      BY <1>0, <2>1, <3>1, <3>3, LwsHeaders DEF ValuePushed
    <3>5. gs = IF b \in {13, 32, 9} THEN hs ELSE ValuePushed(hs, to_char(b))
      BY <1>1, <2>7 DEF Written
    <3> QED
      BY <3>2, <3>4, <3>5
  <2>8. CASE st = "header_name"
    <3>1. PICK i \in 1..m : InHeaders(s, f, i) /\ IsToken(s, i, m)
      BY <2>3, <2>8 DEF Shape, InName
    <3>3. hs # <<>>
      BY <1>2, <2>8 DEF BackStates, UsesBack
    <3>4. /\ b = 58 => HeadersRead(s, f, m + 1, hs)
          /\ b # 58 => HeadersRead(s, f, m + 1, NamePushed(hs, to_char(b)))
      BY <1>0, <2>1, <3>1, <3>3, NameHeaders DEF NamePushed
    <3>5. gs = IF b = 58 THEN hs ELSE NamePushed(hs, to_char(b))
      BY <1>1, <2>8 DEF Written
    <3> QED
      BY <3>4, <3>5
  <2>9. CASE st = "space_before_header_value"
    <3>1. PICK i \in 1..m : InHeaders(s, f, i) /\ IsToken(s, i, m - 1) /\ s[m] = 58
      BY <2>3, <2>9 DEF Shape, AtSpace
    <3>2. gs = hs
      BY <1>1, <2>9 DEF Written
    <3> QED
      BY <1>0, <2>1, <3>1, <3>2, SpaceHeaders
  <2>10. CASE st = "header_value"
    <3>1. PICK i \in 1..m : InHeaders(s, f, i)
             /\ (ValueOfHeader(s, i, m) \/ ValueOfFold(s, i, m))
      BY <2>3, <2>10 DEF Shape, InValue
    <3>2. b = 13 \/ (TextByte(b) /\ b # 13)
      BY <2>10 DEF After
    <3>3. hs # <<>>
      BY <1>2, <2>10 DEF BackStates, UsesBack
    <3>4. /\ b = 13 => HeadersRead(s, f, m + 1, hs)
          /\ TextByte(b) => HeadersRead(s, f, m + 1, ValuePushed(hs, to_char(b)))
      <4>1. CASE ValueOfHeader(s, i, m)
        BY <1>0, <2>1, <3>1, <3>3, <4>1, HeaderValueHeaders DEF ValuePushed
      <4>2. CASE ValueOfFold(s, i, m)
        BY <1>0, <2>1, <3>1, <3>3, <4>2, FoldTextHeaders DEF ValuePushed
      <4> QED
        BY <3>1, <4>1, <4>2
    <3>5. gs = IF b = 13 THEN hs ELSE ValuePushed(hs, to_char(b))
      BY <1>1, <2>10 DEF Written
    <3> QED
      BY <3>2, <3>4, <3>5
  <2>11. CASE st = "expecting_newline_2"
    <3>1. PICK i \in 1..m : /\ InHeaders(s, f, i) /\ IsFirst(s, i, 13, m)
                            /\ IsHeader(s, i, m) \/ IsFold(s, i, m)
      BY <2>3, <2>11 DEF Shape, AtNewline2
    <3>2. gs = hs /\ b = 10
      BY <1>1, <2>11 DEF After, Written
    <3> QED
      BY <1>0, <2>1, <3>1, <3>2, Newline2Headers
  <2>12. CASE st = "expecting_newline_3"
    BY <2>12 DEF After
  <2> QED
    BY <1>7, <2>6, <2>7, <2>8, <2>9, <2>10, <2>11, <2>12 DEF LineStates, States
<1> QED
  BY <1>5, <1>6, <1>7

----------------------------------------------------------------------------
(* All fields, and the request that is handed over.                        *)

\* A row of digits spells one number,
LEMMA ReadsUnique ==
    ASSUME NEW digits, NEW v, NEW w, ReadsAs(digits, v), ReadsAs(digits, w)
    PROVE  v = w
<1> DEFINE D == 0..Len(digits)
           T == {k \in D : v[k] # w[k]}
<1>1. /\ v = [k \in D |-> IF k = 0 THEN 0 ELSE 10 * v[k - 1] + digits[k] - DIGIT0]
      /\ w = [k \in D |-> IF k = 0 THEN 0 ELSE 10 * w[k - 1] + digits[k] - DIGIT0]
  BY Zenon DEF ReadsAs
<1>2. SUFFICES ASSUME T # {} PROVE FALSE
  <2>1. v = [k \in D |-> v[k]] /\ w = [k \in D |-> w[k]]
    BY <1>1
  <2> QED
    BY <2>1
<1>3. T \subseteq Nat
  OBVIOUS
<1>4. PICK k \in T : \A j \in T : k <= j
  BY <1>2, <1>3, LeastNatural
<1>5. k \in Nat /\ k \in D
  BY <1>3
<1>6. /\ v[k] = IF k = 0 THEN 0 ELSE 10 * v[k - 1] + digits[k] - DIGIT0
      /\ w[k] = IF k = 0 THEN 0 ELSE 10 * w[k - 1] + digits[k] - DIGIT0
  BY <1>1, <1>5
<1>7. k # 0
  BY <1>6
<1>8. k - 1 \in D /\ ~(k <= k - 1)
  BY <1>5, <1>7
<1>9. v[k - 1] = w[k - 1]
  BY <1>4, <1>8
<1> QED
  BY <1>6, <1>9

\* the one that Decimal computes,
LEMMA DecimalIs ==
    ASSUME NEW digits, NEW v, ReadsAs(digits, v)
    PROVE  Decimal(digits) = v[Len(digits)]
<1> DEFINE w == CHOOSE x : x = [k \in 0..Len(digits) |->
                                  IF k = 0 THEN 0
                                     ELSE 10 * x[k - 1] + digits[k] - DIGIT0]
<1>1. Decimal(digits) = w[Len(digits)]
  BY Zenon DEF Decimal
<1>2. ReadsAs(digits, w)
  BY Zenon DEF ReadsAs
<1> HIDE DEF w
<1> QED
  BY <1>1, <1>2, ReadsUnique

\* and a version field holds it modulo 256.
LEMMA CountsIs ==
    ASSUME NEW digits, NEW x, Counts(digits, x)
    PROVE  x = Decimal(digits) % 256
<1>1. PICK v \in [0..Len(digits) -> Nat] : ReadsAs(digits, v)
         /\ x = v[Len(digits)] % 256
  BY DEF Counts
<1> QED
  BY <1>1, DecimalIs

\* The fields of the request after m bytes.
FieldsRead(s, m, st, r) ==
    /\ MethodField(s, m, st, r.method)
    /\ UriField(s, m, st, r.uri)
    /\ MajorField(s, m, st, r.http_version_major)
    /\ MinorField(s, m, st, r.http_version_minor)
    /\ HeadersField(s, m, st, r.headers)

\* At the LF of the empty line every header is complete.
LEMMA HeadersEnd ==
    ASSUME NEW s, NEW m \in Nat, NEW f \in 1..m, InHeaders(s, f, m), s[m] = 13,
           s[m + 1] = 10, NEW hs \in Seq(Header), HeadersRead(s, f, m, hs)
    PROVE  hs = [h \in 1..Cardinality(HeaderStarts(s, f, m + 1)) |->
                   HeaderAt(s, Nth(HeaderStarts(s, f, m + 1), h), m + 1)]
<1> DEFINE S == HeaderStarts(s, f, m)
           W == HeaderStarts(s, f, m + 1)
<1>1. ~IsStart(s, m + 1)
  <2>1. (m + 1) - 1 = m /\ m + 1 # 1
    OBVIOUS
  <2> QED
    BY <2>1 DEF IsStart
<1>2. W = S
  BY <1>1, StartsFacts
<1>3. ASSUME NEW j \in S PROVE \E c \in j..m : IsFirst(s, j, 58, c)
  <2>1. j \in 1..m /\ s[j] # 13
    BY DEF HeaderStarts
  <2>2. j < m /\ m \in 1..m + 1
    BY <2>1
  <2>3. PICK c \in j..m - 1 : IsFirst(s, j, 58, c)
    BY <2>2, OldColon
  <2>4. c \in j..m
    BY <2>1, <2>3
  <2> QED
    BY <2>3, <2>4
<1>4. HeadersRead(s, f, m + 1, hs)
  BY <1>2, <1>3, LineEndHeaders
<1>5. ASSUME NEW j \in S PROVE Part(s, j, m + 1) = HeaderAt(s, j, m + 1)
  <2>1. PICK c \in j..m : IsFirst(s, j, 58, c)
    BY <1>3
  <2>2. c \in j..m + 1 /\ s[c] = 58
    BY <2>1 DEF IsFirst, HeaderStarts
  <2> QED
    BY <2>2 DEF Part
<1>6. S \in SUBSET (1..m)
  BY StartsFacts
<1>7. \A h \in 1..Cardinality(S) : Nth(S, h) \in S
  BY <1>6, NthFacts
<1>8. Len(hs) = Cardinality(S)
         /\ \A h \in 1..Len(hs) : hs[h] = Part(s, Nth(S, h), m + 1)
  BY <1>2, <1>4 DEF HeadersRead
<1> HIDE DEF S, W
<1>9. \A h \in 1..Cardinality(S) : hs[h] = HeaderAt(s, Nth(S, h), m + 1)
  BY <1>5, <1>7, <1>8
<1>10. hs = [h \in 1..Cardinality(S) |-> hs[h]]
  BY <1>8
<1>11. hs = [h \in 1..Cardinality(S) |-> HeaderAt(s, Nth(S, h), m + 1)]
  BY <1>9, <1>10
<1> QED
  BY <1>2, <1>11 DEF S, W

\* The request of a parser that has come to the end of a message.
LEMMA FieldsEnd ==
    ASSUME NEW s, NEW m \in Nat, Shape(s, m, "expecting_newline_3"), s[m + 1] = 10,
           NEW r \in Request, FieldsRead(s, m, "expecting_newline_3", r)
    PROVE  r = FieldsOf(s, m + 1)
<1> DEFINE st == "expecting_newline_3"
           n == m + 1
<1>0. /\ st \notin MethodStates /\ st \notin UriStates
      /\ st \notin PrefixStates \cup MajorStates
      /\ st \notin PrefixStates \cup MajorStates \cup MinorStates
      /\ st \notin LineStates
  BY DEF MethodStates, UriStates, PrefixStates, MajorStates, MinorStates, LineStates
<1>1. PICK g \in 1..m : InHeaders(s, g, m) /\ s[m] = 13
  BY DEF Shape, AtNewline3
<1>2. PICK a \in 1..m : IsMethod(s, a) /\ r.method = Chars(s, 1, a - 1)
  BY <1>0 DEF FieldsRead, MethodField
<1>3. PICK a2 \in 1..m, b \in 1..m : UpToUri(s, a2, b)
         /\ r.uri = Chars(s, a2 + 1, b - 1)
  BY <1>0 DEF FieldsRead, UriField
<1>4. PICK a3 \in 1..m, b3 \in 1..m, d \in 1..m :
         /\ b3 + 6 <= d /\ UpToDot(s, a3, b3, d)
         /\ Counts(Chars(s, b3 + 6, d - 1), r.http_version_major)
  BY <1>0 DEF FieldsRead, MajorField
<1>5. PICK a4 \in 1..m, b4 \in 1..m, d4 \in 1..m, f \in 1..m :
         /\ b4 + 6 <= d4 /\ UpToDot(s, a4, b4, d4) /\ IsFirst(s, 1, 13, f)
         /\ Counts(Chars(s, d4 + 1, f - 1), r.http_version_minor)
  BY <1>0 DEF FieldsRead, MinorField
<1>6. PICK f5 \in 1..m : IsFirst(s, 1, 13, f5) /\ HeadersRead(s, f5, m, r.headers)
  BY <1>0 DEF FieldsRead, HeadersField
<1>7. g = f /\ g = f5
  BY <1>1, <1>5, <1>6, SameLine
<1>8. a2 = a
  BY <1>2, <1>3, FirstUnique DEF UpToUri, IsMethod
<1>9. b3 = b /\ b4 = b
  BY <1>3, <1>4, <1>5, CutsUnique DEF UpToDot, UpToSlash, UpToUri
<1>10. d4 = d
  BY <1>4, <1>5, <1>9, FirstUnique DEF UpToDot, IsMajor
<1>11. /\ First(s, 1, n, 13) = f
       /\ First(s, 1, n, 32) = a
       /\ First(s, a + 1, n, 32) = b
       /\ First(s, b + 6, n, 46) = d
  <2>0. \A i, k \in Nat : \A x : k >= i /\ k <= n /\ IsFirst(s, i, x, k)
           => First(s, i, n, x) = k
    <3> SUFFICES ASSUME NEW i \in Nat, NEW k \in Nat, NEW x, k >= i, k <= n,
       IsFirst(s, i, x, k)
                 PROVE  First(s, i, n, x) = k
      OBVIOUS
    <3>1. k \in i..n /\ n \in Nat
      OBVIOUS
    <3> HIDE DEF n
    <3> QED
      BY <3>1, FirstIs
  <2>1. /\ IsFirst(s, 1, 13, f) /\ IsFirst(s, 1, 32, a) /\ IsFirst(s, a + 1, 32, b)
        /\ IsFirst(s, b + 6, 46, d)
    BY <1>2, <1>3, <1>4, <1>5, <1>8, <1>9 DEF IsMethod, UpToUri, IsUri, UpToDot,
       IsMajor
  <2>2. /\ 1 \in Nat /\ f \in Nat /\ a \in Nat /\ b \in Nat /\ d \in Nat
        /\ a + 1 \in Nat /\ b + 6 \in Nat
        /\ f <= n /\ a <= n /\ b <= n /\ d <= n
        /\ f >= 1 /\ a >= 1 /\ b >= a + 1 /\ d >= b + 6
    BY <1>3, <1>4, <1>8, <1>9 DEF UpToUri
  <2> HIDE DEF n
  <2>3. First(s, 1, n, 13) = f
    <3>1. 1 \in Nat /\ f \in Nat /\ f >= 1 /\ f <= n /\ IsFirst(s, 1, 13, f)
      BY <2>1, <2>2, Zenon
    <3> QED
      BY <2>0, <3>1, Zenon
  <2>4. First(s, 1, n, 32) = a
    BY <2>0, <2>1, <2>2, Zenon
  <2>5. First(s, a + 1, n, 32) = b
    BY <2>0, <2>1, <2>2, Zenon
  <2>6. First(s, b + 6, n, 46) = d
    BY <2>0, <2>1, <2>2, Zenon
  <2> QED
    BY <2>3, <2>4, <2>5, <2>6
<1>12. r.headers \in Seq(Header)
  BY DEF Request
<1>13. r.headers = [h \in 1..Cardinality(HeaderStarts(s, f, n)) |->
                      HeaderAt(s, Nth(HeaderStarts(s, f, n), h), n)]
  <2>1. PICK hs \in Seq(Header) : hs = r.headers
    BY <1>12
  <2>2. InHeaders(s, f, m) /\ HeadersRead(s, f, m, hs)
    BY <1>1, <1>6, <1>7, <2>1
  <2>3. hs = [h \in 1..Cardinality(HeaderStarts(s, f, m + 1)) |->
                HeaderAt(s, Nth(HeaderStarts(s, f, m + 1), h), m + 1)]
    BY <1>1, <2>2, HeadersEnd
  <2> QED
    BY <2>1, <2>3
<1>14. /\ r.http_version_major = Decimal(Chars(s, b + 6, d - 1)) % 256
       /\ r.http_version_minor = Decimal(Chars(s, d + 1, f - 1)) % 256
  BY <1>4, <1>5, <1>9, <1>10, CountsIs
<1>15. r.method = Chars(s, 1, a - 1) /\ r.uri = Chars(s, a + 1, b - 1)
  BY <1>2, <1>3, <1>8
<1>16. r = [method |-> r.method, uri |-> r.uri,
            http_version_major |-> r.http_version_major,
            http_version_minor |-> r.http_version_minor, headers |-> r.headers]
  BY DEF Request
<1>17. FieldsOf(s, n)
         = [method |-> Chars(s, 1, a - 1),
            uri |-> Chars(s, a + 1, b - 1),
            http_version_major |-> Decimal(Chars(s, b + 6, d - 1)) % 256,
            http_version_minor |-> Decimal(Chars(s, d + 1, f - 1)) % 256,
            headers |-> [h \in 1..Cardinality(HeaderStarts(s, f, n)) |->
                           HeaderAt(s, Nth(HeaderStarts(s, f, n), h), n)]]
  BY <1>11, ZenonT(60) DEF FieldsOf
<1> QED
  BY <1>13, <1>14, <1>15, <1>16, <1>17, Zenon

\* The fields a parser has collected, and those it hands over.
Reads(s, m, p) ==
    /\ p.result = "indeterminate" => FieldsRead(s, m, p.state_, p.req)
    /\ p.result = "good" => p.req = FieldsOf(s, m)

\* A fresh parser, whatever its version bytes hold.
LEMMA ReadsStart ==
    ASSUME NEW s, NEW u \in UInt8, NEW v \in UInt8
    PROVE  Reads(s, 0, new_parser(u, v))
<1> DEFINE p == new_parser(u, v)
<1>1. /\ p.state_ = "method_start" /\ p.result = "indeterminate"
      /\ p.req.method = <<>> /\ p.req.uri = <<>> /\ p.req.headers = <<>>
  BY DEF new_parser, fresh_request
<1>2. Chars(s, 1, 0) = <<>>
  BY DEF Chars
<1> HIDE DEF p
<1>3. FieldsRead(s, 0, "method_start", p.req)
  BY <1>1, <1>2 DEF FieldsRead, MethodField, UriField, MajorField, MinorField,
     HeadersField,
     MethodStates, UriStates, PrefixStates, MajorStates, MinorStates, LineStates
<1>4. Reads(s, 0, p)
  BY <1>1, <1>3 DEF Reads
<1> QED
  BY <1>4 DEF p

\* Every accepted byte keeps all the fields so.
LEMMA FieldsReadStep ==
    ASSUME NEW s, NEW m \in Nat, \A k \in 1..m + 1 : s[k] \in Byte,
           NEW st \in States, Shape(s, m, st), NEW r \in Request,
           HeadersKnown(s, m, st, r.headers = <<>>), FieldsRead(s, m, st, r),
           NEW h \in BOOLEAN, NEW q, q = After(st, h, s[m + 1]), q # "bad", q # "good"
    PROVE  FieldsRead(s, m + 1, q, ReqAfter(st, r, s[m + 1]))
<1>0. s[m + 1] \in Byte
  OBVIOUS
<1>1. MethodField(s, m + 1, q, ReqAfter(st, r, s[m + 1]).method)
  BY MethodFieldStep DEF FieldsRead
<1>2. UriField(s, m + 1, q, ReqAfter(st, r, s[m + 1]).uri)
  BY UriFieldStep DEF FieldsRead
<1>3. MajorField(s, m + 1, q, ReqAfter(st, r, s[m + 1]).http_version_major)
  BY MajorFieldStep DEF FieldsRead
<1>4. MinorField(s, m + 1, q, ReqAfter(st, r, s[m + 1]).http_version_minor)
  BY MinorFieldStep DEF FieldsRead
<1>5. HeadersField(s, m + 1, q, ReqAfter(st, r, s[m + 1]).headers)
  BY <1>0, HeadersFieldStep DEF FieldsRead
<1> QED
  BY <1>1, <1>2, <1>3, <1>4, <1>5 DEF FieldsRead

\* consume() collects the fields of the message.
LEMMA ReadsStep ==
    ASSUME NEW s, NEW m \in Nat, \A k \in 1..m + 1 : s[k] \in Byte,
           NEW p, ParserInv(p), p.result = "indeterminate", Follows(s, m, p),
              Reads(s, m, p)
    PROVE  Reads(s, m + 1, consume(p, to_char(s[m + 1])))
<1> DEFINE b == s[m + 1]
           q == consume(p, to_char(b))
           st == p.state_
<1>0. PICK h \in BOOLEAN : h = (p.req.headers # <<>>)
  OBVIOUS
<1>a. b \in Byte
  OBVIOUS
<1>1. q \in Parser
  BY <1>a, ByteIsChar, ConsumeKeeps DEF ParserInv
<1>2. /\ p \in Parser /\ p.req \in Request /\ st \in States
      /\ Shape(s, m, st) /\ FieldsRead(s, m, st, p.req)
      /\ HeadersKnown(s, m, st, p.req.headers = <<>>)
  BY DEF Follows, Parser, Reads
<1>3. Place(q) = After(st, h, b)
  BY <1>0, <1>2, <1>a, ConsumeGoes
<1>4. Place(q) # "bad" => q.req = ReqAfter(st, p.req, b)
  BY <1>0, <1>2, <1>3, <1>a, ConsumeWrites
<1>5. q.state_ \in States /\ q.result \in Results
  BY <1>1 DEF Parser
<1> HIDE DEF q
<1>6. ASSUME q.result = "indeterminate" PROVE FieldsRead(s, m + 1, q.state_, q.req)
  <2>1. Place(q) = q.state_ /\ q.state_ # "bad" /\ q.state_ # "good"
    BY <1>5, <1>6 DEF Place, States
  <2>2. FieldsRead(s, m + 1, q.state_, ReqAfter(st, p.req, b))
    BY <1>2, <1>3, <2>1, FieldsReadStep
  <2> QED
    BY <1>4, <2>1, <2>2
<1>7. ASSUME q.result = "good" PROVE q.req = FieldsOf(s, m + 1)
  <2>1. Place(q) = "good"
    BY <1>7 DEF Place
  <2>2. st = "expecting_newline_3" /\ b = 10
    BY <1>2, <1>3, <2>1 DEF After, States
  <2>3. q.req = p.req
    BY <1>4, <2>1, <2>2 DEF ReqAfter
  <2> QED
    BY <1>2, <2>2, <2>3, FieldsEnd
<1> QED
  BY <1>6, <1>7 DEF Reads, q
=============================================================================
