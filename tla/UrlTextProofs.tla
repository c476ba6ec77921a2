---------------------------- MODULE UrlTextProofs ----------------------------
(***************************************************************************)
(* UrlText for every host, port, path and length, and every width of an    *)
(* unsigned int: parseURL finds the parts a URL was made of, atoi and atoh *)
(* the numbers that the digits stand for.                                  *)
(*                                                                         *)
(* Loops over texts need induction.  SetInduction is the principle, stated *)
(* for a set of naturals instead of a predicate; Iteration, proved with    *)
(* it, is what makes a recursive function satisfy its equation.            *)
(***************************************************************************)
EXTENDS UrlText, TLAPS, SequenceTheorems, FiniteSetTheorems

(* A set of naturals that has 0, and with any number the next, is all of them. *)
LEMMA SetInduction == ASSUME NEW T, 0 \in T, \A n \in Nat : n \in T => n + 1 \in T
                      PROVE  Nat \subseteq T
<1> SUFFICES ASSUME Nat \ T # {} PROVE FALSE
  OBVIOUS
<1> DEFINE R == {ss \in Nat \X Nat : ss[1] < ss[2]}
<1>1. IsWellFoundedOn(R, Nat)
  BY NatLessThanWellFounded DEF OpToRel
<1> HIDE DEF R
<1>2. PICK m \in Nat \ T : \A k \in Nat \ T : <<k, m>> \notin R
  <2>1. Nat \ T \subseteq Nat
    OBVIOUS
  <2> QED
    BY <1>1, <2>1, WFMin
<1>3. m # 0 /\ m - 1 \in Nat
  OBVIOUS
<1>4. m - 1 \in Nat \ T
  BY <1>3
<1>5. <<m - 1, m>> \in R
  BY <1>3 DEF R
<1> QED
  BY <1>2, <1>4, <1>5

(* A step can be repeated n times. *)
Iterates(first, n, step) ==
    \E g \in [0..n -> Nat] : g[0] = first /\ \A i \in 1..n : g[i] = step[<<g[i - 1], i>>]

LEMMA Iteration == ASSUME NEW first \in Nat, NEW n \in Nat, NEW step \in [Nat \X Nat -> Nat]
                   PROVE  Iterates(first, n, step)
<1> DEFINE Good(m, g) == g[0] = first /\ \A i \in 1..m : g[i] = step[<<g[i - 1], i>>]
           T == {m \in Nat : \E g \in [0..m -> Nat] : Good(m, g)}
<1>1. 0 \in T
  <2>1. [i \in 0..0 |-> first] \in [0..0 -> Nat] /\ Good(0, [i \in 0..0 |-> first])
    OBVIOUS
  <2> QED
    BY <2>1
<1>2. ASSUME NEW m \in Nat, m \in T PROVE m + 1 \in T
  <2>1. PICK g \in [0..m -> Nat] : Good(m, g)
    BY <1>2
  <2> DEFINE next == step[<<g[m], m + 1>>]
             h == [i \in 0..(m + 1) |-> IF i = m + 1 THEN next ELSE g[i]]
  <2>2. next \in Nat
    OBVIOUS
  <2>3. ASSUME NEW i \in 1..(m + 1) PROVE h[i] = step[<<h[i - 1], i>>]
    <3>1. h[i - 1] = g[i - 1]
      OBVIOUS
    <3>2. CASE i = m + 1
      <4>1. h[i] = next /\ i - 1 = m
        BY <3>2
      <4> QED
        BY <3>1, <3>2, <4>1
    <3>3. CASE i # m + 1
      <4>1. i \in 1..m /\ h[i] = g[i]
        BY <3>3
      <4>2. g[i] = step[<<g[i - 1], i>>]
        BY <2>1, <4>1
      <4> QED
        BY <3>1, <4>1, <4>2
    <3> QED
      BY <3>2, <3>3
  <2>4. h \in [0..(m + 1) -> Nat]
    <3> HIDE DEF next
    <3> QED
      BY <2>2
  <2>5. h[0] = first
    BY <2>1
  <2> HIDE DEF h
  <2>6. Good(m + 1, h)
    BY <2>3, <2>5
  <2> HIDE DEF Good
  <2>7. \E f \in [0..(m + 1) -> Nat] : Good(m + 1, f)
    BY <2>4, <2>6
  <2>8. m + 1 \in Nat
    OBVIOUS
  <2> QED
    BY <2>7, <2>8, Zenon
<1> HIDE DEF T
<1>3. n \in T
  BY <1>1, <1>2, SetInduction
<1> QED
  BY <1>3 DEF T, Iterates

-----------------------------------------------------------------------------
(* A part of a text is found again between what stands before and after it. *)
LEMMA Parts ==
    ASSUME NEW S, NEW a \in Seq(S), NEW b \in Seq(S), NEW c \in Seq(S), NEW text, text = (a \o b) \o c
    PROVE  /\ text \in Seq(S)
           /\ Len(text) = Len(a) + Len(b) + Len(c)
           /\ \A i \in 1..Len(a) : text[i] = a[i]
           /\ \A i \in 1..Len(b) : text[Len(a) + i] = b[i]
           /\ \A i \in 1..Len(c) : text[Len(a) + Len(b) + i] = c[i]
           /\ SubSeq(text, 1, Len(a)) = a
           /\ SubSeq(text, Len(a) + 1, Len(a) + Len(b)) = b
           /\ SubSeq(text, Len(a) + Len(b) + 1, Len(text)) = c
<1>0. Len(a) \in Nat /\ Len(b) \in Nat /\ Len(c) \in Nat
  BY LenProperties
<1>1. a \o b \in Seq(S) /\ Len(a \o b) = Len(a) + Len(b)
  BY ConcatProperties
<1>2. text \in Seq(S) /\ Len(text) = Len(a) + Len(b) + Len(c)
  BY <1>1, ConcatProperties
<1>3. \A i \in 1..Len(a) : text[i] = a[i]
  OBVIOUS
<1>4. \A i \in 1..Len(b) : text[Len(a) + i] = b[i]
  OBVIOUS
<1>5. \A i \in 1..Len(c) : text[Len(a) + Len(b) + i] = c[i]
  OBVIOUS
<1>9. \A i \in 1..Len(text) : text[i] \in S
  BY <1>2, ElementOfSeq
<1>6. SubSeq(text, 1, Len(a)) = a
  <2> DEFINE s == SubSeq(text, 1, Len(a))
  <2>1. s \in Seq(S) /\ Len(s) = Len(a) /\ \A i \in 1..Len(s) : s[i] = text[i]
    BY <1>0, <1>2, <1>9
  <2> HIDE DEF s
  <2>2. s = a
    BY <1>0, <1>3, <2>1, SeqEqual
  <2> QED
    BY <2>2 DEF s
<1>7. SubSeq(text, Len(a) + 1, Len(a) + Len(b)) = b
  <2> DEFINE s == SubSeq(text, Len(a) + 1, Len(a) + Len(b))
  <2>1. s \in Seq(S) /\ Len(s) = Len(b) /\ \A i \in 1..Len(s) : s[i] = text[Len(a) + i]
    BY <1>0, <1>2, <1>9
  <2> HIDE DEF s
  <2>2. s = b
    BY <1>0, <1>4, <2>1, SeqEqual
  <2> QED
    BY <2>2 DEF s
<1>8. SubSeq(text, Len(a) + Len(b) + 1, Len(text)) = c
  <2> DEFINE s == SubSeq(text, Len(a) + Len(b) + 1, Len(text))
  <2>1. s \in Seq(S) /\ Len(s) = Len(c) /\ \A i \in 1..Len(s) : s[i] = text[Len(a) + Len(b) + i]
    BY <1>0, <1>2, <1>9
  <2> HIDE DEF s
  <2>2. s = c
    BY <1>0, <1>5, <2>1, SeqEqual
  <2> QED
    BY <2>2 DEF s
<1> QED
  BY <1>2, <1>3, <1>4, <1>5, <1>6, <1>7, <1>8

(* The library's associativity of \o, with a goal of its own for the prover. *)
LEMMA Rebracket == ASSUME NEW S, NEW a \in Seq(S), NEW b \in Seq(S), NEW c \in Seq(S)
                   PROVE  (a \o b) \o c = a \o (b \o c)
  BY ConcatAssociative

-----------------------------------------------------------------------------
(* The least and the greatest element of a set. *)
LEMMA MinIs == ASSUME NEW A, A \subseteq Int, NEW k \in A, \A x \in A : k <= x
               PROVE  Min(A) = k
<1>1. Min(A) \in A /\ \A x \in A : Min(A) <= x
  BY DEF Min
<1>2. Min(A) \in Int /\ k \in Int /\ Min(A) <= k /\ k <= Min(A)
  BY <1>1
<1> QED
  BY <1>2

LEMMA MaxIs == ASSUME NEW A, A \subseteq Int, NEW k \in A, \A x \in A : k >= x
               PROVE  Max(A) = k
<1>1. Max(A) \in A /\ \A x \in A : Max(A) >= x
  BY DEF Max
<1>2. Max(A) \in Int /\ k \in Int /\ Max(A) >= k /\ k >= Max(A)
  BY <1>1
<1> QED
  BY <1>2

(* The character d is at n - 1 places before the one at k, and there:        *)
(* getIndexOf for n times stops at k, whose index is k - 1.                  *)
LEMMA IndexFound ==
    ASSUME NEW text, Len(text) \in Nat, NEW d, NEW n \in Nat, NEW k \in 1..Len(text), text[k] = d,
           NEW before, \A j : j \in before <=> j \in 1..(k - 1) /\ text[j] = d,
           IsFiniteSet(before), Cardinality(before) + 1 = n
    PROVE  GetIndexOf(text, d, n) = k - 1
<1> DEFINE At(i) == {j \in 1..i : text[j] = d}
           found == {i \in 1..Len(text) : Cardinality(At(i)) = n}
<1>0. At(k - 1) = before
  OBVIOUS
<1>1. At(k) = At(k - 1) \cup {k} /\ k \notin At(k - 1)
  OBVIOUS
<1>2. k \in found
  <2>1. Cardinality(At(k - 1) \cup {k}) = n
    <3> HIDE DEF At
    <3>1. IsFiniteSet(At(k - 1)) /\ Cardinality(At(k - 1)) + 1 = n
      BY <1>0
    <3> QED
      BY <1>1, <3>1, FS_AddElement
  <2> QED
    BY <1>1, <2>1
<1>3. ASSUME NEW i \in 1..Len(text), i < k PROVE i \notin found
  <2>1. At(i) \subseteq At(k - 1)
    BY <1>3
  <2>2. Cardinality(At(i)) < n /\ Cardinality(At(i)) \in Nat
    <3> HIDE DEF At
    <3>1. IsFiniteSet(At(k - 1)) /\ Cardinality(At(k - 1)) + 1 = n
      BY <1>0
    <3> QED
      BY <2>1, <3>1, FS_Subset, FS_CardinalityType
  <2> QED
    BY <2>2
<1>4. \A i \in found : k <= i
  BY <1>3
<1>5. Min(found) = k
  <2> HIDE DEF found
  <2>1. found \subseteq Int
    BY DEF found
  <2> QED
    BY <1>2, <1>4, <2>1, MinIs
<1>6. found # {}
  BY <1>2
<1>7. GetIndexOf(text, d, n) = IF found = {} THEN -1 ELSE Min(found) - 1
  BY DEF GetIndexOf
<1> HIDE DEF found
<1> QED
  BY <1>5, <1>6, <1>7

(* It occurs fewer times: there is no such index. *)
LEMMA IndexMissing ==
    ASSUME NEW text, Len(text) \in Nat, NEW d, NEW n \in Nat,
           NEW all, \A j : j \in all <=> j \in 1..Len(text) /\ text[j] = d,
           IsFiniteSet(all), Cardinality(all) < n
    PROVE  GetIndexOf(text, d, n) = -1
<1> DEFINE At(i) == {j \in 1..i : text[j] = d}
           found == {i \in 1..Len(text) : Cardinality(At(i)) = n}
<1>0. At(Len(text)) = all
  OBVIOUS
<1>1. ASSUME NEW i \in 1..Len(text) PROVE i \notin found
  <2>1. At(i) \subseteq At(Len(text))
    OBVIOUS
  <2>2. Cardinality(At(i)) < n /\ Cardinality(At(i)) \in Nat
    <3> HIDE DEF At
    <3>1. IsFiniteSet(At(Len(text))) /\ Cardinality(At(Len(text))) < n
      BY <1>0
    <3>2. Cardinality(At(Len(text))) \in Nat
      BY <3>1, FS_CardinalityType
    <3>3. /\ IsFiniteSet(At(i))
          /\ Cardinality(At(i)) <= Cardinality(At(Len(text)))
      BY <2>1, <3>1, FS_Subset
    <3>4. Cardinality(At(i)) \in Nat
      BY <3>3, FS_CardinalityType
    <3> QED
      BY <3>1, <3>2, <3>3, <3>4
  <2> QED
    BY <2>2
<1>2. found = {}
  BY <1>1
<1>3. GetIndexOf(text, d, n) = IF found = {} THEN -1 ELSE Min(found) - 1
  BY DEF GetIndexOf
<1> QED
  BY <1>2, <1>3

-----------------------------------------------------------------------------
(* Digits count from 0 to 15, and some characters are none. *)
LEMMA DigitValues == /\ \A c \in DOMAIN Value : Value[c] \in 0..15
                     /\ {"/", ":", "x", "X"} \cap DOMAIN Value = {}
                     /\ Spaces \cap DOMAIN Value = {} /\ "0" \in DOMAIN Value
<1>1. DOMAIN Value = Range(Numerals) \cup Range(Capitals)
  BY DEF Value
<1>2. ASSUME NEW c \in Range(Capitals) PROVE Value[c] \in 0..15
  <2>1. \E i \in 1..6 : Capitals[i] = c
    BY DEF Range, Capitals
  <2> DEFINE k == CHOOSE i \in 1..6 : Capitals[i] = c
  <2>2. k \in 1..6
    BY <2>1
  <2>3. Value[c] = 9 + k
    BY <1>2 DEF Value
  <2> HIDE DEF k
  <2> QED
    BY <2>2, <2>3
<1>3. ASSUME NEW c \in Range(Numerals), c \notin Range(Capitals) PROVE Value[c] \in 0..15
  <2>1. \E i \in 1..16 : Numerals[i] = c
    BY DEF Range, Numerals
  <2> DEFINE k == CHOOSE i \in 1..16 : Numerals[i] = c
  <2>2. k \in 1..16
    BY <2>1
  <2>3. Value[c] = k - 1
    BY <1>3 DEF Value
  <2> HIDE DEF k
  <2> QED
    BY <2>2, <2>3
<1>4. /\ {"/", ":", "x", "X"} \cap (Range(Numerals) \cup Range(Capitals)) = {}
      /\ Spaces \cap (Range(Numerals) \cup Range(Capitals)) = {} /\ "0" \in Range(Numerals)
  <2>1. \A k \in 1..16 : Numerals[k] \in {"0", "1", "2", "3", "4", "5", "6", "7", "8", "9",
                                         "a", "b", "c", "d", "e", "f"}
    BY DEF Numerals
  <2>2. \A k \in 1..6 : Capitals[k] \in {"A", "B", "C", "D", "E", "F"}
    BY DEF Capitals
  <2>3. DOMAIN Numerals = 1..16 /\ DOMAIN Capitals = 1..6
    BY DEF Numerals, Capitals
  <2>4. "0" \in Range(Numerals)
    <3>1. Numerals[1] = "0" /\ 1 \in 1..16
      BY DEF Numerals
    <3> QED
      BY <2>3, <3>1 DEF Range
  <2>5. {"/", ":", "x", "X"} \cap (Range(Numerals) \cup Range(Capitals)) = {}
    BY <2>1, <2>2, <2>3 DEF Range
  <2>6. Spaces \cap (Range(Numerals) \cup Range(Capitals)) = {}
    BY <2>1, <2>2, <2>3 DEF Range, Spaces
  <2> QED
    BY <2>4, <2>5, <2>6
<1> QED
  BY <1>1, <1>2, <1>3, <1>4

(* The digits at the beginning of a text are what is read. *)
LEMMA LeadingDigits ==
    ASSUME NEW d \in Seq(Chars), NEW t \in Seq(Chars), NEW base \in Nat,
           \A i \in 1..Len(d) : IsDigit(d[i], base),
           t # <<>> => ~IsDigit(t[1], base)
    PROVE  Leading(d \o t, base) = d
<1> DEFINE text == d \o t
           A == {n \in 0..Len(text) : \A i \in 1..n : IsDigit(text[i], base)}
<1>1. /\ Len(d) \in Nat /\ Len(t) \in Nat /\ Len(text) = Len(d) + Len(t)
      /\ \A i \in 1..Len(d) : text[i] = d[i]
      /\ t # <<>> => text[Len(d) + 1] = t[1] /\ Len(t) > 0
  BY ConcatProperties, LenProperties, EmptySeq
<1>2. Len(d) \in A
  BY <1>1
<1>3. ASSUME NEW n \in A PROVE Len(d) >= n
  BY <1>1, EmptySeq
<1>4. Max(A) = Len(d)
  <2>1. A \subseteq Int
    OBVIOUS
  <2> HIDE DEF A
  <2> QED
    BY <1>2, <1>3, <2>1, MaxIs
<1>5. Leading(text, base) = SubSeq(text, 1, Max(A))
  BY DEF Leading
<1>6. SubSeq(text, 1, Len(d)) = d
  <2>1. <<>> \in Seq(Chars) /\ <<>> \o d = d /\ Len(<<>>) = 0
    BY ConcatEmptySeq, EmptySeq
  <2> DEFINE e == <<>>
  <2>2. text = (e \o d) \o t /\ e \in Seq(Chars) /\ Len(e) = 0
    BY <2>1
  <2> HIDE DEF e, text
  <2>3. SubSeq(text, Len(e) + 1, Len(e) + Len(d)) = d
    BY <2>2, Parts
  <2> QED
    BY <1>1, <2>2, <2>3
<1> QED
  BY <1>4, <1>5, <1>6

(* The beginning of a URL: what parseURL takes for the length of the        *)
(* protocol, and the two slashes.                                           *)
LEMMA Scheme ==
    ASSUME NEW proto \in Protocols
    PROVE  LET a == proto \o <<":", "/", "/">>
               p == Len(proto)
           IN  /\ a \in Seq(Chars) /\ p \in {4, 5} /\ Len(a) = p + 3
               /\ \A j \in 1..Len(a) : a[j] = "/" <=> j \in {p + 2, p + 3}
               /\ a[5] = "s" <=> p = 5
<1> DEFINE m == <<":", "/", "/">>
           a == proto \o m
           p == Len(proto)
<1>1. "h" \in Chars /\ "t" \in Chars /\ "p" \in Chars /\ "s" \in Chars /\ ":" \in Chars /\ "/" \in Chars
  BY CharAssumption
<1>2. /\ p \in {4, 5} /\ proto \in Seq(Chars)
      /\ \A j \in 1..p : proto[j] # "/"
      /\ p = 5 => proto[5] = "s"
  <2>1. CASE proto = <<"h", "t", "t", "p">>
    BY <1>1, <2>1
  <2>2. CASE proto = <<"h", "t", "t", "p", "s">>
    BY <1>1, <2>2
  <2> QED
    BY <2>1, <2>2 DEF Protocols
<1>3. m \in Seq(Chars) /\ Len(m) = 3 /\ m[1] = ":" /\ m[2] = "/" /\ m[3] = "/"
  BY <1>1
<1> HIDE DEF m
<1>4. a \in Seq(Chars) /\ Len(a) = p + 3
  <2>1. a \in Seq(Chars) /\ Len(a) = Len(proto) + Len(m)
    BY <1>2, <1>3, ConcatProperties, Zenon
  <2> QED
    BY <1>3, <2>1
<1>5. \A j \in 1..(p + 3) : a[j] = IF j <= p THEN proto[j] ELSE m[j - p]
  <2>1. /\ \A j \in 1..Len(proto) : a[j] = proto[j]
        /\ \A j \in 1..Len(m) : a[Len(proto) + j] = m[j]
    <3>1. proto \in Seq(Chars) /\ m \in Seq(Chars)
      BY <1>2, <1>3
    <3>2. \A j \in 1..Len(proto) : a[j] = proto[j]
      BY ONLY <3>1, ConcatProperties
    <3>3. \A j \in 1..Len(m) : a[Len(proto) + j] = m[j]
      BY ONLY <3>1, ConcatProperties
    <3> QED
      BY <3>2, <3>3
  <2> HIDE DEF a
  <2>2. ASSUME NEW j \in 1..(p + 3), ~(j <= p) PROVE a[j] = m[j - p]
    <3> DEFINE k == j - p
    <3>1. k \in 1..3 /\ p + k = j
      BY <1>2, <2>2
    <3> HIDE DEF k
    <3>2. a[p + k] = m[k]
      BY <1>3, <2>1, <3>1
    <3> QED
      BY <3>1, <3>2 DEF k
  <2>3. ASSUME NEW j \in 1..(p + 3), j <= p PROVE a[j] = proto[j]
    BY <1>2, <2>1, <2>3
  <2> QED
    BY <2>2, <2>3
<1> HIDE DEF a
<1>6. ASSUME NEW j \in 1..Len(a) PROVE a[j] = "/" <=> j \in {p + 2, p + 3}
  <2>1. CASE j <= p
    BY <1>2, <1>4, <1>5, <2>1
  <2>2. CASE j = p + 1
    BY <1>2, <1>3, <1>5, <2>2
  <2>3. CASE j \in {p + 2, p + 3}
    BY <1>2, <1>3, <1>5, <2>3
  <2> QED
    BY <1>2, <1>4, <2>1, <2>2, <2>3
<1>7. a[5] = "s" <=> p = 5
  <2>1. CASE p = 5
    BY <1>2, <1>5, <2>1
  <2>2. CASE p = 4
    BY <1>3, <1>5, <2>2
  <2> QED
    BY <1>2, <2>1, <2>2
<1> QED
  BY <1>2, <1>4, <1>6, <1>7 DEF a, m

(* The parts of a URL's text, and the places of its first two slashes. *)
LEMMA UrlParts ==
    ASSUME NEW i \in Urls
    PROVE  LET a == i.proto \o <<":", "/", "/">>
               q == IF i.port = <<>> THEN <<>> ELSE <<":">> \o i.port
               p == Len(i.proto)
           IN  /\ a \in Seq(Chars) /\ q \in Seq(Chars) /\ i.host \in Seq(Chars) /\ i.path \in Seq(Chars)
               /\ p \in {4, 5} /\ Len(a) = p + 3
               /\ \A j \in 1..Len(a) : a[j] = "/" <=> j \in {p + 2, p + 3}
               /\ a[5] = "s" <=> p = 5
               /\ \A j \in 1..Len(i.host) : i.host[j] \notin {"/", ":"}
               /\ \A j \in 1..Len(q) : q[j] # "/"
               /\ Text(i) = (a \o (i.host \o q)) \o i.path
<1> DEFINE a == i.proto \o <<":", "/", "/">>
           q == IF i.port = <<>> THEN <<>> ELSE <<":">> \o i.port
           p == Len(i.proto)
<1>0. ":" \in Chars
  BY CharAssumption
<1>1. /\ i.kind = "url" /\ i.proto \in Protocols /\ i.host \in Hosts /\ i.port \in Ports /\ i.path \in Paths
      /\ i.host \in Seq(Chars) /\ i.path \in Seq(Chars) /\ i.port \in Seq(Chars)
      /\ \A j \in 1..Len(i.host) : i.host[j] \notin {"/", ":"}
      /\ \A j \in 1..Len(i.port) : IsDigit(i.port[j], 10)
  BY UrlAssumption DEF Urls
<1>2. a \in Seq(Chars) /\ p \in {4, 5} /\ Len(a) = p + 3
  BY <1>1, Scheme
<1>3. (\A j \in 1..Len(a) : a[j] = "/" <=> j \in {p + 2, p + 3}) /\ (a[5] = "s" <=> p = 5)
  BY <1>1, Scheme
<1>4. q \in Seq(Chars) /\ \A j \in 1..Len(q) : q[j] # "/"
  <2>1. CASE i.port = <<>>
    BY <2>1
  <2>2. CASE i.port # <<>>
    <3>1. q = <<":">> \o i.port
      BY <2>2
    <3>2. <<":">> \in Seq(Chars) /\ Len(<<":">>) = 1 /\ <<":">>[1] = ":"
      BY <1>0
    <3>3. \A j \in 1..Len(i.port) : i.port[j] # "/"
      BY <1>1, DigitValues DEF IsDigit
    <3> QED
      BY <1>1, <3>1, <3>2, <3>3, ConcatProperties
  <2> QED
    BY <2>1, <2>2
<1>5. Text(i) = ((a \o i.host) \o q) \o i.path
  BY <1>1 DEF Text
<1>6. (a \o i.host) \o q = a \o (i.host \o q)
  <2> DEFINE h == i.host
  <2>1. a \in Seq(Chars) /\ h \in Seq(Chars) /\ q \in Seq(Chars)
    BY <1>1, <1>2, <1>4
  <2> HIDE DEF a, q, h
  <2>2. (a \o h) \o q = a \o (h \o q)
    BY <2>1, Rebracket
  <2> QED
    BY <2>2 DEF h
<1> QED
  BY <1>1, <1>2, <1>3, <1>4, <1>5, <1>6

(* The third slash is the one a path begins with. *)
LEMMA ThirdSlash ==
    ASSUME NEW a \in Seq(Chars), NEW b \in Seq(Chars), NEW c \in Seq(Chars), NEW p \in Nat,
           Len(a) = p + 3,
           \A j \in 1..Len(a) : a[j] = "/" <=> j \in {p + 2, p + 3},
           \A j \in 1..Len(b) : b[j] # "/",
           c # <<>> => c[1] = "/"
    PROVE  GetIndexOf((a \o b) \o c, "/", 3) = IF c = <<>> THEN -1 ELSE Len(a) + Len(b)
<1> DEFINE text == (a \o b) \o c
           k == Len(a) + Len(b)
<1>1. /\ Len(a) \in Nat /\ Len(b) \in Nat /\ Len(c) \in Nat
      /\ Len(text) = Len(a) + Len(b) + Len(c)
      /\ \A j \in 1..Len(a) : text[j] = a[j]
      /\ \A j \in 1..Len(b) : text[Len(a) + j] = b[j]
      /\ \A j \in 1..Len(c) : text[Len(a) + Len(b) + j] = c[j]
  <2>1. Len(a) \in Nat /\ Len(b) \in Nat /\ Len(c) \in Nat
    BY LenProperties
  <2>2. a \in Seq(Chars) /\ b \in Seq(Chars) /\ c \in Seq(Chars) /\ text = (a \o b) \o c
    OBVIOUS
  <2> HIDE DEF text
  <2>3. Len(text) = Len(a) + Len(b) + Len(c)
    BY ONLY <2>2, Parts
  <2>4. \A j \in 1..Len(a) : text[j] = a[j]
    BY ONLY <2>2, Parts
  <2>5. \A j \in 1..Len(b) : text[Len(a) + j] = b[j]
    BY ONLY <2>2, Parts
  <2>6. \A j \in 1..Len(c) : text[Len(a) + Len(b) + j] = c[j]
    BY ONLY <2>2, Parts
  <2> QED
    BY <2>1, <2>3, <2>4, <2>5, <2>6
<1> HIDE DEF text
<1> DEFINE two == {p + 2, p + 3}
<1>2. \A j : j \in two <=> j \in 1..k /\ text[j] = "/"
  <2>1. ASSUME NEW j \in 1..k PROVE text[j] = "/" <=> j \in {p + 2, p + 3}
    <3>1. CASE j <= Len(a)
      BY <1>1, <3>1
    <3>2. CASE j > Len(a)
      <4>1. j - Len(a) \in 1..Len(b) /\ Len(a) + (j - Len(a)) = j
        BY <1>1, <3>2
      <4>2. text[j] = b[j - Len(a)]
        BY <1>1, <4>1
      <4> QED
        BY <1>1, <3>2, <4>1, <4>2
    <3> QED
      BY <1>1, <3>1, <3>2
  <2>2. p + 2 \in 1..k /\ p + 3 \in 1..k
    BY <1>1
  <2> QED
    BY <2>1, <2>2
<1>3. IsFiniteSet(two) /\ Cardinality(two) = 2
  <2> DEFINE one == {p + 2}
             x == p + 3
  <2>1. x \notin one /\ one \cup {x} = two
    OBVIOUS
  <2>2. IsFiniteSet(one) /\ Cardinality(one) = 1
    BY FS_Singleton
  <2> HIDE DEF one, x
  <2>3. IsFiniteSet(one \cup {x}) /\ Cardinality(one \cup {x}) = 1 + 1
    BY <2>1, <2>2, FS_AddElement
  <2>4. Cardinality(one \cup {x}) = 2
    BY <2>3
  <2> HIDE DEF two
  <2> QED
    BY <2>1, <2>3, <2>4, Zenon
<1> HIDE DEF two
<1>4. CASE c = <<>>
  <2>1. Len(text) = k
    BY <1>1, <1>4, EmptySeq
  <2>2. \A j : j \in two <=> j \in 1..Len(text) /\ text[j] = "/"
    BY <1>2, <2>1
  <2>3. Len(text) \in Nat /\ 3 \in Nat
    BY <1>1
  <2>4. GetIndexOf(text, "/", 3) = -1
    BY <1>3, <2>2, <2>3, IndexMissing
  <2> QED
    BY <1>4, <2>4 DEF text
<1>5. CASE c # <<>>
  <2>1. Len(c) > 0
    BY <1>1, <1>5, EmptySeq
  <2>2. k + 1 \in 1..Len(text) /\ text[k + 1] = "/" /\ (k + 1) - 1 = k
    BY <1>1, <1>5, <2>1
  <2> DEFINE m == k + 1
  <2>3. m \in 1..Len(text) /\ text[m] = "/" /\ m - 1 = k
    BY <2>2
  <2> HIDE DEF m
  <2>4. \A j : j \in two <=> j \in 1..(m - 1) /\ text[j] = "/"
    BY <1>2, <2>3
  <2>5. Len(text) \in Nat /\ 3 \in Nat
    BY <1>1
  <2>6. GetIndexOf(text, "/", 3) = k
    BY <1>3, <2>3, <2>4, <2>5, IndexFound
  <2> QED
    BY <1>5, <2>6 DEF text
<1> QED
  BY <1>4, <1>5

(* The first colon of what stands between the slashes is that of the port. *)
LEMMA PortColon ==
    ASSUME NEW h \in Seq(Chars), NEW q \in Seq(Chars),
           \A j \in 1..Len(h) : h[j] # ":",
           q # <<>> => q[1] = ":"
    PROVE  GetIndexOf(h \o q, ":", 1) = IF q = <<>> THEN -1 ELSE Len(h)
<1> DEFINE text == h \o q
<1>1. /\ Len(h) \in Nat /\ Len(q) \in Nat
      /\ Len(text) = Len(h) + Len(q)
      /\ \A j \in 1..Len(h) : text[j] = h[j]
      /\ \A j \in 1..Len(q) : text[Len(h) + j] = q[j]
  BY ConcatProperties, LenProperties
<1> HIDE DEF text
<1>2. \A j : ~(j \in 1..Len(h) /\ text[j] = ":")
  BY <1>1
<1>3. IsFiniteSet({}) /\ Cardinality({}) = 0
  BY FS_EmptySet
<1>4. CASE q = <<>>
  <2>1. Len(text) = Len(h) /\ Len(text) \in Nat /\ 1 \in Nat
    BY <1>1, <1>4, EmptySeq
  <2>2. \A j : j \in {} <=> j \in 1..Len(text) /\ text[j] = ":"
    BY <1>2, <2>1
  <2>3. Cardinality({}) < 1
    BY <1>3
  <2>4. GetIndexOf(text, ":", 1) = -1
    BY <1>3, <2>1, <2>2, <2>3, IndexMissing
  <2> QED
    BY <1>4, <2>4 DEF text
<1>5. CASE q # <<>>
  <2> DEFINE m == Len(h) + 1
  <2>1. Len(q) > 0
    BY <1>1, <1>5, EmptySeq
  <2>2. m \in 1..Len(text) /\ text[m] = ":" /\ m - 1 = Len(h)
    BY <1>1, <1>5, <2>1
  <2> HIDE DEF m
  <2>3. \A j : j \in {} <=> j \in 1..(m - 1) /\ text[j] = ":"
    BY <1>2, <2>2
  <2>4. Len(text) \in Nat /\ 1 \in Nat
    BY <1>1
  <2>5. GetIndexOf(text, ":", 1) = m - 1
    BY <1>3, <2>2, <2>3, <2>4, IndexFound
  <2> QED
    BY <1>5, <2>2, <2>5 DEF text
<1> QED
  BY <1>4, <1>5

-----------------------------------------------------------------------------
(* What 0 has, and each number of a range after the one before it, they all *)
(* have.                                                                     *)
LEMMA RangeInduction == ASSUME NEW n \in Nat, NEW T, 0 \in T, \A i \in 1..n : i - 1 \in T => i \in T
                        PROVE  0..n \subseteq T
<1> DEFINE U == {m \in Nat : m <= n => m \in T}
<1>1. 0 \in U
  OBVIOUS
<1>2. ASSUME NEW m \in Nat, m \in U PROVE m + 1 \in U
  <2> SUFFICES ASSUME m + 1 <= n PROVE m + 1 \in T
    OBVIOUS
  <2> DEFINE i == m + 1
  <2>1. i \in 1..n /\ i - 1 = m /\ m \in T
    BY <1>2
  <2> HIDE DEF i
  <2>2. i \in T
    BY <2>1
  <2> QED
    BY <2>2 DEF i
<1> HIDE DEF U
<1>3. Nat \subseteq U
  BY <1>1, <1>2, SetInduction
<1> QED
  BY <1>3 DEF U

(* A text of digits only. *)
AllDigits(d) == Len(d) \in Nat /\ \A i \in 1..Len(d) : d[i] \in DOMAIN Value

LEMMA DigitAt == ASSUME NEW d, AllDigits(d) PROVE \A i \in 1..Len(d) : Value[d[i]] \in Nat
<1> SUFFICES ASSUME NEW i \in 1..Len(d) PROVE Value[d[i]] \in Nat
  OBVIOUS
<1>1. d[i] \in DOMAIN Value
  BY DEF AllDigits
<1>2. Value[d[i]] \in 0..15
  BY <1>1, DigitValues
<1> QED
  BY <1>2

(* What is multiplied by m and has a term added, again and again. *)
Repeats(first, n, m, term) ==
    \E g \in [0..n -> Nat] : g[0] = first /\ \A i \in 1..n : g[i] = g[i - 1] * m + term[i]

LEMMA Repeated == ASSUME NEW first \in Nat, NEW n \in Nat, NEW m \in Nat, NEW term \in [1..n -> Nat]
                  PROVE  Repeats(first, n, m, term)
<1> DEFINE step == [p \in Nat \X Nat |-> IF p[2] \in 1..n THEN p[1] * m + term[p[2]] ELSE 0]
<1>1. step \in [Nat \X Nat -> Nat]
  <2>1. ASSUME NEW p \in Nat \X Nat, p[2] \in 1..n PROVE p[1] * m + term[p[2]] \in Nat
    <3> DEFINE x == p[1]
               t == term[p[2]]
    <3>1. x \in Nat /\ t \in Nat
      BY <2>1
    <3> HIDE DEF x, t
    <3>2. x * m + t \in Nat
      BY <3>1
    <3> QED
      BY <3>2 DEF x, t
  <2> QED
    BY <2>1
<1>2. PICK g \in [0..n -> Nat] : g[0] = first /\ \A i \in 1..n : g[i] = step[<<g[i - 1], i>>]
  <2> HIDE DEF step
  <2>1. Iterates(first, n, step)
    BY <1>1, Iteration
  <2> QED
    BY <2>1 DEF Iterates
<1>3. ASSUME NEW i \in 1..n PROVE g[i] = g[i - 1] * m + term[i]
  <2>1. <<g[i - 1], i>> \in Nat \X Nat
    OBVIOUS
  <2>2. step[<<g[i - 1], i>>] = g[i - 1] * m + term[i]
    BY <2>1
  <2> QED
    BY <1>2, <2>2
<1> QED
  BY <1>2, <1>3 DEF Repeats

(* The number after each digit, if it could have any size. *)
LEMMA Horner ==
    ASSUME NEW d, AllDigits(d), NEW base \in Nat
    PROVE  \E g \in [0..Len(d) -> Nat] :
              g[0] = 0 /\ \A i \in 1..Len(d) : g[i] = g[i - 1] * base + Value[d[i]]
<1> DEFINE term == [i \in 1..Len(d) |-> Value[d[i]]]
<1>1. Len(d) \in Nat /\ 0 \in Nat
  BY DEF AllDigits
<1>2. term \in [1..Len(d) -> Nat]
  BY DigitAt
<1>3. PICK g \in [0..Len(d) -> Nat] : g[0] = 0 /\ \A i \in 1..Len(d) : g[i] = g[i - 1] * base + term[i]
  <2> HIDE DEF term
  <2>1. Repeats(0, Len(d), base, term)
    BY <1>1, <1>2, Repeated
  <2> QED
    BY <2>1 DEF Repeats
<1> QED
  BY <1>3

(* What the places from the last count, and the digits before them, make up *)
(* the number.                                                               *)
LEMMA PlacesAdd ==
    ASSUME NEW d, AllDigits(d), NEW base \in Nat, NEW g \in [0..Len(d) -> Nat],
           g[0] = 0, \A i \in 1..Len(d) : g[i] = g[i - 1] * base + Value[d[i]]
    PROVE  NumberOf(d, base) = g[Len(d)]
<1> DEFINE IsPlace(f) == f = [k \in 0..Len(d) |-> IF k = 0 THEN 1 ELSE f[k - 1] * base]
           place == CHOOSE f : IsPlace(f)
           IsSum(f) == f = [k \in 0..Len(d) |-> IF k = 0 THEN 0
                                 ELSE f[k - 1] + Value[d[Len(d) + 1 - k]] * place[k - 1]]
           sum == CHOOSE f : IsSum(f)
<1>0. Len(d) \in Nat /\ 0 \in Nat /\ 1 \in Nat
  BY DEF AllDigits
<1>1. NumberOf(d, base) = sum[Len(d)]
  BY DEF NumberOf
<1>2. /\ place[0] = 1 /\ \A k \in 1..Len(d) : place[k] = place[k - 1] * base
      /\ \A k \in 0..Len(d) : place[k] \in Nat
  <2> DEFINE term == [i \in 1..Len(d) |-> 0]
  <2>1. term \in [1..Len(d) -> Nat]
    OBVIOUS
  <2>2. PICK f \in [0..Len(d) -> Nat] : f[0] = 1 /\ \A i \in 1..Len(d) : f[i] = f[i - 1] * base + term[i]
    <3> HIDE DEF term
    <3>1. Repeats(1, Len(d), base, term)
      BY <1>0, <2>1, Repeated
    <3> QED
      BY <3>1 DEF Repeats
  <2>3. ASSUME NEW i \in 1..Len(d) PROVE f[i] = f[i - 1] * base
    <3>1. f[i - 1] \in Nat /\ term[i] = 0
      BY <1>0
    <3>2. f[i] = f[i - 1] * base + 0
      BY <2>2, <3>1
    <3> DEFINE x == f[i - 1]
    <3>3. x * base + 0 = x * base
      <4> HIDE DEF x
      <4> QED
        BY <3>1 DEF x
    <3> QED
      BY <3>2, <3>3
  <2>4. IsPlace(f)
    BY <2>2, <2>3
  <2>5. IsPlace(place)
    BY <2>4
  <2> HIDE DEF place
  <2>6. place[0] = 1 /\ \A k \in 1..Len(d) : place[k] = place[k - 1] * base
    BY <1>0, <2>5
  <2> DEFINE T == {k \in Nat : place[k] \in Nat}
  <2>7. 0 \in T
    BY <2>6
  <2>8. ASSUME NEW k \in 1..Len(d), k - 1 \in T PROVE k \in T
    BY <2>6, <2>8
  <2> HIDE DEF T
  <2>9. 0..Len(d) \subseteq T
    BY <1>0, <2>7, <2>8, RangeInduction
  <2> QED
    BY <2>6, <2>9 DEF T
<1>3. \A k \in 1..Len(d) : Len(d) + 1 - k \in 1..Len(d) /\ Value[d[Len(d) + 1 - k]] \in Nat
  BY <1>0, DigitAt
<1> HIDE DEF place
<1>4. /\ sum[0] = 0
      /\ \A k \in 1..Len(d) : sum[k] = sum[k - 1] + Value[d[Len(d) + 1 - k]] * place[k - 1]
  <2> DEFINE term == [k \in 1..Len(d) |-> Value[d[Len(d) + 1 - k]] * place[k - 1]]
  <2>1. term \in [1..Len(d) -> Nat]
    <3>1. ASSUME NEW k \in 1..Len(d) PROVE Value[d[Len(d) + 1 - k]] * place[k - 1] \in Nat
      <4> DEFINE v == Value[d[Len(d) + 1 - k]]
                 w == place[k - 1]
      <4>1. v \in Nat
        BY <1>3
      <4>2. k - 1 \in 0..Len(d)
        BY <1>0
      <4>3. w \in Nat
        BY <1>2, <4>2
      <4> HIDE DEF v, w
      <4>4. v * w \in Nat
        BY <4>1, <4>3
      <4> QED
        BY <4>4 DEF v, w
    <3> QED
      BY <3>1
  <2>2. PICK f \in [0..Len(d) -> Nat] : f[0] = 0 /\ \A i \in 1..Len(d) : f[i] = f[i - 1] * 1 + term[i]
    <3> HIDE DEF term
    <3>1. Repeats(0, Len(d), 1, term)
      BY <1>0, <2>1, Repeated
    <3> QED
      BY <3>1 DEF Repeats
  <2>3. ASSUME NEW i \in 1..Len(d)
        PROVE  f[i] = f[i - 1] + Value[d[Len(d) + 1 - i]] * place[i - 1]
    <3>1. f[i - 1] \in Nat /\ f[i - 1] * 1 = f[i - 1]
      BY <1>0
    <3>2. term[i] = Value[d[Len(d) + 1 - i]] * place[i - 1]
      OBVIOUS
    <3> HIDE DEF term
    <3> QED
      BY <2>2, <3>1, <3>2
  <2>4. IsSum(f)
    BY <2>2, <2>3
  <2>5. IsSum(sum)
    BY <2>4
  <2> HIDE DEF sum
  <2> QED
    BY <1>0, <2>5
<1> HIDE DEF sum
<1> DEFINE T == {k \in Nat : k <= Len(d) => sum[k] \in Nat /\ g[Len(d) - k] * place[k] + sum[k] = g[Len(d)]}
<1>5. 0 \in T
  BY <1>0, <1>2, <1>4
<1>6. ASSUME NEW k \in 1..Len(d), k - 1 \in T PROVE k \in T
  <2> DEFINE v == Value[d[Len(d) + 1 - k]]
             p == place[k - 1]
             s == sum[k - 1]
             x == g[Len(d) - k]
  <2>0. k - 1 \in 0..Len(d) /\ Len(d) - k \in 0..Len(d)
    BY <1>0
  <2>1. v \in Nat /\ p \in Nat /\ x \in Nat /\ s \in Nat
    <3>1. v \in Nat
      BY <1>3
    <3>2. p \in Nat
      BY <1>2, <2>0
    <3>3. x \in Nat
      BY <2>0
    <3>4. s \in Nat
      BY <1>6, <2>0
    <3> QED
      BY <3>1, <3>2, <3>3, <3>4
  <2>2. g[Len(d) - (k - 1)] * p + s = g[Len(d)]
    BY <1>0, <1>6
  <2>3. g[Len(d) - (k - 1)] = x * base + v
    <3> DEFINE i == Len(d) + 1 - k
    <3>1. i \in 1..Len(d) /\ i = Len(d) - (k - 1) /\ i - 1 = Len(d) - k
      BY <1>0
    <3> QED
      BY <3>1
  <2>4. place[k] = p * base /\ sum[k] = s + v * p
    BY <1>2, <1>4
  <2> HIDE DEF v, p, s, x
  <2>5. (x * base + v) * p + s = x * (p * base) + (s + v * p)
    BY <2>1
  <2>6. sum[k] \in Nat /\ x * place[k] + sum[k] = g[Len(d)]
    BY <2>1, <2>2, <2>3, <2>4, <2>5
  <2> QED
    BY <2>6 DEF x
<1>7. Len(d) \in T
  <2> HIDE DEF T
  <2>1. 0..Len(d) \subseteq T
    BY <1>0, <1>5, <1>6, RangeInduction
  <2> QED
    BY <1>0, <2>1
<1>8. sum[Len(d)] = g[Len(d)]
  <2>1. sum[Len(d)] \in Nat /\ g[0] * place[Len(d)] + sum[Len(d)] = g[Len(d)] /\ place[Len(d)] \in Nat
    BY <1>0, <1>2, <1>7
  <2>2. g[0] * place[Len(d)] = 0
    BY <2>1
  <2> QED
    BY <2>1, <2>2
<1> QED
  BY <1>1, <1>8

(* atoi: ten times what it has, and the digit, again and again. *)
LEMMA AtoiReads ==
    ASSUME NEW d, AllDigits(d)
    PROVE  Accumulate(d, LAMBDA n, v : n * 10 + v) = NumberOf(d, 10)
<1> DEFINE Is(f) == f = [i \in 0..Len(d) |-> IF i = 0 THEN 0 ELSE f[i - 1] * 10 + Value[d[i]]]
           h == CHOOSE f : Is(f)
<1>0. Len(d) \in Nat /\ 10 \in Nat
  BY DEF AllDigits
<1>1. PICK g \in [0..Len(d) -> Nat] : g[0] = 0 /\ \A i \in 1..Len(d) : g[i] = g[i - 1] * 10 + Value[d[i]]
  BY <1>0, Horner
<1>2. Is(g)
  BY <1>1
<1>3. Is(h)
  BY <1>2
<1>4. Accumulate(d, LAMBDA n, v : n * 10 + v) = h[Len(d)]
  BY DEF Accumulate
<1> HIDE DEF h
<1>5. h[0] = 0 /\ \A i \in 1..Len(d) : h[i] = h[i - 1] * 10 + Value[d[i]]
  BY <1>0, <1>3
<1> DEFINE T == {k \in Nat : h[k] = g[k]}
<1>6. 0 \in T
  BY <1>1, <1>5
<1>7. ASSUME NEW k \in 1..Len(d), k - 1 \in T PROVE k \in T
  BY <1>1, <1>5, <1>7
<1>8. h[Len(d)] = g[Len(d)]
  <2> HIDE DEF T
  <2>1. 0..Len(d) \subseteq T
    BY <1>0, <1>6, <1>7, RangeInduction
  <2>2. Len(d) \in T
    BY <1>0, <2>1
  <2> QED
    BY <2>2 DEF T
<1>9. NumberOf(d, 10) = g[Len(d)]
  BY <1>0, <1>1, PlacesAdd
<1> QED
  BY <1>4, <1>8, <1>9

(* What an unsigned int loses of a number, it would lose later as well. *)
LEMMA ModStep == ASSUME NEW m \in Nat \ {0}, NEW a \in Nat, NEW v \in Nat
                 PROVE  ((a % m) * 16 + v) % m = (a * 16 + v) % m
<1> DEFINE q == a \div m
           r == a % m
<1>1. q \in Nat /\ r \in Nat /\ a = m * q + r
  OBVIOUS
<1> HIDE DEF q, r
<1>2. a * 16 + v = m * (q * 16) + (r * 16 + v) /\ r * 16 + v \in Nat /\ q * 16 \in Nat
  BY <1>1
<1>3. ASSUME NEW x \in Nat, NEW y \in Nat PROVE (m * y + x) % m = x % m
  <2> DEFINE u == x \div m
             w == x % m
  <2>1. u \in Nat /\ w \in 0..(m - 1) /\ x = m * u + w
    OBVIOUS
  <2> HIDE DEF u, w
  <2> DEFINE z == y + u
  <2>2. m * y + x = m * z + w /\ z \in Nat
    BY <2>1
  <2> HIDE DEF z
  <2>3. (m * z + w) % m = w
    BY <2>1, <2>2
  <2> QED
    BY <2>2, <2>3 DEF w
<1> DEFINE x == r * 16 + v
           y == q * 16
<1>4. x \in Nat /\ y \in Nat /\ a * 16 + v = m * y + x
  BY <1>2
<1> HIDE DEF x, y
<1>5. (m * y + x) % m = x % m
  BY <1>3, <1>4
<1>6. (a * 16 + v) % m = x % m
  BY <1>4, <1>5
<1> QED
  BY <1>6 DEF x, r

(* atoh: the same with sixteen, in an unsigned int. *)
LEMMA AtohReads ==
    ASSUME NEW d, AllDigits(d)
    PROVE  Accumulate(d, LAMBDA n, v : (n * 16 + v) % Modulus) = NumberOf(d, 16) % Modulus
<1> DEFINE Is(f) == f = [i \in 0..Len(d) |-> IF i = 0 THEN 0 ELSE (f[i - 1] * 16 + Value[d[i]]) % Modulus]
           h == CHOOSE f : Is(f)
<1>0. Len(d) \in Nat /\ 16 \in Nat /\ Modulus \in Nat \ {0}
  BY LengthAssumption DEF AllDigits
<1>1. PICK g \in [0..Len(d) -> Nat] : g[0] = 0 /\ \A i \in 1..Len(d) : g[i] = g[i - 1] * 16 + Value[d[i]]
  BY <1>0, Horner
<1> DEFINE e == [i \in 0..Len(d) |-> g[i] % Modulus]
<1>2. e[0] = 0 /\ \A i \in 1..Len(d) : e[i] = (e[i - 1] * 16 + Value[d[i]]) % Modulus
  <2>1. e[0] = 0
    BY <1>0, <1>1
  <2>2. ASSUME NEW i \in 1..Len(d) PROVE e[i] = (e[i - 1] * 16 + Value[d[i]]) % Modulus
    <3> DEFINE a == g[i - 1]
               v == Value[d[i]]
    <3>0. v \in Nat
      BY DigitAt
    <3>1. a \in Nat /\ v \in Nat /\ g[i] = a * 16 + v
      BY <1>0, <1>1, <3>0
    <3>2. e[i - 1] = a % Modulus /\ e[i] = g[i] % Modulus
      BY <1>0
    <3> HIDE DEF a, v, e
    <3>3. ((a % Modulus) * 16 + v) % Modulus = (a * 16 + v) % Modulus
      BY <1>0, <3>1, ModStep
    <3>4. e[i] = (e[i - 1] * 16 + v) % Modulus
      BY <3>1, <3>2, <3>3
    <3> QED
      BY <3>4 DEF v
  <2> QED
    BY <2>1, <2>2
<1>3. Is(e)
  <2>1. e = [i \in 0..Len(d) |-> e[i]]
    OBVIOUS
  <2> HIDE DEF e
  <2>2. ASSUME NEW i \in 0..Len(d)
        PROVE  e[i] = IF i = 0 THEN 0 ELSE (e[i - 1] * 16 + Value[d[i]]) % Modulus
    <3>1. i # 0 => i \in 1..Len(d)
      BY <1>0
    <3> QED
      BY <1>2, <3>1
  <2>3. [i \in 0..Len(d) |-> e[i]]
           = [i \in 0..Len(d) |-> IF i = 0 THEN 0 ELSE (e[i - 1] * 16 + Value[d[i]]) % Modulus]
    BY <2>2
  <2> QED
    BY <2>1, <2>3
<1>4. Is(h)
  BY <1>3
<1>5. Accumulate(d, LAMBDA n, v : (n * 16 + v) % Modulus) = h[Len(d)]
  BY DEF Accumulate
<1> HIDE DEF h
<1>6. h[0] = 0 /\ \A i \in 1..Len(d) : h[i] = (h[i - 1] * 16 + Value[d[i]]) % Modulus
  BY <1>0, <1>4
<1>7. e[Len(d)] = g[Len(d)] % Modulus
  BY <1>0
<1> HIDE DEF e
<1> DEFINE T == {k \in Nat : h[k] = e[k]}
<1>8. 0 \in T
  BY <1>2, <1>6
<1>9. ASSUME NEW k \in 1..Len(d), k - 1 \in T PROVE k \in T
  BY <1>2, <1>6, <1>9
<1>10. h[Len(d)] = e[Len(d)]
  <2> HIDE DEF T
  <2>1. 0..Len(d) \subseteq T
    BY <1>0, <1>8, <1>9, RangeInduction
  <2>2. Len(d) \in T
    BY <1>0, <2>1
  <2> QED
    BY <2>2 DEF T
<1>11. NumberOf(d, 16) = g[Len(d)]
  BY <1>0, <1>1, PlacesAdd
<1> QED
  BY <1>5, <1>7, <1>10, <1>11

-----------------------------------------------------------------------------
LEMMA PortRead ==
    ASSUME NEW d \in Seq(Chars), \A j \in 1..Len(d) : IsDigit(d[j], 10)
    PROVE  Atoi(d) = NumberOf(d, 10)
<1>1. d \o <<>> = d /\ <<>> \in Seq(Chars)
  BY ConcatEmptySeq, EmptySeq
<1>2. Leading(d \o <<>>, 10) = d
  <2> DEFINE t == <<>>
  <2>1. t \in Seq(Chars) /\ (t # <<>> => ~IsDigit(t[1], 10)) /\ 10 \in Nat
    BY <1>1
  <2> HIDE DEF t
  <2>2. Leading(d \o t, 10) = d
    BY <2>1, LeadingDigits
  <2> QED
    BY <2>2 DEF t
<1>3. AllDigits(d)
  BY LenProperties DEF AllDigits, IsDigit
<1>4. Accumulate(d, LAMBDA n, v : n * 10 + v) = NumberOf(d, 10)
  BY <1>3, AtoiReads
<1> QED
  BY <1>1, <1>2, <1>4 DEF Atoi

(* A host, and after a colon a port. *)
WithPort(h, q, port) ==
    /\ h \in Seq(Chars) /\ port \in Seq(Chars)
    /\ \A j \in 1..Len(h) : h[j] # ":"
    /\ \A j \in 1..Len(port) : IsDigit(port[j], 10)
    /\ q = IF port = <<>> THEN <<>> ELSE <<":">> \o port

(* Where its colon is, and what is read before and after it. *)
SplitAt(text, colon, h, port) ==
    /\ colon = -1 <=> port = <<>>
    /\ port = <<>> => text = h
    /\ port # <<>> => /\ SubSeq(text, 1, colon) = h
                     /\ Atoi(SubSeq(text, colon + 2, Len(text))) = NumberOf(port, 10)

LEMMA Authority ==
    ASSUME NEW h, NEW q, NEW port, WithPort(h, q, port),
           NEW colon, colon = GetIndexOf(h \o q, ":", 1)
    PROVE  SplitAt(h \o q, colon, h, port)
<1> USE DEF WithPort, SplitAt
<1> DEFINE c == <<":">>
<1>0. Len(h) \in Nat
  BY LenProperties
<1>1. c \in Seq(Chars) /\ Len(c) = 1 /\ c[1] = ":"
  <2>1. ":" \in Chars
    BY CharAssumption
  <2> QED
    BY <2>1
<1>2. CASE port = <<>>
  <2>1. q = <<>> /\ <<>> \in Seq(Chars) /\ h \o <<>> = h
    BY <1>2, ConcatEmptySeq, EmptySeq
  <2> DEFINE e == <<>>
  <2>2. q = e /\ e \in Seq(Chars) /\ (e # <<>> => e[1] = ":") /\ e = <<>>
    BY <2>1
  <2> HIDE DEF e
  <2>3. GetIndexOf(h \o e, ":", 1) = -1
    BY <2>2, PortColon
  <2> QED
    BY <1>2, <2>1, <2>2, <2>3
<1>3. CASE port # <<>>
  <2>1. q = c \o port
    BY <1>3
  <2> HIDE DEF c
  <2>2. q \in Seq(Chars) /\ Len(q) = 1 + Len(port) /\ q[1] = ":"
    <3>1. c \in Seq(Chars) /\ Len(c) = 1 /\ c[1] = ":"
      BY <1>1
    <3>2. Len(port) \in Nat
      BY LenProperties
    <3>3. q \in Seq(Chars) /\ Len(q) = Len(c) + Len(port) /\ (\A j \in 1..Len(c) : q[j] = c[j])
      BY <2>1, <3>1, ConcatProperties
    <3> QED
      BY <3>1, <3>2, <3>3
  <2>3. q # <<>>
    BY <2>2, EmptySeq, LenProperties
  <2>4. GetIndexOf(h \o q, ":", 1) = Len(h)
    BY <2>2, <2>3, PortColon
  <2>5. (h \o c) \o port = h \o q
    <3>1. (h \o c) \o port = h \o (c \o port)
      BY <1>1, Rebracket
    <3> QED
      BY <2>1, <3>1
  <2>6. /\ SubSeq((h \o c) \o port, 1, Len(h)) = h
        /\ SubSeq((h \o c) \o port, Len(h) + Len(c) + 1, Len((h \o c) \o port)) = port
    <3>1. c \in Seq(Chars)
      BY <1>1
    <3> DEFINE text == (h \o c) \o port
    <3>2. text = (h \o c) \o port
      OBVIOUS
    <3> HIDE DEF text
    <3>3. SubSeq(text, 1, Len(h)) = h /\ SubSeq(text, Len(h) + Len(c) + 1, Len(text)) = port
      BY <3>1, <3>2, Parts
    <3> QED
      BY <3>3 DEF text
  <2>7. SubSeq(h \o q, 1, colon) = h
    BY <2>4, <2>5, <2>6
  <2>8. SubSeq(h \o q, colon + 2, Len(h \o q)) = port
    <3>1. colon + 2 = Len(h) + Len(c) + 1
      BY <1>0, <1>1, <2>4
    <3> QED
      BY <2>5, <2>6, <3>1
  <2>9. Atoi(port) = NumberOf(port, 10)
    BY PortRead
  <2>10. colon # -1
    BY <1>0, <2>4
  <2> QED
    BY <1>3, <2>7, <2>8, <2>9, <2>10
<1> QED
  BY <1>2, <1>3

(* The parts of a URL: a scheme a with a protocol of p characters, a host h, *)
(* what stands between host and path, which is the port after its colon, and *)
(* the path.                                                                 *)
Shaped(a, p, h, q, port, path) ==
    /\ a \in Seq(Chars) /\ h \in Seq(Chars) /\ q \in Seq(Chars) /\ port \in Seq(Chars) /\ path \in Seq(Chars)
    /\ p \in {4, 5} /\ Len(a) = p + 3
    /\ \A j \in 1..Len(a) : a[j] = "/" <=> j \in {p + 2, p + 3}
    /\ a[5] = "s" <=> p = 5
    /\ \A j \in 1..Len(h) : h[j] \notin {"/", ":"}
    /\ q = IF port = <<>> THEN <<>> ELSE <<":">> \o port
    /\ \A j \in 1..Len(q) : q[j] # "/"
    /\ \A j \in 1..Len(port) : IsDigit(port[j], 10)
    /\ path # <<>> => path[1] = "/"

(* What parseURL does with a text made of such parts. *)
LEMMA Taken ==
    ASSUME NEW a, NEW p, NEW h, NEW q, NEW port, NEW path, Shaped(a, p, h, q, port, path)
    PROVE  ParseURL((a \o (h \o q)) \o path)
              = [host |-> h,
                 port |-> IF port # <<>> THEN NumberOf(port, 10) ELSE IF p = 5 THEN 443 ELSE 80,
                 path |-> IF path = <<>> THEN <<"/">> ELSE path]
<1> DEFINE b == h \o q
           text == (a \o b) \o path
           fslash == IF text[5] = "s" THEN 5 ELSE 4
           third == GetIndexOf(text, "/", 3)
           slash == IF third = -1 THEN Len(text) ELSE third
           host == SubSeq(text, fslash + 4, slash)
           colon == GetIndexOf(host, ":", 1)
<1>0. /\ a \in Seq(Chars) /\ h \in Seq(Chars) /\ q \in Seq(Chars) /\ port \in Seq(Chars) /\ path \in Seq(Chars)
      /\ p \in {4, 5} /\ Len(a) = p + 3
      /\ \A j \in 1..Len(a) : a[j] = "/" <=> j \in {p + 2, p + 3}
      /\ a[5] = "s" <=> p = 5
      /\ \A j \in 1..Len(h) : h[j] \notin {"/", ":"}
      /\ q = IF port = <<>> THEN <<>> ELSE <<":">> \o port
      /\ \A j \in 1..Len(q) : q[j] # "/"
      /\ \A j \in 1..Len(port) : IsDigit(port[j], 10)
      /\ path # <<>> => path[1] = "/"
  BY DEF Shaped
<1>1. ParseURL(text) = [host |-> IF colon = -1 THEN host ELSE SubSeq(host, 1, colon),
                        port |-> IF colon # -1 THEN Atoi(SubSeq(host, colon + 2, Len(host)))
                                 ELSE IF fslash = 5 THEN 443 ELSE 80,
                        path |-> IF third = -1 THEN <<"/">> ELSE SubSeq(text, slash + 1, Len(text))]
  BY DEF ParseURL
<1>2. b \in Seq(Chars) /\ \A j \in 1..Len(b) : b[j] # "/"
  <2>1. /\ b \in Seq(Chars) /\ Len(b) = Len(h) + Len(q)
        /\ \A j \in 1..Len(h) : b[j] = h[j]
        /\ \A j \in 1..Len(q) : b[Len(h) + j] = q[j]
    BY <1>0, ConcatProperties
  <2>2. Len(h) \in Nat /\ Len(q) \in Nat
    BY <1>0, LenProperties
  <2> HIDE DEF b
  <2>3. ASSUME NEW j \in 1..Len(b) PROVE b[j] # "/"
    <3>1. CASE j <= Len(h)
      <4>1. j \in 1..Len(h)
        BY <2>2, <3>1
      <4> QED
        BY <1>0, <2>1, <4>1
    <3>2. CASE j > Len(h)
      <4> DEFINE k == j - Len(h)
      <4>1. k \in 1..Len(q) /\ Len(h) + k = j
        BY <2>1, <2>2, <3>2
      <4> HIDE DEF k
      <4>2. b[Len(h) + k] = q[k] /\ q[k] # "/"
        BY <1>0, <2>1, <4>1
      <4> QED
        BY <4>1, <4>2
    <3> QED
      BY <2>2, <3>1, <3>2
  <2> QED
    BY <2>1, <2>3
<1>3. Len(a) \in Nat /\ Len(b) \in Nat /\ Len(path) \in Nat
  BY <1>0, <1>2, LenProperties
<1> HIDE DEF b
<1>4. third = IF path = <<>> THEN -1 ELSE Len(a) + Len(b)
  <2>1. p \in Nat
    BY <1>0
  <2> QED
    BY <1>0, <1>2, <2>1, ThirdSlash
<1>5. a \in Seq(Chars) /\ path \in Seq(Chars)
  BY <1>0
<1>6. text = (a \o b) \o path
  OBVIOUS
<1>7. text[5] = a[5]
  <2> HIDE DEF text
  <2>1. \A j \in 1..Len(a) : text[j] = a[j]
    BY ONLY <1>2, <1>5, <1>6, Parts
  <2>2. 5 \in 1..Len(a)
    BY <1>0, <1>3
  <2> QED
    BY <2>1, <2>2
<1>8. fslash = p
  <2> HIDE DEF text
  <2> QED
    BY <1>0, <1>7
<1> HIDE DEF text
<1>9. Len(text) = Len(a) + Len(b) + Len(path)
  BY ONLY <1>2, <1>5, <1>6, Parts
<1>10. SubSeq(text, Len(a) + 1, Len(a) + Len(b)) = b
  BY ONLY <1>2, <1>5, <1>6, Parts
<1>11. SubSeq(text, Len(a) + Len(b) + 1, Len(text)) = path
  BY ONLY <1>2, <1>5, <1>6, Parts
<1>12. slash = Len(a) + Len(b)
  <2>1. path = <<>> => Len(path) = 0
    BY EmptySeq
  <2> HIDE DEF text, third
  <2> QED
    BY <1>3, <1>4, <1>9, <2>1
<1>13. host = b
  <2> HIDE DEF slash, fslash
  <2>1. fslash + 4 = Len(a) + 1
    BY <1>0, <1>3, <1>8
  <2> QED
    BY <1>12, <1>10, <2>1
<1>14. SubSeq(text, slash + 1, Len(text)) = path
  <2> HIDE DEF slash
  <2> QED
    BY <1>12, <1>11
<1>15. third = -1 <=> path = <<>>
  <2> HIDE DEF third
  <2> QED
    BY <1>3, <1>4
<1>16. /\ colon = -1 <=> port = <<>>
       /\ port = <<>> => host = h
       /\ port # <<>> => /\ SubSeq(host, 1, colon) = h
                        /\ Atoi(SubSeq(host, colon + 2, Len(host))) = NumberOf(port, 10)
  <2>1. WithPort(h, q, port)
    BY <1>0 DEF WithPort
  <2>2. host = h \o q
    BY <1>13 DEF b
  <2> HIDE DEF host
  <2>3. colon = GetIndexOf(h \o q, ":", 1)
    BY <2>2
  <2> HIDE DEF colon
  <2>4. SplitAt(h \o q, colon, h, port)
    BY <2>1, <2>3, Authority
  <2> QED
    BY <2>2, <2>4 DEF SplitAt
<1> HIDE DEF colon, host, slash, third, fslash, text
<1>17. ParseURL(text) = [host |-> h,
                         port |-> IF port # <<>> THEN NumberOf(port, 10) ELSE IF p = 5 THEN 443 ELSE 80,
                         path |-> IF path = <<>> THEN <<"/">> ELSE path]
  <2> DEFINE x == IF colon = -1 THEN host ELSE SubSeq(host, 1, colon)
             y == IF colon # -1 THEN Atoi(SubSeq(host, colon + 2, Len(host)))
                  ELSE IF fslash = 5 THEN 443 ELSE 80
             z == IF third = -1 THEN <<"/">> ELSE SubSeq(text, slash + 1, Len(text))
             y1 == IF port # <<>> THEN NumberOf(port, 10) ELSE IF p = 5 THEN 443 ELSE 80
             z1 == IF path = <<>> THEN <<"/">> ELSE path
  <2>1. x = h
    BY <1>16
  <2>2. y = y1
    BY <1>8, <1>16
  <2>3. z = z1
    BY <1>14, <1>15
  <2>4. ParseURL(text) = [host |-> x, port |-> y, path |-> z]
    BY <1>1
  <2> HIDE DEF x, y, z, y1, z1
  <2>5. ParseURL(text) = [host |-> h, port |-> y1, path |-> z1]
    BY <2>1, <2>2, <2>3, <2>4
  <2> QED
    BY <2>5 DEF y1, z1
<1> QED
  BY <1>17 DEF text, b

(* Every URL is taken apart into what it was made of. *)
LEMMA UrlTaken ==
    ASSUME NEW i \in Urls
    PROVE  ParseURL(Text(i)) = [host |-> i.host,
                                port |-> IF i.port # <<>> THEN NumberOf(i.port, 10)
                                         ELSE IF Len(i.proto) = 5 THEN 443 ELSE 80,
                                path |-> IF i.path = <<>> THEN <<"/">> ELSE i.path]
<1> DEFINE a == i.proto \o <<":", "/", "/">>
           q == IF i.port = <<>> THEN <<>> ELSE <<":">> \o i.port
           p == Len(i.proto)
           h == i.host
           port == i.port
           path == i.path
<1>1. /\ a \in Seq(Chars) /\ q \in Seq(Chars) /\ h \in Seq(Chars) /\ path \in Seq(Chars)
      /\ p \in {4, 5} /\ Len(a) = p + 3
      /\ \A j \in 1..Len(a) : a[j] = "/" <=> j \in {p + 2, p + 3}
      /\ a[5] = "s" <=> p = 5
      /\ \A j \in 1..Len(h) : h[j] \notin {"/", ":"}
      /\ \A j \in 1..Len(q) : q[j] # "/"
      /\ Text(i) = (a \o (h \o q)) \o path
  BY UrlParts
<1>2. /\ port \in Seq(Chars) /\ \A j \in 1..Len(port) : IsDigit(port[j], 10)
      /\ path # <<>> => path[1] = "/"
  BY UrlAssumption DEF Urls
<1>3. q = IF port = <<>> THEN <<>> ELSE <<":">> \o port
  OBVIOUS
<1> HIDE DEF a, q, p, h, port, path
<1>4. Shaped(a, p, h, q, port, path)
  BY <1>1, <1>2, <1>3 DEF Shaped
<1>5. ParseURL((a \o (h \o q)) \o path)
         = [host |-> h,
            port |-> IF port # <<>> THEN NumberOf(port, 10) ELSE IF p = 5 THEN 443 ELSE 80,
            path |-> IF path = <<>> THEN <<"/">> ELSE path]
  BY <1>4, Taken
<1> QED
  BY <1>1, <1>5 DEF p, h, port, path

-----------------------------------------------------------------------------
(* What atoh does with a text made of blanks, an 0x or none, digits and what *)
(* follows them: blanks end where neither they nor the digits can.           *)
LEMMA StartIs ==
    ASSUME NEW b \in Seq(Chars), \A i \in 1..Len(b) : b[i] \in Spaces,
           NEW c \in Seq(Chars), Len(c) > 0, c[1] \notin Spaces
    PROVE  Start(b \o c) = Len(b) + 1
<1> DEFINE text == b \o c
           A == {i \in 1..Len(text) + 1 : i > Len(text) \/ text[i] \notin Spaces}
           k == Len(b) + 1
<1>1. Len(b) \in Nat /\ Len(c) \in Nat
  BY LenProperties
<1>2. /\ Len(text) = Len(b) + Len(c)
      /\ \A i \in 1..Len(b) : text[i] = b[i]
      /\ \A i \in 1..Len(c) : text[Len(b) + i] = c[i]
  BY ConcatProperties
<1>7. Start(text) = Min(A)
  BY DEF Start
<1> HIDE DEF text
<1>3. text[k] = c[1] /\ k \in 1..(Len(text) + 1) /\ \A i \in 1..(k - 1) : text[i] \in Spaces
  <2>1. 1 \in 1..Len(c) /\ k - 1 = Len(b)
    BY <1>1
  <2>2. text[k] = c[1]
    BY <1>2, <2>1
  <2>3. k \in 1..(Len(text) + 1)
    BY <1>1, <1>2
  <2>4. \A i \in 1..Len(b) : text[i] \in Spaces
    BY <1>1, <1>2
  <2> QED
    BY <2>1, <2>2, <2>3, <2>4
<1>9. k <= Len(text) /\ k \in Nat
  BY <1>1, <1>2
<1> HIDE DEF k
<1>4. k \in A
  BY <1>3
<1>5. ASSUME NEW i \in A PROVE k <= i
  BY <1>1, <1>2, <1>3, <1>5, <1>9
<1>6. A \subseteq Int
  BY <1>1, <1>2
<1>8. Min(A) = k
  <2>1. \A i \in A : k <= i
    BY <1>5
  <2> HIDE DEF A
  <2> QED
    BY <1>4, <1>6, <2>1, MinIs
<1> QED
  BY <1>7, <1>8 DEF text, k

(* Digits, and what does not go on like them. *)
Written(d, t) ==
    /\ d \in Seq(Chars) /\ t \in Seq(Chars) /\ Len(d) > 0
    /\ \A j \in 1..Len(d) : d[j] \in DOMAIN Value
    /\ t # <<>> => ~IsDigit(t[1], 16) /\ t[1] \notin {"x", "X"}

(* What is read of them is their number, in an unsigned int. *)
LEMMA WrittenRead ==
    ASSUME NEW d, NEW t, Written(d, t)
    PROVE  /\ d \o t \in Seq(Chars) /\ Len(d \o t) > 0
           /\ (d \o t)[1] \notin Spaces
           /\ Len(d \o t) > 1 => (d \o t)[2] \notin {"x", "X"}
           /\ Accumulate(Leading(d \o t, 16), LAMBDA n, v : (n * 16 + v) % Modulus)
                 = NumberOf(d, 16) % Modulus
<1>0. /\ d \in Seq(Chars) /\ t \in Seq(Chars) /\ Len(d) > 0
      /\ \A j \in 1..Len(d) : d[j] \in DOMAIN Value
      /\ t # <<>> => ~IsDigit(t[1], 16) /\ t[1] \notin {"x", "X"}
  BY DEF Written
<1>1. Len(d) \in Nat /\ Len(t) \in Nat
  BY <1>0, LenProperties
<1> DEFINE c == d \o t
<1>2. /\ c \in Seq(Chars) /\ Len(c) = Len(d) + Len(t)
      /\ \A j \in 1..Len(d) : c[j] = d[j]
      /\ \A j \in 1..Len(t) : c[Len(d) + j] = t[j]
  BY <1>0, ConcatProperties
<1>3. Leading(c, 16) = d
  <2>1. ASSUME NEW j \in 1..Len(d) PROVE IsDigit(d[j], 16)
    <3>1. d[j] \in DOMAIN Value
      BY <1>0
    <3>2. Value[d[j]] \in 0..15
      BY <3>1, DigitValues
    <3> QED
      BY <3>1, <3>2 DEF IsDigit
  <2>2. 16 \in Nat
    OBVIOUS
  <2> QED
    BY <1>0, <2>1, <2>2, LeadingDigits
<1>4. AllDigits(d)
  BY <1>0, <1>1 DEF AllDigits
<1>5. Accumulate(d, LAMBDA n, v : (n * 16 + v) % Modulus) = NumberOf(d, 16) % Modulus
  BY <1>4, AtohReads
<1>6. Accumulate(Leading(c, 16), LAMBDA n, v : (n * 16 + v) % Modulus) = NumberOf(d, 16) % Modulus
  BY <1>3, <1>5 DEF Accumulate
<1> HIDE DEF c
<1>7. c[1] \notin Spaces
  <2>1. 1 \in 1..Len(d)
    BY <1>0, <1>1
  <2>2. c[1] \in DOMAIN Value
    BY <1>0, <1>2, <2>1
  <2> QED
    BY <2>2, DigitValues
<1>8. ASSUME Len(c) > 1 PROVE c[2] \notin {"x", "X"}
  <2>1. CASE Len(d) > 1
    <3>1. 2 \in 1..Len(d)
      BY <1>1, <2>1
    <3>2. c[2] \in DOMAIN Value
      BY <1>0, <1>2, <3>1
    <3> QED
      BY <3>2, DigitValues
  <2>2. CASE Len(d) = 1
    <3>1. 1 \in 1..Len(t) /\ Len(d) + 1 = 2
      BY <1>1, <1>2, <1>8, <2>2
    <3>2. c[2] = t[1]
      BY <1>2, <3>1
    <3>3. t # <<>>
      BY <3>1, EmptySeq
    <3> QED
      BY <1>0, <3>2, <3>3
  <2>3. Len(d) > 1 \/ Len(d) = 1
    <3> DEFINE n == Len(d)
    <3>1. n \in Nat /\ n > 0
      BY <1>0, <1>1
    <3> HIDE DEF n
    <3>2. n > 1 \/ n = 1
      BY ONLY <3>1
    <3> QED
      BY <3>2 DEF n
  <2> QED
    BY <2>1, <2>2, <2>3
<1>9. c \in Seq(Chars) /\ Len(c) > 0
  BY <1>0, <1>1, <1>2
<1> QED
  BY <1>6, <1>7, <1>8, <1>9 DEF c

LEMMA PlainRead ==
    ASSUME NEW b \in Seq(Chars), \A i \in 1..Len(b) : b[i] \in Spaces,
           NEW d, NEW t, Written(d, t)
    PROVE  Atoh(b \o (d \o t)) = NumberOf(d, 16) % Modulus
<1> DEFINE c == d \o t
           text == b \o c
           start == Start(text)
           prefixed == start < Len(text) /\ text[start] = "0" /\ text[start + 1] \in {"x", "X"}
           rest == SubSeq(text, IF prefixed THEN start + 2 ELSE start, Len(text))
<1>1. Atoh(text) = Accumulate(Leading(rest, 16), LAMBDA n, v : (n * 16 + v) % Modulus)
  BY DEF Atoh
<1>2. /\ c \in Seq(Chars) /\ Len(c) > 0 /\ c[1] \notin Spaces
      /\ Len(c) > 1 => c[2] \notin {"x", "X"}
      /\ Accumulate(Leading(c, 16), LAMBDA n, v : (n * 16 + v) % Modulus) = NumberOf(d, 16) % Modulus
  BY WrittenRead
<1> HIDE DEF c
<1>3. Len(b) \in Nat /\ Len(c) \in Nat
  BY <1>2, LenProperties
<1>4. start = Len(b) + 1
  BY <1>2, StartIs
<1>5. Len(text) = Len(b) + Len(c) /\ \A i \in 1..Len(c) : text[Len(b) + i] = c[i]
  <2>1. b \in Seq(Chars) /\ c \in Seq(Chars)
    BY <1>2
  <2> QED
    BY ONLY <2>1, ConcatProperties
<1>6. SubSeq(text, Len(b) + 1, Len(b) + Len(c)) = c
  <2> DEFINE e == <<>>
  <2>1. e \in Seq(Chars) /\ text \in Seq(Chars)
    BY <1>2, EmptySeq, ConcatProperties
  <2>2. text = (b \o c) \o e
    BY <2>1, ConcatEmptySeq
  <2>3. b \in Seq(Chars) /\ c \in Seq(Chars)
    BY <1>2
  <2> HIDE DEF e, text
  <2> QED
    BY ONLY <2>1, <2>2, <2>3, Parts
<1> HIDE DEF text, start
<1>7. ~prefixed
  <2> SUFFICES ASSUME start < Len(text) PROVE text[start + 1] \notin {"x", "X"}
    OBVIOUS
  <2>1. 2 \in 1..Len(c) /\ start + 1 = Len(b) + 2
    BY <1>3, <1>4, <1>5
  <2>2. text[start + 1] = c[2]
    BY <1>5, <2>1
  <2>3. Len(c) > 1
    BY <1>3, <2>1
  <2> QED
    BY <1>2, <2>2, <2>3
<1>8. rest = c
  BY <1>4, <1>5, <1>6, <1>7
<1> HIDE DEF rest
<1>9. Atoh(text) = NumberOf(d, 16) % Modulus
  BY <1>1, <1>2, <1>8
<1> QED
  BY <1>9 DEF text, c

LEMMA PrefixedRead ==
    ASSUME NEW b \in Seq(Chars), \A i \in 1..Len(b) : b[i] \in Spaces,
           NEW x \in Seq(Chars), Len(x) = 2, x[1] = "0", x[2] \in {"x", "X"},
           NEW d, NEW t, Written(d, t)
    PROVE  Atoh(b \o (x \o (d \o t))) = NumberOf(d, 16) % Modulus
<1> DEFINE e == d \o t
           c == x \o e
           text == b \o c
           start == Start(text)
           prefixed == start < Len(text) /\ text[start] = "0" /\ text[start + 1] \in {"x", "X"}
           rest == SubSeq(text, IF prefixed THEN start + 2 ELSE start, Len(text))
<1>1. Atoh(text) = Accumulate(Leading(rest, 16), LAMBDA n, v : (n * 16 + v) % Modulus)
  BY DEF Atoh
<1>2. /\ e \in Seq(Chars) /\ Len(e) > 0
      /\ Accumulate(Leading(e, 16), LAMBDA n, v : (n * 16 + v) % Modulus) = NumberOf(d, 16) % Modulus
  BY WrittenRead
<1> HIDE DEF e
<1>3. /\ c \in Seq(Chars) /\ Len(c) = 2 + Len(e)
      /\ \A i \in 1..Len(x) : c[i] = x[i]
  <2>1. x \in Seq(Chars) /\ e \in Seq(Chars)
    BY <1>2
  <2>2. c \in Seq(Chars) /\ Len(c) = Len(x) + Len(e)
    BY ONLY <2>1, ConcatProperties
  <2>3. \A i \in 1..Len(x) : c[i] = x[i]
    BY ONLY <2>1, ConcatProperties
  <2> HIDE DEF c
  <2> QED
    BY <2>2, <2>3
<1>4. Len(b) \in Nat /\ Len(e) \in Nat
  BY <1>2, LenProperties
<1>5. text = (b \o x) \o e
  <2>1. b \in Seq(Chars) /\ x \in Seq(Chars) /\ e \in Seq(Chars)
    BY <1>2
  <2> QED
    BY ONLY <2>1, Rebracket
<1> HIDE DEF c
<1>6. Len(c) > 0 /\ c[1] = "0" /\ c[2] \in {"x", "X"}
  BY <1>3, <1>4
<1>7. c[1] \notin Spaces
  BY <1>6, DigitValues
<1>8. start = Len(b) + 1
  BY <1>3, <1>6, <1>7, StartIs
<1>9. Len(text) = Len(b) + Len(c) /\ \A i \in 1..Len(c) : text[Len(b) + i] = c[i]
  <2>1. b \in Seq(Chars) /\ c \in Seq(Chars)
    BY <1>3
  <2> QED
    BY ONLY <2>1, ConcatProperties
<1>10. SubSeq(text, Len(b) + Len(x) + 1, Len(text)) = e
  <2>1. b \in Seq(Chars) /\ x \in Seq(Chars) /\ e \in Seq(Chars)
    BY <1>2
  <2> HIDE DEF text
  <2> QED
    BY ONLY <1>5, <2>1, Parts
<1> HIDE DEF text, start
<1>11. prefixed
  <2>1. 1 \in 1..Len(c) /\ 2 \in 1..Len(c) /\ start + 1 = Len(b) + 2 /\ start < Len(text)
    BY <1>3, <1>4, <1>8, <1>9
  <2>2. text[start] = c[1] /\ text[start + 1] = c[2]
    BY <1>8, <1>9, <2>1
  <2> QED
    BY <1>6, <2>1, <2>2
<1>12. rest = e
  <2>1. start + 2 = Len(b) + Len(x) + 1
    BY <1>4, <1>8
  <2> HIDE DEF prefixed
  <2> QED
    BY <1>10, <1>11, <2>1
<1> HIDE DEF rest
<1>13. Atoh(text) = NumberOf(d, 16) % Modulus
  BY <1>1, <1>2, <1>12
<1> QED
  BY <1>13 DEF text, c, e

(* Every length is read as the number its digits stand for. *)
LEMMA LengthTaken == ASSUME NEW i \in Lengths PROVE Atoh(Text(i)) = NumberOf(i.digits, 16) % Modulus
<1> DEFINE b == i.blank
           x == i.prefix
           d == i.digits
           t == i.tail
<1>1. /\ i.kind = "length" /\ b \in Blanks /\ t \in Tails
      /\ x \in {<<>>, <<"0", "x">>, <<"0", "X">>}
      /\ d \in BoundedSeq(Digits, MaxDigits) /\ d # <<>>
  BY DEF Lengths
<1>2. Text(i) = ((b \o x) \o d) \o t
  BY <1>1 DEF Text
<1> HIDE DEF b, x, d, t
<1>3. b \in Seq(Chars) /\ \A j \in 1..Len(b) : b[j] \in Spaces
  BY <1>1, LengthAssumption
<1>4. Written(d, t)
  <2>1. t \in Seq(Chars) /\ (t # <<>> => ~IsDigit(t[1], 16) /\ t[1] \notin {"x", "X"})
    BY <1>1, LengthAssumption
  <2>2. PICK m \in 0..MaxDigits : d \in [1..m -> Digits]
    BY <1>1 DEF BoundedSeq, SeqOf
  <2>3. m \in Nat
    BY LengthAssumption
  <2>4. Digits \subseteq DOMAIN Value /\ DOMAIN Value \subseteq Chars
    BY LengthAssumption, CharAssumption
  <2>5. d \in Seq(Chars) /\ Len(d) = m /\ \A j \in 1..Len(d) : d[j] \in DOMAIN Value
    BY <2>2, <2>3, <2>4
  <2>6. Len(d) > 0
    BY <1>1, <2>3, <2>5, EmptySeq
  <2> QED
    BY <2>1, <2>5, <2>6 DEF Written
<1> DEFINE c == d \o t
<1>5. d \in Seq(Chars) /\ t \in Seq(Chars) /\ c \in Seq(Chars)
  BY <1>4, WrittenRead DEF Written
<1>6. CASE x = <<>>
  <2>1. b \o x = b
    BY <1>3, <1>6, ConcatEmptySeq
  <2>2. Text(i) = b \o (d \o t)
    <3>1. Text(i) = (b \o d) \o t
      BY <1>2, <2>1
    <3>2. (b \o d) \o t = b \o (d \o t)
      BY <1>3, <1>5, Rebracket
    <3> QED
      BY <3>1, <3>2
  <2>3. Atoh(b \o (d \o t)) = NumberOf(d, 16) % Modulus
    BY <1>3, <1>4, PlainRead
  <2> QED
    BY <2>2, <2>3 DEF d
<1>7. CASE x # <<>>
  <2>1. x \in Seq(Chars) /\ Len(x) = 2 /\ x[1] = "0" /\ x[2] \in {"x", "X"}
    <3>1. "0" \in Chars /\ "x" \in Chars /\ "X" \in Chars
      BY CharAssumption, DigitValues
    <3>2. CASE x = <<"0", "x">>
      BY <3>1, <3>2
    <3>3. CASE x = <<"0", "X">>
      BY <3>1, <3>3
    <3> QED
      BY <1>1, <1>7, <3>2, <3>3
  <2>2. ((b \o x) \o d) \o t = b \o (x \o (d \o t))
    <3>1. b \o x \in Seq(Chars)
      BY <1>3, <2>1, ConcatProperties
    <3>2. ((b \o x) \o d) \o t = (b \o x) \o (d \o t)
      <4> DEFINE u == b \o x
      <4>1. u \in Seq(Chars)
        BY <3>1
      <4> HIDE DEF u
      <4>2. d \in Seq(Chars) /\ t \in Seq(Chars)
        BY <1>5
      <4>3. (u \o d) \o t = u \o (d \o t)
        BY ONLY <4>1, <4>2, Rebracket
      <4> QED
        BY <4>3 DEF u
    <3>3. (b \o x) \o (d \o t) = b \o (x \o (d \o t))
      <4> HIDE DEF c
      <4>1. b \in Seq(Chars) /\ x \in Seq(Chars) /\ c \in Seq(Chars)
        BY <1>3, <1>5, <2>1
      <4>2. (b \o x) \o c = b \o (x \o c)
        BY ONLY <4>1, Rebracket
      <4> QED
        BY <4>2 DEF c
    <3> QED
      BY <3>2, <3>3
  <2>3. Atoh(b \o (x \o (d \o t))) = NumberOf(d, 16) % Modulus
    BY <1>3, <1>4, <2>1, PrefixedRead
  <2> QED
    BY <1>2, <2>2, <2>3 DEF d
<1> QED
  BY <1>6, <1>7

-----------------------------------------------------------------------------
(* What was found is what the functions make of the input. *)
Found == /\ input \in Urls \cup Lengths
         /\ \/ output = <<>>
            \/ input.kind = "url" /\ output = <<ParseURL(Text(input))>>
            \/ input.kind = "length" /\ output = <<Atoh(Text(input))>>

LEMMA FoundInv == Spec => []Found
<1>1. Init => Found
  BY DEF Init, Found
<1>2. Found /\ [Next]_vars => Found'
  BY DEF Found, Next, vars, ParseUrl, ParseLength
<1> QED
  BY <1>1, <1>2, PTL DEF Spec

(* parseURL: whatever the host, the port and the path, and however many     *)
(* slashes and colons the path has, the probe goes where the URL says.      *)
THEOREM UrlRead == Spec => []UrlUnderstood
<1>1. Found => UrlUnderstood
  <2> SUFFICES ASSUME Found, output # <<>>, input.kind = "url" PROVE UrlUnderstood
    BY DEF UrlUnderstood
  <2>1. input \in Urls
    BY DEF Found, Lengths
  <2>2. output = <<ParseURL(Text(input))>>
    BY DEF Found
  <2>3. output[1] = ParseURL(Text(input))
    BY <2>2
  <2> QED
    BY <2>1, <2>3, UrlTaken DEF UrlUnderstood
<1> QED
  BY <1>1, FoundInv, PTL

(* atoh: whatever the digits and however many, with blanks, 0x or neither   *)
(* before them, and for every width of an unsigned int.                     *)
THEOREM LengthRead == Spec => []LengthUnderstood
<1>1. Found => LengthUnderstood
  <2> SUFFICES ASSUME Found, output # <<>>, input.kind = "length" PROVE LengthUnderstood
    BY DEF LengthUnderstood
  <2>1. input \in Lengths
    BY DEF Found, Urls
  <2>2. output = <<Atoh(Text(input))>>
    BY DEF Found
  <2>3. output[1] = Atoh(Text(input))
    BY <2>2
  <2> QED
    BY <2>1, <2>3, LengthTaken DEF LengthUnderstood
<1> QED
  BY <1>1, FoundInv, PTL
=============================================================================
