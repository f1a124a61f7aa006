----------------------------- MODULE TextsProofs -----------------------------
(***************************************************************************)
(* What the libraries that make something of a text promise, for texts and  *)
(* numbers of any length: BigInt's operator+ gives the sum, in decimal      *)
(* digits, uuid's FromString and String are inverse to each other, MD5      *)
(* digests the whole message and nothing beyond it, tinydb takes its        *)
(* statements as they are written, the option loops of psycal and           *)
(* packetdraw send what their command lines say, and the lexers of mdm and  *)
(* tvm keep their tokens in their lines.                                    *)
(***************************************************************************)
EXTENDS BigInt, UuidText, Md5, TinyDb, CommandLines, MdmLexer, TvmLexer,
        FiniteSetTheorems, WellFoundedInduction, TLAPS

(* The members of a sequence. *)
LEMMA ElementsOf ==
    ASSUME NEW S, NEW s \in Seq(S)
    PROVE  /\ Len(s) \in Nat /\ DOMAIN s = 1 .. Len(s)
           /\ \A k \in 1 .. Len(s) : s[k] \in S
           /\ s = <<>> <=> Len(s) = 0
  OBVIOUS

(* Appending, and a function on 1..n as a sequence. *)
LEMMA AppendOf ==
    ASSUME NEW S, NEW s \in Seq(S), NEW x \in S
    PROVE  /\ Append(s, x) \in Seq(S) /\ Len(Append(s, x)) = Len(s) + 1
           /\ \A k \in 1 .. Len(s) : Append(s, x)[k] = s[k]
           /\ Append(s, x)[Len(s) + 1] = x
  OBVIOUS

Maps(f, n, S) == f \in [1 .. n -> S]
IsSeqOf(f, n, S) == f \in Seq(S) /\ Len(f) = n

LEMMA FunctionOf ==
    ASSUME NEW S, NEW n \in Nat, NEW f, Maps(f, n, S)
    PROVE  IsSeqOf(f, n, S)
  BY DEF Maps, IsSeqOf

-----------------------------------------------------------------------------
(* BigInt.                                                                   *)

(* Induction over a set of numbers, from the well-foundedness of Nat. *)
LEMMA NatInduct ==
    ASSUME NEW T, 0 \in T, \A n \in Nat : n \in T => n + 1 \in T
    PROVE  Nat \subseteq T
<1> DEFINE B == Nat \ T
           R == OpToRel(<, Nat)
<1>1. SUFFICES ASSUME B # {} PROVE FALSE
  OBVIOUS
<1>2. IsWellFoundedOn(R, Nat)
  BY NatLessThanWellFounded
<1>3. PICK x \in B : \A y \in B : ~ (<<y, x>> \in R)
  <2>1. B \subseteq Nat
    OBVIOUS
  <2> HIDE DEF B, R
  <2> QED
    BY <1>1, <1>2, <2>1, WFMin
<1>4. x - 1 \in B
  OBVIOUS
<1>5. <<x - 1, x>> \in R
  BY DEF OpToRel
<1> QED
  BY <1>3, <1>4, <1>5

-----------------------------------------------------------------------------
(* Reading a number.  v gives the value of the first n digits, for n up to m. *)
Reads(v, digits, m) ==
    v = [n \in 0..m |-> IF n = 0 THEN 0 ELSE 10 * v[n - 1] + digits[n]]

LEMMA ReadsExists ==
    ASSUME NEW digits
    PROVE  \A m \in Nat : \E v : Reads(v, digits, m)
<1> DEFINE T == {m \in Nat : \E v : Reads(v, digits, m)}
<1>1. 0 \in T
  <2>1. Reads([n \in 0..0 |-> 0], digits, 0)
    BY DEF Reads
  <2> QED
    BY <2>1
<1>2. ASSUME NEW m \in Nat, m \in T PROVE m + 1 \in T
  <2>1. PICK v : Reads(v, digits, m)
    BY <1>2
  <2> DEFINE h == [n \in 0..m + 1 |-> IF n <= m THEN v[n] ELSE 10 * v[m] + digits[m + 1]]
  <2>2. \A n \in 0..m : v[n] = IF n = 0 THEN 0 ELSE 10 * v[n - 1] + digits[n]
    BY <2>1, Zenon DEF Reads
  <2>3. \A n \in 0..m + 1 : h[n] = IF n = 0 THEN 0 ELSE 10 * h[n - 1] + digits[n]
    BY <2>2
  <2>4. Reads(h, digits, m + 1)
    BY <2>3 DEF Reads
  <2> QED
    BY <2>4
<1>3. Nat \subseteq T
  <2> HIDE DEF T
  <2> QED
    BY <1>1, <1>2, NatInduct
<1> QED
  BY <1>3

LEMMA ReadingDef ==
    ASSUME NEW digits, Len(digits) \in Nat
    PROVE  /\ Reading(digits)[0] = 0
           /\ \A n \in 1..Len(digits) : Reading(digits)[n] = 10 * Reading(digits)[n - 1] + digits[n]
<1>1. Reading(digits) = CHOOSE v : Reads(v, digits, Len(digits))
  BY DEF Reading, Reads
<1>2. \E v : Reads(v, digits, Len(digits))
  BY ReadsExists
<1>3. Reads(Reading(digits), digits, Len(digits))
  BY <1>1, <1>2, Zenon
<1>4. \A n \in 0..Len(digits) :
          Reading(digits)[n] = IF n = 0 THEN 0 ELSE 10 * Reading(digits)[n - 1] + digits[n]
  BY <1>3, Zenon DEF Reads
<1> QED
  BY <1>4

LEMMA ReadingType ==
    ASSUME NEW digits \in Seq(Nat)
    PROVE  \A n \in 0..Len(digits) : Reading(digits)[n] \in Nat
<1> DEFINE T == {n \in Nat : n <= Len(digits) => Reading(digits)[n] \in Nat}
<1>1. Len(digits) \in Nat /\ \A n \in 1..Len(digits) : digits[n] \in Nat
  OBVIOUS
<1>2. /\ Reading(digits)[0] = 0
      /\ \A n \in 1..Len(digits) : Reading(digits)[n] = 10 * Reading(digits)[n - 1] + digits[n]
  BY <1>1, ReadingDef
<1>3. 0 \in T
  BY <1>2
<1>4. ASSUME NEW n \in Nat, n \in T PROVE n + 1 \in T
  <2> SUFFICES ASSUME n + 1 <= Len(digits) PROVE Reading(digits)[n + 1] \in Nat
    OBVIOUS
  <2>1. n + 1 \in 1..Len(digits) /\ (n + 1) - 1 = n
    BY <1>1
  <2>2. Reading(digits)[n + 1] = 10 * Reading(digits)[n] + digits[n + 1]
    BY <1>2, <2>1
  <2>3. Reading(digits)[n] \in Nat /\ digits[n + 1] \in Nat
    BY <1>1, <1>4, <2>1
  <2> QED
    BY <2>2, <2>3
<1>5. Nat \subseteq T
  <2> HIDE DEF T
  <2> QED
    BY <1>3, <1>4, NatInduct
<1> QED
  BY <1>1, <1>5

(* Two functions that run along the same digits from the same value agree. *)
RunsAlong(g, digits) ==
    /\ \A n \in 0..Len(digits) : g[n] \in Nat
    /\ \A n \in 1..Len(digits) : g[n] = 10 * g[n - 1] + digits[n]

LEMMA RunsAgree ==
    ASSUME NEW digits \in Seq(Nat), NEW g, RunsAlong(g, digits), g[0] = 0
    PROVE  Value(digits) = g[Len(digits)]
<1> DEFINE T == {n \in Nat : n <= Len(digits) => Reading(digits)[n] = g[n]}
<1>1. Len(digits) \in Nat /\ \A n \in 1..Len(digits) : digits[n] \in Nat
  OBVIOUS
<1>2. /\ Reading(digits)[0] = 0
      /\ \A n \in 1..Len(digits) : Reading(digits)[n] = 10 * Reading(digits)[n - 1] + digits[n]
  BY <1>1, ReadingDef
<1>3. 0 \in T
  BY <1>2
<1>4. ASSUME NEW n \in Nat, n \in T PROVE n + 1 \in T
  BY <1>1, <1>2, <1>4 DEF RunsAlong
<1>5. Nat \subseteq T
  <2> HIDE DEF T
  <2> QED
    BY <1>3, <1>4, NatInduct
<1> QED
  BY <1>1, <1>5 DEF Value

-----------------------------------------------------------------------------
(* The two loops, for a number b and one that is not longer.                 *)

Digits == 0..9

(* k columns are added. *)
AddedAt(b, s, r, k) ==
    /\ r \in Seq(Nat) /\ Len(r) = k /\ k \in 0..Len(b)
    /\ \A j \in 1..k : r[j] = FromEnd(b, k - j) + FromEnd(s, k - j)

(* k columns are carried: the raw columns before them, and the carry, amount  *)
(* with the digits behind to the sum.                                         *)
CarriedWith(b, s, r, k, c, raw, g) ==
    /\ raw \in Seq(Nat) /\ Len(raw) = Len(b)
    /\ \A j \in 1..Len(b) - k : r[j] = raw[j] /\ raw[j] \in 0..18
    /\ \A n \in 0..Len(b) : g[n] \in Nat
    /\ \A n \in Len(b) - k + 1..Len(b) : g[n] = 10 * g[n - 1] + r[n]
    /\ g[Len(b) - k] = Reading(raw)[Len(b) - k] + c
    /\ g[Len(b)] = Value(b) + Value(s)

CarriedAt(b, s, r, k, c) ==
    /\ r \in Seq(Nat) /\ Len(r) = Len(b) /\ k \in 0..Len(b) /\ c \in {0, 1}
    /\ \A j \in Len(b) - k + 1..Len(b) : r[j] \in Digits
    /\ \E raw, g : CarriedWith(b, s, r, k, c, raw, g)

IsSumOf(b, s, r) ==
    /\ Value(r) = Value(b) + Value(s)
    /\ r \in Seq(Digits)
    /\ Len(r) > Len(b) => r[1] = 1

Pair(b, s) == b \in Seq(Digits) /\ s \in Seq(Digits) /\ Len(s) <= Len(b)

LEMMA DigitsOf ==
    ASSUME NEW d \in Seq(Digits)
    PROVE  /\ Len(d) \in Nat /\ d \in Seq(Nat)
           /\ \A n \in 1..Len(d) : d[n] \in Digits
           /\ \A n \in Nat : FromEnd(d, n) \in Digits
<1>1. Len(d) \in Nat /\ \A n \in 1..Len(d) : d[n] \in Digits
  OBVIOUS
<1>2. d \in Seq(Nat)
  BY DEF Digits
<1>3. ASSUME NEW n \in Nat PROVE FromEnd(d, n) \in Digits
  <2>1. CASE n < Len(d)
    <3>1. Len(d) - n \in 1..Len(d)
      BY <1>1, <2>1
    <3> QED
      BY <1>1, <2>1, <3>1 DEF FromEnd
  <2>2. CASE ~(n < Len(d))
    BY <2>2 DEF FromEnd, Digits
  <2> QED
    BY <2>1, <2>2
<1> QED
  BY <1>1, <1>2, <1>3

LEMMA PrependOf ==
    ASSUME NEW S, NEW r \in Seq(S), NEW x \in S
    PROVE  /\ <<x>> \o r \in Seq(S) /\ Len(<<x>> \o r) = Len(r) + 1
           /\ (<<x>> \o r)[1] = x
           /\ \A j \in 2..Len(r) + 1 : (<<x>> \o r)[j] = r[j - 1]
  OBVIOUS

LEMMA AddsColumn ==
    ASSUME NEW b, NEW s, Pair(b, s), NEW r, NEW k, AddedAt(b, s, r, k), k < Len(b)
    PROVE  AddedAt(b, s, <<FromEnd(b, k) + FromEnd(s, k)>> \o r, k + 1)
<1> DEFINE x == FromEnd(b, k) + FromEnd(s, k)
           q == <<x>> \o r
<1>1. k \in Nat /\ r \in Seq(Nat) /\ Len(r) = k /\ Len(b) \in Nat
  BY DigitsOf DEF AddedAt, Pair
<1>2. FromEnd(b, k) \in Digits /\ FromEnd(s, k) \in Digits
  BY <1>1, DigitsOf DEF Pair
<1>3. x \in Nat
  BY <1>2 DEF Digits
<1> HIDE DEF x
<1>4. /\ q \in Seq(Nat) /\ Len(q) = k + 1 /\ q[1] = x
      /\ \A j \in 2..k + 1 : q[j] = r[j - 1]
  BY <1>1, <1>3, PrependOf
<1> HIDE DEF q
<1>5. ASSUME NEW j \in 1..k + 1 PROVE q[j] = FromEnd(b, k + 1 - j) + FromEnd(s, k + 1 - j)
  <2>1. CASE j = 1
    <3>1. k + 1 - j = k
      BY <1>1, <2>1
    <3> QED
      BY <1>4, <2>1, <3>1 DEF x
  <2>2. CASE j # 1
    <3>1. j \in 2..k + 1 /\ j - 1 \in 1..k /\ k - (j - 1) = k + 1 - j
      BY <1>1, <2>2
    <3>2. r[j - 1] = FromEnd(b, k - (j - 1)) + FromEnd(s, k - (j - 1))
      BY <3>1 DEF AddedAt
    <3> QED
      BY <1>4, <3>1, <3>2
  <2> QED
    BY <2>1, <2>2
<1>6. k + 1 \in 0..Len(b)
  BY <1>1
<1>7. AddedAt(b, s, q, k + 1)
  BY <1>4, <1>5, <1>6 DEF AddedAt
<1> QED
  BY <1>7 DEF q, x

LEMMA ColumnsAdd ==
    ASSUME NEW u \in Nat, NEW v \in Nat, NEW x \in Nat, NEW y \in Nat
    PROVE  (10 * u + x) + (10 * v + y) = 10 * (u + v) + (x + y)
  OBVIOUS

(* The raw columns have the value of the sum. *)
LEMMA RawValue ==
    ASSUME NEW b, NEW s, Pair(b, s), NEW r, AddedAt(b, s, r, Len(b))
    PROVE  Value(r) = Value(b) + Value(s)
<1> DEFINE L == Len(b)
           d == Len(b) - Len(s)
           g == [n \in 0..L |-> Reading(b)[n] + IF n <= d THEN 0 ELSE Reading(s)[n - d]]
<1>1. L \in Nat /\ Len(s) \in Nat /\ Len(s) <= L /\ d \in Nat /\ d <= L
  BY DigitsOf DEF Pair
<1>2. b \in Seq(Nat) /\ s \in Seq(Nat) /\ r \in Seq(Nat) /\ Len(r) = L
  BY DigitsOf DEF Pair, AddedAt
<1>3. (\A n \in 0..L : Reading(b)[n] \in Nat) /\ (\A n \in 0..Len(s) : Reading(s)[n] \in Nat)
  BY <1>2, ReadingType
<1>4. /\ Reading(b)[0] = 0
      /\ \A n \in 1..L : Reading(b)[n] = 10 * Reading(b)[n - 1] + b[n]
      /\ Reading(s)[0] = 0
      /\ \A n \in 1..Len(s) : Reading(s)[n] = 10 * Reading(s)[n - 1] + s[n]
  BY <1>1, ReadingDef
<1>5. (\A n \in 1..L : b[n] \in Nat) /\ (\A n \in 1..Len(s) : s[n] \in Nat)
  BY <1>2, ElementsOf
<1>6. \A n \in 0..L : g[n] \in Nat
  BY <1>1, <1>3, SMTT(30)
<1>7. ASSUME NEW n \in 1..L PROVE g[n] = 10 * g[n - 1] + r[n]
  <2>1. r[n] = FromEnd(b, L - n) + FromEnd(s, L - n)
    BY DEF AddedAt
  <2>2. FromEnd(b, L - n) = b[n]
    <3>1. L - n < L /\ L - (L - n) = n
      BY <1>1
    <3> QED
      BY <3>1 DEF FromEnd
  <2>3. CASE n <= d
    <3>1. FromEnd(s, L - n) = 0
      <4>1. ~(L - n < Len(s))
        BY <1>1, <2>3
      <4> QED
        BY <4>1 DEF FromEnd
    <3>2. g[n] = Reading(b)[n] + 0 /\ g[n - 1] = Reading(b)[n - 1] + 0
      BY <1>1, <2>3
    <3>3. Reading(b)[n] \in Nat /\ Reading(b)[n - 1] \in Nat /\ b[n] \in Nat
      BY <1>1, <1>3, <1>5
    <3> QED
      BY <1>4, <2>1, <2>2, <3>1, <3>2, <3>3
  <2>4. CASE ~(n <= d)
    <3>1. n - d \in 1..Len(s) /\ n \in 1..L /\ (n - d) - 1 = (n - 1) - d
      BY <1>1, <2>4
    <3>2. FromEnd(s, L - n) = s[n - d]
      <4>1. L - n < Len(s) /\ Len(s) - (L - n) = n - d
        BY <1>1, <3>1
      <4> QED
        BY <4>1 DEF FromEnd
    <3>3. g[n] = Reading(b)[n] + Reading(s)[n - d]
      BY <2>4
    <3>4. g[n - 1] = Reading(b)[n - 1] + Reading(s)[(n - d) - 1]
      <4>1. CASE n - 1 <= d
        <5>1. (n - d) - 1 = 0
          BY <1>1, <2>4, <4>1
        <5>2. g[n - 1] = Reading(b)[n - 1] + 0
          BY <1>1, <4>1
        <5> QED
          BY <1>4, <5>1, <5>2
      <4>2. CASE ~(n - 1 <= d)
        BY <1>1, <3>1, <4>2
      <4> QED
        BY <4>1, <4>2
    <3>5. Reading(s)[n - d] = 10 * Reading(s)[(n - d) - 1] + s[n - d]
      BY <1>4, <3>1
    <3>6. Reading(s)[(n - d) - 1] \in Nat /\ s[n - d] \in Nat
      BY <1>1, <1>3, <1>5, <3>1
    <3>7. Reading(b)[n] = 10 * Reading(b)[n - 1] + b[n] /\ Reading(b)[n - 1] \in Nat /\ b[n] \in Nat
      BY <1>1, <1>3, <1>4, <1>5
    <3>8. g[n] = 10 * g[n - 1] + (b[n] + s[n - d])
      <4> HIDE DEF g, d
      <4> QED
        BY <3>3, <3>4, <3>5, <3>6, <3>7, ColumnsAdd, SMTT(30)
    <3> QED
      BY <2>1, <2>2, <3>2, <3>8
  <2> QED
    BY <2>3, <2>4
<1>8. g[0] = 0
  BY <1>1, <1>4
<1>9. g[L] = Value(b) + Value(s)
  <2>1. CASE d = L
    <3>1. g[L] = Reading(b)[L] + 0 /\ Len(s) = 0
      BY <1>1, <2>1
    <3> QED
      BY <1>4, <3>1 DEF Value
  <2>2. CASE d # L
    BY <1>1, <2>2 DEF Value
  <2> QED
    BY <2>1, <2>2
<1> HIDE DEF g
<1>10. RunsAlong(g, r)
  BY <1>2, <1>6, <1>7 DEF RunsAlong
<1> QED
  BY <1>2, <1>8, <1>9, <1>10, RunsAgree

LEMMA CarryStarts ==
    ASSUME NEW b, NEW s, Pair(b, s), NEW r, AddedAt(b, s, r, Len(b))
    PROVE  CarriedAt(b, s, r, 0, 0)
<1> DEFINE L == Len(b)
<1>1. L \in Nat /\ r \in Seq(Nat) /\ Len(r) = L
  BY DigitsOf DEF Pair, AddedAt
<1>2. ASSUME NEW j \in 1..L PROVE r[j] \in 0..18
  <2>1. L - j \in Nat
    BY <1>1
  <2>2. FromEnd(b, L - j) \in Digits /\ FromEnd(s, L - j) \in Digits
    BY <2>1, DigitsOf DEF Pair
  <2>3. r[j] = FromEnd(b, L - j) + FromEnd(s, L - j)
    BY DEF AddedAt
  <2> QED
    BY <2>2, <2>3, SMTT(30) DEF Digits
<1>3. \A n \in 0..L : Reading(r)[n] \in Nat
  BY <1>1, ReadingType
<1>4. Reading(r)[L] = Value(b) + Value(s)
  BY <1>1, RawValue DEF Value
<1>5. CarriedWith(b, s, r, 0, 0, r, Reading(r))
  <2>1. L - 0 = L /\ Reading(r)[L] + 0 = Reading(r)[L]
    BY <1>1, <1>3
  <2>2. \A n \in L + 1..L : FALSE
    BY <1>1
  <2> QED
    BY <1>1, <1>2, <1>3, <1>4, <2>1, <2>2 DEF CarriedWith
<1>6. \A j \in L - 0 + 1..L : FALSE
  BY <1>1
<1> QED
  BY <1>1, <1>5, <1>6 DEF CarriedAt

(* What a column leaves and what it carries make up its value. *)
LEMMA CarryDigit ==
    ASSUME NEW v \in 0..19
    PROVE  /\ CarryOf(v) \in {0, 1} /\ v - 10 * CarryOf(v) \in Digits
           /\ v = (v - 10 * CarryOf(v)) + 10 * CarryOf(v)
  BY DEF CarryOf, Digits

LEMMA CarryAdds ==
    ASSUME NEW u \in Nat, NEW x \in Nat, NEW c \in Nat, NEW d \in Nat, NEW e \in Nat,
           x + c = d + 10 * e
    PROVE  (10 * u + x) + c = 10 * (u + e) + d
  OBVIOUS

LEMMA CarriesColumn ==
    ASSUME NEW b, NEW s, Pair(b, s), NEW r, NEW k, NEW c, CarriedAt(b, s, r, k, c), k < Len(b)
    PROVE  LET v == FromEnd(r, k) + c
           IN  CarriedAt(b, s, [r EXCEPT ![Len(r) - k] = v - 10 * CarryOf(v)], k + 1, CarryOf(v))
<1> DEFINE L == Len(b)
           i == L - k
           v == FromEnd(r, k) + c
           d == v - 10 * CarryOf(v)
           e == CarryOf(v)
           q == [r EXCEPT ![i] = d]
<1>1. L \in Nat /\ r \in Seq(Nat) /\ Len(r) = L /\ k \in Nat /\ c \in {0, 1}
  BY DigitsOf DEF Pair, CarriedAt
<1>2. i \in 1..L /\ i - 1 \in 0..L /\ L - (k + 1) = i - 1 /\ L - (k + 1) + 1 = i /\ L - k + 1 = i + 1
  BY <1>1
<1>3. PICK raw, g : CarriedWith(b, s, r, k, c, raw, g)
  BY DEF CarriedAt
<1>4. /\ raw \in Seq(Nat) /\ Len(raw) = L
      /\ \A j \in 1..i : r[j] = raw[j] /\ raw[j] \in 0..18
      /\ \A n \in 0..L : g[n] \in Nat
      /\ \A n \in i + 1..L : g[n] = 10 * g[n - 1] + r[n]
      /\ g[i] = Reading(raw)[i] + c
      /\ g[L] = Value(b) + Value(s)
  BY <1>2, <1>3 DEF CarriedWith
<1>5. FromEnd(r, k) = raw[i] /\ raw[i] \in 0..18
  <2>1. FromEnd(r, k) = r[i]
    BY <1>1 DEF FromEnd
  <2>2. i \in 1..i
    BY <1>2
  <2> QED
    BY <1>4, <2>1, <2>2
<1>6. v \in 0..19 /\ v = raw[i] + c
  <2>1. v = raw[i] + c
    BY <1>5
  <2>2. raw[i] \in 0..18 /\ c \in {0, 1}
    BY <1>1, <1>5
  <2>3. raw[i] + c \in 0..19
    BY <2>2, SMTT(30)
  <2> QED
    BY <2>1, <2>3
<1>7. e \in {0, 1} /\ d \in Digits /\ v = d + 10 * e
  <2> HIDE DEF v
  <2> QED
    BY <1>6, CarryDigit
<1> HIDE DEF i, v, d, e
<1>8. /\ q \in Seq(Nat) /\ Len(q) = L /\ q[i] = d
      /\ \A j \in 1..L : j # i => q[j] = r[j]
  <2>1. d \in Nat
    BY <1>7 DEF Digits
  <2> QED
    BY <1>1, <1>2, <2>1
<1> HIDE DEF q
<1> DEFINE h == [n \in 0..L |-> IF n = i - 1 THEN Reading(raw)[i - 1] + e ELSE g[n]]
<1>9. Reading(raw)[i] = 10 * Reading(raw)[i - 1] + raw[i] /\ Reading(raw)[i - 1] \in Nat
  <2>1. Len(raw) \in Nat
    BY <1>1, <1>4
  <2> QED
    BY <1>2, <1>4, <2>1, ReadingDef, ReadingType
<1>10. g[i] = 10 * (Reading(raw)[i - 1] + e) + d
  <2>1. raw[i] + c = d + 10 * e
    BY <1>6, <1>7
  <2>2. raw[i] \in Nat
    BY <1>5
  <2>3. c \in Nat /\ e \in Nat
    BY <1>1, <1>7
  <2>4. d \in Nat
    BY <1>7 DEF Digits
  <2>5. Reading(raw)[i - 1] \in Nat
    BY <1>9
  <2>6. (10 * Reading(raw)[i - 1] + raw[i]) + c = 10 * (Reading(raw)[i - 1] + e) + d
    <3> DEFINE u == Reading(raw)[i - 1]
               x == raw[i]
    <3> HIDE DEF u, x
    <3>1. u \in Nat /\ x \in Nat /\ x + c = d + 10 * e
      BY <2>1, <2>2, <2>5 DEF u, x
    <3>2. (10 * u + x) + c = 10 * (u + e) + d
      BY <2>3, <2>4, <3>1, CarryAdds
    <3> QED
      BY <3>2 DEF u, x
  <2> QED
    BY <1>4, <1>9, <2>6
<1>11. \A n \in 0..L : h[n] \in Nat
  BY <1>4, <1>7, <1>9
<1>12. ASSUME NEW n \in i..L PROVE h[n] = 10 * h[n - 1] + q[n]
  <2>1. n \in 0..L /\ n - 1 \in 0..L /\ n # i - 1 /\ n \in 1..L
    BY <1>1, <1>2
  <2>2. CASE n = i
    <3>1. h[n] = g[i] /\ h[n - 1] = Reading(raw)[i - 1] + e
      BY <2>1, <2>2
    <3> QED
      BY <1>8, <1>10, <2>2, <3>1
  <2>3. CASE n # i
    <3>1. n \in i + 1..L /\ n - 1 # i - 1
      BY <1>1, <1>2, <2>3
    <3>2. h[n] = g[n] /\ h[n - 1] = g[n - 1] /\ q[n] = r[n]
      BY <1>8, <2>1, <2>3, <3>1
    <3> QED
      BY <1>4, <3>1, <3>2
  <2> QED
    BY <2>2, <2>3
<1>13. h[i - 1] = Reading(raw)[i - 1] + e
  BY <1>2
<1>14. h[L] = Value(b) + Value(s)
  <2>1. L # i - 1 /\ L \in 0..L
    BY <1>1, <1>2
  <2> QED
    BY <1>4, <2>1
<1> HIDE DEF h
<1>15. \A j \in 1..i - 1 : q[j] = raw[j] /\ raw[j] \in 0..18
  <2> TAKE j \in 1..i - 1
  <2>1. j \in 1..i /\ j \in 1..L /\ j # i
    BY <1>1, <1>2
  <2> QED
    BY <1>4, <1>8, <2>1
<1>16. CarriedWith(b, s, q, k + 1, e, raw, h)
  BY <1>2, <1>4, <1>11, <1>12, <1>13, <1>14, <1>15 DEF CarriedWith
<1>17. ASSUME NEW j \in i..L PROVE q[j] \in Digits
  <2>1. CASE j = i
    BY <1>7, <1>8, <2>1
  <2>2. CASE j # i
    <3>1. j \in i + 1..L /\ j \in 1..L
      BY <1>1, <1>2, <2>2
    <3>2. r[j] \in Digits
      BY <1>2, <3>1 DEF CarriedAt
    <3> QED
      BY <1>8, <2>2, <3>1, <3>2
  <2> QED
    BY <2>1, <2>2
<1>18. k + 1 \in 0..L
  BY <1>1
<1>19. CarriedAt(b, s, q, k + 1, e)
  BY <1>2, <1>7, <1>8, <1>16, <1>17, <1>18 DEF CarriedAt
<1>20. Len(r) - k = i
  BY <1>1 DEF i
<1> QED
  BY <1>19, <1>20 DEF q, d, e, v

LEMMA CarryEnds ==
    ASSUME NEW b, NEW s, Pair(b, s), NEW r, NEW c, CarriedAt(b, s, r, Len(b), c)
    PROVE  IsSumOf(b, s, IF c = 1 THEN <<c>> \o r ELSE r)
<1> DEFINE L == Len(b)
<1>1. L \in Nat /\ r \in Seq(Nat) /\ Len(r) = L /\ c \in {0, 1}
  BY DigitsOf DEF Pair, CarriedAt
<1>2. L - L = 0 /\ L - L + 1 = 1
  BY <1>1
<1>3. PICK raw, g : CarriedWith(b, s, r, L, c, raw, g)
  BY DEF CarriedAt
<1>4. /\ raw \in Seq(Nat) /\ Len(raw) = L
      /\ \A n \in 0..L : g[n] \in Nat
      /\ \A n \in 1..L : g[n] = 10 * g[n - 1] + r[n]
      /\ g[0] = Reading(raw)[0] + c
      /\ g[L] = Value(b) + Value(s)
  BY <1>2, <1>3 DEF CarriedWith
<1>5. g[0] = c
  <2>1. Reading(raw)[0] = 0
    BY <1>1, <1>4, ReadingDef
  <2> QED
    BY <1>1, <1>4, <2>1
<1>6. \A j \in 1..L : r[j] \in Digits
  BY <1>2 DEF CarriedAt
<1>7. r \in Seq(Digits)
  BY <1>1, <1>6
<1>8. CASE c = 0
  <2>1. RunsAlong(g, r)
    BY <1>1, <1>4 DEF RunsAlong
  <2>2. Value(r) = Value(b) + Value(s)
    BY <1>1, <1>4, <1>5, <1>8, <2>1, RunsAgree
  <2>3. ~(Len(r) > L)
    BY <1>1
  <2> QED
    BY <1>7, <1>8, <2>2, <2>3 DEF IsSumOf
<1>9. CASE c = 1
  <2> DEFINE q == <<c>> \o r
             h == [n \in 0..L + 1 |-> IF n = 0 THEN 0 ELSE g[n - 1]]
  <2>1. c \in Digits /\ c \in Nat
    BY <1>9 DEF Digits
  <2>2. /\ q \in Seq(Digits) /\ Len(q) = L + 1 /\ q[1] = c
        /\ \A j \in 2..L + 1 : q[j] = r[j - 1]
    BY <1>1, <1>7, <2>1, PrependOf
  <2>3. q \in Seq(Nat)
    BY <2>2, DigitsOf
  <2> HIDE DEF q
  <2>4. \A n \in 0..L + 1 : h[n] \in Nat
    BY <1>1, <1>4
  <2>5. ASSUME NEW n \in 1..L + 1 PROVE h[n] = 10 * h[n - 1] + q[n]
    <3>1. CASE n = 1
      <4>1. h[n] = g[0] /\ h[n - 1] = 0
        BY <1>1, <3>1
      <4> QED
        BY <1>5, <1>9, <2>2, <3>1, <4>1
    <3>2. CASE n # 1
      <4>1. n \in 2..L + 1 /\ n - 1 \in 1..L /\ n - 1 \in 0..L + 1 /\ n - 1 # 0 /\ n # 0
        BY <1>1, <3>2
      <4>2. h[n] = g[n - 1] /\ h[n - 1] = g[(n - 1) - 1] /\ q[n] = r[n - 1]
        BY <2>2, <4>1
      <4> QED
        BY <1>4, <4>1, <4>2
    <3> QED
      BY <3>1, <3>2
  <2>6. h[0] = 0 /\ h[L + 1] = Value(b) + Value(s)
    BY <1>1, <1>4
  <2> HIDE DEF h
  <2>7. RunsAlong(h, q)
    BY <2>2, <2>4, <2>5 DEF RunsAlong
  <2>8. Value(q) = Value(b) + Value(s)
    BY <2>2, <2>3, <2>6, <2>7, RunsAgree
  <2> QED
    BY <1>9, <2>2, <2>8 DEF IsSumOf, q
<1> QED
  BY <1>1, <1>8, <1>9

-----------------------------------------------------------------------------
(* operator+ itself.                                                         *)

BigTypes ==
    /\ addends \in Numerals \X Numerals
    /\ sumPc \in {"construct", "threw", "add", "carry", "done"}
    /\ sumPc \in {"construct", "add"} => carry = 0
    /\ sumPc = "construct" => ret = <<>> /\ column = 0

LoopInv ==
    /\ sumPc \in {"add", "carry", "done"} => addends[1] \in Seq(Digits) /\ addends[2] \in Seq(Digits)
    /\ sumPc = "add" => AddedAt(Bigger, Smaller, ret, column)
    /\ sumPc = "carry" => CarriedAt(Bigger, Smaller, ret, column, carry)
    /\ sumPc = "done" => IsSumOf(Bigger, Smaller, ret)

BigInv == BigTypes /\ LoopInv

LEMMA LongerFirst ==
    ASSUME addends[1] \in Seq(Digits), addends[2] \in Seq(Digits)
    PROVE  /\ Pair(Bigger, Smaller)
           /\ Value(Bigger) + Value(Smaller) = Value(addends[1]) + Value(addends[2])
<1>1. Len(addends[1]) \in Nat /\ Len(addends[2]) \in Nat
  BY DigitsOf
<1>2. Pair(Bigger, Smaller)
  BY <1>1 DEF Pair, Bigger, Smaller
<1>3. Value(addends[1]) \in Nat /\ Value(addends[2]) \in Nat
  <2>1. addends[1] \in Seq(Nat) /\ addends[2] \in Seq(Nat)
    BY DigitsOf
  <2> QED
    BY <1>1, <2>1, ReadingType DEF Value
<1>4. CASE Len(addends[2]) >= Len(addends[1])
  <2>1. Bigger = addends[2] /\ Smaller = addends[1]
    BY <1>1, <1>4 DEF Bigger, Smaller
  <2> QED
    BY <1>2, <1>3, <2>1
<1>5. CASE ~(Len(addends[2]) >= Len(addends[1]))
  <2>1. Bigger = addends[1] /\ Smaller = addends[2]
    BY <1>1, <1>5 DEF Bigger, Smaller
  <2> QED
    BY <1>2, <1>3, <2>1
<1> QED
  BY <1>4, <1>5

(* A text of digits only is a number. *)
LEMMA OnlyDigits ==
    ASSUME NEW numeral \in Numerals, Range(numeral) \subseteq 0..9
    PROVE  numeral \in Seq(Digits)
<1>1. numeral \in Seq(0..10)
  BY NumeralsAssumption
<1>2. Len(numeral) \in Nat /\ DOMAIN numeral = 1..Len(numeral)
  BY <1>1
<1>3. \A n \in 1..Len(numeral) : numeral[n] \in Digits
  BY <1>2 DEF Range, Digits
<1> QED
  BY <1>1, <1>2, <1>3

LEMMA BigInvInit == BigInit => BigInv
  BY DEF BigInit, BigInv, BigTypes, LoopInv

LEMMA BigInvNext == BigInv /\ [BigNext]_bigVars => BigInv'
<1> SUFFICES ASSUME BigInv, [BigNext]_bigVars PROVE BigInv'
  OBVIOUS
<1>1. addends \in Numerals \X Numerals /\ addends[1] \in Numerals /\ addends[2] \in Numerals
  BY DEF BigInv, BigTypes
<1>2. CASE Construct
  <2>1. addends' = addends /\ ret' = ret /\ column' = column /\ carry' = carry /\ sumPc = "construct"
    BY <1>2 DEF Construct
  <2>2. ret = <<>> /\ column = 0 /\ carry = 0
    BY <2>1 DEF BigInv, BigTypes
  <2>3. CASE \A n \in 1..2 : Range(addends[n]) \subseteq 0..9
    <3>1. sumPc' = "add"
      BY <1>2, <2>3 DEF Construct
    <3>2. addends[1] \in Seq(Digits) /\ addends[2] \in Seq(Digits)
      <4>1. 1 \in 1..2 /\ 2 \in 1..2
        OBVIOUS
      <4> QED
        BY <1>1, <2>3, <4>1, OnlyDigits
    <3>3. Len(Bigger) \in Nat
      BY <3>2, LongerFirst, DigitsOf DEF Pair
    <3>4. <<>> \in Seq(Nat) /\ Len(<<>>) = 0
      OBVIOUS
    <3>5. \A b, s : Len(b) \in Nat => AddedAt(b, s, <<>>, 0)
      BY <3>4 DEF AddedAt
    <3>6. AddedAt(Bigger', Smaller', ret', column')
      BY <2>1, <2>2, <3>3, <3>5 DEF Bigger, Smaller
    <3>7. BigTypes'
      BY <1>1, <2>1, <2>2, <3>1 DEF BigTypes
    <3> QED
      BY <2>1, <3>1, <3>2, <3>6, <3>7 DEF BigInv, LoopInv
  <2>4. CASE ~(\A n \in 1..2 : Range(addends[n]) \subseteq 0..9)
    <3>1. sumPc' = "threw"
      BY <1>2, <2>4 DEF Construct
    <3> QED
      BY <1>1, <2>1, <2>2, <3>1 DEF BigInv, BigTypes, LoopInv
  <2> QED
    BY <2>3, <2>4
<1>3. SUFFICES ASSUME ~Construct PROVE BigInv'
  BY <1>2
<1>4. CASE UNCHANGED bigVars
  BY <1>4 DEF bigVars, BigInv, BigTypes, LoopInv, Bigger, Smaller
<1>5. SUFFICES ASSUME AddColumn \/ AllAdded \/ CarryColumn \/ SumDone PROVE BigInv'
  BY <1>3, <1>4 DEF BigNext
<1>6. addends' = addends /\ sumPc \in {"add", "carry"}
  BY <1>5 DEF AddColumn, AllAdded, CarryColumn, SumDone
<1>7. addends[1] \in Seq(Digits) /\ addends[2] \in Seq(Digits)
  BY <1>6 DEF BigInv, LoopInv
<1>8. Pair(Bigger, Smaller) /\ Len(Bigger) \in Nat /\ Bigger' = Bigger /\ Smaller' = Smaller
  BY <1>6, <1>7, LongerFirst, DigitsOf DEF Pair, Bigger, Smaller
<1>9. CASE AddColumn
  <2>1. /\ sumPc = "add" /\ sumPc' = "add" /\ column < Len(Bigger) /\ carry' = carry
        /\ ret' = <<FromEnd(Bigger, column) + FromEnd(Smaller, column)>> \o ret
        /\ column' = column + 1
    BY <1>9 DEF AddColumn
  <2>2. AddedAt(Bigger, Smaller, ret, column)
    BY <2>1 DEF BigInv, LoopInv
  <2>3. AddedAt(Bigger, Smaller, ret', column')
    BY <1>8, <2>1, <2>2, AddsColumn
  <2>4. carry' = 0
    BY <2>1 DEF BigInv, BigTypes
  <2> QED
    BY <1>1, <1>6, <1>7, <1>8, <2>1, <2>3, <2>4 DEF BigInv, BigTypes, LoopInv
<1>10. CASE AllAdded
  <2>1. /\ sumPc = "add" /\ sumPc' = "carry" /\ column = Len(Bigger)
        /\ column' = 0 /\ ret' = ret /\ carry' = carry
    BY <1>10 DEF AllAdded
  <2>2. AddedAt(Bigger, Smaller, ret, Len(Bigger)) /\ carry = 0
    BY <2>1 DEF BigInv, BigTypes, LoopInv
  <2>3. CarriedAt(Bigger, Smaller, ret', column', carry')
    BY <1>8, <2>1, <2>2, CarryStarts
  <2> QED
    BY <1>1, <1>6, <1>7, <1>8, <2>1, <2>3 DEF BigInv, BigTypes, LoopInv
<1>11. CASE CarryColumn
  <2> DEFINE v == FromEnd(ret, column) + carry
  <2>1. /\ sumPc = "carry" /\ sumPc' = "carry" /\ column < Len(ret) /\ column' = column + 1
        /\ ret' = [ret EXCEPT ![Len(ret) - column] = v - 10 * CarryOf(v)]
        /\ carry' = CarryOf(v)
    BY <1>11 DEF CarryColumn
  <2>2. CarriedAt(Bigger, Smaller, ret, column, carry)
    BY <2>1 DEF BigInv, LoopInv
  <2>3. column < Len(Bigger)
    BY <2>1, <2>2 DEF CarriedAt
  <2>4. CarriedAt(Bigger, Smaller, ret', column', carry')
    BY <1>8, <2>1, <2>2, <2>3, CarriesColumn
  <2> QED
    BY <1>1, <1>6, <1>7, <1>8, <2>1, <2>4 DEF BigInv, BigTypes, LoopInv
<1>12. CASE SumDone
  <2>1. /\ sumPc = "carry" /\ sumPc' = "done" /\ column = Len(ret)
        /\ ret' = IF carry = 1 THEN <<carry>> \o ret ELSE ret
    BY <1>12 DEF SumDone
  <2>2. CarriedAt(Bigger, Smaller, ret, column, carry)
    BY <2>1 DEF BigInv, LoopInv
  <2>3. column = Len(Bigger)
    BY <2>1, <2>2 DEF CarriedAt
  <2>4. IsSumOf(Bigger, Smaller, ret')
    BY <1>8, <2>1, <2>2, <2>3, CarryEnds
  <2> QED
    BY <1>1, <1>6, <1>7, <1>8, <2>1, <2>4 DEF BigInv, BigTypes, LoopInv
<1> QED
  BY <1>5, <1>9, <1>10, <1>11, <1>12

(* SumOfAddends for numbers of any length: the two loops of operator+ leave    *)
(* the digits of the sum, and one more place exactly when a carry is left.     *)
THEOREM SumIsRight == BigSpec => []SumOfAddends
<1>1. BigInv => SumOfAddends
  <2> SUFFICES ASSUME BigInv, sumPc = "done"
               PROVE  /\ Value(ret) = Value(addends[1]) + Value(addends[2])
                      /\ Range(ret) \subseteq 0..9
                      /\ Len(ret) > Len(Bigger) => Head(ret) # 0
    BY DEF SumOfAddends
  <2>1. IsSumOf(Bigger, Smaller, ret)
    BY DEF BigInv, LoopInv
  <2>2. Value(ret) = Value(addends[1]) + Value(addends[2])
    BY <2>1, LongerFirst DEF BigInv, LoopInv, IsSumOf
  <2>3. ret \in Seq(Digits) /\ Len(ret) \in Nat /\ Head(ret) = ret[1]
    BY <2>1 DEF IsSumOf
  <2>4. Range(ret) \subseteq 0..9
    BY <2>3 DEF Range, Digits
  <2>5. Len(ret) > Len(Bigger) => Head(ret) # 0
    BY <2>1, <2>3 DEF IsSumOf
  <2> QED
    BY <2>2, <2>4, <2>5
<1> QED
  BY <1>1, BigInvInit, BigInvNext, PTL DEF BigSpec

-----------------------------------------------------------------------------
(* UuidText.                                                                 *)

(* The places of the hyphens, and the characters. *)
HyphenPlaces == {9, 14, 19, 24}
Chars == Digit \cup {Hyphen, Other}

(* A text with hyphens in the four places and digits everywhere else. *)
Regular(t) ==
    /\ t \in Seq(Chars) /\ Len(t) = 36
    /\ \A i \in 1 .. 36 : IF i \in HyphenPlaces THEN t[i] = Hyphen ELSE t[i] \in Digit

(* Where byte c stands in such a text, and what it is. *)
First(c) ==
    IF c <= 4 THEN 2 * c - 1 ELSE IF c <= 6 THEN 2 * c ELSE IF c <= 8 THEN 2 * c + 1
    ELSE IF c <= 10 THEN 2 * c + 2 ELSE 2 * c + 3

ByteAt(t, c) == 16 * t[First(c)] + t[First(c) + 1]

(* Where the scan is when it has read c bytes. *)
Reached(c, i) == i = First(c + 1) - 1 \/ (c \in {4, 6, 8, 10} /\ i = First(c + 1) - 2)

Octets == 0 .. 255
EightBytes == {b \in Seq(Octets) : Len(b) = 8}

ScanInv ==
    /\ count \in 0 .. 16 /\ Reached(count, it)
    /\ count <= 8 => \A j \in 1 .. count : arr[1][8 - count + j] = ByteAt(str, j)
    /\ count >= 8 => /\ \A j \in 1 .. 8 : arr[1][j] = ByteAt(str, j)
                     /\ \A j \in 1 .. count - 8 : arr[2][16 - count + j] = ByteAt(str, 8 + j)
    /\ uuidPc # "overrun"

UuidInv ==
    /\ str \in Seq(Chars) /\ it \in Nat /\ count \in Nat
    /\ arr \in [1 .. 2 -> EightBytes]
    /\ uuidPc \in {"check", "threw"} => it = 0 /\ count = 0
    /\ uuidPc \in {"scan", "made", "overrun"} => WellFormed
    /\ uuidPc = "made" => it = Len(str)
    /\ Regular(str) => ScanInv

LEMMA UuidInvInit == UuidInit => UuidInv
<1> SUFFICES ASSUME UuidInit PROVE UuidInv
  OBVIOUS
<1>1. str \in Seq(Chars) /\ it = 0 /\ count = 0 /\ uuidPc = "check"
  BY UuidTextsAssumption DEF UuidInit, Chars
<1>2. arr \in [1 .. 2 -> EightBytes]
  <2>1. Zero \in EightBytes
    <3>1. 0 \in Octets
      BY DEF Octets
    <3> QED
      BY <3>1 DEF Zero, EightBytes
  <2> QED
    BY <2>1 DEF UuidInit
<1>3. ScanInv
  BY <1>1 DEF ScanInv, Reached, First
<1> QED
  BY <1>1, <1>2, <1>3 DEF UuidInv

LEMMA TailOf ==
    ASSUME NEW S, NEW s \in Seq(S), s # <<>>
    PROVE  /\ Tail(s) \in Seq(S) /\ Len(Tail(s)) = Len(s) - 1
           /\ \A k \in 1 .. Len(s) - 1 : Tail(s)[k] = s[k + 1]
  OBVIOUS

LEMMA ShiftedOf ==
    ASSUME NEW S, NEW b \in Seq(S), b # <<>>, NEW v \in S
    PROVE  /\ Shifted(b, v) \in Seq(S) /\ Len(Shifted(b, v)) = Len(b)
           /\ \A k \in 1 .. Len(b) - 1 : Shifted(b, v)[k] = b[k + 1]
           /\ Shifted(b, v)[Len(b)] = v
<1> DEFINE t == Tail(b)
           r == Append(t, v)
<1>1. t \in Seq(S) /\ Len(t) = Len(b) - 1 /\ \A k \in 1 .. Len(b) - 1 : t[k] = b[k + 1]
  BY TailOf
<1>2. Len(b) \in Nat /\ (Len(b) - 1) + 1 = Len(b)
  OBVIOUS
<1> HIDE DEF t
<1>3. r \in Seq(S) /\ Len(r) = Len(t) + 1 /\ (\A k \in 1 .. Len(t) : r[k] = t[k]) /\ r[Len(t) + 1] = v
  <2>1. t \in Seq(S)
    BY <1>1
  <2> QED
    BY <2>1, AppendOf
<1> HIDE DEF r
<1>4. r \in Seq(S) /\ Len(r) = Len(b) /\ (\A k \in 1 .. Len(b) - 1 : r[k] = b[k + 1]) /\ r[Len(b)] = v
  BY <1>1, <1>2, <1>3, Zenon
<1> QED
  BY <1>4, Zenon DEF Shifted, t, r

LEMMA UuidRead ==
    ASSUME UuidInv, ReadByte
    PROVE  UuidInv'
<1> DEFINE v == ByteOf(str[it + 1], str[it + 2])
           w == WordOf(count)
<1>1. /\ uuidPc = "scan" /\ it < Len(str) /\ str[it + 1] # Hyphen /\ it + 2 <= Len(str)
      /\ it' = it + 2 /\ count' = count + 1 /\ UNCHANGED <<str, uuidPc>>
      /\ arr' = [arr EXCEPT ![w] = Shifted(arr[w], v)]
  BY DEF ReadByte, Scanning
<1>2. WellFormed /\ str \in Seq(Chars) /\ it \in Nat /\ count \in Nat
      /\ arr \in [1 .. 2 -> EightBytes]
  BY <1>1 DEF UuidInv
<1>3. Len(str) = 36 /\ \A i \in 1 .. 36 : str[i] \in Digit \cup {Hyphen}
  <2>1. Len(str) = 36 /\ DOMAIN str = 1 .. 36 /\ \A i \in 1 .. 36 : str[i] \in Chars
    BY <1>2, ElementsOf, ZenonT(40) DEF WellFormed
  <2>2. \A i \in 1 .. 36 : str[i] # Other
    BY <1>2, <2>1 DEF WellFormed
  <2> QED
    BY <2>1, <2>2 DEF Chars
<1>a. it + 1 \in 1 .. 36 /\ it + 2 \in 1 .. 36
  <2>1. it \in Nat /\ it < 36 /\ it + 2 <= 36
    BY <1>1, <1>2, <1>3, Zenon
  <2> QED
    BY <2>1
<1>4. str[it + 1] \in Digit /\ str[it + 2] \in Digit \cup {Hyphen}
  BY <1>1, <1>3, <1>a
<1>5. v \in Octets
  BY <1>4 DEF Octets, ByteOf, Digit, Hyphen
<1>6. w \in 1 .. 2 /\ (count < 8 => w = 1) /\ (count >= 8 => w = 2)
  BY <1>2 DEF WordOf
<1> HIDE DEF v, w
<1> DEFINE b == arr[w]
           s == Shifted(b, v)
<1>7. b \in EightBytes
  BY <1>2, <1>6
<1>8. s \in EightBytes /\ (\A k \in 1 .. 7 : s[k] = b[k + 1]) /\ s[8] = v
  <2>1. b \in Seq(Octets) /\ Len(b) = 8
    BY <1>7, Zenon DEF EightBytes
  <2> HIDE DEF b
  <2>2. b # <<>>
    <3>1. 8 # 0
      OBVIOUS
    <3> QED
      BY <2>1, <3>1, ElementsOf, Zenon
  <2>3. /\ Shifted(b, v) \in Seq(Octets) /\ Len(Shifted(b, v)) = Len(b)
        /\ \A k \in 1 .. Len(b) - 1 : Shifted(b, v)[k] = b[k + 1]
        /\ Shifted(b, v)[Len(b)] = v
    <3>1. b \in Seq(Octets)
      BY <2>1
    <3> QED
      BY <1>5, <2>2, <3>1, ShiftedOf
  <2>4. 8 - 1 = 7
    OBVIOUS
  <2> QED
    BY <2>1, <2>3, <2>4, Zenon DEF EightBytes
<1> HIDE DEF s
<1>9. arr' \in [1 .. 2 -> EightBytes] /\ arr'[w] = s /\ \A x \in 1 .. 2 : x # w => arr'[x] = arr[x]
  <2>1. arr' = [arr EXCEPT ![w] = s]
    BY <1>1 DEF s
  <2> QED
    BY <1>2, <1>6, <1>8, <2>1
<1>10. ASSUME Regular(str) PROVE ScanInv'
  <2>1. ScanInv
    BY <1>10 DEF UuidInv
  <2>2. count \in 0 .. 16 /\ Reached(count, it)
    BY <2>1 DEF ScanInv
  <2>3. \A i \in 1 .. 36 : IF i \in HyphenPlaces THEN str[i] = Hyphen ELSE str[i] \in Digit
    BY <1>10 DEF Regular
  <2>4. it + 1 \in 1 .. 36 /\ it + 2 \in 1 .. 36
    BY <1>a
  <2>5. it + 1 \notin HyphenPlaces
    BY <1>1, <2>3, <2>4
  <2>6. it = First(count + 1) - 1
    BY <2>2, <2>5 DEF Reached, First, HyphenPlaces
  <2>7. count <= 15
    BY <1>1, <1>3, <2>2, <2>6 DEF First
  <2>8. it + 1 = First(count + 1) /\ it + 2 = First(count + 1) + 1
    BY <2>2, <2>6 DEF First
  <2>9. it + 2 \notin HyphenPlaces
    BY <2>2, <2>7, <2>8 DEF First, HyphenPlaces
  <2>10. v = ByteAt(str, count + 1)
    <3>1. str[it + 2] \in Digit
      BY <2>3, <2>4, <2>9
    <3>2. v = 16 * str[it + 1] + str[it + 2]
      BY <3>1 DEF v, ByteOf, Digit, Hyphen
    <3> QED
      BY <2>8, <3>2 DEF ByteAt
  <2>11. Reached(count + 1, it + 2)
    BY <2>2, <2>7, <2>8 DEF Reached, First
  <2>12. CASE count < 8
    <3>1. b = arr[1] /\ arr'[1] = s
      BY <1>6, <1>9, <2>12
    <3>2. \A j \in 1 .. count : arr[1][8 - count + j] = ByteAt(str, j)
      BY <2>1, <2>12 DEF ScanInv
    <3>3. ASSUME NEW j \in 1 .. count + 1 PROVE arr'[1][8 - (count + 1) + j] = ByteAt(str, j)
      <4>1. CASE j = count + 1
        BY <1>8, <2>2, <2>10, <3>1, <4>1
      <4>2. CASE j \in 1 .. count
        <5>1. 8 - (count + 1) + j \in 1 .. 7 /\ (8 - (count + 1) + j) + 1 = 8 - count + j
          BY <2>2, <2>12, <4>2
        <5>2. s[8 - (count + 1) + j] = b[(8 - (count + 1) + j) + 1]
          BY <1>8, <5>1
        <5> QED
          BY <3>1, <3>2, <4>2, <5>1, <5>2
      <4> QED
        BY <2>2, <4>1, <4>2
    <3>4. count + 1 = 8 => \A j \in 1 .. 8 : arr'[1][j] = ByteAt(str, j)
      <4> SUFFICES ASSUME count + 1 = 8, NEW j \in 1 .. 8 PROVE arr'[1][j] = ByteAt(str, j)
        OBVIOUS
      <4>1. j \in 1 .. count + 1 /\ 8 - (count + 1) + j = j
        OBVIOUS
      <4> QED
        BY <3>3, <4>1
    <3>5. count + 1 \in 0 .. 16 /\ count + 1 <= 8 /\ (count + 1 >= 8 => count + 1 = 8)
          /\ (count + 1 = 8 => 1 .. (count + 1) - 8 = {})
      BY <2>2, <2>12
    <3> QED
      BY <1>1, <2>11, <3>3, <3>4, <3>5 DEF ScanInv
  <2>13. CASE count >= 8
    <3>1. b = arr[2] /\ arr'[2] = s /\ arr'[1] = arr[1]
      BY <1>6, <1>9, <2>13
    <3>2. /\ \A j \in 1 .. 8 : arr[1][j] = ByteAt(str, j)
          /\ \A j \in 1 .. count - 8 : arr[2][16 - count + j] = ByteAt(str, 8 + j)
      BY <2>1, <2>13 DEF ScanInv
    <3>3. ASSUME NEW j \in 1 .. (count + 1) - 8 PROVE arr'[2][16 - (count + 1) + j] = ByteAt(str, 8 + j)
      <4>1. CASE j = count - 7
        <5>1. 16 - (count + 1) + j = 8 /\ 8 + j = count + 1
          BY <2>2, <4>1
        <5> QED
          BY <1>8, <2>10, <3>1, <5>1
      <4>2. CASE j \in 1 .. count - 8
        <5>1. 16 - (count + 1) + j \in 1 .. 7 /\ (16 - (count + 1) + j) + 1 = 16 - count + j
          BY <2>2, <2>7, <2>13, <4>2
        <5>2. s[16 - (count + 1) + j] = b[(16 - (count + 1) + j) + 1]
          BY <1>8, <5>1
        <5> QED
          BY <3>1, <3>2, <4>2, <5>1, <5>2
      <4> QED
        BY <2>2, <4>1, <4>2
    <3>4. count + 1 \in 0 .. 16 /\ ~(count + 1 <= 8) /\ count + 1 >= 8
      BY <2>2, <2>7, <2>13
    <3> QED
      BY <1>1, <2>11, <3>1, <3>2, <3>3, <3>4 DEF ScanInv
  <2> QED
    BY <2>2, <2>12, <2>13
<1>11. WellFormed'
  BY <1>1, <1>2 DEF WellFormed
<1> QED
  BY <1>1, <1>2, <1>9, <1>10, <1>11 DEF UuidInv

LEMMA UuidStep == UuidInv /\ [UuidNext]_uuidVars => UuidInv'
<1> SUFFICES ASSUME UuidInv, [UuidNext]_uuidVars PROVE UuidInv'
  OBVIOUS
<1>0. str \in Seq(Chars) /\ it \in Nat /\ count \in Nat
  BY DEF UuidInv
<1>1. ASSUME CheckText PROVE UuidInv'
  <2>1. uuidPc = "check" /\ uuidPc' = (IF WellFormed THEN "scan" ELSE "threw") /\ UNCHANGED <<str, it, arr, count>>
    BY <1>1 DEF CheckText
  <2>2. WellFormed' <=> WellFormed
    BY <2>1 DEF WellFormed
  <2>3. Regular(str) => ScanInv'
    BY <2>1 DEF UuidInv, ScanInv
  <2> QED
    BY <2>1, <2>2, <2>3 DEF UuidInv
<1>2. ASSUME SkipHyphen PROVE UuidInv'
  <2>1. uuidPc = "scan" /\ it < Len(str) /\ str[it + 1] = Hyphen /\ it' = it + 1
        /\ UNCHANGED <<str, arr, count, uuidPc>>
    BY <1>2 DEF SkipHyphen, Scanning
  <2>2. WellFormed /\ WellFormed'
    BY <2>1 DEF UuidInv, WellFormed
  <2>3. ASSUME Regular(str) PROVE ScanInv'
    <3>1. ScanInv /\ count \in 0 .. 16 /\ Reached(count, it)
      BY <2>3 DEF UuidInv, ScanInv
    <3>2. it + 1 \in 1 .. 36
      <4>1. it \in Nat /\ it < 36
        BY <1>0, <2>1, <2>3, Zenon DEF Regular
      <4> QED
        BY <4>1
    <3>3. it + 1 \in HyphenPlaces
      <4>1. \A i \in 1 .. 36 : i \notin HyphenPlaces => str[i] \in Digit
        BY <2>3, Zenon DEF Regular
      <4>2. Hyphen \notin Digit
        BY DEF Hyphen, Digit
      <4> QED
        BY <2>1, <3>2, <4>1, <4>2, Zenon
    <3>4. Reached(count, it + 1)
      BY <3>1, <3>3 DEF Reached, First, HyphenPlaces
    <3> QED
      BY <2>1, <3>1, <3>4 DEF ScanInv
  <2> QED
    BY <1>0, <2>1, <2>2, <2>3 DEF UuidInv
<1>3. ASSUME ReadByte PROVE UuidInv'
  BY <1>3, UuidRead
<1>4. ASSUME ReadPastEnd PROVE UuidInv'
  <2>1. uuidPc = "scan" /\ it < Len(str) /\ it + 2 > Len(str) /\ str[it + 1] # Hyphen
        /\ uuidPc' = "overrun" /\ UNCHANGED <<str, it, arr, count>>
    BY <1>4 DEF ReadPastEnd, Scanning
  <2>2. WellFormed /\ WellFormed'
    BY <2>1 DEF UuidInv, WellFormed
  <2>3. ~Regular(str)
    <3> SUFFICES ASSUME Regular(str) PROVE FALSE
      OBVIOUS
    <3>1. count \in 0 .. 16 /\ Reached(count, it)
      BY DEF UuidInv, ScanInv
    <3>2. it = 35
      BY <1>0, <2>1 DEF Regular
    <3> QED
      BY <3>1, <3>2 DEF Reached, First
  <2> QED
    BY <2>1, <2>2, <2>3 DEF UuidInv
<1>5. ASSUME MakeUuid PROVE UuidInv'
  <2>1. uuidPc = "scan" /\ it = Len(str) /\ uuidPc' = "made" /\ UNCHANGED <<str, it, arr, count>>
    BY <1>5 DEF MakeUuid
  <2>2. WellFormed /\ WellFormed'
    BY <2>1 DEF UuidInv, WellFormed
  <2>3. Regular(str) => ScanInv'
    BY <2>1 DEF UuidInv, ScanInv
  <2> QED
    BY <2>1, <2>2, <2>3 DEF UuidInv
<1>6. ASSUME UNCHANGED uuidVars PROVE UuidInv'
  BY <1>6 DEF uuidVars, UuidInv, ScanInv, WellFormed
<1> QED
  BY <1>1, <1>2, <1>3, <1>4, <1>5, <1>6 DEF UuidNext

-----------------------------------------------------------------------------
InsertedBehind(u, s, p, x, S) ==
    /\ u \in Seq(S) /\ Len(u) = Len(s) + 1
    /\ \A k \in 1 .. p : u[k] = s[k]
    /\ u[p + 1] = x
    /\ \A k \in 1 .. Len(s) - p : u[(p + 1) + k] = s[p + k]

LEMMA InsertOf ==
    ASSUME NEW S, NEW s \in Seq(S), NEW p \in Nat, p < Len(s), NEW x \in S
    PROVE  InsertedBehind(InsertAt(s, p + 1, x), s, p, x, S)
<1> DEFINE a == SubSeq(s, 1, (p + 1) - 1)
           c == SubSeq(s, p + 1, Len(s))
           d == Append(a, x)
           u == d \o c
<1>0. Len(s) \in Nat
  OBVIOUS
<1>1. a \in Seq(S) /\ Len(a) = p /\ \A k \in 1 .. p : a[k] = s[k]
  OBVIOUS
<1>2. c \in Seq(S) /\ Len(c) = Len(s) - p /\ \A k \in 1 .. Len(s) - p : c[k] = s[p + k]
  OBVIOUS
<1> HIDE DEF a, c
<1>3. d \in Seq(S) /\ Len(d) = p + 1 /\ (\A k \in 1 .. p : d[k] = a[k]) /\ d[p + 1] = x
  BY <1>1
<1>4. d = a \o <<x>>
  BY <1>1
<1> HIDE DEF d
<1>5. /\ u \in Seq(S) /\ Len(u) = Len(d) + Len(c)
      /\ \A k \in 1 .. Len(d) : u[k] = d[k]
      /\ \A k \in 1 .. Len(c) : u[Len(d) + k] = c[k]
  <2>1. d \in Seq(S) /\ c \in Seq(S)
    BY <1>2, <1>3
  <2> QED
    BY <2>1
<1>6. InsertAt(s, p + 1, x) = u
  BY <1>4 DEF InsertAt, a, c
<1> HIDE DEF u
<1>7. Len(u) = Len(s) + 1
  BY <1>0, <1>2, <1>3, <1>5
<1>8. \A k \in 1 .. p : u[k] = s[k]
  <2>1. \A k \in 1 .. p : k \in 1 .. Len(d)
    BY <1>3
  <2> QED
    BY <1>1, <1>3, <1>5, <2>1
<1>9. u[p + 1] = x
  <2>1. p + 1 \in 1 .. Len(d)
    BY <1>3
  <2> QED
    BY <1>3, <1>5, <2>1
<1>10. \A k \in 1 .. Len(s) - p : u[(p + 1) + k] = s[p + k]
  BY <1>2, <1>3, <1>5, Zenon
<1> QED
  BY <1>5, <1>6, <1>7, <1>8, <1>9, <1>10, Zenon DEF InsertedBehind

(* u is s with x put in place q. *)
Inserted(u, s, q, x, n, S) ==
    /\ u \in Seq(S) /\ Len(u) = n + 1
    /\ \A k \in 1 .. q - 1 : u[k] = s[k]
    /\ u[q] = x
    /\ \A k \in q + 1 .. n + 1 : u[k] = s[k - 1]

LEMMA InsertAfter ==
    ASSUME NEW S, NEW s \in Seq(S), NEW x \in S, NEW n, Len(s) = n, NEW q \in 1 .. n
    PROVE  Inserted(InsertAt(s, q, x), s, q, x, n, S)
<1> DEFINE u == InsertAt(s, q, x)
           p == q - 1
<1>0. p \in Nat /\ n \in Nat /\ p < n /\ p + 1 = q
  OBVIOUS
<1>1. /\ u \in Seq(S) /\ Len(u) = Len(s) + 1
      /\ \A k \in 1 .. p : u[k] = s[k]
      /\ u[q] = x
      /\ \A k \in 1 .. Len(s) - p : u[q + k] = s[p + k]
  <2> HIDE DEF p
  <2>1. p \in Nat /\ p < Len(s) /\ u = InsertAt(s, p + 1, x) /\ p + 1 = q
    BY <1>0
  <2> HIDE DEF u
  <2>2. InsertedBehind(u, s, p, x, S)
    BY <2>1, InsertOf, Zenon
  <2> QED
    BY <2>1, <2>2, Zenon DEF InsertedBehind
<1> HIDE DEF u
<1>2. ASSUME NEW k \in q + 1 .. n + 1 PROVE u[k] = s[k - 1]
  <2>1. k - q \in 1 .. Len(s) - p /\ q + (k - q) = k /\ p + (k - q) = k - 1
    BY <1>0
  <2>2. u[q + (k - q)] = s[p + (k - q)]
    BY <1>1, <2>1
  <2> QED
    BY <2>1, <2>2
<1>3. Inserted(u, s, q, x, n, S)
  BY <1>1, <1>2 DEF Inserted
<1> QED
  BY <1>3 DEF u

(* The digits that byte c of the words prints as. *)
Printed(words, c) == words[IF c <= 8 THEN 1 ELSE 2][IF c <= 8 THEN c ELSE c - 8]

Symbols == 0 .. 16

LEMMA HexOf ==
    ASSUME NEW words \in [1 .. 2 -> EightBytes]
    PROVE  /\ Hex(words) \in Seq(Symbols) /\ Len(Hex(words)) = 32
           /\ \A d \in 1 .. 32 : Hex(words)[d] \in Digit
           /\ \A c \in 1 .. 16 : /\ Printed(words, c) \in Octets
                                 /\ Hex(words)[2 * c - 1] = Printed(words, c) \div 16
                                 /\ Hex(words)[2 * c] = Printed(words, c) % 16
<1> DEFINE ByteOfDigit(d) == words[IF d <= 16 THEN 1 ELSE 2][((d - 1) % 16) \div 2 + 1]
<1>1. \A w \in 1 .. 2 : \A k \in 1 .. 8 : words[w][k] \in Octets
  <2> SUFFICES ASSUME NEW w \in 1 .. 2, NEW k \in 1 .. 8 PROVE words[w][k] \in Octets
    OBVIOUS
  <2>1. words[w] \in Seq(Octets) /\ Len(words[w]) = 8
    BY Zenon DEF EightBytes
  <2> QED
    BY <2>1, ElementsOf, Zenon
<1>2. \A c \in 1 .. 16 : Printed(words, c) \in Octets
  <2> SUFFICES ASSUME NEW c \in 1 .. 16 PROVE Printed(words, c) \in Octets
    OBVIOUS
  <2>1. CASE c <= 8
    <3>1. 1 \in 1 .. 2 /\ c \in 1 .. 8
      BY <2>1
    <3> QED
      BY <1>1, <2>1, <3>1, Zenon DEF Printed
  <2>2. CASE ~(c <= 8)
    <3>1. 2 \in 1 .. 2 /\ c - 8 \in 1 .. 8
      BY <2>2
    <3> QED
      BY <1>1, <2>2, <3>1, Zenon DEF Printed
  <2> QED
    BY <2>1, <2>2
<1>3. \A c \in 1 .. 16 : ByteOfDigit(2 * c - 1) = Printed(words, c) /\ ByteOfDigit(2 * c) = Printed(words, c)
  <2> SUFFICES ASSUME NEW c \in 1 .. 16
               PROVE  ByteOfDigit(2 * c - 1) = Printed(words, c) /\ ByteOfDigit(2 * c) = Printed(words, c)
    OBVIOUS
  <2>1. CASE c <= 8
    <3>1. /\ 2 * c - 1 <= 16 /\ 2 * c <= 16
          /\ ((((2 * c - 1) - 1) % 16) \div 2) + 1 = c /\ ((((2 * c) - 1) % 16) \div 2) + 1 = c
      BY <2>1
    <3> QED
      BY <2>1, <3>1, Zenon DEF Printed
  <2>2. CASE ~(c <= 8)
    <3>1. /\ ~(2 * c - 1 <= 16) /\ ~(2 * c <= 16)
          /\ ((((2 * c - 1) - 1) % 16) \div 2) + 1 = c - 8 /\ ((((2 * c) - 1) % 16) \div 2) + 1 = c - 8
      BY <2>2
    <3> QED
      BY <2>2, <3>1, Zenon DEF Printed
  <2> QED
    BY <2>1, <2>2
<1>4. \A d \in 1 .. 32 : Hex(words)[d] = IF d % 2 = 1 THEN ByteOfDigit(d) \div 16 ELSE ByteOfDigit(d) % 16
  BY Zenon DEF Hex
<1>5. DOMAIN Hex(words) = 1 .. 32
  BY Zenon DEF Hex
<1> HIDE DEF ByteOfDigit
<1>6. \A c \in 1 .. 16 : /\ Hex(words)[2 * c - 1] = Printed(words, c) \div 16
                        /\ Hex(words)[2 * c] = Printed(words, c) % 16
  <2> SUFFICES ASSUME NEW c \in 1 .. 16
               PROVE  /\ Hex(words)[2 * c - 1] = Printed(words, c) \div 16
                      /\ Hex(words)[2 * c] = Printed(words, c) % 16
    OBVIOUS
  <2>1. 2 * c - 1 \in 1 .. 32 /\ 2 * c \in 1 .. 32 /\ (2 * c - 1) % 2 = 1 /\ ~((2 * c) % 2 = 1)
    OBVIOUS
  <2> QED
    BY <1>3, <1>4, <2>1, Zenon
<1>7. \A x \in Octets : x \div 16 \in Digit /\ x % 16 \in Digit
  BY DEF Octets, Digit
<1>8. \A d \in 1 .. 32 : Hex(words)[d] \in Digit
  <2> SUFFICES ASSUME NEW d \in 1 .. 32 PROVE Hex(words)[d] \in Digit
    OBVIOUS
  <2>1. \E c \in 1 .. 16 : d = 2 * c - 1 \/ d = 2 * c
    <3>1. (d + 1) \div 2 \in 1 .. 16 /\ (d = 2 * ((d + 1) \div 2) - 1 \/ d = 2 * ((d + 1) \div 2))
      OBVIOUS
    <3> QED
      BY <3>1
  <2>2. PICK c \in 1 .. 16 : d = 2 * c - 1 \/ d = 2 * c
    BY <2>1
  <2> QED
    BY <1>2, <1>6, <1>7, <2>2, Zenon
<1>9. Hex(words) \in Seq(Symbols) /\ Len(Hex(words)) = 32
  <2> DEFINE h == Hex(words)
  <2>1. Digit \subseteq Symbols
    BY DEF Digit, Symbols
  <2>2. h = [d \in 1 .. 32 |-> h[d]] /\ \A d \in 1 .. 32 : h[d] \in Symbols
    BY <1>5, <1>8, <2>1, Zenon DEF Hex
  <2> HIDE DEF h
  <2>3. h \in [1 .. 32 -> Symbols]
    BY <2>2
  <2>4. 32 \in Nat
    OBVIOUS
  <2>5. Maps(h, 32, Symbols)
    BY <2>3, Zenon DEF Maps
  <2>6. IsSeqOf(h, 32, Symbols)
    BY <2>4, <2>5, FunctionOf, Zenon
  <2> QED
    BY <2>6, Zenon DEF IsSeqOf, h
<1> QED
  BY <1>2, <1>6, <1>8, <1>9

(* The hyphens of HyphenPlaces before place i. *)
Before(i) == IF i < 9 THEN 0 ELSE IF i < 14 THEN 1 ELSE IF i < 19 THEN 2 ELSE IF i < 24 THEN 3 ELSE 4

(* u is the digits h with the hyphens between them. *)
Prints(u, h) ==
    /\ u \in Seq(Symbols) /\ Len(u) = 36
    /\ \A i \in HyphenPlaces : u[i] = Hyphen
    /\ \A i \in 1 .. 36 : i \notin HyphenPlaces => u[i] = h[i - Before(i)]

LEMMA StringOf ==
    ASSUME NEW h \in Seq(Symbols), Len(h) = 32
    PROVE  Prints(InsertAt(InsertAt(InsertAt(InsertAt(h, 9, Hyphen), 14, Hyphen), 19, Hyphen), 24, Hyphen), h)
<1> DEFINE r == InsertAt(h, 9, Hyphen)
           s == InsertAt(r, 14, Hyphen)
           t == InsertAt(s, 19, Hyphen)
           u == InsertAt(t, 24, Hyphen)
<1>0. Hyphen \in Symbols
  BY DEF Hyphen, Symbols
<1>a. /\ 9 \in 1 .. 32 /\ 14 \in 1 .. 33 /\ 19 \in 1 .. 34 /\ 24 \in 1 .. 35
      /\ 32 + 1 = 33 /\ 33 + 1 = 34 /\ 34 + 1 = 35 /\ 35 + 1 = 36
  OBVIOUS
<1>1. Inserted(r, h, 9, Hyphen, 32, Symbols)
  BY <1>0, <1>a, InsertAfter, Zenon
<1>2. r \in Seq(Symbols) /\ Len(r) = 33
  BY <1>1, <1>a, Zenon DEF Inserted
<1> HIDE DEF r
<1>3. Inserted(s, r, 14, Hyphen, 33, Symbols)
  BY <1>0, <1>a, <1>2, InsertAfter, Zenon
<1>4. s \in Seq(Symbols) /\ Len(s) = 34
  BY <1>3, <1>a, Zenon DEF Inserted
<1> HIDE DEF s
<1>5. Inserted(t, s, 19, Hyphen, 34, Symbols)
  BY <1>0, <1>a, <1>4, InsertAfter, Zenon
<1>6. t \in Seq(Symbols) /\ Len(t) = 35
  BY <1>5, <1>a, Zenon DEF Inserted
<1> HIDE DEF t
<1>7. Inserted(u, t, 24, Hyphen, 35, Symbols)
  BY <1>0, <1>a, <1>6, InsertAfter, Zenon
<1>8. u \in Seq(Symbols) /\ Len(u) = 36
  BY <1>7, <1>a, Zenon DEF Inserted
<1> HIDE DEF u
<1>9. /\ (\A k \in 1 .. 9 - 1 : r[k] = h[k]) /\ r[9] = Hyphen /\ (\A k \in 9 + 1 .. 33 : r[k] = h[k - 1])
      /\ (\A k \in 1 .. 14 - 1 : s[k] = r[k]) /\ s[14] = Hyphen /\ (\A k \in 14 + 1 .. 34 : s[k] = r[k - 1])
      /\ (\A k \in 1 .. 19 - 1 : t[k] = s[k]) /\ t[19] = Hyphen /\ (\A k \in 19 + 1 .. 35 : t[k] = s[k - 1])
      /\ (\A k \in 1 .. 24 - 1 : u[k] = t[k]) /\ u[24] = Hyphen /\ (\A k \in 24 + 1 .. 36 : u[k] = t[k - 1])
  BY <1>1, <1>3, <1>5, <1>7, <1>a, Zenon DEF Inserted
<1>10. \A i \in HyphenPlaces : u[i] = Hyphen
  <2>1. u[24] = Hyphen /\ u[19] = t[19] /\ u[14] = t[14] /\ t[14] = s[14] /\ u[9] = t[9] /\ t[9] = s[9] /\ s[9] = r[9]
    <3>1. 19 \in 1 .. 24 - 1 /\ 14 \in 1 .. 24 - 1 /\ 14 \in 1 .. 19 - 1 /\ 9 \in 1 .. 24 - 1 /\ 9 \in 1 .. 19 - 1 /\ 9 \in 1 .. 14 - 1
      OBVIOUS
    <3> QED
      BY <1>9, <3>1
  <2> QED
    BY <1>9, <2>1, Zenon DEF HyphenPlaces
<1>11. ASSUME NEW i \in 1 .. 36, i \notin HyphenPlaces PROVE u[i] = h[i - Before(i)]
  <2>1. CASE i < 9
    <3>1. i \in 1 .. 24 - 1 /\ i \in 1 .. 19 - 1 /\ i \in 1 .. 14 - 1 /\ i \in 1 .. 9 - 1 /\ i - Before(i) = i
      BY <2>1 DEF Before
    <3>2. u[i] = t[i]
      BY <1>9, <3>1, Zenon
    <3>3. t[i] = s[i]
      BY <1>9, <3>1, Zenon
    <3>4. s[i] = r[i]
      BY <1>9, <3>1, Zenon
    <3>5. r[i] = h[i]
      BY <1>9, <3>1, Zenon
    <3> QED
      BY <3>1, <3>2, <3>3, <3>4, <3>5, Zenon
  <2>2. CASE 9 < i /\ i < 14
    <3>1. i \in 1 .. 24 - 1 /\ i \in 1 .. 19 - 1 /\ i \in 1 .. 14 - 1 /\ i \in 9 + 1 .. 33 /\ i - Before(i) = i - 1
      BY <2>2 DEF Before
    <3>2. u[i] = t[i]
      BY <1>9, <3>1, Zenon
    <3>3. t[i] = s[i]
      BY <1>9, <3>1, Zenon
    <3>4. s[i] = r[i]
      BY <1>9, <3>1, Zenon
    <3>5. r[i] = h[i - 1]
      BY <1>9, <3>1, Zenon
    <3> QED
      BY <3>1, <3>2, <3>3, <3>4, <3>5, Zenon
  <2>3. CASE 14 < i /\ i < 19
    <3>1. i \in 1 .. 24 - 1 /\ i \in 1 .. 19 - 1 /\ i \in 14 + 1 .. 34 /\ i - 1 \in 9 + 1 .. 33 /\ i - Before(i) = (i - 1) - 1
      BY <2>3 DEF Before
    <3>2. u[i] = t[i]
      BY <1>9, <3>1, Zenon
    <3>3. t[i] = s[i]
      BY <1>9, <3>1, Zenon
    <3>4. s[i] = r[i - 1]
      BY <1>9, <3>1, Zenon
    <3>5. r[i - 1] = h[(i - 1) - 1]
      BY <1>9, <3>1, Zenon
    <3> QED
      BY <3>1, <3>2, <3>3, <3>4, <3>5, Zenon
  <2>4. CASE 19 < i /\ i < 24
    <3>1. /\ i \in 1 .. 24 - 1 /\ i \in 19 + 1 .. 35 /\ i - 1 \in 14 + 1 .. 34 /\ (i - 1) - 1 \in 9 + 1 .. 33
          /\ i - Before(i) = ((i - 1) - 1) - 1
      BY <2>4 DEF Before
    <3>2. u[i] = t[i]
      BY <1>9, <3>1, Zenon
    <3>3. t[i] = s[i - 1]
      BY <1>9, <3>1, Zenon
    <3>4. s[i - 1] = r[(i - 1) - 1]
      BY <1>9, <3>1, Zenon
    <3>5. r[(i - 1) - 1] = h[((i - 1) - 1) - 1]
      BY <1>9, <3>1, Zenon
    <3> QED
      BY <3>1, <3>2, <3>3, <3>4, <3>5, Zenon
  <2>5. CASE 24 < i
    <3>1. /\ i \in 24 + 1 .. 36 /\ i - 1 \in 19 + 1 .. 35 /\ (i - 1) - 1 \in 14 + 1 .. 34
          /\ ((i - 1) - 1) - 1 \in 9 + 1 .. 33 /\ i - Before(i) = (((i - 1) - 1) - 1) - 1
      BY <2>5 DEF Before
    <3>2. u[i] = t[i - 1]
      BY <1>9, <3>1, Zenon
    <3>3. t[i - 1] = s[(i - 1) - 1]
      BY <1>9, <3>1, Zenon
    <3>4. s[(i - 1) - 1] = r[((i - 1) - 1) - 1]
      BY <1>9, <3>1, Zenon
    <3>5. r[((i - 1) - 1) - 1] = h[(((i - 1) - 1) - 1) - 1]
      BY <1>9, <3>1, Zenon
    <3> QED
      BY <3>1, <3>2, <3>3, <3>4, <3>5, Zenon
  <2>6. i # 9 /\ i # 14 /\ i # 19 /\ i # 24
    BY <1>11 DEF HyphenPlaces
  <2> QED
    BY <2>1, <2>2, <2>3, <2>4, <2>5, <2>6
<1> QED
  BY <1>8, <1>10, <1>11, Zenon DEF Prints, r, s, t, u

Hyphens(t) == {i \in DOMAIN t : t[i] = Hyphen}

LEMMA OneMore ==
    ASSUME NEW S, IsFiniteSet(S), NEW x, x \notin S
    PROVE  IsFiniteSet(S \cup {x}) /\ Cardinality(S \cup {x}) = Cardinality(S) + 1
  BY FS_AddElement

LEMMA HyphenCount ==
    ASSUME str \in Seq(Chars), WellFormed
    PROVE  /\ Cardinality(Hyphens(str)) \in Nat /\ Cardinality(Hyphens(str)) >= 4
           /\ Cardinality(Hyphens(str)) = 4 <=> Regular(str)
<1> DEFINE H == Hyphens(str)
<1>1. DOMAIN str = 1 .. 36 /\ Len(str) = 36 /\ (\A i \in 1 .. 36 : str[i] \in Chars)
  BY ElementsOf, Zenon DEF WellFormed
<1>2. (\A i \in 1 .. 36 : str[i] # Other) /\ (\A i \in HyphenPlaces : str[i] = Hyphen)
  BY <1>1, Zenon DEF WellFormed, HyphenPlaces
<1>3. HyphenPlaces \subseteq H
  <2>1. HyphenPlaces \subseteq 1 .. 36
    BY DEF HyphenPlaces
  <2> QED
    BY <1>1, <1>2, <2>1, Zenon DEF Hyphens
<1>4. IsFiniteSet(H)
  <2>1. IsFiniteSet(1 .. 36)
    <3>1. 1 \in Int /\ 36 \in Int
      OBVIOUS
    <3> QED
      BY <3>1, FS_Interval, Zenon
  <2>2. H \subseteq 1 .. 36
    BY <1>1, Zenon DEF Hyphens
  <2> QED
    BY <2>1, <2>2, FS_Subset
<1>5. Cardinality(HyphenPlaces) = 4
  <2> DEFINE A == {9}
             B == A \cup {14}
             C == B \cup {19}
  <2>1. IsFiniteSet(A) /\ Cardinality(A) = 1
    BY FS_Singleton
  <2>2. 14 \notin A /\ 19 \notin B /\ 24 \notin C /\ HyphenPlaces = C \cup {24} /\ 1 + 1 = 2 /\ 2 + 1 = 3 /\ 3 + 1 = 4
    BY DEF HyphenPlaces
  <2> HIDE DEF A
  <2>3. IsFiniteSet(B) /\ Cardinality(B) = 2
    BY <2>1, <2>2, OneMore, Zenon
  <2> HIDE DEF B
  <2>4. IsFiniteSet(C) /\ Cardinality(C) = 3
    BY <2>2, <2>3, OneMore, Zenon
  <2> HIDE DEF C
  <2>5. Cardinality(C \cup {24}) = 4
    BY <2>2, <2>4, OneMore, Zenon
  <2> QED
    BY <2>2, <2>5, Zenon
<1>6. Cardinality(H) \in Nat /\ Cardinality(HyphenPlaces) <= Cardinality(H)
      /\ (Cardinality(HyphenPlaces) = Cardinality(H) => H = HyphenPlaces)
  <2>1. Cardinality(H) \in Nat
    BY <1>4, FS_CardinalityType
  <2>2. HyphenPlaces \in SUBSET H
    BY <1>3
  <2> HIDE DEF H
  <2> QED
    BY <1>4, <2>1, <2>2, FS_Subset
<1>7. H = HyphenPlaces <=> Regular(str)
  <2>1. ASSUME H = HyphenPlaces PROVE Regular(str)
    <3>1. ASSUME NEW i \in 1 .. 36, i \notin HyphenPlaces PROVE str[i] \in Digit
      <4>1. str[i] # Hyphen
        BY <1>1, <2>1, <3>1, Zenon DEF Hyphens
      <4> QED
        BY <1>1, <1>2, <4>1, Zenon DEF Chars
    <3> QED
      BY <1>1, <1>2, <3>1, Zenon DEF Regular
  <2>2. ASSUME Regular(str) PROVE H = HyphenPlaces
    <3>1. \A i \in 1 .. 36 : i \notin HyphenPlaces => str[i] \in Digit
      BY <2>2, Zenon DEF Regular
    <3>2. Hyphen \notin Digit
      BY DEF Hyphen, Digit
    <3>3. H \subseteq HyphenPlaces
      BY <1>1, <3>1, <3>2, Zenon DEF Hyphens
    <3> QED
      BY <1>3, <3>3, Zenon
  <2> QED
    BY <2>1, <2>2
<1> HIDE DEF H
<1>8. Cardinality(H) >= 4 /\ (Cardinality(H) = 4 <=> H = HyphenPlaces)
  BY <1>5, <1>6
<1> QED
  BY <1>6, <1>7, <1>8 DEF H

(* What the two words print as. *)
LEMMA PrintedString ==
    ASSUME NEW words \in [1 .. 2 -> EightBytes]
    PROVE  Prints(UuidString(words), Hex(words))
<1> DEFINE h == Hex(words)
<1>1. h \in Seq(Symbols) /\ Len(h) = 32
  BY HexOf, Zenon
<1>2. UuidString(words) = InsertAt(InsertAt(InsertAt(InsertAt(h, 9, Hyphen), 14, Hyphen), 19, Hyphen), 24, Hyphen)
  BY Zenon DEF UuidString
<1> HIDE DEF h
<1> QED
  BY <1>1, <1>2, StringOf, Zenon DEF h

DigitOf(i, c) ==
    \/ i - Before(i) = 2 * c - 1 /\ i = First(c)
    \/ i - Before(i) = 2 * c /\ i = First(c) + 1

(* A digit of the text is the upper or the lower one of some byte. *)
LEMMA DigitPlaces ==
    ASSUME NEW i \in 1 .. 36, i \notin HyphenPlaces
    PROVE  /\ i - Before(i) \in 1 .. 32
           /\ \E c \in 1 .. 16 : DigitOf(i, c)
<1> DEFINE d == i - Before(i)
           c == (d + 1) \div 2
<1>1. d \in 1 .. 32
  BY DEF Before, HyphenPlaces
<1>2. c \in 1 .. 16 /\ (d = 2 * c - 1 \/ d = 2 * c)
  BY <1>1
<1>3. (d = 2 * c - 1 /\ i = First(c)) \/ (d = 2 * c /\ i = First(c) + 1)
  <2> HIDE DEF c
  <2> QED
    BY <1>1, <1>2 DEF First, Before, HyphenPlaces
<1>4. DigitOf(i, c)
  BY <1>3, Zenon DEF DigitOf
<1> HIDE DEF c
<1> QED
  BY <1>1, <1>2, <1>4

LEMMA RoundTrips ==
    ASSUME UuidInv, uuidPc = "made"
    PROVE  UuidString(arr) = str <=> Regular(str)
<1> DEFINE u == UuidString(arr)
<1>1. arr \in [1 .. 2 -> EightBytes] /\ str \in Seq(Chars) /\ WellFormed /\ it = Len(str) /\ count \in Nat
  BY Zenon DEF UuidInv
<1>2. /\ u \in Seq(Symbols) /\ Len(u) = 36
      /\ \A i \in HyphenPlaces : u[i] = Hyphen
      /\ \A i \in 1 .. 36 : i \notin HyphenPlaces => u[i] = Hex(arr)[i - Before(i)]
  BY <1>1, PrintedString, Zenon DEF Prints
<1> HIDE DEF u
<1>3. /\ \A d \in 1 .. 32 : Hex(arr)[d] \in Digit
      /\ \A c \in 1 .. 16 : /\ Hex(arr)[2 * c - 1] = Printed(arr, c) \div 16
                            /\ Hex(arr)[2 * c] = Printed(arr, c) % 16
  BY <1>1, HexOf, Zenon
<1>4. Len(str) = 36 /\ \A i \in HyphenPlaces : str[i] = Hyphen
  BY <1>1, Zenon DEF WellFormed, HyphenPlaces
<1>5. ASSUME u = str PROVE Regular(str)
  <2>1. ASSUME NEW i \in 1 .. 36, i \notin HyphenPlaces PROVE str[i] \in Digit
    <3>1. i - Before(i) \in 1 .. 32
      BY <2>1, DigitPlaces
    <3> QED
      BY <1>2, <1>3, <1>5, <2>1, <3>1, Zenon
  <2> QED
    BY <1>1, <1>4, <2>1, Zenon DEF Regular
<1>6. ASSUME Regular(str) PROVE u = str
  <2>1. /\ count \in 0 .. 16 /\ Reached(count, it) /\ it = 36
        /\ count >= 8 => /\ \A j \in 1 .. 8 : arr[1][j] = ByteAt(str, j)
                         /\ \A j \in 1 .. count - 8 : arr[2][16 - count + j] = ByteAt(str, 8 + j)
    BY <1>1, <1>4, <1>6, Zenon DEF UuidInv, ScanInv
  <2>2. count = 16
    <3>1. count \in 0 .. 16 /\ Reached(count, 36)
      BY <2>1, Zenon
    <3> QED
      BY <3>1 DEF Reached, First
  <2>3. /\ \A j \in 1 .. 8 : arr[1][j] = ByteAt(str, j)
        /\ \A j \in 1 .. 8 : arr[2][16 - 16 + j] = ByteAt(str, 8 + j)
    <3>1. 16 >= 8 /\ 16 - 8 = 8
      OBVIOUS
    <3> QED
      BY <2>1, <2>2, <3>1, Zenon
  <2>4. \A i \in 1 .. 36 : i \notin HyphenPlaces => str[i] \in Digit
    BY <1>6, Zenon DEF Regular
  <2>5. ASSUME NEW c \in 1 .. 16
        PROVE  /\ Printed(arr, c) = 16 * str[First(c)] + str[First(c) + 1]
               /\ str[First(c)] \in Digit /\ str[First(c) + 1] \in Digit
    <3>1. First(c) \in 1 .. 36 /\ First(c) + 1 \in 1 .. 36 /\ First(c) \notin HyphenPlaces /\ First(c) + 1 \notin HyphenPlaces
      BY DEF First, HyphenPlaces
    <3>2. Printed(arr, c) = ByteAt(str, c)
      <4>1. CASE c <= 8
        <5>1. c \in 1 .. 8
          BY <4>1
        <5> QED
          BY <2>3, <4>1, <5>1, Zenon DEF Printed
      <4>2. CASE ~(c <= 8)
        <5>1. c - 8 \in 1 .. 8 /\ 16 - 16 + (c - 8) = c - 8 /\ 8 + (c - 8) = c
          BY <4>2
        <5>2. arr[2][16 - 16 + (c - 8)] = ByteAt(str, 8 + (c - 8))
          BY <2>3, <5>1, Zenon
        <5> QED
          BY <4>2, <5>1, <5>2, Zenon DEF Printed
      <4> QED
        BY <4>1, <4>2
    <3> QED
      BY <2>4, <3>1, <3>2, Zenon DEF ByteAt
  <2>6. \A hi, lo \in Digit : (16 * hi + lo) \div 16 = hi /\ (16 * hi + lo) % 16 = lo
    BY DEF Digit
  <2>7. ASSUME NEW i \in 1 .. 36, i \notin HyphenPlaces PROVE u[i] = str[i]
    <3>1. PICK c \in 1 .. 16 : DigitOf(i, c)
      BY <2>7, DigitPlaces, Zenon
    <3>2. u[i] = Hex(arr)[i - Before(i)]
      BY <1>2, <2>7, Zenon
    <3>3. Printed(arr, c) \div 16 = str[First(c)] /\ Printed(arr, c) % 16 = str[First(c) + 1]
      <4>1. /\ Printed(arr, c) = 16 * str[First(c)] + str[First(c) + 1]
            /\ str[First(c)] \in Digit /\ str[First(c) + 1] \in Digit
        BY <2>5, Zenon
      <4> QED
        BY <2>6, <4>1, ZenonT(40)
    <3> QED
      BY <1>3, <3>1, <3>2, <3>3, Zenon DEF DigitOf
  <2>8. \A i \in 1 .. 36 : u[i] = str[i]
    BY <1>2, <1>4, <2>7, Zenon
  <2>9. u = [i \in 1 .. 36 |-> u[i]] /\ str = [i \in 1 .. 36 |-> str[i]]
    <3>1. \A S : \A s \in Seq(S) : s = [i \in 1 .. Len(s) |-> s[i]]
      OBVIOUS
    <3> QED
      BY <1>1, <1>2, <1>4, <3>1, Zenon
  <2> QED
    BY <2>8, <2>9, Zenon
<1> QED
  BY <1>5, <1>6 DEF u

(* An identifier that was read prints as the text it was read from exactly   *)
(* when the text has no hyphens besides the four, and reading runs past the  *)
(* end only when it has: for every text whatsoever.                          *)
THEOREM UuidsRoundTrip == UuidSpec => []UuidRoundTrip
<1>1. UuidInv => UuidRoundTrip
  <2> SUFFICES ASSUME UuidInv PROVE UuidRoundTrip
    OBVIOUS
  <2> DEFINE hyphens == Cardinality(Hyphens(str))
  <2>1. ASSUME uuidPc = "made" PROVE UuidString(arr) = str <=> hyphens = 4
    <3>1. str \in Seq(Chars) /\ WellFormed
      BY <2>1, Zenon DEF UuidInv
    <3>2. hyphens = 4 <=> Regular(str)
      BY <3>1, HyphenCount, Zenon
    <3> QED
      BY <2>1, <3>2, RoundTrips
  <2>2. ASSUME uuidPc = "overrun" PROVE hyphens > 4
    <3>1. str \in Seq(Chars) /\ WellFormed /\ ~Regular(str)
      BY <2>2, Zenon DEF UuidInv, ScanInv
    <3>2. hyphens \in Nat /\ hyphens >= 4 /\ (hyphens = 4 <=> Regular(str))
      BY <3>1, HyphenCount, Zenon
    <3> HIDE DEF hyphens
    <3> QED
      BY <3>1, <3>2
  <2> QED
    BY <2>1, <2>2, Zenon DEF UuidRoundTrip, Hyphens
<1> QED
  BY <1>1, UuidInvInit, UuidStep, PTL DEF UuidSpec

-----------------------------------------------------------------------------
(* Md5.                                                                      *)

(* u is s and then t. *)
Joined(u, s, t, m, n, S) ==
    /\ IsSeqOf(u, m + n, S)
    /\ \A k \in 1 .. m : u[k] = s[k]
    /\ \A k \in 1 .. n : u[m + k] = t[k]

Concatenation(u, s, t, S) ==
    /\ u \in Seq(S) /\ Len(u) = Len(s) + Len(t)
    /\ \A k \in 1 .. Len(s) : u[k] = s[k]
    /\ \A k \in 1 .. Len(t) : u[Len(s) + k] = t[k]

LEMMA ConcatOf ==
    ASSUME NEW S, NEW s \in Seq(S), NEW t \in Seq(S)
    PROVE  Concatenation(s \o t, s, t, S)
  BY DEF Concatenation

LEMMA JoinedOf ==
    ASSUME NEW S, NEW m, NEW n, NEW s, NEW t, IsSeqOf(s, m, S), IsSeqOf(t, n, S)
    PROVE  Joined(s \o t, s, t, m, n, S)
<1>1. s \in Seq(S) /\ t \in Seq(S) /\ Len(s) = m /\ Len(t) = n
  BY Zenon DEF IsSeqOf
<1> DEFINE u == s \o t
<1>a. Concatenation(u, s, t, S)
  BY <1>1, ConcatOf, Zenon
<1> HIDE DEF u
<1>2. /\ u \in Seq(S) /\ Len(u) = Len(s) + Len(t)
      /\ \A k \in 1 .. Len(s) : u[k] = s[k]
      /\ \A k \in 1 .. Len(t) : u[Len(s) + k] = t[k]
  BY <1>a, Zenon DEF Concatenation
<1>3. Len(u) = m + n
  BY <1>1, <1>2, Zenon
<1>4. \A k \in 1 .. m : u[k] = s[k]
  BY <1>1, <1>2, Zenon
<1>5. \A k \in 1 .. n : u[m + k] = t[k]
  BY <1>1, <1>2, Zenon
<1> QED
  BY <1>2, <1>3, <1>4, <1>5, Zenon DEF Joined, IsSeqOf, u

PadMarked(u, s, n, x, S) ==
    /\ IsSeqOf(u, n + 1, S)
    /\ \A k \in 1 .. n : u[k] = s[k]
    /\ u[n + 1] = x

LEMMA MarkedOf ==
    ASSUME NEW S, NEW n, NEW s, IsSeqOf(s, n, S), NEW x \in S
    PROVE  PadMarked(Append(s, x), s, n, x, S)
<1>1. s \in Seq(S) /\ Len(s) = n
  BY Zenon DEF IsSeqOf
<1> DEFINE u == Append(s, x)
<1>2. /\ u \in Seq(S) /\ Len(u) = Len(s) + 1
      /\ \A k \in 1 .. Len(s) : u[k] = s[k]
      /\ u[Len(s) + 1] = x
  BY <1>1, AppendOf, Zenon
<1> HIDE DEF u
<1>3. u \in Seq(S) /\ Len(u) = n + 1 /\ (\A k \in 1 .. n : u[k] = s[k]) /\ u[n + 1] = x
  BY <1>1, <1>2, Zenon
<1> QED
  BY <1>3, Zenon DEF PadMarked, IsSeqOf, u

PaddedBytes == {"message", "pad"} \X Nat

(* What PadMessage makes of a message of m bytes: n zeros behind the mark. *)
PaddedWith(p, m, n) ==
    /\ p \in Seq(PaddedBytes) /\ Len(p) = m + n + 9
    /\ \A i \in 1 .. m : p[i] = <<"message", i>>
    /\ p[m + 1] = <<"pad", 128>>
    /\ \A k \in 1 .. n : p[m + 1 + k] = <<"pad", 0>>
    /\ \A k \in 1 .. 4 : p[m + 1 + n + k] = <<"pad", LowByte(8 * m, k - 1)>>
    /\ \A k \in 1 .. 4 : p[m + n + 5 + k] = <<"pad", 0>>

Surplus(m) == 64 * NumBlocks(m) - m - 8 - 1

LEMMA SurplusOf ==
    ASSUME NEW m \in Nat
    PROVE  Surplus(m) \in 0 .. 63 /\ (m + Surplus(m) + 9) % 64 = 0
  BY DEF Surplus, NumBlocks

LEMMA LowBytes ==
    ASSUME NEW N \in Nat, NEW k \in 1 .. 4
    PROVE  LowByte(N, k - 1) \in 0 .. 255
<1> DEFINE t == <<1, 256, 65536, 16777216>>
           d == t[(k - 1) + 1]
<1>1. d \in {1, 256, 65536, 16777216}
  BY DEF t
<1>2. LowByte(N, k - 1) = (N \div d) % 256
  BY DEF LowByte
<1> HIDE DEF d
<1>3. N \div d \in Nat
  BY <1>1
<1> QED
  BY <1>2, <1>3

LEMMA LengthRead ==
    ASSUME NEW N \in Nat, N < 4294967296
    PROVE  LowByte(N, 0) + 256 * LowByte(N, 1) + 65536 * LowByte(N, 2) + 16777216 * LowByte(N, 3) = N
<1> DEFINE p == N \div 256
           q == p \div 256
           r == q \div 256
<1>1. LowByte(N, 0) = N % 256
  BY DEF LowByte
<1>2. LowByte(N, 1) = p % 256
  BY DEF LowByte
<1>3. LowByte(N, 2) = q % 256
  <2>1. LowByte(N, 2) = (N \div 65536) % 256
    BY DEF LowByte
  <2> QED
    BY <2>1
<1>4. LowByte(N, 3) = r % 256
  <2>1. LowByte(N, 3) = (N \div 16777216) % 256
    BY DEF LowByte
  <2>2. N \div 16777216 = r
    OBVIOUS
  <2> QED
    BY <2>1, <2>2
<1>5. N = 256 * p + (N % 256) /\ p \in Nat
  OBVIOUS
<1>6. p = 256 * q + (p % 256) /\ q \in Nat
  BY <1>5
<1>7. q = 256 * r + (q % 256) /\ r \in Nat
  BY <1>6
<1>8. r < 256
  BY <1>5, <1>6, <1>7
<1> HIDE DEF p, q, r
<1>9. r % 256 = r
  BY <1>7, <1>8
<1> QED
  BY <1>1, <1>2, <1>3, <1>4, <1>5, <1>6, <1>7, <1>9

LEMMA PaddedOf ==
    ASSUME NEW m \in Nat
    PROVE  PaddedWith(Append([i \in 1..m |-> <<"message", i>>], <<"pad", 128>>)
                      \o [i \in 1..Surplus(m) |-> <<"pad", 0>>]
                      \o [i \in 1..4 |-> <<"pad", LowByte(8 * m, i - 1)>>]
                      \o [i \in 1..4 |-> <<"pad", 0>>], m, Surplus(m))
<1> DEFINE n == Surplus(m)
           s == [i \in 1..m |-> <<"message", i>>]
           z == [i \in 1..n |-> <<"pad", 0>>]
           l == [i \in 1..4 |-> <<"pad", LowByte(8 * m, i - 1)>>]
           h == [i \in 1..4 |-> <<"pad", 0>>]
           b == Append(s, <<"pad", 128>>)
           c == b \o z
           d == c \o l
           p == d \o h
<1>0. n \in Nat
  <2>1. Surplus(m) \in 0 .. 63
    BY SurplusOf, Zenon
  <2> QED
    BY <2>1
<1>1. IsSeqOf(s, m, PaddedBytes)
  <2>1. Maps(s, m, PaddedBytes)
    BY DEF Maps, PaddedBytes
  <2> QED
    BY <2>1, FunctionOf, Zenon
<1>2. IsSeqOf(z, n, PaddedBytes)
  <2> HIDE DEF n
  <2>1. Maps(z, n, PaddedBytes)
    BY <1>0 DEF Maps, PaddedBytes
  <2> QED
    BY <1>0, <2>1, FunctionOf, Zenon
<1>3. IsSeqOf(l, 4, PaddedBytes)
  <2>1. \A i \in 1 .. 4 : LowByte(8 * m, i - 1) \in Nat
    <3> TAKE i \in 1 .. 4
    <3>1. 8 * m \in Nat
      OBVIOUS
    <3>2. LowByte(8 * m, i - 1) \in 0 .. 255
      BY <3>1, LowBytes, Zenon
    <3> QED
      BY <3>2
  <2>2. Maps(l, 4, PaddedBytes)
    BY <2>1 DEF Maps, PaddedBytes
  <2>3. 4 \in Nat
    OBVIOUS
  <2> QED
    BY <2>2, <2>3, FunctionOf, Zenon
<1>4. IsSeqOf(h, 4, PaddedBytes)
  <2>2. Maps(h, 4, PaddedBytes)
    BY DEF Maps, PaddedBytes
  <2>3. 4 \in Nat
    OBVIOUS
  <2> QED
    BY <2>2, <2>3, FunctionOf, Zenon
<1>5. /\ \A i \in 1 .. m : s[i] = <<"message", i>>
      /\ \A i \in 1 .. n : z[i] = <<"pad", 0>>
      /\ \A i \in 1 .. 4 : l[i] = <<"pad", LowByte(8 * m, i - 1)>>
      /\ \A i \in 1 .. 4 : h[i] = <<"pad", 0>>
  BY Zenon
<1>m. <<"pad", 128>> \in PaddedBytes
  BY DEF PaddedBytes
<1> HIDE DEF n, s, z, l, h
<1>6. PadMarked(b, s, m, <<"pad", 128>>, PaddedBytes)
  BY <1>1, <1>m, MarkedOf, Zenon
<1> HIDE DEF b
<1>7. Joined(c, b, z, m + 1, n, PaddedBytes)
  BY <1>2, <1>6, JoinedOf, Zenon DEF PadMarked
<1> HIDE DEF c
<1>8. Joined(d, c, l, (m + 1) + n, 4, PaddedBytes)
  <2>1. IsSeqOf(c, (m + 1) + n, PaddedBytes)
    BY <1>7, Zenon DEF Joined
  <2> QED
    BY <1>3, <2>1, JoinedOf, Zenon
<1> HIDE DEF d
<1>9. Joined(p, d, h, ((m + 1) + n) + 4, 4, PaddedBytes)
  <2>1. IsSeqOf(d, ((m + 1) + n) + 4, PaddedBytes)
    BY <1>8, Zenon DEF Joined
  <2> QED
    BY <1>4, <2>1, JoinedOf, Zenon
<1> HIDE DEF p
<1>10. p \in Seq(PaddedBytes) /\ Len(p) = m + n + 9
  <2>1. p \in Seq(PaddedBytes) /\ Len(p) = (((m + 1) + n) + 4) + 4
    BY <1>9, Zenon DEF Joined, IsSeqOf
  <2>2. (((m + 1) + n) + 4) + 4 = m + n + 9
    BY <1>0
  <2> QED
    BY <2>1, <2>2, Zenon
<1>11. /\ \A k \in 1 .. m : b[k] = s[k]
       /\ b[m + 1] = <<"pad", 128>>
       /\ \A k \in 1 .. m + 1 : c[k] = b[k]
       /\ \A k \in 1 .. n : c[m + 1 + k] = z[k]
       /\ \A k \in 1 .. (m + 1) + n : d[k] = c[k]
       /\ \A k \in 1 .. 4 : d[m + 1 + n + k] = l[k]
       /\ \A k \in 1 .. ((m + 1) + n) + 4 : p[k] = d[k]
       /\ \A k \in 1 .. 4 : p[((m + 1) + n) + 4 + k] = h[k]
  BY <1>6, <1>7, <1>8, <1>9, Zenon DEF Joined, PadMarked
<1>12. /\ \A i \in 1 .. m : p[i] = <<"message", i>>
       /\ p[m + 1] = <<"pad", 128>>
       /\ \A k \in 1 .. n : p[m + 1 + k] = <<"pad", 0>>
       /\ \A k \in 1 .. 4 : p[m + 1 + n + k] = <<"pad", LowByte(8 * m, k - 1)>>
       /\ \A k \in 1 .. 4 : p[m + n + 5 + k] = <<"pad", 0>>
  <2>0. \A i \in 1 .. m : i \in 1 .. m + 1 /\ i \in 1 .. (m + 1) + n /\ i \in 1 .. ((m + 1) + n) + 4
    BY <1>0
  <2>1. \A i \in 1 .. m : p[i] = <<"message", i>>
    <3> TAKE i \in 1 .. m
    <3>1. p[i] = d[i] /\ d[i] = c[i]
      BY <2>0, <1>11, Zenon
    <3>2. c[i] = b[i] /\ b[i] = s[i] /\ s[i] = <<"message", i>>
      BY <2>0, <1>5, <1>11, Zenon
    <3> QED
      BY <3>1, <3>2, Zenon
  <2>2. m + 1 \in 1 .. m + 1 /\ m + 1 \in 1 .. (m + 1) + n /\ m + 1 \in 1 .. ((m + 1) + n) + 4
    BY <1>0
  <2>3. p[m + 1] = <<"pad", 128>>
    BY <2>2, <1>11, Zenon
  <2>4. \A k \in 1 .. n : m + 1 + k \in 1 .. (m + 1) + n /\ m + 1 + k \in 1 .. ((m + 1) + n) + 4
    BY <1>0
  <2>5. \A k \in 1 .. n : p[m + 1 + k] = <<"pad", 0>>
    <3> TAKE k \in 1 .. n
    <3>1. p[m + 1 + k] = d[m + 1 + k] /\ d[m + 1 + k] = c[m + 1 + k]
      BY <2>4, <1>11, Zenon
    <3>2. c[m + 1 + k] = z[k] /\ z[k] = <<"pad", 0>>
      BY <1>5, <1>11, Zenon
    <3> QED
      BY <3>1, <3>2, Zenon
  <2>6. \A k \in 1 .. 4 : m + 1 + n + k \in 1 .. ((m + 1) + n) + 4
    BY <1>0
  <2>7. \A k \in 1 .. 4 : p[m + 1 + n + k] = <<"pad", LowByte(8 * m, k - 1)>>
    <3> TAKE k \in 1 .. 4
    <3>1. p[m + 1 + n + k] = d[m + 1 + n + k] /\ d[m + 1 + n + k] = l[k]
      BY <2>6, <1>11, Zenon
    <3>2. l[k] = <<"pad", LowByte(8 * m, k - 1)>>
      BY <1>5, Zenon
    <3> QED
      BY <3>1, <3>2, Zenon
  <2>8. \A k \in 1 .. 4 : m + n + 5 + k = ((m + 1) + n) + 4 + k
    BY <1>0
  <2>9. \A k \in 1 .. 4 : p[m + n + 5 + k] = <<"pad", 0>>
    BY <2>8, <1>5, <1>11, ZenonT(40)
  <2> QED
    BY <2>1, <2>3, <2>5, <2>7, <2>9, Zenon
<1>13. PaddedWith(p, m, n)
  BY <1>10, <1>12, Zenon DEF PaddedWith
<1> QED
  BY <1>13, Zenon DEF p, d, c, b, s, z, l, h, n

(* The operation of round q, counted from its first, that takes word w. *)
Slot(q, w) ==
    CASE q = 0 -> w
      [] q = 1 -> (13 * w + 3) % 16
      [] q = 2 -> (11 * w + 9) % 16
      [] OTHER -> (7 * w) % 16

LEMMA WordOfSlot ==
    ASSUME NEW q \in 0 .. 3, NEW k \in 0 .. 15
    PROVE  /\ Word(16 * q + k) \in 0 .. 15
           /\ \A w \in 0 .. 15 : Word(16 * q + k) = w <=> k = Slot(q, w)
<1>1. (16 * q + k) \div 16 = q /\ (16 * q + k) % 16 = k
  OBVIOUS
<1>2. Word(16 * q + k) = Orders[q + 1][k + 1]
  BY <1>1 DEF Word
<1>3. CASE q = 0
  <2>1. Orders[q + 1][k + 1] = k
    BY <1>3 DEF Orders
  <2> QED
    BY <1>2, <1>3, <2>1 DEF Slot
<1>4. CASE q = 1
  <2>1. Orders[q + 1][k + 1] = (5 * k + 1) % 16
    BY <1>4 DEF Orders
  <2> QED
    BY <1>2, <1>4, <2>1 DEF Slot
<1>5. CASE q = 2
  <2>1. Orders[q + 1][k + 1] = (3 * k + 5) % 16
    BY <1>5 DEF Orders
  <2> QED
    BY <1>2, <1>5, <2>1 DEF Slot
<1>6. CASE q = 3
  <2>1. Orders[q + 1][k + 1] = (7 * k) % 16
    BY <1>6 DEF Orders
  <2> QED
    BY <1>2, <1>6, <2>1 DEF Slot
<1> QED
  BY <1>3, <1>4, <1>5, <1>6

LEMMA SlotBound ==
    ASSUME NEW q \in 0 .. 4, NEW w \in 0 .. 15
    PROVE  Slot(q, w) \in 0 .. 15
  BY DEF Slot

(* The places of the chunk that operation k and those before it put in. *)
Through(k) == IF k < 16 THEN 4 * (k + 1) ELSE 64

(* How often word w went in during the first n operations. *)
TimesIn(n, w) == (n \div 16) + (IF Slot(n \div 16, w) < n % 16 THEN 1 ELSE 0)

MixInv ==
    /\ op \in 0 .. 64
    /\ chunk = [w \in 0 .. 15 |-> [n \in 1 .. 4 |-> from + 4 * w + n]]
    /\ regs \in [Registers -> SUBSET (1 .. from + 64)]
    /\ \A r \in Registers : 1 .. from \subseteq regs[r]
    /\ \A k \in 0 .. op - 1 : 1 .. from + Through(k) \subseteq regs[Target(k)]
    /\ mixed = [w \in 0 .. 15 |-> TimesIn(op, w)]

Md5Inv ==
    /\ msg_size \in 0 .. MaxLength
    /\ digestPc \in {"pad", "chunk", "mix", "done"}
    /\ digestPc = "pad" => from = 0
    /\ digestPc # "pad" => PaddedWith(padded, msg_size, Surplus(msg_size)) /\ from <= Len(padded)
    /\ from \in Nat /\ from % 64 = 0
    /\ sums = [r \in Registers |-> 1 .. from]
    /\ digestPc = "mix" => from < Len(padded) /\ MixInv
    /\ digestPc = "done" => from = Len(padded)

LEMMA Md5InvInit == Md5Init => Md5Inv
<1> SUFFICES ASSUME Md5Init PROVE Md5Inv
  OBVIOUS
<1>1. msg_size \in 0 .. MaxLength
  BY LengthsAssumption, Zenon DEF Md5Init
<1>2. 1 .. 0 = {}
  OBVIOUS
<1>3. from = 0 /\ digestPc = "pad" /\ sums = [r \in Registers |-> 1 .. from]
  BY <1>2 DEF Md5Init, Fresh
<1> QED
  BY <1>1, <1>3 DEF Md5Inv

LEMMA LongestMessage == MaxLength \in Nat /\ 8 * MaxLength < 4294967296
  BY SMT DEF MaxLength

LEMMA LengthOf ==
    ASSUME NEW m, m \in 0 .. MaxLength
    PROVE  m \in Nat /\ 8 * m < 4294967296
  BY LongestMessage, SMT

LEMMA PaddedSize ==
    ASSUME NEW p, NEW m \in Nat, PaddedWith(p, m, Surplus(m))
    PROVE  /\ Len(p) \in Nat /\ Len(p) % 64 = 0 /\ Len(p) - m \in 9 .. 72
           /\ Len(p) = m + Surplus(m) + 9
<1>1. Surplus(m) \in 0 .. 63 /\ (m + Surplus(m) + 9) % 64 = 0
  BY SurplusOf, Zenon
<1>2. Len(p) = m + Surplus(m) + 9
  BY Zenon DEF PaddedWith
<1> DEFINE n == Surplus(m)
           l == Len(p)
<1>3. n \in 0 .. 63 /\ (m + n + 9) % 64 = 0 /\ l = m + n + 9
  BY <1>1, <1>2
<1> HIDE DEF n, l
<1>4. l \in Nat /\ l % 64 = 0 /\ l - m \in 9 .. 72 /\ l = m + n + 9
  BY <1>3
<1> QED
  BY <1>4 DEF n, l

(* An operation's target, which has every place its operands have. *)
LEMMA MixStep ==
    ASSUME MixInv, from \in Nat, op < 64, Mix
    PROVE  MixInv'
<1> DEFINE q == op \div 16
           k == op % 16
           x == Word(op)
           t == Target(op)
           places == Range(chunk[x])
           all == UNION {regs[r] : r \in Registers}
<1>1. q \in 0 .. 3 /\ k \in 0 .. 15 /\ op = 16 * q + k /\ op \in 0 .. 63
  BY DEF MixInv
<1>2. x \in 0 .. 15 /\ \A w \in 0 .. 15 : x = w <=> k = Slot(q, w)
  <2> HIDE DEF q, k
  <2>1. Word(16 * q + k) \in 0 .. 15 /\ \A w \in 0 .. 15 : Word(16 * q + k) = w <=> k = Slot(q, w)
    BY <1>1, WordOfSlot
  <2> QED
    BY <1>1, <2>1
<1>3. t \in Registers
  BY <1>1 DEF Target, Registers
<1>4. places = from + 4 * x + 1 .. from + 4 * x + 4
  <2> HIDE DEF x
  <2>1. chunk[x] = [n \in 1 .. 4 |-> from + 4 * x + n]
    BY <1>2 DEF MixInv
  <2>2. places = {from + 4 * x + n : n \in 1 .. 4}
    BY <2>1 DEF Range
  <2>3. ASSUME NEW i \in from + 4 * x + 1 .. from + 4 * x + 4
        PROVE  i \in {from + 4 * x + n : n \in 1 .. 4}
    <3>1. i - (from + 4 * x) \in 1 .. 4 /\ from + 4 * x + (i - (from + 4 * x)) = i
      BY <1>2
    <3> QED
      BY <3>1
  <2>4. ASSUME NEW i \in {from + 4 * x + n : n \in 1 .. 4}
        PROVE  i \in from + 4 * x + 1 .. from + 4 * x + 4
    BY <1>2
  <2> QED
    BY <2>2, <2>3, <2>4
<1>5. regs' = [regs EXCEPT ![t] = all \cup places]
  BY DEF Mix
<1>6. op' = op + 1 /\ from' = from /\ chunk' = chunk /\ mixed' = [mixed EXCEPT ![x] = @ + 1]
  BY DEF Mix
<1>7. /\ regs \in [Registers -> SUBSET (1 .. from + 64)]
      /\ \A r \in Registers : 1 .. from \subseteq regs[r]
      /\ \A n \in 0 .. op - 1 : 1 .. from + Through(n) \subseteq regs[Target(n)]
      /\ mixed = [w \in 0 .. 15 |-> TimesIn(op, w)]
  BY DEF MixInv
<1>8. \A r \in Registers : regs[r] \subseteq all
  OBVIOUS
<1>9. all \subseteq 1 .. from + 64
  BY <1>7
<1> HIDE DEF places, all, t, x, q, k
<1>10. places \subseteq 1 .. from + 64
  BY <1>2, <1>4
<1>11. /\ \A r \in Registers : regs[r] \subseteq regs'[r]
       /\ regs'[t] = all \cup places
       /\ regs' \in [Registers -> SUBSET (1 .. from + 64)]
  <2>1. all \cup places \in SUBSET (1 .. from + 64)
    BY <1>9, <1>10
  <2> QED
    BY <1>3, <1>5, <1>7, <1>8, <2>1
<1>12. \A r \in Registers : 1 .. from \subseteq regs'[r]
  BY <1>7, <1>11
<1>13. 1 .. from + Through(op) \subseteq regs'[t]
  <2>1. CASE op = 0
    <3>1. "a" \in Registers /\ 1 .. from \subseteq regs["a"]
      BY <1>7 DEF Registers
    <3>2. x = 0
      BY <1>1, <1>2, <2>1 DEF Slot
    <3>3. ASSUME NEW i \in 1 .. from + 4 PROVE i \in 1 .. from \/ i \in places
      BY <1>4, <3>2
    <3>4. Through(op) = 4
      BY <2>1 DEF Through
    <3> QED
      BY <3>1, <3>3, <3>4, <1>8, <1>11
  <2>2. CASE op \in 1 .. 15
    <3>1. x = op
      BY <1>1, <1>2, <2>2 DEF Slot
    <3>2. op - 1 \in 0 .. op - 1 /\ Through(op - 1) = 4 * op /\ Through(op) = 4 * op + 4
      BY <2>2 DEF Through
    <3>3. Target(op - 1) \in Registers
      BY <2>2 DEF Target, Registers
    <3>4. 1 .. from + 4 * op \subseteq all
      BY <1>7, <1>8, <3>2, <3>3
    <3>5. ASSUME NEW i \in 1 .. from + (4 * op + 4) PROVE i \in 1 .. from + 4 * op \/ i \in places
      BY <1>4, <3>1, <2>2
    <3> QED
      BY <3>2, <3>4, <3>5, <1>11
  <2>3. CASE op \in 16 .. 63
    <3>1. op - 1 \in 0 .. op - 1 /\ Through(op - 1) = 64 /\ Through(op) = 64
      BY <2>3 DEF Through
    <3>2. Target(op - 1) \in Registers
      BY <2>3 DEF Target, Registers
    <3> QED
      BY <1>7, <1>8, <1>11, <3>1, <3>2
  <2> QED
    BY <1>1, <2>1, <2>2, <2>3
<1>14. \A n \in 0 .. op' - 1 : 1 .. from + Through(n) \subseteq regs'[Target(n)]
  <2> TAKE n \in 0 .. op' - 1
  <2>1. n = op \/ n \in 0 .. op - 1
    BY <1>1, <1>6
  <2>2. Target(n) \in Registers
    BY <1>1, <1>6 DEF Target, Registers
  <2>3. CASE n = op
    BY <1>13, <2>3 DEF t
  <2>4. CASE n \in 0 .. op - 1
    BY <1>7, <1>11, <2>2, <2>4
  <2> QED
    BY <2>1, <2>3, <2>4
<1>15. mixed' = [w \in 0 .. 15 |-> TimesIn(op', w)]
  <2>1. \A w \in 0 .. 15 : TimesIn(op, w) \in Nat
    <3> TAKE w \in 0 .. 15
    <3>1. op \div 16 \in Nat
      BY <1>1
    <3> QED
      BY <3>1 DEF TimesIn
  <2>2. ASSUME NEW w \in 0 .. 15
        PROVE  TimesIn(op + 1, w) = TimesIn(op, w) + (IF w = x THEN 1 ELSE 0)
    <3>0. Slot(q, w) \in 0 .. 15 /\ Slot(q + 1, w) \in 0 .. 15 /\ (w = x <=> k = Slot(q, w))
      BY <1>1, <1>2, SlotBound
    <3>1. TimesIn(op, w) = q + (IF Slot(q, w) < k THEN 1 ELSE 0)
      BY Zenon DEF TimesIn, q, k
    <3>2. CASE k < 15
      <4>1. (op + 1) \div 16 = q /\ (op + 1) % 16 = k + 1
        BY <1>1, <3>2
      <4>2. TimesIn(op + 1, w) = q + (IF Slot(q, w) < k + 1 THEN 1 ELSE 0)
        BY <4>1, Zenon DEF TimesIn
      <4> QED
        BY <1>1, <3>0, <3>1, <4>2
    <3>3. CASE k = 15
      <4>1. (op + 1) \div 16 = q + 1 /\ (op + 1) % 16 = 0
        BY <1>1, <3>3
      <4>2. TimesIn(op + 1, w) = q + 1 + (IF Slot(q + 1, w) < 0 THEN 1 ELSE 0)
        BY <4>1, Zenon DEF TimesIn
      <4> QED
        BY <1>1, <3>0, <3>1, <3>3, <4>2
    <3> QED
      BY <1>1, <3>2, <3>3
  <2>3. ASSUME NEW w \in 0 .. 15 PROVE mixed'[w] = TimesIn(op + 1, w)
    <3>1. CASE w = x
      BY <1>6, <1>7, <2>1, <2>2, <3>1
    <3>2. CASE w # x
      <4>1. mixed'[w] = TimesIn(op, w)
        BY <1>6, <1>7, <3>2
      <4> QED
        BY <2>1, <2>2, <3>2, <4>1
    <3> QED
      BY <3>1, <3>2
  <2>4. DOMAIN mixed' = 0 .. 15 /\ mixed' = [w \in DOMAIN mixed' |-> mixed'[w]]
    BY <1>6, <1>7
  <2>5. mixed' = [w \in 0 .. 15 |-> TimesIn(op + 1, w)]
    BY <2>3, <2>4
  <2> QED
    BY <1>6, <2>5, Zenon
<1>16. op' \in 0 .. 64
  BY <1>1, <1>6
<1>17. chunk' = [w \in 0 .. 15 |-> [n \in 1 .. 4 |-> from' + 4 * w + n]]
  BY <1>6 DEF MixInv
<1> QED
  BY <1>6, <1>11, <1>12, <1>14, <1>15, <1>16, <1>17 DEF MixInv

LEMMA Md5Step == Md5Inv /\ [Md5Next]_md5Vars => Md5Inv'
<1> SUFFICES ASSUME Md5Inv, [Md5Next]_md5Vars PROVE Md5Inv'
  OBVIOUS
<1>1. CASE UNCHANGED md5Vars
  <2>1. MixInv => MixInv'
    BY <1>1 DEF MixInv, md5Vars
  <2> QED
    BY <1>1, <2>1 DEF Md5Inv, md5Vars
<1>2. CASE PadMessage
  <2>1. msg_size' = msg_size /\ from' = from /\ sums' = sums /\ digestPc' = "chunk" /\ from = 0
    BY <1>2 DEF PadMessage, Md5Inv
  <2>2. PaddedWith(padded', msg_size, Surplus(msg_size))
    <3>1. msg_size \in Nat
      BY LengthOf DEF Md5Inv
    <3> QED
      BY <1>2, <3>1, PaddedOf, Zenon DEF PadMessage, Surplus
  <2>3. Len(padded') \in Nat
    BY <2>2, LengthOf, PaddedSize DEF Md5Inv
  <2> QED
    BY <2>1, <2>2, <2>3 DEF Md5Inv
<1>3. CASE ExtractChunk
  <2>1. /\ UNCHANGED <<msg_size, padded, from, sums>> /\ digestPc' = "mix" /\ from < Len(padded)
        /\ digestPc = "chunk"
    BY <1>3 DEF ExtractChunk
  <2>2. from \in Nat /\ sums = [r \in Registers |-> 1 .. from]
    BY DEF Md5Inv
  <2>3. regs' = [r \in Registers |-> 1 .. from] /\ op' = 0
    BY <1>3, <2>2 DEF ExtractChunk
  <2>4. mixed' = [w \in 0 .. 15 |-> TimesIn(0, w)]
    <3>1. ASSUME NEW w \in 0 .. 15 PROVE TimesIn(0, w) = 0
      <4>1. 0 \div 16 = 0 /\ 0 % 16 = 0 /\ Slot(0, w) = w
        BY DEF Slot
      <4> QED
        BY <4>1 DEF TimesIn
    <3> QED
      BY <1>3, <3>1 DEF ExtractChunk
  <2>5. MixInv'
    <3>1. \A r \in Registers : regs'[r] = 1 .. from
      BY <2>3
    <3>2. 1 .. from \subseteq 1 .. from + 64
      BY <2>2
    <3>3. regs' \in [Registers -> SUBSET (1 .. from' + 64)]
      BY <2>1, <2>3, <3>2
    <3>4. chunk' = [w \in 0 .. 15 |-> [n \in 1 .. 4 |-> from' + 4 * w + n]]
      BY <1>3, <2>1 DEF ExtractChunk
    <3>5. \A k \in 0 .. op' - 1 : FALSE
      BY <2>3
    <3> QED
      <4>1. op' \in 0 .. 64
        BY <2>3
      <4>2. \A r \in Registers : 1 .. from' \subseteq regs'[r]
        BY <2>1, <3>1
      <4>3. \A k \in 0 .. op' - 1 : 1 .. from' + Through(k) \subseteq regs'[Target(k)]
        BY <3>5, Zenon
      <4>4. mixed' = [w \in 0 .. 15 |-> TimesIn(op', w)]
        BY <2>3, <2>4, Zenon
      <4> QED
        BY <3>3, <3>4, <4>1, <4>2, <4>3, <4>4, Zenon DEF MixInv
  <2> QED
    BY <2>1, <2>5 DEF Md5Inv
<1>4. CASE Mix
  <2>1. UNCHANGED <<msg_size, padded, from, sums, digestPc>> /\ digestPc = "mix" /\ op < 64
    BY <1>4 DEF Mix
  <2>2. MixInv /\ from \in Nat
    BY <2>1 DEF Md5Inv
  <2>3. MixInv'
    BY <1>4, <2>1, <2>2, MixStep
  <2> QED
    BY <2>1, <2>3 DEF Md5Inv
<1>5. CASE AddUp
  <2>1. /\ UNCHANGED <<msg_size, padded>> /\ digestPc = "mix" /\ op = 64
        /\ from' = from + 64 /\ digestPc' = "chunk"
        /\ sums' = [r \in Registers |-> sums[r] \cup regs[r]]
    BY <1>5 DEF AddUp
  <2>2. /\ from \in Nat /\ from % 64 = 0 /\ from < Len(padded) /\ msg_size \in Nat
        /\ PaddedWith(padded, msg_size, Surplus(msg_size))
    BY <2>1, LengthOf DEF Md5Inv
  <2>3. Len(padded) \in Nat /\ Len(padded) % 64 = 0
    BY <2>2, PaddedSize, Zenon
  <2>4. from + 64 \in Nat /\ (from + 64) % 64 = 0 /\ from + 64 <= Len(padded)
    <3> DEFINE l == Len(padded)
    <3>1. l \in Nat /\ l % 64 = 0 /\ from < l
      BY <2>2, <2>3
    <3> HIDE DEF l
    <3>2. from + 64 <= l
      BY <2>2, <3>1
    <3>3. from + 64 \in Nat /\ (from + 64) % 64 = 0
      BY <2>2
    <3> QED
      BY <3>2, <3>3 DEF l
  <2>5. ASSUME NEW r \in Registers PROVE sums[r] \cup regs[r] = 1 .. from + 64
    <3>1. /\ sums[r] = 1 .. from /\ regs[r] \subseteq 1 .. from + 64
          /\ \A k \in 0 .. 63 : 1 .. from + Through(k) \subseteq regs[Target(k)]
      <4>1. MixInv /\ sums = [x \in Registers |-> 1 .. from]
        BY <2>1, Zenon DEF Md5Inv
      <4>2. /\ regs \in [Registers -> SUBSET (1 .. from + 64)]
            /\ \A k \in 0 .. op - 1 : 1 .. from + Through(k) \subseteq regs[Target(k)]
        BY <4>1, Zenon DEF MixInv
      <4>3. op - 1 = 63
        BY <2>1
      <4>4. \A k \in 0 .. 63 : 1 .. from + Through(k) \subseteq regs[Target(k)]
        BY <4>2, <4>3, Zenon
      <4>5. regs[r] \in SUBSET (1 .. from + 64)
        BY <4>2, Zenon
      <4> QED
        BY <4>1, <4>4, <4>5, Zenon
    <3>2. \E k \in 60 .. 63 : Target(k) = r
      <4>1. Target(60) = "a" /\ Target(61) = "d" /\ Target(62) = "c" /\ Target(63) = "b"
        BY DEF Target
      <4> QED
        BY <4>1 DEF Registers
    <3>3. PICK k \in 60 .. 63 : Target(k) = r
      BY <3>2
    <3>4. Through(k) = 64 /\ k \in 0 .. 63
      BY DEF Through
    <3>5. 1 .. from + 64 \subseteq regs[r]
      BY <3>1, <3>3, <3>4
    <3>6. 1 .. from \subseteq 1 .. from + 64
      BY <2>2
    <3> QED
      BY <3>1, <3>5, <3>6
  <2>6. sums' = [r \in Registers |-> 1 .. from']
    BY <2>1, <2>5
  <2> QED
    BY <2>1, <2>2, <2>4, <2>6 DEF Md5Inv
<1>6. CASE DigestDone
  <2>1. UNCHANGED <<msg_size, padded, from, sums>> /\ digestPc = "chunk" /\ digestPc' = "done" /\ from >= Len(padded)
    BY <1>6 DEF DigestDone
  <2>2. from \in Nat /\ from <= Len(padded) /\ PaddedWith(padded, msg_size, Surplus(msg_size)) /\ msg_size \in Nat
    BY <2>1, LengthOf DEF Md5Inv
  <2>3. Len(padded) \in Nat
    BY <2>2, PaddedSize, Zenon
  <2>4. from = Len(padded)
    BY <2>1, <2>2, <2>3
  <2> QED
    BY <2>1, <2>4 DEF Md5Inv
<1> QED
  BY <1>1, <1>2, <1>3, <1>4, <1>5, <1>6 DEF Md5Next

(* DigestOfMessage for every message whose bits a u32 can count: the padding  *)
(* of PadMessage tells the message and its length, and the 64 operations of   *)
(* Digest leave every register depending on every byte of it.                 *)
THEOREM DigestIsOfMessage == Md5Spec => []DigestOfMessage
<1>1. Md5Inv => DigestOfMessage
  <2> SUFFICES ASSUME Md5Inv PROVE DigestOfMessage
    OBVIOUS
  <2> DEFINE m == msg_size
             n == Surplus(msg_size)
             size == Len(padded)
             N == 8 * m
  <2>1. ASSUME digestPc = "done"
        PROVE  /\ size % 64 = 0 /\ size - m \in 9 .. 72
               /\ LengthField = 8 * m
               /\ \A i \in 1 .. m : padded[i] = <<"message", i>>
               /\ padded[m + 1] = <<"pad", 128>>
               /\ \A i \in (m + 2 .. size - 8) \cup (size - 3 .. size) : padded[i] = <<"pad", 0>>
               /\ \A r \in Registers : sums[r] = 1 .. size
    <3>0. m \in 0 .. MaxLength
      BY DEF Md5Inv
    <3>1. /\ m \in Nat /\ PaddedWith(padded, m, n)
          /\ from = size /\ sums = [r \in Registers |-> 1 .. from]
      BY <2>1, <3>0, LengthOf DEF Md5Inv
    <3>2. size \in Nat /\ size % 64 = 0 /\ size - m \in 9 .. 72 /\ size = m + n + 9
      BY <3>1, PaddedSize, Zenon
    <3>3. n \in 0 .. 63
      BY <3>1, SurplusOf, Zenon
    <3>4. /\ \A i \in 1 .. m : padded[i] = <<"message", i>>
          /\ padded[m + 1] = <<"pad", 128>>
          /\ \A k \in 1 .. n : padded[m + 1 + k] = <<"pad", 0>>
          /\ \A k \in 1 .. 4 : padded[m + 1 + n + k] = <<"pad", LowByte(8 * m, k - 1)>>
          /\ \A k \in 1 .. 4 : padded[m + n + 5 + k] = <<"pad", 0>>
      BY <3>1, Zenon DEF PaddedWith
    <3>5. \A r \in Registers : sums[r] = 1 .. size
      BY <3>1
    <3> HIDE DEF n, size, m, N
    <3>6. ASSUME NEW i \in m + 2 .. size - 8 PROVE padded[i] = <<"pad", 0>>
      <4>1. i - (m + 1) \in 1 .. n /\ m + 1 + (i - (m + 1)) = i
        BY <3>1, <3>2, <3>3
      <4> QED
        BY <3>4, <4>1
    <3>7. ASSUME NEW i \in size - 3 .. size PROVE padded[i] = <<"pad", 0>>
      <4>1. i - (m + n + 5) \in 1 .. 4 /\ m + n + 5 + (i - (m + n + 5)) = i
        BY <3>1, <3>2, <3>3
      <4> QED
        BY <3>4, <4>1
    <3>8. /\ padded[size - 7][2] = LowByte(N, 0) /\ padded[size - 6][2] = LowByte(N, 1)
          /\ padded[size - 5][2] = LowByte(N, 2) /\ padded[size - 4][2] = LowByte(N, 3)
      <4>1. /\ size - 7 = m + 1 + n + 1 /\ size - 6 = m + 1 + n + 2
            /\ size - 5 = m + 1 + n + 3 /\ size - 4 = m + 1 + n + 4
        BY <3>1, <3>2, <3>3
      <4>2. \A k \in 1 .. 4 : padded[m + 1 + n + k][2] = LowByte(N, k - 1)
        BY <3>4 DEF N
      <4>3. 1 \in 1 .. 4 /\ 2 \in 1 .. 4 /\ 3 \in 1 .. 4 /\ 4 \in 1 .. 4
            /\ 1 - 1 = 0 /\ 2 - 1 = 1 /\ 3 - 1 = 2 /\ 4 - 1 = 3
        OBVIOUS
      <4>4. /\ padded[m + 1 + n + 1][2] = LowByte(N, 1 - 1) /\ padded[m + 1 + n + 2][2] = LowByte(N, 2 - 1)
            /\ padded[m + 1 + n + 3][2] = LowByte(N, 3 - 1) /\ padded[m + 1 + n + 4][2] = LowByte(N, 4 - 1)
        BY <4>2, <4>3, Zenon
      <4> QED
        BY <4>1, <4>3, <4>4, Zenon
    <3>9. N \in Nat /\ N < 4294967296
      BY <3>0, LengthOf, SMT DEF N
    <3>10. LowByte(N, 0) + 256 * LowByte(N, 1) + 65536 * LowByte(N, 2) + 16777216 * LowByte(N, 3) = N
      BY <3>9, LengthRead, SMT
    <3>11. LengthField = N
      <4>1. LengthField = padded[size - 7][2] + 256 * padded[size - 6][2]
                          + 65536 * padded[size - 5][2] + 16777216 * padded[size - 4][2]
        BY DEF LengthField, size
      <4> QED
        BY <3>8, <3>10, <4>1
    <3>12. N = 8 * m
      BY DEF N
    <3>13. ASSUME NEW i \in (m + 2 .. size - 8) \cup (size - 3 .. size) PROVE padded[i] = <<"pad", 0>>
      BY <3>6, <3>7, Zenon
    <3> QED
      BY <3>2, <3>4, <3>5, <3>11, <3>12, <3>13, Zenon
  <2>2. ASSUME digestPc = "mix", op % 16 = 0, NEW w \in 0 .. 15
        PROVE  16 * mixed[w] = op
    <3>1. op \in 0 .. 64 /\ mixed[w] = TimesIn(op, w)
      BY <2>2 DEF Md5Inv, MixInv
    <3>2. op \div 16 \in 0 .. 4 /\ op = 16 * (op \div 16)
      BY <2>2, <3>1
    <3>3. Slot(op \div 16, w) \in 0 .. 15
      BY <3>2, SlotBound
    <3>4. TimesIn(op, w) = op \div 16
      BY <2>2, <3>2, <3>3 DEF TimesIn
    <3> QED
      BY <3>1, <3>2, <3>4
  <2> QED
    BY <2>1, <2>2, Zenon DEF DigestOfMessage
<1> QED
  BY <1>1, Md5InvInit, Md5Step, PTL DEF Md5Spec

-----------------------------------------------------------------------------
(* TinyDb.                                                                   *)

(* The least member of a set of numbers. *)
LEMMA MinOf ==
    ASSUME NEW I \in SUBSET Nat, I # {}
    PROVE  Min(I) \in I /\ \A y \in I : Min(I) <= y
<1> DEFINE R == OpToRel(<, Nat)
<1>1. IsWellFoundedOn(R, Nat)
  BY NatLessThanWellFounded
<1>2. PICK x \in I : \A y \in I : ~ (<<y, x>> \in R)
  BY <1>1, WFMin
<1>3. \A y \in I : x <= y
  <2> TAKE y \in I
  <2>1. x \in Nat /\ y \in Nat
    OBVIOUS
  <2>2. ~(y < x)
    BY <1>2, <2>1 DEF OpToRel
  <2> QED
    BY <2>1, <2>2
<1> QED
  BY <1>3 DEF Min

(* Where SelectInSeq finds the first word that is x. *)
FirstAt(s, x, f) ==
    \/ f = 0 /\ \A i \in 1 .. Len(s) : s[i] # x
    \/ f \in 1 .. Len(s) /\ s[f] = x /\ \A i \in 1 .. Len(s) : s[i] = x => f <= i

LeastAt(s, x) ==
    LET I == {i \in 1 .. Len(s) : s[i] = x}
    IN  IF I # {} THEN Min(I) ELSE 0

LEMMA SelectOf ==
    ASSUME NEW S, NEW s \in Seq(S), NEW x
    PROVE  FirstAt(s, x, LeastAt(s, x))
<1> DEFINE I == {i \in 1 .. Len(s) : s[i] = x}
<1>1. I \in SUBSET Nat
  OBVIOUS
<1>2. I # {} => Min(I) \in I /\ \A y \in I : Min(I) <= y
  BY <1>1, MinOf, Zenon
<1> QED
  BY <1>2 DEF FirstAt, LeastAt

SelectTaken == NamesAsWritten /\ WordBehindStar

LEMMA SelectTakenNext ==
    ASSUME NEW tokens \in Seq(STRING), ParseSelect(tokens)
    PROVE  SelectTaken'
<1> DEFINE n == Len(tokens)
<1>0. n \in Nat /\ tokens # <<>> /\ tokens[1] = "select"
  BY DEF ParseSelect, Parse, Starter
<1>1. CASE n < 4
  <2>1. statement'.error = "expecting 4 parts"
    BY <1>1 DEF ParseSelect, Constructed, NewStatement
  <2> QED
    BY <2>1 DEF SelectTaken, NamesAsWritten, WordBehindStar
<1>2. CASE n >= 4
  <2> DEFINE end == ListEnd(tokens)
             f == LeastAt(tokens, "from")
  <2>1. ~(n < 4)
    BY <1>0, <1>2
  <2>2. /\ running' = (end + 1 <= n)
        /\ statement' = [NewStatement(tokens) EXCEPT
                !.type = "Select", !.wildcard = (tokens[2] = "*"), !.values = List(tokens),
                !.table = IF end + 1 <= n THEN <<tokens[end + 1]>> ELSE NoTable]
    BY <2>1 DEF ParseSelect, Constructed
  <2>3. /\ statement'.tokens = tokens /\ statement'.wildcard = (tokens[2] = "*")
        /\ statement'.values = List(tokens)
        /\ statement'.table = IF end + 1 <= n THEN <<tokens[end + 1]>> ELSE NoTable
    BY <2>2 DEF NewStatement
  <2>4. FirstAt(tokens, "from", f)
    BY SelectOf, Zenon
  <2>5. ASSUME tokens[2] # "*"
        PROVE  end = (IF f = 0 THEN n + 1 ELSE f) /\ List(tokens) = SubSeq(tokens, 2, end - 1)
    <3>1. SelectInSeq(tokens, LAMBDA arg : arg = "from") = f
      BY Zenon DEF SelectInSeq, LeastAt
    <3> QED
      BY <2>5, <3>1 DEF ListEnd, List
  <2> HIDE DEF n, end, f
  <2>6. ASSUME tokens[2] # "*"
        PROVE  /\ running' <=> \E i \in 2 .. n - 1 : tokens[i] = "from"
               /\ running' => end \in 2 .. n - 1 /\ tokens[end] = "from"
    <3>1. CASE f = 0
      <4>1. \A i \in 1 .. n : tokens[i] # "from"
        BY <2>4, <3>1 DEF FirstAt, n
      <4>2. ~running'
        <5>1. end = n + 1
          BY <2>5, <2>6, <3>1
        <5>2. ~(end + 1 <= n)
          BY <1>0, <5>1
        <5> QED
          BY <2>2, <5>2, Zenon
      <4> QED
        BY <1>0, <4>1, <4>2
    <3>2. CASE f # 0
      <4>1. f \in 1 .. n /\ tokens[f] = "from" /\ \A i \in 1 .. n : tokens[i] = "from" => f <= i
        BY <2>4, <3>2 DEF FirstAt, n
      <4>2. f # 1
        BY <1>0, <4>1
      <4>3. end = f
        BY <2>5, <2>6, <3>2
      <4>4. running' <=> f \in 2 .. n - 1
        <5>1. running' <=> f + 1 <= n
          BY <2>2, <4>3, Zenon
        <5>2. f + 1 <= n <=> f \in 2 .. n - 1
          BY <1>0, <4>1, <4>2
        <5> QED
          BY <5>1, <5>2, Zenon
      <4>5. ASSUME NEW i \in 2 .. n - 1, tokens[i] = "from" PROVE f \in 2 .. n - 1
        <5>1. i \in 1 .. n
          BY <1>0
        <5>2. f <= i
          BY <4>1, <4>5, <5>1
        <5> QED
          BY <1>0, <4>1, <4>2, <5>2
      <4> QED
        BY <4>1, <4>3, <4>4, <4>5
    <3> QED
      BY <3>1, <3>2
  <2>7. ASSUME ~statement'.wildcard
        PROVE  /\ running' <=> \E i \in 2 .. Len(tokens) - 1 : tokens[i] = "from"
               /\ running' => \E i \in 2 .. Len(tokens) - 1 :
                      /\ tokens[i] = "from"
                      /\ statement'.values = SubSeq(tokens, 2, i - 1)
                      /\ statement'.table = <<tokens[i + 1]>>
    <3>1. tokens[2] # "*"
      BY <2>3, <2>7
    <3>2. running' <=> \E i \in 2 .. n - 1 : tokens[i] = "from"
      BY <2>6, <3>1
    <3>3. ASSUME running' PROVE end \in 2 .. n - 1 /\ tokens[end] = "from"
            /\ statement'.values = SubSeq(tokens, 2, end - 1) /\ statement'.table = <<tokens[end + 1]>>
      BY <2>2, <2>3, <2>5, <2>6, <3>1, <3>3
    <3> QED
      BY <3>2, <3>3 DEF n
  <2>8. ASSUME statement'.wildcard
        PROVE  running' /\ statement'.values = <<>> /\ statement'.table = <<tokens[3]>>
    <3>1. tokens[2] = "*"
      BY <2>3, <2>8
    <3>2. end = 2 /\ List(tokens) = <<>>
      BY <3>1 DEF end, ListEnd, List
    <3>3. end + 1 = 3 /\ end + 1 <= n
      BY <1>0, <1>2, <3>2
    <3> QED
      BY <2>2, <2>3, <3>2, <3>3, Zenon
  <2> QED
    BY <2>3, <2>7, <2>8 DEF SelectTaken, NamesAsWritten, WordBehindStar
<1> QED
  BY <1>0, <1>1, <1>2

LEMMA PlaceCount ==
    ASSUME NEW tokens \in Seq(STRING), Len(tokens) >= 5, Len(tokens) % 2 = 1
    PROVE  /\ Cardinality(Places(tokens)) = (Len(tokens) - 3) \div 2
           /\ (Len(tokens) - 3) \div 2 \in Nat
           /\ \A k \in 1 .. (Len(tokens) - 3) \div 2 : 2 * k + 2 \in Places(tokens)
<1> DEFINE n == Len(tokens)
           K == (n - 3) \div 2
           P == Places(tokens)
           g == [k \in 1 .. K |-> 2 * k + 2]
<1>1. n \in Nat /\ n >= 5 /\ n % 2 = 1 /\ DOMAIN tokens = 1 .. n
  BY ElementsOf
<1>2. P = {i \in 1 .. n : i > 3 /\ i % 2 = 0}
  BY <1>1 DEF Places
<1> HIDE DEF n, P
<1>3. K \in Nat /\ n = 2 * K + 3
  BY <1>1
<1> HIDE DEF K
<1>4. \A k \in 1 .. K : 2 * k + 2 \in P
  BY <1>2, <1>3
<1>5. \A i \in P : \E k \in 1 .. K : 2 * k + 2 = i
  <2> TAKE i \in P
  <2>1. i \in 1 .. n /\ i > 3 /\ i % 2 = 0
    BY <1>2
  <2>2. (i - 2) \div 2 \in 1 .. K /\ 2 * ((i - 2) \div 2) + 2 = i
    BY <2>1, <1>3
  <2> QED
    BY <2>2
<1>6. g \in Bijection(1 .. K, P)
  <2>1. g \in [1 .. K -> P] /\ DOMAIN g = 1 .. K
    BY <1>4
  <2>2. IsInjective(g)
    BY <1>3 DEF IsInjective
  <2>3. \A i \in P : \E k \in 1 .. K : g[k] = i
    BY <1>5
  <2> HIDE DEF g
  <2> QED
    BY <2>1, <2>2, <2>3 DEF Bijection, Injection, Surjection
<1>7. ExistsBijection(1 .. K, P)
  BY <1>6 DEF ExistsBijection
<1>8. Cardinality(P) = K
  BY <1>3, <1>7, FS_CountingElements
<1> QED
  BY <1>3, <1>4, <1>8 DEF n, K, P

(* Which words are columns' types. *)
LEMMA ColumnTypes ==
    ASSUME NEW c
    PROVE  /\ ParseColumnSize(c) = {} <=> c \notin {"int", "varchar(8)", "nope(8)"}
           /\ ParseColumnType(c) = {} <=> c \notin {"int", "varchar(8)", "varchar(0)"}
           /\ ParseColumnSize("int") = {4} /\ ParseColumnType("int") = {"Integer"}
           /\ ParseColumnSize("varchar(8)") = {8} /\ ParseColumnType("varchar(8)") = {"String"}
<1>1. ParseColumnSize("int") = {4} /\ ParseColumnType("int") = {"Integer"}
  BY DEF ParseColumnSize, ParseColumnType
<1>2. ParseColumnSize("varchar(8)") = {8} /\ ParseColumnType("varchar(8)") = {"String"}
  BY DEF ParseColumnSize, ParseColumnType, Parenthesised
<1>3. ParseColumnSize(c) = {} <=> c \notin {"int", "varchar(8)", "nope(8)"}
  BY DEF ParseColumnSize, Parenthesised
<1>4. ParseColumnType(c) = {} <=> c \notin {"int", "varchar(8)", "varchar(0)"}
  BY DEF ParseColumnType
<1> QED
  BY <1>1, <1>2, <1>3, <1>4, Zenon

(* The checks before the columns. *)
Checked(n, w, d) ==
    IF n < 2 THEN "expecting create table"
    ELSE IF w # "table" THEN "should begin with create table"
    ELSE IF n = 2 THEN "expecting table name"
    ELSE IF n = 3 THEN "at least one column"
    ELSE IF n % 2 = 0 THEN "bad column definition"
    ELSE IF d THEN "duplicate column names"
    ELSE ""

LEMMA CheckedRight ==
    ASSUME NEW n \in Nat, NEW w, NEW d
    PROVE  Checked(n, w, d) = "" <=> n >= 5 /\ n % 2 = 1 /\ w = "table" /\ ~d
  BY DEF Checked

LEMMA SubSeqTwo ==
    ASSUME NEW S, NEW s \in Seq(S), Len(s) >= 2, NEW x, NEW y
    PROVE  SubSeq(s, 1, 2) = <<x, y>> <=> s[1] = x /\ s[2] = y
<1> DEFINE u == SubSeq(s, 1, 2)
<1>1. u \in Seq(S) /\ Len(u) = 2 /\ u[1] = s[1] /\ u[2] = s[2]
  OBVIOUS
<1> HIDE DEF u
<1>2. u = <<u[1], u[2]>>
  BY <1>1
<1>3. u = <<x, y>> <=> s[1] = x /\ s[2] = y
  BY <1>1, <1>2
<1> QED
  BY <1>3 DEF u

LEMMA EarlyChecks ==
    ASSUME NEW tokens \in Seq(STRING), tokens # <<>>, tokens[1] = "create"
    PROVE  CreateError(tokens) = "" <=>
               /\ Len(tokens) >= 5 /\ Len(tokens) % 2 = 1 /\ SubSeq(tokens, 1, 2) = <<"create", "table">>
               /\ IsInjective([i \in Places(tokens) |-> tokens[i]])
<1> DEFINE P == Places(tokens)
           h == [i \in P |-> tokens[i]]
<1>1. Len(tokens) \in Nat
  OBVIOUS
<1>2. IsInjective(h) <=> ~Duplicate(tokens)
  BY DEF IsInjective, Duplicate
<1>3. CreateError(tokens) = Checked(Len(tokens), tokens[2], Duplicate(tokens))
  BY Zenon DEF CreateError, Checked
<1>4. Checked(Len(tokens), tokens[2], Duplicate(tokens)) = "" <=>
        Len(tokens) >= 5 /\ Len(tokens) % 2 = 1 /\ tokens[2] = "table" /\ ~Duplicate(tokens)
  BY <1>1, CheckedRight, Zenon
<1>5. Len(tokens) >= 5 => Len(tokens) >= 2
  BY <1>1
<1>6. Len(tokens) >= 5 => (SubSeq(tokens, 1, 2) = <<"create", "table">> <=> tokens[2] = "table")
  BY <1>5, SubSeqTwo, Zenon
<1> QED
  BY <1>2, <1>3, <1>4, <1>6, Zenon

(* A create is well-formed when no check finds anything. *)
LEMMA WellFormedMeans ==
    ASSUME NEW tokens \in Seq(STRING), tokens # <<>>, tokens[1] = "create"
    PROVE  WellFormedCreate(tokens) <=>
               CreateError(tokens) = "" /\ Unsized(tokens) = {} /\ Untyped(tokens) = {}
<1> DEFINE P == Places(tokens)
<1>1. \A c : /\ ParseColumnSize(c) = {} <=> c \notin {"int", "varchar(8)", "nope(8)"}
             /\ ParseColumnType(c) = {} <=> c \notin {"int", "varchar(8)", "varchar(0)"}
  BY ColumnTypes, Zenon
<1>2. Unsized(tokens) = {} <=> \A i \in P : tokens[i + 1] \in {"int", "varchar(8)", "nope(8)"}
  BY <1>1, Zenon DEF Unsized
<1>3. Unsized(tokens) = {} =>
        (Untyped(tokens) = {} <=> \A i \in P : tokens[i + 1] \in {"int", "varchar(8)", "varchar(0)"})
  BY <1>1, Zenon DEF Untyped
<1>4. (Unsized(tokens) = {} /\ Untyped(tokens) = {}) <=> \A i \in P : tokens[i + 1] \in {"int", "varchar(8)"}
  <2>1. ASSUME \A i \in P : tokens[i + 1] \in {"int", "varchar(8)"}
        PROVE  /\ \A i \in P : tokens[i + 1] \in {"int", "varchar(8)", "nope(8)"}
               /\ \A i \in P : tokens[i + 1] \in {"int", "varchar(8)", "varchar(0)"}
    BY <2>1, Zenon
  <2>2. ASSUME NEW i \in P, tokens[i + 1] \in {"int", "varchar(8)", "nope(8)"},
               tokens[i + 1] \in {"int", "varchar(8)", "varchar(0)"}
        PROVE  tokens[i + 1] \in {"int", "varchar(8)"}
    BY <2>2
  <2> QED
    BY <1>2, <1>3, <2>1, <2>2, Zenon
<1> QED
  BY <1>4, EarlyChecks, Zenon DEF WellFormedCreate

LEMMA ChooseOnly == ASSUME NEW x PROVE (CHOOSE y \in {x} : TRUE) = x
  OBVIOUS

(* And then its columns are taken as it declares them. *)
LEMMA ColumnsAsDeclared ==
    ASSUME NEW tokens \in Seq(STRING), WellFormedCreate(tokens)
    PROVE  [name_ |-> tokens[3], columns_ |-> Columns(tokens)] = Declaration(tokens)
<1> DEFINE K == (Len(tokens) - 3) \div 2
           P == Places(tokens)
<1>1. Cardinality(P) = K /\ (\A k \in 1 .. K : 2 * k + 2 \in P) /\ K \in Nat
  BY PlaceCount DEF WellFormedCreate
<1>2. \A i \in P : tokens[i + 1] \in {"int", "varchar(8)"}
  BY Zenon DEF WellFormedCreate
<1> DEFINE Taken(k) == [label_ |-> tokens[2 * k + 2],
                        size_  |-> CHOOSE n \in ParseColumnSize(tokens[2 * k + 3]) : TRUE,
                        type_  |-> CHOOSE t \in ParseColumnType(tokens[2 * k + 3]) : TRUE]
           Meant(k) == IF tokens[2 * k + 3] = "int"
                       THEN [label_ |-> tokens[2 * k + 2], size_ |-> 4, type_ |-> "Integer"]
                       ELSE [label_ |-> tokens[2 * k + 2], size_ |-> 8, type_ |-> "String"]
<1>3. ASSUME NEW k \in 1 .. K PROVE Taken(k) = Meant(k)
  <2> HIDE DEF K
  <2>1. (2 * k + 2) + 1 = 2 * k + 3
    BY <1>1
  <2>2. tokens[2 * k + 3] \in {"int", "varchar(8)"}
    <3>1. 2 * k + 2 \in P
      BY <1>1, Zenon
    <3>2. tokens[(2 * k + 2) + 1] \in {"int", "varchar(8)"}
      BY <1>2, <3>1, Zenon
    <3> QED
      BY <2>1, <3>2, Zenon
  <2> DEFINE c == tokens[2 * k + 3]
  <2>3. CASE c = "int"
    <3>1. ParseColumnSize(c) = {4} /\ ParseColumnType(c) = {"Integer"}
      BY <2>3, ColumnTypes, Zenon
    <3>2. (CHOOSE n \in ParseColumnSize(c) : TRUE) = 4 /\ (CHOOSE t \in ParseColumnType(c) : TRUE) = "Integer"
      BY <3>1, ChooseOnly, Zenon
    <3> QED
      BY <2>3, <3>2, Zenon
  <2>4. CASE c = "varchar(8)"
    <3>1. ParseColumnSize(c) = {8} /\ ParseColumnType(c) = {"String"}
      BY <2>4, ColumnTypes, Zenon
    <3>2. (CHOOSE n \in ParseColumnSize(c) : TRUE) = 8 /\ (CHOOSE t \in ParseColumnType(c) : TRUE) = "String"
      BY <3>1, ChooseOnly, Zenon
    <3>3. c # "int"
      BY <2>4
    <3> QED
      BY <3>3, <3>2, Zenon
  <2> QED
    BY <2>2, <2>3, <2>4, Zenon
<1>4. Columns(tokens) = [k \in 1 .. K |-> Taken(k)]
  BY Zenon DEF Columns
<1>5. Declaration(tokens) = [name_ |-> tokens[3], columns_ |-> [k \in 1 .. Cardinality(P) |-> Meant(k)]]
  BY Zenon DEF Declaration
<1> HIDE DEF K, P, Taken, Meant
<1>6. [k \in 1 .. K |-> Taken(k)] = [k \in 1 .. Cardinality(P) |-> Meant(k)]
  BY <1>1, <1>3
<1> QED
  BY <1>4, <1>5, <1>6, Zenon

CreateTaken(tokens) ==
    /\ statement'.tokens = tokens /\ statement'.type = "Create"
    /\ ~WellFormedCreate(tokens) => statement'.error # "" \/ ~running'
    /\ ~running' => Untyped(tokens) # {}
    /\ \/ declared' = declared /\ tables_' = tables_
       \/ declared' = Append(declared, Declaration(tokens)) /\ tables_' = Append(tables_, Declaration(tokens))

LEMMA CreateStep ==
    ASSUME NEW tokens \in Seq(STRING), ParseCreate(tokens)
    PROVE  CreateTaken(tokens)
<1> DEFINE E == CreateError(tokens)
           U == Unsized(tokens)
           T == Untyped(tokens)
           W == WellFormedCreate(tokens)
           unsized == E = "" /\ U # {} /\ \A j \in T : \E i \in U : i < j
           throws == E = "" /\ ~unsized /\ T # {}
           error == IF unsized THEN "invalid size" ELSE E
<1>1. tokens # <<>> /\ tokens[1] = "create"
  BY DEF ParseCreate, Parse, Starter
<1>2. W <=> E = "" /\ U = {} /\ T = {}
  BY <1>1, WellFormedMeans, Zenon
<1>3. /\ declared' = IF W THEN Append(declared, Declaration(tokens)) ELSE declared
      /\ statement' = [NewStatement(tokens) EXCEPT !.type = "Create", !.error = error]
      /\ running' = ~throws
      /\ IF error = "" /\ ~throws
         THEN tables_' = Append(tables_, [name_ |-> tokens[3], columns_ |-> Columns(tokens)])
         ELSE tables_' = tables_
  BY Zenon DEF ParseCreate, Constructed, AddTable
<1>4. statement'.tokens = tokens /\ statement'.type = "Create" /\ statement'.error = error
  <2> HIDE DEF error
  <2> QED
    BY <1>3 DEF NewStatement
<1>5. (error = "" /\ ~throws) <=> W
  <2>1. "invalid size" # ""
    OBVIOUS
  <2> HIDE DEF E, U, T, W
  <2> QED
    BY <1>2, <2>1, Zenon
<1>6. running' <=> ~throws
  BY <1>3, Zenon
<1>10. ~running' => Untyped(tokens) # {}
  BY <1>6, Zenon
<1> HIDE DEF E, U, T, W, unsized, throws, error
<1>7. ~W => statement'.error # "" \/ ~running'
  BY <1>4, <1>5, <1>6, Zenon
<1>8. CASE W
  <2>1. [name_ |-> tokens[3], columns_ |-> Columns(tokens)] = Declaration(tokens)
    BY <1>8, ColumnsAsDeclared, Zenon DEF W
  <2> QED
    BY <1>3, <1>4, <1>5, <1>7, <1>8, <1>10, <2>1, Zenon DEF CreateTaken, W
<1>9. CASE ~W
  BY <1>3, <1>4, <1>5, <1>7, <1>9, <1>10, Zenon DEF CreateTaken, W
<1> QED
  BY <1>8, <1>9

(* A name is found where it was first given. *)
LEMMA NameFound ==
    ASSUME NEW S, tables_ \in Seq(S), NEW k \in DOMAIN tables_,
           \A j \in 1 .. k - 1 : tables_[j].name_ # tables_[k].name_
    PROVE  FindTableByName(tables_[k].name_) = <<tables_[k]>>
<1> DEFINE name == tables_[k].name_
           I == {i \in 1 .. Len(tables_) : tables_[i].name_ = name}
<1>1. DOMAIN tables_ = 1 .. Len(tables_) /\ Len(tables_) \in Nat
  BY ElementsOf, Zenon
<1>2. k \in I /\ k \in Nat
  BY <1>1
<1>3. I \in SUBSET Nat
  BY <1>1
<1>4. \A i \in I : k <= i
  <2> TAKE i \in I
  <2>1. i \in 1 .. Len(tables_) /\ tables_[i].name_ = name
    OBVIOUS
  <2>2. i \notin 1 .. k - 1
    BY <2>1, Zenon
  <2> HIDE DEF I, name
  <2> QED
    BY <1>1, <1>2, <2>1, <2>2
<1>5. Min(I) \in I /\ \A y \in I : Min(I) <= y
  BY <1>2, <1>3, MinOf, Zenon
<1>6. SelectInSeq(tables_, LAMBDA table : table.name_ = name) = IF I # {} THEN Min(I) ELSE 0
  BY Zenon DEF SelectInSeq
<1> HIDE DEF I
<1>7. Min(I) = k
  <2>1. Min(I) <= k /\ k <= Min(I) /\ Min(I) \in Nat
    BY <1>2, <1>3, <1>4, <1>5
  <2> QED
    BY <1>2, <2>1
<1>8. SelectInSeq(tables_, LAMBDA table : table.name_ = name) = k
  BY <1>2, <1>6, <1>7, Zenon
<1>9. k # 0
  BY <1>1
<1> QED
  BY <1>8, <1>9 DEF FindTableByName

Declarations == {Declaration(tokens) : tokens \in Statements}

DbInv ==
    /\ declared \in Seq(Declarations) /\ tables_ = declared
    /\ CreatesReported
    /\ SelectTaken

LEMMA DbInvInit == DbInit => DbInv
<1> SUFFICES ASSUME DbInit PROVE DbInv
  OBVIOUS
<1>1. statement.type = "Undefined"
  BY DEF DbInit, NewStatement
<1>2. declared = <<>> /\ tables_ = declared
  BY DEF DbInit
<1>3. declared \in Seq(Declarations)
  BY <1>2
<1> QED
  BY <1>1, <1>2, <1>3 DEF DbInv, CreatesReported, SelectTaken, NamesAsWritten, WordBehindStar

LEMMA DbStep == DbInv /\ [DbNext]_dbVars => DbInv'
<1> SUFFICES ASSUME DbInv, [DbNext]_dbVars PROVE DbInv'
  OBVIOUS
<1>1. CASE UNCHANGED dbVars
  BY <1>1 DEF DbInv, CreatesReported, SelectTaken, NamesAsWritten, WordBehindStar,
     dbVars
<1>2. CASE DbNext
  <2>1. PICK tokens \in Statements :
          ParseInvalid(tokens) \/ ParseInsert(tokens) \/ ParseSelect(tokens) \/ ParseCreate(tokens)
    BY <1>2, Zenon DEF DbNext
  <2>2. tokens \in Seq(STRING) /\ Declaration(tokens) \in Declarations
    BY StatementsAssumption, Zenon DEF Declarations
  <2>3. CASE ParseInvalid(tokens)
    <3>1. statement'.type = "Invalid"
      BY <2>3 DEF ParseInvalid, Constructed, NewStatement
    <3>2. UNCHANGED <<tables_, declared>>
      BY <2>3 DEF ParseInvalid
    <3> QED
      BY <3>1, <3>2 DEF DbInv, CreatesReported, SelectTaken, NamesAsWritten, WordBehindStar
  <2>4. CASE ParseInsert(tokens)
    <3>1. statement'.type = "Insert"
      BY <2>4 DEF ParseInsert, Constructed, NewStatement
    <3>2. UNCHANGED <<tables_, declared>>
      BY <2>4 DEF ParseInsert
    <3> QED
      BY <3>1, <3>2 DEF DbInv, CreatesReported, SelectTaken, NamesAsWritten, WordBehindStar
  <2>5. CASE ParseSelect(tokens)
    <3>1. statement'.type = "Select"
      BY <2>5 DEF ParseSelect, Constructed, NewStatement
    <3>2. UNCHANGED <<tables_, declared>>
      BY <2>5 DEF ParseSelect
    <3>3. SelectTaken'
      BY <2>2, <2>5, SelectTakenNext
    <3> QED
      BY <3>1, <3>2, <3>3 DEF DbInv, CreatesReported
  <2>6. CASE ParseCreate(tokens)
    <3>1. CreateTaken(tokens)
      BY <2>2, <2>6, CreateStep, Zenon
    <3>2. /\ statement'.tokens = tokens /\ statement'.type = "Create"
          /\ ~WellFormedCreate(tokens) => statement'.error # "" \/ ~running'
          /\ ~running' => Untyped(tokens) # {}
      BY <3>1, Zenon DEF CreateTaken
    <3>3. tables_' = declared'
      BY <3>1, Zenon DEF CreateTaken, DbInv
    <3>4. declared' \in Seq(Declarations)
      <4>1. declared \in Seq(Declarations) /\ Append(declared, Declaration(tokens)) \in Seq(Declarations)
        BY <2>2, AppendOf, Zenon DEF DbInv
      <4> QED
        BY <3>1, <4>1, Zenon DEF CreateTaken
    <3>5. statement'.type # "Select"
      BY <3>2
    <3>6. SelectTaken'
      BY <3>5, Zenon DEF SelectTaken, NamesAsWritten, WordBehindStar
    <3>7. CreatesReported'
      BY <3>2, Zenon DEF CreatesReported
    <3> QED
      BY <3>3, <3>4, <3>6, <3>7, Zenon DEF DbInv
  <2> QED
    BY <2>1, <2>3, <2>4, <2>5, <2>6
<1> QED
  BY <1>1, <1>2

(* CreatesAndSelects for every sequence of statements: the schema has the     *)
(* tables of exactly the well-formed creates, in order; a name means the      *)
(* table it was first given to; an ill-formed create reports an error or,     *)
(* with a size and no type in some column, ends the program; a select that    *)
(* names columns gets them and its table; and one with a wildcard gets the    *)
(* word behind the star instead of its table.                                 *)
THEOREM CreatesAndSelectsTaken == DbSpec => []CreatesAndSelects
<1>1. DbInv => CreatesAndSelects
  <2> SUFFICES ASSUME DbInv PROVE SchemaAsDeclared /\ CreatesReported /\ SelectTaken
    BY DEF CreatesAndSelects, SelectTaken
  <2>1. tables_ = declared /\ tables_ \in Seq(Declarations)
    BY DEF DbInv
  <2>2. ASSUME NEW k \in DOMAIN declared, \A j \in 1 .. k - 1 : declared[j].name_ # declared[k].name_
        PROVE  FindTableByName(declared[k].name_) = <<declared[k]>>
    BY <2>1, <2>2, NameFound, Zenon
  <2> QED
    BY <2>1, <2>2, Zenon DEF DbInv, SchemaAsDeclared
<1> QED
  BY <1>1, DbInvInit, DbStep, PTL DEF DbSpec

-----------------------------------------------------------------------------
(* CommandLines.                                                             *)

(* n is where option letter was last served. *)
LastServed(options, letter, n) ==
    /\ n \in DOMAIN options /\ options[n][1] = letter
    /\ \A j \in DOMAIN options : options[j][1] = letter => j <= n

NotServed(options, letter) == \A j \in DOMAIN options : options[j][1] # letter

(* p has the same options of this letter as options has. *)
Kept(p, options, letter) ==
    /\ NotServed(options, letter) => NotServed(p, letter)
    /\ \A n : LastServed(options, letter, n) => LastServed(p, letter, n) /\ p[n] = options[n]

(* The options served, and one more. *)
LEMMA ServedOneMore ==
    ASSUME NEW S, NEW options \in Seq(S), NEW o \in S, NEW letter
    PROVE  /\ o[1] = letter => LastServed(Append(options, o), letter, Len(options) + 1)
           /\ o[1] # letter => Kept(Append(options, o), options, letter)
<1> DEFINE p == Append(options, o)
           m == Len(options)
<1>1. m \in Nat /\ DOMAIN options = 1 .. m
  BY ElementsOf, Zenon
<1>2. DOMAIN p = 1 .. m + 1 /\ (\A k \in 1 .. m : p[k] = options[k]) /\ p[m + 1] = o
  <2>1. p \in Seq(S) /\ Len(p) = m + 1 /\ (\A k \in 1 .. m : p[k] = options[k]) /\ p[m + 1] = o
    BY AppendOf
  <2> HIDE DEF p, m
  <2>2. DOMAIN p = 1 .. Len(p)
    BY <2>1, ElementsOf, Zenon
  <2> QED
    BY <2>1, <2>2, Zenon
<1> HIDE DEF p, m
<1>3. \A j \in 1 .. m + 1 : j = m + 1 \/ j \in 1 .. m
  BY <1>1
<1>4. m + 1 \in 1 .. m + 1 /\ \A j \in 1 .. m + 1 : j <= m + 1
  BY <1>1
<1>5. \A j \in 1 .. m : j \in 1 .. m + 1
  BY <1>1
<1>6. o[1] = letter => LastServed(p, letter, m + 1)
  BY <1>2, <1>4, Zenon DEF LastServed
<1>7. o[1] # letter /\ NotServed(options, letter) => NotServed(p, letter)
  BY <1>1, <1>2, <1>3, Zenon DEF NotServed
<1>8. ASSUME o[1] # letter, NEW n, LastServed(options, letter, n)
      PROVE  LastServed(p, letter, n) /\ p[n] = options[n]
  BY <1>1, <1>2, <1>3, <1>5, <1>8, Zenon DEF LastServed
<1>9. o[1] # letter => Kept(p, options, letter)
  BY <1>7, <1>8, Zenon DEF Kept
<1> QED
  BY <1>6, <1>9, Zenon DEF p, m

Args == Letters \cup Dates \cup Words

CliInv ==
    /\ rest \in Seq(Args) /\ taken \in Seq(Seq(Args)) /\ server_mode_ \in BOOLEAN
    /\ ~server_mode_ => NotServed(taken, "s")
    /\ dump_filepath_ = <<>> => NotServed(taken, "x")
    /\ maybe_timestamp_ # {} => \E n : LastServed(taken, "t", n) /\ taken[n][2] \in Dates
    /\ outcome = "sent" =>
        operands # <<>> /\ ~server_mode_ /\ dump_filepath_ = <<>> /\ maybe_timestamp_ # {}

LEMMA CliInvInit == CliInit => CliInv
<1> SUFFICES ASSUME CliInit PROVE CliInv
  OBVIOUS
<1>1. rest \in Seq(Args)
  BY CliAssumption DEF CliInit, Args
<1>2. taken \in Seq(Seq(Args)) /\ DOMAIN taken = {}
  BY DEF CliInit
<1>3. server_mode_ = FALSE /\ maybe_timestamp_ = {} /\ outcome = "none"
  BY DEF CliInit
<1> QED
  BY <1>1, <1>2, <1>3 DEF CliInv, NotServed

(* What getopt leaves, and what it took. *)
Took(o, r, span) ==
    /\ o \in Seq(Args) /\ rest' \in Seq(Args)
    /\ o[1] = r[1] /\ (span = 2 => o[2] = r[2])
    /\ taken' = Append(taken, o)

LEMMA OptionTaken ==
    ASSUME CliInv, NEW letter, NEW span \in {1, 2}, Option(letter, span)
    PROVE  /\ Took(SubSeq(rest, 1, span), rest, span) /\ rest[1] = letter
           /\ outcome = "none"
<1>1. rest \in Seq(Args) /\ rest # <<>> /\ Len(rest) >= span /\ Head(rest) = letter
  BY DEF CliInv, Option, Parsing
<1>2. rest' = SubSeq(rest, span + 1, Len(rest)) /\ taken' = Append(taken, SubSeq(rest, 1, span))
  BY DEF Option
<1> DEFINE o == SubSeq(rest, 1, span)
<1>3. o \in Seq(Args) /\ o[1] = rest[1] /\ (span = 2 => o[2] = rest[2])
  BY <1>1
<1>4. rest' \in Seq(Args)
  BY <1>1, <1>2
<1>5. rest[1] = letter
  BY <1>1
<1>6. outcome = "none"
  BY DEF Option, Parsing
<1> HIDE DEF o
<1>7. taken' = Append(taken, o)
  BY <1>2 DEF o
<1> QED
  BY <1>3, <1>4, <1>5, <1>6, <1>7, Zenon DEF Took, o

LEMMA CliStep == CliInv /\ [CliNext]_cliVars => CliInv'
<1> SUFFICES ASSUME CliInv, [CliNext]_cliVars PROVE CliInv'
  OBVIOUS
<1>0. rest \in Seq(Args) /\ taken \in Seq(Seq(Args)) /\ server_mode_ \in BOOLEAN
  BY DEF CliInv
<1>1. CASE UNCHANGED cliVars
  BY <1>1 DEF CliInv, cliVars, sessionVars
<1>2. CASE NoArguments
  BY <1>2 DEF NoArguments, CliInv, sessionVars
<1>3. CASE Operand
  <2>1. rest' \in Seq(Args) /\ UNCHANGED <<taken, outcome>> /\ UNCHANGED sessionVars /\ outcome = "none"
    BY <1>0, <1>3 DEF Operand, Parsing
  <2> QED
    BY <2>1 DEF CliInv, sessionVars
<1>4. CASE OptionT
  <2> DEFINE o == SubSeq(rest, 1, 2)
             m == Len(taken)
  <2>1. Option("t", 2) /\ UNCHANGED <<server_mode_, dump_filepath_, outcome>>
        /\ maybe_timestamp_' = ProcessTimestamp(rest[2])
    BY <1>4 DEF OptionT
  <2>2. Took(o, rest, 2) /\ rest[1] = "t" /\ outcome = "none"
    BY <2>1, OptionTaken
  <2> HIDE DEF o
  <2>3. o \in Seq(Args) /\ o[1] = "t" /\ o[2] = rest[2] /\ taken' = Append(taken, o) /\ rest' \in Seq(Args)
    BY <2>2 DEF Took
  <2>4. LastServed(taken', "t", m + 1) /\ taken'[m + 1] = o
    BY <1>0, <2>3, ServedOneMore, AppendOf, ZenonT(40)
  <2>5. "t" # "s" /\ "t" # "x"
    OBVIOUS
  <2>6. (NotServed(taken, "s") => NotServed(taken', "s")) /\ (NotServed(taken, "x") => NotServed(taken', "x"))
    BY <1>0, <2>3, <2>5, ServedOneMore, Zenon DEF Kept
  <2>7. taken' \in Seq(Seq(Args))
    BY <1>0, <2>3, AppendOf, Zenon
  <2>8. maybe_timestamp_' # {} => rest[2] \in Dates
    BY <2>1 DEF ProcessTimestamp
  <2> HIDE DEF m
  <2>9. maybe_timestamp_' # {} => \E n : LastServed(taken', "t", n) /\ taken'[n][2] \in Dates
    BY <2>3, <2>4, <2>8
  <2> QED
    BY <2>1, <2>2, <2>3, <2>6, <2>7, <2>9 DEF CliInv
<1>5. ASSUME NEW letter \in {"x", "s", "f", "p", "h"}, NEW span \in {1, 2}, Option(letter, span),
             maybe_timestamp_' = maybe_timestamp_, outcome' # "sent", server_mode_' \in BOOLEAN,
             letter = "s" => server_mode_', letter # "s" => server_mode_' = server_mode_,
             letter = "x" => dump_filepath_' # <<>>, letter # "x" => dump_filepath_' = dump_filepath_
      PROVE  CliInv'
  <2> DEFINE o == SubSeq(rest, 1, span)
  <2>2. Took(o, rest, span) /\ rest[1] = letter /\ outcome = "none"
    BY <1>5, OptionTaken
  <2> HIDE DEF o
  <2>3. o \in Seq(Args) /\ o[1] = letter /\ taken' = Append(taken, o) /\ rest' \in Seq(Args)
    BY <2>2 DEF Took
  <2>4. taken' \in Seq(Seq(Args))
    BY <1>0, <2>3, AppendOf, Zenon
  <2>5. letter # "t"
    BY <1>5
  <2>6. \A n : LastServed(taken, "t", n) => LastServed(taken', "t", n) /\ taken'[n] = taken[n]
    <3>1. o[1] # "t" /\ taken' = Append(taken, o)
      BY <2>3, <2>5, Zenon
    <3>2. Kept(taken', taken, "t")
      BY <1>0, <2>3, <3>1, ServedOneMore, Zenon
    <3> QED
      BY <3>2, Zenon DEF Kept
  <2>7. letter # "s" => (NotServed(taken, "s") => NotServed(taken', "s"))
    BY <1>0, <2>3, ServedOneMore, Zenon DEF Kept
  <2>8. letter # "x" => (NotServed(taken, "x") => NotServed(taken', "x"))
    BY <1>0, <2>3, ServedOneMore, Zenon DEF Kept
  <2>9. maybe_timestamp_' # {} => \E n : LastServed(taken', "t", n) /\ taken'[n][2] \in Dates
    BY <1>5, <2>6, Zenon DEF CliInv
  <2>10. ~server_mode_' => NotServed(taken', "s")
    <3>1. CASE letter = "s"
      BY <1>5, <3>1, Zenon
    <3>2. CASE letter # "s"
      <4>1. ~server_mode_' => ~server_mode_
        BY <1>5, <3>2, Zenon
      <4> QED
        BY <2>7, <3>2, <4>1, Zenon DEF CliInv
    <3> QED
      BY <3>1, <3>2, Zenon
  <2>11. dump_filepath_' = <<>> => NotServed(taken', "x")
    BY <1>5, <2>8, Zenon DEF CliInv
  <2> QED
    BY <1>5, <2>3, <2>4, <2>9, <2>10, <2>11, Zenon DEF CliInv
<1>6. CASE OptionX
  <2>1. /\ Option("x", 2) /\ dump_filepath_' = <<rest[2]>> /\ outcome = "none"
        /\ UNCHANGED <<server_mode_, maybe_timestamp_, outcome>>
    BY <1>6 DEF OptionX, Option, Parsing
  <2>2. dump_filepath_' # <<>>
    BY <2>1
  <2> QED
    BY <1>0, <1>5, <2>1, <2>2
<1>7. CASE OptionS
  <2>1. /\ Option("s", 1) /\ server_mode_' = TRUE /\ outcome = "none"
        /\ UNCHANGED <<maybe_timestamp_, dump_filepath_, outcome>>
    BY <1>7 DEF OptionS, Option, Parsing
  <2> QED
    BY <1>5, <2>1
<1>8. CASE OptionF
  <2>1. Option("f", 1) /\ outcome = "none" /\ outcome' = outcome /\ UNCHANGED <<server_mode_, maybe_timestamp_, dump_filepath_>>
    BY <1>8 DEF OptionF, Option, Parsing, sessionVars
  <2> QED
    BY <1>0, <1>5, <2>1
<1>9. CASE OptionP
  <2>1. Option("p", 1) /\ outcome' = "threw" /\ UNCHANGED <<server_mode_, maybe_timestamp_, dump_filepath_>>
    BY <1>9 DEF OptionP, sessionVars
  <2> QED
    BY <1>0, <1>5, <2>1
<1>10. CASE OptionH
  <2>1. Option("h", 1) /\ outcome' = "usage" /\ UNCHANGED <<server_mode_, maybe_timestamp_, dump_filepath_>>
    BY <1>10 DEF OptionH, sessionVars
  <2> QED
    BY <1>0, <1>5, <2>1
<1>11. CASE BadOption \/ StartServer \/ DumpEvents \/ Refuse
  BY <1>11 DEF BadOption, StartServer, DumpEvents, Refuse, CliInv, sessionVars
<1>12. CASE SendEvent
  BY <1>12 DEF SendEvent, Client, CliInv, sessionVars
<1> QED
  BY <1>1, <1>2, <1>3, <1>4, <1>6, <1>7, <1>8, <1>9, <1>10, <1>11, <1>12 DEF CliNext

(* The greatest place is the last one. *)
LEMMA LastIsMax ==
    ASSUME NEW S, NEW options \in Seq(S), NEW letter, NEW n, LastServed(options, letter, n)
    PROVE  Max({k \in DOMAIN options : options[k][1] = letter}) = n
<1> DEFINE I == {k \in DOMAIN options : options[k][1] = letter}
<1>1. n \in I /\ \A j \in I : j <= n
  BY DEF LastServed
<1>2. I \subseteq Nat
  OBVIOUS
<1> HIDE DEF I
<1>3. \A j \in I : n >= j
  BY <1>1, <1>2
<1>4. Max(I) \in I /\ \A j \in I : Max(I) >= j
  BY <1>1, <1>3 DEF Max
<1>5. Max(I) = n
  <2>1. Max(I) \in Nat /\ n \in Nat /\ Max(I) >= n /\ n >= Max(I)
    BY <1>1, <1>2, <1>3, <1>4, Zenon
  <2> QED
    BY <2>1
<1> QED
  BY <1>5 DEF I

(* psycal's main sends an event only for a command line with operands, without *)
(* -s or -x among the options served, and whose last -t was a date.            *)
THEOREM EventsSentAsAsked == CliSpec => []SentAsAsked
<1>1. CliInv => SentAsAsked
  <2> SUFFICES ASSUME CliInv, outcome = "sent"
               PROVE  /\ operands # <<>> /\ Given("s") = {} /\ Given("x") = {}
                      /\ Given("t") # {} /\ taken[Max(Given("t"))][2] \in Dates
    BY Zenon DEF SentAsAsked
  <2>1. operands # <<>> /\ NotServed(taken, "s") /\ NotServed(taken, "x") /\ taken \in Seq(Seq(Args))
    BY Zenon DEF CliInv
  <2>2. PICK n : LastServed(taken, "t", n) /\ taken[n][2] \in Dates
    BY Zenon DEF CliInv
  <2>3. Max(Given("t")) = n
    BY <2>1, <2>2, LastIsMax, Zenon DEF Given
  <2>4. Given("s") = {} /\ Given("x") = {}
    BY <2>1, Zenon DEF Given, NotServed
  <2>5. n \in Given("t")
    BY <2>2, Zenon DEF Given, LastServed
  <2> QED
    BY <2>1, <2>2, <2>3, <2>4, <2>5, Zenon
<1> QED
  BY <1>1, CliInvInit, CliStep, PTL DEF CliSpec

(* v is the number that the last of this option gives, modulo M, or 0. *)
Holds(options, letter, v, M) ==
    \/ NotServed(options, letter) /\ v = 0
    \/ \E n : LastServed(options, letter, n) /\ \E m \in Strtol(options[n][2]) : v = m % M

LEMMA HoldsKept ==
    ASSUME NEW S, NEW options \in Seq(S), NEW o \in S, NEW letter, NEW v, NEW M,
           Holds(options, letter, v, M), o[1] # letter
    PROVE  Holds(Append(options, o), letter, v, M)
<1> DEFINE p == Append(options, o)
<1>1. Kept(p, options, letter)
  BY ServedOneMore, Zenon
<1> HIDE DEF p
<1>2. Holds(p, letter, v, M)
  <2>1. CASE NotServed(options, letter) /\ v = 0
    BY <1>1, <2>1, Zenon DEF Holds, Kept
  <2>2. ASSUME NEW n, LastServed(options, letter, n), NEW m \in Strtol(options[n][2]), v = m % M
        PROVE  Holds(p, letter, v, M)
    <3>1. LastServed(p, letter, n) /\ p[n] = options[n]
      BY <1>1, <2>2, Zenon DEF Kept
    <3> QED
      BY <2>2, <3>1, Zenon DEF Holds
  <2> QED
    BY <2>1, <2>2, Zenon DEF Holds
<1> QED
  BY <1>2, Zenon DEF p

LEMMA HoldsNew ==
    ASSUME NEW S, NEW options \in Seq(S), NEW o \in S, NEW letter, NEW m \in Strtol(o[2]), NEW M,
           o[1] = letter
    PROVE  Holds(Append(options, o), letter, m % M, M)
<1> DEFINE p == Append(options, o)
           n == Len(options) + 1
<1>1. LastServed(p, letter, n)
  BY ServedOneMore, Zenon
<1>2. p[n] = o
  BY AppendOf, Zenon
<1> HIDE DEF p, n
<1>3. m \in Strtol(p[n][2])
  BY <1>2, Zenon
<1>4. Holds(p, letter, m % M, M)
  BY <1>1, <1>3, Zenon DEF Holds
<1> QED
  BY <1>4, Zenon DEF p

(* The shape is the last one given. *)
Shaped(options, v) ==
    \/ NotServed(options, "t") /\ v = "UNKNOWN"
    \/ \E n : LastServed(options, "t", n) /\ v = Shape(options[n][2])

LEMMA ShapedKept ==
    ASSUME NEW S, NEW options \in Seq(S), NEW o \in S, NEW v, Shaped(options, v), o[1] # "t"
    PROVE  Shaped(Append(options, o), v)
<1> DEFINE p == Append(options, o)
<1>1. Kept(p, options, "t")
  BY ServedOneMore, Zenon
<1> HIDE DEF p
<1>2. Shaped(p, v)
  <2>1. CASE NotServed(options, "t") /\ v = "UNKNOWN"
    BY <1>1, <2>1, Zenon DEF Shaped, Kept
  <2>2. ASSUME NEW n, LastServed(options, "t", n), v = Shape(options[n][2])
        PROVE  Shaped(p, v)
    <3>1. LastServed(p, "t", n) /\ p[n] = options[n]
      BY <1>1, <2>2, Zenon DEF Kept
    <3> QED
      BY <2>2, <3>1, Zenon DEF Shaped
  <2> QED
    BY <2>1, <2>2, Zenon DEF Shaped
<1> QED
  BY <1>2, Zenon DEF p

LEMMA ShapedNew ==
    ASSUME NEW S, NEW options \in Seq(S), NEW o \in S, o[1] = "t"
    PROVE  Shaped(Append(options, o), Shape(o[2]))
<1> DEFINE p == Append(options, o)
           n == Len(options) + 1
<1>1. LastServed(p, "t", n)
  BY ServedOneMore, Zenon
<1>2. p[n] = o
  BY AppendOf, ZenonT(40)
<1> HIDE DEF p, n
<1>4. Shaped(p, Shape(o[2]))
  BY <1>1, <1>2, Zenon DEF Shaped
<1> QED
  BY <1>4, Zenon DEF p

Cells == {"UNKNOWN", "PIXEL", "LINE", "RECTANGLE"} \cup Int
Sessions ==
    [server_mode : BOOLEAN, client_mode : BOOLEAN, host : STRING \cup {""}, port : Int,
     cl : [Numbers \cup Colours \cup {Type} -> Cells]]

(* The modes, from the flags served. *)
Moded(options, server, client) ==
    /\ client => \E k \in DOMAIN options : options[k] = <<"c">>
    /\ ~server => \A k \in DOMAIN options : options[k] # <<"s">>

Filled ==
    /\ Moded(served, sess.server_mode, sess.client_mode)
    /\ Shaped(served, sess.cl[Type])
    /\ \A letter \in {"x", "y", "w", "k"} : Holds(served, letter, sess.cl[FieldOf(letter)], IntRange)
    /\ \A c \in Colours : Holds(served, c, sess.cl[c], 256)

DrawInv ==
    /\ command \in Seq(STRING) /\ optind \in Nat /\ served \in Seq(Seq(STRING))
    /\ sess \in Sessions
    /\ drawEnd # "died" => Filled
    /\ drawEnd = "sent" => sess.client_mode /\ ~sess.server_mode /\ sess.cl[Type] # "UNKNOWN"

LEMMA DrawInvInit == DrawInit => DrawInv
<1> SUFFICES ASSUME DrawInit PROVE DrawInv
  OBVIOUS
<1>1. command \in Seq(STRING) /\ optind = 0 /\ served = <<>> /\ sess = NewSession /\ drawEnd = "none"
  BY CommandsAssumption DEF DrawInit
<1>2. served \in Seq(Seq(STRING)) /\ DOMAIN served = {}
  BY <1>1
<1>3. sess \in Sessions
  <2> DEFINE F == Numbers \cup Colours \cup {Type}
             blank == [f \in F |-> IF f = Type THEN "UNKNOWN" ELSE 0]
  <2>1. "UNKNOWN" \in Cells /\ 0 \in Cells
    BY DEF Cells
  <2>2. blank \in [F -> Cells]
    BY <2>1
  <2>3. sess = [server_mode |-> FALSE, client_mode |-> FALSE, host |-> "", port |-> 0, cl |-> blank]
    BY <1>1, Zenon DEF NewSession
  <2>4. "" \in STRING \cup {""} /\ 0 \in Int
    OBVIOUS
  <2> HIDE DEF blank, F
  <2> QED
    BY <2>2, <2>3, <2>4 DEF Sessions, F
<1>4. /\ sess.server_mode = FALSE /\ sess.client_mode = FALSE /\ sess.cl[Type] = "UNKNOWN"
      /\ \A f \in Numbers \cup Colours : sess.cl[f] = 0
  BY <1>1 DEF NewSession, Numbers, Colours, Type
<1>5. \A letter : NotServed(served, letter)
  BY <1>2 DEF NotServed
<1>6. \A letter \in {"x", "y", "w", "k"} : FieldOf(letter) \in Numbers
  BY DEF FieldOf, Numbers
<1>7. Filled
  BY <1>2, <1>4, <1>5, <1>6 DEF Filled, Moded, Shaped, Holds
<1> QED
  BY <1>1, <1>2, <1>3, <1>7 DEF DrawInv

(* What getopt took. *)
Serving(o, span) ==
    /\ o \in Seq(STRING) /\ o[1] = Opt
    /\ span = 1 => o = <<Opt>>
    /\ span = 2 => o[2] = OptArg
    /\ served' = Append(served, o)

LEMMA ServeTaken ==
    ASSUME DrawInv, NEW letters, NEW span \in {1, 2}, Serve(letters, span)
    PROVE  /\ Serving(SubSeq(command, optind + 1, optind + span), span) /\ Opt \in letters
           /\ drawEnd = "none" /\ command' = command /\ optind' \in Nat
           /\ Opt \in STRING /\ (span = 2 => OptArg \in STRING)
<1>1. command \in Seq(STRING) /\ optind \in Nat /\ optind + span <= Len(command)
  BY DEF DrawInv, Serve
<1>2. /\ optind' = optind + span /\ command' = command /\ Opt \in letters /\ drawEnd = "none"
      /\ served' = Append(served, SubSeq(command, optind + 1, optind + span))
  BY DEF Serve, Looking
<1> DEFINE o == SubSeq(command, optind + 1, optind + span)
<1>3. o \in Seq(STRING) /\ Len(o) = span /\ \A k \in 1 .. span : o[k] = command[optind + k]
  BY <1>1
<1>4. \A k \in 1 .. span : command[optind + k] \in STRING
  BY <1>1
<1> HIDE DEF o
<1>5. o[1] = Opt
  BY <1>3 DEF Opt
<1>6. span = 1 => o = <<Opt>>
  BY <1>3, <1>5
<1>7. span = 2 => o[2] = OptArg
  BY <1>3 DEF OptArg
<1>8. Opt \in STRING /\ (span = 2 => OptArg \in STRING)
  BY <1>4 DEF Opt, OptArg
<1>9. Serving(o, span)
  BY <1>2, <1>3, <1>5, <1>6, <1>7 DEF Serving, o
<1>10. optind' \in Nat
  BY <1>1, <1>2
<1> QED
  BY <1>2, <1>8, <1>9, <1>10, Zenon DEF o

LEMMA ModedKept ==
    ASSUME NEW S, NEW options \in Seq(S), NEW o \in S, NEW server \in BOOLEAN, NEW client \in BOOLEAN,
           Moded(options, server, client), o[1] # "s"
    PROVE  Moded(Append(options, o), server, client)
<1> DEFINE p == Append(options, o)
           m == Len(options)
<1>1. m \in Nat /\ DOMAIN options = 1 .. m
  BY ElementsOf, Zenon
<1>2. p \in Seq(S) /\ Len(p) = m + 1 /\ (\A k \in 1 .. m : p[k] = options[k]) /\ p[m + 1] = o
  BY AppendOf
<1>3. o # <<"s">>
  OBVIOUS
<1> HIDE DEF p, m
<1>4. DOMAIN p = 1 .. m + 1
  BY <1>2, ElementsOf
<1>5. \A k \in 1 .. m + 1 : k \in 1 .. m \/ k = m + 1
  BY <1>1
<1>6. \A k \in 1 .. m : k \in 1 .. m + 1
  BY <1>1
<1>7. Moded(p, server, client)
  BY <1>1, <1>2, <1>3, <1>4, <1>5, <1>6, Zenon DEF Moded
<1> QED
  BY <1>7, Zenon DEF p

LEMMA ModedClient ==
    ASSUME NEW S, NEW options \in Seq(S), NEW o \in S, NEW server \in BOOLEAN, NEW client \in BOOLEAN,
           Moded(options, server, client), o = <<"c">>
    PROVE  Moded(Append(options, o), server, TRUE)
<1> DEFINE p == Append(options, o)
           m == Len(options)
<1>0. o[1] # "s"
  OBVIOUS
<1>1. Moded(p, server, client)
  BY <1>0, ModedKept, Zenon
<1>2. m + 1 \in DOMAIN p /\ p[m + 1] = o
  OBVIOUS
<1> HIDE DEF p, m
<1>3. Moded(p, server, TRUE)
  BY <1>1, <1>2, Zenon DEF Moded
<1> QED
  BY <1>3, Zenon DEF p

LEMMA ModedServer ==
    ASSUME NEW S, NEW options \in Seq(S), NEW o \in S, NEW server \in BOOLEAN, NEW client \in BOOLEAN,
           Moded(options, server, client)
    PROVE  Moded(Append(options, o), TRUE, client)
<1> DEFINE p == Append(options, o)
<1>1. \A k \in DOMAIN options : k \in DOMAIN p /\ p[k] = options[k]
  OBVIOUS
<1> HIDE DEF p
<1>2. Moded(p, TRUE, client)
  BY <1>1, Zenon DEF Moded
<1> QED
  BY <1>2, Zenon DEF p

LEMMA NumbersRead ==
    ASSUME NEW arg
    PROVE  /\ Strtol(arg) \subseteq Int
           /\ \A n \in ParseOrDie(arg) : n \in Int /\ \E m \in Strtol(arg) : n = m % IntRange /\ n % 256 = m % 256
<1>1. Strtol(arg) \subseteq Int
  BY DEF Strtol, IntRange
<1>2. ASSUME NEW n \in ParseOrDie(arg)
      PROVE  n \in Int /\ \E m \in Strtol(arg) : n = m % IntRange /\ n % 256 = m % 256
  <2>1. PICK m \in Strtol(arg) : n = m % IntRange
    BY DEF ParseOrDie
  <2>2. m \in Int
    BY <1>1
  <2>3. n \in Int /\ n % 256 = m % 256
    BY <2>1, <2>2 DEF IntRange
  <2> QED
    BY <2>1, <2>3
<1> QED
  BY <1>1, <1>2

LEMMA DrawStep == DrawInv /\ [DrawNext]_drawVars => DrawInv'
<1> SUFFICES ASSUME DrawInv, [DrawNext]_drawVars PROVE DrawInv'
  OBVIOUS
<1>0. command \in Seq(STRING) /\ optind \in Nat /\ served \in Seq(Seq(STRING)) /\ sess \in Sessions
  BY DEF DrawInv
<1>a. sess.server_mode \in BOOLEAN /\ sess.client_mode \in BOOLEAN
  BY <1>0 DEF Sessions
<1>1. CASE UNCHANGED drawVars
  <2>1. Filled => Filled'
    BY <1>1 DEF Filled, drawVars
  <2> QED
    BY <1>1, <2>1 DEF DrawInv, drawVars
<1>2. CASE SkipOperand \/ PrintUsage
  <2>1. optind' = optind + 1 /\ UNCHANGED <<command, sess, drawEnd, served>>
    BY <1>2 DEF SkipOperand, PrintUsage
  <2>2. optind' \in Nat
    BY <1>0, <2>1
  <2>3. Filled => Filled'
    BY <2>1 DEF Filled
  <2> QED
    BY <2>1, <2>2, <2>3 DEF DrawInv
<1>3. ASSUME NEW span \in {1, 2}, NEW letters, Serve(letters, span), sess' \in Sessions,
             drawEnd' = drawEnd,
             \A o : Serving(o, span) /\ Filled => Filled'
      PROVE  DrawInv'
  <2>1. /\ Serving(SubSeq(command, optind + 1, optind + span), span)
        /\ drawEnd = "none" /\ command' = command /\ optind' \in Nat
    BY <1>3, ServeTaken, Zenon
  <2>2. Filled'
    <3>1. Filled
      BY <2>1 DEF DrawInv
    <3> QED
      BY <1>3, <2>1, <3>1, Zenon
  <2>3. served' \in Seq(Seq(STRING))
    BY <1>0, <2>1, AppendOf, Zenon DEF Serving
  <2>4. drawEnd' # "sent"
    BY <1>3, <2>1
  <2> QED
    BY <1>0, <1>3, <2>1, <2>2, <2>3, <2>4, Zenon DEF DrawInv
<1>4. CASE OptionMode
  <2>1. Serve(Flags, 1) /\ drawEnd' = drawEnd /\ Opt \in {"s", "c"}
    BY <1>4 DEF OptionMode, Serve, Flags
  <2>2. sess' \in Sessions /\ sess'.cl = sess.cl
        /\ \/ Opt = "s" /\ sess'.server_mode = TRUE /\ sess'.client_mode = sess.client_mode
           \/ Opt = "c" /\ sess'.client_mode = TRUE /\ sess'.server_mode = sess.server_mode
    BY <1>0, <1>4, <2>1 DEF OptionMode, Sessions
  <2>3. ASSUME NEW o, Serving(o, 1), Filled PROVE Filled'
    <3>1. o \in Seq(STRING) /\ o[1] = Opt /\ o = <<Opt>> /\ served' = Append(served, o)
      BY <2>3 DEF Serving
    <3>2. o[1] # "t" /\ (\A l \in {"x", "y", "w", "k"} : o[1] # l) /\ (\A c \in Colours : o[1] # c)
      BY <2>1, <3>1 DEF Colours
    <3>3. Shaped(served', sess.cl[Type])
      BY <1>0, <2>3, <3>1, <3>2, ShapedKept, Zenon DEF Filled
    <3>4. \A l \in {"x", "y", "w", "k"} : Holds(served', l, sess.cl[FieldOf(l)], IntRange)
      BY <1>0, <2>3, <3>1, <3>2, HoldsKept, Zenon DEF Filled
    <3>5. \A c \in Colours : Holds(served', c, sess.cl[c], 256)
      BY <1>0, <2>3, <3>1, <3>2, HoldsKept, ZenonT(40) DEF Filled
    <3>6. Moded(served, sess.server_mode, sess.client_mode)
      BY <2>3, Zenon DEF Filled
    <3>7. Moded(served', sess'.server_mode, sess'.client_mode)
      <4>1. CASE Opt = "s"
        <5>1. sess'.server_mode = TRUE /\ sess'.client_mode = sess.client_mode
          BY <2>2, <4>1
        <5>2. Moded(served', TRUE, sess.client_mode)
          BY <1>0, <1>a, <3>1, <3>6, ModedServer, Zenon
        <5> QED
          BY <5>1, <5>2, Zenon
      <4>2. CASE Opt = "c"
        <5>1. sess'.client_mode = TRUE /\ sess'.server_mode = sess.server_mode
          BY <2>2, <4>2
        <5>2. o = <<"c">>
          BY <3>1, <4>2
        <5>3. Moded(served', sess.server_mode, TRUE)
          BY <1>0, <1>a, <3>1, <3>6, <5>2, ModedClient, Zenon
        <5> QED
          BY <5>1, <5>3, Zenon
      <4> QED
        BY <2>1, <4>1, <4>2
    <3> QED
      BY <2>2, <3>3, <3>4, <3>5, <3>7, Zenon DEF Filled
  <2>4. 1 \in {1, 2}
    OBVIOUS
  <2> QED
    BY <1>3, <2>1, <2>2, <2>3, <2>4, Zenon
<1>5. CASE OptionHost
  <2>1. Serve({"h"}, 2) /\ drawEnd' = drawEnd /\ Opt = "h" /\ sess' = [sess EXCEPT !.host = OptArg]
    BY <1>5 DEF OptionHost, Serve
  <2>2. OptArg \in STRING
    BY <2>1, ServeTaken
  <2>3. /\ sess' \in Sessions /\ sess'.cl = sess.cl
        /\ sess'.server_mode = sess.server_mode /\ sess'.client_mode = sess.client_mode
    BY <1>0, <2>1, <2>2 DEF Sessions
  <2>4. ASSUME NEW o, Serving(o, 2), Filled PROVE Filled'
    <3>1. o \in Seq(STRING) /\ o[1] = "h" /\ served' = Append(served, o)
      BY <2>1, <2>4 DEF Serving
    <3>2. o[1] # "t" /\ o[1] # "s" /\ (\A l \in {"x", "y", "w", "k"} : o[1] # l) /\ (\A c \in Colours : o[1] # c)
      BY <3>1 DEF Colours
    <3>3. Shaped(served', sess.cl[Type])
      BY <1>0, <2>4, <3>1, <3>2, ShapedKept, Zenon DEF Filled
    <3>4. \A l \in {"x", "y", "w", "k"} : Holds(served', l, sess.cl[FieldOf(l)], IntRange)
      BY <1>0, <2>4, <3>1, <3>2, HoldsKept, Zenon DEF Filled
    <3>5. \A c \in Colours : Holds(served', c, sess.cl[c], 256)
      BY <1>0, <2>4, <3>1, <3>2, HoldsKept, ZenonT(40) DEF Filled
    <3>6. Moded(served', sess.server_mode, sess.client_mode)
      BY <1>0, <1>a, <2>4, <3>1, <3>2, ModedKept, Zenon DEF Filled
    <3> QED
      BY <2>3, <3>3, <3>4, <3>5, <3>6, Zenon DEF Filled
  <2>5. 2 \in {1, 2}
    OBVIOUS
  <2> QED
    BY <1>3, <2>1, <2>3, <2>4, <2>5, Zenon
<1>6. CASE OptionType
  <2>1. Serve({"t"}, 2) /\ drawEnd' = drawEnd /\ Opt = "t" /\ sess' = [sess EXCEPT !.cl[Type] = Shape(OptArg)]
    BY <1>6 DEF OptionType, Serve
  <2>2. Shape(OptArg) \in Cells
    BY DEF Shape, Cells
  <2>3. /\ sess' \in Sessions /\ sess'.cl[Type] = Shape(OptArg)
        /\ \A f \in Numbers \cup Colours : sess'.cl[f] = sess.cl[f]
        /\ sess'.server_mode = sess.server_mode /\ sess'.client_mode = sess.client_mode
    BY <1>0, <2>1, <2>2 DEF Sessions, Numbers, Colours, Type
  <2>4. ASSUME NEW o, Serving(o, 2), Filled PROVE Filled'
    <3>1. o \in Seq(STRING) /\ o[1] = "t" /\ o[2] = OptArg /\ served' = Append(served, o)
      BY <2>1, <2>4 DEF Serving
    <3>2. o[1] # "s" /\ (\A l \in {"x", "y", "w", "k"} : o[1] # l /\ FieldOf(l) \in Numbers) /\ (\A c \in Colours : o[1] # c)
      BY <3>1 DEF Colours, FieldOf, Numbers
    <3>3. Shaped(served', sess'.cl[Type])
      BY <1>0, <2>3, <3>1, ShapedNew, Zenon
    <3>4. \A l \in {"x", "y", "w", "k"} : Holds(served', l, sess.cl[FieldOf(l)], IntRange)
      BY <1>0, <2>4, <3>1, <3>2, HoldsKept, Zenon DEF Filled
    <3>5. \A c \in Colours : Holds(served', c, sess.cl[c], 256)
      BY <1>0, <2>4, <3>1, <3>2, HoldsKept, Zenon DEF Filled
    <3>6. Moded(served', sess.server_mode, sess.client_mode)
      BY <1>0, <1>a, <2>4, <3>1, <3>2, ModedKept, Zenon DEF Filled
    <3>7. \A l \in {"x", "y", "w", "k"} : sess'.cl[FieldOf(l)] = sess.cl[FieldOf(l)]
      BY <2>3, <3>2, Zenon
    <3>8. \A c \in Colours : sess'.cl[c] = sess.cl[c]
      BY <2>3, Zenon
    <3> QED
      BY <2>3, <3>3, <3>4, <3>5, <3>6, <3>7, <3>8, Zenon DEF Filled
  <2>5. 2 \in {1, 2}
    OBVIOUS
  <2> QED
    BY <1>3, <2>1, <2>3, <2>4, <2>5, Zenon
<1>7. CASE RenderLoop \/ NeitherMode
  <2>1. UNCHANGED <<command, optind, sess, served>> /\ drawEnd' \in {"served", "nothing"} /\ drawEnd = "none"
    BY <1>7 DEF RenderLoop, NeitherMode, MainEnd
  <2>2. Filled'
    BY <2>1 DEF Filled, DrawInv
  <2> QED
    BY <1>0, <2>1, <2>2 DEF DrawInv
<1>8. CASE SendMessage
  <2>1. /\ UNCHANGED <<command, optind, served>> /\ drawEnd = "none" /\ ~sess.server_mode /\ sess.client_mode
        /\ drawEnd' = IF sess.cl[Type] = "UNKNOWN" THEN "unsent" ELSE "sent"
        /\ sess' = [sess EXCEPT !.port = sess.port % PortRange]
    BY <1>8 DEF SendMessage, MainEnd
  <2>2. sess.port % PortRange \in Int
    <3>1. sess.port \in Int
      BY <1>0 DEF Sessions
    <3> QED
      BY <3>1 DEF PortRange
  <2>3. /\ sess' \in Sessions /\ sess'.cl = sess.cl
        /\ sess'.server_mode = sess.server_mode /\ sess'.client_mode = sess.client_mode
    BY <1>0, <2>1, <2>2 DEF Sessions
  <2>4. Filled'
    BY <2>1, <2>3 DEF Filled, DrawInv
  <2>5. drawEnd' = "sent" => sess'.client_mode /\ ~sess'.server_mode /\ sess'.cl[Type] # "UNKNOWN"
    BY <2>1, <2>3
  <2> QED
    BY <1>0, <2>1, <2>3, <2>4, <2>5 DEF DrawInv
<1>9. CASE OptionNumber
  <2>1. Serve(Valued \ {"h", "t"}, 2) /\ Opt \in {"p", "x", "y", "w", "k", "r", "g", "b"}
    BY <1>9 DEF OptionNumber, Serve, Valued
  <2>0. 2 \in {1, 2}
    OBVIOUS
  <2>2. CASE drawEnd' = "died" /\ UNCHANGED sess
    <3>1. /\ Serving(SubSeq(command, optind + 1, optind + 2), 2)
          /\ command' = command /\ optind' \in Nat
      BY <2>0, <2>1, ServeTaken, Zenon
    <3>2. served' \in Seq(Seq(STRING))
      BY <1>0, <3>1, AppendOf, Zenon DEF Serving
    <3> QED
      BY <1>0, <2>2, <3>1, <3>2 DEF DrawInv
  <2>3. ASSUME NEW n \in ParseOrDie(OptArg), drawEnd' = drawEnd,
               sess' = CASE Opt = "p" -> [sess EXCEPT !.port = n]
                         [] Opt \in Colours -> [sess EXCEPT !.cl[Opt] = n % 256]
                         [] OTHER -> [sess EXCEPT !.cl[FieldOf(Opt)] = n]
        PROVE  DrawInv'
    <3>1. PICK m \in Strtol(OptArg) : n = m % IntRange /\ n % 256 = m % 256
      BY <2>3, NumbersRead
    <3>2. n \in Int /\ n \in Cells /\ n % 256 \in Cells
      BY <2>3, NumbersRead DEF Cells
    <3>3. /\ sess' \in Sessions
          /\ sess'.server_mode = sess.server_mode /\ sess'.client_mode = sess.client_mode
          /\ sess'.cl[Type] = sess.cl[Type]
          /\ \A l \in {"x", "y", "w", "k"} : sess'.cl[FieldOf(l)] = IF l = Opt THEN n ELSE sess.cl[FieldOf(l)]
          /\ \A c \in Colours : sess'.cl[c] = IF c = Opt THEN n % 256 ELSE sess.cl[c]
      <4>1. CASE Opt = "p"
        <5>1. sess' = [sess EXCEPT !.port = n]
          BY <2>3, <4>1 DEF Colours
        <5> QED
          BY <1>0, <3>2, <4>1, <5>1 DEF Sessions, Numbers, Colours, Type, FieldOf
      <4>2. CASE Opt \in Colours
        <5>1. sess' = [sess EXCEPT !.cl[Opt] = n % 256]
          BY <2>3, <4>2 DEF Colours
        <5> QED
          BY <1>0, <3>2, <4>2, <5>1, ZenonT(40) DEF Sessions, Numbers, Colours, Type, FieldOf
      <4>3. CASE Opt \in {"x", "y", "w", "k"}
        <5>1. sess' = [sess EXCEPT !.cl[FieldOf(Opt)] = n]
          BY <2>3, <4>3 DEF Colours
        <5> QED
          BY <1>0, <3>2, <4>3, <5>1 DEF Sessions, Numbers, Colours, Type, FieldOf
      <4> QED
        BY <2>1, <4>1, <4>2, <4>3 DEF Colours
    <3>4. ASSUME NEW o, Serving(o, 2), Filled PROVE Filled'
      <4>1. o \in Seq(STRING) /\ o[1] = Opt /\ o[2] = OptArg /\ served' = Append(served, o)
        BY <3>4, Zenon DEF Serving
      <4>2. o[1] # "s" /\ o[1] # "t"
        BY <2>1, <4>1
      <4>3. Shaped(served', sess.cl[Type])
        BY <1>0, <3>4, <4>1, <4>2, ShapedKept, Zenon DEF Filled
      <4>4. Moded(served', sess.server_mode, sess.client_mode)
        BY <1>0, <1>a, <3>4, <4>1, <4>2, ModedKept, Zenon DEF Filled
      <4>5. ASSUME NEW l \in {"x", "y", "w", "k"} PROVE Holds(served', l, sess'.cl[FieldOf(l)], IntRange)
        <5>1. CASE l = Opt
          <6>1. m \in Strtol(o[2]) /\ o[1] = l
            BY <4>1, <5>1, Zenon
          <6>2. Holds(served', l, m % IntRange, IntRange)
            BY <1>0, <4>1, <6>1, HoldsNew, Zenon
          <6>3. sess'.cl[FieldOf(l)] = m % IntRange
            BY <3>1, <3>3, <5>1, Zenon
          <6> QED
            BY <6>2, <6>3, Zenon
        <5>2. CASE l # Opt
          <6>1. o[1] # l
            BY <4>1, <5>2, Zenon
          <6>2. Holds(served', l, sess.cl[FieldOf(l)], IntRange)
            BY <1>0, <3>4, <4>1, <6>1, HoldsKept, Zenon DEF Filled
          <6>3. sess'.cl[FieldOf(l)] = sess.cl[FieldOf(l)]
            BY <3>3, <5>2, Zenon
          <6> QED
            BY <6>2, <6>3, Zenon
        <5> QED
          BY <5>1, <5>2
      <4>6. ASSUME NEW c \in Colours PROVE Holds(served', c, sess'.cl[c], 256)
        <5>1. CASE c = Opt
          <6>1. m \in Strtol(o[2]) /\ o[1] = c
            BY <4>1, <5>1, Zenon
          <6>2. Holds(served', c, m % 256, 256)
            BY <1>0, <4>1, <6>1, HoldsNew, ZenonT(40)
          <6>3. sess'.cl[c] = m % 256
            BY <3>1, <3>3, <5>1, Zenon
          <6> QED
            BY <6>2, <6>3, Zenon
        <5>2. CASE c # Opt
          <6>1. o[1] # c
            BY <4>1, <5>2, Zenon
          <6>2. Holds(served', c, sess.cl[c], 256)
            BY <1>0, <3>4, <4>1, <6>1, HoldsKept, Zenon DEF Filled
          <6>3. sess'.cl[c] = sess.cl[c]
            BY <3>3, <5>2, Zenon
          <6> QED
            BY <6>2, <6>3, Zenon
        <5> QED
          BY <5>1, <5>2
      <4>7. Moded(served', sess'.server_mode, sess'.client_mode) /\ Shaped(served', sess'.cl[Type])
        BY <3>3, <4>3, <4>4, Zenon
      <4> QED
        BY <4>5, <4>6, <4>7, Zenon DEF Filled
    <3> QED
      BY <1>3, <2>0, <2>1, <2>3, <3>3, <3>4, Zenon
  <2> QED
    BY <1>9, <2>2, <2>3, Zenon DEF OptionNumber
<1> QED
  BY <1>1, <1>2, <1>4, <1>5, <1>6, <1>7, <1>8, <1>9, Zenon DEF DrawNext

(* The property's reading of the history and the invariant's are the same. *)
LEMMA LastGiven ==
    ASSUME served \in Seq(Seq(STRING)), NEW letter
    PROVE  /\ NotServed(served, letter) => LastArg(letter) = {}
           /\ \A n : LastServed(served, letter, n) => LastArg(letter) = {served[n][2]}
<1> DEFINE I == {k \in 1 .. Len(served) : served[k][1] = letter}
           k == SelectLastInSeq(served, LAMBDA option : option[1] = letter)
<1>1. DOMAIN served = 1 .. Len(served) /\ I \subseteq Nat \ {0}
  OBVIOUS
<1>2. k = IF I # {} THEN Max(I) ELSE 0
  BY DEF SelectLastInSeq
<1>3. LastArg(letter) = IF k = 0 THEN {} ELSE {served[k][2]}
  BY DEF LastArg
<1>4. I = {j \in DOMAIN served : served[j][1] = letter}
  BY <1>1
<1> HIDE DEF k
<1>5. ASSUME NotServed(served, letter) PROVE LastArg(letter) = {}
  <2>1. I = {}
    BY <1>4, <1>5, Zenon DEF NotServed
  <2> QED
    BY <1>2, <1>3, <2>1
<1>6. ASSUME NEW n, LastServed(served, letter, n) PROVE LastArg(letter) = {served[n][2]}
  <2>1. Max(I) = n
    BY <1>4, <1>6, LastIsMax, Zenon
  <2>2. n \in I
    BY <1>4, <1>6, Zenon DEF LastServed
  <2>3. n # 0
    BY <1>1, <2>2
  <2>4. k = n
    BY <1>2, <2>1, <2>2
  <2> QED
    BY <1>3, <2>3, <2>4
<1> QED
  BY <1>5, <1>6

(* One conjunct of the property, about one field. *)
AsGiven(letter, v, M) ==
    IF LastArg(letter) = {} THEN v = 0
    ELSE \E n \in UNION {Strtol(arg) : arg \in LastArg(letter)} : v = n % M

(* packetdraw's main sends a request only under -c, without -s and with a known *)
(* shape, and each of its fields is the last option's for that field, through   *)
(* an int and, for a colour, a byte.                                            *)
THEOREM RequestsAsGiven == DrawSpec => []RequestAsGiven
<1>1. DrawInv => RequestAsGiven
  <2> SUFFICES ASSUME DrawInv, drawEnd = "sent" PROVE RequestAsGiven
    BY DEF RequestAsGiven
  <2>1. /\ served \in Seq(Seq(STRING)) /\ Filled
        /\ sess.client_mode /\ ~sess.server_mode /\ sess.cl[Type] # "UNKNOWN"
    BY DEF DrawInv
  <2>2. /\ \E k \in DOMAIN served : served[k] = <<"c">>
        /\ \A k \in DOMAIN served : served[k] # <<"s">>
    BY <2>1, Zenon DEF Filled, Moded
  <2>3. \E shape \in LastArg("t") : sess.cl[Type] = Shape(shape) /\ sess.cl[Type] # "UNKNOWN"
    BY <2>1, LastGiven, Zenon DEF Filled, Shaped
  <2>4. ASSUME NEW letter, NEW v, NEW M, Holds(served, letter, v, M)
        PROVE  AsGiven(letter, v, M)
    <3>1. CASE NotServed(served, letter) /\ v = 0
      BY <2>1, <3>1, LastGiven DEF AsGiven
    <3>2. ASSUME NEW n, LastServed(served, letter, n), NEW m \in Strtol(served[n][2]), v = m % M
          PROVE  AsGiven(letter, v, M)
      <4>1. LastArg(letter) = {served[n][2]}
        BY <2>1, <3>2, LastGiven
      <4>2. m \in UNION {Strtol(arg) : arg \in LastArg(letter)}
        BY <3>2, <4>1, Zenon
      <4> QED
        BY <3>2, <4>1, <4>2, Zenon DEF AsGiven
    <3> QED
      BY <2>4, <3>1, <3>2, Zenon DEF Holds
  <2>5. \A pair \in {<<"x", "x">>, <<"y", "y">>, <<"w", "w">>, <<"k", "h">>} :
          /\ pair[1] \in {"x", "y", "w", "k"} /\ FieldOf(pair[1]) = pair[2]
    BY DEF FieldOf
  <2>6. \A pair \in {<<"x", "x">>, <<"y", "y">>, <<"w", "w">>, <<"k", "h">>} :
          Holds(served, pair[1], sess.cl[pair[2]], IntRange)
    BY <2>1, <2>5, Zenon DEF Filled
  <2>7. \A c \in Colours : Holds(served, c, sess.cl[c], 256)
    BY <2>1, Zenon DEF Filled
  <2>8. \A pair \in {<<"x", "x">>, <<"y", "y">>, <<"w", "w">>, <<"k", "h">>} :
            IF LastArg(pair[1]) = {} THEN sess.cl[pair[2]] = 0
            ELSE \E n \in UNION {Strtol(arg) : arg \in LastArg(pair[1])} :
                    sess.cl[pair[2]] = n % IntRange
    <3> TAKE pair \in {<<"x", "x">>, <<"y", "y">>, <<"w", "w">>, <<"k", "h">>}
    <3>1. Holds(served, pair[1], sess.cl[pair[2]], IntRange)
      BY <2>6, Zenon
    <3>2. AsGiven(pair[1], sess.cl[pair[2]], IntRange)
      BY <2>4, <3>1, Zenon
    <3> QED
      BY <3>2, Zenon DEF AsGiven
  <2>9. \A c \in Colours :
            IF LastArg(c) = {} THEN sess.cl[c] = 0
            ELSE \E n \in UNION {Strtol(arg) : arg \in LastArg(c)} : sess.cl[c] = n % 256
    <3> TAKE c \in Colours
    <3>1. Holds(served, c, sess.cl[c], 256)
      BY <2>7, Zenon
    <3>2. AsGiven(c, sess.cl[c], 256)
      BY <2>4, <3>1, Zenon
    <3> QED
      BY <3>2, Zenon DEF AsGiven
  <2> QED
    BY <2>2, <2>3, <2>8, <2>9, Zenon DEF RequestAsGiven
<1> QED
  BY <1>1, DrawInvInit, DrawStep, PTL DEF DrawSpec

(* Both option loops together, for any command lines. *)
THEOREM OptionsAreTaken == CliSpec /\ DrawSpec => []OptionsAsGiven
BY EventsSentAsAsked, RequestsAsGiven, PTL DEF OptionsAsGiven

-----------------------------------------------------------------------------
(* MdmLexer.                                                                 *)

(* How the lines of the tokens ts go up to line n. *)
LinesUp(ts, n) ==
    /\ \A k \in 1 .. Len(ts) : ts[k].line_number_ \in Nat
    /\ IF ts = <<>> THEN n = 0 ELSE ts[Len(ts)].line_number_ = n
    /\ \A j, k \in 1 .. Len(ts) : j <= k => ts[j].line_number_ <= ts[k].line_number_
    /\ \A k \in 2 .. Len(ts) :
          ts[k].line_number_ = IF ts[k].type_ = "kNewline" THEN ts[k - 1].line_number_ + 1
                                                           ELSE ts[k - 1].line_number_

Kinds ==
    {"kWord", "kNewline", "kPunct", "kSymbol", "kCodeDelimiter", "kHeader1", "kHeader2", "kHeader3"}
Lexemes ==
    [token_ : Seq(Characters), type_ : Kinds, line_number_ : Nat, is_first_on_newline_ : BOOLEAN]

MdmInv ==
    /\ linecount \in Nat /\ word \in Seq(Characters) /\ tokens_ \in Seq(Lexemes)
    /\ lexPc \in {"lex", "mark"} => LinesUp(tokens_, linecount)
    /\ MarksLineStarts

LEMMA OneMoreLine ==
    ASSUME NEW S, NEW ts \in Seq(S), NEW n \in Nat, LinesUp(ts, n), NEW t \in S,
           NEW m \in Nat, t.line_number_ = m, ts # <<>> \/ t.type_ = "kNewline" \/ m = 0,
           m = IF t.type_ = "kNewline" THEN n + 1 ELSE n
    PROVE  LinesUp(Append(ts, t), m)
<1> DEFINE us == Append(ts, t)
           l == Len(ts)
<1>1. /\ l \in Nat /\ Len(us) = l + 1 /\ us[l + 1] = t /\ us # <<>>
      /\ \A k \in 1 .. l : us[k] = ts[k]
  OBVIOUS
<1>2. l # 0 => ts # <<>>
  OBVIOUS
<1>3. l = 0 => ts = <<>>
  OBVIOUS
<1> HIDE DEF us, l
<1>4. \A k \in 1 .. l : ts[k].line_number_ \in Nat /\ ts[k].line_number_ <= n
  BY <1>1, <1>2 DEF LinesUp, l
<1>5. \A k \in 1 .. l + 1 : us[k].line_number_ \in Nat
  BY <1>1, <1>4, SMTT(30)
<1>6. \A j, k \in 1 .. l + 1 : j <= k => us[j].line_number_ <= us[k].line_number_
  <2> SUFFICES ASSUME NEW j \in 1 .. l + 1, NEW k \in 1 .. l + 1, j <= k
               PROVE  us[j].line_number_ <= us[k].line_number_
    OBVIOUS
  <2>1. CASE k = l + 1
    BY <1>1, <1>4, <2>1
  <2>2. CASE k \in 1 .. l
    BY <1>1, <2>2 DEF LinesUp, l
  <2> QED
    BY <1>1, <2>1, <2>2
<1>7. \A k \in 2 .. l + 1 :
          us[k].line_number_ = IF us[k].type_ = "kNewline" THEN us[k - 1].line_number_ + 1
                                                           ELSE us[k - 1].line_number_
  <2> SUFFICES ASSUME NEW k \in 2 .. l + 1
               PROVE  us[k].line_number_ = IF us[k].type_ = "kNewline" THEN us[k - 1].line_number_ + 1
                                                           ELSE us[k - 1].line_number_
    OBVIOUS
  <2>1. CASE k = l + 1
    <3>1. l \in 1 .. l /\ k - 1 = l /\ us[l] = ts[l] /\ us[k] = t
      BY <1>1, <2>1
    <3>2. ts[l].line_number_ = n
      BY <1>1, <1>2, <2>1 DEF LinesUp, l
    <3> QED
      BY <3>1, <3>2
  <2>2. CASE k \in 2 .. l
    <3>1. us[k] = ts[k] /\ us[k - 1] = ts[k - 1]
      BY <1>1, <2>2
    <3> QED
      BY <2>2, <3>1 DEF LinesUp, l
  <2> QED
    BY <1>1, <2>1, <2>2
<1>8. LinesUp(us, m)
  BY <1>1, <1>5, <1>6, <1>7 DEF LinesUp
<1> QED
  BY <1>8 DEF us

(* The first token on a line is the one behind a newline, or the first of all. *)
LEMMA LineStarts ==
    ASSUME NEW S, NEW ts \in Seq(S), NEW n, LinesUp(ts, n), NEW k \in 1 .. Len(ts), ts[k].type_ # "kNewline"
    PROVE  (k = 1 \/ (k > 2 /\ ts[k - 1].type_ = "kNewline"))
              <=> /\ \A j \in 1..k - 1 : \/ ts[j].type_ = "kNewline"
                                         \/ ts[j].line_number_ < ts[k].line_number_
                  /\ ~(k = 2 /\ ts[1].type_ = "kNewline")
<1>0. Len(ts) \in Nat /\ \A j \in 1 .. Len(ts) : ts[j].line_number_ \in Nat
  BY DEF LinesUp
<1>1. CASE k = 1
  BY <1>1
<1>2. CASE k # 1 /\ ts[k - 1].type_ # "kNewline"
  <2>1. k \in 2 .. Len(ts) /\ k - 1 \in 1 .. k - 1 /\ k - 1 \in 1 .. Len(ts)
    BY <1>0, <1>2
  <2>2. ts[k].line_number_ = ts[k - 1].line_number_
    BY <2>1 DEF LinesUp
  <2>3. ~(ts[k - 1].line_number_ < ts[k].line_number_)
    BY <1>0, <2>1, <2>2
  <2> QED
    BY <1>2, <2>1, <2>3
<1>3. CASE k = 2 /\ ts[k - 1].type_ = "kNewline"
  BY <1>3
<1>4. CASE k > 2 /\ ts[k - 1].type_ = "kNewline"
  <2>1. k - 1 \in 2 .. Len(ts) /\ k \in 2 .. Len(ts) /\ (k - 1) - 1 = k - 2 /\ k - 2 \in 1 .. Len(ts)
    BY <1>0, <1>4
  <2>2. ts[k - 1].line_number_ = ts[k - 2].line_number_ + 1 /\ ts[k].line_number_ = ts[k - 1].line_number_
    BY <1>4, <2>1 DEF LinesUp
  <2>3. ASSUME NEW j \in 1 .. k - 1, ts[j].type_ # "kNewline"
        PROVE  ts[j].line_number_ < ts[k].line_number_
    <3>1. j # k - 1
      BY <1>4, <2>3
    <3>2. j \in 1 .. Len(ts) /\ j <= k - 2
      BY <1>0, <3>1
    <3>3. ts[j].line_number_ <= ts[k - 2].line_number_
      BY <2>1, <3>2 DEF LinesUp
    <3> QED
      BY <1>0, <2>1, <2>2, <3>2, <3>3
  <2> QED
    BY <1>4, <2>3
<1> QED
  BY <1>1, <1>2, <1>3, <1>4

LEMMA LexemeOf ==
    ASSUME NEW value \in Seq(Characters), NEW kind \in Kinds, NEW line \in Nat
    PROVE  /\ Token(value, kind, line) \in Lexemes
           /\ Token(value, kind, line).line_number_ = line /\ Token(value, kind, line).type_ = kind
  BY DEF Token, Lexemes

LEMMA FlushedLines ==
    ASSUME MdmInv, lexPc = "lex"
    PROVE  Flushed \in Seq(Lexemes) /\ LinesUp(Flushed, linecount)
<1>1. /\ linecount \in Nat /\ word \in Seq(Characters) /\ tokens_ \in Seq(Lexemes)
      /\ LinesUp(tokens_, linecount)
  BY DEF MdmInv
<1>2. CASE word = <<>>
  BY <1>1, <1>2 DEF Flushed
<1>3. CASE word # <<>>
  <2> DEFINE t == Token(word, "kWord", linecount)
  <2>1. t \in Lexemes /\ t.line_number_ = linecount /\ t.type_ = "kWord"
    <3>1. "kWord" \in Kinds
      BY DEF Kinds
    <3> QED
      BY <1>1, <3>1, LexemeOf
  <2>2. Flushed = Append(tokens_, t)
    BY <1>3 DEF Flushed
  <2> HIDE DEF t
  <2>3. tokens_ # <<>> \/ linecount = 0
    BY <1>1 DEF LinesUp
  <2>4. linecount = IF t.type_ = "kNewline" THEN linecount + 1 ELSE linecount
    BY <2>1
  <2>5. LinesUp(Append(tokens_, t), linecount)
    BY <1>1, <2>1, <2>3, <2>4, OneMoreLine, Zenon
  <2> QED
    BY <1>1, <2>1, <2>2, <2>5
<1> QED
  BY <1>2, <1>3

LEMMA EmitStep ==
    ASSUME MdmInv, lexPc = "lex", lexPc' = "lex",
           NEW value \in Seq(Characters), NEW kind \in Kinds, NEW line \in Nat, Emit(value, kind, line),
           linecount' = line, line = IF kind = "kNewline" THEN linecount + 1 ELSE linecount
    PROVE  MdmInv'
<1>1. Flushed \in Seq(Lexemes) /\ LinesUp(Flushed, linecount) /\ linecount \in Nat
  BY FlushedLines DEF MdmInv
<1> DEFINE t == Token(value, kind, line)
<1>2. t \in Lexemes /\ t.line_number_ = line /\ t.type_ = kind
  BY LexemeOf
<1>3. tokens_' = Append(Flushed, t) /\ word' = <<>>
  BY DEF Emit
<1> HIDE DEF t
<1>4. Flushed # <<>> \/ t.type_ = "kNewline" \/ line = 0
  BY <1>1, <1>2 DEF LinesUp
<1>5. LinesUp(Append(Flushed, t), line)
  BY <1>1, <1>2, <1>4, OneMoreLine, Zenon
<1>6. tokens_' \in Seq(Lexemes) /\ LinesUp(tokens_', linecount') /\ linecount' \in Nat
  BY <1>1, <1>2, <1>3, <1>5
<1>7. word' \in Seq(Characters)
  BY <1>3
<1> QED
  BY <1>6, <1>7 DEF MdmInv, MarksLineStarts

LEMMA SeenOf == ASSUME NEW c PROVE Seen(c) \in {1, 2, 3}
  BY DEF Seen

LEMMA MdmStep == MdmInv /\ [MdmNext]_mdmVars => MdmInv'
<1> SUFFICES ASSUME MdmInv, [MdmNext]_mdmVars PROVE MdmInv'
  OBVIOUS
<1>0. /\ linecount \in Nat /\ word \in Seq(Characters) /\ tokens_ \in Seq(Lexemes)
  BY DEF MdmInv
<1>a. /\ {Newline, Backtick, ".", "@", "#", Letter} \subseteq Characters
      /\ {"kNewline", "kPunct", "kSymbol", "kCodeDelimiter"} \subseteq Kinds
  BY DEF Characters, Punct, Symbol, Kinds
<1>1. CASE UNCHANGED mdmVars
  BY <1>1 DEF mdmVars, MdmInv, MarksLineStarts, LinesUp
<1>2. CASE Whitespace
  <2>1. lexPc = "lex" /\ lexPc' = lexPc /\ linecount' = linecount /\ tokens_' = Flushed /\ word' = <<>>
    BY <1>2 DEF Whitespace, Get
  <2> QED
    BY <1>0, <2>1, FlushedLines DEF MdmInv, MarksLineStarts
<1>3. CASE EndOfText
  <2>1. lexPc = "lex" /\ lexPc' = "mark" /\ linecount' = linecount /\ tokens_' = Flushed /\ word' = <<>>
    BY <1>3 DEF EndOfText
  <2> QED
    BY <1>0, <2>1, FlushedLines DEF MdmInv, MarksLineStarts
<1>4. CASE WordCharacter
  <2>1. lexPc = "lex" /\ word' = Append(word, Letter) /\ UNCHANGED <<linecount, tokens_, lexPc>>
    BY <1>4 DEF WordCharacter, Get
  <2>2. word' \in Seq(Characters)
    BY <1>0, <1>a, <2>1
  <2> QED
    BY <2>1, <2>2 DEF MdmInv, MarksLineStarts
<1>5. CASE EndOfLine
  <2>1. /\ lexPc = "lex" /\ lexPc' = "lex" /\ linecount' = linecount + 1
        /\ Emit(<<Newline>>, "kNewline", linecount + 1)
    BY <1>5 DEF EndOfLine, Get
  <2>2. <<Newline>> \in Seq(Characters) /\ "kNewline" \in Kinds /\ linecount + 1 \in Nat
    BY <1>0, <1>a
  <2>3. linecount + 1 = IF "kNewline" = "kNewline" THEN linecount + 1 ELSE linecount
    OBVIOUS
  <2> QED
    BY <2>1, <2>2, <2>3, EmitStep, Zenon
<1>6. ASSUME NEW value \in Seq(Characters), NEW kind \in Kinds \ {"kNewline"}, Emit(value, kind, linecount),
             lexPc = "lex", UNCHANGED <<linecount, lexPc>>
      PROVE  MdmInv'
  <2>1. linecount = IF kind = "kNewline" THEN linecount + 1 ELSE linecount
    OBVIOUS
  <2>2. kind \in Kinds /\ linecount' = linecount /\ lexPc' = "lex"
    BY <1>6
  <2> QED
    BY <1>0, <1>6, <2>1, <2>2, EmitStep, Zenon
<1>7. CASE OtherPunct
  <2>1. lexPc = "lex" /\ UNCHANGED <<linecount, lexPc>> /\ Emit(<<".">>, "kPunct", linecount)
    BY <1>7 DEF OtherPunct, Get
  <2>2. <<".">> \in Seq(Characters) /\ "kPunct" \in Kinds \ {"kNewline"}
    BY <1>a
  <2> QED
    BY <1>6, <2>1, <2>2, Zenon
<1>8. CASE OtherSymbol
  <2>1. lexPc = "lex" /\ UNCHANGED <<linecount, lexPc>> /\ Emit(<<"@">>, "kSymbol", linecount)
    BY <1>8 DEF OtherSymbol, Get
  <2>2. <<"@">> \in Seq(Characters) /\ "kSymbol" \in Kinds \ {"kNewline"}
    BY <1>a
  <2> QED
    BY <1>6, <2>1, <2>2, Zenon
<1>9. CASE Backticks
  <2>1. lexPc = "lex" /\ UNCHANGED <<linecount, lexPc>>
    BY <1>9 DEF Backticks, Get
  <2>2. \/ Emit(<<Backtick, Backtick, Backtick>>, "kCodeDelimiter", linecount)
        \/ Emit(<<Backtick>>, "kPunct", linecount)
    BY <1>9 DEF Backticks
  <2>3. /\ <<Backtick>> \in Seq(Characters) /\ "kPunct" \in Kinds \ {"kNewline"}
        /\ <<Backtick, Backtick, Backtick>> \in Seq(Characters) /\ "kCodeDelimiter" \in Kinds \ {"kNewline"}
    BY <1>a
  <2> QED
    BY <1>6, <2>1, <2>2, <2>3, Zenon
<1>10. CASE Hashes
  <2> DEFINE n == Seen("#")
             kind == <<"kHeader1", "kHeader2", "kHeader3">>[n]
             value == [i \in 1 .. n |-> "#"]
  <2>1. lexPc = "lex" /\ UNCHANGED <<linecount, lexPc>> /\ Emit(value, kind, linecount)
    BY <1>10 DEF Hashes, Get
  <2>2. n \in {1, 2, 3}
    BY SeenOf
  <2> HIDE DEF n
  <2>3. kind \in Kinds \ {"kNewline"}
    BY <2>2 DEF Kinds
  <2>4. value \in Seq(Characters)
    BY <1>a, <2>2
  <2> QED
    BY <1>6, <2>1, <2>3, <2>4, Zenon
<1>11. CASE MarkNewlineTokens
  <2>1. /\ lexPc = "mark" /\ lexPc' = "done" /\ UNCHANGED <<word, linecount>>
        /\ tokens_' = [k \in DOMAIN tokens_ |-> [tokens_[k] EXCEPT !.is_first_on_newline_ = Marked(k)]]
    BY <1>11 DEF MarkNewlineTokens
  <2>2. DOMAIN tokens_ = 1 .. Len(tokens_) /\ Len(tokens_) \in Nat /\ LinesUp(tokens_, linecount)
    BY <1>0, <2>1 DEF MdmInv
  <2>3. \A k \in DOMAIN tokens_ : Marked(k) \in BOOLEAN
    BY DEF Marked
  <2>4. ASSUME NEW k \in DOMAIN tokens_
        PROVE  /\ tokens_'[k] \in Lexemes /\ tokens_'[k].is_first_on_newline_ = Marked(k)
               /\ tokens_'[k].type_ = tokens_[k].type_ /\ tokens_'[k].line_number_ = tokens_[k].line_number_
    <3>1. tokens_[k] \in Lexemes /\ tokens_'[k] = [tokens_[k] EXCEPT !.is_first_on_newline_ = Marked(k)]
      BY <1>0, <2>1
    <3> QED
      BY <2>3, <3>1 DEF Lexemes
  <2>5. tokens_' \in Seq(Lexemes) /\ DOMAIN tokens_' = DOMAIN tokens_
    <3>1. DOMAIN tokens_' = DOMAIN tokens_
      BY <2>1, Zenon
    <3>2. tokens_' = [k \in DOMAIN tokens_ |-> tokens_'[k]]
      BY <2>1
    <3>3. Maps(tokens_', Len(tokens_), Lexemes)
      BY <2>2, <2>4, <3>2 DEF Maps
    <3>4. IsSeqOf(tokens_', Len(tokens_), Lexemes)
      BY <2>2, <3>3, FunctionOf, Zenon
    <3> QED
      BY <3>1, <3>4, Zenon DEF IsSeqOf
  <2>6. MarksLineStarts'
    <3> SUFFICES ASSUME NEW k \in DOMAIN tokens_, tokens_[k].type_ # "kNewline"
                 PROVE  tokens_'[k].is_first_on_newline_
                          <=> /\ \A j \in 1..k - 1 : \/ tokens_'[j].type_ = "kNewline"
                                                     \/ tokens_'[j].line_number_ < tokens_'[k].line_number_
                              /\ ~(k = 2 /\ tokens_'[1].type_ = "kNewline")
      BY <2>4, <2>5 DEF MarksLineStarts
    <3>1. Marked(k) <=> (k = 1 \/ (k > 2 /\ tokens_[k - 1].type_ = "kNewline"))
      BY DEF Marked
    <3>2. (k = 1 \/ (k > 2 /\ tokens_[k - 1].type_ = "kNewline"))
              <=> /\ \A j \in 1..k - 1 : \/ tokens_[j].type_ = "kNewline"
                                         \/ tokens_[j].line_number_ < tokens_[k].line_number_
                  /\ ~(k = 2 /\ tokens_[1].type_ = "kNewline")
      BY <1>0, <2>2, LineStarts
    <3>3. 1 \in DOMAIN tokens_ /\ \A j \in 1 .. k - 1 : j \in DOMAIN tokens_
      BY <2>2
    <3>4. tokens_'[k].is_first_on_newline_ <=> Marked(k)
      BY <2>4, Zenon
    <3> QED
      BY <2>4, <3>1, <3>2, <3>3, <3>4, Zenon
  <2> QED
    BY <1>0, <2>1, <2>5, <2>6 DEF MdmInv
<1> QED
  BY <1>1, <1>2, <1>3, <1>4, <1>5, <1>7, <1>8, <1>9, <1>10, <1>11, Zenon DEF MdmNext

(* After MarkNewlineTokens the tokens marked are the first ones of their lines *)
(* as the lexer counted them, for a text of any length.                        *)
THEOREM LineStartsAreMarked == MdmSpec => []MarksLineStarts
<1>1. MdmInit => MdmInv
  BY DEF MdmInit, MdmInv, MarksLineStarts, LinesUp
<1>2. MdmInv => MarksLineStarts
  BY DEF MdmInv
<1> QED
  BY <1>1, <1>2, MdmStep, PTL DEF MdmSpec

-----------------------------------------------------------------------------
(* TvmLexer.                                                                 *)

BreaksTo(n) == {i \in 1 .. n : source[i] = Break}

LEMMA BreaksFinite ==
    ASSUME NEW n \in Nat
    PROVE  IsFiniteSet(BreaksTo(n)) /\ Cardinality(BreaksTo(n)) \in Nat
<1>1. IsFiniteSet(1 .. n)
  BY FS_Interval
<1>2. BreaksTo(n) \subseteq 1 .. n
  BY DEF BreaksTo
<1>3. IsFiniteSet(BreaksTo(n))
  BY <1>1, <1>2, FS_Subset
<1> QED
  BY <1>3, FS_CardinalityType

LEMMA BreaksKept ==
    ASSUME NEW m \in Nat, NEW n \in Nat, m <= n, \A i \in m + 1 .. n : source[i] # Break
    PROVE  BreaksTo(n) = BreaksTo(m)
  BY DEF BreaksTo

LEMMA BreaksMore ==
    ASSUME NEW n \in Nat, source[n + 1] = Break
    PROVE  Cardinality(BreaksTo(n + 1)) = Cardinality(BreaksTo(n)) + 1
<1>1. BreaksTo(n + 1) = BreaksTo(n) \cup {n + 1} /\ n + 1 \notin BreaksTo(n)
  BY DEF BreaksTo
<1>2. IsFiniteSet(BreaksTo(n))
  BY BreaksFinite
<1> QED
  BY <1>1, <1>2, OneMore

LEMMA LineAt == ASSUME NEW p \in Nat PROVE LineOf(p + 1) = 1 + Cardinality(BreaksTo(p))
<1>1. (p + 1) - 1 = p
  OBVIOUS
<1> QED
  BY <1>1, Zenon DEF LineOf, BreaksTo

(* The places from a to b. *)
Run(a, b) == [i \in 1 .. b - a + 1 |-> a + i - 1]

LEMMA RunOf ==
    ASSUME NEW a \in Nat, NEW b \in Nat, a <= b
    PROVE  /\ Run(a, b) \in Seq(a .. b) /\ Len(Run(a, b)) = b - a + 1
           /\ Run(a, b)[1] = a /\ Run(a, b)[Len(Run(a, b))] = b
<1> DEFINE n == b - a + 1
<1>1. n \in Nat /\ 1 \in 1 .. n /\ n \in 1 .. n
  OBVIOUS
<1>2. Maps(Run(a, b), n, a .. b)
  BY DEF Maps, Run
<1>3. IsSeqOf(Run(a, b), n, a .. b)
  BY <1>1, <1>2, FunctionOf
<1>4. Run(a, b)[1] = a /\ Run(a, b)[n] = b
  BY <1>1 DEF Run
<1> QED
  BY <1>3, <1>4 DEF IsSeqOf

LEMMA RunMore ==
    ASSUME NEW a \in Nat, NEW b \in Nat, NEW c \in Nat, a <= b, b < c
    PROVE  Run(a, b) \o Run(b + 1, c) = Run(a, c)
<1> DEFINE s == Run(a, b)
           t == Run(b + 1, c)
           u == s \o t
           m == b - a + 1
           n == c - b
<1>1. m \in Nat /\ n \in Nat /\ b + 1 <= c /\ b + 1 \in Nat /\ c - (b + 1) + 1 = n /\ c - a + 1 = m + n
  OBVIOUS
<1>2. s \in Seq(Nat) /\ Len(s) = m /\ \A i \in 1 .. m : s[i] = a + i - 1
  <2>1. Maps(s, m, Nat)
    BY DEF Maps, Run
  <2>2. IsSeqOf(s, m, Nat)
    BY <1>1, <2>1, FunctionOf
  <2> QED
    BY <2>2 DEF IsSeqOf, Run
<1>3. t \in Seq(Nat) /\ Len(t) = n /\ \A i \in 1 .. n : t[i] = b + i
  <2>1. Maps(t, n, Nat) /\ \A i \in 1 .. n : t[i] = b + i
    BY <1>1 DEF Maps, Run
  <2>2. IsSeqOf(t, n, Nat)
    BY <1>1, <2>1, FunctionOf
  <2> QED
    BY <2>1, <2>2 DEF IsSeqOf
<1>4. Joined(u, s, t, m, n, Nat)
  BY <1>2, <1>3, JoinedOf, Zenon DEF IsSeqOf
<1> HIDE DEF s, t, u, m, n
<1>5. /\ u \in Seq(Nat) /\ Len(u) = m + n /\ (\A i \in 1 .. m : u[i] = s[i]) /\ \A i \in 1 .. n : u[m + i] = t[i]
  BY <1>4, Zenon DEF Joined, IsSeqOf
<1>6. ASSUME NEW i \in 1 .. m + n PROVE u[i] = a + i - 1
  <2>1. CASE i <= m
    <3>1. i \in 1 .. m
      BY <1>1, <2>1
    <3> QED
      BY <1>2, <1>5, <3>1
  <2>2. CASE i > m
    <3>1. i - m \in 1 .. n /\ m + (i - m) = i
      BY <1>1, <2>2
    <3>2. u[m + (i - m)] = t[i - m] /\ t[i - m] = b + (i - m)
      BY <1>3, <1>5, <3>1
    <3>3. b + (i - m) = a + i - 1
      BY <1>1 DEF m
    <3> QED
      BY <3>1, <3>2, <3>3
  <2> QED
    BY <1>1, <2>1, <2>2
<1>7. DOMAIN u = 1 .. m + n /\ u = [i \in DOMAIN u |-> u[i]]
  BY <1>5
<1>8. u = [i \in 1 .. m + n |-> a + i - 1]
  BY <1>6, <1>7
<1>9. Run(a, c) = [i \in 1 .. m + n |-> a + i - 1]
  BY <1>1 DEF Run
<1> QED
  BY <1>8, <1>9 DEF u, s, t

(* How far the inner loops read. *)
LEMMA ReadOf ==
    ASSUME NEW stops, source \in Seq(SourceCharacters), used \in Nat, used < Len(source)
    PROVE  /\ ReadTo(stops) \in used + 1 .. Len(source)
           /\ ReadTo(stops) = used + 1 => used + 1 = Len(source)
           /\ \A i \in used + 2 .. ReadTo(stops) - 1 : source[i] \notin stops
<1> DEFINE ends == {i \in used + 2..Len(source) : source[i] \in stops}
<1>1. ReadTo(stops) = IF ends = {} THEN Len(source) ELSE CHOOSE i \in ends : \A j \in ends : i <= j
  BY DEF ReadTo
<1>2. Len(source) \in Nat /\ ends \subseteq Nat
  OBVIOUS
<1>3. CASE ends = {}
  BY <1>1, <1>2, <1>3
<1>4. CASE ends # {}
  <2>1. Min(ends) \in ends /\ \A j \in ends : Min(ends) <= j
    <3> HIDE DEF ends
    <3> QED
      BY <1>2, <1>4, MinOf
  <2> DEFINE e == ReadTo(stops)
  <2>2. e \in ends /\ \A j \in ends : e <= j
    <3> HIDE DEF ends
    <3> QED
      BY <1>1, <1>4, <2>1
  <2> HIDE DEF e
  <2>3. e \in used + 2 .. Len(source) /\ \A i \in used + 2 .. e - 1 : i \notin ends
    BY <1>2, <2>2
  <2>4. \A i \in used + 2 .. e - 1 : source[i] \notin stops
    BY <1>2, <2>3
  <2> QED
    BY <1>2, <2>3, <2>4 DEF e
<1> QED
  BY <1>3, <1>4

GluedIn(a, b) == \E i \in a .. b + 1 : Glued(i)

(* A token as the property wants it. *)
TokenRight(places, line) ==
    LET first == places[1]
        last == places[Len(places)]
    IN  \/ places = Run(first, last) /\ line = LineOf(first)
        \/ GluedIn(first, last)
        \/ last = Len(source) /\ source[last] = Quote /\ Len(places) > last - first + 1

SourcePlaces == 1 .. Len(source)
Marks == [value_ : Seq(SourceCharacters), line_ : Nat, places : Seq(SourcePlaces)]
AllRight(ts) == ts \in Seq(Marks) /\ \A k \in DOMAIN ts : TokenRight(ts[k].places, ts[k].line_)

(* The buffer is a stretch that ends where the lexer stands, in the line it is *)
(* in, or a comment was written against it.                                    *)
BufferRight ==
    buffer # <<>> =>
        /\ buffer[1] \in 1 .. used /\ buffer[Len(buffer)] \in buffer[1] .. used
        /\ \/ /\ buffer = Run(buffer[1], used) /\ source[used] = "w"
              /\ line_number = LineOf(buffer[1])
           \/ GluedIn(buffer[1], buffer[Len(buffer)])

LexInv ==
    /\ source \in Seq(SourceCharacters) /\ used \in 0 .. Len(source)
    /\ buffer \in Seq(SourcePlaces) /\ line_number \in Nat
    /\ AllRight(lexed)
    /\ tokenizePc = "lex" => line_number = 1 + Cardinality(BreaksTo(used)) /\ BufferRight

LEMMA SourceKept ==
    ASSUME source' = source, AllRight(lexed')
    PROVE  AllRight(lexed)' /\ SourcePlaces' = SourcePlaces /\ BreaksTo(used)' = BreaksTo(used')
  BY DEF AllRight, TokenRight, Marks, LineOf, Glued, GluedIn, SourcePlaces, BreaksTo

LEMMA MarkOf ==
    ASSUME source \in Seq(SourceCharacters), NEW places \in Seq(SourcePlaces), NEW line \in Nat
    PROVE  /\ TokenAt(places, line) \in Marks
           /\ TokenAt(places, line).places = places /\ TokenAt(places, line).line_ = line
<1> DEFINE v == [k \in DOMAIN places |-> source[places[k]]]
           n == Len(places)
<1>1. n \in Nat /\ DOMAIN places = 1 .. n /\ \A k \in 1 .. n : places[k] \in SourcePlaces
  BY ElementsOf
<1>2. \A p \in SourcePlaces : source[p] \in SourceCharacters
  BY DEF SourcePlaces
<1>3. Maps(v, n, SourceCharacters)
  BY <1>1, <1>2 DEF Maps
<1> HIDE DEF v, n
<1>4. v \in Seq(SourceCharacters)
  BY <1>1, <1>3, FunctionOf, Zenon DEF IsSeqOf
<1>5. TokenAt(places, line) = [value_ |-> v, line_ |-> line, places |-> places]
  BY Zenon DEF TokenAt, v
<1> QED
  BY <1>4, <1>5 DEF Marks

LEMMA PushRight ==
    ASSUME source \in Seq(SourceCharacters), NEW ts, AllRight(ts),
           NEW places \in Seq(SourcePlaces), NEW line \in Nat, TokenRight(places, line)
    PROVE  AllRight(Append(ts, TokenAt(places, line)))
<1> DEFINE x == TokenAt(places, line)
           us == Append(ts, x)
           n == Len(ts)
<1>1. x \in Marks /\ TokenRight(x.places, x.line_)
  <2>1. x \in Marks /\ x.places = places /\ x.line_ = line
    BY MarkOf
  <2> QED
    BY <2>1
<1>2. ts \in Seq(Marks) /\ \A k \in DOMAIN ts : TokenRight(ts[k].places, ts[k].line_)
  BY DEF AllRight
<1> HIDE DEF x
<1>3. us \in Seq(Marks) /\ Len(us) = n + 1 /\ (\A k \in 1 .. n : us[k] = ts[k]) /\ us[n + 1] = x
  BY <1>1, <1>2, AppendOf
<1>4. n \in Nat /\ DOMAIN ts = 1 .. n
  BY <1>2, ElementsOf, Zenon
<1> HIDE DEF us, n
<1>5. DOMAIN us = 1 .. n + 1
  BY <1>3, ElementsOf
<1>6. \A k \in 1 .. n + 1 : k \in 1 .. n \/ k = n + 1
  BY <1>4
<1>7. AllRight(us)
  BY <1>1, <1>2, <1>3, <1>4, <1>5, <1>6, Zenon DEF AllRight
<1> QED
  BY <1>7, Zenon DEF us, x

LEMMA FlushRight ==
    ASSUME LexInv, NEW places \in Seq(SourcePlaces), places # <<>> => TokenRight(places, line_number)
    PROVE  AllRight(Flush(places, line_number))
<1>1. source \in Seq(SourceCharacters) /\ line_number \in Nat /\ AllRight(lexed)
  BY DEF LexInv
<1>2. CASE places = <<>>
  BY <1>1, <1>2 DEF Flush
<1>3. CASE places # <<>>
  <2>1. AllRight(Append(lexed, TokenAt(places, line_number)))
    BY <1>1, <1>3, PushRight
  <2> QED
    BY <1>3, <2>1 DEF Flush
<1> QED
  BY <1>2, <1>3

LEMMA BufferFlushed ==
    ASSUME LexInv, tokenizePc = "lex"
    PROVE  AllRight(Flush(buffer, line_number))
<1>1. BufferRight /\ buffer \in Seq(SourcePlaces) /\ used \in Nat
  BY DEF LexInv
<1>2. ASSUME buffer # <<>> PROVE TokenRight(buffer, line_number)
  <2>1. CASE buffer = Run(buffer[1], used) /\ line_number = LineOf(buffer[1])
    <3>1. buffer[1] \in Nat /\ buffer[1] <= used
      BY <1>1, <1>2 DEF BufferRight
    <3>2. buffer[Len(buffer)] = used
      <4> DEFINE f == buffer[1]
      <4>1. f \in Nat /\ f <= used /\ buffer = Run(f, used)
        BY <2>1, <3>1
      <4> HIDE DEF f
      <4>2. Run(f, used)[Len(Run(f, used))] = used
        BY <1>1, <4>1, RunOf
      <4> QED
        BY <4>1, <4>2, Zenon
    <3> QED
      BY <2>1, <3>2 DEF TokenRight
  <2>2. CASE GluedIn(buffer[1], buffer[Len(buffer)])
    BY <2>2 DEF TokenRight
  <2> QED
    BY <1>1, <1>2, <2>1, <2>2 DEF BufferRight
<1> QED
  BY <1>1, <1>2, FlushRight

(* The steps after which the buffer is empty. *)
LEMMA EmptiedStep ==
    ASSUME LexInv, source' = source, used' \in 0 .. Len(source), line_number' \in Nat,
           AllRight(lexed'), buffer' = <<>>,
           tokenizePc' = "lex" => line_number' = 1 + Cardinality(BreaksTo(used'))
    PROVE  LexInv'
<1>1. AllRight(lexed)' /\ SourcePlaces' = SourcePlaces /\ BreaksTo(used)' = BreaksTo(used')
  BY SourceKept
<1>2. BufferRight' /\ buffer' \in Seq(SourcePlaces)
  BY DEF BufferRight
<1> QED
  BY <1>1, <1>2 DEF LexInv

LEMMA NextPlace ==
    ASSUME LexInv, tokenizePc = "lex", used < Len(source)
    PROVE  /\ used \in Nat /\ used + 1 \in 0 .. Len(source) /\ used + 1 \in SourcePlaces
           /\ source \in Seq(SourceCharacters) /\ line_number \in Nat
           /\ line_number = 1 + Cardinality(BreaksTo(used)) /\ line_number = LineOf(used + 1)
           /\ source[used + 1] # Break => line_number = 1 + Cardinality(BreaksTo(used + 1))
           /\ source[used + 1] = Break => line_number + 1 = 1 + Cardinality(BreaksTo(used + 1))
<1>1. /\ used \in Nat /\ used + 1 \in 0 .. Len(source) /\ used + 1 \in SourcePlaces
      /\ source \in Seq(SourceCharacters) /\ line_number \in Nat
      /\ line_number = 1 + Cardinality(BreaksTo(used))
  BY DEF LexInv, SourcePlaces
<1>2. line_number = LineOf(used + 1)
  BY <1>1, LineAt
<1>3. ASSUME source[used + 1] # Break PROVE BreaksTo(used + 1) = BreaksTo(used)
  <2>1. \A i \in used + 1 .. used + 1 : source[i] # Break
    BY <1>1, <1>3
  <2> QED
    BY <1>1, <2>1, BreaksKept
<1>4. ASSUME source[used + 1] = Break PROVE Cardinality(BreaksTo(used + 1)) = Cardinality(BreaksTo(used)) + 1
  BY <1>1, <1>4, BreaksMore
<1>5. Cardinality(BreaksTo(used)) \in Nat
  BY <1>1, BreaksFinite
<1> QED
  BY <1>1, <1>2, <1>3, <1>4, <1>5

LEMMA ColonStep == LexInv /\ Colon => LexInv'
<1> SUFFICES ASSUME LexInv, Colon PROVE LexInv'
  OBVIOUS
<1>1. /\ tokenizePc = "lex" /\ used < Len(source) /\ source[used + 1] = ":" /\ used' = used + 1
      /\ lexed' = Append(Flush(buffer, line_number), TokenAt(<<used + 1>>, line_number))
      /\ buffer' = <<>> /\ UNCHANGED <<source, line_number, tokenizePc>>
  BY DEF Colon, Comes
<1>2. /\ used \in Nat /\ used + 1 \in 0 .. Len(source) /\ used + 1 \in SourcePlaces
      /\ source \in Seq(SourceCharacters) /\ line_number \in Nat
      /\ line_number = LineOf(used + 1)
      /\ line_number = 1 + Cardinality(BreaksTo(used + 1))
  <2>1. source[used + 1] # Break
    BY <1>1 DEF Break
  <2> QED
    BY <1>1, <2>1, NextPlace
<1>3. TokenRight(<<used + 1>>, line_number)
  <2> DEFINE p == <<used + 1>>
  <2>1. p[1] = used + 1 /\ p[Len(p)] = used + 1
    OBVIOUS
  <2>2. p = Run(used + 1, used + 1)
    BY <1>2 DEF Run
  <2> HIDE DEF p
  <2>3. TokenRight(p, line_number)
    BY <1>2, <2>1, <2>2, Zenon DEF TokenRight
  <2> QED
    BY <2>3, Zenon DEF p
<1>4. <<used + 1>> \in Seq(SourcePlaces)
  BY <1>2
<1>5. AllRight(Flush(buffer, line_number))
  BY <1>1, BufferFlushed
<1>6. AllRight(lexed')
  BY <1>1, <1>2, <1>3, <1>4, <1>5, PushRight
<1> QED
  BY <1>1, <1>2, <1>6, EmptiedStep

LEMMA BreakStep == LexInv /\ (LineBreak \/ Separator \/ EndOfSource) => LexInv'
<1>1. ASSUME LexInv, LineBreak PROVE LexInv'
  <2>1. /\ tokenizePc = "lex" /\ used < Len(source) /\ source[used + 1] = Break /\ used' = used + 1
        /\ lexed' = Flush(buffer, line_number) /\ line_number' = line_number + 1
        /\ buffer' = <<>> /\ UNCHANGED <<source, tokenizePc>>
    BY <1>1 DEF LineBreak, LineOfBuffer, Comes
  <2>2. /\ used + 1 \in 0 .. Len(source) /\ line_number \in Nat
        /\ line_number + 1 = 1 + Cardinality(BreaksTo(used + 1))
    BY <1>1, <2>1, NextPlace
  <2>3. AllRight(lexed')
    BY <1>1, <2>1, BufferFlushed
  <2> QED
    BY <1>1, <2>1, <2>2, <2>3, EmptiedStep
<1>2. ASSUME LexInv, Separator PROVE LexInv'
  <2>1. /\ tokenizePc = "lex" /\ used < Len(source) /\ source[used + 1] # Break /\ used' = used + 1
        /\ lexed' = Flush(buffer, line_number)
        /\ buffer' = <<>> /\ UNCHANGED <<source, line_number, tokenizePc>>
    BY <1>2 DEF Separator, Separators, Comes, Break
  <2>2. /\ used + 1 \in 0 .. Len(source) /\ line_number \in Nat
        /\ line_number = 1 + Cardinality(BreaksTo(used + 1))
    BY <1>2, <2>1, NextPlace
  <2>3. AllRight(lexed')
    BY <1>2, <2>1, BufferFlushed
  <2> QED
    BY <1>2, <2>1, <2>2, <2>3, EmptiedStep
<1>3. ASSUME LexInv, EndOfSource PROVE LexInv'
  <2>1. /\ tokenizePc = "lex" /\ used' = used /\ tokenizePc' = "done"
        /\ lexed' = Flush(buffer, line_number)
        /\ buffer' = <<>> /\ UNCHANGED <<source, line_number>>
    BY <1>3 DEF EndOfSource
  <2>2. used' \in 0 .. Len(source) /\ line_number' \in Nat
    BY <1>3, <2>1 DEF LexInv
  <2>3. AllRight(lexed')
    BY <1>3, <2>1, BufferFlushed
  <2> QED
    BY <1>3, <2>1, <2>2, <2>3, EmptiedStep
<1> QED
  BY <1>1, <1>2, <1>3

LEMMA WordStep == LexInv /\ OtherCharacter => LexInv'
<1> SUFFICES ASSUME LexInv, OtherCharacter PROVE LexInv'
  OBVIOUS
<1>1. /\ tokenizePc = "lex" /\ used < Len(source) /\ source[used + 1] = "w" /\ used' = used + 1
      /\ buffer' = Append(buffer, used + 1) /\ UNCHANGED <<source, line_number, lexed, tokenizePc>>
  BY DEF OtherCharacter, Comes
<1>2. /\ used \in Nat /\ used + 1 \in 0 .. Len(source) /\ used + 1 \in SourcePlaces
      /\ source \in Seq(SourceCharacters) /\ line_number \in Nat
      /\ line_number = LineOf(used + 1)
      /\ line_number = 1 + Cardinality(BreaksTo(used + 1))
  <2>1. source[used + 1] # Break
    BY <1>1 DEF Break
  <2> QED
    BY <1>1, <2>1, NextPlace
<1>3. AllRight(lexed)' /\ SourcePlaces' = SourcePlaces /\ BreaksTo(used)' = BreaksTo(used')
  <2>1. AllRight(lexed')
    BY <1>1 DEF LexInv
  <2> QED
    BY <1>1, <2>1, SourceKept
<1>4. buffer \in Seq(SourcePlaces) /\ BufferRight
  BY <1>1 DEF LexInv
<1> DEFINE b == Append(buffer, used + 1)
<1>5. b \in Seq(SourcePlaces) /\ b # <<>> /\ b[Len(b)] = used + 1
  BY <1>2, <1>4
<1>6. BufferRight'
  <2>1. CASE buffer = <<>>
    <3>1. b = <<used + 1>> /\ b[1] = used + 1
      BY <1>2, <1>4, <2>1
    <3>2. b = Run(used + 1, used + 1)
      BY <1>2, <3>1 DEF Run
    <3>3. b[1] \in 1 .. used + 1 /\ used + 1 \in b[1] .. used + 1
      BY <1>2, <3>1
    <3> HIDE DEF b
    <3> QED
      BY <1>1, <1>2, <1>5, <3>1, <3>2, <3>3 DEF BufferRight, LineOf, b
  <2>2. CASE buffer # <<>>
    <3> DEFINE f == buffer[1]
               l == buffer[Len(buffer)]
    <3>1. b[1] = f
      BY <1>4, <2>2
    <3>2. f \in 1 .. used /\ l \in f .. used
      BY <1>4, <2>2 DEF BufferRight
    <3>3. b[1] \in 1 .. used + 1 /\ used + 1 \in b[1] .. used + 1
      BY <1>2, <3>1, <3>2
    <3>4. CASE buffer = Run(f, used) /\ line_number = LineOf(f)
      <4> HIDE DEF f, l
      <4>1. Run(f, used) \o Run(used + 1, used + 1) = Run(f, used + 1)
        <5>1. f \in Nat /\ used + 1 \in Nat /\ f <= used /\ used < used + 1
          BY <1>2, <3>2
        <5> QED
          BY <1>2, <5>1, RunMore, Zenon
      <4>2. Run(used + 1, used + 1) = <<used + 1>>
        BY <1>2 DEF Run
      <4>3. b = buffer \o <<used + 1>>
        BY <1>2, <1>4
      <4>4. b = Run(f, used + 1)
        BY <3>4, <4>1, <4>2, <4>3, Zenon
      <4> HIDE DEF b
      <4> QED
        BY <1>1, <1>2, <1>5, <3>1, <3>3, <3>4, <4>4 DEF BufferRight, LineOf, b
    <3>5. CASE GluedIn(f, l)
      <4> HIDE DEF f, l
      <4>1. GluedIn(f, used + 1)
        BY <1>2, <3>2, <3>5 DEF GluedIn
      <4> HIDE DEF b
      <4> QED
        BY <1>1, <1>2, <1>5, <3>1, <3>3, <4>1 DEF BufferRight, GluedIn, Glued, b
    <3> QED
      BY <1>4, <2>2, <3>4, <3>5 DEF BufferRight
  <2> QED
    BY <2>1, <2>2
<1> QED
  BY <1>1, <1>2, <1>3, <1>5, <1>6 DEF LexInv

LEMMA CommentStep == LexInv /\ Comment => LexInv'
<1> SUFFICES ASSUME LexInv, Comment PROVE LexInv'
  OBVIOUS
<1> DEFINE end == ReadTo({Break})
<1>1. /\ tokenizePc = "lex" /\ used < Len(source) /\ source[used + 1] = ";" /\ used' = end
      /\ line_number' = IF source[end] = Break THEN line_number + 1 ELSE line_number
      /\ UNCHANGED <<source, buffer, lexed, tokenizePc>>
  BY DEF Comment, Comes
<1>2. /\ used \in Nat /\ used + 1 \in SourcePlaces /\ source \in Seq(SourceCharacters) /\ line_number \in Nat
      /\ line_number = 1 + Cardinality(BreaksTo(used)) /\ Len(source) \in Nat
  <2>1. source \in Seq(SourceCharacters)
    BY DEF LexInv
  <2>2. Len(source) \in Nat
    BY <2>1
  <2> QED
    BY <1>1, <2>2, NextPlace, Zenon
<1>3. end \in used + 1 .. Len(source) /\ \A i \in used + 2 .. end - 1 : source[i] # Break
  BY <1>1, <1>2, ReadOf
<1> HIDE DEF end
<1>4. end \in 0 .. Len(source) /\ end - 1 \in Nat /\ used <= end - 1 /\ (end - 1) + 1 = end
  BY <1>2, <1>3
<1>5. \A i \in used + 1 .. end - 1 : source[i] # Break
  <2> TAKE i \in used + 1 .. end - 1
  <2>1. CASE i = used + 1
    BY <1>1, <2>1 DEF Break
  <2>2. CASE i # used + 1
    BY <1>2, <1>3, <2>2
  <2> QED
    BY <2>1, <2>2
<1>6. BreaksTo(end - 1) = BreaksTo(used)
  BY <1>2, <1>4, <1>5, BreaksKept
<1>7. Cardinality(BreaksTo(used)) \in Nat
  BY <1>2, BreaksFinite
<1>8. line_number' = 1 + Cardinality(BreaksTo(end)) /\ line_number' \in Nat
  <2>1. CASE source[end] = Break
    <3>1. Cardinality(BreaksTo(end)) = Cardinality(BreaksTo(used)) + 1
      BY <1>4, <1>6, <2>1, BreaksMore
    <3>2. line_number' = line_number + 1
      BY <1>1, <2>1, Zenon
    <3> QED
      BY <1>2, <1>7, <3>1, <3>2
  <2>2. CASE source[end] # Break
    <3>1. \A i \in (end - 1) + 1 .. end : source[i] # Break
      BY <1>4, <2>2
    <3>2. BreaksTo(end) = BreaksTo(end - 1)
      BY <1>4, <3>1, BreaksKept
    <3> QED
      BY <1>1, <1>2, <1>6, <2>2, <3>2
  <2> QED
    BY <2>1, <2>2
<1>9. AllRight(lexed)' /\ SourcePlaces' = SourcePlaces /\ BreaksTo(used)' = BreaksTo(used')
  <2>1. AllRight(lexed')
    BY <1>1 DEF LexInv
  <2> QED
    BY <1>1, <2>1, SourceKept
<1>10. BufferRight'
  <2>1. BufferRight
    BY <1>1 DEF LexInv
  <2> SUFFICES ASSUME buffer # <<>>
               PROVE  /\ buffer[1] \in 1 .. end /\ buffer[Len(buffer)] \in buffer[1] .. end
                      /\ GluedIn(buffer[1], buffer[Len(buffer)])
    BY <1>1 DEF BufferRight, GluedIn, Glued
  <2> DEFINE f == buffer[1]
             l == buffer[Len(buffer)]
  <2>2. f \in 1 .. used /\ l \in f .. used
    BY <2>1 DEF BufferRight
  <2>3. GluedIn(f, l)
    <3>1. CASE buffer = Run(f, used) /\ source[used] = "w"
      <4>1. f \in Nat /\ f <= used
        BY <1>2, <2>2
      <4>2. l = used
        <5>1. f \in Nat /\ buffer = Run(f, used)
          BY <3>1, <4>1
        <5> HIDE DEF f
        <5>2. Run(f, used)[Len(Run(f, used))] = used
          BY <1>2, <4>1, RunOf
        <5> QED
          BY <5>1, <5>2, Zenon
      <4>3. Glued(used + 1)
        <5>1. used + 1 \in 2 .. Len(source) /\ (used + 1) - 1 = used
          BY <1>2, <2>2 DEF SourcePlaces
        <5> QED
          BY <1>1, <3>1, <5>1 DEF Glued
      <4>4. used + 1 \in f .. l + 1
        BY <1>2, <4>1, <4>2
      <4> QED
        BY <4>3, <4>4 DEF GluedIn
    <3> QED
      BY <2>1, <3>1 DEF BufferRight
  <2>4. f \in 1 .. end /\ l \in f .. end
    BY <1>2, <1>3, <2>2
  <2> QED
    BY <2>3, <2>4
<1> QED
  BY <1>1, <1>4, <1>8, <1>9, <1>10 DEF LexInv

LEMMA WiderSeq == ASSUME NEW S, NEW T, NEW s \in Seq(S), S \subseteq T PROVE s \in Seq(T)
OBVIOUS

LEMMA StringStep == LexInv /\ StringLiteral => LexInv'
<1> SUFFICES ASSUME LexInv, StringLiteral PROVE LexInv'
  OBVIOUS
<1> DEFINE end == ReadTo({Quote, Break})
           body == [k \in 1 .. end - used |-> used + k]
           tail == IF end = used + 1 THEN <<end, end>> ELSE body
<1>1. /\ tokenizePc = "lex" /\ used < Len(source) /\ source[used + 1] = Quote /\ used' = end
      /\ UNCHANGED <<source, line_number>>
  BY DEF StringLiteral, Comes
<1>2. /\ used \in Nat /\ source \in Seq(SourceCharacters) /\ line_number \in Nat
      /\ line_number = 1 + Cardinality(BreaksTo(used)) /\ line_number = LineOf(used + 1)
  BY <1>1, NextPlace, Zenon
<1>a. Len(source) \in Nat
  BY <1>2
<1>3. /\ end \in used + 1 .. Len(source) /\ (end = used + 1 => used + 1 = Len(source))
      /\ \A i \in used + 2 .. end - 1 : source[i] \notin {Quote, Break}
  BY <1>1, <1>2, ReadOf, Zenon
<1>4. \/ source[end] = Break /\ tokenizePc' = "exit" /\ UNCHANGED <<buffer, lexed>>
      \/ /\ source[end] # Break
         /\ lexed' = Flush(buffer \o tail, line_number) /\ buffer' = <<>> /\ UNCHANGED tokenizePc
  BY DEF StringLiteral
<1> HIDE DEF end
<1>b. end \in 0 .. Len(source) /\ end \in SourcePlaces /\ used + 1 \in Nat /\ used + 1 <= end /\ used < end /\ end \in Nat
  BY <1>2, <1>3, <1>a DEF SourcePlaces
<1>5. CASE source[end] = Break /\ tokenizePc' = "exit" /\ UNCHANGED <<buffer, lexed>>
  <2>1. AllRight(lexed')
    BY <1>5 DEF LexInv
  <2>2. AllRight(lexed)' /\ SourcePlaces' = SourcePlaces
    BY <1>1, <2>1, SourceKept
  <2> QED
    BY <1>1, <1>5, <1>b, <2>2 DEF LexInv
<1>6. CASE source[end] # Break /\ lexed' = Flush(buffer \o tail, line_number) /\ buffer' = <<>>
  <2>1. line_number = 1 + Cardinality(BreaksTo(end))
    <3>1. ASSUME NEW i \in used + 1 .. end PROVE source[i] # Break
      <4>1. CASE i = used + 1
        BY <1>1, <4>1 DEF Quote, Break
      <4>2. CASE i = end
        BY <1>6, <4>2
      <4>3. CASE i \in used + 2 .. end - 1
        BY <1>3, <4>3
      <4> QED
        BY <1>2, <1>b, <4>1, <4>2, <4>3
    <3>2. BreaksTo(end) = BreaksTo(used)
      BY <1>2, <1>b, <3>1, BreaksKept
    <3> QED
      BY <1>2, <3>2
  <2>2. body = Run(used + 1, end)
    BY <1>2, <1>b DEF Run
  <2>3. tail \in Seq(SourcePlaces) /\ Len(tail) # 0
    <3>1. CASE end = used + 1
      BY <1>b, <3>1
    <3>2. CASE end # used + 1
      <4>1. Run(used + 1, end) \in Seq(used + 1 .. end) /\ Len(Run(used + 1, end)) = end - (used + 1) + 1
        BY <1>2, <1>b, RunOf
      <4>2. used + 1 .. end \subseteq SourcePlaces
        BY <1>2, <1>b, <1>a DEF SourcePlaces
      <4>3. tail = Run(used + 1, end)
        BY <2>2, <3>2
      <4> HIDE DEF tail
      <4>4. tail \in Seq(SourcePlaces)
        BY <4>1, <4>2, <4>3, WiderSeq, Zenon
      <4> QED
        BY <1>2, <1>b, <4>1, <4>3, <4>4
    <3> QED
      BY <3>1, <3>2
  <2>4. buffer \in Seq(SourcePlaces) /\ BufferRight
    BY <1>1 DEF LexInv
  <2> DEFINE all == buffer \o tail
  <2>5. tail[Len(tail)] = end
    <3>1. CASE end = used + 1
      BY <1>b, <3>1
    <3>2. CASE end # used + 1
      <4>1. tail = Run(used + 1, end)
        BY <2>2, <3>2
      <4> HIDE DEF tail
      <4> QED
        BY <1>2, <1>b, <4>1, RunOf
    <3> QED
      BY <3>1, <3>2
  <2>6. end = used + 1 => Len(tail) = 2 /\ tail[1] = end
    OBVIOUS
  <2>7. end # used + 1 => tail = Run(used + 1, end)
    BY <2>2
  <2> HIDE DEF tail, body
  <2>8. /\ all \in Seq(SourcePlaces) /\ Len(all) = Len(buffer) + Len(tail) /\ Len(tail) \in Nat /\ Len(buffer) \in Nat
        /\ all[Len(all)] = end /\ all # <<>>
    BY <2>3, <2>4, <2>5
  <2>9. TokenRight(all, line_number)
    <3>1. CASE buffer = <<>>
      <4>1. all = tail
        BY <2>3, <2>4, <3>1
      <4>2. CASE end # used + 1
        <5>0. Run(used + 1, end)[1] = used + 1
          BY <1>2, <1>b, RunOf
        <5>1. tail[1] = used + 1 /\ tail[Len(tail)] = end
          BY <2>5, <2>7, <4>2, <5>0, Zenon
        <5> QED
          BY <1>2, <2>7, <4>1, <4>2, <5>1 DEF TokenRight
      <4>3. CASE end = used + 1
        <5>1. tail[1] = end /\ tail[Len(tail)] = end /\ Len(tail) = 2
          BY <2>5, <2>6, <4>3
        <5>2. end = Len(source) /\ source[end] = Quote /\ Len(tail) > end - end + 1
          BY <1>1, <1>3, <1>b, <4>3, <5>1
        <5> QED
          BY <4>1, <5>1, <5>2 DEF TokenRight
      <4> QED
        BY <4>2, <4>3
    <3>2. CASE buffer # <<>>
      <4> DEFINE f == buffer[1]
                 l == buffer[Len(buffer)]
      <4>1. f \in 1 .. used /\ l \in f .. used
        BY <2>4, <3>2 DEF BufferRight
      <4>2. all[1] = f
        BY <2>3, <2>4, <3>2
      <4>3. CASE GluedIn(f, l)
        <5> HIDE DEF f, l, all
        <5>1. GluedIn(f, end)
          BY <1>2, <1>b, <4>1, <4>3 DEF GluedIn
        <5> QED
          BY <2>8, <4>2, <5>1 DEF TokenRight
      <4>4. CASE buffer = Run(f, used) /\ line_number = LineOf(f)
        <5> HIDE DEF f, l
        <5>1. f \in Nat /\ f <= used
          BY <1>2, <4>1
        <5>2. CASE end # used + 1
          <6>1. Run(f, used) \o Run(used + 1, end) = Run(f, end)
            BY <1>2, <1>b, <5>1, RunMore, Zenon
          <6>2. all = Run(f, end)
            BY <2>7, <4>4, <5>2, <6>1, Zenon
          <6> HIDE DEF all
          <6> QED
            BY <2>8, <4>2, <4>4, <6>2 DEF TokenRight
        <5>3. CASE end = used + 1
          <6>1. Len(buffer) = used - f + 1
            BY <1>2, <4>4, <5>1, RunOf
          <6>2. end = Len(source) /\ source[end] = Quote
            BY <1>1, <1>3, <5>3
          <6>3. Len(all) > end - f + 1
            <7>1. Len(all) = Len(buffer) + Len(tail) /\ Len(tail) = 2
              BY <2>6, <2>8, <5>3, Zenon
            <7> HIDE DEF all
            <7> QED
              BY <1>2, <5>1, <5>3, <6>1, <7>1
          <6> HIDE DEF all
          <6> QED
            BY <2>8, <4>2, <6>2, <6>3 DEF TokenRight
        <5> QED
          BY <5>2, <5>3
      <4> QED
        BY <2>4, <3>2, <4>3, <4>4 DEF BufferRight
    <3> QED
      BY <3>1, <3>2
  <2> HIDE DEF all
  <2>10. AllRight(Flush(all, line_number))
    BY <2>8, <2>9, FlushRight
  <2>11. AllRight(lexed')
    BY <1>6, <2>10 DEF all
  <2> QED
    BY <1>1, <1>2, <1>6, <1>b, <2>1, <2>11, EmptiedStep
<1> QED
  BY <1>4, <1>5, <1>6

LEMMA LexStep == LexInv /\ [TokenizeNext]_tokenizeVars => LexInv'
<1>1. ASSUME LexInv, UNCHANGED tokenizeVars PROVE LexInv'
  <2>1. UNCHANGED <<source, used, buffer, line_number, lexed, tokenizePc>>
    BY <1>1 DEF tokenizeVars
  <2>2. AllRight(lexed)' /\ SourcePlaces' = SourcePlaces /\ BreaksTo(used)' = BreaksTo(used)
    BY <1>1, <2>1, SourceKept DEF LexInv
  <2>3. BufferRight => BufferRight'
    BY <2>1 DEF BufferRight, LineOf, GluedIn, Glued
  <2> QED
    BY <1>1, <2>1, <2>2, <2>3 DEF LexInv
<1> QED
  BY <1>1, ColonStep, BreakStep, WordStep, CommentStep, StringStep DEF TokenizeNext

(* Every token Tokenize makes of a source of any length is a stretch of it and *)
(* carries the number of the line it begins in, but for the two kinds of       *)
(* source that the property names.                                             *)
THEOREM TokensKeepTheirLines == TokenizeSpec => []TokensInTheirLines
<1>1. TokenizeInit => LexInv
  <2> SUFFICES ASSUME TokenizeInit PROVE LexInv
    OBVIOUS
  <2>1. used = 0 /\ buffer = <<>> /\ line_number = 1 /\ lexed = <<>>
    BY DEF TokenizeInit
  <2>2. PICK n \in 0 .. MaxSource : source \in [1 .. n -> SourceCharacters]
    BY DEF TokenizeInit
  <2>3. source \in Seq(SourceCharacters)
    BY <2>2, SourceAssumption
  <2>4. Cardinality(BreaksTo(used)) = 0
    <3>1. BreaksTo(used) = {}
      BY <2>1 DEF BreaksTo
    <3> QED
      BY <3>1, FS_EmptySet
  <2> QED
    BY <2>1, <2>3, <2>4 DEF LexInv, AllRight, BufferRight
<1>2. LexInv => TokensInTheirLines
  <2> SUFFICES ASSUME LexInv, NEW k \in DOMAIN lexed
               PROVE  TokenRight(lexed[k].places, lexed[k].line_)
    BY DEF TokensInTheirLines, TokenRight, Run, GluedIn
  <2> QED
    BY DEF LexInv, AllRight
<1> QED
  BY <1>1, <1>2, LexStep, PTL DEF TokenizeSpec
=============================================================================
