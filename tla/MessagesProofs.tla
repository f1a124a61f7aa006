--------------------------- MODULE MessagesProofs ---------------------------
(***************************************************************************)
(* The bytes of psycal's events and of fttl's datagrams, for any base, texts *)
(* and buffer sizes: what is decoded is what was encoded.  Events arrive as  *)
(* they were sent as far as there was room, and of a file cut anywhere every *)
(* whole record is read.                                                     *)
(***************************************************************************)
EXTENDS EventBytes, TTLMessage, WellFoundedInduction, TLAPS

(* Induction over a set of numbers, from the well-foundedness of Nat. *)
LEMMA NatInduct ==
    ASSUME NEW T, 0 \in T, \A n \in Nat : n \in T => n + 1 \in T
    PROVE  Nat \subseteq T
<1> DEFINE B == Nat \ T
           R == OpToRel(<, Nat)
<1>1. SUFFICES ASSUME B # {} PROVE FALSE
  OBVIOUS
<1>2. IsWellFoundedOn(R, Nat)
  BY NatLessThanWellFounded
<1>3. PICK x \in B : \A y \in B : ~ (<<y, x>> \in R)
  <2>1. B \subseteq Nat
    OBVIOUS
  <2> HIDE DEF B, R
  <2> QED
    BY <1>1, <1>2, <2>1, WFMin
<1>4. x - 1 \in B
  OBVIOUS
<1>5. <<x - 1, x>> \in R
  BY DEF OpToRel
<1> QED
  BY <1>3, <1>4, <1>5

-----------------------------------------------------------------------------
(* A function f on 0 .. m whose values each follow from the one before: it    *)
(* exists.  Sums of a sequence of numbers a are such functions.               *)
SumsOf(f, a, m) == f = [n \in 0 .. m |-> IF n = 0 THEN 0 ELSE f[n - 1] + a[n]]

LEMMA SumsExist ==
    ASSUME NEW a
    PROVE  \A m \in Nat : \E f : SumsOf(f, a, m)
<1> DEFINE T == {m \in Nat : \E f : SumsOf(f, a, m)}
<1>1. 0 \in T
  <2>1. SumsOf([n \in 0 .. 0 |-> 0], a, 0)
    BY DEF SumsOf
  <2> QED
    BY <2>1
<1>2. ASSUME NEW m \in Nat, m \in T PROVE m + 1 \in T
  <2>1. PICK f : SumsOf(f, a, m)
    BY <1>2
  <2> DEFINE h == [n \in 0 .. m + 1 |-> IF n <= m THEN f[n] ELSE f[m] + a[m + 1]]
  <2>2. \A n \in 0 .. m : f[n] = IF n = 0 THEN 0 ELSE f[n - 1] + a[n]
    BY <2>1, Zenon DEF SumsOf
  <2>3. \A n \in 0 .. m + 1 : h[n] = IF n = 0 THEN 0 ELSE h[n - 1] + a[n]
    BY <2>2
  <2>4. SumsOf(h, a, m + 1)
    BY <2>3 DEF SumsOf
  <2> QED
    BY <2>4
<1>3. Nat \subseteq T
  <2> HIDE DEF T
  <2> QED
    BY <1>1, <1>2, NatInduct
<1> QED
  BY <1>3

-----------------------------------------------------------------------------
(* The codec.                                                                *)

LEMMA WeightDef ==
    /\ Weight[0] = 1
    /\ \A k \in 1 .. 8 : Weight[k] = Base * Weight[k - 1]
<1> DEFINE Weighs(f) == f = [k \in 0 .. 8 |-> IF k = 0 THEN 1 ELSE Base * f[k - 1]]
           b0 == 1
           b1 == Base * b0
           b2 == Base * b1
           b3 == Base * b2
           b4 == Base * b3
           b5 == Base * b4
           b6 == Base * b5
           b7 == Base * b6
           b8 == Base * b7
           g == [k \in 0 .. 8 |-> IF k = 0 THEN b0 ELSE IF k = 1 THEN b1 ELSE IF k = 2 THEN b2
                  ELSE IF k = 3 THEN b3 ELSE IF k = 4 THEN b4 ELSE IF k = 5 THEN b5
                  ELSE IF k = 6 THEN b6 ELSE IF k = 7 THEN b7 ELSE b8]
<1>1. \A k \in 0 .. 8 : g[k] = IF k = 0 THEN 1 ELSE Base * g[k - 1]
  <2> HIDE DEF b0, b1, b2, b3, b4, b5, b6, b7, b8
  <2>1. b0 = 1 /\ b1 = Base * b0 /\ b2 = Base * b1 /\ b3 = Base * b2 /\ b4 = Base * b3
        /\ b5 = Base * b4 /\ b6 = Base * b5 /\ b7 = Base * b6 /\ b8 = Base * b7
    BY DEF b0, b1, b2, b3, b4, b5, b6, b7, b8
  <2> QED
    BY <2>1
<1>2. Weighs(g)
  <2> HIDE DEF b0, b1, b2, b3, b4, b5, b6, b7, b8
  <2> QED
    BY <1>1
<1> HIDE DEF g
<1>3. Weight = CHOOSE f : Weighs(f)
  BY DEF Weight
<1>4. Weighs(Weight)
  BY <1>2, <1>3, Zenon
<1>5. \A k \in 0 .. 8 : Weight[k] = IF k = 0 THEN 1 ELSE Base * Weight[k - 1]
  BY <1>4, Zenon
<1> QED
  BY <1>5

LEMMA ProductPositive == \A x, y \in Nat \ {0} : x * y \in Nat \ {0}
  OBVIOUS

LEMMA WeightType == \A k \in 0 .. 8 : Weight[k] \in Nat \ {0}
<1> DEFINE T == {k \in Nat : k <= 8 => Weight[k] \in Nat \ {0}}
<1>1. 0 \in T
  BY WeightDef
<1>2. ASSUME NEW k \in Nat, k \in T PROVE k + 1 \in T
  <2> SUFFICES ASSUME k + 1 <= 8 PROVE Weight[k + 1] \in Nat \ {0}
    OBVIOUS
  <2>1. k + 1 \in 1 .. 8 /\ (k + 1) - 1 = k /\ Weight[k] \in Nat \ {0}
    BY <1>2
  <2>2. Weight[k + 1] = Base * Weight[k]
    BY <2>1, WeightDef
  <2> QED
    BY <2>1, <2>2, ProductPositive, BaseAssumption
<1>3. Nat \subseteq T
  <2> HIDE DEF T
  <2> QED
    BY <1>1, <1>2, NatInduct
<1> QED
  BY <1>3

LEMMA DivMod ==
    ASSUME NEW m \in Nat \ {0}, NEW x \in Nat
    PROVE  /\ x \div m \in Nat /\ x % m \in 0 .. m - 1
           /\ x = m * (x \div m) + (x % m)
  OBVIOUS

LEMMA Exceeds ==
    ASSUME NEW m \in Nat, NEW p \in Nat, NEW q \in Nat, p < q
    PROVE  m * p + m <= m * q
<1>1. PICK d \in Nat : q = p + 1 + d
  <2> WITNESS q - p - 1 \in Nat
  <2> QED
    OBVIOUS
<1>2. m * q = m * p + m + m * d /\ m * d \in Nat
  BY <1>1
<1> QED
  BY <1>2

(* The remainder is the one number with that property. *)
LEMMA ModUnique ==
    ASSUME NEW m \in Nat \ {0}, NEW q \in Nat, NEW r \in 0 .. m - 1
    PROVE  (m * q + r) % m = r
<1> DEFINE x == m * q + r
           p == x \div m
           s == x % m
<1>1. x \in Nat
  OBVIOUS
<1>2. p \in Nat /\ s \in 0 .. m - 1 /\ x = m * p + s
  BY <1>1, DivMod
<1> HIDE DEF p, s
<1>3. m * q + r = m * p + s
  BY <1>2
<1>4. ~(p < q)
  <2> SUFFICES ASSUME p < q PROVE FALSE
    OBVIOUS
  <2>1. m * p + m <= m * q
    BY <1>2, Exceeds
  <2> QED
    BY <1>2, <1>3, <2>1
<1>5. ~(q < p)
  <2> SUFFICES ASSUME q < p PROVE FALSE
    OBVIOUS
  <2>1. m * q + m <= m * p
    BY <1>2, Exceeds
  <2> QED
    BY <1>2, <1>3, <2>1
<1>6. p = q
  BY <1>2, <1>4, <1>5
<1>7. s = r
  BY <1>2, <1>3, <1>6
<1> QED
  BY <1>7 DEF s

(* One more byte. *)
LEMMA ModStep ==
    ASSUME NEW x \in Nat, NEW w \in Nat \ {0}, NEW b \in Nat \ {0}
    PROVE  x % (b * w) = (x % w) + ((x \div w) % b) * w
<1> DEFINE q == x \div w
           r == x % w
           p == q \div b
           d == q % b
<1>1. q \in Nat /\ r \in 0 .. w - 1 /\ x = w * q + r
  BY DivMod
<1>2. p \in Nat /\ d \in 0 .. b - 1 /\ q = b * p + d
  BY <1>1, DivMod
<1> HIDE DEF q, r, p, d
<1>3. x = (b * w) * p + (d * w + r)
  BY <1>1, <1>2
<1>4. d * w + r \in 0 .. b * w - 1
  BY <1>1, <1>2
<1>5. b * w \in Nat \ {0}
  BY ProductPositive
<1>6. x % (b * w) = d * w + r
  BY <1>2, <1>3, <1>4, <1>5, ModUnique
<1> QED
  BY <1>1, <1>2, <1>6 DEF q, r, p, d

(* Decoding bytes, as sums.                                                   *)
LEMMA DecodingDef ==
    ASSUME NEW bs, Len(bs) \in Nat
    PROVE  /\ Decoding(bs)[0] = 0
           /\ \A n \in 1 .. Len(bs) : Decoding(bs)[n] = Decoding(bs)[n - 1] + bs[n] * Weight[n - 1]
<1> DEFINE a == [n \in 1 .. Len(bs) |-> bs[n] * Weight[n - 1]]
           Sums(f) == f = [n \in 0 .. Len(bs) |-> IF n = 0 THEN 0 ELSE f[n - 1] + bs[n] * Weight[n - 1]]
<1>1. \E f : SumsOf(f, a, Len(bs))
  BY SumsExist
<1>2. PICK f : SumsOf(f, a, Len(bs))
  BY <1>1
<1>3. \A n \in 0 .. Len(bs) : f[n] = IF n = 0 THEN 0 ELSE f[n - 1] + a[n]
  BY <1>2, Zenon DEF SumsOf
<1>4. \A n \in 0 .. Len(bs) : f[n] = IF n = 0 THEN 0 ELSE f[n - 1] + bs[n] * Weight[n - 1]
  <2>1. \A n \in 1 .. Len(bs) : a[n] = bs[n] * Weight[n - 1]
    BY Zenon
  <2>2. \A n \in 0 .. Len(bs) : n = 0 \/ n \in 1 .. Len(bs)
    OBVIOUS
  <2> HIDE DEF a
  <2> QED
    BY <1>3, <2>1, <2>2
<1>5. Sums(f)
  <2>1. DOMAIN f = 0 .. Len(bs) /\ f = [n \in DOMAIN f |-> f[n]]
    BY <1>2 DEF SumsOf
  <2> QED
    BY <1>4, <2>1
<1>6. Decoding(bs) = CHOOSE g : Sums(g)
  BY DEF Decoding
<1>7. Sums(Decoding(bs))
  BY <1>5, <1>6, Zenon
<1>8. \A n \in 0 .. Len(bs) : Decoding(bs)[n] =
          IF n = 0 THEN 0 ELSE Decoding(bs)[n - 1] + bs[n] * Weight[n - 1]
  BY <1>7, Zenon
<1> QED
  BY <1>8

LEMMA EncodeType ==
    ASSUME NEW x \in Nat, NEW n \in 0 .. 8
    PROVE  Encode(x, n) \in Seq(Bytes) /\ Len(Encode(x, n)) = n
<1>1. \A k \in 1 .. n : (x \div Weight[k - 1]) % Base \in Bytes
  <2> SUFFICES ASSUME NEW k \in 1 .. n PROVE (x \div Weight[k - 1]) % Base \in Bytes
    OBVIOUS
  <2>1. Weight[k - 1] \in Nat \ {0}
    BY WeightType
  <2>2. x \div Weight[k - 1] \in Nat
    BY <2>1, DivMod
  <2> QED
    BY <2>2, DivMod, BaseAssumption DEF Bytes
<1>2. Encode(x, n) \in [1 .. n -> Bytes]
  BY <1>1 DEF Encode
<1> QED
  BY <1>2

(* The first n bytes of a number are its remainder. *)
LEMMA DecodesRemainder ==
    ASSUME NEW x \in Nat, NEW n \in 0 .. 8
    PROVE  Decode(Encode(x, n)) = x % Weight[n]
<1> DEFINE bs == Encode(x, n)
           T == {k \in Nat : k <= n => Decoding(bs)[k] = x % Weight[k]}
<1>1. Len(bs) = n /\ \A k \in 1 .. n : bs[k] = (x \div Weight[k - 1]) % Base
  <2>1. Len(bs) = n
    BY EncodeType
  <2> QED
    BY <2>1 DEF Encode
<1>2. /\ Decoding(bs)[0] = 0
      /\ \A k \in 1 .. n : Decoding(bs)[k] = Decoding(bs)[k - 1] + bs[k] * Weight[k - 1]
  <2> HIDE DEF bs
  <2> QED
    BY <1>1, DecodingDef
<1> HIDE DEF bs
<1>3. 0 \in T
  BY <1>2, WeightDef
<1>4. ASSUME NEW k \in Nat, k \in T PROVE k + 1 \in T
  <2> SUFFICES ASSUME k + 1 <= n PROVE Decoding(bs)[k + 1] = x % Weight[k + 1]
    OBVIOUS
  <2>1. k + 1 \in 1 .. n /\ k + 1 \in 1 .. 8 /\ (k + 1) - 1 = k /\ Decoding(bs)[k] = x % Weight[k]
    BY <1>4
  <2>2. Weight[k] \in Nat \ {0} /\ Weight[k + 1] = Base * Weight[k]
    BY <2>1, WeightType, WeightDef
  <2>3. x % Weight[k + 1] = (x % Weight[k]) + ((x \div Weight[k]) % Base) * Weight[k]
    <3>1. Base \in Nat \ {0}
      BY BaseAssumption
    <3> QED
      BY <2>2, <3>1, ModStep, ZenonT(40)
  <2>4. Decoding(bs)[k + 1] = Decoding(bs)[k] + bs[k + 1] * Weight[k]
    BY <1>2, <2>1
  <2>5. bs[k + 1] = (x \div Weight[k]) % Base
    BY <1>1, <2>1
  <2> QED
    BY <2>1, <2>3, <2>4, <2>5
<1>5. Nat \subseteq T
  <2> HIDE DEF T
  <2> QED
    BY <1>3, <1>4, NatInduct
<1> QED
  BY <1>1, <1>5 DEF Decode, bs

LEMMA DecodeEncode ==
    ASSUME NEW n \in 0 .. 8, NEW x \in 0 .. Weight[n] - 1
    PROVE  Decode(Encode(x, n)) = x
<1>1. Weight[n] \in Nat \ {0} /\ x \in Nat
  BY WeightType
<1>2. (Weight[n] * 0 + x) % Weight[n] = x
  BY <1>1, ModUnique
<1>3. Weight[n] * 0 + x = x
  BY <1>1
<1> QED
  BY <1>1, <1>2, <1>3, DecodesRemainder

-----------------------------------------------------------------------------
(* Sequences.                                                                *)

LEMMA SubSeqOf ==
    ASSUME NEW S, NEW s \in Seq(S), NEW t \in Nat, NEW m \in Nat, t <= m, m <= Len(s)
    PROVE  /\ SubSeq(s, t + 1, m) \in Seq(S)
           /\ Len(SubSeq(s, t + 1, m)) = m - t
           /\ \A k \in 1 .. m - t : SubSeq(s, t + 1, m)[k] = s[t + k]
  OBVIOUS

LEMMA SeqsEqual ==
    ASSUME NEW S, NEW s \in Seq(S), NEW t \in Seq(S), Len(s) = Len(t),
           \A k \in 1 .. Len(s) : s[k] = t[k]
    PROVE  s = t
  OBVIOUS

Concatenation(u, s, t, S) ==
    /\ u \in Seq(S) /\ Len(u) = Len(s) + Len(t)
    /\ \A k \in 1 .. Len(s) : u[k] = s[k]
    /\ \A k \in 1 .. Len(t) : u[Len(s) + k] = t[k]

LEMMA ConcatOf ==
    ASSUME NEW S, NEW s \in Seq(S), NEW t \in Seq(S)
    PROVE  Concatenation(s \o t, s, t, S)
  BY DEF Concatenation

LEMMA AppendOf ==
    ASSUME NEW S, NEW s \in Seq(S), NEW x \in S
    PROVE  /\ Append(s, x) \in Seq(S) /\ Len(Append(s, x)) = Len(s) + 1
           /\ \A i \in 1 .. Len(s) : Append(s, x)[i] = s[i]
           /\ Append(s, x)[Len(s) + 1] = x
  OBVIOUS

LEMMA ElementsOf ==
    ASSUME NEW S, NEW s \in Seq(S)
    PROVE  /\ Len(s) \in Nat /\ DOMAIN s = 1 .. Len(s)
           /\ \A k \in 1 .. Len(s) : s[k] \in S
           /\ s = <<>> <=> Len(s) = 0
  OBVIOUS

-----------------------------------------------------------------------------
(* Events on their way.                                                      *)

Numbers == 0 .. Weight[8] - 1
Sent == [stamp : Stamps, text : Texts]
Arrived == [stamp : Numbers, text : Seq(Bytes)]

LEMMA SentType ==
    ASSUME NEW e \in Sent
    PROVE  /\ e.stamp \in Numbers /\ e.stamp \in Nat
           /\ e.text \in Seq(Bytes) /\ Len(e.text) \in Numbers /\ Len(e.text) \in Nat
           /\ \A k \in 1 .. Len(e.text) : e.text[k] \in Bytes /\ e.text[k] # 0
<1>1. e.stamp \in Stamps /\ e.text \in Texts
  BY DEF Sent
<1>2. Weight[8] \in Nat
  BY WeightType
<1>3. e.text \in Seq(Bytes) /\ Len(e.text) < Weight[8] /\ \A k \in DOMAIN e.text : e.text[k] # 0
  BY <1>1, BytesAssumption
<1>4. Len(e.text) \in Nat /\ \A k \in 1 .. Len(e.text) : e.text[k] \in Bytes /\ e.text[k] # 0
  BY <1>3
<1>5. Stamps \subseteq Numbers /\ Numbers \subseteq Nat
  BY BytesAssumption DEF Numbers
<1>6. Len(e.text) \in Numbers
  BY <1>2, <1>3, <1>4 DEF Numbers
<1> QED
  BY <1>1, <1>3, <1>4, <1>5, <1>6

LEMMA ByteType == 0 \in Bytes /\ Base - 1 \in Bytes /\ Bytes \subseteq Nat
  BY BaseAssumption DEF Bytes

LEMMA EncodeU64Type ==
    ASSUME NEW x \in Nat
    PROVE  EncodeU64LE(x) \in Seq(Bytes) /\ Len(EncodeU64LE(x)) = 8
<1>1. 8 \in 0 .. 8
  OBVIOUS
<1> QED
  BY <1>1, EncodeType, Zenon DEF EncodeU64LE

(* Eight bytes of a number among others. *)
LEMMA NumberAt ==
    ASSUME NEW mem \in Seq(Bytes), NEW p \in Nat, p + 8 <= Len(mem), NEW x \in Numbers,
           \A k \in 1 .. 8 : mem[p + k] = EncodeU64LE(x)[k]
    PROVE  SubSeq(mem, p + 1, p + 8) = EncodeU64LE(x) /\ Decode(SubSeq(mem, p + 1, p + 8)) = x
<1>0. x \in Nat
  BY DEF Numbers
<1> DEFINE cut == SubSeq(mem, p + 1, p + 8)
           code == EncodeU64LE(x)
<1>1. code \in Seq(Bytes) /\ Len(code) = 8
  BY <1>0, EncodeU64Type
<1>2. cut \in Seq(Bytes) /\ Len(cut) = (p + 8) - p
      /\ \A k \in 1 .. (p + 8) - p : cut[k] = mem[p + k]
  <2>1. p + 8 \in Nat /\ p <= p + 8
    OBVIOUS
  <2> HIDE DEF code
  <2> QED
    BY <2>1, SubSeqOf
<1>3. \A k \in 1 .. 8 : mem[p + k] = code[k]
  OBVIOUS
<1> HIDE DEF cut, code
<1>4. (p + 8) - p = 8
  OBVIOUS
<1>5. \A k \in 1 .. 8 : cut[k] = code[k]
  BY <1>2, <1>3, <1>4
<1>6. cut = code
  BY <1>1, <1>2, <1>4, <1>5, SeqsEqual
<1>7. Decode(code) = x
  <2>1. 8 \in 0 .. 8 /\ x \in 0 .. Weight[8] - 1
    BY DEF Numbers
  <2> QED
    BY <2>1, DecodeEncode DEF EncodeU64LE, code
<1> QED
  BY <1>6, <1>7 DEF cut, code

(* A number read from a buffer is the eight bytes there. *)
LEMMA U64At ==
    ASSUME NEW mem \in Seq(Bytes), NEW p \in Nat, p + 8 <= Len(mem), NEW x \in Numbers,
           \A k \in 1 .. 8 : mem[p + k] = EncodeU64LE(x)[k]
    PROVE  DecodeU64LE(SubSeq(mem, p + 1, p + 8)) = x
<1> DEFINE cut == SubSeq(mem, p + 1, p + 8)
<1>1. cut = EncodeU64LE(x) /\ Decode(cut) = x
  BY NumberAt
<1>2. cut \in Seq(Bytes) /\ Len(cut) = 8
  BY <1>1, EncodeU64Type DEF Numbers
<1> HIDE DEF cut
<1>3. SubSeq(cut, 1, 8) = cut
  BY <1>2
<1> QED
  BY <1>1, <1>3 DEF DecodeU64LE, cut

(* n bytes, the first of them those of bs. *)
StartsWith(mem, n, bs) ==
    /\ mem \in Seq(Bytes) /\ Len(mem) = n
    /\ \A k \in 1 .. n : k <= Len(bs) => mem[k] = bs[k]

LEMMA MemoryOf ==
    ASSUME NEW bs \in Seq(Bytes), NEW n \in Nat, NEW filler \in Bytes
    PROVE  StartsWith(Memory(bs, n, filler), n, bs)
<1>1. \A k \in 1 .. n : (IF k <= Len(bs) THEN bs[k] ELSE filler) \in Bytes
  OBVIOUS
<1>2. Memory(bs, n, filler) \in [1 .. n -> Bytes]
  BY <1>1 DEF Memory
<1> QED
  BY <1>2 DEF Memory, StartsWith

(* Two numbers and a text, as IntoBuffer and a record of the file have them. *)
Layout(bs, e) ==
    /\ bs \in Seq(Bytes) /\ Len(bs) = 16 + Len(e.text)
    /\ \A k \in 1 .. 8 : bs[0 + k] = EncodeU64LE(e.stamp)[k]
    /\ \A k \in 1 .. 8 : bs[8 + k] = EncodeU64LE(Len(e.text))[k]
    /\ \A k \in 1 .. Len(e.text) : bs[16 + k] = e.text[k]

TwoAndText(u, a, b, t, S) ==
    /\ u \in Seq(S) /\ Len(u) = Len(a) + (Len(b) + Len(t))
    /\ \A k \in 1 .. Len(a) : u[k] = a[k]
    /\ \A k \in 1 .. Len(b) : u[Len(a) + k] = b[k]
    /\ \A k \in 1 .. Len(t) : u[(Len(a) + Len(b)) + k] = t[k]

LEMMA ConcatThree ==
    ASSUME NEW S, NEW a \in Seq(S), NEW b \in Seq(S), NEW t \in Seq(S)
    PROVE  TwoAndText(a \o (b \o t), a, b, t, S)
<1> DEFINE c == b \o t
           u == a \o c
<1>1. Concatenation(c, b, t, S)
  BY ConcatOf
<1>2. c \in Seq(S)
  BY <1>1 DEF Concatenation
<1> HIDE DEF c
<1>3. Concatenation(u, a, c, S)
  BY <1>2, ConcatOf
<1> HIDE DEF u
<1>5. Len(u) = Len(a) + (Len(b) + Len(t))
  BY <1>1, <1>3, Zenon DEF Concatenation
<1>6. Len(a) \in Nat /\ Len(b) \in Nat /\ Len(t) \in Nat /\ Len(c) = Len(b) + Len(t)
  BY <1>1 DEF Concatenation
<1>7. \A k \in 1 .. Len(b) : u[Len(a) + k] = b[k]
  <2>1. \A k \in 1 .. Len(b) : k \in 1 .. Len(c)
    BY <1>6
  <2> QED
    BY <1>1, <1>3, <2>1, Zenon DEF Concatenation
<1>8. \A k \in 1 .. Len(t) : u[(Len(a) + Len(b)) + k] = t[k]
  <2> SUFFICES ASSUME NEW k \in 1 .. Len(t) PROVE u[(Len(a) + Len(b)) + k] = t[k]
    OBVIOUS
  <2>1. Len(b) + k \in 1 .. Len(c) /\ (Len(a) + Len(b)) + k = Len(a) + (Len(b) + k)
    BY <1>6
  <2>2. u[Len(a) + (Len(b) + k)] = c[Len(b) + k] /\ c[Len(b) + k] = t[k]
    BY <1>1, <1>3, <2>1, Zenon DEF Concatenation
  <2> QED
    BY <2>1, <2>2
<1>9. TwoAndText(u, a, b, t, S)
  BY <1>3, <1>5, <1>7, <1>8, Zenon DEF Concatenation, TwoAndText
<1> QED
  BY <1>9, Zenon DEF u, c

LEMMA RecordLayout ==
    ASSUME NEW e, e.stamp \in Nat, e.text \in Seq(Bytes)
    PROVE  Layout(Record(e), e) /\ IntoBuffer(e) = Record(e)
<1> DEFINE a == EncodeU64LE(e.stamp)
           b == EncodeU64LE(Len(e.text))
           t == e.text
           all == a \o (b \o t)
<1>0. Len(e.text) \in Nat
  OBVIOUS
<1>1. a \in Seq(Bytes) /\ Len(a) = 8
  BY EncodeU64Type
<1>2. b \in Seq(Bytes) /\ Len(b) = 8
  BY <1>0, EncodeU64Type
<1>3. t \in Seq(Bytes) /\ Len(t) \in Nat
  OBVIOUS
<1> HIDE DEF a, b, t
<1>4. TwoAndText(all, a, b, t, Bytes) /\ (a \o b) \o t = all
  <2>1. a \in Seq(Bytes) /\ b \in Seq(Bytes) /\ t \in Seq(Bytes)
    BY <1>1, <1>2, <1>3
  <2>2. TwoAndText(a \o (b \o t), a, b, t, Bytes)
    BY <2>1, ConcatThree
  <2>3. (a \o b) \o t = a \o (b \o t)
    BY <2>1
  <2> QED
    BY <2>2, <2>3
<1>5. Record(e) = all /\ IntoBuffer(e) = all
  BY <1>4, Zenon DEF Record, IntoBuffer, GetEncodedMessage, a, b, t
<1> HIDE DEF all
<1>6. /\ Len(all) = 16 + Len(t)
      /\ \A k \in 1 .. 8 : all[0 + k] = a[k]
      /\ \A k \in 1 .. 8 : all[8 + k] = b[k]
      /\ \A k \in 1 .. Len(t) : all[16 + k] = t[k]
  <2>1. Len(a) + Len(b) = 16 /\ Len(a) + (Len(b) + Len(t)) = 16 + Len(t)
    BY <1>1, <1>2, <1>3
  <2>2. \A k \in 1 .. 8 : 0 + k = k
    OBVIOUS
  <2> QED
    BY <1>1, <1>2, <1>4, <2>1, <2>2, Zenon DEF TwoAndText
<1>7. Layout(all, e)
  BY <1>4, <1>6 DEF TwoAndText, Layout, a, b, t
<1> QED
  BY <1>5, <1>7

(* Of an event that arrived: its time, its length, and what had room. *)
ArrivesAs(a, e) ==
    /\ a.stamp = e.stamp /\ Len(a.text) = Len(e.text)
    /\ \A k \in 1 .. Len(e.text) : k <= kMaxUDPSize - 16 => a.text[k] = e.text[k]

NetInv ==
    /\ sent \in Seq(Sent) /\ arrived \in Seq(Arrived)
    /\ wire = <<>> => Len(arrived) = Len(sent)
    /\ wire # <<>> =>
          /\ Len(sent) = Len(arrived) + 1
          /\ \E heap \in Bytes : wire = Memory(IntoBuffer(sent[Len(sent)]), kMaxUDPSize, heap)
    /\ pc # "listen" => wire = <<>>
    /\ \A k \in 1 .. Len(arrived) : ArrivesAs(arrived[k], sent[k])

(* What FromBuffer makes of a datagram. *)
LEMMA FromBuffer ==
    ASSUME NEW e \in Sent, NEW heap \in Bytes, NEW stack \in Bytes,
           NEW w, w = Memory(IntoBuffer(e), kMaxUDPSize, heap),
           NEW mem, mem = Memory(w, kMaxUDPSize + SizeAt(w), stack),
           NEW a, a = [stamp |-> DecodeU64LE(mem), text |-> TextAt(mem)]
    PROVE  a \in Arrived /\ ArrivesAs(a, e)
<1>0. kMaxUDPSize \in Nat /\ kMaxUDPSize >= 16
  BY BytesAssumption
<1>1. /\ e.stamp \in Numbers /\ e.stamp \in Nat
      /\ e.text \in Seq(Bytes) /\ Len(e.text) \in Numbers /\ Len(e.text) \in Nat
  BY SentType
<1> DEFINE bs == IntoBuffer(e)
<1>2. Layout(bs, e)
  BY <1>1, RecordLayout
<1>3. bs \in Seq(Bytes) /\ Len(bs) = 16 + Len(e.text)
  BY <1>2 DEF Layout
<1>4. w \in Seq(Bytes) /\ Len(w) = kMaxUDPSize
      /\ \A k \in 1 .. kMaxUDPSize : k <= Len(bs) => w[k] = bs[k]
  BY <1>0, <1>3, MemoryOf, Zenon DEF StartsWith
<1> HIDE DEF bs
<1>5. \A k \in 1 .. 16 : w[k] = bs[k]
  BY <1>0, <1>1, <1>3, <1>4
<1>6. SizeAt(w) = Len(e.text)
  <2>1. \A k \in 1 .. 8 : w[8 + k] = EncodeU64LE(Len(e.text))[k]
    <3>1. \A k \in 1 .. 8 : 8 + k \in 1 .. 16
      OBVIOUS
    <3> QED
      BY <1>2, <1>5, <3>1 DEF Layout
  <2>2. DecodeU64LE(SubSeq(w, 8 + 1, 8 + 8)) = Len(e.text)
    <3>1. 8 + 8 <= Len(w)
      BY <1>0, <1>4
    <3> QED
      BY <1>1, <1>4, <2>1, <3>1, U64At
  <2> QED
    BY <2>2 DEF SizeAt
<1>7. mem \in Seq(Bytes) /\ Len(mem) = kMaxUDPSize + Len(e.text)
      /\ \A k \in 1 .. kMaxUDPSize + Len(e.text) : k <= kMaxUDPSize => mem[k] = w[k]
  <2>1. kMaxUDPSize + Len(e.text) \in Nat /\ mem = Memory(w, kMaxUDPSize + Len(e.text), stack)
    BY <1>0, <1>1, <1>6
  <2>2. StartsWith(mem, kMaxUDPSize + Len(e.text), w)
    BY <1>4, <2>1, MemoryOf, Zenon
  <2> QED
    BY <1>4, <2>2, Zenon DEF StartsWith
<1>8. \A k \in 1 .. 16 : mem[k] = bs[k]
  <2>1. \A k \in 1 .. 16 : k \in 1 .. kMaxUDPSize + Len(e.text) /\ k <= kMaxUDPSize
    BY <1>0, <1>1
  <2> QED
    BY <1>5, <1>7, <2>1, Zenon
<1>9. DecodeU64LE(mem) = e.stamp
  <2>1. \A k \in 1 .. 8 : mem[0 + k] = EncodeU64LE(e.stamp)[k]
    <3>1. \A k \in 1 .. 8 : 0 + k \in 1 .. 16
      OBVIOUS
    <3> QED
      BY <1>2, <1>8, <3>1, Zenon DEF Layout
  <2>2. 0 + 8 <= Len(mem) /\ 0 \in Nat
    BY <1>0, <1>1, <1>7
  <2>3. Decode(SubSeq(mem, 0 + 1, 0 + 8)) = e.stamp
    BY <1>1, <1>7, <2>1, <2>2, NumberAt
  <2> QED
    BY <2>3 DEF DecodeU64LE
<1>10. SizeAt(mem) = Len(e.text)
  <2>1. \A k \in 1 .. 8 : mem[8 + k] = EncodeU64LE(Len(e.text))[k]
    <3>1. \A k \in 1 .. 8 : 8 + k \in 1 .. 16
      OBVIOUS
    <3> QED
      BY <1>2, <1>8, <3>1 DEF Layout
  <2>2. DecodeU64LE(SubSeq(mem, 8 + 1, 8 + 8)) = Len(e.text)
    <3>1. 8 + 8 <= Len(mem)
      BY <1>0, <1>1, <1>7
    <3> QED
      BY <1>1, <1>7, <2>1, <3>1, U64At, ZenonT(40)
  <2> QED
    BY <2>2 DEF SizeAt
<1>11. TextAt(mem) = SubSeq(mem, 17, 16 + Len(e.text))
  BY <1>10 DEF TextAt
<1>12. TextAt(mem) \in Seq(Bytes) /\ Len(TextAt(mem)) = Len(e.text)
       /\ \A k \in 1 .. Len(e.text) : TextAt(mem)[k] = mem[16 + k]
  <2>1. 16 + Len(e.text) \in Nat /\ 16 <= 16 + Len(e.text) /\ 16 + Len(e.text) <= Len(mem)
        /\ (16 + Len(e.text)) - 16 = Len(e.text) /\ 16 + 1 = 17
    BY <1>0, <1>1, <1>7
  <2>2. /\ SubSeq(mem, 16 + 1, 16 + Len(e.text)) \in Seq(Bytes)
        /\ Len(SubSeq(mem, 16 + 1, 16 + Len(e.text))) = (16 + Len(e.text)) - 16
        /\ \A k \in 1 .. (16 + Len(e.text)) - 16 :
              SubSeq(mem, 16 + 1, 16 + Len(e.text))[k] = mem[16 + k]
    <3>1. 16 \in Nat
      OBVIOUS
    <3> QED
      BY <1>7, <2>1, <3>1, SubSeqOf
  <2> QED
    BY <1>11, <2>1, <2>2, Zenon
<1>13. \A k \in 1 .. Len(e.text) : k <= kMaxUDPSize - 16 => TextAt(mem)[k] = e.text[k]
  <2> SUFFICES ASSUME NEW k \in 1 .. Len(e.text), k <= kMaxUDPSize - 16
               PROVE  TextAt(mem)[k] = e.text[k]
    OBVIOUS
  <2>1. 16 + k \in 1 .. kMaxUDPSize /\ 16 + k <= Len(bs) /\ 16 + k \in 1 .. kMaxUDPSize + Len(e.text)
    BY <1>0, <1>1, <1>3
  <2>2. mem[16 + k] = bs[16 + k]
    BY <1>4, <1>7, <2>1
  <2> QED
    BY <1>2, <1>12, <2>2 DEF Layout
<1> QED
  BY <1>1, <1>9, <1>12, <1>13 DEF Arrived, ArrivesAs

LEMMA MinOfTwo ==
    ASSUME NEW a \in Int, NEW b \in Int
    PROVE  Min({a, b}) = IF a <= b THEN a ELSE b
<1> DEFINE c == IF a <= b THEN a ELSE b
<1>1. c \in {a, b} /\ \A y \in {a, b} : c <= y
  OBVIOUS
<1>2. \A x \in {a, b} : (\A y \in {a, b} : x <= y) => x = c
  OBVIOUS
<1> HIDE DEF c
<1>3. Min({a, b}) = c
  BY <1>1, <1>2, Zenon DEF Min
<1> QED
  BY <1>3 DEF c

(* The bytes a string has in common with those of another that had room. *)
LEMMA FitsPrefix ==
    ASSUME NEW text \in Seq(Bytes), NEW t \in Seq(Bytes),
           \A k \in 1 .. Len(text) : k <= kMaxUDPSize - 16 => k <= Len(t) /\ t[k] = text[k]
    PROVE  IsPrefix(Fits(text), t)
<1> DEFINE n == IF Len(text) <= kMaxUDPSize - 16 THEN Len(text) ELSE kMaxUDPSize - 16
<1>1. kMaxUDPSize - 16 \in Nat
  BY BytesAssumption
<1>2. Len(text) \in Nat /\ Len(t) \in Nat
  OBVIOUS
<1>3. n \in Nat /\ n <= Len(text) /\ n <= kMaxUDPSize - 16
  BY <1>1, <1>2
<1>4. Fits(text) = SubSeq(text, 1, n)
  <2>1. Min({Len(text), kMaxUDPSize - 16}) = n
    BY <1>1, <1>2, MinOfTwo
  <2> QED
    BY <2>1 DEF Fits
<1> HIDE DEF n
<1>5. n <= Len(t) /\ \A k \in 1 .. n : t[k] = text[k]
  <2>1. \A k \in 1 .. n : k \in 1 .. Len(text) /\ k <= kMaxUDPSize - 16
    BY <1>1, <1>2, <1>3
  <2>2. \A k \in 1 .. n : k <= Len(t) /\ t[k] = text[k]
    BY <2>1
  <2>3. n = 0 \/ n \in 1 .. n
    BY <1>3
  <2> QED
    BY <1>2, <2>2, <2>3
<1> DEFINE f == SubSeq(text, 1, n)
<1>6. f \in Seq(Bytes) /\ Len(f) = n /\ \A k \in 1 .. n : f[k] = text[k]
  BY <1>3
<1>7. SubSeq(t, 1, n) \in Seq(Bytes) /\ Len(SubSeq(t, 1, n)) = n
      /\ \A k \in 1 .. n : SubSeq(t, 1, n)[k] = t[k]
  BY <1>3, <1>5
<1> HIDE DEF f
<1>8. SubSeq(f, 1, Len(f)) = f
  BY <1>6
<1>9. SubSeq(t, 1, n) = f
  <2> DEFINE g == SubSeq(t, 1, n)
  <2>1. Len(f) = Len(g) /\ \A k \in 1 .. Len(f) : f[k] = g[k]
    BY <1>5, <1>6, <1>7
  <2> QED
    BY <1>6, <1>7, <2>1, SeqsEqual
<1> QED
  BY <1>4, <1>5, <1>6, <1>8, <1>9 DEF IsPrefix, f

LEMMA NetInit == Init => NetInv
<1> SUFFICES ASSUME Init PROVE NetInv
  OBVIOUS
<1>1. sent = <<>> /\ arrived = <<>> /\ wire = <<>> /\ pc = "listen"
  BY DEF Init
<1> QED
  BY <1>1 DEF NetInv

LEMMA NetStep == NetInv /\ [Next]_vars => NetInv'
<1> SUFFICES ASSUME NetInv, [Next]_vars PROVE NetInv'
  OBVIOUS
<1>0. kMaxUDPSize \in Nat /\ kMaxUDPSize >= 16
  BY BytesAssumption
<1>a. /\ sent \in Seq(Sent) /\ arrived \in Seq(Arrived)
      /\ \A k \in 1 .. Len(arrived) : ArrivesAs(arrived[k], sent[k])
  BY DEF NetInv
<1>b. /\ Len(sent) \in Nat /\ DOMAIN sent = 1 .. Len(sent)
      /\ \A k \in 1 .. Len(sent) : sent[k] \in Sent
  BY <1>a, ElementsOf
<1>c. Len(arrived) \in Nat
  BY <1>a, ElementsOf
<1>1. ASSUME NEW e \in [stamp : Stamps, text : Texts], SendEvent(e)
      PROVE  NetInv'
  <2>1. /\ pc = "listen" /\ wire = <<>> /\ sent' = Append(sent, e)
        /\ UNCHANGED <<pc, arrived>>
    BY <1>1 DEF SendEvent
  <2>2. PICK heap \in Bytes : wire' = Memory(IntoBuffer(e), kMaxUDPSize, heap)
    BY <1>1 DEF SendEvent
  <2>3. e \in Sent
    BY DEF Sent
  <2>4. /\ sent' \in Seq(Sent) /\ Len(sent') = Len(sent) + 1
        /\ \A k \in 1 .. Len(sent) : sent'[k] = sent[k]
        /\ sent'[Len(sent) + 1] = e
    BY <1>a, <2>1, <2>3, AppendOf
  <2>5. Len(arrived) = Len(sent)
    BY <2>1 DEF NetInv
  <2>6. wire' # <<>>
    <3>1. StartsWith(wire', kMaxUDPSize, IntoBuffer(e))
      <4>1. e.stamp \in Nat /\ e.text \in Seq(Bytes)
        BY <2>3, SentType
      <4>2. IntoBuffer(e) \in Seq(Bytes)
        BY <4>1, RecordLayout DEF Layout
      <4> QED
        BY <1>0, <2>2, <4>2, MemoryOf, Zenon
    <3> QED
      BY <1>0, <3>1 DEF StartsWith
  <2>7. sent'[Len(sent')] = e
    BY <2>4
  <2>8. \A k \in 1 .. Len(arrived) : ArrivesAs(arrived[k], sent'[k])
    BY <1>a, <2>4, <2>5
  <2> QED
    BY <1>a, <1>c, <2>1, <2>2, <2>4, <2>5, <2>6, <2>7, <2>8 DEF NetInv
<1>2. ASSUME Receive PROVE NetInv'
  <2>1. wire # <<>> /\ wire' = <<>> /\ UNCHANGED <<pc, sent>>
    BY <1>2 DEF Receive
  <2>2. PICK stack \in Bytes :
          arrived' = Append(arrived, [stamp |-> DecodeU64LE(Memory(wire, kMaxUDPSize + SizeAt(wire), stack)),
                                      text |-> TextAt(Memory(wire, kMaxUDPSize + SizeAt(wire), stack))])
    BY <1>2, Zenon DEF Receive
  <2>3. /\ Len(sent) = Len(arrived) + 1
        /\ \E heap \in Bytes : wire = Memory(IntoBuffer(sent[Len(sent)]), kMaxUDPSize, heap)
    BY <2>1 DEF NetInv
  <2>4. PICK heap \in Bytes : wire = Memory(IntoBuffer(sent[Len(sent)]), kMaxUDPSize, heap)
    BY <2>3
  <2> DEFINE mem == Memory(wire, kMaxUDPSize + SizeAt(wire), stack)
             a == [stamp |-> DecodeU64LE(mem), text |-> TextAt(mem)]
             e == sent[Len(sent)]
  <2>5. e \in Sent
    BY <1>b, <1>c, <2>3
  <2>6. a \in Arrived /\ ArrivesAs(a, e)
    BY <2>4, <2>5, FromBuffer, Zenon
  <2>7. arrived' = Append(arrived, a)
    BY <2>2, Zenon
  <2> HIDE DEF a, e
  <2>8. /\ arrived' \in Seq(Arrived) /\ Len(arrived') = Len(arrived) + 1
        /\ \A k \in 1 .. Len(arrived) : arrived'[k] = arrived[k]
        /\ arrived'[Len(arrived) + 1] = a
    BY <1>a, <2>6, <2>7, AppendOf
  <2>9. \A k \in 1 .. Len(arrived') : ArrivesAs(arrived'[k], sent[k])
    <3> SUFFICES ASSUME NEW k \in 1 .. Len(arrived') PROVE ArrivesAs(arrived'[k], sent[k])
      OBVIOUS
    <3>1. CASE k \in 1 .. Len(arrived)
      BY <1>a, <2>8, <3>1
    <3>2. CASE k = Len(arrived) + 1
      BY <2>3, <2>6, <2>8, <3>2 DEF e
    <3> QED
      BY <1>c, <2>8, <3>1, <3>2
  <2> QED
    BY <1>a, <2>1, <2>3, <2>8, <2>9 DEF NetInv
<1>3. ASSUME UNCHANGED <<sent, arrived, wire>>, pc' # "listen" => wire = <<>>
      PROVE  NetInv'
  BY <1>3 DEF NetInv
<1>4. ASSUME Snapshot PROVE NetInv'
  BY <1>3, <1>4 DEF Snapshot
<1>5. ASSUME ReadEvent PROVE NetInv'
  <2>1. UNCHANGED <<sent, arrived, wire, pc>>
    BY <1>5 DEF ReadEvent
  <2> QED
    BY <1>3, <2>1 DEF NetInv
<1>6. ASSUME ReadEnd PROVE NetInv'
  <2>1. UNCHANGED <<sent, arrived, wire>> /\ pc = "load"
    BY <1>6 DEF ReadEnd
  <2> QED
    BY <1>3, <2>1 DEF NetInv
<1>7. ASSUME NEW i, SaveCurrentEvent(i) PROVE NetInv'
  <2>1. UNCHANGED <<sent, arrived, wire, pc>>
    BY <1>7 DEF SaveCurrentEvent
  <2> QED
    BY <1>3, <2>1 DEF NetInv
<1>8. ASSUME NEW size, Restart(size) PROVE NetInv'
  <2>1. UNCHANGED <<sent, arrived, wire>> /\ pc = "save"
    BY <1>8 DEF Restart
  <2> QED
    BY <1>3, <2>1 DEF NetInv
<1>9. ASSUME UNCHANGED vars PROVE NetInv'
  <2>1. UNCHANGED <<sent, arrived, wire, pc>>
    BY <1>9 DEF vars
  <2> QED
    BY <1>3, <2>1 DEF NetInv
<1> QED
  BY <1>1, <1>2, <1>4, <1>5, <1>6, <1>7, <1>8, <1>9 DEF Next

LEMMA NetInvariant == Spec => []NetInv
  BY NetInit, NetStep, PTL DEF Spec

LEMMA NetArrives == NetInv => ArrivesAsSent
<1> SUFFICES ASSUME NetInv, NEW k \in DOMAIN arrived
             PROVE  /\ arrived[k].stamp = sent[k].stamp
                    /\ Len(arrived[k].text) = Len(sent[k].text)
                    /\ IsPrefix(Fits(sent[k].text), arrived[k].text)
  BY DEF ArrivesAsSent
<1>1. k \in 1 .. Len(arrived) /\ arrived[k] \in Arrived
  BY ElementsOf DEF NetInv
<1>2. ArrivesAs(arrived[k], sent[k])
  BY <1>1 DEF NetInv
<1>3. sent[k] \in Sent
  <2>1. Len(arrived) \in Nat /\ Len(sent) \in Nat
    BY ElementsOf DEF NetInv
  <2>2. Len(arrived) <= Len(sent)
    BY <2>1 DEF NetInv
  <2>3. k \in 1 .. Len(sent)
    BY <1>1, <2>1, <2>2
  <2> QED
    BY <2>3, ElementsOf DEF NetInv
<1>4. sent[k].text \in Seq(Bytes) /\ Len(sent[k].text) \in Nat
  BY <1>3, SentType
<1>5. arrived[k].text \in Seq(Bytes)
  BY <1>1 DEF Arrived
<1>6. \A i \in 1 .. Len(sent[k].text) : i <= kMaxUDPSize - 16 =>
          i <= Len(arrived[k].text) /\ arrived[k].text[i] = sent[k].text[i]
  BY <1>2, <1>4 DEF ArrivesAs
<1>7. IsPrefix(Fits(sent[k].text), arrived[k].text)
  BY <1>4, <1>5, <1>6, FitsPrefix
<1> QED
  BY <1>2, <1>7 DEF ArrivesAs

(* FromBuffer undoes IntoBuffer for every event, whatever the heap and the   *)
(* stack held: events arrive in order, with their time and their length and  *)
(* all of the text that had room in the datagram.                            *)
THEOREM EventsArriveAsSent == Spec => []ArrivesAsSent
  BY NetInvariant, NetArrives, PTL

-----------------------------------------------------------------------------
(* The file.                                                                 *)

(* Where each of the saved records ends. *)
Offsets(f, ord, arr) ==
    /\ f[0] = 0
    /\ \A n \in 1 .. Len(ord) : f[n] = f[n - 1] + (16 + Len(arr[ord[n]].text))

(* As far as f reaches, bs lies in it behind the first p bytes. *)
Holds(f, p, bs) == \A b \in 1 .. Len(bs) : p + b <= Len(f) => f[p + b] = bs[b]

OrderInv ==
    /\ pc \in {"listen", "save", "load", "done"}
    /\ order \in Seq(Nat) /\ \A k \in 1 .. Len(order) : order[k] \in 1 .. Len(arrived)
    /\ pc = "listen" => order = <<>>

FileInv ==
    /\ file \in Seq(Bytes)
    /\ Len(file) <= SizeOfFirst[Len(order)]
    /\ pc \in {"listen", "save"} => Len(file) = SizeOfFirst[Len(order)]
    /\ \A i \in 1 .. Len(order) : Holds(file, SizeOfFirst[i - 1], Record(arrived[order[i]]))

(* An event that was read: the time, and the text as far as it had room. *)
ReadsAs(r, e) ==
    /\ r.stamp = e.stamp
    /\ \A k \in 1 .. Len(e.text) :
          k <= kMaxUDPSize - 16 => k <= Len(r.text) /\ r.text[k] = e.text[k]

(* While the stream is good the reader stands where a record ends; when it   *)
(* no longer is, the last event is of the record the file ends in.           *)
ReadInv ==
    /\ ret \in Seq([stamp : Nat, text : Seq(Bytes)]) /\ good \in BOOLEAN
    /\ pc \in {"listen", "save"} => pos = 0 /\ good = TRUE /\ ret = <<>>
    /\ Len(ret) <= Len(order)
    /\ good => pos = SizeOfFirst[Len(ret)] /\ pos <= Len(file)
    /\ ~good => /\ Len(ret) >= 1
                /\ SizeOfFirst[Len(ret) - 1] <= Len(file)
                /\ Len(file) < SizeOfFirst[Len(ret)]
    /\ \A k \in 1 .. Len(ret) : good \/ k < Len(ret) => ReadsAs(ret[k], sent[order[k]])
    /\ pc = "done" => ~good \/ pos >= Len(file)

BytesInv == NetInv /\ OrderInv /\ FileInv /\ ReadInv

Sizes(ord, arr) ==
    LET size[n \in 0 .. Len(ord)] ==
            IF n = 0 THEN 0 ELSE size[n - 1] + Len(Record(arr[ord[n]]))
    IN  size

LEMMA SizesNow ==
    /\ SizeOfFirst = Sizes(order, arrived)
    /\ SizeOfFirst' = Sizes(order', arrived')
  BY Zenon DEF SizeOfFirst, Sizes

LEMMA SizesDef ==
    ASSUME NEW ord, NEW arr, Len(ord) \in Nat
    PROVE  /\ Sizes(ord, arr)[0] = 0
           /\ \A n \in 1 .. Len(ord) :
                 Sizes(ord, arr)[n] = Sizes(ord, arr)[n - 1] + Len(Record(arr[ord[n]]))
<1> DEFINE a == [n \in 1 .. Len(ord) |-> Len(Record(arr[ord[n]]))]
           Sums(f) == f = [n \in 0 .. Len(ord) |->
                             IF n = 0 THEN 0 ELSE f[n - 1] + Len(Record(arr[ord[n]]))]
<1>1. \E f : SumsOf(f, a, Len(ord))
  BY SumsExist
<1>2. PICK f : SumsOf(f, a, Len(ord))
  BY <1>1
<1>3. \A n \in 0 .. Len(ord) : f[n] = IF n = 0 THEN 0 ELSE f[n - 1] + a[n]
  BY <1>2, Zenon DEF SumsOf
<1>4. \A n \in 0 .. Len(ord) : f[n] = IF n = 0 THEN 0 ELSE f[n - 1] + Len(Record(arr[ord[n]]))
  <2>1. \A n \in 1 .. Len(ord) : a[n] = Len(Record(arr[ord[n]]))
    BY Zenon
  <2>2. \A n \in 0 .. Len(ord) : n = 0 \/ n \in 1 .. Len(ord)
    OBVIOUS
  <2> HIDE DEF a
  <2> QED
    BY <1>3, <2>1, <2>2
<1>5. Sums(f)
  <2>1. DOMAIN f = 0 .. Len(ord) /\ f = [n \in DOMAIN f |-> f[n]]
    BY <1>2 DEF SumsOf
  <2> QED
    BY <1>4, <2>1
<1>6. Sizes(ord, arr) = CHOOSE g : Sums(g)
  BY DEF Sizes
<1>7. Sums(Sizes(ord, arr))
  BY <1>5, <1>6, Zenon
<1>8. \A n \in 0 .. Len(ord) : Sizes(ord, arr)[n] =
          IF n = 0 THEN 0 ELSE Sizes(ord, arr)[n - 1] + Len(Record(arr[ord[n]]))
  BY <1>7, Zenon
<1> QED
  BY <1>8

LEMMA OffsetsOf ==
    ASSUME NEW ord \in Seq(Nat), NEW arr \in Seq(Arrived),
           \A k \in 1 .. Len(ord) : ord[k] \in 1 .. Len(arr)
    PROVE  /\ Offsets(Sizes(ord, arr), ord, arr)
           /\ \A k \in 1 .. Len(ord) : Len(arr[ord[k]].text) \in Nat
           /\ \A k \in 1 .. Len(ord) : Layout(Record(arr[ord[k]]), arr[ord[k]])
<1>1. Len(ord) \in Nat
  BY ElementsOf
<1>2. \A k \in 1 .. Len(ord) : arr[ord[k]] \in Arrived
  BY ElementsOf
<1>3. \A a \in Arrived : a.stamp \in Nat /\ a.text \in Seq(Bytes) /\ Len(a.text) \in Nat
  <2> SUFFICES ASSUME NEW a \in Arrived
               PROVE  a.stamp \in Nat /\ a.text \in Seq(Bytes) /\ Len(a.text) \in Nat
    OBVIOUS
  <2>1. a.stamp \in Numbers /\ a.text \in Seq(Bytes)
    BY DEF Arrived
  <2>2. a.stamp \in Nat
    BY <2>1, WeightType DEF Numbers
  <2> QED
    BY <2>1, <2>2, ElementsOf
<1>4. \A a \in Arrived : Layout(Record(a), a)
  BY <1>3, RecordLayout
<1>5. \A k \in 1 .. Len(ord) : Len(Record(arr[ord[k]])) = 16 + Len(arr[ord[k]].text)
  BY <1>2, <1>4, Zenon DEF Layout
<1>6. Offsets(Sizes(ord, arr), ord, arr)
  <2> DEFINE f == Sizes(ord, arr)
  <2>1. f[0] = 0 /\ \A n \in 1 .. Len(ord) : f[n] = f[n - 1] + Len(Record(arr[ord[n]]))
    BY <1>1, SizesDef
  <2> HIDE DEF f
  <2>2. \A n \in 1 .. Len(ord) : f[n] = f[n - 1] + (16 + Len(arr[ord[n]].text))
    BY <1>5, <2>1, Zenon
  <2>3. Offsets(f, ord, arr)
    BY <2>1, <2>2, Zenon DEF Offsets
  <2> QED
    BY <2>3 DEF f
<1> QED
  BY <1>2, <1>3, <1>4, <1>6

LEMMA OffsetsGrow ==
    ASSUME NEW f, NEW ord, NEW arr, Len(ord) \in Nat, Offsets(f, ord, arr),
           \A k \in 1 .. Len(ord) : Len(arr[ord[k]].text) \in Nat
    PROVE  \A n \in 0 .. Len(ord) : f[n] \in Nat /\ \A m \in 0 .. n - 1 : f[m] + 16 <= f[n]
<1> DEFINE T == {n \in Nat : n <= Len(ord) =>
                    f[n] \in Nat /\ \A m \in 0 .. n - 1 : f[m] \in Nat /\ f[m] + 16 <= f[n]}
<1>1. 0 \in T
  BY DEF Offsets
<1>2. ASSUME NEW n \in Nat, n \in T PROVE n + 1 \in T
  <2> SUFFICES ASSUME n + 1 <= Len(ord)
               PROVE  /\ f[n + 1] \in Nat
                      /\ \A m \in 0 .. (n + 1) - 1 : f[m] \in Nat /\ f[m] + 16 <= f[n + 1]
    OBVIOUS
  <2>1. f[n] \in Nat /\ \A m \in 0 .. n - 1 : f[m] \in Nat /\ f[m] + 16 <= f[n]
    BY <1>2
  <2>2. n + 1 \in 1 .. Len(ord) /\ (n + 1) - 1 = n
    OBVIOUS
  <2>3. f[n + 1] = f[n] + (16 + Len(arr[ord[n + 1]].text)) /\ Len(arr[ord[n + 1]].text) \in Nat
    BY <2>2 DEF Offsets
  <2>4. f[n + 1] \in Nat /\ f[n] + 16 <= f[n + 1]
    BY <2>1, <2>3, SMTT(30)
  <2>5. ASSUME NEW m \in 0 .. (n + 1) - 1 PROVE f[m] \in Nat /\ f[m] + 16 <= f[n + 1]
    <3>1. m = n \/ m \in 0 .. n - 1
      OBVIOUS
    <3>2. CASE m = n
      BY <2>1, <2>4, <3>2
    <3>3. CASE m \in 0 .. n - 1
      BY <2>1, <2>4, <3>3, SMTT(30)
    <3> QED
      BY <3>1, <3>2, <3>3
  <2> QED
    BY <2>4, <2>5
<1>3. Nat \subseteq T
  <2> HIDE DEF T
  <2> QED
    BY <1>1, <1>2, NatInduct
<1> QED
  BY <1>3

LEMMA OffsetsAgree ==
    ASSUME NEW f, NEW g, NEW arr, NEW ord, NEW more, NEW m \in Nat,
           Len(ord) \in Nat, Len(more) \in Nat, m <= Len(ord), m <= Len(more),
           Offsets(f, ord, arr), Offsets(g, more, arr),
           \A k \in 1 .. m : more[k] = ord[k]
    PROVE  \A n \in 0 .. m : g[n] = f[n]
<1> DEFINE T == {n \in Nat : n <= m => g[n] = f[n]}
<1>1. 0 \in T
  BY DEF Offsets
<1>2. ASSUME NEW n \in Nat, n \in T PROVE n + 1 \in T
  <2> SUFFICES ASSUME n + 1 <= m PROVE g[n + 1] = f[n + 1]
    OBVIOUS
  <2>1. n + 1 \in 1 .. Len(ord) /\ n + 1 \in 1 .. Len(more) /\ n + 1 \in 1 .. m /\ (n + 1) - 1 = n
    OBVIOUS
  <2>2. /\ f[n + 1] = f[n] + (16 + Len(arr[ord[n + 1]].text))
        /\ g[n + 1] = g[n] + (16 + Len(arr[more[n + 1]].text))
    BY <2>1 DEF Offsets
  <2> QED
    BY <1>2, <2>1, <2>2
<1>3. Nat \subseteq T
  <2> HIDE DEF T
  <2> QED
    BY <1>1, <1>2, NatInduct
<1> QED
  BY <1>3

(* The offsets of the present file. *)
LEMMA OffsetsNow ==
    ASSUME NetInv, OrderInv
    PROVE  /\ Len(order) \in Nat
           /\ Offsets(SizeOfFirst, order, arrived)
           /\ \A k \in 1 .. Len(order) : Len(arrived[order[k]].text) \in Nat
           /\ \A k \in 1 .. Len(order) : Layout(Record(arrived[order[k]]), arrived[order[k]])
           /\ \A n \in 0 .. Len(order) :
                 /\ SizeOfFirst[n] \in Nat
                 /\ \A m \in 0 .. n - 1 : SizeOfFirst[m] + 16 <= SizeOfFirst[n]
<1>1. order \in Seq(Nat) /\ arrived \in Seq(Arrived) /\ \A k \in 1 .. Len(order) : order[k] \in 1 .. Len(arrived)
  BY DEF NetInv, OrderInv
<1>2. Len(order) \in Nat
  BY <1>1, ElementsOf
<1>3. /\ Offsets(SizeOfFirst, order, arrived)
      /\ \A k \in 1 .. Len(order) : Len(arrived[order[k]].text) \in Nat
      /\ \A k \in 1 .. Len(order) : Layout(Record(arrived[order[k]]), arrived[order[k]])
  BY <1>1, OffsetsOf, SizesNow, Zenon
<1> QED
  BY <1>2, <1>3, OffsetsGrow, Zenon

-----------------------------------------------------------------------------
LEMMA OrderStep == NetInv /\ OrderInv /\ [Next]_vars => OrderInv'
<1> SUFFICES ASSUME NetInv, OrderInv, [Next]_vars PROVE OrderInv'
  OBVIOUS
<1>1. ASSUME NEW e \in [stamp : Stamps, text : Texts], SendEvent(e) PROVE OrderInv'
  BY <1>1 DEF SendEvent, OrderInv
<1>2. ASSUME Receive PROVE OrderInv'
  <2>1. pc = "listen" /\ UNCHANGED <<pc, order>>
    BY <1>2 DEF Receive, NetInv
  <2>2. order = <<>>
    BY <2>1 DEF OrderInv
  <2> QED
    BY <2>1, <2>2 DEF OrderInv
<1>3. ASSUME Snapshot PROVE OrderInv'
  BY <1>3 DEF Snapshot, OrderInv
<1>4. ASSUME ReadEvent PROVE OrderInv'
  <2>1. UNCHANGED <<pc, order, arrived>>
    BY <1>4 DEF ReadEvent
  <2> QED
    BY <2>1 DEF OrderInv
<1>5. ASSUME ReadEnd PROVE OrderInv'
  BY <1>5 DEF ReadEnd, OrderInv
<1>6. ASSUME NEW i \in DOMAIN arrived, SaveCurrentEvent(i) PROVE OrderInv'
  <2>1. pc = "save" /\ order' = Append(order, i) /\ UNCHANGED <<pc, arrived>>
    BY <1>6 DEF SaveCurrentEvent
  <2>2. i \in 1 .. Len(arrived) /\ i \in Nat
    BY ElementsOf DEF NetInv
  <2>3. order \in Seq(Nat) /\ Len(order) \in Nat
    BY ElementsOf DEF OrderInv
  <2>4. /\ order' \in Seq(Nat) /\ Len(order') = Len(order) + 1
        /\ \A k \in 1 .. Len(order) : order'[k] = order[k]
        /\ order'[Len(order) + 1] = i
    BY <2>1, <2>2, <2>3, AppendOf
  <2>5. \A k \in 1 .. Len(order') : order'[k] \in 1 .. Len(arrived)
    <3> SUFFICES ASSUME NEW k \in 1 .. Len(order') PROVE order'[k] \in 1 .. Len(arrived)
      OBVIOUS
    <3>1. k \in 1 .. Len(order) \/ k = Len(order) + 1
      BY <2>3, <2>4
    <3> QED
      BY <2>2, <2>4, <3>1 DEF OrderInv
  <2> QED
    BY <2>1, <2>4, <2>5 DEF OrderInv
<1>7. ASSUME NEW size, Restart(size) PROVE OrderInv'
  BY <1>7 DEF Restart, OrderInv
<1>8. ASSUME UNCHANGED vars PROVE OrderInv'
  BY <1>8 DEF vars, OrderInv
<1> QED
  BY <1>1, <1>2, <1>3, <1>4, <1>5, <1>6, <1>7, <1>8 DEF Next

LEMMA FileSaved ==
    ASSUME NetInv, OrderInv, FileInv, OrderInv', NEW i \in DOMAIN arrived, SaveCurrentEvent(i)
    PROVE  FileInv'
<1> DEFINE n == Len(order)
           f == SizeOfFirst
           g == SizeOfFirst'
           r == Record(arrived[i])
<1>1. pc = "save" /\ order' = Append(order, i) /\ file' = file \o r /\ UNCHANGED <<pc, arrived>>
  BY DEF SaveCurrentEvent
<1>2. i \in 1 .. Len(arrived) /\ i \in Nat /\ arrived[i] \in Arrived
  BY ElementsOf DEF NetInv
<1>3. /\ order' \in Seq(Nat) /\ Len(order') = n + 1
      /\ \A k \in 1 .. n : order'[k] = order[k]
      /\ order'[n + 1] = i
  BY <1>1, <1>2, AppendOf DEF OrderInv
<1>4. n \in Nat /\ Offsets(f, order, arrived)
      /\ \A m \in 0 .. n : f[m] \in Nat
  BY OffsetsNow
<1>5. /\ Offsets(g, order', arrived)
      /\ Layout(r, arrived[i])
  <2>1. arrived \in Seq(Arrived) /\ \A k \in 1 .. Len(order') : order'[k] \in 1 .. Len(arrived)
    BY <1>1 DEF NetInv, OrderInv
  <2>2. g = Sizes(order', arrived)
    BY <1>1, SizesNow
  <2>3. /\ Offsets(Sizes(order', arrived), order', arrived)
        /\ \A k \in 1 .. Len(order') : Layout(Record(arrived[order'[k]]), arrived[order'[k]])
    BY <1>3, <2>1, OffsetsOf
  <2>4. n + 1 \in 1 .. Len(order')
    BY <1>3, <1>4
  <2>5. Layout(Record(arrived[order'[n + 1]]), arrived[order'[n + 1]])
    BY <2>3, <2>4
  <2> QED
    BY <1>3, <2>2, <2>3, <2>5
<1>6. \A m \in 0 .. n : g[m] = f[m]
  <2>1. n <= Len(order) /\ n <= Len(order') /\ Len(order') \in Nat
    BY <1>3, <1>4
  <2> HIDE DEF f, g
  <2> QED
    BY <1>3, <1>4, <1>5, <2>1, OffsetsAgree
<1>7. file \in Seq(Bytes) /\ Len(file) = f[n] /\ Len(file) \in Nat
  BY <1>1, ElementsOf DEF FileInv
<1>8. r \in Seq(Bytes) /\ Len(r) = 16 + Len(arrived[i].text) /\ Len(r) \in Nat
  BY <1>5, ElementsOf DEF Layout
<1> HIDE DEF f, g, r
<1>9. Concatenation(file', file, r, Bytes)
  BY <1>1, <1>7, <1>8, ConcatOf
<1>10. /\ file' \in Seq(Bytes) /\ Len(file') = Len(file) + Len(r)
       /\ \A k \in 1 .. Len(file) : file'[k] = file[k]
       /\ \A k \in 1 .. Len(r) : file'[Len(file) + k] = r[k]
  BY <1>9, Zenon DEF Concatenation
<1>11. g[n + 1] = f[n] + Len(r)
  <2>1. n + 1 \in 1 .. Len(order') /\ (n + 1) - 1 = n /\ n \in 0 .. n
    BY <1>3, <1>4
  <2>2. g[n + 1] = g[n] + (16 + Len(arrived[order'[n + 1]].text))
    BY <1>5, <2>1 DEF Offsets
  <2> QED
    BY <1>3, <1>6, <1>8, <2>1, <2>2
<1>12. Len(file') = g[Len(order')]
  BY <1>3, <1>7, <1>10, <1>11
<1>13. ASSUME NEW k \in 1 .. Len(order') PROVE Holds(file', g[k - 1], Record(arrived'[order'[k]]))
  <2>1. k \in 1 .. n \/ k = n + 1
    BY <1>3, <1>4
  <2>2. CASE k = n + 1
    <3>1. g[k - 1] = Len(file) /\ Record(arrived'[order'[k]]) = r
      <4>1. k - 1 = n /\ n \in 0 .. n
        BY <1>4, <2>2
      <4> QED
        BY <1>1, <1>3, <1>6, <1>7, <2>2, <4>1 DEF r
    <3> QED
      BY <1>10, <3>1 DEF Holds
  <2>3. CASE k \in 1 .. n
    <3> DEFINE q == Record(arrived[order[k]])
    <3>1. g[k - 1] = f[k - 1] /\ f[k - 1] \in Nat /\ f[k] \in Nat /\ f[n] \in Nat
      <4>1. k - 1 \in 0 .. n /\ k \in 0 .. n /\ n \in 0 .. n
        BY <1>4, <2>3
      <4> QED
        BY <1>4, <1>6, <4>1
    <3>2. Record(arrived'[order'[k]]) = q
      BY <1>1, <1>3, <2>3
    <3>3. Layout(q, arrived[order[k]]) /\ f[k] = f[k - 1] + (16 + Len(arrived[order[k]].text))
      <4>1. \A j \in 1 .. n : Layout(Record(arrived[order[j]]), arrived[order[j]])
        BY OffsetsNow
      <4> QED
        BY <1>4, <2>3, <4>1 DEF Offsets
    <3>4. Len(q) \in Nat /\ f[k] = f[k - 1] + Len(q)
      BY <3>3, ElementsOf DEF Layout
    <3>5. f[k] <= f[n]
      <4>1. k = n \/ k \in 0 .. n - 1
        BY <1>4, <2>3
      <4>2. n \in 0 .. n
        BY <1>4
      <4>3. \A m \in 0 .. n - 1 : f[m] + 16 <= f[n]
        BY <4>2, OffsetsNow DEF f
      <4>4. CASE k \in 0 .. n - 1
        BY <3>1, <4>3, <4>4
      <4>5. CASE k = n
        BY <3>1, <4>5
      <4> QED
        BY <4>1, <4>4, <4>5
    <3>6. Holds(file, f[k - 1], q)
      BY <2>3 DEF FileInv, f
    <3> HIDE DEF q
    <3>7. ASSUME NEW b \in 1 .. Len(q) PROVE file'[f[k - 1] + b] = q[b]
      <4>1. f[k - 1] + b \in 1 .. Len(file) /\ f[k - 1] + b <= Len(file)
        BY <1>7, <3>1, <3>4, <3>5
      <4>2. file[f[k - 1] + b] = q[b]
        BY <3>6, <4>1 DEF Holds
      <4> QED
        BY <1>10, <4>1, <4>2
    <3> QED
      BY <3>1, <3>2, <3>7 DEF Holds
  <2> QED
    BY <2>1, <2>2, <2>3
<1>14. Len(file') <= g[Len(order')]
  <2>1. Len(file') \in Nat
    BY <1>10, ElementsOf
  <2> QED
    BY <1>12, <2>1
<1> QED
  BY <1>10, <1>12, <1>13, <1>14 DEF FileInv, g

LEMMA FileStep == NetInv /\ OrderInv /\ FileInv /\ OrderInv' /\ [Next]_vars => FileInv'
<1> SUFFICES ASSUME NetInv, OrderInv, FileInv, OrderInv', [Next]_vars PROVE FileInv'
  OBVIOUS
<1>0. ASSUME UNCHANGED <<order, arrived, file>>,
             pc' \in {"listen", "save"} => pc \in {"listen", "save"}
      PROVE  FileInv'
  <2>1. SizeOfFirst' = SizeOfFirst
    BY <1>0, SizesNow
  <2> QED
    BY <1>0, <2>1 DEF FileInv
<1>1. ASSUME NEW e \in [stamp : Stamps, text : Texts], SendEvent(e) PROVE FileInv'
  BY <1>0, <1>1 DEF SendEvent
<1>2. ASSUME Receive PROVE FileInv'
  <2>1. pc = "listen" /\ UNCHANGED <<pc, order, file>>
    BY <1>2 DEF Receive, NetInv
  <2>2. order = <<>> /\ Len(order) = 0 /\ Len(order) \in Nat
    BY <2>1 DEF OrderInv
  <2>3. SizeOfFirst[0] = 0 /\ SizeOfFirst'[0] = 0
    BY <2>1, <2>2, SizesNow, SizesDef
  <2>4. file \in Seq(Bytes) /\ Len(file) = 0
    BY <2>1, <2>2, <2>3 DEF FileInv
  <2> QED
    BY <2>1, <2>2, <2>3, <2>4 DEF FileInv
<1>3. ASSUME Snapshot PROVE FileInv'
  BY <1>0, <1>3 DEF Snapshot
<1>4. ASSUME ReadEvent PROVE FileInv'
  <2>1. UNCHANGED <<pc, order, arrived, file>>
    BY <1>4 DEF ReadEvent
  <2> QED
    BY <1>0, <2>1
<1>5. ASSUME ReadEnd PROVE FileInv'
  BY <1>0, <1>5 DEF ReadEnd
<1>6. ASSUME NEW i \in DOMAIN arrived, SaveCurrentEvent(i) PROVE FileInv'
  BY <1>6, FileSaved
<1>7. ASSUME NEW size \in 0 .. Len(file), Restart(size) PROVE FileInv'
  <2>1. pc = "save" /\ pc' = "load" /\ file' = SubSeq(file, 1, size) /\ UNCHANGED <<order, arrived>>
    BY <1>7 DEF Restart
  <2>2. file \in Seq(Bytes) /\ Len(file) \in Nat /\ Len(file) = SizeOfFirst[Len(order)]
    BY <2>1, ElementsOf DEF FileInv
  <2>3. file' \in Seq(Bytes) /\ Len(file') = size /\ \A k \in 1 .. size : file'[k] = file[k]
    BY <2>1, <2>2
  <2>4. SizeOfFirst' = SizeOfFirst
    BY <2>1, SizesNow
  <2>5. Len(file') <= SizeOfFirst[Len(order)]
    BY <2>2, <2>3
  <2>6. ASSUME NEW k \in 1 .. Len(order)
        PROVE  Holds(file', SizeOfFirst[k - 1], Record(arrived[order[k]]))
    <3> DEFINE r == Record(arrived[order[k]])
               p == SizeOfFirst[k - 1]
    <3>1. Holds(file, p, r)
      BY DEF FileInv
    <3>2. p \in Nat
      <4>1. k - 1 \in 0 .. Len(order)
        BY OffsetsNow
      <4> QED
        BY <4>1, OffsetsNow
    <3> HIDE DEF r, p
    <3>3. \A b \in 1 .. Len(r) : p + b <= Len(file') => file'[p + b] = r[b]
      <4> SUFFICES ASSUME NEW b \in 1 .. Len(r), p + b <= size PROVE file'[p + b] = r[b]
        BY <2>3
      <4>1. p + b \in 1 .. size /\ p + b <= Len(file)
        BY <2>2, <3>2
      <4> QED
        BY <2>3, <3>1, <4>1 DEF Holds
    <3> QED
      BY <3>3 DEF Holds, r, p
  <2> QED
    BY <2>1, <2>3, <2>4, <2>5, <2>6 DEF FileInv
<1>8. ASSUME UNCHANGED vars PROVE FileInv'
  BY <1>0, <1>8 DEF vars
<1> QED
  BY <1>1, <1>2, <1>3, <1>4, <1>5, <1>6, <1>7, <1>8 DEF Next

-----------------------------------------------------------------------------
(* The reader.                                                               *)

LEMMA MinOfSet ==
    ASSUME NEW S, S \subseteq Nat, S # {}
    PROVE  Min(S) \in S /\ \A y \in S : Min(S) <= y
<1> DEFINE R == OpToRel(<, Nat)
<1>1. IsWellFoundedOn(R, Nat)
  BY NatLessThanWellFounded
<1>2. PICK x \in S : \A y \in S : ~ (<<y, x>> \in R)
  <2> HIDE DEF R
  <2> QED
    BY <1>1, WFMin
<1>3. \A y \in S : x <= y
  <2> SUFFICES ASSUME NEW y \in S, y < x PROVE FALSE
    OBVIOUS
  <2>1. <<y, x>> \in R
    BY DEF OpToRel
  <2> QED
    BY <1>2, <2>1
<1> HIDE DEF R
<1> QED
  BY <1>3, Zenon DEF Min

LEMMA DecodeType ==
    ASSUME NEW bs \in Seq(Bytes), Len(bs) <= 8
    PROVE  Decode(bs) \in Nat
<1> DEFINE T == {n \in Nat : n <= Len(bs) => Decoding(bs)[n] \in Nat}
<1>1. Len(bs) \in Nat /\ \A k \in 1 .. Len(bs) : bs[k] \in Nat
  BY ElementsOf, ByteType
<1>2. /\ Decoding(bs)[0] = 0
      /\ \A n \in 1 .. Len(bs) : Decoding(bs)[n] = Decoding(bs)[n - 1] + bs[n] * Weight[n - 1]
  BY <1>1, DecodingDef
<1>3. 0 \in T
  BY <1>2
<1>4. ASSUME NEW n \in Nat, n \in T PROVE n + 1 \in T
  <2> SUFFICES ASSUME n + 1 <= Len(bs) PROVE Decoding(bs)[n + 1] \in Nat
    OBVIOUS
  <2>1. n + 1 \in 1 .. Len(bs) /\ (n + 1) - 1 = n /\ n \in 0 .. 8 /\ Decoding(bs)[n] \in Nat
    BY <1>1, <1>4
  <2>2. Weight[n] \in Nat /\ bs[n + 1] \in Nat
    BY <1>1, <2>1, WeightType
  <2>3. Decoding(bs)[n + 1] = Decoding(bs)[n] + bs[n + 1] * Weight[n]
    BY <1>2, <2>1
  <2> QED
    BY <2>1, <2>2, <2>3
<1>5. Nat \subseteq T
  <2> HIDE DEF T
  <2> QED
    BY <1>3, <1>4, NatInduct
<1> QED
  BY <1>1, <1>5 DEF Decode

LEMMA ReadOf ==
    ASSUME file \in Seq(Bytes), NEW p \in Nat, NEW n \in Nat, p <= Len(file)
    PROVE  /\ Read(p, n) \in Seq(Bytes) /\ Len(Read(p, n)) \in Nat /\ Len(Read(p, n)) <= n
           /\ p + n <= Len(file) => Read(p, n) = SubSeq(file, p + 1, p + n)
<1> DEFINE m == IF p + n <= Len(file) THEN p + n ELSE Len(file)
<1>1. Len(file) \in Nat
  BY ElementsOf
<1>2. m \in Nat /\ p <= m /\ m <= Len(file) /\ m - p <= n /\ m - p \in Nat
  BY <1>1
<1>3. Min({p + n, Len(file)}) = m
  BY <1>1, MinOfTwo
<1>4. Read(p, n) = SubSeq(file, p + 1, m)
  BY <1>3 DEF Read
<1>5. p + n <= Len(file) => m = p + n
  OBVIOUS
<1> HIDE DEF m
<1>6. SubSeq(file, p + 1, m) \in Seq(Bytes) /\ Len(SubSeq(file, p + 1, m)) = m - p
  BY <1>2, SubSeqOf
<1> QED
  BY <1>2, <1>4, <1>5, <1>6

LEMMA StringsType ==
    ASSUME NEW bs \in Seq(Bytes), NEW text \in StringsOf(bs)
    PROVE  text \in Seq(Bytes)
<1> DEFINE zeros == {k \in DOMAIN bs : bs[k] = 0}
<1>1. DOMAIN bs = 1 .. Len(bs) /\ Len(bs) \in Nat
  BY ElementsOf
<1>2. CASE zeros = {}
  <2>1. text \in {bs, Append(bs, Base - 1)}
    BY <1>2, Zenon DEF StringsOf
  <2> QED
    BY <2>1, AppendOf, ByteType
<1>3. CASE zeros # {}
  <2> DEFINE z == Min(zeros)
  <2>1. text = SubSeq(bs, 1, z - 1)
    BY <1>3, Zenon DEF StringsOf
  <2>2. zeros \subseteq Nat
    BY <1>1
  <2>3. z \in zeros
    BY <1>3, <2>2, MinOfSet
  <2>4. z \in 1 .. Len(bs)
    BY <1>1, <2>3
  <2> HIDE DEF z
  <2> QED
    BY <1>1, <2>1, <2>4
<1> QED
  BY <1>2, <1>3

(* std::string stops at no byte of a text that a client gave. *)
LEMMA StringsKeep ==
    ASSUME NEW bs \in Seq(Bytes), NEW text \in StringsOf(bs), NEW m \in Nat, m <= Len(bs),
           \A k \in 1 .. m : bs[k] # 0
    PROVE  m <= Len(text) /\ \A k \in 1 .. m : text[k] = bs[k]
<1> DEFINE zeros == {k \in DOMAIN bs : bs[k] = 0}
<1>1. DOMAIN bs = 1 .. Len(bs) /\ Len(bs) \in Nat
  BY ElementsOf
<1>2. CASE zeros = {}
  <2>1. text \in {bs, Append(bs, Base - 1)}
    BY <1>2, Zenon DEF StringsOf
  <2>2. CASE text = bs
    BY <1>1, <2>2
  <2>3. CASE text = Append(bs, Base - 1)
    <3>1. Len(text) = Len(bs) + 1 /\ \A k \in 1 .. Len(bs) : text[k] = bs[k]
      BY <2>3, AppendOf, ByteType
    <3> QED
      BY <1>1, <3>1
  <2> QED
    BY <2>1, <2>2, <2>3
<1>3. CASE zeros # {}
  <2> DEFINE z == Min(zeros)
  <2>1. text = SubSeq(bs, 1, z - 1)
    BY <1>3, Zenon DEF StringsOf
  <2>2. zeros \subseteq Nat
    BY <1>1
  <2>3. z \in zeros
    BY <1>3, <2>2, MinOfSet
  <2>4. z \in 1 .. Len(bs) /\ bs[z] = 0
    BY <1>1, <2>3
  <2> HIDE DEF z
  <2>5. m < z
    BY <2>4
  <2>6. Len(text) = z - 1 /\ \A k \in 1 .. z - 1 : text[k] = bs[k]
    BY <1>1, <2>1, <2>4
  <2> QED
    BY <2>4, <2>5, <2>6
<1> QED
  BY <1>2, <1>3

(* A record that is whole in the file, or at least its two numbers. *)
LEMMA RecordAt ==
    ASSUME file \in Seq(Bytes), NEW p \in Nat, NEW a \in Arrived, Len(a.text) \in Numbers,
           Holds(file, p, Record(a))
    PROVE  /\ p + 8 <= Len(file) => Number(Read(p, 8)) = a.stamp
           /\ p + 16 <= Len(file) => Number(Read(p + 8, 8)) = Len(a.text)
           /\ p + (16 + Len(a.text)) <= Len(file) => Read(p + 16, Len(a.text)) = a.text
<1> DEFINE r == Record(a)
           n == Len(a.text)
<1>1. a.stamp \in Numbers /\ a.stamp \in Nat /\ a.text \in Seq(Bytes) /\ n \in Nat
  <2>1. Numbers \subseteq Nat
    BY WeightType DEF Numbers
  <2> QED
    BY <2>1 DEF Arrived
<1>2. Len(file) \in Nat
  BY ElementsOf
<1>3. Layout(r, a)
  BY <1>1, RecordLayout
<1>4. /\ Len(r) = 16 + n
      /\ \A k \in 1 .. 8 : r[k] = EncodeU64LE(a.stamp)[k]
      /\ \A k \in 1 .. 8 : r[8 + k] = EncodeU64LE(n)[k]
      /\ \A k \in 1 .. n : r[16 + k] = a.text[k]
  <2>1. \A k \in 1 .. 8 : 0 + k = k
    OBVIOUS
  <2> HIDE DEF r
  <2> QED
    BY <1>3, <2>1, Zenon DEF Layout
<1>5. \A b \in 1 .. 16 + n : p + b <= Len(file) => file[p + b] = r[b]
  BY <1>4 DEF Holds
<1> HIDE DEF r
<1>6. ASSUME p + 8 <= Len(file) PROVE Number(Read(p, 8)) = a.stamp
  <2>1. ASSUME NEW k \in 1 .. 8 PROVE file[p + k] = EncodeU64LE(a.stamp)[k]
    <3>1. k \in 1 .. 16 + n /\ p + k <= Len(file)
      BY <1>1, <1>2, <1>6
    <3> QED
      BY <1>4, <1>5, <3>1
  <2>2. Decode(SubSeq(file, p + 1, p + 8)) = a.stamp
    BY <1>1, <1>6, <2>1, NumberAt
  <2>3. Read(p, 8) = SubSeq(file, p + 1, p + 8)
    <3>1. 8 \in Nat /\ p <= Len(file)
      BY <1>2, <1>6
    <3> QED
      BY <1>6, <3>1, ReadOf
  <2> QED
    BY <2>2, <2>3 DEF Number
<1>7. ASSUME p + 16 <= Len(file) PROVE Number(Read(p + 8, 8)) = n
  <2>0. p + 8 \in Nat /\ (p + 8) + 8 = p + 16 /\ (p + 8) + 8 <= Len(file) /\ p + 8 <= Len(file) /\ 8 \in Nat
    BY <1>2, <1>7
  <2>1. ASSUME NEW k \in 1 .. 8 PROVE file[(p + 8) + k] = EncodeU64LE(n)[k]
    <3>1. 8 + k \in 1 .. 16 + n /\ p + (8 + k) <= Len(file) /\ (p + 8) + k = p + (8 + k)
      BY <1>1, <1>2, <1>7
    <3>2. file[p + (8 + k)] = r[8 + k]
      BY <1>5, <3>1
    <3> QED
      BY <1>4, <3>1, <3>2
  <2>2. Decode(SubSeq(file, (p + 8) + 1, (p + 8) + 8)) = n
    BY <2>0, <2>1, NumberAt
  <2>3. Read(p + 8, 8) = SubSeq(file, (p + 8) + 1, (p + 8) + 8)
    BY <2>0, ReadOf
  <2> QED
    BY <2>2, <2>3 DEF Number
<1>8. ASSUME p + (16 + n) <= Len(file) PROVE Read(p + 16, n) = a.text
  <2> DEFINE q == p + 16
  <2>0. q \in Nat /\ q + n \in Nat /\ q + n <= Len(file) /\ q <= q + n /\ q <= Len(file) /\ (q + n) - q = n
    <3>1. n \in Nat
      BY <1>1
    <3> HIDE DEF n
    <3> QED
      BY <1>2, <1>8, <3>1
  <2>1. ASSUME NEW k \in 1 .. n PROVE file[q + k] = a.text[k]
    <3>1. 16 + k \in 1 .. 16 + n /\ p + (16 + k) <= Len(file) /\ q + k = p + (16 + k)
      BY <1>1, <1>2, <1>8
    <3>2. file[p + (16 + k)] = r[16 + k]
      BY <1>5, <3>1
    <3> QED
      BY <1>4, <3>1, <3>2
  <2> HIDE DEF q
  <2> DEFINE u == SubSeq(file, q + 1, q + n)
  <2>2. u \in Seq(Bytes) /\ Len(u) = (q + n) - q /\ \A k \in 1 .. (q + n) - q : u[k] = file[q + k]
    BY <2>0, SubSeqOf
  <2>3. Read(q, n) = u
    BY <1>1, <2>0, ReadOf
  <2> HIDE DEF u
  <2>4. Len(u) = Len(a.text) /\ \A k \in 1 .. Len(u) : u[k] = a.text[k]
    BY <2>0, <2>1, <2>2
  <2>5. u = a.text
    BY <1>1, <2>2, <2>4, SeqsEqual
  <2> QED
    BY <2>3, <2>5 DEF q
<1> QED
  BY <1>6, <1>7, <1>8

(* What arrived is what was sent, also for a saved event. *)
LEMMA SavedEvent ==
    ASSUME NetInv, OrderInv, NEW k \in 1 .. Len(order)
    PROVE  /\ arrived[order[k]] \in Arrived /\ sent[order[k]] \in Sent
           /\ ArrivesAs(arrived[order[k]], sent[order[k]])
           /\ Len(arrived[order[k]].text) \in Numbers
<1>1. order[k] \in 1 .. Len(arrived)
  BY DEF OrderInv
<1>2. Len(arrived) \in Nat /\ Len(sent) \in Nat /\ arrived \in Seq(Arrived) /\ sent \in Seq(Sent)
  BY ElementsOf DEF NetInv
<1>3. Len(arrived) <= Len(sent)
  BY <1>2 DEF NetInv
<1>4. order[k] \in 1 .. Len(sent)
  BY <1>1, <1>2, <1>3
<1>5. arrived[order[k]] \in Arrived /\ sent[order[k]] \in Sent
  BY <1>1, <1>2, <1>4, ElementsOf
<1>6. ArrivesAs(arrived[order[k]], sent[order[k]])
  BY <1>1 DEF NetInv
<1>7. Len(arrived[order[k]].text) \in Numbers
  BY <1>5, <1>6, SentType DEF ArrivesAs
<1> QED
  BY <1>5, <1>6, <1>7

(* The text of a saved event, as the reader finds it. *)
LEMMA TextRead ==
    ASSUME NEW a \in Arrived, NEW e \in Sent, ArrivesAs(a, e), NEW text \in StringsOf(a.text)
    PROVE  \A k \in 1 .. Len(e.text) :
              k <= kMaxUDPSize - 16 => k <= Len(text) /\ text[k] = e.text[k]
<1> SUFFICES ASSUME NEW k \in 1 .. Len(e.text), k <= kMaxUDPSize - 16
             PROVE  k <= Len(text) /\ text[k] = e.text[k]
  OBVIOUS
<1>1. kMaxUDPSize \in Nat
  BY BytesAssumption
<1>2. Len(e.text) \in Nat /\ \A j \in 1 .. Len(e.text) : e.text[j] # 0
  BY SentType
<1>3. a.text \in Seq(Bytes) /\ Len(a.text) = Len(e.text)
      /\ \A j \in 1 .. Len(e.text) : j <= kMaxUDPSize - 16 => a.text[j] = e.text[j]
  BY DEF Arrived, ArrivesAs
<1> DEFINE bs == a.text
           et == e.text
<1>4. /\ Len(et) \in Nat /\ k \in Nat /\ k \in 1 .. Len(et) /\ k <= kMaxUDPSize - 16
      /\ bs \in Seq(Bytes) /\ Len(bs) = Len(et) /\ text \in StringsOf(bs)
      /\ \A j \in 1 .. Len(et) : et[j] # 0
      /\ \A j \in 1 .. Len(et) : j <= kMaxUDPSize - 16 => bs[j] = et[j]
  BY <1>2, <1>3
<1> HIDE DEF bs, et
<1>5. \A j \in 1 .. k : j \in 1 .. Len(et) /\ j <= kMaxUDPSize - 16
  BY <1>1, <1>4
<1>6. \A j \in 1 .. k : bs[j] # 0
  BY <1>4, <1>5
<1>7. k <= Len(bs) /\ bs[k] = et[k] /\ k \in 1 .. k
  BY <1>4
<1>8. k <= Len(text) /\ \A j \in 1 .. k : text[j] = bs[j]
  BY <1>4, <1>6, <1>7, StringsKeep
<1> QED
  BY <1>7, <1>8 DEF et

LEMMA RecordRead ==
    ASSUME NetInv, OrderInv, FileInv, ReadInv, ReadEvent
    PROVE  ReadInv'
<1> DEFINE n == Len(ret)
           off == SizeOfFirst
           stamp == Number(Read(pos, 8))
           size == IF Complete(pos, 8) THEN Number(Read(pos + 8, 8)) ELSE 0
           bs == IF Complete(pos, 16) THEN Read(pos + 16, size) ELSE <<>>
           a == arrived[order[n + 1]]
           e == sent[order[n + 1]]
           len == Len(a.text)
<1>1. /\ pc = "load" /\ good /\ pos < Len(file)
      /\ UNCHANGED <<pc, sent, wire, arrived, order, file>>
      /\ good' = Complete(pos, 16 + size) /\ pos' = pos + 16 + size
  BY Zenon DEF ReadEvent
<1>2. PICK text \in StringsOf(bs) : ret' = Append(ret, [stamp |-> stamp, text |-> text])
  BY Zenon DEF ReadEvent
<1>3. /\ file \in Seq(Bytes) /\ Len(file) \in Nat /\ n \in Nat
      /\ ret \in Seq([stamp : Nat, text : Seq(Bytes)])
  BY ElementsOf DEF FileInv, ReadInv
<1>4. /\ Len(order) \in Nat /\ Offsets(off, order, arrived)
      /\ \A m \in 0 .. Len(order) : off[m] \in Nat
  BY OffsetsNow
<1>5. /\ n <= Len(order) /\ pos = off[n] /\ pos <= Len(file)
      /\ Len(file) <= off[Len(order)]
  BY <1>1 DEF ReadInv, FileInv
<1>6. pos \in Nat /\ n < Len(order)
  <2>1. n \in 0 .. Len(order) /\ Len(order) \in 0 .. Len(order)
    BY <1>3, <1>4, <1>5
  <2>2. pos \in Nat
    BY <1>4, <1>5, <2>1
  <2>3. n # Len(order)
    <3> SUFFICES ASSUME n = Len(order) PROVE FALSE
      OBVIOUS
    <3>1. Len(file) <= pos
      BY <1>5
    <3> QED
      BY <1>1, <1>3, <2>2, <3>1
  <2> QED
    BY <1>3, <1>4, <1>5, <2>2, <2>3
<1>7. n + 1 \in 1 .. Len(order) /\ (n + 1) - 1 = n /\ n + 1 \in 0 .. Len(order)
  BY <1>3, <1>4, <1>6
<1>8. a \in Arrived /\ e \in Sent /\ ArrivesAs(a, e) /\ len \in Numbers /\ len \in Nat
  <2>1. Numbers \subseteq Nat
    BY WeightType DEF Numbers
  <2> QED
    BY <1>7, <2>1, SavedEvent
<1>9. Holds(file, pos, Record(a)) /\ off[n + 1] = pos + (16 + len) /\ off[n + 1] \in Nat
  <2>1. Holds(file, off[n], Record(a))
    BY <1>7 DEF FileInv
  <2>2. off[n + 1] = off[n] + (16 + len)
    BY <1>4, <1>7 DEF Offsets
  <2> QED
    BY <1>4, <1>5, <1>7, <2>1, <2>2
<1>10. /\ pos + 8 <= Len(file) => Number(Read(pos, 8)) = a.stamp
       /\ pos + 16 <= Len(file) => Number(Read(pos + 8, 8)) = len
       /\ pos + (16 + len) <= Len(file) => Read(pos + 16, len) = a.text
  BY <1>3, <1>6, <1>8, <1>9, RecordAt
<1>11. \A k \in Nat : Complete(pos, k) <=> pos + k <= Len(file)
  BY DEF Complete
<1>12. stamp \in Nat
  <2>1. Read(pos, 8) \in Seq(Bytes) /\ Len(Read(pos, 8)) <= 8
    <3>1. 8 \in Nat
      OBVIOUS
    <3> QED
      BY <1>3, <1>5, <1>6, <3>1, ReadOf
  <2> QED
    BY <2>1, DecodeType DEF Number
<1>13. size \in Nat
  <2>1. CASE Complete(pos, 8)
    <3>1. pos + 8 <= Len(file) /\ pos + 8 \in Nat /\ 8 \in Nat
      BY <1>6, <1>11, <2>1
    <3>2. Read(pos + 8, 8) \in Seq(Bytes) /\ Len(Read(pos + 8, 8)) <= 8
      BY <1>3, <3>1, ReadOf
    <3>3. Number(Read(pos + 8, 8)) \in Nat
      BY <3>2, DecodeType DEF Number
    <3> QED
      BY <2>1, <3>3
  <2> QED
    BY <2>1
<1> HIDE DEF stamp, size
<1>14. bs \in Seq(Bytes)
  <2>1. CASE Complete(pos, 16)
    <3>1. pos + 16 <= Len(file) /\ pos + 16 \in Nat
      BY <1>6, <1>11, <2>1
    <3>2. Read(pos + 16, size) \in Seq(Bytes)
      BY <1>3, <1>13, <3>1, ReadOf
    <3> QED
      BY <2>1, <3>2
  <2> QED
    BY <2>1
<1>15. text \in Seq(Bytes)
  BY <1>14, StringsType
<1> DEFINE r == [stamp |-> stamp, text |-> text]
<1>16. /\ ret' \in Seq([stamp : Nat, text : Seq(Bytes)]) /\ Len(ret') = n + 1
       /\ \A k \in 1 .. n : ret'[k] = ret[k]
       /\ ret'[n + 1] = r
  <2>1. r \in [stamp : Nat, text : Seq(Bytes)]
    BY <1>12, <1>15
  <2> HIDE DEF r
  <2>2. ret' = Append(ret, r)
    BY <1>2 DEF r
  <2> QED
    BY <1>3, <2>1, <2>2, AppendOf
<1>17. SizeOfFirst' = off
  BY <1>1, SizesNow
<1>18. \A k \in 1 .. n : ReadsAs(ret'[k], sent'[order'[k]])
  BY <1>1, <1>16 DEF ReadInv
<1>19. good' \in BOOLEAN
  BY <1>1 DEF Complete
<1>20. Len(ret') <= Len(order')
  BY <1>1, <1>3, <1>4, <1>6, <1>16
<1>21. CASE off[n + 1] <= Len(file)
  <2>1. pos + 8 <= Len(file) /\ pos + 16 <= Len(file) /\ pos + (16 + len) <= Len(file)
    <3>1. len \in Nat /\ Len(file) \in Nat
      BY <1>3, <1>8
    <3>2. pos + (16 + len) <= Len(file)
      BY <1>9, <1>21
    <3> HIDE DEF len
    <3> QED
      BY <1>6, <3>1, <3>2
  <2>2. stamp = a.stamp
    BY <1>10, <2>1 DEF stamp
  <2>3. size = len
    <3>1. Complete(pos, 8)
      BY <1>11, <2>1
    <3> QED
      BY <1>10, <2>1, <3>1 DEF size
  <2>4. bs = a.text
    <3>1. Complete(pos, 16)
      BY <1>11, <2>1
    <3> QED
      BY <1>10, <2>1, <2>3, <3>1
  <2>5. good' = TRUE
    <3>1. Complete(pos, 16 + size)
      BY <1>8, <1>11, <2>1, <2>3
    <3> QED
      BY <1>1, <1>19, <3>1
  <2>6. pos' = off[n + 1]
    <3>1. pos' = pos + 16 + len
      BY <1>1, <2>3
    <3> HIDE DEF len
    <3> QED
      BY <1>6, <1>8, <1>9, <3>1
  <2>7. ReadsAs(r, e)
    <3>1. r.stamp = e.stamp /\ r.text = text
      BY <1>8, <2>2 DEF ArrivesAs
    <3>2. text \in StringsOf(a.text)
      BY <2>4
    <3> HIDE DEF r, bs, a, e
    <3>3. \A k \in 1 .. Len(e.text) : k <= kMaxUDPSize - 16 => k <= Len(text) /\ text[k] = e.text[k]
      BY <1>8, <3>2, TextRead
    <3> QED
      BY <3>1, <3>3 DEF ReadsAs
  <2>8. \A k \in 1 .. n + 1 : ReadsAs(ret'[k], sent'[order'[k]])
    <3> SUFFICES ASSUME NEW k \in 1 .. n + 1 PROVE ReadsAs(ret'[k], sent'[order'[k]])
      OBVIOUS
    <3>1. k \in 1 .. n \/ k = n + 1
      BY <1>3
    <3>2. CASE k = n + 1
      <4>1. ret'[k] = r /\ sent'[order'[k]] = e
        BY <1>1, <1>16, <3>2
      <4> HIDE DEF r, e
      <4> QED
        BY <2>7, <4>1
    <3> QED
      BY <1>18, <3>1, <3>2
  <2>9. pos' = SizeOfFirst'[Len(ret')] /\ pos' <= Len(file')
    BY <1>1, <1>16, <1>17, <1>21, <2>6
  <2> QED
    BY <1>1, <1>16, <1>19, <1>20, <2>5, <2>8, <2>9 DEF ReadInv
<1>22. CASE Len(file) < off[n + 1]
  <2>1. ~Complete(pos, 16 + size)
    <3>1. CASE pos + 16 <= Len(file)
      <4>1. Complete(pos, 8)
        BY <1>3, <1>6, <1>11, <3>1
      <4>2. size = len
        BY <1>10, <3>1, <4>1 DEF size
      <4>3. len \in Nat /\ Len(file) \in Nat /\ Len(file) < pos + (16 + len)
        BY <1>3, <1>8, <1>9, <1>22
      <4>4. 16 + size \in Nat
        BY <1>13
      <4> HIDE DEF len
      <4>5. ~(pos + (16 + len) <= Len(file))
        BY <1>6, <4>3
      <4> QED
        BY <1>11, <4>2, <4>4, <4>5
    <3>2. CASE ~(pos + 16 <= Len(file))
      <4>1. 16 + size \in Nat /\ ~(pos + (16 + size) <= Len(file))
        BY <1>3, <1>6, <1>13, <3>2
      <4> QED
        BY <1>11, <4>1
    <3> QED
      BY <3>1, <3>2
  <2>2. good' = FALSE
    BY <1>1, <1>19, <2>1
  <2>3. \A k \in 1 .. Len(ret') : k < Len(ret') => ReadsAs(ret'[k], sent'[order'[k]])
    <3>1. \A k \in 1 .. Len(ret') : k < Len(ret') => k \in 1 .. n
      BY <1>3, <1>16
    <3> QED
      BY <1>18, <3>1
  <2>4. /\ Len(ret') >= 1
        /\ SizeOfFirst'[Len(ret') - 1] <= Len(file')
        /\ Len(file') < SizeOfFirst'[Len(ret')]
    <3>1. Len(ret') - 1 = n /\ Len(ret') >= 1
      BY <1>3, <1>16
    <3> QED
      BY <1>1, <1>5, <1>16, <1>17, <1>22, <3>1
  <2> QED
    BY <1>1, <1>16, <1>19, <1>20, <2>2, <2>3, <2>4 DEF ReadInv
<1> QED
  BY <1>3, <1>9, <1>21, <1>22

LEMMA ReadStep ==
    NetInv /\ OrderInv /\ FileInv /\ ReadInv /\ OrderInv' /\ FileInv' /\ [Next]_vars => ReadInv'
<1> SUFFICES ASSUME NetInv, OrderInv, FileInv, ReadInv, OrderInv', FileInv', [Next]_vars
             PROVE  ReadInv'
  OBVIOUS
<1>0. ASSUME pc \in {"listen", "save"}, pc' # "done", UNCHANGED <<pos, good, ret>> PROVE ReadInv'
  <2>1. pos = 0 /\ good = TRUE /\ ret = <<>> /\ Len(ret) = 0
    BY <1>0 DEF ReadInv
  <2>2. Len(order') \in Nat /\ Len(file') \in Nat
    BY ElementsOf DEF OrderInv, FileInv
  <2>3. SizeOfFirst'[0] = 0
    BY <2>2, SizesNow, SizesDef
  <2>4. ret' = <<>> /\ Len(ret') = 0 /\ pos' = 0 /\ good' = TRUE
    BY <1>0, <2>1
  <2> QED
    BY <1>0, <2>2, <2>3, <2>4 DEF ReadInv
<1>1. ASSUME NEW e \in [stamp : Stamps, text : Texts], SendEvent(e) PROVE ReadInv'
  BY <1>0, <1>1 DEF SendEvent
<1>2. ASSUME Receive PROVE ReadInv'
  BY <1>0, <1>2 DEF Receive, NetInv
<1>3. ASSUME Snapshot PROVE ReadInv'
  BY <1>0, <1>3 DEF Snapshot
<1>4. ASSUME ReadEvent PROVE ReadInv'
  BY <1>4, RecordRead
<1>5. ASSUME UNCHANGED <<sent, arrived, order, file, pos, good, ret>>,
             pc' \in {"listen", "save"} => pc \in {"listen", "save"},
             pc' = "done" => ~good \/ pos >= Len(file)
      PROVE  ReadInv'
  <2>1. SizeOfFirst' = SizeOfFirst
    BY <1>5, SizesNow
  <2> QED
    BY <1>5, <2>1 DEF ReadInv
<1>6. ASSUME ReadEnd PROVE ReadInv'
  BY <1>5, <1>6 DEF ReadEnd
<1>7. ASSUME NEW i \in DOMAIN arrived, SaveCurrentEvent(i) PROVE ReadInv'
  BY <1>0, <1>7 DEF SaveCurrentEvent
<1>8. ASSUME NEW size \in 0 .. Len(file), Restart(size) PROVE ReadInv'
  BY <1>0, <1>8 DEF Restart
<1>9. ASSUME UNCHANGED vars PROVE ReadInv'
  <2>1. UNCHANGED <<pc, sent, arrived, order, file, pos, good, ret>>
    BY <1>9 DEF vars
  <2> QED
    BY <1>5, <2>1 DEF ReadInv
<1> QED
  BY <1>1, <1>2, <1>3, <1>4, <1>6, <1>7, <1>8, <1>9 DEF Next

LEMMA BytesInit == Init => BytesInv
<1> SUFFICES ASSUME Init PROVE BytesInv
  OBVIOUS
<1>1. /\ pc = "listen" /\ arrived = <<>> /\ order = <<>> /\ file = <<>>
      /\ pos = 0 /\ good = TRUE /\ ret = <<>>
  BY DEF Init
<1>2. Len(order) = 0 /\ Len(order) \in Nat /\ Len(file) = 0 /\ Len(ret) = 0
  BY <1>1
<1>3. SizeOfFirst[0] = 0
  BY <1>2, SizesNow, SizesDef
<1>4. OrderInv
  BY <1>1 DEF OrderInv
<1>5. FileInv
  BY <1>1, <1>2, <1>3 DEF FileInv
<1>6. ReadInv
  BY <1>1, <1>2, <1>3 DEF ReadInv
<1> QED
  BY <1>4, <1>5, <1>6, NetInit DEF BytesInv

LEMMA BytesStep == BytesInv /\ [Next]_vars => BytesInv'
<1> SUFFICES ASSUME BytesInv, [Next]_vars PROVE BytesInv'
  OBVIOUS
<1>1. NetInv /\ OrderInv /\ FileInv /\ ReadInv
  BY DEF BytesInv
<1>2. NetInv'
  BY <1>1, NetStep
<1>3. OrderInv'
  BY <1>1, OrderStep
<1>4. FileInv'
  BY <1>1, <1>3, FileStep
<1>5. ReadInv'
  BY <1>1, <1>3, <1>4, ReadStep
<1> QED
  BY <1>2, <1>3, <1>4, <1>5 DEF BytesInv

LEMMA WholeIs ==
    ASSUME NEW n \in 0 .. Len(order), Len(order) \in Nat, SizeOfFirst[n] <= Len(file),
           \A m \in 0 .. Len(order) : SizeOfFirst[m] <= Len(file) => m <= n
    PROVE  Whole = n
<1> DEFINE S == {m \in 0 .. Len(order) : SizeOfFirst[m] <= Len(file)}
<1>1. n \in S /\ \A y \in S : n >= y
  BY Zenon DEF S
<1>2. \A x \in S : (\A y \in S : x >= y) => x = n
  <2> SUFFICES ASSUME NEW x \in S, \A y \in S : x >= y PROVE x = n
    OBVIOUS
  <2>1. x >= n /\ n >= x /\ x \in Int /\ n \in Int
    BY <1>1
  <2> QED
    BY <2>1
<1>3. Whole = CHOOSE x \in S : \A y \in S : x >= y
  BY DEF Whole, Max
<1> HIDE DEF S
<1> QED
  BY <1>1, <1>2, <1>3, Zenon

LEMMA WholeRead == BytesInv => WholeRecordsRead
<1> SUFFICES ASSUME BytesInv, pc = "done"
             PROVE  /\ Len(ret) \in {Whole, Whole + 1}
                    /\ \A k \in 1 .. Whole :
                          /\ ret[k].stamp = sent[order[k]].stamp
                          /\ IsPrefix(Fits(sent[order[k]].text), ret[k].text)
  BY DEF WholeRecordsRead
<1> DEFINE off == SizeOfFirst
<1>0. NetInv /\ OrderInv /\ FileInv /\ ReadInv
  BY DEF BytesInv
<1>1. /\ Len(order) \in Nat
      /\ \A n \in 0 .. Len(order) : off[n] \in Nat /\ \A m \in 0 .. n - 1 : off[m] + 16 <= off[n]
  BY <1>0, OffsetsNow
<1>2. /\ Len(file) \in Nat /\ Len(ret) \in Nat
      /\ \A k \in 1 .. Len(ret) : ret[k] \in [stamp : Nat, text : Seq(Bytes)]
  BY <1>0, ElementsOf DEF FileInv, ReadInv
<1>3. Len(ret) <= Len(order) /\ (~good \/ pos >= Len(file)) /\ good \in BOOLEAN
  BY <1>0 DEF ReadInv
<1>4. PICK n \in 0 .. Len(order) :
        /\ Whole = n /\ Len(ret) \in {n, n + 1}
        /\ \A k \in 1 .. n : k \in 1 .. Len(ret) /\ (good \/ k < Len(ret))
  <2> HIDE DEF off
  <2>1. CASE good
    <3>1. pos = off[Len(ret)] /\ pos <= Len(file) /\ pos >= Len(file)
      BY <1>0, <1>3, <2>1 DEF ReadInv, off
    <3>2. Len(ret) \in 0 .. Len(order)
      BY <1>1, <1>2, <1>3
    <3>3. off[Len(ret)] = Len(file)
      <4>1. off[Len(ret)] \in Nat
        BY <1>1, <3>2
      <4> QED
        BY <1>2, <3>1, <4>1
    <3>4. ASSUME NEW m \in 0 .. Len(order), off[m] <= Len(file) PROVE m <= Len(ret)
      <4> SUFFICES ASSUME ~(m <= Len(ret)) PROVE FALSE
        OBVIOUS
      <4>1. Len(ret) \in 0 .. m - 1
        BY <1>2, <3>2
      <4>2. off[Len(ret)] + 16 <= off[m] /\ off[m] \in Nat
        BY <1>1, <4>1
      <4> QED
        BY <1>2, <3>3, <3>4, <4>2
    <3>5. Whole = Len(ret)
      <4>1. off[Len(ret)] <= Len(file)
        BY <1>2, <3>3
      <4> QED
        BY <1>1, <3>2, <3>4, <4>1, WholeIs DEF off
    <3> QED
      BY <2>1, <3>2, <3>5
  <2>2. CASE ~good
    <3>1. /\ Len(ret) >= 1 /\ off[Len(ret) - 1] <= Len(file) /\ Len(file) < off[Len(ret)]
      BY <1>0, <2>2 DEF ReadInv, off
    <3> DEFINE n == Len(ret) - 1
    <3>2. n \in 0 .. Len(order) /\ Len(ret) = n + 1 /\ n + 1 \in 0 .. Len(order)
      BY <1>1, <1>2, <1>3, <3>1
    <3>3. off[n] <= Len(file) /\ Len(file) < off[n + 1]
      BY <3>1, <3>2
    <3> HIDE DEF n
    <3>4. ASSUME NEW m \in 0 .. Len(order), off[m] <= Len(file) PROVE m <= n
      <4> SUFFICES ASSUME ~(m <= n) PROVE FALSE
        OBVIOUS
      <4>1. m = n + 1 \/ n + 1 \in 0 .. m - 1
        BY <3>2
      <4>2. off[m] \in Nat /\ off[n + 1] \in Nat
        BY <1>1, <3>2
      <4>3. off[n + 1] <= off[m]
        <5>1. CASE m = n + 1
          BY <4>2, <5>1
        <5>2. CASE n + 1 \in 0 .. m - 1
          <6>1. off[n + 1] + 16 <= off[m]
            BY <1>1, <5>2
          <6> QED
            BY <4>2, <6>1
        <5> QED
          BY <4>1, <5>1, <5>2
      <4> QED
        BY <1>2, <3>3, <3>4, <4>2, <4>3
    <3>5. Whole = n
      BY <1>1, <3>2, <3>3, <3>4, WholeIs DEF off
    <3>6. \A k \in 1 .. n : k \in 1 .. Len(ret) /\ k < Len(ret)
      BY <3>2
    <3> QED
      BY <3>2, <3>5, <3>6
  <2> QED
    BY <2>1, <2>2
<1>5. ASSUME NEW k \in 1 .. n
      PROVE  /\ ret[k].stamp = sent[order[k]].stamp
             /\ IsPrefix(Fits(sent[order[k]].text), ret[k].text)
  <2>1. k \in 1 .. Len(ret) /\ k \in 1 .. Len(order)
    BY <1>1, <1>4
  <2>2. ReadsAs(ret[k], sent[order[k]])
    BY <1>0, <1>4, <2>1 DEF ReadInv
  <2>3. sent[order[k]].text \in Seq(Bytes)
    <3>1. sent[order[k]] \in Sent
      BY <1>0, <2>1, SavedEvent
    <3> QED
      BY <3>1, SentType
  <2>4. ret[k].text \in Seq(Bytes)
    BY <1>2, <2>1
  <2> DEFINE e == sent[order[k]]
             r == ret[k]
  <2>5. r.stamp = e.stamp
    BY <2>2 DEF ReadsAs
  <2>6. \A j \in 1 .. Len(e.text) : j <= kMaxUDPSize - 16 => j <= Len(r.text) /\ r.text[j] = e.text[j]
    BY <2>2, Zenon DEF ReadsAs
  <2>7. IsPrefix(Fits(e.text), r.text)
    <3> HIDE DEF e, r
    <3> QED
      BY <2>3, <2>4, <2>6, FitsPrefix DEF e, r
  <2> QED
    BY <2>5, <2>7
<1> QED
  BY <1>4, <1>5

(* Wherever a kill cuts the file that SaveCurrentEvents writes, and whatever *)
(* the events are, ReadEventsFrom returns every whole record, soonest first, *)
(* with its time and all of the text that had room, and at most one event    *)
(* more.                                                                     *)
THEOREM WholeRecordsAreRead == Spec => []WholeRecordsRead
<1>1. Spec => []BytesInv
  BY BytesInit, BytesStep, PTL DEF Spec
<1> QED
  BY <1>1, WholeRead, PTL

-----------------------------------------------------------------------------
(* fttl's datagram.                                                          *)

LEMMA FourBytesAt ==
    ASSUME NEW mem \in Seq(Bytes), 4 <= Len(mem), NEW x \in 0 .. Weight[4] - 1,
           \A k \in 1 .. 4 : mem[k] = Encode(x, 4)[k]
    PROVE  Decode(SubSeq(mem, 1, 4)) = x
<1> DEFINE cut == SubSeq(mem, 1, 4)
           code == Encode(x, 4)
<1>0. x \in Nat /\ 4 \in 0 .. 8
  BY WeightType
<1>1. code \in Seq(Bytes) /\ Len(code) = 4
  BY <1>0, EncodeType
<1>2. Decode(code) = x
  BY <1>0, DecodeEncode
<1>3. cut \in Seq(Bytes) /\ Len(cut) = 4 /\ \A k \in 1 .. 4 : cut[k] = mem[k]
  <2> HIDE DEF code
  <2> QED
    OBVIOUS
<1>4. \A k \in 1 .. 4 : mem[k] = code[k]
  OBVIOUS
<1> HIDE DEF cut, code
<1>5. Len(cut) = Len(code) /\ \A k \in 1 .. Len(cut) : cut[k] = code[k]
  BY <1>1, <1>3, <1>4
<1>6. cut = code
  BY <1>1, <1>3, <1>5, SeqsEqual
<1> QED
  BY <1>2, <1>6 DEF cut

(* Run takes from its buffer the timestamp and the path that                 *)
(* send_message_fn put in, for every path that leaves room for the           *)
(* timestamp; a failed read gives the empty path and time zero.  This is     *)
(* what FileTTL assumes of Packed and Unpacked.                              *)
THEOREM PairsUnpackAsPacked ==
    /\ \A timestamp \in Numbers : \A path \in Seq(Bytes) :
          Len(path) < Weight[4] /\ 12 + Len(path) <= message_len =>
              UnpackPair(PackPair(timestamp, path)) = <<timestamp, path>>
    /\ UnpackPair(<<>>) = <<0, <<>>>>
<1>0. message_len \in Nat /\ message_len >= 12
  BY RoomAssumption
<1>1. ASSUME NEW timestamp \in Numbers, NEW path \in Seq(Bytes),
             Len(path) < Weight[4], 12 + Len(path) <= message_len
      PROVE  UnpackPair(PackPair(timestamp, path)) = <<timestamp, path>>
  <2> DEFINE n == Len(path)
             a == Encode(n, 4)
             b == EncodeU64LE(timestamp)
             bs == a \o (path \o b)
             buffer == Memory(bs, message_len, 0)
  <2>1. n \in Nat /\ n \in 0 .. Weight[4] - 1 /\ timestamp \in Nat
    <3>1. Weight[4] \in Nat /\ Weight[8] \in Nat
      BY WeightType, SMTT(30)
    <3>2. n \in Nat /\ n < Weight[4]
      BY <1>1
    <3> HIDE DEF n
    <3> QED
      BY <3>1, <3>2 DEF Numbers
  <2>2. a \in Seq(Bytes) /\ Len(a) = 4
    <3>1. 4 \in 0 .. 8
      OBVIOUS
    <3> QED
      BY <2>1, <3>1, EncodeType
  <2>3. b \in Seq(Bytes) /\ Len(b) = 8
    BY <2>1, EncodeU64Type
  <2> HIDE DEF a, b
  <2>4. TwoAndText(bs, a, path, b, Bytes)
    BY <2>2, <2>3, ConcatThree
  <2>5. PackPair(timestamp, path) = bs
    <3>1. (a \o path) \o b = bs
      BY <2>2, <2>3
    <3> QED
      BY <3>1 DEF PackPair, a, b
  <2> HIDE DEF bs
  <2>6. /\ bs \in Seq(Bytes) /\ Len(bs) = 4 + (n + 8)
        /\ \A k \in 1 .. 4 : bs[k] = a[k]
        /\ \A k \in 1 .. n : bs[4 + k] = path[k]
        /\ \A k \in 1 .. 8 : bs[(4 + n) + k] = b[k]
    BY <2>2, <2>3, <2>4, Zenon DEF TwoAndText
  <2>7. StartsWith(buffer, message_len, bs)
    <3>1. bs \in Seq(Bytes) /\ 0 \in Bytes
      BY <2>6, ByteType
    <3> QED
      BY <1>0, <3>1, MemoryOf
  <2> HIDE DEF buffer
  <2>8. buffer \in Seq(Bytes) /\ Len(buffer) = message_len
        /\ \A k \in 1 .. message_len : k <= 4 + (n + 8) => buffer[k] = bs[k]
    BY <2>6, <2>7, Zenon DEF StartsWith
  <2>a. 12 + n <= message_len
    BY <1>1
  <2>9. Decode(SubSeq(buffer, 1, 4)) = n
    <3>1. ASSUME NEW k \in 1 .. 4 PROVE buffer[k] = Encode(n, 4)[k]
      <4>0. n \in Nat
        BY <2>1
      <4> HIDE DEF n
      <4>1. k \in 1 .. message_len /\ k <= 4 + (n + 8)
        BY <1>0, <4>0
      <4> QED
        BY <2>6, <2>8, <4>1 DEF a
    <3>2. 4 <= Len(buffer)
      BY <1>0, <2>8
    <3> QED
      BY <2>1, <2>8, <3>1, <3>2, FourBytesAt
  <2>10. DecodeU64LE(SubSeq(buffer, (4 + n) + 1, (4 + n) + 8)) = timestamp
    <3>0. n \in Nat
      BY <2>1
    <3> HIDE DEF n
    <3>1. ASSUME NEW k \in 1 .. 8 PROVE buffer[(4 + n) + k] = EncodeU64LE(timestamp)[k]
      <4>1. (4 + n) + k \in 1 .. message_len /\ (4 + n) + k <= 4 + (n + 8)
        BY <1>0, <2>a, <3>0
      <4> QED
        BY <2>6, <2>8, <4>1 DEF b
    <3>2. 4 + n \in Nat /\ (4 + n) + 8 <= Len(buffer)
      BY <1>0, <2>8, <2>a, <3>0
    <3> QED
      BY <2>8, <3>1, <3>2, U64At
  <2>11. SubSeq(buffer, 5, 4 + n) = path
    <3> DEFINE u == SubSeq(buffer, 4 + 1, 4 + n)
    <3>0. n \in Nat
      BY <2>1
    <3>1. 4 \in Nat /\ 4 + n \in Nat /\ 4 <= 4 + n /\ 4 + n <= Len(buffer) /\ (4 + n) - 4 = n /\ 4 + 1 = 5
      <4> HIDE DEF n
      <4> QED
        BY <1>0, <2>8, <2>a, <3>0
    <3>2. u \in Seq(Bytes) /\ Len(u) = (4 + n) - 4 /\ \A k \in 1 .. (4 + n) - 4 : u[k] = buffer[4 + k]
      BY <2>8, <3>1, SubSeqOf
    <3> HIDE DEF u
    <3>3. ASSUME NEW k \in 1 .. n PROVE u[k] = path[k]
      <4>1. 4 + k \in 1 .. message_len /\ 4 + k <= 4 + (n + 8)
        <5> HIDE DEF n
        <5> QED
          BY <1>0, <2>a, <3>0
      <4> QED
        BY <2>6, <2>8, <3>1, <3>2, <4>1
    <3>4. Len(u) = Len(path) /\ \A k \in 1 .. Len(u) : u[k] = path[k]
      BY <3>1, <3>2, <3>3
    <3>5. u = path
      BY <3>2, <3>4, SeqsEqual
    <3> QED
      BY <3>1, <3>5 DEF u
  <2>12. UnpackPair(bs) = <<DecodeU64LE(SubSeq(buffer, (4 + n) + 1, (4 + n) + 8)), SubSeq(buffer, 5, 4 + n)>>
    BY <2>9, Zenon DEF UnpackPair, buffer
  <2> QED
    BY <2>5, <2>10, <2>11, <2>12
<1>2. UnpackPair(<<>>) = <<0, <<>>>>
  <2> DEFINE buffer == Memory(<<>>, message_len, 0)
             z == Encode(0, 4)
             y == EncodeU64LE(0)
  <2>1. buffer \in Seq(Bytes) /\ Len(buffer) = message_len /\ \A k \in 1 .. message_len : buffer[k] = 0
    <3>1. buffer = [k \in 1 .. message_len |-> 0]
      <4>1. \A k \in 1 .. message_len : ~(k <= Len(<<>>))
        BY <1>0
      <4> QED
        BY <4>1 DEF Memory
    <3>2. buffer \in [1 .. message_len -> Bytes]
      BY <3>1, ByteType
    <3> QED
      BY <1>0, <3>1, <3>2
  <2> HIDE DEF buffer
  <2>2. \A k \in 0 .. 8 : Weight[k] \in Nat \ {0}
    BY WeightType
  <2>3. \A w \in Nat \ {0} : 0 \div w = 0
    OBVIOUS
  <2>4. 0 % Base = 0
    BY BaseAssumption
  <2>5. ASSUME NEW k \in 1 .. 8 PROVE (0 \div Weight[k - 1]) % Base = 0
    <3>1. 0 \div Weight[k - 1] = 0
      BY <2>2, <2>3
    <3> QED
      BY <2>4, <3>1
  <2>6. \A k \in 1 .. 4 : z[k] = 0
    BY <2>5 DEF Encode
  <2>7. \A k \in 1 .. 8 : y[k] = 0
    BY <2>5 DEF Encode, EncodeU64LE
  <2> HIDE DEF z, y
  <2>8. 0 \in 0 .. Weight[4] - 1 /\ 0 \in Numbers
    BY <2>2 DEF Numbers
  <2>9. Decode(SubSeq(buffer, 1, 4)) = 0
    <3>1. \A k \in 1 .. 4 : buffer[k] = Encode(0, 4)[k]
      BY <1>0, <2>1, <2>6 DEF z
    <3> QED
      BY <1>0, <2>1, <2>8, <3>1, FourBytesAt
  <2>10. DecodeU64LE(SubSeq(buffer, 4 + 1, 4 + 8)) = 0
    <3>1. \A k \in 1 .. 8 : buffer[4 + k] = EncodeU64LE(0)[k]
      BY <1>0, <2>1, <2>7 DEF y
    <3>2. 4 \in Nat /\ 4 + 8 <= Len(buffer)
      BY <1>0, <2>1
    <3> QED
      BY <2>1, <2>8, <3>1, <3>2, U64At
  <2>11. SubSeq(buffer, 5, 4) = <<>>
    BY <2>1
  <2>12. UnpackPair(<<>>) = <<DecodeU64LE(SubSeq(buffer, (4 + 0) + 1, (4 + 0) + 8)), SubSeq(buffer, 5, 4 + 0)>>
    BY <2>9, Zenon DEF UnpackPair, buffer
  <2>13. 4 + 0 = 4
    OBVIOUS
  <2> QED
    BY <2>10, <2>11, <2>12, <2>13
<1> QED
  BY <1>1, <1>2
=============================================================================
