------------------------- MODULE InterpretersProofs -------------------------
(***************************************************************************)
(* The two interpreters and the assembler.  The jumps of brainfuck, for      *)
(* programs of any length and any nesting: where a scan stands, the brackets *)
(* it has yet to close are the depth of the code it has passed.  pshy for    *)
(* any input, any number of processes and any programs: the terminal has one *)
(* reader, and every line, however long, is taken once, word for word.  tvm  *)
(* for any source: the variables that BuildSymtab places do not overlap.     *)
(***************************************************************************)
EXTENDS Brainfuck, Pshy, Tvm, FiniteSetTheorems, WellFoundedInduction, TLAPS

(* Counting brackets, of a given code. *)
Where(code, c, lo, hi) == {k \in lo .. hi : code[k] = c}
CountIn(code, c, lo, hi) == Cardinality(Where(code, c, lo, hi))
DepthIn(code, lo, hi) == CountIn(code, "[", lo, hi) - CountIn(code, "]", lo, hi)

Nested(code) ==
    /\ \A k \in 1 .. Len(code) : DepthIn(code, 1, k) >= 0
    /\ DepthIn(code, 1, Len(code)) = 0

LEMMA CountFinite ==
    ASSUME NEW code, NEW c, NEW lo \in Int, NEW hi \in Int
    PROVE  IsFiniteSet(Where(code, c, lo, hi)) /\ CountIn(code, c, lo, hi) \in Nat
<1>1. IsFiniteSet(lo .. hi)
  BY FS_Interval
<1>2. Where(code, c, lo, hi) \subseteq lo .. hi
  BY DEF Where
<1>3. IsFiniteSet(Where(code, c, lo, hi))
  BY <1>1, <1>2, FS_Subset
<1> QED
  BY <1>3, FS_CardinalityType DEF CountIn

LEMMA CountNone ==
    ASSUME NEW code, NEW c, NEW lo \in Int, NEW hi \in Int, lo > hi
    PROVE  CountIn(code, c, lo, hi) = 0
<1>1. Where(code, c, lo, hi) = {}
  BY DEF Where
<1> QED
  BY <1>1, FS_EmptySet DEF CountIn

LEMMA CountOne ==
    ASSUME NEW code, NEW c, NEW k \in Int
    PROVE  CountIn(code, c, k, k) = IF code[k] = c THEN 1 ELSE 0
<1>1. Where(code, c, k, k) = IF code[k] = c THEN {k} ELSE {}
  BY DEF Where
<1> QED
  BY <1>1, FS_EmptySet, FS_Singleton DEF CountIn

LEMMA CountSplit ==
    ASSUME NEW code, NEW c, NEW lo \in Int, NEW mid \in Int, NEW hi \in Int,
           lo <= mid + 1, mid <= hi
    PROVE  CountIn(code, c, lo, hi) = CountIn(code, c, lo, mid) + CountIn(code, c, mid + 1, hi)
<1> DEFINE L == Where(code, c, lo, mid)
           R == Where(code, c, mid + 1, hi)
<1>1. mid + 1 \in Int
  OBVIOUS
<1>2. IsFiniteSet(L) /\ IsFiniteSet(R)
  BY <1>1, CountFinite
<1>3. Where(code, c, lo, hi) = L \cup R /\ L \cap R = {}
  BY DEF Where
<1>4. Cardinality(L) \in Nat /\ Cardinality(R) \in Nat
  BY <1>2, FS_CardinalityType
<1>5. Cardinality(L \cup R) = Cardinality(L) + Cardinality(R) - Cardinality({})
  BY <1>2, <1>3, FS_Union
<1>6. Cardinality({}) = 0
  BY FS_EmptySet
<1> HIDE DEF L, R
<1>7. Cardinality(L \cup R) = Cardinality(L) + Cardinality(R)
  BY <1>4, <1>5, <1>6
<1> QED
  BY <1>3, <1>7 DEF CountIn, L, R

LEMMA DepthInt ==
    ASSUME NEW code, NEW lo \in Int, NEW hi \in Int
    PROVE  DepthIn(code, lo, hi) \in Int
<1>1. CountIn(code, "[", lo, hi) \in Nat /\ CountIn(code, "]", lo, hi) \in Nat
  BY CountFinite
<1> QED
  BY <1>1 DEF DepthIn

LEMMA DepthNone ==
    ASSUME NEW code, NEW lo \in Int, NEW hi \in Int, lo > hi
    PROVE  DepthIn(code, lo, hi) = 0
<1>1. CountIn(code, "[", lo, hi) = 0 /\ CountIn(code, "]", lo, hi) = 0
  BY CountNone
<1> QED
  BY <1>1 DEF DepthIn

LEMMA DepthOne ==
    ASSUME NEW code, NEW k \in Int
    PROVE  /\ code[k] = "[" => DepthIn(code, k, k) = 1
           /\ code[k] = "]" => DepthIn(code, k, k) = -1
           /\ code[k] \notin {"[", "]"} => DepthIn(code, k, k) = 0
<1>1. CountIn(code, "[", k, k) = IF code[k] = "[" THEN 1 ELSE 0
  BY CountOne
<1>2. CountIn(code, "]", k, k) = IF code[k] = "]" THEN 1 ELSE 0
  BY CountOne
<1> QED
  BY <1>1, <1>2 DEF DepthIn

LEMMA DepthSplit ==
    ASSUME NEW code, NEW lo \in Int, NEW mid \in Int, NEW hi \in Int,
           lo <= mid + 1, mid <= hi
    PROVE  DepthIn(code, lo, hi) = DepthIn(code, lo, mid) + DepthIn(code, mid + 1, hi)
<1> DEFINE N(c, a, b) == CountIn(code, c, a, b)
<1>1. N("[", lo, hi) = N("[", lo, mid) + N("[", mid + 1, hi)
  BY CountSplit
<1>2. N("]", lo, hi) = N("]", lo, mid) + N("]", mid + 1, hi)
  BY CountSplit
<1>3. mid + 1 \in Int
  OBVIOUS
<1>4. N("[", lo, mid) \in Nat /\ N("]", lo, mid) \in Nat
  BY CountFinite
<1>5. N("[", mid + 1, hi) \in Nat /\ N("]", mid + 1, hi) \in Nat
  BY <1>3, CountFinite
<1> QED
  BY <1>1, <1>2, <1>4, <1>5 DEF DepthIn

(* The arithmetic of size_t, where it does not wrap and where it does. *)
LEMMA ModSmall ==
    ASSUME NEW w \in Nat, NEW p \in 0 .. w - 1
    PROVE  p % w = p
  OBVIOUS

LEMMA ModWraps ==
    ASSUME NEW w \in Nat, w > 0
    PROVE  w % w = 0 /\ (-1) % w = w - 1
  OBVIOUS

-----------------------------------------------------------------------------
(* A scan to the right from the bracket at f, about to look at p, and one to  *)
(* the left: the brackets open are the depth passed, and none passed closed   *)
(* the last of them.                                                          *)
RightAt(code, f, p, s) ==
    /\ f \in 0 .. Len(code) - 1 /\ p \in f + 1 .. Len(code) - 1
    /\ s \in Nat /\ s >= 1 /\ s = DepthIn(code, f + 1, p)
    /\ \A q \in f + 1 .. p - 1 : DepthIn(code, f + 1, q + 1) # 0

LeftAt(code, f, p, s) ==
    /\ f \in 0 .. Len(code) - 1 /\ p \in 0 .. f - 1
    /\ s \in Nat /\ s >= 1 /\ -s = DepthIn(code, p + 2, f + 1)
    /\ \A q \in p + 1 .. f - 1 : DepthIn(code, q + 1, f + 1) # 0

(* What SkipAfter adds to the open brackets. *)
Turn(code, p) == DepthIn(code, p + 1, p + 1)

LEMMA TurnType ==
    ASSUME NEW code, NEW p \in Nat
    PROVE  Turn(code, p) \in {-1, 0, 1}
<1>1. p + 1 \in Int
  OBVIOUS
<1> QED
  BY <1>1, DepthOne DEF Turn

LEMMA PrefixDepth ==
    ASSUME NEW code, Nested(code), Len(code) \in Nat, NEW k \in 0 .. Len(code)
    PROVE  DepthIn(code, 1, k) >= 0
<1>1. CASE k = 0
  BY <1>1, DepthNone
<1>2. CASE k \in 1 .. Len(code)
  BY <1>2 DEF Nested
<1> QED
  BY <1>1, <1>2

(* Open brackets are closed before the end, and closed ones opened after the  *)
(* beginning.                                                                 *)
LEMMA ClosedBeforeEnd ==
    ASSUME NEW code, Nested(code), Len(code) \in Nat, NEW f \in 0 .. Len(code) - 1,
           DepthIn(code, f + 1, Len(code)) >= 1
    PROVE  FALSE
<1>1. DepthIn(code, 1, Len(code)) = DepthIn(code, 1, f) + DepthIn(code, f + 1, Len(code))
  BY DepthSplit
<1>2. DepthIn(code, 1, f) >= 0
  BY PrefixDepth
<1>3. DepthIn(code, 1, Len(code)) = 0
  BY DEF Nested
<1>4. DepthIn(code, 1, f) \in Int /\ DepthIn(code, f + 1, Len(code)) \in Int
  BY DepthInt
<1> QED
  BY <1>1, <1>2, <1>3, <1>4

LEMMA OpenedAfterStart ==
    ASSUME NEW code, Nested(code), Len(code) \in Nat, NEW f \in 0 .. Len(code) - 1,
           DepthIn(code, 1, f + 1) <= -1
    PROVE  FALSE
<1>1. DepthIn(code, 1, f + 1) >= 0
  BY PrefixDepth
<1>2. DepthIn(code, 1, f + 1) \in Int
  BY DepthInt
<1> QED
  BY <1>1, <1>2

LEMMA RightStarts ==
    ASSUME NEW code, Nested(code), Len(code) \in Nat, NEW f \in 0 .. Len(code) - 1,
           code[f + 1] = "["
    PROVE  RightAt(code, f, f + 1, 1)
<1>1. DepthIn(code, f + 1, f + 1) = 1
  BY DepthOne
<1>2. f + 1 # Len(code)
  BY <1>1, ClosedBeforeEnd
<1> QED
  BY <1>1, <1>2 DEF RightAt

LEMMA RightGoesOn ==
    ASSUME NEW code, Nested(code), Len(code) \in Nat, NEW f, NEW p, NEW s,
           RightAt(code, f, p, s)
    PROVE  /\ DepthIn(code, f + 1, p + 1) = s + Turn(code, p)
           /\ s + Turn(code, p) # 0 => RightAt(code, f, p + 1, s + Turn(code, p))
<1>1. f \in Nat /\ p \in Nat /\ f < p /\ p < Len(code)
  BY DEF RightAt
<1>2. s = DepthIn(code, f + 1, p) /\ s \in Int /\ s >= 1
  BY <1>1, DepthInt DEF RightAt
<1>3. DepthIn(code, f + 1, p + 1) = s + Turn(code, p)
  BY <1>1, <1>2, DepthSplit DEF Turn
<1>4. ASSUME s + Turn(code, p) # 0 PROVE RightAt(code, f, p + 1, s + Turn(code, p))
  <2>1. s + Turn(code, p) \in Nat /\ s + Turn(code, p) >= 1
    BY <1>1, <1>2, <1>4, TurnType
  <2>2. p + 1 # Len(code)
    BY <1>1, <1>3, <2>1, ClosedBeforeEnd
  <2>3. \A q \in f + 1 .. p : DepthIn(code, f + 1, q + 1) # 0
    BY <1>1, <1>3, <1>4 DEF RightAt
  <2> QED
    BY <1>1, <1>3, <2>1, <2>2, <2>3 DEF RightAt
<1> QED
  BY <1>3, <1>4

LEMMA LeftStarts ==
    ASSUME NEW code, Nested(code), Len(code) \in Nat, NEW f \in 0 .. Len(code) - 1,
           code[f + 1] = "]"
    PROVE  f # 0 /\ LeftAt(code, f, f - 1, 1)
<1>1. DepthIn(code, f + 1, f + 1) = -1
  BY DepthOne
<1>2. f # 0
  BY <1>1, OpenedAfterStart
<1>3. (f - 1) + 2 = f + 1 /\ (f - 1) + 1 = f
  OBVIOUS
<1>4. \A q \in f .. f - 1 : FALSE
  OBVIOUS
<1> QED
  BY <1>1, <1>2, <1>3, <1>4 DEF LeftAt

LEMMA LeftGoesOn ==
    ASSUME NEW code, Nested(code), Len(code) \in Nat, NEW f, NEW p, NEW s,
           LeftAt(code, f, p, s)
    PROVE  /\ DepthIn(code, p + 1, f + 1) = -(s - Turn(code, p))
           /\ s - Turn(code, p) # 0 => p # 0 /\ LeftAt(code, f, p - 1, s - Turn(code, p))
<1>1. f \in Nat /\ p \in Nat /\ p < f /\ f < Len(code)
  BY DEF LeftAt
<1>2. s \in Nat /\ s >= 1 /\ -s = DepthIn(code, p + 2, f + 1)
  BY DEF LeftAt
<1>3. DepthIn(code, p + 1, f + 1) = Turn(code, p) + DepthIn(code, p + 2, f + 1)
  <2>1. DepthIn(code, p + 1, f + 1) = DepthIn(code, p + 1, p + 1) + DepthIn(code, (p + 1) + 1, f + 1)
    BY <1>1, DepthSplit
  <2>2. (p + 1) + 1 = p + 2
    BY <1>1
  <2> QED
    BY <2>1, <2>2 DEF Turn
<1>4. Turn(code, p) \in {-1, 0, 1}
  BY <1>1, TurnType
<1>5. DepthIn(code, p + 1, f + 1) = -(s - Turn(code, p))
  BY <1>2, <1>3, <1>4
<1>6. ASSUME s - Turn(code, p) # 0 PROVE p # 0 /\ LeftAt(code, f, p - 1, s - Turn(code, p))
  <2>1. s - Turn(code, p) \in Nat /\ s - Turn(code, p) >= 1
    BY <1>2, <1>4, <1>6
  <2>2. p # 0
    BY <1>1, <1>5, <2>1, OpenedAfterStart
  <2>3. \A q \in p .. f - 1 : DepthIn(code, q + 1, f + 1) # 0
    <3>1. DepthIn(code, p + 1, f + 1) # 0
      BY <1>5, <2>1
    <3> QED
      BY <1>1, <3>1 DEF LeftAt
  <2>4. (p - 1) + 2 = p + 1 /\ (p - 1) + 1 = p
    BY <1>1
  <2> QED
    BY <1>1, <1>5, <2>1, <2>2, <2>3, <2>4 DEF LeftAt
<1> QED
  BY <1>5, <1>6

-----------------------------------------------------------------------------
(* The interpreter.                                                          *)

ScanInv ==
    /\ mStatus # "wild"
    /\ mStatus = "executing" /\ pc = "run" => mCodePos \in 0 .. Len(mCode)
    /\ pc \in {"run", "right", "left"}
    /\ pc # "run" => mStatus = "executing"
    /\ pc = "right" => RightAt(mCode, from, mCodePos, skip)
    /\ pc = "left" => LeftAt(mCode, from, mCodePos, skip)

JumpInv == mCode \in Codes /\ (Nested(mCode) => ScanInv)

LEMMA NestedIsWellBracketed == Nested(mCode) <=> WellBracketed
  BY DEF Nested, WellBracketed, DepthIn, CountIn, Where, Depth, Count

LEMMA LenType ==
    ASSUME NEW code \in Codes
    PROVE  Len(code) \in Nat /\ W \in Nat /\ Len(code) + 1 < W
<1>1. code \in Seq(STRING)
  BY ConstantsAssumption
<1>2. Len(code) \in Nat
  BY <1>1
<1> QED
  BY <1>2, ConstantsAssumption

LEMMA IncrOnCode ==
    ASSUME NEW p \in Nat, p + 1 < W, W \in Nat
    PROVE  Incr(p) = p + 1
  BY ModSmall DEF Incr

LEMMA DecrOnCode ==
    ASSUME NEW p \in Nat, p < W, W \in Nat
    PROVE  p # 0 => Decr(p) = p - 1
  BY ModSmall DEF Decr

(* Position 0 is left downwards, and come back to. *)
LEMMA IncrDecr ==
    ASSUME NEW p \in Nat, p < W, W \in Nat
    PROVE  Incr(Decr(p)) = p
<1>1. CASE p = 0
  <2>1. Decr(p) = W - 1
    BY <1>1, ModWraps DEF Decr
  <2>2. Incr(W - 1) = 0
    BY ModWraps DEF Incr
  <2> QED
    BY <1>1, <2>1, <2>2
<1>2. CASE p # 0
  <2>1. Decr(p) = p - 1
    BY <1>2, DecrOnCode
  <2>2. Incr(p - 1) = p
    BY <1>2, IncrOnCode
  <2> QED
    BY <2>1, <2>2
<1> QED
  BY <1>1, <1>2

(* A turn that ends at p on the code. *)
LEMMA AdvanceOnCode ==
    ASSUME NEW p, Incr(p) \in Nat, Len(mCode) \in Nat, Advance(p), mCode' = mCode, pc' = "run"
    PROVE  ScanInv'
<1>1. mStatus' # "wild"
  BY DEF Advance
<1>2. mStatus' = "executing" => mCodePos' \in 0 .. Len(mCode')
  BY DEF Advance
<1> QED
  BY <1>1, <1>2 DEF ScanInv

(* What the scans count is the depth. *)
LEMMA SkipIsDepth ==
    ASSUME Len(mCode) \in Nat, mCodePos \in Nat, mCodePos < Len(mCode), skip \in Nat
    PROVE  /\ SkipAfter("[", "]") = skip + Turn(mCode, mCodePos)
           /\ SkipAfter("]", "[") = skip - Turn(mCode, mCodePos)
<1>1. Char = mCode[mCodePos + 1]
  BY DEF Char
<1>2. /\ Char = "[" => Turn(mCode, mCodePos) = 1
      /\ Char = "]" => Turn(mCode, mCodePos) = -1
      /\ Char \notin {"[", "]"} => Turn(mCode, mCodePos) = 0
  BY <1>1, DepthOne DEF Turn
<1> QED
  BY <1>2 DEF SkipAfter

LEMMA PlainStep ==
    ASSUME Len(mCode) \in Nat, W \in Nat, Len(mCode) + 1 < W, ScanInv, Plain
    PROVE  ScanInv'
<1>1. mStatus = "executing" /\ pc = "run"
  BY DEF Plain, IncrCell, DecrCell, MoveCursor, OutputChar, InputChar, Comment, EnterLoop, Executing
<1>2. mCodePos \in 0 .. Len(mCode)
  BY <1>1 DEF ScanInv
<1>3. Incr(mCodePos) \in Nat
  BY <1>2, IncrOnCode
<1>4. Advance(mCodePos) /\ mCode' = mCode /\ pc' = "run"
  BY <1>1 DEF Plain, jumpVars
<1> QED
  BY <1>3, <1>4, AdvanceOnCode

LEMMA JumpStarts ==
    ASSUME Len(mCode) \in Nat, W \in Nat, Len(mCode) + 1 < W, Nested(mCode), ScanInv,
           JumpLBrack \/ JumpRBrack
    PROVE  ScanInv'
<1>1. mStatus = "executing" /\ mStatus' = "executing" /\ pc = "run" /\ mCode' = mCode
  BY DEF JumpLBrack, JumpRBrack, Executing
<1>2. mCodePos \in 0 .. Len(mCode)
  BY <1>1 DEF ScanInv
<1>3. Char \in {"[", "]"}
  BY DEF JumpLBrack, JumpRBrack, Executing
<1>4. mCodePos \in 0 .. Len(mCode) - 1 /\ Char = mCode[mCodePos + 1]
  BY <1>2, <1>3 DEF Char
<1>5. CASE JumpLBrack
  <2>1. /\ pc' = "right" /\ skip' = 1 /\ from' = mCodePos /\ mCodePos' = Incr(mCodePos)
        /\ Char = "["
    BY <1>5 DEF JumpLBrack, Executing
  <2>2. mCodePos' = mCodePos + 1
    BY <1>4, <2>1, IncrOnCode
  <2>3. RightAt(mCode, mCodePos, mCodePos + 1, 1)
    BY <1>4, <2>1, RightStarts
  <2> QED
    BY <1>1, <2>1, <2>2, <2>3 DEF ScanInv
<1>6. CASE JumpRBrack
  <2>1. /\ pc' = "left" /\ skip' = 1 /\ from' = mCodePos /\ mCodePos' = Decr(mCodePos)
        /\ Char = "]"
    BY <1>6 DEF JumpRBrack, Executing
  <2>2. mCodePos # 0 /\ LeftAt(mCode, mCodePos, mCodePos - 1, 1)
    BY <1>4, <2>1, LeftStarts
  <2>3. mCodePos' = mCodePos - 1
    BY <1>4, <2>1, <2>2, DecrOnCode
  <2> QED
    BY <1>1, <2>1, <2>2, <2>3 DEF ScanInv
<1> QED
  BY <1>5, <1>6

LEMMA ScanRightStep ==
    ASSUME Len(mCode) \in Nat, W \in Nat, Len(mCode) + 1 < W, Nested(mCode), ScanInv, ScanRight
    PROVE  /\ ScanInv'
           /\ pc' = "run" => mCodePos' = mCodePos + 1 /\ DepthIn(mCode, from + 1, mCodePos + 1) = 0
<1>1. RightAt(mCode, from, mCodePos, skip) /\ mStatus = "executing" /\ pc = "right"
  BY DEF ScanRight, ScanInv
<1>2. from \in Nat /\ mCodePos \in Nat /\ mCodePos < Len(mCode) /\ skip \in Nat
  BY <1>1 DEF RightAt
<1>3. skip' = skip + Turn(mCode, mCodePos)
  BY <1>2, SkipIsDepth DEF ScanRight
<1>4. Incr(mCodePos) = mCodePos + 1
  BY <1>2, IncrOnCode
<1>5. mCode' = mCode /\ from' = from
  BY DEF ScanRight
<1>6. CASE skip' = 0
  <2>1. pc' = "run" /\ Advance(mCodePos)
    BY <1>6 DEF ScanRight
  <2>2. mCodePos' = mCodePos + 1
    BY <1>4, <2>1 DEF Advance
  <2>3. DepthIn(mCode, from + 1, mCodePos + 1) = 0
    BY <1>1, <1>3, <1>6, RightGoesOn
  <2>4. ScanInv'
    BY <1>2, <1>4, <1>5, <2>1, AdvanceOnCode
  <2> QED
    BY <2>2, <2>3, <2>4
<1>7. CASE skip' # 0
  <2>1. pc' = "right" /\ mCodePos' = mCodePos + 1 /\ mStatus' = mStatus
    BY <1>1, <1>4, <1>7 DEF ScanRight
  <2>2. RightAt(mCode, from, mCodePos + 1, skip')
    BY <1>1, <1>3, <1>7, RightGoesOn
  <2> QED
    BY <1>1, <1>5, <2>1, <2>2 DEF ScanInv
<1> QED
  BY <1>6, <1>7

LEMMA ScanLeftStep ==
    ASSUME Len(mCode) \in Nat, W \in Nat, Len(mCode) + 1 < W, Nested(mCode), ScanInv, ScanLeft
    PROVE  /\ ScanInv'
           /\ pc' = "run" => mCodePos' = mCodePos /\ DepthIn(mCode, mCodePos + 1, from + 1) = 0
<1>1. LeftAt(mCode, from, mCodePos, skip) /\ mStatus = "executing" /\ pc = "left"
  BY DEF ScanLeft, ScanInv
<1>2. from \in Nat /\ mCodePos \in Nat /\ mCodePos < Len(mCode) /\ skip \in Nat
  BY <1>1 DEF LeftAt
<1>3. skip' = skip - Turn(mCode, mCodePos)
  BY <1>2, SkipIsDepth DEF ScanLeft
<1>4. Incr(Decr(mCodePos)) = mCodePos
  BY <1>2, IncrDecr
<1>5. mCode' = mCode /\ from' = from
  BY DEF ScanLeft
<1>6. CASE skip' = 0
  <2>1. pc' = "run" /\ Advance(Decr(mCodePos))
    BY <1>6 DEF ScanLeft, LandBehind
  <2>2. mCodePos' = mCodePos
    BY <1>4, <2>1 DEF Advance
  <2>3. DepthIn(mCode, mCodePos + 1, from + 1) = 0
    <3>1. DepthIn(mCode, mCodePos + 1, from + 1) = -(skip - Turn(mCode, mCodePos))
      BY <1>1, LeftGoesOn, ZenonT(40)
    <3> QED
      BY <1>3, <1>6, <3>1
  <2>4. ScanInv'
    BY <1>2, <1>4, <1>5, <2>1, AdvanceOnCode
  <2> QED
    BY <2>2, <2>3, <2>4
<1>7. CASE skip' # 0
  <2>1. pc' = "left" /\ mCodePos' = Decr(mCodePos) /\ mStatus' = mStatus
    BY <1>1, <1>7 DEF ScanLeft
  <2>2. mCodePos # 0 /\ LeftAt(mCode, from, mCodePos - 1, skip')
    BY <1>1, <1>3, <1>7, LeftGoesOn
  <2>3. Decr(mCodePos) = mCodePos - 1
    BY <1>2, <2>2, DecrOnCode
  <2> QED
    BY <1>1, <1>5, <2>1, <2>2, <2>3 DEF ScanInv
<1> QED
  BY <1>6, <1>7

LEMMA JumpInvInit == Init => JumpInv
<1> SUFFICES ASSUME Init PROVE JumpInv
  OBVIOUS
<1>1. mCode \in Codes /\ mCodePos = 0 /\ mStatus = "executing" /\ pc = "run"
  BY DEF Init
<1>2. 0 \in 0 .. Len(mCode)
  BY <1>1, LenType
<1> QED
  BY <1>1, <1>2 DEF JumpInv, ScanInv

LEMMA JumpInvNext == JumpInv /\ [Next]_vars => JumpInv'
<1> SUFFICES ASSUME JumpInv, [Next]_vars PROVE JumpInv'
  OBVIOUS
<1>1. mCode' = mCode
  BY DEF Next, vars, Plain, JumpLBrack, JumpRBrack, ScanRight, ScanLeft, OffTheCode
<1>2. mCode \in Codes
  BY DEF JumpInv
<1>3. SUFFICES ASSUME Nested(mCode) PROVE ScanInv'
  BY <1>1, <1>2 DEF JumpInv
<1>4. ScanInv
  BY <1>3 DEF JumpInv
<1>5. Len(mCode) \in Nat /\ W \in Nat /\ Len(mCode) + 1 < W
  BY <1>2, LenType
<1>6. CASE Plain
  BY <1>4, <1>5, <1>6, PlainStep
<1>7. CASE JumpLBrack \/ JumpRBrack
  BY <1>3, <1>4, <1>5, <1>7, JumpStarts
<1>8. CASE ScanRight
  BY <1>3, <1>4, <1>5, <1>8, ScanRightStep
<1>9. CASE ScanLeft
  BY <1>3, <1>4, <1>5, <1>9, ScanLeftStep
<1>10. CASE OffTheCode
  <2>1. mStatus = "executing" /\ ~(mCodePos <= Len(mCode))
    BY <1>10 DEF OffTheCode, Readable
  <2>2. CASE pc = "run"
    BY <1>4, <1>5, <2>1, <2>2 DEF ScanInv
  <2>3. CASE pc = "right"
    BY <1>4, <1>5, <2>1, <2>3 DEF ScanInv, RightAt
  <2>4. CASE pc = "left"
    BY <1>4, <1>5, <2>1, <2>4 DEF ScanInv, LeftAt
  <2> QED
    BY <1>4, <2>2, <2>3, <2>4 DEF ScanInv
<1>11. CASE UNCHANGED vars
  BY <1>4, <1>11 DEF ScanInv, vars, jumpVars
<1> QED
  BY <1>6, <1>7, <1>8, <1>9, <1>10, <1>11 DEF Next

(* StaysOnTheCode for programs of any length: with its brackets nested, no    *)
(* scan runs off either end of the code, and Validate accepts the program.    *)
THEOREM NestedProgramsStay == Spec => []StaysOnTheCode
<1>1. JumpInv => StaysOnTheCode
  <2> SUFFICES ASSUME JumpInv, WellBracketed PROVE Validate /\ mStatus # "wild"
    BY DEF StaysOnTheCode
  <2>1. Nested(mCode)
    BY NestedIsWellBracketed
  <2>2. mStatus # "wild"
    BY <2>1 DEF JumpInv, ScanInv
  <2>3. W \in Nat /\ 0 \in 0 .. W - 1
    <3>1. W \in Nat /\ Len(mCode) \in Nat /\ Len(mCode) + 1 < W
      BY LenType DEF JumpInv
    <3> QED
      BY <3>1
  <2>4. Depth(1, Len(mCode)) = 0
    BY DEF WellBracketed
  <2>5. Validate
    BY <2>3, <2>4, ModSmall DEF Validate
  <2> QED
    BY <2>2, <2>5
<1> QED
  BY <1>1, JumpInvInit, JumpInvNext, PTL DEF Spec

LEMMA LeastOf ==
    ASSUME NEW S, S \subseteq Int, NEW m \in S, \A y \in S : m <= y
    PROVE  Min(S) = m
<1> DEFINE x == CHOOSE k \in S : \A y \in S : k <= y
<1>1. \E k \in S : \A y \in S : k <= y
  OBVIOUS
<1>2. x \in S /\ \A y \in S : x <= y
  BY <1>1, Zenon
<1>3. Min(S) = x
  BY DEF Min
<1> HIDE DEF x
<1> QED
  BY <1>2, <1>3

LEMMA GreatestOf ==
    ASSUME NEW S, S \subseteq Int, NEW m \in S, \A y \in S : m >= y
    PROVE  Max(S) = m
<1> DEFINE x == CHOOSE k \in S : \A y \in S : k >= y
<1>1. \E k \in S : \A y \in S : k >= y
  OBVIOUS
<1>2. x \in S /\ \A y \in S : x >= y
  BY <1>1, Zenon
<1>3. Max(S) = x
  BY DEF Max
<1> HIDE DEF x
<1> QED
  BY <1>2, <1>3

(* JumpsToPartner for programs of any length and any nesting.                 *)
THEOREM JumpsReachPartner == Spec => JumpsToPartner
<1> DEFINE Lands == WellBracketed =>
              /\ pc = "right" /\ pc' = "run" => mCodePos' = MatchRight(from) + 1
              /\ pc = "left" /\ pc' = "run" => mCodePos' = MatchLeft(from)
<1>1. JumpInv /\ [Next]_vars => [Lands]_vars
  <2> SUFFICES ASSUME JumpInv, Next, WellBracketed, pc' = "run"
               PROVE  /\ pc = "right" => mCodePos' = MatchRight(from) + 1
                      /\ pc = "left" => mCodePos' = MatchLeft(from)
    OBVIOUS
  <2>1. Nested(mCode) /\ ScanInv
    BY NestedIsWellBracketed DEF JumpInv
  <2>2. Len(mCode) \in Nat /\ W \in Nat /\ Len(mCode) + 1 < W
    BY LenType DEF JumpInv
  <2>3. \A lo, hi : Depth(lo, hi) = DepthIn(mCode, lo, hi)
    BY DEF Depth, Count, DepthIn, CountIn, Where
  <2>4. ASSUME pc = "right" PROVE mCodePos' = MatchRight(from) + 1
    <3> DEFINE S == {q \in from + 1 .. Len(mCode) - 1 : Depth(from + 1, q + 1) = 0}
    <3>1. ScanRight
      BY <2>4 DEF Next, Plain, IncrCell, DecrCell, MoveCursor, OutputChar, InputChar, Comment,
                  EnterLoop, JumpLBrack, JumpRBrack, ScanLeft, OffTheCode, Executing, jumpVars
    <3>2. mCodePos' = mCodePos + 1 /\ DepthIn(mCode, from + 1, mCodePos + 1) = 0
      BY <2>1, <2>2, <3>1, ScanRightStep
    <3>3. RightAt(mCode, from, mCodePos, skip)
      BY <2>1, <2>4 DEF ScanInv
    <3>4. S \subseteq Int /\ mCodePos \in S
      BY <2>2, <2>3, <3>2, <3>3 DEF RightAt
    <3>5. \A y \in S : mCodePos <= y
      BY <2>2, <2>3, <3>3 DEF RightAt
    <3>6. Min(S) = mCodePos
      BY <3>4, <3>5, LeastOf
    <3> QED
      BY <3>2, <3>6 DEF MatchRight
  <2>5. ASSUME pc = "left" PROVE mCodePos' = MatchLeft(from)
    <3> DEFINE S == {q \in 0 .. from - 1 : Depth(q + 1, from + 1) = 0}
    <3>1. ScanLeft
      BY <2>5 DEF Next, Plain, IncrCell, DecrCell, MoveCursor, OutputChar, InputChar, Comment,
                  EnterLoop, JumpLBrack, JumpRBrack, ScanRight, OffTheCode, Executing, jumpVars
    <3>2. mCodePos' = mCodePos /\ DepthIn(mCode, mCodePos + 1, from + 1) = 0
      BY <2>1, <2>2, <3>1, ScanLeftStep
    <3>3. LeftAt(mCode, from, mCodePos, skip)
      BY <2>1, <2>5 DEF ScanInv
    <3>4. S \subseteq Int /\ mCodePos \in S
      BY <2>2, <2>3, <3>2, <3>3 DEF LeftAt
    <3>5. \A y \in S : mCodePos >= y
      BY <2>2, <2>3, <3>3 DEF LeftAt
    <3>6. Max(S) = mCodePos
      BY <3>4, <3>5, GreatestOf
    <3> QED
      BY <3>2, <3>6 DEF MatchLeft
  <2> QED
    BY <2>4, <2>5
<1> QED
  BY <1>1, JumpInvInit, JumpInvNext, PTL DEF Spec, JumpsToPartner

-----------------------------------------------------------------------------
(* pshy.                                                                     *)

(* The process table; a child is a process. *)
TableInv ==
    /\ DOMAIN procs = Pids
    /\ \A p \in Pids : {"pc", "child", "stopped", "parent", "stdin", "toks", "cwd"} \subseteq DOMAIN procs[p]
                       /\ procs[p].child \in Pids

(* A process that neither waits nor is gone: a zombie is busy until its parent *)
(* has reaped it, and only then does the parent go on.                         *)
Busy(p) == procs[p].pc \notin {"free", "wait"}

OneBusy == \A p, q \in Pids : Busy(p) /\ Busy(q) => p = q

(* Until Control-C ends everything. *)
NoneLive == \A p \in Pids : ~Live(p)

ForegroundInv == TableInv /\ (OneBusy \/ NoneLive)

(* The table f becomes g: only p changes, goes to a place and keeps its child. *)
ChangesOne(f, g, p, place) ==
    /\ DOMAIN g = Pids
    /\ \A q \in Pids \ {p} : g[q] = f[q]
    /\ DOMAIN g[p] = DOMAIN f[p]
    /\ g[p].child = f[p].child /\ g[p].pc = place

OnlyMoves(p, place) == ChangesOne(procs, procs', p, place)

LEMMA MoveStep ==
    ASSUME ForegroundInv, NEW p \in Pids, NEW place, OnlyMoves(p, place), Live(p),
           place = "wait" \/ Busy(p)
    PROVE  ForegroundInv'
<1>1. TableInv'
  BY DEF ForegroundInv, TableInv, OnlyMoves, ChangesOne
<1>2. OneBusy
  BY DEF ForegroundInv, NoneLive
<1>3. OneBusy'
  BY <1>2 DEF OneBusy, Busy, OnlyMoves, ChangesOne
<1> QED
  BY <1>1, <1>3 DEF ForegroundInv

(* What a step leaves in the table that changes fields of one process. *)
LEMMA OneFieldSet ==
    ASSUME NEW f, NEW p \in Pids, DOMAIN f = Pids, NEW at, NEW g,
           {"pc", "child"} \subseteq DOMAIN f[p], g = [f EXCEPT ![p].pc = at]
    PROVE  ChangesOne(f, g, p, at)
  BY DEF ChangesOne

LEMMA StoppedSet ==
    ASSUME NEW f, NEW p \in Pids, DOMAIN f = Pids, NEW b, NEW g,
           {"pc", "child", "stopped"} \subseteq DOMAIN f[p], g = [f EXCEPT ![p].stopped = b]
    PROVE  ChangesOne(f, g, p, f[p].pc)
  BY DEF ChangesOne

LEMMA InputSet ==
    ASSUME NEW f, NEW p \in Pids, DOMAIN f = Pids, NEW s, NEW at, NEW t, NEW g,
           {"pc", "child", "stdin", "toks"} \subseteq DOMAIN f[p],
           g = [f EXCEPT ![p].stdin = s, ![p].pc = at, ![p].toks = t]
    PROVE  ChangesOne(f, g, p, at)
<1>1. DOMAIN g = Pids
  OBVIOUS
<1>2. \A q \in Pids \ {p} : g[q] = f[q]
  OBVIOUS
<1>3. DOMAIN g[p] = DOMAIN f[p]
  OBVIOUS
<1>4. g[p].child = f[p].child
  OBVIOUS
<1>5. g[p].pc = at
  OBVIOUS
<1> QED
  BY <1>1, <1>2, <1>3, <1>4, <1>5 DEF ChangesOne

LEMMA CwdSet ==
    ASSUME NEW f, NEW p \in Pids, DOMAIN f = Pids, NEW at, NEW d, NEW g,
           {"pc", "child", "cwd"} \subseteq DOMAIN f[p],
           g = [f EXCEPT ![p].pc = at, ![p].cwd = d]
    PROVE  ChangesOne(f, g, p, at)
<1>1. DOMAIN g = Pids
  OBVIOUS
<1>2. \A q \in Pids \ {p} : g[q] = f[q]
  OBVIOUS
<1>3. DOMAIN g[p] = DOMAIN f[p]
  OBVIOUS
<1>4. g[p].child = f[p].child
  OBVIOUS
<1>5. g[p].pc = at
  OBVIOUS
<1> QED
  BY <1>1, <1>2, <1>3, <1>4, <1>5 DEF ChangesOne

(* Steps that only move one process, which was neither waiting nor gone. *)
LEMMA MovesStep ==
    ASSUME ForegroundInv, NEW p \in Pids,
           \/ NoFirstWord(p) \/ BuiltinExit(p) \/ ForkFails(p)
           \/ Exec(p) \/ ProgramEnds(p) \/ Killed(p)
    PROVE  ForegroundInv'
<1>1. PICK at : procs' = [procs EXCEPT ![p].pc = at]
  BY DEF NoFirstWord, BuiltinExit, ForkFails, Exec, ProgramEnds, Killed
<1>2. Live(p) /\ Busy(p)
  BY DEF NoFirstWord, BuiltinExit, ForkFails, External, Exec, ProgramEnds, Killed, Runs, Live, Ended, Busy
<1>3. OnlyMoves(p, at)
  BY <1>1, OneFieldSet DEF ForegroundInv, TableInv, OnlyMoves
<1> QED
  BY <1>2, <1>3, MoveStep

LEMMA ReadLineStep ==
    ASSUME ForegroundInv, NEW p \in Pids, ReadLine(p)
    PROVE  ForegroundInv'
<1>1. PICK lines \in Unread(p) :
          procs' = [procs EXCEPT
                   ![p].stdin = Tail(lines),
                   ![p].pc    = IF BufferOf[Head(lines)].len = 0 THEN "prompt" ELSE "line",
                   ![p].toks  = pshy_tokens_from_buff(BufferOf[Head(lines)])]
  BY Zenon DEF ReadLine
<1>2. Live(p) /\ Busy(p)
  BY DEF ReadLine, Runs, Live, Ended, Busy
<1>3. PICK s, at, t : procs' = [procs EXCEPT ![p].stdin = s, ![p].pc = at, ![p].toks = t]
  BY <1>1
<1>4. OnlyMoves(p, at)
  BY <1>3, InputSet DEF ForegroundInv, TableInv, OnlyMoves
<1> QED
  BY <1>2, <1>4, MoveStep

LEMMA BuiltinCdStep ==
    ASSUME ForegroundInv, NEW p \in Pids, BuiltinCd(p)
    PROVE  ForegroundInv'
<1>1. PICK at, d : procs' = [procs EXCEPT ![p].pc = at, ![p].cwd = d]
  BY DEF BuiltinCd
<1>2. Live(p) /\ Busy(p)
  BY DEF BuiltinCd, Runs, Live, Ended, Busy
<1>3. OnlyMoves(p, at)
  BY <1>1, CwdSet DEF ForegroundInv, TableInv, OnlyMoves
<1> QED
  BY <1>2, <1>3, MoveStep

(* A process that is stopped or continued stays where it is, in waitpid even. *)
LEMMA StopStep ==
    ASSUME ForegroundInv, NEW p \in Pids, Stop(p) \/ Continue(p)
    PROVE  ForegroundInv'
<1>1. PICK b : procs' = [procs EXCEPT ![p].stopped = b]
  BY DEF Stop, Continue
<1>2. Live(p)
  BY DEF Stop, Continue
<1>3. OnlyMoves(p, procs[p].pc)
  BY <1>1, StoppedSet DEF ForegroundInv, TableInv, OnlyMoves
<1>4. procs[p].pc = "wait" \/ Busy(p)
  BY <1>2 DEF Live, Busy
<1> QED
  BY <1>2, <1>3, <1>4, MoveStep

(* Control-C ends every process, those in waitpid too. *)
LEMMA InterruptStep ==
    ASSUME ForegroundInv, Interrupt
    PROVE  ForegroundInv'
<1>1. procs' = [p \in Pids |-> IF Live(p) THEN [procs[p] EXCEPT !.pc = "signaled"] ELSE procs[p]]
  BY DEF Interrupt
<1>2. \A p \in Pids : DOMAIN procs'[p] = DOMAIN procs[p] /\ procs'[p].child = procs[p].child
  BY <1>1 DEF ForegroundInv, TableInv
<1>3. \A p \in Pids : procs'[p].pc = IF Live(p) THEN "signaled" ELSE procs[p].pc
  BY <1>1 DEF ForegroundInv, TableInv
<1>4. NoneLive'
  BY <1>3 DEF NoneLive, Live, Ended
<1>5. TableInv'
  BY <1>1, <1>2 DEF ForegroundInv, TableInv
<1> QED
  BY <1>4, <1>5 DEF ForegroundInv

(* The parent goes to wait as the child comes to life. *)
LEMMA ForkStep ==
    ASSUME ForegroundInv, NEW p \in Pids, Fork(p)
    PROVE  ForegroundInv'
<1>1. PICK c \in Pids :
        /\ procs[c].pc = "free"
        /\ procs' = [procs EXCEPT ![c] = [procs[p] EXCEPT !.pc = "exec", !.parent = p],
                                  ![p].pc = "wait", ![p].child = c]
  BY DEF Fork
<1>2. procs[p].pc = "line" /\ Live(p) /\ Busy(p)
  BY DEF Fork, External, Runs, Live, Ended, Busy
<1>3. c # p
  BY <1>1, <1>2
<1>4. TableInv
  BY DEF ForegroundInv
<1>5. DOMAIN procs' = Pids /\ \A q \in Pids \ {p, c} : procs'[q] = procs[q]
  BY <1>1, <1>4 DEF TableInv
<1>6. procs'[c] = [procs[p] EXCEPT !.pc = "exec", !.parent = p]
  BY <1>1, <1>3, <1>4 DEF TableInv
<1>7. procs'[c].pc = "exec" /\ procs'[c].child = procs[p].child /\ DOMAIN procs'[c] = DOMAIN procs[p]
  BY <1>4, <1>6 DEF TableInv
<1>8. procs'[p].pc = "wait" /\ procs'[p].child = c /\ DOMAIN procs'[p] = DOMAIN procs[p]
  BY <1>1, <1>3, <1>4 DEF TableInv
<1>9. TableInv'
  BY <1>4, <1>5, <1>7, <1>8 DEF TableInv
<1>10. OneBusy
  BY <1>2 DEF ForegroundInv, NoneLive
<1>11. OneBusy'
  BY <1>2, <1>5, <1>8, <1>10 DEF OneBusy, Busy
<1> QED
  BY <1>9, <1>11 DEF ForegroundInv

(* The parent goes on as the child, the one process that was not waiting, is  *)
(* reaped.                                                                    *)
LEMMA WaitStep ==
    ASSUME ForegroundInv, NEW p \in Pids, Wait(p)
    PROVE  ForegroundInv'
<1> DEFINE c == procs[p].child
<1>1. TableInv /\ c \in Pids
  BY DEF ForegroundInv, TableInv
<1>2. procs[p].pc = "wait" /\ Live(p)
  BY DEF Wait, Runs, Live, Ended
<1>3. procs[c].pc \in Ended /\ Busy(c) /\ c # p
  BY <1>2 DEF Wait, WaitOver, Ended, Busy
<1>4. procs' = [procs EXCEPT ![p].pc = "prompt", ![c] = Free]
  BY <1>1, <1>3 DEF Wait, TableInv
<1>5. DOMAIN procs' = Pids /\ \A q \in Pids \ {p, c} : procs'[q] = procs[q]
  BY <1>1, <1>4 DEF TableInv
<1>6. procs'[c] = Free
  BY <1>1, <1>3, <1>4 DEF TableInv
<1>7. procs'[p].pc = "prompt" /\ procs'[p].child = c /\ DOMAIN procs'[p] = DOMAIN procs[p]
  BY <1>1, <1>3, <1>4 DEF TableInv
<1>8. TableInv'
  BY <1>1, <1>5, <1>6, <1>7, ShellAssumption DEF TableInv, Free
<1>9. OneBusy
  BY <1>2 DEF ForegroundInv, NoneLive
<1>10. procs'[c].pc = "free"
  BY <1>6 DEF Free
<1>11. OneBusy'
  BY <1>1, <1>3, <1>5, <1>9, <1>10 DEF OneBusy, Busy
<1> QED
  BY <1>8, <1>11 DEF ForegroundInv

LEMMA ForegroundInit == ShellInit => ForegroundInv
<1> SUFFICES ASSUME ShellInit PROVE ForegroundInv
  OBVIOUS
<1>1. procs = [p \in Pids |-> IF p = Shell THEN [Free EXCEPT !.pc = "prompt"] ELSE Free]
  BY DEF ShellInit
<1>2. TableInv
  BY <1>1, ShellAssumption DEF TableInv, Free
<1>3. \A p \in Pids : p # Shell => procs[p].pc = "free"
  BY <1>1 DEF Free
<1>4. OneBusy
  BY <1>3 DEF OneBusy, Busy
<1> QED
  BY <1>2, <1>4 DEF ForegroundInv

LEMMA ForegroundNext == ForegroundInv /\ [ShellNext]_shellVars => ForegroundInv'
<1> SUFFICES ASSUME ForegroundInv, [ShellNext]_shellVars PROVE ForegroundInv'
  OBVIOUS
<1>1. CASE Interrupt
  BY <1>1, InterruptStep
<1>2. ASSUME NEW p \in Pids, ShellStep(p) PROVE ForegroundInv'
  BY <1>2, MovesStep, ReadLineStep, BuiltinCdStep, ForkStep, WaitStep DEF ShellStep
<1>3. ASSUME NEW p \in Pids, Killed(p) \/ Stop(p) \/ Continue(p) PROVE ForegroundInv'
  BY <1>3, MovesStep, StopStep
<1>4. CASE UNCHANGED shellVars
  BY <1>4 DEF shellVars, ForegroundInv, TableInv, OneBusy, Busy, NoneLive, Live
<1> QED
  BY <1>1, <1>2, <1>3, <1>4 DEF ShellNext

(* OneInForeground for every input and any number of processes: through forks, *)
(* failed execvps, stops, continues, kills and Control-C, at most one live     *)
(* process is not in waitpid.                                                  *)
THEOREM TerminalHasOneReader == ShellSpec => []OneInForeground
<1>1. ForegroundInv => OneInForeground
  BY DEF ForegroundInv, OneBusy, Busy, NoneLive, Live, Ended, OneInForeground
<1> QED
  BY <1>1, ForegroundInit, ForegroundNext, PTL DEF ShellSpec

-----------------------------------------------------------------------------
(* The buffer.  Induction over a set of numbers, from the well-foundedness of *)
(* the natural numbers.                                                       *)
LEMMA NatInduct ==
    ASSUME NEW T, 0 \in T, \A n \in Nat : n \in T => n + 1 \in T
    PROVE  Nat \subseteq T
<1> DEFINE B == Nat \ T
           R == OpToRel(<, Nat)
<1>1. SUFFICES ASSUME B # {} PROVE FALSE
  OBVIOUS
<1>2. IsWellFoundedOn(R, Nat)
  BY NatLessThanWellFounded
<1>3. PICK x \in B : \A y \in B : ~ (<<y, x>> \in R)
  <2>1. B \subseteq Nat
    OBVIOUS
  <2> HIDE DEF B, R
  <2> QED
    BY <1>1, <1>2, <2>1, WFMin
<1>4. x - 1 \in B
  OBVIOUS
<1>5. <<x - 1, x>> \in R
  BY DEF OpToRel
<1> QED
  BY <1>3, <1>4, <1>5

(* What Filled is defined by. *)
FilledBy(g, line, m) ==
    g = [n \in 0..m |-> IF n = 0 THEN pshy_buff_create ELSE pshy_buff_add(g[n - 1], line[n])]

LEMMA FilledExists ==
    ASSUME NEW line
    PROVE  \A m \in Nat : \E g : FilledBy(g, line, m)
<1> DEFINE T == {m \in Nat : \E g : FilledBy(g, line, m)}
<1>1. 0 \in T
  <2>1. FilledBy([n \in 0..0 |-> pshy_buff_create], line, 0)
    BY DEF FilledBy
  <2> QED
    BY <2>1
<1>2. ASSUME NEW m \in Nat, m \in T PROVE m + 1 \in T
  <2>1. PICK g : FilledBy(g, line, m)
    BY <1>2
  <2> DEFINE h == [n \in 0..m + 1 |-> IF n <= m THEN g[n] ELSE pshy_buff_add(g[m], line[m + 1])]
  <2>2. \A n \in 0..m : g[n] = IF n = 0 THEN pshy_buff_create ELSE pshy_buff_add(g[n - 1], line[n])
    BY <2>1, Zenon DEF FilledBy
  <2>3. \A n \in 0..m + 1 : h[n] = IF n = 0 THEN pshy_buff_create ELSE pshy_buff_add(h[n - 1], line[n])
    BY <2>2
  <2>4. FilledBy(h, line, m + 1)
    BY <2>3 DEF FilledBy
  <2> QED
    BY <2>4
<1>3. Nat \subseteq T
  <2> HIDE DEF T
  <2> QED
    BY <1>1, <1>2, NatInduct
<1> QED
  BY <1>3

LEMMA FilledDef ==
    ASSUME NEW line, Len(line) \in Nat
    PROVE  FilledBy(Filled(line), line, Len(line))
<1>1. Filled(line) = CHOOSE g : FilledBy(g, line, Len(line))
  BY DEF Filled, FilledBy
<1>2. \E g : FilledBy(g, line, Len(line))
  BY FilledExists
<1> QED
  BY <1>1, <1>2, Zenon

(* A buffer that holds the first n characters of a line, and zeros.           *)
Holds(b, line, n) ==
    /\ b.len = n /\ b.cap \in Nat /\ n < b.cap
    /\ b.data = [i \in 0..b.cap - 1 |-> IF i < n THEN line[i + 1] ELSE NUL]

LEMMA AddHolds ==
    ASSUME NEW b, NEW line, NEW n \in Nat, Holds(b, line, n)
    PROVE  Holds(pshy_buff_add(b, line[n + 1]), line, n + 1)
<1> DEFINE c == pshy_buff_add(b, line[n + 1])
           grows == b.len + 1 >= b.cap
           cap == IF grows THEN 2 * b.cap ELSE b.cap
           kept == [i \in 0..cap - 1 |-> IF i < b.cap THEN b.data[i] ELSE Noise]
           clean == [i \in 0..cap - 1 |-> IF grows /\ i > b.len THEN NUL ELSE kept[i]]
<1>1. c = [len |-> b.len + 1, cap |-> cap, data |-> [clean EXCEPT ![b.len] = line[n + 1]]]
  BY Zenon DEF pshy_buff_add
<1>2. b.len = n /\ b.cap \in Nat /\ n < b.cap
  BY DEF Holds
<1>3. c.len = n + 1 /\ c.cap = cap /\ cap \in Nat /\ n + 1 < cap
  BY <1>1, <1>2
<1>4. \A i \in 0..cap - 1 : clean[i] = IF i < n THEN line[i + 1] ELSE IF i = n THEN clean[i] ELSE NUL
  BY <1>2 DEF Holds
<1>5. c.data = [clean EXCEPT ![n] = line[n + 1]]
  BY <1>1, <1>2
<1>6. c.data = [i \in 0..cap - 1 |-> IF i < n + 1 THEN line[i + 1] ELSE NUL]
  <2>1. DOMAIN clean = 0..cap - 1
    OBVIOUS
  <2> HIDE DEF clean, cap, c
  <2>2. c.data = [i \in 0..cap - 1 |-> IF i = n THEN line[n + 1] ELSE clean[i]]
    BY <1>5, <2>1
  <2>3. \A i \in 0..cap - 1 : (IF i = n THEN line[n + 1] ELSE clean[i])
                               = IF i < n + 1 THEN line[i + 1] ELSE NUL
    BY <1>3, <1>4
  <2> QED
    BY <2>2, <2>3
<1> QED
  BY <1>3, <1>6 DEF Holds

LEMMA FilledHolds ==
    ASSUME NEW line, Len(line) \in Nat
    PROVE  Holds(Filled(line)[Len(line)], line, Len(line))
<1> DEFINE T == {n \in Nat : n <= Len(line) => Holds(Filled(line)[n], line, n)}
<1>1. \A n \in 0..Len(line) : Filled(line)[n] =
          IF n = 0 THEN pshy_buff_create ELSE pshy_buff_add(Filled(line)[n - 1], line[n])
  BY FilledDef, Zenon DEF FilledBy
<1>2. 0 \in T
  <2>1. Filled(line)[0] = pshy_buff_create
    BY <1>1
  <2>2. Holds(pshy_buff_create, line, 0)
    BY ShellAssumption DEF Holds, pshy_buff_create
  <2> QED
    BY <2>1, <2>2
<1>3. ASSUME NEW n \in Nat, n \in T PROVE n + 1 \in T
  <2>1. SUFFICES ASSUME n + 1 <= Len(line) PROVE Holds(Filled(line)[n + 1], line, n + 1)
    OBVIOUS
  <2>2. Holds(Filled(line)[n], line, n)
    BY <1>3, <2>1
  <2>3. Filled(line)[n + 1] = pshy_buff_add(Filled(line)[n], line[n + 1])
    BY <1>1, <2>1
  <2> QED
    BY <2>2, <2>3, AddHolds
<1>4. Nat \subseteq T
  <2> HIDE DEF T
  <2> QED
    BY <1>2, <1>3, NatInduct
<1> QED
  BY <1>4

(* Whatever the length of a line and however often the buffer has grown,      *)
(* strdup finds the line in it.                                               *)
LEMMA CStringOfLine ==
    ASSUME NEW line \in Lines
    PROVE  CString(BufferOf[line]) = line
<1> DEFINE b == BufferOf[line]
           n == Len(line)
<1>1. line \in Seq(STRING)
  BY LinesAssumption
<1>2. n \in Nat /\ DOMAIN line = 1..n
  BY <1>1
<1>3. Holds(b, line, n)
  BY <1>2, FilledHolds DEF BufferOf
<1>4. \A i \in 1..n : line[i] # NUL
  BY <1>2, LinesAssumption
<1> HIDE DEF b, n
<1>5. DOMAIN b.data = 0..b.cap - 1 /\ n \in 0..b.cap - 1 /\ b.data[n] = NUL
  BY <1>2, <1>3 DEF Holds
<1>6. \A i \in 0..n - 1 : b.data[i] = line[i + 1] /\ b.data[i] # NUL
  BY <1>2, <1>3, <1>4 DEF Holds
<1> DEFINE First(i) == b.data[i] = NUL /\ \A j \in 0..i - 1 : b.data[j] # NUL
           end == CHOOSE i \in DOMAIN b.data : First(i)
<1>7. ASSUME NEW i \in DOMAIN b.data, First(i) PROVE i = n
  <2>1. b.cap \in Nat
    BY <1>3 DEF Holds
  <2>2. i \in 0..b.cap - 1
    BY <1>5
  <2>3. ~(i < n)
    BY <1>2, <1>6, <1>7, <2>1, <2>2
  <2>4. ~(n < i)
    BY <1>2, <1>5, <1>7, <2>1, <2>2
  <2> QED
    BY <1>2, <2>1, <2>2, <2>3, <2>4
<1>8. First(n)
  BY <1>5, <1>6
<1>9. end = n
  <2> HIDE DEF First
  <2> QED
    BY <1>5, <1>7, <1>8
<1>10. CString(b) = [i \in 1..end |-> b.data[i - 1]]
  BY <1>5, Zenon DEF CString
<1>11. [i \in 1..n |-> b.data[i - 1]] = [i \in 1..n |-> line[i]]
  BY <1>2, <1>6
<1>12. [i \in 1..n |-> line[i]] = line
  BY <1>1, <1>2
<1> QED
  BY <1>9, <1>10, <1>11, <1>12 DEF b

-----------------------------------------------------------------------------
(* Who reads.  The first shell is never reaped by another, and until an execvp *)
(* fails it is the only process in the shell's loop.                           *)
InLoop == {"prompt", "line", "wait"}

PlacesInv ==
    /\ procs[Shell].pc # "free"
    /\ \A p \in Pids : procs[p].pc = "wait" => procs[p].child # Shell
    /\ ~nested => \A p \in Pids \ {Shell} : procs[p].pc \notin InLoop

LEMMA PlacesMove ==
    ASSUME PlacesInv, NEW p \in Pids, NEW place, OnlyMoves(p, place),
           place # "free", place = "wait" => procs[p].pc = "wait", nested => nested',
           ~nested' => p = Shell \/ place \notin InLoop \/ place = procs[p].pc
    PROVE  PlacesInv'
<1> USE ShellAssumption DEF OnlyMoves, ChangesOne
<1>1. procs[Shell].pc # "free" => procs'[Shell].pc # "free"
  OBVIOUS
<1>2. ASSUME NEW q \in Pids, procs'[q].pc = "wait" PROVE procs'[q].child # Shell
  BY <1>2 DEF PlacesInv
<1>3. ASSUME ~nested', NEW q \in Pids \ {Shell} PROVE procs'[q].pc \notin InLoop
  BY <1>3 DEF PlacesInv
<1> QED
  BY <1>1, <1>2, <1>3 DEF PlacesInv

LEMMA PlacesNext ==
    ASSUME TableInv, PlacesInv, [ShellNext]_shellVars
    PROVE  PlacesInv'
<1>1. CASE Interrupt
  <2>1. procs' = [p \in Pids |-> IF Live(p) THEN [procs[p] EXCEPT !.pc = "signaled"] ELSE procs[p]]
        /\ nested' = nested
    BY <1>1 DEF Interrupt
  <2>2. \A p \in Pids : procs'[p].child = procs[p].child /\ procs'[p].pc \in {"signaled", procs[p].pc}
    BY <2>1 DEF TableInv
  <2> QED
    BY <2>1, <2>2, ShellAssumption DEF PlacesInv, InLoop
<1>2. ASSUME NEW p \in Pids, NoFirstWord(p) \/ BuiltinExit(p) \/ ProgramEnds(p) \/ Killed(p)
      PROVE  PlacesInv'
  <2>1. PICK at \in Ended : procs' = [procs EXCEPT ![p].pc = at] /\ nested' = nested
    BY <1>2 DEF NoFirstWord, BuiltinExit, ProgramEnds, Killed, Ended
  <2>2. OnlyMoves(p, at)
    BY <2>1, OneFieldSet DEF TableInv, OnlyMoves
  <2> QED
    BY <2>1, <2>2, PlacesMove DEF Ended, InLoop
<1>3. ASSUME NEW p \in Pids, ForkFails(p) PROVE PlacesInv'
  <2>1. procs' = [procs EXCEPT ![p].pc = "prompt"] /\ nested' = nested /\ procs[p].pc = "line"
    BY <1>3 DEF ForkFails, External, Runs
  <2>2. OnlyMoves(p, "prompt")
    BY <2>1, OneFieldSet DEF TableInv, OnlyMoves
  <2>3. ~nested' => p = Shell
    BY <2>1 DEF PlacesInv, InLoop
  <2> QED
    BY <2>1, <2>2, <2>3, PlacesMove
<1>4. ASSUME NEW p \in Pids, Exec(p) PROVE PlacesInv'
  <2>1. PICK at \in {"running", "prompt"} :
            procs' = [procs EXCEPT ![p].pc = at] /\ nested' = (nested \/ at = "prompt")
    BY <1>4 DEF Exec
  <2>2. OnlyMoves(p, at)
    BY <2>1, OneFieldSet DEF TableInv, OnlyMoves
  <2> QED
    BY <2>1, <2>2, PlacesMove DEF InLoop
<1>5. ASSUME NEW p \in Pids, ReadLine(p) PROVE PlacesInv'
  <2>1. PICK lines \in Unread(p) :
          procs' = [procs EXCEPT
                   ![p].stdin = Tail(lines),
                   ![p].pc    = IF BufferOf[Head(lines)].len = 0 THEN "prompt" ELSE "line",
                   ![p].toks  = pshy_tokens_from_buff(BufferOf[Head(lines)])]
    BY <1>5, Zenon DEF ReadLine
  <2> DEFINE at == IF BufferOf[Head(lines)].len = 0 THEN "prompt" ELSE "line"
  <2>2. PICK s, t : procs' = [procs EXCEPT ![p].stdin = s, ![p].pc = at, ![p].toks = t]
    BY <2>1
  <2>3. OnlyMoves(p, at)
    BY <2>2, InputSet DEF TableInv, OnlyMoves
  <2>4. nested' = nested /\ procs[p].pc = "prompt"
    BY <1>5 DEF ReadLine, Runs
  <2>5. ~nested' => p = Shell
    BY <2>4 DEF PlacesInv, InLoop
  <2>6. at \in {"prompt", "line"}
    OBVIOUS
  <2> HIDE DEF at
  <2> QED
    BY <2>3, <2>4, <2>5, <2>6, PlacesMove
<1>6. ASSUME NEW p \in Pids, BuiltinCd(p) PROVE PlacesInv'
  <2>1. PICK d : procs' = [procs EXCEPT ![p].pc = "prompt", ![p].cwd = d]
    BY <1>6 DEF BuiltinCd
  <2>2. OnlyMoves(p, "prompt")
    BY <2>1, CwdSet DEF TableInv, OnlyMoves
  <2>3. nested' = nested /\ procs[p].pc = "line"
    BY <1>6 DEF BuiltinCd, Runs
  <2>4. ~nested' => p = Shell
    BY <2>3 DEF PlacesInv, InLoop
  <2> QED
    BY <2>2, <2>3, <2>4, PlacesMove
<1>7. ASSUME NEW p \in Pids, Stop(p) \/ Continue(p) PROVE PlacesInv'
  <2>1. PICK b : procs' = [procs EXCEPT ![p].stopped = b]
    BY <1>7 DEF Stop, Continue
  <2>2. OnlyMoves(p, procs[p].pc)
    BY <2>1, StoppedSet DEF TableInv, OnlyMoves
  <2>3. nested' = nested /\ procs[p].pc # "free"
    BY <1>7 DEF Stop, Continue, Live
  <2> QED
    BY <2>2, <2>3, PlacesMove
<1>8. ASSUME NEW p \in Pids, Fork(p) PROVE PlacesInv'
  <2>1. PICK c \in Pids :
        /\ procs[c].pc = "free"
        /\ procs' = [procs EXCEPT ![c] = [procs[p] EXCEPT !.pc = "exec", !.parent = p],
                                  ![p].pc = "wait", ![p].child = c]
    BY <1>8 DEF Fork
  <2>2. procs[p].pc = "line" /\ nested' = nested
    BY <1>8 DEF Fork, External, Runs
  <2>3. c # p /\ c # Shell
    BY <2>1, <2>2 DEF PlacesInv
  <2>4. \A q \in Pids \ {p, c} : procs'[q] = procs[q]
    BY <2>1 DEF TableInv
  <2>5. procs'[c] = [procs[p] EXCEPT !.pc = "exec", !.parent = p]
    BY <2>1, <2>3 DEF TableInv
  <2>6. procs'[c].pc = "exec"
    BY <2>5 DEF TableInv
  <2>7. procs'[p].pc = "wait" /\ procs'[p].child = c
    BY <2>1, <2>3 DEF TableInv
  <2>8. ~nested' => p = Shell
    BY <2>2 DEF PlacesInv, InLoop
  <2>9. procs'[Shell].pc # "free"
    BY <2>3, <2>4, <2>7, ShellAssumption DEF PlacesInv
  <2>10. \A q \in Pids : procs'[q].pc = "wait" => procs'[q].child # Shell
    BY <2>3, <2>4, <2>6, <2>7 DEF PlacesInv
  <2>11. ~nested' => \A q \in Pids \ {Shell} : procs'[q].pc \notin InLoop
    BY <2>2, <2>4, <2>6, <2>8 DEF PlacesInv, InLoop
  <2> QED
    BY <2>9, <2>10, <2>11 DEF PlacesInv
<1>9. ASSUME NEW p \in Pids, Wait(p) PROVE PlacesInv'
  <2> DEFINE c == procs[p].child
  <2>1. procs[p].pc = "wait" /\ nested' = nested
    BY <1>9 DEF Wait, Runs
  <2>2. c \in Pids /\ c # Shell /\ procs[c].pc \in Ended /\ c # p
    BY <1>9, <2>1 DEF TableInv, PlacesInv, Wait, WaitOver, Ended
  <2>3. procs' = [procs EXCEPT ![p].pc = "prompt", ![c] = Free]
    BY <1>9, <2>2 DEF Wait, TableInv
  <2>4. \A q \in Pids \ {p, c} : procs'[q] = procs[q]
    BY <2>3 DEF TableInv
  <2>5. procs'[c] = Free
    BY <2>2, <2>3 DEF TableInv
  <2>6. procs'[c].pc = "free"
    BY <2>5 DEF Free
  <2>7. procs'[p].pc = "prompt"
    BY <2>2, <2>3 DEF TableInv
  <2>8. ~nested' => p = Shell
    BY <2>1 DEF PlacesInv, InLoop
  <2> HIDE DEF c
  <2>9. procs'[Shell].pc # "free"
    BY <2>2, <2>4, <2>7, ShellAssumption DEF PlacesInv
  <2>10. \A q \in Pids : procs'[q].pc = "wait" => procs'[q].child # Shell
    BY <2>2, <2>4, <2>6, <2>7 DEF PlacesInv
  <2>11. ~nested' => \A q \in Pids \ {Shell} : procs'[q].pc \notin InLoop
    BY <2>1, <2>4, <2>6, <2>8 DEF PlacesInv, InLoop
  <2> QED
    BY <2>9, <2>10, <2>11 DEF PlacesInv
<1>10. CASE UNCHANGED shellVars
  BY <1>10 DEF shellVars, PlacesInv
<1> QED
  BY <1>1, <1>2, <1>3, <1>4, <1>5, <1>6, <1>7, <1>8, <1>9, <1>10 DEF ShellNext, ShellStep

-----------------------------------------------------------------------------
(* What is read.                                                             *)

(* The lines typed, as far as they are neither handled nor in the hands of    *)
(* the kernel, are those in the stdio buffer of p, in their order.            *)
Continues(p) ==
    /\ Len(handled) + Len(procs[p].stdin) = taken
    /\ \A k \in 1..Len(procs[p].stdin) : procs[p].stdin[k] = typed[Len(handled) + k]

Words == {WordsOf(line) : line \in Lines}

InputTypes ==
    /\ typed \in Seq(Lines) /\ handled \in Seq(Words)
    /\ taken \in Nat /\ taken <= Len(typed)
    /\ \A p \in Pids : procs[p].stdin \in Seq(Lines)

InOrder == chunk = 1 \/ ~nested => \A i \in 1..Len(handled) : handled[i] = WordsOf(typed[i])

(* On a terminal no line waits in a buffer; on a pipe, the first shell has    *)
(* them as long as it is the only one.                                        *)
TerminalInv == chunk = 1 => Len(handled) = taken /\ \A p \in Pids : procs[p].stdin = <<>>
PipeInv == ~nested => Continues(Shell)

InputInv == InputTypes /\ InOrder /\ TerminalInv /\ PipeInv

LEMMA SubSeqOf ==
    ASSUME NEW S, NEW s \in Seq(S), NEW t \in Nat, NEW m \in Nat, t < m, m <= Len(s)
    PROVE  /\ SubSeq(s, t + 1, m) \in Seq(S)
           /\ Len(SubSeq(s, t + 1, m)) = m - t
           /\ \A k \in 1..m - t : SubSeq(s, t + 1, m)[k] = s[t + k]
  OBVIOUS

LEMMA HeadTailOf ==
    ASSUME NEW S, NEW s \in Seq(S), Len(s) > 0
    PROVE  /\ Head(s) = s[1] /\ Head(s) \in S
           /\ Tail(s) \in Seq(S) /\ Len(Tail(s)) = Len(s) - 1
           /\ \A k \in 1..Len(s) - 1 : Tail(s)[k] = s[k + 1]
  OBVIOUS

LEMMA AppendOf ==
    ASSUME NEW S, NEW s \in Seq(S), NEW x \in S
    PROVE  /\ Append(s, x) \in Seq(S) /\ Len(Append(s, x)) = Len(s) + 1
           /\ \A i \in 1..Len(s) : Append(s, x)[i] = s[i]
           /\ Append(s, x)[Len(s) + 1] = x
  OBVIOUS

LEMMA EmptyOf ==
    ASSUME NEW S, NEW s \in Seq(S)
    PROVE  Len(s) \in Nat /\ (s = <<>> <=> Len(s) = 0)
  OBVIOUS

(* Steps that read nothing. *)
KeepsInput ==
    /\ UNCHANGED <<typed, chunk, taken, handled>>
    /\ \A p \in Pids : procs'[p].stdin = <<>> \/ \E q \in Pids : procs'[p].stdin = procs[q].stdin
    /\ procs'[Shell].stdin = procs[Shell].stdin
    /\ nested => nested'

LEMMA KeepsInputStep ==
    ASSUME InputInv, KeepsInput
    PROVE  InputInv'
<1>1. typed' = typed /\ chunk' = chunk /\ taken' = taken /\ handled' = handled
  BY DEF KeepsInput
<1>2. InputTypes'
  <2>1. \A p \in Pids : procs'[p].stdin \in Seq(Lines)
    <3>1. <<>> \in Seq(Lines)
      OBVIOUS
    <3> QED
      BY <3>1 DEF KeepsInput, InputInv, InputTypes
  <2> QED
    BY <1>1, <2>1 DEF InputInv, InputTypes
<1>3. InOrder'
  BY <1>1 DEF InputInv, InOrder, KeepsInput
<1>4. TerminalInv'
  BY <1>1 DEF InputInv, TerminalInv, KeepsInput
<1>5. PipeInv'
  BY <1>1 DEF InputInv, PipeInv, Continues, KeepsInput
<1> QED
  BY <1>2, <1>3, <1>4, <1>5 DEF InputInv

LEMMA KeepsInputSteps ==
    ASSUME TableInv, PlacesInv, [ShellNext]_shellVars, \A p \in Pids : ~ReadLine(p)
    PROVE  KeepsInput
<1> DEFINE SameInput == \A q \in Pids : procs'[q].stdin = procs[q].stdin
<1>1. UNCHANGED <<typed, chunk, taken, handled>> /\ (nested => nested')
  <2>1. CASE Interrupt \/ UNCHANGED shellVars
    BY <2>1 DEF Interrupt, shellVars
  <2>2. ASSUME NEW p \in Pids, NoFirstWord(p) \/ BuiltinExit(p) \/ BuiltinCd(p) \/ ForkFails(p)
        PROVE  UNCHANGED <<typed, chunk, taken, handled, nested>>
    BY <2>2 DEF NoFirstWord, BuiltinExit, BuiltinCd, ForkFails
  <2>3. ASSUME NEW p \in Pids, Fork(p) \/ Wait(p) \/ ProgramEnds(p)
        PROVE  UNCHANGED <<typed, chunk, taken, handled, nested>>
    BY <2>3 DEF Fork, Wait, ProgramEnds
  <2>4. ASSUME NEW p \in Pids, Killed(p) \/ Stop(p) \/ Continue(p)
        PROVE  UNCHANGED <<typed, chunk, taken, handled, nested>>
    BY <2>4 DEF Killed, Stop, Continue
  <2>5. ASSUME NEW p \in Pids, Exec(p)
        PROVE  UNCHANGED <<typed, chunk, taken, handled>> /\ (nested => nested')
    BY <2>5 DEF Exec
  <2> QED
    BY <2>1, <2>2, <2>3, <2>4, <2>5 DEF ShellNext, ShellStep
<1>2. SameInput => KeepsInput
  BY <1>1, ShellAssumption DEF KeepsInput
<1>3. CASE Interrupt
  <2>1. procs' = [p \in Pids |-> IF Live(p) THEN [procs[p] EXCEPT !.pc = "signaled"] ELSE procs[p]]
    BY <1>3 DEF Interrupt
  <2>2. SameInput
    BY <2>1 DEF TableInv
  <2> QED
    BY <1>2, <2>2
<1>4. ASSUME NEW p \in Pids,
             \/ NoFirstWord(p) \/ BuiltinExit(p) \/ ForkFails(p) \/ Exec(p) \/ ProgramEnds(p)
             \/ Killed(p)
      PROVE  KeepsInput
  <2>1. PICK at : procs' = [procs EXCEPT ![p].pc = at]
    BY <1>4 DEF NoFirstWord, BuiltinExit, ForkFails, Exec, ProgramEnds, Killed
  <2>2. SameInput
    BY <2>1 DEF TableInv
  <2> QED
    BY <1>2, <2>2
<1>5. ASSUME NEW p \in Pids, BuiltinCd(p) PROVE KeepsInput
  <2>1. PICK at, d : procs' = [procs EXCEPT ![p].pc = at, ![p].cwd = d]
    BY <1>5 DEF BuiltinCd
  <2>2. SameInput
    BY <2>1 DEF TableInv
  <2> QED
    BY <1>2, <2>2
<1>6. ASSUME NEW p \in Pids, Stop(p) \/ Continue(p) PROVE KeepsInput
  <2>1. PICK b : procs' = [procs EXCEPT ![p].stopped = b]
    BY <1>6 DEF Stop, Continue
  <2>2. SameInput
    BY <2>1 DEF TableInv
  <2> QED
    BY <1>2, <2>2
<1>7. ASSUME NEW p \in Pids, Fork(p) PROVE KeepsInput
  <2>1. PICK c \in Pids :
        /\ procs[c].pc = "free"
        /\ procs' = [procs EXCEPT ![c] = [procs[p] EXCEPT !.pc = "exec", !.parent = p],
                                  ![p].pc = "wait", ![p].child = c]
    BY <1>7 DEF Fork
  <2>2. c # p /\ c # Shell
    BY <1>7, <2>1 DEF Fork, External, Runs, PlacesInv
  <2>3. \A q \in Pids \ {p, c} : procs'[q] = procs[q]
    BY <2>1 DEF TableInv
  <2>4. procs'[c] = [procs[p] EXCEPT !.pc = "exec", !.parent = p]
    BY <2>1, <2>2 DEF TableInv
  <2>5. procs'[c].stdin = procs[p].stdin
    BY <2>4 DEF TableInv
  <2>6. procs'[p].stdin = procs[p].stdin
    BY <2>1, <2>2 DEF TableInv
  <2> QED
    BY <1>1, <2>2, <2>3, <2>5, <2>6, ShellAssumption DEF KeepsInput
<1>8. ASSUME NEW p \in Pids, Wait(p) PROVE KeepsInput
  <2> DEFINE c == procs[p].child
  <2>1. procs[p].pc = "wait"
    BY <1>8 DEF Wait, Runs
  <2>2. c \in Pids /\ c # Shell /\ procs[c].pc \in Ended /\ c # p
    BY <1>8, <2>1 DEF TableInv, PlacesInv, Wait, WaitOver, Ended
  <2>3. procs' = [procs EXCEPT ![p].pc = "prompt", ![c] = Free]
    BY <1>8, <2>2 DEF Wait, TableInv
  <2>4. \A q \in Pids \ {p, c} : procs'[q] = procs[q]
    BY <2>3 DEF TableInv
  <2>5. procs'[c].stdin = <<>>
    <3>1. procs'[c] = Free
      BY <2>2, <2>3 DEF TableInv
    <3> QED
      BY <3>1 DEF Free
  <2>6. procs'[p].stdin = procs[p].stdin
    BY <2>2, <2>3 DEF TableInv
  <2> HIDE DEF c
  <2> QED
    BY <1>1, <2>2, <2>4, <2>5, <2>6, ShellAssumption DEF KeepsInput
<1>9. CASE UNCHANGED shellVars
  BY <1>2, <1>9 DEF shellVars
<1> QED
  BY <1>3, <1>4, <1>5, <1>6, <1>7, <1>8, <1>9 DEF ShellNext, ShellStep

(* The lines a read has before it. *)
LEMMA UnreadType ==
    ASSUME InputTypes, NEW p \in Pids, NEW lines \in Unread(p)
    PROVE  /\ lines \in Seq(Lines) /\ Len(lines) > 0
           /\ procs[p].stdin # <<>> => lines = procs[p].stdin
           /\ procs[p].stdin = <<>> => /\ taken + Len(lines) <= Len(typed)
                                       /\ chunk = 1 => Len(lines) = 1
                                       /\ \A k \in 1..Len(lines) : lines[k] = typed[taken + k]
<1>1. CASE procs[p].stdin # <<>>
  <2>1. lines = procs[p].stdin
    BY <1>1 DEF Unread
  <2>2. procs[p].stdin \in Seq(Lines)
    BY DEF InputTypes
  <2> QED
    BY <1>1, <2>1, <2>2, EmptyOf
<1>2. CASE procs[p].stdin = <<>>
  <2>1. typed \in Seq(Lines) /\ taken \in Nat /\ taken <= Len(typed)
    BY DEF InputTypes
  <2>2. PICK m \in DOMAIN typed : m - taken \in 1..chunk /\ lines = SubSeq(typed, taken + 1, m)
    BY <1>2 DEF Unread
  <2>3. Len(typed) \in Nat /\ DOMAIN typed = 1..Len(typed)
    BY <2>1
  <2>4. m \in Nat /\ taken < m /\ m <= Len(typed) /\ (chunk = 1 => m - taken = 1)
    BY <2>1, <2>2, <2>3
  <2>5. /\ lines \in Seq(Lines) /\ Len(lines) = m - taken
        /\ \A k \in 1..m - taken : lines[k] = typed[taken + k]
    BY <2>1, <2>2, <2>4, SubSeqOf
  <2> QED
    BY <1>2, <2>1, <2>4, <2>5
<1> QED
  BY <1>1, <1>2

(* A read takes the next line typed, and leaves the ones behind it. *)
LEMMA ReadLineInput ==
    ASSUME TableInv, PlacesInv, InputInv, NEW p \in Pids, ReadLine(p)
    PROVE  InputInv'
<1>1. PICK lines \in Unread(p) :
         /\ taken' = IF procs[p].stdin = <<>> THEN taken + Len(lines) ELSE taken
         /\ procs' = [procs EXCEPT
                ![p].stdin = Tail(lines),
                ![p].pc    = IF BufferOf[Head(lines)].len = 0 THEN "prompt" ELSE "line",
                ![p].toks  = pshy_tokens_from_buff(BufferOf[Head(lines)])]
         /\ handled' = Append(handled, WordsOf(CString(BufferOf[Head(lines)])))
  BY Zenon DEF ReadLine
<1>2. typed' = typed /\ chunk' = chunk /\ nested' = nested /\ procs[p].pc = "prompt"
  BY DEF ReadLine, Runs
<1>3. ~nested => p = Shell
  BY <1>2 DEF PlacesInv, InLoop
<1>4. InputTypes
  BY DEF InputInv
<1>5. typed \in Seq(Lines) /\ handled \in Seq(Words) /\ taken \in Nat /\ procs[p].stdin \in Seq(Lines)
  BY <1>4 DEF InputTypes
<1>6. Len(typed) \in Nat /\ Len(handled) \in Nat /\ Len(procs[p].stdin) \in Nat
      /\ (procs[p].stdin = <<>> <=> Len(procs[p].stdin) = 0)
  BY <1>5, EmptyOf
<1>7. /\ lines \in Seq(Lines) /\ Len(lines) > 0
      /\ procs[p].stdin # <<>> => lines = procs[p].stdin
      /\ procs[p].stdin = <<>> => /\ taken + Len(lines) <= Len(typed)
                                  /\ chunk = 1 => Len(lines) = 1
                                  /\ \A k \in 1..Len(lines) : lines[k] = typed[taken + k]
  BY <1>4, UnreadType
<1>8. Len(lines) \in Nat
  BY <1>7, EmptyOf
<1>9. /\ Head(lines) = lines[1] /\ Head(lines) \in Lines
      /\ Tail(lines) \in Seq(Lines) /\ Len(Tail(lines)) = Len(lines) - 1
      /\ \A k \in 1..Len(lines) - 1 : Tail(lines)[k] = lines[k + 1]
  BY <1>7, HeadTailOf
<1>10. handled' = Append(handled, WordsOf(Head(lines)))
  BY <1>1, <1>9, CStringOfLine
<1>11. /\ handled' \in Seq(Words) /\ Len(handled') = Len(handled) + 1
       /\ \A i \in 1..Len(handled) : handled'[i] = handled[i]
       /\ handled'[Len(handled) + 1] = WordsOf(Head(lines))
  <2>1. WordsOf(Head(lines)) \in Words
    BY <1>9 DEF Words
  <2> QED
    BY <1>5, <1>10, <2>1, AppendOf
<1>12. procs'[p].stdin = Tail(lines) /\ \A q \in Pids \ {p} : procs'[q].stdin = procs[q].stdin
  <2>1. PICK at, t : procs' = [procs EXCEPT ![p].stdin = Tail(lines), ![p].pc = at, ![p].toks = t]
    BY <1>1
  <2> QED
    BY <2>1 DEF TableInv
<1>13. taken' = IF procs[p].stdin = <<>> THEN taken + Len(lines) ELSE taken
  BY <1>1
(* Where the property speaks, what p reads continues what has been handled. *)
<1>14. ASSUME chunk = 1 \/ ~nested PROVE Continues(p)
  <2>1. CASE chunk = 1
    BY <1>5, <1>6, <2>1 DEF InputInv, TerminalInv, Continues
  <2>2. CASE ~nested
    BY <1>3, <2>2 DEF InputInv, PipeInv
  <2> QED
    BY <1>14, <2>1, <2>2
<1>15. ASSUME chunk = 1 \/ ~nested
       PROVE  /\ Len(handled) + Len(lines) = taken'
              /\ \A k \in 1..Len(lines) : lines[k] = typed[Len(handled) + k]
  <2>1. /\ Len(handled) + Len(procs[p].stdin) = taken
        /\ \A k \in 1..Len(procs[p].stdin) : procs[p].stdin[k] = typed[Len(handled) + k]
    BY <1>14, <1>15 DEF Continues
  <2>2. CASE procs[p].stdin = <<>>
    <3>1. Len(handled) = taken
      BY <1>6, <2>1, <2>2
    <3> QED
      BY <1>7, <1>13, <2>2, <3>1
  <2>3. CASE procs[p].stdin # <<>>
    BY <1>7, <1>13, <2>1, <2>3
  <2> QED
    BY <2>2, <2>3
<1>16. InputTypes'
  <2>1. taken' \in Nat /\ taken' <= Len(typed)
    BY <1>4, <1>5, <1>7, <1>8, <1>13 DEF InputTypes
  <2>2. \A q \in Pids : procs'[q].stdin \in Seq(Lines)
    BY <1>4, <1>9, <1>12 DEF InputTypes
  <2> QED
    BY <1>2, <1>5, <1>11, <2>1, <2>2 DEF InputTypes
<1>17. InOrder'
  <2> SUFFICES ASSUME chunk = 1 \/ ~nested, NEW i \in 1..Len(handled')
               PROVE  handled'[i] = WordsOf(typed[i])
    BY <1>2 DEF InOrder
  <2>1. CASE i \in 1..Len(handled)
    BY <1>11, <2>1 DEF InputInv, InOrder
  <2>2. CASE i = Len(handled) + 1
    <3>1. lines[1] = typed[Len(handled) + 1]
      BY <1>7, <1>8, <1>15
    <3> QED
      BY <1>9, <1>11, <2>2, <3>1
  <2>3. i \in 1..Len(handled) \/ i = Len(handled) + 1
    BY <1>6, <1>11
  <2> QED
    BY <2>1, <2>2, <2>3
<1>18. TerminalInv'
  <2> SUFFICES ASSUME chunk = 1
               PROVE  Len(handled') = taken' /\ \A q \in Pids : procs'[q].stdin = <<>>
    BY <1>2 DEF TerminalInv
  <2>1. \A q \in Pids : procs[q].stdin = <<>>
    BY DEF InputInv, TerminalInv
  <2>2. Len(lines) = 1
    BY <1>7, <2>1
  <2>3. Tail(lines) = <<>>
    <3>1. Tail(lines) \in Seq(Lines) /\ Len(Tail(lines)) = 0
      BY <1>9, <2>2
    <3> QED
      BY <3>1, EmptyOf
  <2>4. Len(handled') = taken'
    BY <1>6, <1>11, <1>15, <2>2
  <2> QED
    BY <1>12, <2>1, <2>3, <2>4
<1>19. PipeInv'
  <2> SUFFICES ASSUME ~nested PROVE Continues(p)'
    BY <1>2, <1>3 DEF PipeInv
  <2>1. Len(handled') + Len(Tail(lines)) = taken'
    BY <1>6, <1>8, <1>9, <1>11, <1>15
  <2>2. ASSUME NEW k \in 1..Len(Tail(lines)) PROVE Tail(lines)[k] = typed[Len(handled') + k]
    <3>1. k \in 1..Len(lines) - 1 /\ k + 1 \in 1..Len(lines)
      BY <1>8, <1>9
    <3>2. lines[k + 1] = typed[Len(handled) + (k + 1)]
      BY <1>15, <3>1
    <3>3. Len(handled) + (k + 1) = Len(handled') + k
      BY <1>6, <1>11, <3>1
    <3> QED
      BY <1>9, <3>1, <3>2, <3>3
  <2> QED
    BY <1>2, <1>12, <2>1, <2>2 DEF Continues
<1> QED
  BY <1>16, <1>17, <1>18, <1>19 DEF InputInv

LinesInv == ForegroundInv /\ PlacesInv /\ InputInv

LEMMA LinesInit == ShellInit => LinesInv
<1> SUFFICES ASSUME ShellInit PROVE LinesInv
  OBVIOUS
<1>1. procs = [p \in Pids |-> IF p = Shell THEN [Free EXCEPT !.pc = "prompt"] ELSE Free]
  BY DEF ShellInit
<1>2. taken = 0 /\ handled = <<>> /\ nested = FALSE
  BY DEF ShellInit
<1>3. /\ procs[Shell].pc = "prompt"
      /\ \A p \in Pids \ {Shell} : procs[p].pc = "free"
      /\ \A p \in Pids : procs[p].stdin = <<>>
  BY <1>1, ShellAssumption DEF Free
<1>4. PlacesInv
  BY <1>3 DEF PlacesInv, InLoop
<1>5. typed \in Seq(Lines)
  <2>1. PICK m \in 0..MaxLines : typed \in [1..m -> Lines]
    BY DEF ShellInit, SeqOf
  <2> QED
    BY <2>1, ShellAssumption
<1>6. handled \in Seq(Words) /\ Len(handled) = 0
  BY <1>2
<1>7. InputTypes
  <2>1. Len(typed) \in Nat
    BY <1>5
  <2>2. taken \in Nat /\ taken <= Len(typed)
    <3>1. taken = 0
      BY DEF ShellInit
    <3> QED
      BY <2>1, <3>1
  <2>3. \A p \in Pids : procs[p].stdin \in Seq(Lines)
    <3>1. <<>> \in Seq(Lines)
      OBVIOUS
    <3> QED
      BY <1>3, <3>1
  <2> QED
    BY <1>5, <1>6, <2>2, <2>3 DEF InputTypes
<1>8. InOrder
  BY <1>6 DEF InOrder
<1>9. TerminalInv
  BY <1>2, <1>3, <1>6 DEF TerminalInv
<1>10. PipeInv
  <2>1. procs[Shell].stdin = <<>> /\ Len(procs[Shell].stdin) = 0
    BY <1>3, ShellAssumption
  <2> QED
    BY <1>2, <1>6, <2>1 DEF PipeInv, Continues
<1> QED
  BY <1>4, <1>7, <1>8, <1>9, <1>10, ForegroundInit DEF LinesInv, InputInv

LEMMA LinesNext == LinesInv /\ [ShellNext]_shellVars => LinesInv'
<1> SUFFICES ASSUME LinesInv, [ShellNext]_shellVars PROVE LinesInv'
  OBVIOUS
<1>1. ForegroundInv /\ PlacesInv /\ InputInv /\ TableInv
  BY DEF LinesInv, ForegroundInv
<1>2. ForegroundInv'
  BY <1>1, ForegroundNext
<1>3. PlacesInv'
  BY <1>1, PlacesNext
<1>4. InputInv'
  <2>1. CASE \E p \in Pids : ReadLine(p)
    BY <1>1, <2>1, ReadLineInput
  <2>2. CASE \A p \in Pids : ~ReadLine(p)
    BY <1>1, <2>2, KeepsInputSteps, KeepsInputStep
  <2> QED
    BY <2>1, <2>2
<1> QED
  BY <1>2, <1>3, <1>4 DEF LinesInv

(* EachLineOnce for any lines, however long, and any number of processes: on   *)
(* a terminal always, on a pipe until an execvp fails, the shells take every   *)
(* line once, in the order typed, and word for word.                           *)
THEOREM LinesTakenOnce == ShellSpec => []EachLineOnce
<1>1. LinesInv => EachLineOnce
  <2> SUFFICES ASSUME LinesInv, chunk = 1 \/ ~nested
               PROVE  Len(handled) <= taken /\ \A i \in DOMAIN handled : handled[i] = WordsOf(typed[i])
    BY DEF EachLineOnce
  <2>1. handled \in Seq(Words) /\ taken \in Nat /\ procs[Shell].stdin \in Seq(Lines)
    BY ShellAssumption DEF LinesInv, InputInv, InputTypes
  <2>2. Len(handled) \in Nat /\ DOMAIN handled = 1..Len(handled) /\ Len(procs[Shell].stdin) \in Nat
    BY <2>1
  <2>3. Len(handled) <= taken
    <3>1. CASE chunk = 1
      BY <2>1, <2>2, <3>1 DEF LinesInv, InputInv, TerminalInv
    <3>2. CASE ~nested
      BY <2>1, <2>2, <3>2 DEF LinesInv, InputInv, PipeInv, Continues
    <3> QED
      BY <3>1, <3>2
  <2> QED
    BY <2>2, <2>3 DEF LinesInv, InputInv, InOrder
<1> QED
  BY <1>1, LinesInit, LinesNext, PTL DEF ShellSpec

-----------------------------------------------------------------------------
(* Tvm.                                                                      *)

(* f joins the first n of the sequences. *)
Joins(f, seqs, n) ==
    f = [i \in 1 .. n |-> IF i = 1 THEN seqs[i] ELSE f[i - 1] \o seqs[i]]

LEMMA JoinsExists ==
    ASSUME NEW seqs
    PROVE  \A n \in Nat : \E f : Joins(f, seqs, n)
<1> DEFINE T == {n \in Nat : \E f : Joins(f, seqs, n)}
<1>1. 0 \in T
  <2>1. Joins([i \in 1 .. 0 |-> 0], seqs, 0)
    BY DEF Joins
  <2> QED
    BY <2>1
<1>2. ASSUME NEW n \in Nat, n \in T PROVE n + 1 \in T
  <2>1. PICK f : Joins(f, seqs, n)
    BY <1>2
  <2> DEFINE g == [i \in 1 .. n + 1 |-> IF i <= n THEN f[i] ELSE IF i = 1 THEN seqs[i] ELSE f[i - 1] \o seqs[i]]
  <2>2. \A i \in 1 .. n : f[i] = IF i = 1 THEN seqs[i] ELSE f[i - 1] \o seqs[i]
    BY <2>1 DEF Joins
  <2>3. \A i \in 1 .. n + 1 : g[i] = IF i = 1 THEN seqs[i] ELSE g[i - 1] \o seqs[i]
    <3> SUFFICES ASSUME NEW i \in 1 .. n + 1
                 PROVE  g[i] = IF i = 1 THEN seqs[i] ELSE g[i - 1] \o seqs[i]
      OBVIOUS
    <3>1. i # 1 => g[i - 1] = f[i - 1]
      OBVIOUS
    <3> HIDE DEF g
    <3>2. g[i] = IF i <= n THEN f[i] ELSE IF i = 1 THEN seqs[i] ELSE f[i - 1] \o seqs[i]
      BY Zenon DEF g
    <3>3. i <= n => i \in 1 .. n
      OBVIOUS
    <3> QED
      BY <2>2, <3>1, <3>2, <3>3, Zenon
  <2>4. g = [i \in 1 .. n + 1 |-> g[i]]
    OBVIOUS
  <2> HIDE DEF g
  <2>5. Joins(g, seqs, n + 1)
    BY <2>3, <2>4 DEF Joins
  <2> QED
    BY <2>5
<1> HIDE DEF T
<1>3. Nat \subseteq T
  BY <1>1, <1>2, NatInduct
<1> QED
  BY <1>3 DEF T

LEMMA JoinTwo == ASSUME NEW S, NEW s \in Seq(S), NEW t \in Seq(S) PROVE s \o t \in Seq(S)
  OBVIOUS

(* The lines of a program, one after the other, are a sequence of tokens. *)
LEMMA FlattenType ==
    ASSUME NEW S, NEW seqs \in Seq(Seq(S))
    PROVE  FlattenSeq(seqs) \in Seq(S)
<1> DEFINE n == Len(seqs)
           flatten[i \in 1 .. n] == IF i = 1 THEN seqs[i] ELSE flatten[i - 1] \o seqs[i]
<1>0. n \in Nat /\ \A i \in 1 .. n : seqs[i] \in Seq(S)
  OBVIOUS
<1>1. CASE n = 0
  <2>1. FlattenSeq(seqs) = seqs
    BY <1>1, Zenon DEF FlattenSeq
  <2>2. seqs = <<>>
    BY <1>1
  <2> QED
    BY <2>1, <2>2
<1>2. CASE n # 0
  <2>1. FlattenSeq(seqs) = flatten[n]
    BY <1>2 DEF FlattenSeq
  <2>2. Joins(flatten, seqs, n)
    <3>1. PICK f : Joins(f, seqs, n)
      BY <1>0, JoinsExists
    <3>2. flatten = CHOOSE g : Joins(g, seqs, n)
      BY Zenon DEF Joins
    <3> QED
      BY <3>1, <3>2, Zenon
  <2> HIDE DEF flatten
  <2>3. \A i \in 1 .. n : flatten[i] = IF i = 1 THEN seqs[i] ELSE flatten[i - 1] \o seqs[i]
    BY <2>2 DEF Joins
  <2> DEFINE T == {m \in Nat : m \in 1 .. n => flatten[m] \in Seq(S)}
  <2> HIDE DEF n
  <2>4. 0 \in T
    BY <1>0
  <2>5. ASSUME NEW m \in Nat, m \in T PROVE m + 1 \in T
    <3>1. SUFFICES ASSUME m + 1 \in 1 .. n PROVE flatten[m + 1] \in Seq(S)
      OBVIOUS
    <3>2. seqs[m + 1] \in Seq(S)
      BY <1>0, <3>1
    <3>3. CASE m = 0
      <4>1. flatten[m + 1] = seqs[m + 1]
        BY <2>3, <3>1, <3>3
      <4> QED
        BY <3>2, <4>1
    <3>4. CASE m # 0
      <4>1. flatten[m + 1] = flatten[m] \o seqs[m + 1]
        <5>1. (m + 1) - 1 = m /\ m + 1 # 1
          BY <3>4
        <5>2. flatten[m + 1] = IF m + 1 = 1 THEN seqs[m + 1] ELSE flatten[(m + 1) - 1] \o seqs[m + 1]
          BY <2>3, <3>1, Zenon
        <5> QED
          BY <5>1, <5>2, Zenon
      <4>2. flatten[m] \in Seq(S)
        BY <1>0, <2>5, <3>1, <3>4
      <4> QED
        BY <3>2, <4>1, <4>2, JoinTwo, Zenon
    <3> QED
      BY <3>3, <3>4
  <2> HIDE DEF T
  <2>6. n \in T
    BY <1>0, <2>4, <2>5, NatInduct
  <2> QED
    BY <1>0, <1>2, <2>1, <2>6 DEF T
<1> QED
  BY <1>1, <1>2

Places == 0 .. Len(tokens)
Rows == [label : Places, op : Places, operands : [1 .. 3 -> Places]]

(* Later rows have later labels. *)
LabelsInOrder ==
    /\ \A j \in DOMAIN rows : rows[j].label < it
    /\ \A i, j \in DOMAIN rows :
          i < j => rows[i].label = 0 \/ rows[j].label = 0 \/ rows[i].label < rows[j].label

(* The offset is behind every variable, unless an .ORIG moved it. *)
OffsetBehind ==
    \A i \in Variables :
       (\A c \in i .. row - 1 : Op(rows[c]) # ".ORIG") =>
          address[rows[i].label] + Room(rows[i]) <= offset

TvmTypes ==
    /\ tokens \in Seq(Tokens)
    /\ \A p \in DOMAIN tokens : tokens[p].type = "Instruction" => tokens[p].value \in Instructions
    /\ it \in 1 .. Len(tokens) + 1 /\ rows \in Seq(Rows) /\ row \in Nat \ {0}
    /\ offset \in Nat /\ address \in [DOMAIN tokens -> Int]

TvmInv ==
    /\ TvmTypes /\ LabelsInOrder
    /\ pass = "symtab" =>
          /\ row <= Len(rows) + 1 /\ OffsetBehind
          /\ \A j \in 1 .. row - 1 : rows[j].op # 0
    /\ VariablesApart

(* A program whose variables fit into the memory of 2^16 words. *)
Addressable == offset < U16 /\ \A p \in DOMAIN tokens : tokens[p].head < U16

LEMMA TokenOf ==
    ASSUME TvmTypes, NEW p \in 1 .. Len(tokens)
    PROVE  /\ Token(p).size \in Nat \ {0} /\ Token(p).head \in Int /\ Token(p).hextail \in Int
           /\ Token(p).tail \in Int
<1>1. tokens[p] \in Tokens
  BY DEF TvmTypes
<1> QED
  BY <1>1 DEF Token, Tokens

LEMMA NumbersOf ==
    ASSUME NEW n \in Int
    PROVE  ToU16(n) \in Nat /\ (n < U16 => n <= ToU16(n))
  BY DEF ToU16, U16

LEMMA OperandOf ==
    ASSUME TvmTypes, NEW r \in Rows, r.operands[1] # 0
    PROVE  r.operands[1] \in 1 .. Len(tokens)
<1>1. r.operands \in [1 .. 3 -> Places]
  BY DEF Rows
<1>2. r.operands[1] \in Places /\ Len(tokens) \in Nat
  BY <1>1 DEF TvmTypes
<1> QED
  BY <1>2 DEF Places

(* What BuildSymtab makes of a row. *)
LEMMA RowMeans ==
    ASSUME TvmTypes, NEW r \in Rows, ~SymtabCrashes(r)
    PROVE  /\ r.op # 0 /\ RowOffset(r) \in Nat
           /\ Op(r) # ".ORIG" => RowOffset(r) = offset
           /\ r.operands[1] # 0 => Space(r) \in Nat /\ Room(r) \in Int
<1>1. r.op # 0 /\ ~(Op(r) = ".ORIG" /\ r.operands[1] = 0)
  BY DEF SymtabCrashes
<1>2. RowOffset(r) \in Nat
  <2>1. CASE Op(r) = ".ORIG"
    <3>1. r.operands[1] \in 1 .. Len(tokens)
      BY <1>1, <2>1, OperandOf
    <3>2. Arg(r, 1).hextail \in Int
      BY <3>1, TokenOf DEF Arg
    <3> QED
      BY <2>1, <3>2, NumbersOf DEF RowOffset, HexToU16
  <2>2. CASE Op(r) # ".ORIG"
    BY <2>2 DEF RowOffset, TvmTypes
  <2> QED
    BY <2>1, <2>2
<1>3. ASSUME r.operands[1] # 0 PROVE Space(r) \in Nat /\ Room(r) \in Int
  <2>1. r.operands[1] \in 1 .. Len(tokens)
    BY <1>3, OperandOf
  <2>2. Arg(r, 1).size \in Nat \ {0} /\ Arg(r, 1).head \in Int
    BY <2>1, TokenOf DEF Arg
  <2>3. U16Value(Arg(r, 1)) \in Nat
    BY <2>2, NumbersOf DEF U16Value
  <2> QED
    BY <2>2, <2>3 DEF Space, Room
<1> QED
  BY <1>1, <1>2, <1>3 DEF RowOffset

LEMMA RoomFits ==
    ASSUME TvmTypes, Addressable, NEW r \in Rows, r.operands[1] # 0, Op(r) \in {".STRINGZ", ".BLKW"}
    PROVE  Room(r) <= Space(r)
<1>1. r.operands[1] \in 1 .. Len(tokens)
  BY OperandOf
<1>2. Arg(r, 1).size \in Nat \ {0} /\ Arg(r, 1).head \in Int
  BY <1>1, TokenOf DEF Arg
<1>3. Arg(r, 1).head < U16
  BY <1>1 DEF Addressable, Arg, Token, TvmTypes
<1>4. Arg(r, 1).head <= U16Value(Arg(r, 1))
  BY <1>2, <1>3, NumbersOf DEF U16Value
<1>5. CASE Op(r) = ".STRINGZ"
  BY <1>2, <1>5 DEF Room, Space
<1>6. CASE Op(r) = ".BLKW"
  BY <1>4, <1>6 DEF Room, Space
<1> QED
  BY <1>5, <1>6

LEMMA TvmInvInit == TvmInit => TvmInv
<1> SUFFICES ASSUME TvmInit PROVE TvmInv
  OBVIOUS
<1>1. PICK program \in Sources : tokens = FlattenSeq(program)
  BY DEF TvmInit
<1>2. tokens \in Seq(Tokens)
  BY <1>1, TokensAssumption, FlattenType
<1>3. /\ pass = "parse" /\ it = 1 /\ rows = <<>> /\ row = 1
      /\ offset = 0 /\ address = [p \in DOMAIN tokens |-> 0]
  BY DEF TvmInit
<1>4. \A p \in DOMAIN tokens : tokens[p].type = "Instruction" => tokens[p].value \in Instructions
  <2> DEFINE S == {t \in Tokens : t.type = "Instruction" => t.value \in Instructions}
  <2>1. program \in Seq(Seq(S))
    <3>1. program \in Seq(Seq(Tokens))
      BY TokensAssumption
    <3>2. \A l \in Range(program) : \A t \in Range(l) : t.type = "Instruction" => t.value \in Instructions
      BY TokensAssumption
    <3>3. ASSUME NEW n \in 1 .. Len(program) PROVE program[n] \in Seq(S)
      <4>1. program[n] \in Seq(Tokens) /\ program[n] \in Range(program)
        BY <3>1 DEF Range
      <4>2. \A m \in 1 .. Len(program[n]) : program[n][m] \in S
        BY <3>2, <4>1 DEF Range
      <4> QED
        BY <4>1, <4>2
    <3> QED
      BY <3>1, <3>3
  <2>2. tokens \in Seq(S)
    BY <1>1, <2>1, FlattenType
  <2> QED
    BY <2>2
<1>5. TvmTypes
  BY <1>2, <1>3, <1>4 DEF TvmTypes
<1>6. LabelsInOrder
  BY <1>3 DEF LabelsInOrder
<1> QED
  BY <1>3, <1>5, <1>6 DEF TvmInv, VariablesApart

LEMMA LabelOf ==
    ASSUME TvmTypes, NEW j \in DOMAIN rows
    PROVE  rows[j] \in Rows /\ rows[j].label \in Nat
<1>1. rows[j] \in Rows /\ Len(tokens) \in Nat
  BY DEF TvmTypes
<1> QED
  BY <1>1 DEF Rows, Places

LEMMA PushStep ==
    ASSUME TvmInv, NEW r \in Rows, NEW next \in it .. Len(tokens) + 1, Push(r, next),
           r.label = 0 \/ it <= r.label, r.label < next, pass = "parse",
           UNCHANGED <<tokens, good, row, symVars, data, file>>
    PROVE  TvmInv'
<1>1. /\ rows' = Append(rows, r) /\ it' = next /\ pass' = "parse"
      /\ tokens' = tokens /\ row' = row /\ offset' = offset /\ address' = address
  BY DEF Push, symVars
<1>2. /\ tokens \in Seq(Tokens) /\ it \in 1 .. Len(tokens) + 1 /\ rows \in Seq(Rows) /\ Len(tokens) \in Nat
      /\ LabelsInOrder
  BY DEF TvmInv, TvmTypes
<1>3. TvmTypes'
  <2>1. rows' \in Seq(Rows)
    BY <1>1, <1>2
  <2>2. Rows' = Rows
    BY <1>1 DEF Rows, Places
  <2>3. it' \in 1 .. Len(tokens) + 1
    BY <1>1, <1>2
  <2> QED
    BY <1>1, <2>1, <2>2, <2>3 DEF TvmInv, TvmTypes
<1>4. LabelsInOrder'
  <2> DEFINE n == Len(rows)
  <2>1. /\ n \in Nat /\ DOMAIN rows = 1 .. n /\ DOMAIN rows' = 1 .. n + 1
        /\ rows'[n + 1] = r /\ \A j \in 1 .. n : rows'[j] = rows[j]
    BY <1>1, <1>2
  <2>2. \A j \in 1 .. n : rows[j].label \in Nat
    BY <2>1, LabelOf DEF TvmInv
  <2>3. r.label \in Nat
    BY <1>2 DEF Rows, Places
  <2> HIDE DEF n
  <2>4. \A j \in DOMAIN rows' : rows'[j].label < it'
    BY <1>1, <1>2, <2>1, <2>2, <2>3 DEF LabelsInOrder
  <2>5. ASSUME NEW i \in DOMAIN rows', NEW j \in DOMAIN rows', i < j
        PROVE  rows'[i].label = 0 \/ rows'[j].label = 0 \/ rows'[i].label < rows'[j].label
    <3>1. i \in 1 .. n /\ rows'[i] = rows[i] /\ rows[i].label < it
      BY <1>2, <2>1, <2>5 DEF LabelsInOrder
    <3>2. CASE j = n + 1
      BY <1>2, <2>1, <2>2, <2>3, <3>1, <3>2
    <3>3. CASE j \in 1 .. n
      BY <1>2, <2>1, <2>5, <3>1, <3>3 DEF LabelsInOrder
    <3> QED
      BY <2>1, <3>2, <3>3
  <2> QED
    BY <2>4, <2>5 DEF LabelsInOrder
<1> QED
  BY <1>1, <1>3, <1>4 DEF TvmInv, VariablesApart

LEMMA ArityOf ==
    ASSUME NEW v, v \in KnownSegments \/ v \in Instructions \ Unparsed
    PROVE  Arity(v) \in Nat
  BY DEF Arity, KnownSegments, Instructions, Unparsed, Branches

LEMMA BehindOf ==
    ASSUME NEW p \in Nat, NEW n \in Nat, Len(tokens) \in Nat, p <= Len(tokens)
    PROVE  Behind(p, n) \in p + 1 .. Len(tokens) + 1
<1> DEFINE m == IF p + n <= Len(tokens) THEN p + n ELSE Len(tokens)
<1>1. m \in {p + n, Len(tokens)} /\ \A y \in {p + n, Len(tokens)} : m <= y
  OBVIOUS
<1>2. /\ Min({p + n, Len(tokens)}) \in {p + n, Len(tokens)}
      /\ \A y \in {p + n, Len(tokens)} : Min({p + n, Len(tokens)}) <= y
  BY <1>1 DEF Min
<1> QED
  BY <1>2 DEF Behind

LEMMA RowOf ==
    ASSUME TvmTypes, NEW label \in Places, NEW op \in Places, NEW n \in Nat
    PROVE  Row(label, op, n) \in Rows /\ Row(label, op, n).label = label
<1>1. Len(tokens) \in Nat
  BY DEF TvmTypes
<1>2. \A j \in 1 .. 3 : (IF j <= n THEN OperandAt(op + j) ELSE 0) \in Places
  BY <1>1 DEF OperandAt, Places
<1> QED
  BY <1>2 DEF Row, Rows

LEMMA ParseOpStep ==
    ASSUME TvmInv, NEW label \in Places, NEW p \in Nat, ParseOp(label, p), pass = "parse",
           it <= p, label = 0 \/ (it <= label /\ label < p),
           UNCHANGED <<tokens, good, row, symVars, data, file>>
    PROVE  TvmInv'
<1>0. TvmTypes /\ Len(tokens) \in Nat /\ it \in 1 .. Len(tokens) + 1
  BY DEF TvmInv, TvmTypes
<1>1. ASSUME \/ Type(p) = "Instruction" /\ Token(p).value \notin Unparsed
             \/ Type(p) = "Segment" /\ Token(p).value \in KnownSegments,
             Push(Row(label, p, Arity(Token(p).value)), Behind(p, Arity(Token(p).value)))
      PROVE  TvmInv'
  <2>1. p \in 1 .. Len(tokens)
    BY <1>0, <1>1 DEF Type
  <2>2. Type(p) = "Instruction" => Token(p).value \in Instructions
    BY <1>0, <2>1 DEF TvmTypes, Type, Token
  <2> DEFINE n == Arity(Token(p).value)
  <2>3. n \in Nat
    BY <1>1, <2>2, ArityOf
  <2> HIDE DEF n
  <2>4. Row(label, p, n) \in Rows /\ Row(label, p, n).label = label
    BY <1>0, <2>1, <2>3, RowOf DEF Places
  <2>5. Behind(p, n) \in p + 1 .. Len(tokens) + 1
    <3>1. p \in Nat /\ p <= Len(tokens)
      BY <1>0, <2>1
    <3> QED
      BY <1>0, <2>3, <3>1, BehindOf, Zenon
  <2>6. Behind(p, n) \in it .. Len(tokens) + 1 /\ label < Behind(p, n)
    BY <1>0, <2>1, <2>5 DEF Places
  <2>7. Push(Row(label, p, n), Behind(p, n))
    BY <1>1 DEF n
  <2> QED
    BY <2>4, <2>6, <2>7, PushStep
<1>2. ASSUME Type(p) = "Segment",
             Push([label |-> p, op |-> 0, operands |-> <<OperandAt(p + 1), 0, 0>>], Behind(p, 1))
      PROVE  TvmInv'
  <2>1. p \in 1 .. Len(tokens)
    BY <1>0, <1>2 DEF Type
  <2> DEFINE r == [label |-> p, op |-> 0, operands |-> <<OperandAt(p + 1), 0, 0>>]
  <2>2. r \in Rows /\ r.label = p
    <3>1. OperandAt(p + 1) \in Places /\ 0 \in Places /\ p \in Places
      BY <1>0, <2>1 DEF OperandAt, Places
    <3> QED
      BY <3>1 DEF Rows
  <2>3. Push(r, Behind(p, 1))
    BY <1>2
  <2>4. Behind(p, 1) \in p + 1 .. Len(tokens) + 1
    <3>1. p \in Nat /\ p <= Len(tokens) /\ 1 \in Nat
      BY <1>0, <2>1
    <3> QED
      BY <1>0, <3>1, BehindOf, Zenon
  <2> HIDE DEF r
  <2>5. Behind(p, 1) \in it .. Len(tokens) + 1 /\ r.label < Behind(p, 1)
    BY <1>0, <2>1, <2>2, <2>4
  <2> QED
    BY <2>2, <2>3, <2>5, PushStep
<1>3. ASSUME pass' = "exhausted", UNCHANGED <<rows, it>> PROVE TvmInv'
  BY <1>3 DEF TvmInv, TvmTypes, LabelsInOrder, Rows, Places, VariablesApart, symVars
<1> QED
  BY <1>1, <1>2, <1>3 DEF ParseOp

LEMMA ParseStep == TvmInv /\ ParseRow => TvmInv'
<1> SUFFICES ASSUME TvmInv, ParseRow PROVE TvmInv'
  OBVIOUS
<1>0. Len(tokens) \in Nat /\ it \in 1 .. Len(tokens)
  BY DEF TvmInv, TvmTypes, ParseRow
<1>1. pass = "parse" /\ UNCHANGED <<tokens, good, row, symVars, data, file>>
  BY DEF ParseRow
<1>2. CASE ParseOp(0, it)
  <2>1. 0 \in Places /\ it \in Nat
    BY <1>0 DEF Places
  <2> QED
    BY <1>0, <1>1, <1>2, <2>1, ParseOpStep
<1>3. CASE ParseOp(it, it + 1)
  <2>1. it \in Places /\ it + 1 \in Nat /\ it < it + 1 /\ it <= it + 1
    BY <1>0 DEF Places
  <2> QED
    BY <1>0, <1>1, <1>3, <2>1, ParseOpStep
<1>4. CASE it' = it + 1 /\ UNCHANGED <<rows, pass>>
  <2>1. TvmTypes'
    <3>1. it' \in 1 .. Len(tokens) + 1
      BY <1>0, <1>4
    <3> QED
      BY <1>1, <1>4, <3>1 DEF TvmInv, TvmTypes, Rows, Places, symVars
  <2>2. LabelsInOrder'
    <3>1. \A j \in DOMAIN rows : rows[j].label \in Nat
      BY LabelOf DEF TvmInv
    <3> QED
      BY <1>0, <1>4, <3>1 DEF TvmInv, LabelsInOrder
  <2> QED
    BY <1>1, <1>4, <2>1, <2>2 DEF TvmInv, VariablesApart
<1>5. CASE Push([label |-> it, op |-> 0, operands |-> <<0, 0, 0>>], it + 1)
  <2> DEFINE r == [label |-> it, op |-> 0, operands |-> <<0, 0, 0>>]
  <2>1. r \in Rows /\ r.label = it
    <3>1. 0 \in Places /\ it \in Places
      BY <1>0 DEF Places
    <3> QED
      BY <3>1 DEF Rows
  <2>2. Push(r, it + 1)
    BY <1>5
  <2> HIDE DEF r
  <2>3. it + 1 \in it .. Len(tokens) + 1 /\ it < it + 1 /\ it <= it
    BY <1>0
  <2> QED
    BY <1>1, <2>1, <2>2, <2>3, PushStep
<1>6. CASE pass' = "aborted" /\ UNCHANGED <<rows, it>>
  BY <1>1, <1>6 DEF TvmInv, TvmTypes, LabelsInOrder, Rows, Places, VariablesApart, symVars
<1> QED
  BY <1>2, <1>3, <1>4, <1>5, <1>6 DEF ParseRow, ParseLabel

LEMMA VariableOf ==
    ASSUME TvmInv, pass = "symtab", NEW i \in Variables
    PROVE  /\ i \in Nat /\ i < row /\ i \in DOMAIN rows
           /\ rows[i].label \in DOMAIN tokens /\ address[rows[i].label] \in Int /\ Room(rows[i]) \in Int
<1>1. i \in 1 .. row - 1 /\ rows[i].label # 0 /\ rows[i].operands[1] # 0 /\ Op(rows[i]) \in {".STRINGZ", ".BLKW"}
  BY DEF Variables
<1>2. TvmTypes /\ row \in Nat \ {0} /\ row <= Len(rows) + 1 /\ rows \in Seq(Rows) /\ tokens \in Seq(Tokens)
  BY DEF TvmInv, TvmTypes
<1>3. i \in Nat /\ i < row /\ i \in DOMAIN rows
  BY <1>1, <1>2
<1>4. rows[i] \in Rows /\ rows[i].op # 0
  BY <1>1, <1>2, <1>3, LabelOf DEF TvmInv
<1>5. rows[i].label \in DOMAIN tokens
  <2>1. rows[i].label \in Places
    BY <1>4 DEF Rows
  <2> QED
    BY <1>1, <1>2, <2>1 DEF Places
<1>6. address[rows[i].label] \in Int
  BY <1>5 DEF TvmInv, TvmTypes
<1>7. ~SymtabCrashes(rows[i])
  BY <1>1, <1>4 DEF SymtabCrashes
<1>8. Room(rows[i]) \in Int
  BY <1>1, <1>2, <1>4, <1>7, RowMeans
<1> QED
  BY <1>3, <1>5, <1>6, <1>8

(* BuildSymtab goes on to the next row. *)
LEMMA SymtabAdvance ==
    ASSUME TvmInv, NEW r, r = rows[row], pass = "symtab", row <= Len(rows), ~SymtabCrashes(r),
           row' = row + 1, UNCHANGED <<tokens, it, rows, pass>>,
           offset' \in Nat, address' \in [DOMAIN tokens -> Int], RowOffset(r) <= offset',
           \A i \in Variables : address'[rows[i].label] = address[rows[i].label],
           row \in Variables' => /\ address'[r.label] = RowOffset(r)
                                 /\ address'[r.label] + Room(r) <= offset'
    PROVE  TvmInv'
<1>1. TvmTypes /\ row \in Nat \ {0} /\ rows \in Seq(Rows) /\ offset \in Nat
  BY DEF TvmInv, TvmTypes
<1>2. row \in DOMAIN rows /\ r \in Rows
  BY <1>1
<1>3. r.op # 0 /\ RowOffset(r) \in Nat /\ (Op(r) # ".ORIG" => RowOffset(r) = offset)
  BY <1>1, <1>2, RowMeans
<1>4. TvmTypes'
  <2>1. row' \in Nat \ {0}
    BY <1>1
  <2> QED
    BY <2>1 DEF TvmInv, TvmTypes, Rows, Places
<1>5. LabelsInOrder'
  BY DEF TvmInv, LabelsInOrder
<1>6. \A j \in 1 .. row' - 1 : rows'[j].op # 0
  <2>1. \A j \in 1 .. row' - 1 : j \in 1 .. row - 1 \/ j = row
    BY <1>1
  <2> QED
    BY <1>3, <2>1 DEF TvmInv
<1>8. \A i \in Variables' : i \in Variables \/ i = row
  <2>1. \A j \in 1 .. row' - 1 : j \in 1 .. row - 1 \/ j = row
    BY <1>1
  <2> QED
    BY <2>1 DEF Variables, Op, Token
<1>9. \A c : Op(rows[c])' = Op(rows[c]) /\ Room(rows[c])' = Room(rows[c]) /\ rows'[c] = rows[c]
  BY DEF Op, Token, Room, Arg
<1>10. OffsetBehind'
  <2> SUFFICES ASSUME NEW i \in Variables', \A c \in i .. row' - 1 : Op(rows[c]) # ".ORIG"
               PROVE  address'[rows[i].label] + Room(rows[i]) <= offset'
    BY <1>9 DEF OffsetBehind
  <2>1. CASE i = row
    BY <2>1
  <2>2. CASE i \in Variables
    <3>1. i \in Nat /\ i < row /\ address[rows[i].label] \in Int /\ Room(rows[i]) \in Int
      BY <2>2, VariableOf
    <3>2. row \in i .. row' - 1 /\ \A c \in i .. row - 1 : c \in i .. row' - 1
      BY <1>1, <3>1
    <3>3. address[rows[i].label] + Room(rows[i]) <= offset
      BY <2>2, <3>2 DEF TvmInv, OffsetBehind
    <3>4. RowOffset(r) = offset
      BY <1>3, <3>2
    <3> QED
      BY <1>1, <2>2, <3>1, <3>3, <3>4
  <2> QED
    BY <1>8, <2>1, <2>2
<1>11. VariablesApart'
  <2> SUFFICES ASSUME NEW i \in Variables', NEW j \in Variables', i < j,
                      \A c \in i .. j : Op(rows[c]) # ".ORIG"
               PROVE  address'[rows[j].label] >= address'[rows[i].label] + Room(rows[i])
    BY <1>9 DEF VariablesApart
  <2>1. ASSUME i \in Variables, j = row
        PROVE  address'[rows[j].label] >= address'[rows[i].label] + Room(rows[i])
    <3>1. i \in Nat /\ i < row /\ address[rows[i].label] \in Int /\ Room(rows[i]) \in Int
      BY <2>1, VariableOf
    <3>2. row \in i .. j /\ \A c \in i .. row - 1 : c \in i .. j
      BY <1>1, <2>1, <3>1
    <3>3. address[rows[i].label] + Room(rows[i]) <= offset
      BY <2>1, <3>2 DEF TvmInv, OffsetBehind
    <3>4. RowOffset(r) = offset
      BY <1>3, <3>2
    <3>5. address'[rows[j].label] = offset
      BY <2>1, <3>4
    <3> QED
      BY <1>1, <2>1, <3>1, <3>3, <3>5
  <2>2. CASE i \in Variables /\ j \in Variables
    BY <2>2 DEF TvmInv, VariablesApart
  <2>3. ASSUME i = row, j \in Variables PROVE FALSE
    BY <1>1, <2>3, VariableOf
  <2>4. i # j
    <3>1. i \in Int
      BY <1>1, <1>8, VariableOf
    <3> QED
      BY <3>1
  <2> QED
    BY <1>8, <2>1, <2>2, <2>3, <2>4
<1>12. row' <= Len(rows') + 1
  BY <1>1
<1> QED
  BY <1>4, <1>5, <1>6, <1>10, <1>11, <1>12 DEF TvmInv

LEMMA SymtabStep == TvmInv /\ SymtabRow /\ Addressable /\ Addressable' => TvmInv'
<1> SUFFICES ASSUME TvmInv, SymtabRow, Addressable, Addressable' PROVE TvmInv'
  OBVIOUS
<1> DEFINE r == rows[row]
<1>1. pass = "symtab" /\ row <= Len(rows) /\ UNCHANGED <<tokens, it, rows>>
  BY DEF SymtabRow
<1>2. TvmTypes /\ row \in Nat \ {0} /\ rows \in Seq(Rows) /\ offset \in Nat /\ address \in [DOMAIN tokens -> Int]
      /\ tokens \in Seq(Tokens)
  BY DEF TvmInv, TvmTypes
<1>3. row \in DOMAIN rows /\ r \in Rows
  BY <1>1, <1>2
<1>4. CASE pass' = "crashed" /\ UNCHANGED <<row, symVars>>
  BY <1>1, <1>4 DEF TvmInv, TvmTypes, LabelsInOrder, Rows, Places, VariablesApart, symVars
<1>5. ASSUME ~SymtabCrashes(r), r.label = 0 \/ r.operands[1] = 0,
             offset' = RowOffset(r) + 2, row' = row + 1, UNCHANGED <<pass, address, symtab_>>
      PROVE  TvmInv'
  <2>1. RowOffset(r) \in Nat
    BY <1>2, <1>3, <1>5, RowMeans
  <2>2. offset' \in Nat /\ RowOffset(r) <= offset'
    BY <1>5, <2>1
  <2>3. row \notin Variables'
    BY <1>1, <1>5 DEF Variables
  <2> HIDE DEF r
  <2>4. r = rows[row]
    BY DEF r
  <2> QED
    BY <1>1, <1>2, <1>5, <2>2, <2>3, <2>4, SymtabAdvance
<1>6. ASSUME ~SymtabCrashes(r), r.label # 0, r.operands[1] # 0,
             address' = [address EXCEPT ![r.label] = RowOffset(r) % U16],
             offset' = RowOffset(r) + Space(r), row' = row + 1, UNCHANGED pass
      PROVE  TvmInv'
  <2>1. RowOffset(r) \in Nat /\ Space(r) \in Nat /\ Room(r) \in Int
    BY <1>2, <1>3, <1>6, RowMeans
  <2>2. offset' \in Nat /\ RowOffset(r) <= offset'
    BY <1>6, <2>1
  <2>3. RowOffset(r) % U16 = RowOffset(r)
    <3>1. offset' < U16
      BY DEF Addressable
    <3>2. RowOffset(r) < U16
      BY <1>6, <2>1, <3>1 DEF U16
    <3> QED
      BY <2>1, <3>2 DEF U16
  <2>4. r.label \in DOMAIN tokens
    <3>1. r.label \in Places /\ r.label # 0
      BY <1>3, <1>6 DEF Rows
    <3>2. DOMAIN tokens = 1 .. Len(tokens) /\ Len(tokens) \in Nat
      BY <1>2
    <3> HIDE DEF r
    <3> QED
      BY <3>1, <3>2 DEF Places
  <2>5. address' = [address EXCEPT ![r.label] = RowOffset(r)]
    BY <1>6, <2>3
  <2>6. address' \in [DOMAIN tokens -> Int] /\ address'[r.label] = RowOffset(r)
    BY <1>2, <2>1, <2>4, <2>5
  <2>7. ASSUME NEW i \in Variables PROVE address'[rows[i].label] = address[rows[i].label]
    <3>1. i \in Nat /\ i < row /\ i \in DOMAIN rows /\ rows[i].label \in DOMAIN tokens
      BY <1>1, VariableOf
    <3>2. rows[i].label # r.label
      <4>1. rows[i].label # 0
        BY DEF Variables
      <4>2. rows[i].label < r.label
        BY <1>3, <1>6, <3>1, <4>1 DEF TvmInv, LabelsInOrder
      <4>3. rows[i].label \in Nat /\ r.label \in Nat
        BY <1>2, <1>3, <3>1, LabelOf
      <4> QED
        BY <4>2, <4>3
    <3> QED
      BY <1>2, <2>5, <3>1, <3>2
  <2>8. ASSUME row \in Variables' PROVE address'[r.label] + Room(r) <= offset'
    <3>1. Op(r) \in {".STRINGZ", ".BLKW"}
      BY <1>1, <2>8 DEF Variables, Op, Token
    <3>2. Room(r) <= Space(r)
      BY <1>2, <1>3, <1>6, <3>1, RoomFits
    <3> QED
      BY <1>6, <2>1, <2>6, <3>2
  <2> HIDE DEF r
  <2>9. r = rows[row]
    BY DEF r
  <2> QED
    BY <1>1, <1>2, <1>6, <2>2, <2>6, <2>7, <2>8, <2>9, SymtabAdvance
<1> QED
  BY <1>4, <1>5, <1>6 DEF SymtabRow

LEMMA TvmStep == TvmInv /\ Addressable /\ Addressable' /\ [TvmNext]_tvmVars => TvmInv'
<1> SUFFICES ASSUME TvmInv, Addressable, Addressable', [TvmNext]_tvmVars PROVE TvmInv'
  OBVIOUS
<1>1. CASE ParseRow
  BY <1>1, ParseStep
<1>2. CASE SymtabRow
  BY <1>2, SymtabStep
<1>3. CASE ParseEnd
  <2>1. pass' = "symtab" /\ row' = 1 /\ UNCHANGED <<tokens, it, rows, symVars>>
    BY <1>3 DEF ParseEnd, EndPass
  <2>2. Variables' = {}
    BY <2>1 DEF Variables
  <2>3. TvmTypes' /\ LabelsInOrder'
    BY <2>1 DEF TvmInv, TvmTypes, LabelsInOrder, Rows, Places, symVars
  <2>4. row' <= Len(rows') + 1 /\ \A j \in 1 .. row' - 1 : rows'[j].op # 0
    BY <2>1 DEF TvmInv, TvmTypes
  <2> QED
    BY <2>2, <2>3, <2>4 DEF TvmInv, OffsetBehind, VariablesApart
<1>4. CASE SymtabEnd \/ EncodeRow \/ EncodeEnd \/ WriteFile
  <2>1. pass' # "symtab" /\ row' \in Nat \ {0} /\ UNCHANGED <<tokens, it, rows, symVars>>
    <3>1. row \in Nat \ {0}
      BY DEF TvmInv, TvmTypes
    <3>2. row + 1 \in Nat \ {0} /\ 1 \in Nat \ {0}
      BY <3>1
    <3>3. CASE SymtabEnd \/ EncodeEnd
      BY <3>2, <3>3 DEF SymtabEnd, EncodeEnd, EndPass
    <3>4. CASE EncodeRow
      BY <3>1, <3>2, <3>4 DEF EncodeRow
    <3>5. CASE WriteFile
      BY <3>1, <3>5 DEF WriteFile
    <3> QED
      BY <1>4, <3>3, <3>4, <3>5
  <2> QED
    BY <2>1 DEF TvmInv, TvmTypes, LabelsInOrder, Rows, Places, VariablesApart, symVars
<1>5. CASE UNCHANGED tvmVars
  <2>1. UNCHANGED <<tokens, pass, it, rows, row, offset, address>>
    BY <1>5 DEF tvmVars, symVars
  <2>2. TvmTypes' /\ LabelsInOrder'
    BY <2>1 DEF TvmInv, TvmTypes, LabelsInOrder, Rows, Places
  <2>3. VariablesApart' /\ (OffsetBehind => OffsetBehind')
    BY <2>1 DEF TvmInv, VariablesApart, OffsetBehind, Variables, Op, Room, Arg, Token
  <2> QED
    BY <2>1, <2>2, <2>3 DEF TvmInv
<1> QED
  BY <1>1, <1>2, <1>3, <1>4, <1>5, Zenon DEF TvmNext, Exited

(* In every program whose variables fit into the memory, the labelled         *)
(* variables do not overlap: BuildSymtab leaves between two of them the room   *)
(* of the first, unless an .ORIG moved the offset.                            *)
THEOREM VariablesKeptApart == TvmSpec /\ []Addressable => []VariablesApart
<1>1. TvmInv => VariablesApart
  BY DEF TvmInv
<1> QED
  BY <1>1, TvmInvInit, TvmStep, PTL DEF TvmSpec
=============================================================================
