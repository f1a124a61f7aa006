-------------------------- MODULE GranulatorProofs --------------------------
(***************************************************************************)
(* The ranges of the Granulator tile the vector, for every number of        *)
(* elements, threads and threshold within Sane; and the workers of          *)
(* misc/multi-vector.cc, which share the slot that range lives in, stay in  *)
(* the vector, and every one of them leaves one part.                       *)
(***************************************************************************)
EXTENDS SumWorkers, FiniteSetTheorems, TLAPS

(* The k-th range without modular arithmetic. *)
Cut(k) == [first |-> (k - 1) * grain_,
           second |-> IF k = num_threads_ THEN num_elements_ - 1 ELSE k * grain_ - 1]

(* num_threads_ grains fill the vector but for less than threshold_ elements.*)
Shape ==
    /\ num_elements_ \in Nat /\ num_threads_ \in Nat /\ grain_ \in Nat
    /\ num_threads_ >= 1 /\ grain_ >= 1
    /\ num_threads_ > 1 => grain_ >= threshold_
    /\ num_threads_ * grain_ <= num_elements_
    /\ num_elements_ < num_threads_ * grain_ + threshold_
    /\ num_elements_ + threshold_ < W
    /\ num_threads_ < W

CutInv ==
    /\ Shape
    /\ step_ \in 0 .. num_threads_
    /\ ranges \in Seq([first : Int, second : Int])
    /\ Len(ranges) = step_
    /\ \A k \in 1 .. step_ : ranges[k] = Cut(k)

-----------------------------------------------------------------------------
LEMMA ProductMonotone ==
    ASSUME NEW a \in Nat, NEW b \in Nat, NEW g \in Nat, a <= b
    PROVE  a * g <= b * g /\ a * g \in Nat /\ b * g \in Nat
  OBVIOUS

LEMMA ProductSucc ==
    ASSUME NEW a \in Int, NEW g \in Int
    PROVE  (a + 1) * g = a * g + g /\ (a - 1) * g = a * g - g
  OBVIOUS

LEMMA NoWrap ==
    ASSUME NEW x \in Nat, x < W
    PROVE  x % W = x
  BY GrainAssumption

LEMMA Division ==
    ASSUME NEW n \in Nat, NEW d \in Nat \ {0}
    PROVE  /\ n \div d \in Nat
           /\ d * (n \div d) <= n
           /\ n < d * (n \div d) + d
  OBVIOUS

-----------------------------------------------------------------------------
(* The constructor: whether the vector is cut or not, the grains fit. *)
LEMMA InitCut ==
    ASSUME Sane, GranulatorInit
    PROVE  CutInv
<1>1. PICK n \in Sizes, hw \in Cores :
         /\ num_elements_ = n
         /\ num_threads_ = NumThreads(n, hw)
         /\ grain_ = Grain(n, hw)
         /\ step_ = 0 /\ ranges = <<>>
  BY DEF GranulatorInit
<1>2. /\ n \in Nat /\ n >= 1 /\ n + threshold_ < W
      /\ hw \in Nat \ {0} /\ hw <= threshold_ /\ hw * threshold_ < W
      /\ threshold_ \in Nat /\ W \in Nat
  BY GrainAssumption DEF Sane
<1>3. hw * threshold_ \in Nat
  BY <1>2, ProductMonotone
<1>4. FewElements(n, hw) <=> n <= hw * threshold_
  BY <1>2, <1>3, NoWrap DEF FewElements, Times
<1>5. CASE FewElements(n, hw)
  <2>1. num_threads_ = 1 /\ grain_ = n
    BY <1>1, <1>5 DEF NumThreads, Grain
  <2>2. Shape
    BY <1>1, <1>2, <2>1 DEF Shape
  <2> QED
    BY <1>1, <2>1, <2>2 DEF CutInv
<1>6. CASE ~FewElements(n, hw)
  <2>1. num_threads_ = hw /\ grain_ = n \div hw
    BY <1>1, <1>6 DEF NumThreads, Grain
  <2>2. /\ grain_ \in Nat
        /\ hw * grain_ <= n
        /\ n < hw * grain_ + hw
    BY <1>2, <2>1, Division
  <2>3. grain_ >= threshold_
    <3>1. SUFFICES ASSUME grain_ + 1 <= threshold_ PROVE FALSE
      BY <1>2, <2>2
    <3>2. (grain_ + 1) * hw <= threshold_ * hw
      BY <1>2, <2>2, <3>1, ProductMonotone
    <3>3. (grain_ + 1) * hw = hw * grain_ + hw /\ threshold_ * hw = hw * threshold_
      BY <1>2, <2>2
    <3> QED
      BY <1>2, <1>3, <1>4, <1>6, <2>2, <3>2, <3>3
  <2>4. Shape
    BY <1>1, <1>2, <2>1, <2>2, <2>3, GrainAssumption DEF Shape, Sane
  <2> QED
    BY <1>1, <2>4 DEF CutInv, Shape
<1> QED
  BY <1>5, <1>6

(* Step returns the next cut: its sums and products do not wrap, and the     *)
(* test for the last range holds for the last one only.                      *)
LEMMA NextRangeIsCut ==
    ASSUME Sane, CutInv, step_ < num_threads_
    PROVE  NextRange = Cut(step_ + 1) /\ NextStep = step_ + 1
<1> DEFINE n == num_elements_
           g == grain_
           t == num_threads_
           s == step_
<1>1. /\ n \in Nat /\ g \in Nat /\ t \in Nat /\ s \in Nat
      /\ s + 1 <= t /\ g >= 1 /\ t < W
      /\ threshold_ \in Nat /\ threshold_ >= 1 /\ W \in Nat
      /\ n + threshold_ < W /\ t * g <= n /\ n < t * g + threshold_
      /\ (t > 1 => g >= threshold_)
  BY GrainAssumption DEF CutInv, Shape, Sane
<1> HIDE DEF n, g, t, s
<1>2. /\ s * g \in Nat /\ (s + 1) * g \in Nat /\ t * g \in Nat
      /\ (s + 1) * g = s * g + g
      /\ (s + 1) * g <= t * g
  BY <1>1, ProductMonotone, ProductSucc
<1>3. Plus(s, 1) = s + 1
  BY <1>1, NoWrap DEF Plus
<1>4. Times(s, g) = s * g /\ Times(s + 1, g) = (s + 1) * g
  BY <1>1, <1>2, NoWrap DEF Times
<1>5. Minus((s + 1) * g, 1) = (s + 1) * g - 1 /\ Minus(n, 1) = n - 1
  BY <1>1, <1>2 DEF Minus
<1>6. Plus((s + 1) * g - 1, threshold_) = (s + 1) * g - 1 + threshold_
  BY <1>1, <1>2, NoWrap DEF Plus
<1>7. ((s + 1) * g - 1 + threshold_ >= n) <=> (s + 1 = t)
  <2>1. CASE s + 1 = t
    BY <1>1, <1>2, <2>1
  <2>2. CASE s + 1 < t
    <3>1. (s + 2) * g <= t * g
      BY <1>1, <2>2, ProductMonotone
    <3>2. (s + 2) * g = (s + 1) * g + g
      BY <1>1
    <3> QED
      BY <1>1, <1>2, <2>2, <3>1, <3>2
  <2> QED
    BY <1>1, <2>1, <2>2
<1>8. RangeTo = IF s + 1 = t THEN n - 1 ELSE (s + 1) * g - 1
  BY <1>3, <1>4, <1>5, <1>6, <1>7 DEF RangeTo, LastRange, n, g, t, s
<1> QED
  BY <1>1, <1>3, <1>4, <1>8 DEF NextRange, NextStep, Cut, n, g, t, s

LEMMA StepCut ==
    ASSUME Sane, CutInv, [GranulatorNext]_granulatorVars
    PROVE  CutInv'
<1>1. CASE Step
  <2>1. NextRange = Cut(step_ + 1) /\ NextStep = step_ + 1
    BY <1>1, NextRangeIsCut DEF Step
  <2>2. Shape'
    BY <1>1 DEF CutInv, Shape, Step
  <2>3. \A k : Cut(k)' = Cut(k)
    BY <1>1 DEF Cut, Step
  <2>4. Cut(step_ + 1) \in [first : Int, second : Int]
    BY DEF Cut, CutInv, Shape
  <2>5. /\ ranges' \in Seq([first : Int, second : Int])
        /\ Len(ranges') = step_ + 1
        /\ \A k \in 1 .. step_ + 1 : ranges'[k] = Cut(k)
    BY <1>1, <2>1, <2>4 DEF CutInv, Step
  <2> QED
    BY <1>1, <2>1, <2>2, <2>3, <2>5 DEF CutInv, Shape, Step
<1>2. CASE ResetSteps
  BY <1>2 DEF CutInv, Shape, Cut, ResetSteps
<1>3. CASE UNCHANGED granulatorVars
  BY <1>3 DEF CutInv, Shape, Cut, granulatorVars
<1> QED
  BY <1>1, <1>2, <1>3 DEF GranulatorNext

LEMMA CutsTile ==
    ASSUME Sane, CutInv
    PROVE  Tiling /\ EnoughWork
<1>1. /\ num_elements_ \in Nat /\ grain_ \in Nat /\ num_threads_ \in Nat
      /\ step_ \in Nat /\ step_ <= num_threads_ /\ grain_ >= 1
      /\ threshold_ \in Nat /\ threshold_ >= 1
      /\ num_threads_ * grain_ <= num_elements_
      /\ (num_threads_ > 1 => grain_ >= threshold_)
      /\ Len(ranges) = step_
      /\ \A k \in 1 .. step_ : ranges[k] = Cut(k)
  BY GrainAssumption DEF CutInv, Shape, Sane
<1>2. ASSUME NEW k \in 1 .. step_
      PROVE  /\ Cut(k).first + grain_ <= Cut(k).second + 1
             /\ Cut(k).second < num_elements_
  <2>1. /\ k * grain_ \in Nat /\ num_threads_ * grain_ \in Nat
        /\ k * grain_ <= num_threads_ * grain_
        /\ (k - 1) * grain_ = k * grain_ - grain_
    BY <1>1, ProductMonotone, ProductSucc
  <2>2. /\ Cut(k).first = k * grain_ - grain_
        /\ Cut(k).second = IF k = num_threads_ THEN num_elements_ - 1 ELSE k * grain_ - 1
    BY <2>1 DEF Cut
  <2>3. CASE k = num_threads_
    BY <1>1, <2>1, <2>2, <2>3
  <2>4. CASE k < num_threads_
    <3>1. (k + 1) * grain_ <= num_threads_ * grain_ /\ (k + 1) * grain_ = k * grain_ + grain_
      BY <1>1, <2>4, ProductMonotone, ProductSucc
    <3> QED
      BY <1>1, <2>1, <2>2, <2>4, <3>1
  <2> QED
    BY <1>1, <2>3, <2>4
<1>3. ASSUME NEW k \in 1 .. step_ - 1
      PROVE  Cut(k + 1).first = Cut(k).second + 1
  BY <1>1 DEF Cut
<1>4. Tiling
  <2>1. \A k \in 1 .. Len(ranges) : /\ ranges[k].first <= ranges[k].second
                                    /\ ranges[k].second < num_elements_
    <3> TAKE k \in 1 .. Len(ranges)
    <3>1. Cut(k).first \in Int /\ Cut(k).second \in Int
      BY <1>1 DEF Cut
    <3> QED
      BY <1>1, <1>2, <3>1
  <2>2. Len(ranges) > 0 => ranges[1].first = 0
    BY <1>1 DEF Cut
  <2>3. \A k \in 1 .. Len(ranges) - 1 : ranges[k + 1].first = ranges[k].second + 1
    BY <1>1, <1>3
  <2>4. Len(ranges) = num_threads_ => ranges[num_threads_].second = num_elements_ - 1
    BY <1>1 DEF Cut, CutInv, Shape
  <2> QED
    BY <2>1, <2>2, <2>3, <2>4 DEF Tiling
<1>5. EnoughWork
  <2> SUFFICES ASSUME num_threads_ > 1, NEW k \in 1 .. Len(ranges)
               PROVE  ranges[k].second - ranges[k].first + 1 >= threshold_
    BY DEF EnoughWork
  <2>1. Cut(k).first \in Int /\ Cut(k).second \in Int
    BY <1>1 DEF Cut
  <2> QED
    BY <1>1, <1>2, <2>1, SMTT(30)
<1> QED
  BY <1>4, <1>5

(* The ranges Step returns are the cuts of the vector, at every moment. *)
THEOREM RangesAreCuts ==
    ASSUME Sane
    PROVE  GranulatorSpec => []CutInv
<1>1. GranulatorInit => CutInv
  BY Sane, InitCut
<1>2. CutInv /\ [GranulatorNext]_granulatorVars => CutInv'
  BY Sane, StepCut
<1> QED
  BY <1>1, <1>2, PTL DEF GranulatorSpec

(* Granulator::Step tiles the vector exactly, for every vector that is not   *)
(* empty and every machine with at most threshold_ cores.                    *)
THEOREM RangesTile ==
    ASSUME Sane
    PROVE  GranulatorSpec => []Tiling
<1>1. CutInv => Tiling
  BY Sane, CutsTile
<1>2. GranulatorSpec => []CutInv
  BY Sane, RangesAreCuts
<1> QED
  BY <1>1, <1>2, PTL

(* Under the same assumptions no thread that shares the work gets less than  *)
(* threshold_ elements.                                                      *)
THEOREM RangesGiveEnoughWork ==
    ASSUME Sane
    PROVE  GranulatorSpec => []EnoughWork
<1>1. CutInv => EnoughWork
  BY Sane, CutsTile
<1>2. GranulatorSpec => []CutInv
  BY Sane, RangesAreCuts
<1> QED
  BY <1>1, <1>2, PTL

-----------------------------------------------------------------------------
(* The workers.                                                              *)

Places == {"start", "loop", "done"}

(* Each half of the slot is half of some range: the vector has no index       *)
(* behind the second half, whichever range that comes from.                   *)
SlotInv ==
    /\ range_slot \in [first : Nat, second : Int]
    /\ range_slot.second < num_elements_

(* A worker for every range but the one main has not started a worker for. *)
SpawnInv ==
    /\ main \in {"step", "spawn", "join", "done"}
    /\ workPc \in Seq(Places)
    /\ idx \in Seq(Nat) /\ Len(idx) = Len(workPc)
    /\ main = "spawn" => step_ >= 1 /\ Len(workPc) = step_ - 1
    /\ main # "spawn" => Len(workPc) = step_
    /\ main \in {"join", "done"} => step_ = num_threads_

Finished == {w \in Workers : workPc[w] = "done"}

PartsInv ==
    /\ sum \in Seq(Nat) /\ Len(sum) = Len(workPc)
    /\ items_ \in Seq(Nat) /\ Len(items_) = Cardinality(Finished)
    /\ main = "done" => AllDone

SumInv == CutInv /\ SlotInv /\ SpawnInv /\ PartsInv

LEMMA CutInVector ==
    ASSUME Shape, NEW k \in 1 .. num_threads_
    PROVE  /\ Cut(k) \in [first : Nat, second : Int]
           /\ Cut(k).second < num_elements_
<1>1. /\ num_elements_ \in Nat /\ grain_ \in Nat /\ num_threads_ \in Nat
      /\ num_threads_ * grain_ <= num_elements_
  BY DEF Shape
<1>2. /\ k * grain_ \in Nat /\ (k - 1) * grain_ \in Nat /\ num_threads_ * grain_ \in Nat
      /\ k * grain_ <= num_threads_ * grain_
  BY <1>1, ProductMonotone
<1>3. Cut(k).second = IF k = num_threads_ THEN num_elements_ - 1 ELSE k * grain_ - 1
  BY DEF Cut
<1>4. Cut(k).second \in Int /\ Cut(k).second < num_elements_
  BY <1>1, <1>2, <1>3
<1>5. Cut(k) = [first |-> (k - 1) * grain_, second |-> Cut(k).second]
  BY DEF Cut
<1> QED
  BY <1>2, <1>4, <1>5

LEMMA InitSum == ASSUME Sane, SumInit PROVE SumInv
<1>1. CutInv
  BY InitCut DEF SumInit
<1>2. SlotInv
  <2>1. num_elements_ \in Nat /\ num_elements_ >= 1
    BY <1>1, GrainAssumption DEF SumInit, GranulatorInit, Sane, CutInv, Shape
  <2> QED
    BY <2>1 DEF SumInit, SlotInv
<1>3. workPc = <<>> /\ idx = <<>> /\ sum = <<>> /\ items_ = <<>> /\ step_ = 0 /\ main = "step"
  BY DEF SumInit, GranulatorInit
<1>4. SpawnInv
  BY <1>3 DEF SpawnInv
<1>5. Finished = {} /\ Cardinality(Finished) = 0
  BY <1>3, FS_EmptySet DEF Finished, Workers
<1>6. PartsInv
  BY <1>3, <1>5 DEF PartsInv
<1> QED
  BY <1>1, <1>2, <1>4, <1>6 DEF SumInv

(* Workers that have left a part do not leave another. *)
LEMMA FinishedFinite ==
    ASSUME SpawnInv
    PROVE  IsFiniteSet(Finished) /\ Cardinality(Finished) \in Nat
<1>1. Workers = 1 .. Len(workPc) /\ Len(workPc) \in Nat
  BY DEF Workers, SpawnInv
<1>2. IsFiniteSet(1 .. Len(workPc)) /\ Finished \in SUBSET (1 .. Len(workPc))
  BY <1>1, FS_Interval DEF Finished
<1> QED
  BY <1>2, FS_Subset, FS_CardinalityType

(* Main's turns: the slot gets half of the next cut, then the other half. *)
LEMMA StoreHalfStep ==
    ASSUME Sane, SumInv, NEW half \in {"first", "second"}, StoreHalf(half)
    PROVE  SumInv'
<1>1. CutInv'
  BY StepCut DEF SumInv, StoreHalf, GranulatorNext
<1>2. /\ NextRange = Cut(step_ + 1) /\ step_' = step_ + 1 /\ step_ + 1 \in 1 .. num_threads_
      /\ step_ \in Nat
  BY NextRangeIsCut DEF SumInv, StoreHalf, Step, CutInv, Shape
<1>3. NextRange \in [first : Nat, second : Int] /\ NextRange.second < num_elements_
  BY <1>2, CutInVector DEF SumInv, CutInv
<1>4. SlotInv'
  <2>1. CASE half = "first"
    BY <1>3, <2>1 DEF StoreHalf, Step, SumInv, SlotInv
  <2>2. CASE half = "second"
    BY <1>3, <2>2 DEF StoreHalf, Step, SumInv, SlotInv
  <2> QED
    BY <2>1, <2>2
<1>5. SpawnInv'
  BY <1>2 DEF StoreHalf, workerVars, SumInv, SpawnInv
<1>6. PartsInv'
  <2>1. Finished' = Finished
    BY DEF StoreHalf, workerVars, Finished, Workers
  <2> QED
    BY <2>1 DEF StoreHalf, workerVars, SumInv, PartsInv
<1> QED
  BY <1>1, <1>4, <1>5, <1>6 DEF SumInv

LEMMA SpawnStep == ASSUME SumInv, Spawn PROVE SumInv'
<1>1. CutInv' /\ num_elements_' = num_elements_ /\ step_' = step_
  BY DEF SumInv, CutInv, Shape, Cut, Spawn, granulatorVars
<1>2. step_ >= 1 /\ step_ \in 1 .. num_threads_ /\ range_slot' = Cut(step_)
  BY DEF SumInv, SpawnInv, CutInv, Shape, Spawn
<1>3. SlotInv'
  BY <1>1, <1>2, CutInVector DEF SumInv, CutInv, SlotInv
<1>4. /\ workPc \in Seq(Places) /\ idx \in Seq(Nat) /\ sum \in Seq(Nat)
      /\ Len(idx) = Len(workPc) /\ Len(sum) = Len(workPc) /\ Len(workPc) = step_ - 1 /\ step_ \in Nat
  BY <1>2 DEF SumInv, SpawnInv, PartsInv, CutInv, Shape, Spawn
<1>5. /\ workPc' \in Seq(Places) /\ Len(workPc') = Len(workPc) + 1 /\ Len(workPc) \in Nat
      /\ workPc'[Len(workPc) + 1] = "start" /\ \A w \in 1 .. Len(workPc) : workPc'[w] = workPc[w]
  BY <1>4 DEF Spawn, Places
<1>6. /\ idx' \in Seq(Nat) /\ Len(idx') = Len(workPc')
      /\ sum' \in Seq(Nat) /\ Len(sum') = Len(workPc')
  BY <1>4, <1>5 DEF Spawn
<1>7. SpawnInv'
  BY <1>1, <1>4, <1>5, <1>6 DEF SpawnInv, Spawn
<1>8. Finished' = Finished
  <2>1. Workers = 1 .. Len(workPc) /\ Workers' = 1 .. (Len(workPc) + 1)
    BY <1>4, <1>5 DEF Workers
  <2> QED
    BY <1>5, <2>1 DEF Finished
<1>9. PartsInv'
  BY <1>6, <1>8 DEF SumInv, PartsInv, Spawn
<1> QED
  BY <1>1, <1>3, <1>7, <1>9 DEF SumInv

(* The steps that leave the Granulator and the slot alone. *)
LEMMA RestSame ==
    ASSUME SumInv, UNCHANGED <<granulatorVars, range_slot>>
    PROVE  CutInv' /\ SlotInv' /\ num_threads_' = num_threads_ /\ step_' = step_
  BY DEF SumInv, CutInv, Shape, Cut, SlotInv, granulatorVars

LEMMA JoinStep == ASSUME SumInv, SpawnEnd \/ Join PROVE SumInv'
<1>1. CutInv' /\ SlotInv' /\ num_threads_' = num_threads_ /\ step_' = step_
  BY RestSame DEF SpawnEnd, Join
<1>2. UNCHANGED workerVars /\ Finished' = Finished
  BY DEF SpawnEnd, Join, workerVars, Finished, Workers
<1>3. SpawnInv'
  BY <1>1, <1>2 DEF SumInv, SpawnInv, SpawnEnd, Join, workerVars
<1>4. PartsInv'
  BY <1>2 DEF SumInv, PartsInv, SpawnEnd, Join, workerVars, AllDone, Workers
<1> QED
  BY <1>1, <1>3, <1>4 DEF SumInv

LEMMA WorkStep == ASSUME SumInv, NEW w \in Workers, Work(w) PROVE SumInv'
<1>0. /\ workPc \in Seq(Places) /\ idx \in Seq(Nat) /\ sum \in Seq(Nat) /\ items_ \in Seq(Nat)
      /\ Len(idx) = Len(workPc) /\ Len(sum) = Len(workPc) /\ Len(workPc) \in Nat
      /\ Workers = 1 .. Len(workPc) /\ range_slot.first \in Nat
      /\ Len(items_) = Cardinality(Finished)
  BY DEF SumInv, SpawnInv, PartsInv, SlotInv, Workers
<1>1. CutInv' /\ SlotInv' /\ num_threads_' = num_threads_ /\ step_' = step_ /\ main' = main
  BY RestSame DEF Work, WorkStart, WorkAdd, WorkEnd
<1>2. CASE WorkStart(w)
  <2>1. /\ workPc' \in Seq(Places) /\ Len(workPc') = Len(workPc) /\ idx' \in Seq(Nat) /\ Len(idx') = Len(workPc)
        /\ Workers' = Workers /\ workPc[w] = "start" /\ workPc' = [workPc EXCEPT ![w] = "loop"]
    BY <1>0, <1>2 DEF WorkStart, Workers, Places
  <2>2. Finished' = Finished /\ (main = "done" => ~AllDone)
    BY <1>0, <2>1 DEF Finished, AllDone
  <2> QED
    BY <1>0, <1>1, <1>2, <2>1, <2>2 DEF SumInv, SpawnInv, PartsInv, WorkStart
<1>3. CASE WorkAdd(w)
  <2>1. /\ idx' \in Seq(Nat) /\ Len(idx') = Len(workPc) /\ sum' \in Seq(Nat) /\ Len(sum') = Len(workPc)
        /\ workPc' = workPc
    BY <1>0, <1>3 DEF WorkAdd
  <2>2. Finished' = Finished /\ (AllDone' <=> AllDone)
    BY <2>1 DEF Finished, AllDone, Workers
  <2> QED
    BY <1>0, <1>1, <1>3, <2>1, <2>2 DEF SumInv, SpawnInv, PartsInv, WorkAdd
<1>4. CASE WorkEnd(w)
  <2>1. /\ workPc' \in Seq(Places) /\ Len(workPc') = Len(workPc) /\ Workers' = Workers
        /\ workPc[w] = "loop" /\ workPc' = [workPc EXCEPT ![w] = "done"]
    BY <1>0, <1>4 DEF WorkEnd, Workers, Places
  <2>2. Finished' = Finished \cup {w} /\ w \notin Finished /\ (main = "done" => ~AllDone)
    BY <1>0, <2>1 DEF Finished, AllDone
  <2>3. Cardinality(Finished') = Cardinality(Finished) + 1
    BY <2>2, FinishedFinite, FS_AddElement DEF SumInv
  <2>4. items_' \in Seq(Nat) /\ Len(items_') = Len(items_) + 1
    BY <1>0, <1>4 DEF WorkEnd
  <2> QED
    BY <1>0, <1>1, <1>4, <2>1, <2>2, <2>3, <2>4 DEF SumInv, SpawnInv, PartsInv, WorkEnd
<1> QED
  BY <1>2, <1>3, <1>4 DEF Work

LEMMA SumStep == ASSUME Sane, SumInv, [SumNext]_sumVars PROVE SumInv'
<1>1. CASE UNCHANGED sumVars
  <2>1. UNCHANGED <<granulatorVars, range_slot, workerVars, main>> /\ Finished' = Finished
    BY <1>1 DEF sumVars, workerVars, Finished, Workers
  <2>2. CutInv' /\ SlotInv' /\ num_threads_' = num_threads_ /\ step_' = step_
    BY <2>1, RestSame
  <2>3. SpawnInv' /\ PartsInv'
    BY <2>1, <2>2 DEF SumInv, SpawnInv, PartsInv, workerVars, AllDone, Workers
  <2> QED
    BY <2>2, <2>3 DEF SumInv
<1> QED
  BY <1>1, StoreHalfStep, SpawnStep, JoinStep, WorkStep DEF SumNext, MainStep

(* Every worker reads only elements of the vector, whichever range the slot   *)
(* it reads holds by then, and when main has joined them all there is one     *)
(* part for each.                                                             *)
THEOREM WorkersStayInBounds ==
    ASSUME Sane
    PROVE  SumSpec => []WorkersInBounds
<1>1. SumInit => SumInv
  BY Sane, InitSum
<1>2. SumInv /\ [SumNext]_sumVars => SumInv'
  BY Sane, SumStep
<1>3. SumInv => WorkersInBounds
  <2> SUFFICES ASSUME SumInv PROVE WorkersInBounds
    OBVIOUS
  <2>1. ASSUME NEW w \in Workers, InRange(w) PROVE idx[w] < num_elements_
    <3>1. idx[w] \in Nat /\ range_slot.second \in Int /\ num_elements_ \in Nat
      BY SMTT(30) DEF SumInv, SpawnInv, SlotInv, CutInv, Shape, Workers
    <3> QED
      BY <2>1, <3>1 DEF InRange, SumInv, SlotInv
  <2>2. ASSUME main = "done" PROVE Len(items_) = num_threads_
    <3>1. /\ Workers = 1 .. num_threads_ /\ num_threads_ \in Nat /\ num_threads_ >= 1
      BY <2>2 DEF SumInv, SpawnInv, Workers, CutInv, Shape
    <3>2. Finished = 1 .. num_threads_
      BY <2>2, <3>1 DEF SumInv, PartsInv, AllDone, Finished
    <3> QED
      BY <3>1, <3>2, FS_Interval DEF SumInv, PartsInv
  <2> QED
    BY <2>1, <2>2 DEF WorkersInBounds
<1> QED
  BY <1>1, <1>2, <1>3, PTL DEF SumSpec
=============================================================================
