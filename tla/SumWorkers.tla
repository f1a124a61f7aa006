----------------------------- MODULE SumWorkers -----------------------------
(***************************************************************************)
(* misc/multi-vector.cc: main fills numbers with 1 .. n, starts one thread  *)
(* per range that the Granulator suggests, joins them and adds up the parts *)
(* they left in the MTVector.                                               *)
(*                                                                          *)
(* A worker gets std::ref(range), a reference to a variable local to one    *)
(* turn of the loop that starts the threads.  The variable of the next turn *)
(* lives in the same place of the stack, so all workers read range_slot,    *)
(* whatever it holds when they read it.  Its two halves are two stores, in  *)
(* either order.  After the last turn main only joins, so the slot keeps    *)
(* its value.  A compiler that reads rng.second once, before the loop, gives*)
(* what a worker gets here that finishes its loop at once.                  *)
(***************************************************************************)
EXTENDS Granulator

VARIABLES
    main,        \* "step", "spawn", "join", "done"
    range_slot,  \* the stack slot of range
    workPc,          \* each started worker: "start", "loop", "done"
    idx,         \* its i
    sum,         \* its sum
    items_,      \* the MTVector's items
    final_sum

workerVars == <<workPc, idx, sum, items_>>
sumVars == <<granulatorVars, main, range_slot, workerVars, final_sum>>

Workers == DOMAIN workPc

SumInit ==
    /\ GranulatorInit
    /\ main = "step" /\ range_slot = [first |-> 0, second |-> 0]
    /\ workPc = <<>> /\ idx = <<>> /\ sum = <<>>
    /\ items_ = <<>> /\ final_sum = 0

(* One turn of the loop: Step, of whose result one half is stored first, ... *)
StoreHalf(half) ==
    /\ main = "step" /\ Step
    /\ range_slot' = [range_slot EXCEPT ![half] = NextRange[half]]
    /\ main' = "spawn"
    /\ UNCHANGED <<workerVars, final_sum>>

(* ... and when both are, a thread that will look at range. *)
Spawn ==
    /\ main = "spawn"
    /\ range_slot' = ranges[Len(ranges)]
    /\ workPc' = Append(workPc, "start")
    /\ idx' = Append(idx, 0) /\ sum' = Append(sum, 0)
    /\ main' = "step"
    /\ UNCHANGED <<granulatorVars, items_, final_sum>>

SpawnEnd ==
    /\ main = "step" /\ step_ = num_threads_
    /\ main' = "join"
    /\ UNCHANGED <<granulatorVars, range_slot, workerVars, final_sum>>

(* Every thread is joined. *)
AllDone == \A w \in Workers : workPc[w] = "done"

(* The sum of the first k parts. *)
PartialTotal[k \in Nat] ==
    IF k = 0 THEN 0 ELSE PartialTotal[k - 1] + items_[k]

Join ==
    /\ main = "join" /\ AllDone
    /\ main' = "done"
    /\ final_sum' = PartialTotal[Len(items_)]
    /\ UNCHANGED <<granulatorVars, range_slot, workerVars>>

-----------------------------------------------------------------------------
(* work_fn, in worker w. *)

WorkStart(w) ==
    /\ workPc[w] = "start"
    /\ workPc' = [workPc EXCEPT ![w] = "loop"]
    /\ idx' = [idx EXCEPT ![w] = range_slot.first]
    /\ UNCHANGED <<granulatorVars, main, range_slot, sum, items_, final_sum>>

InRangePastEnd(w) == idx[w] <= range_slot.second + 1

(* i <= rng.second, read through the reference on every turn. *)
InRange(w) == idx[w] <= range_slot.second

WorkAdd(w) ==
    /\ workPc[w] = "loop" /\ InRange(w)
    /\ sum' = [sum EXCEPT ![w] = @ + idx[w] + 1]
    /\ idx' = [idx EXCEPT ![w] = @ + 1]
    /\ UNCHANGED <<granulatorVars, main, range_slot, workPc, items_, final_sum>>

(* MTVector::Add, under its lock. *)
WorkEnd(w) ==
    /\ workPc[w] = "loop" /\ ~InRange(w)
    /\ items_' = Append(items_, sum[w])
    /\ workPc' = [workPc EXCEPT ![w] = "done"]
    /\ UNCHANGED <<granulatorVars, main, range_slot, idx, sum, final_sum>>

MainStep == Spawn \/ SpawnEnd \/ Join \/ \E half \in {"first", "second"} : StoreHalf(half)
Work(w) == WorkStart(w) \/ WorkAdd(w) \/ WorkEnd(w)

SumNext == MainStep \/ \E w \in Workers : Work(w)

SumSpec == SumInit /\ [][SumNext]_sumVars

-----------------------------------------------------------------------------
Gauss(n) == (n * (n + 1)) \div 2

(* No worker ever reads past the vector, and each leaves exactly one part,   *)
(* even when it follows another worker's range half way through.             *)
WorkersInBounds ==
    /\ \A w \in Workers : workPc[w] = "loop" /\ InRange(w) => idx[w] < num_elements_
    /\ main = "done" => Len(items_) = num_threads_

(* What the comment calls n(first, last) / 2: the program prints the sum of  *)
(* 1 .. n.                                                                   *)
SumRight == main = "done" => final_sum = Gauss(num_elements_)
=============================================================================
