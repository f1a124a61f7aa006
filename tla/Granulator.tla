----------------------------- MODULE Granulator -----------------------------
(***************************************************************************)
(* psy::common::Granulator (src/common/granulator.h, granulator.cc): cuts   *)
(* the indices 0 .. num_elements - 1 into one inclusive range per thread.   *)
(* Its numbers are size_t, so arithmetic is modulo W.                       *)
(***************************************************************************)
EXTENDS Integers, Sequences

CONSTANTS
    Sizes,      \* the values of num_elements
    Cores,      \* what std::thread::hardware_concurrency may return
    threshold_, \* 128 in the code
    W           \* 2^64 in the code

ASSUME GrainAssumption ==
    /\ W \in Nat \ {0}
    /\ Sizes \subseteq 0 .. W - 1
    /\ Cores \subseteq 1 .. W - 1
    /\ threshold_ \in 0 .. W - 1

VARIABLES
    num_elements_, num_threads_, grain_, step_,
    ranges      \* history variable: what Step returned since the last reset

granulatorVars == <<num_elements_, num_threads_, grain_, step_, ranges>>

Plus(a, b) == (a + b) % W
Minus(a, b) == IF a >= b THEN a - b ELSE a + W - b
Times(a, b) == (a * b) % W

FewElementsForOne(n, hw) == n <= threshold_

(* The constructor for n elements on a machine with hw cores. *)
FewElements(n, hw) == n <= Times(hw, threshold_)

NumThreads(n, hw) == IF FewElements(n, hw) THEN 1 ELSE hw
Grain(n, hw) == IF FewElements(n, hw) THEN n ELSE n \div hw

GranulatorInit ==
    \E n \in Sizes, hw \in Cores :
        /\ num_elements_ = n
        /\ num_threads_ = NumThreads(n, hw)
        /\ grain_ = Grain(n, hw)
        /\ step_ = 0 /\ ranges = <<>>

LastRangeByOne(to) == Plus(to, 1) >= num_elements_

(* Is the rest too small for a range of its own? *)
LastRange(to) == Plus(to, threshold_) >= num_elements_

RangeTo ==
    LET to == Minus(Times(Plus(step_, 1), grain_), 1)
    IN IF LastRange(to) THEN Minus(num_elements_, 1) ELSE to

NextRange == [first |-> Times(step_, grain_), second |-> RangeTo]

NextStep == Plus(step_, 1)

(* A caller asks for GetNumThreads() ranges, no more. *)
Step ==
    /\ step_ < num_threads_
    /\ ranges' = Append(ranges, NextRange)
    /\ step_' = NextStep
    /\ UNCHANGED <<num_elements_, num_threads_, grain_>>

ResetSteps ==
    /\ step_' = 0 /\ ranges' = <<>>
    /\ UNCHANGED <<num_elements_, num_threads_, grain_>>

GranulatorNext == Step \/ ResetSteps

GranulatorSpec == GranulatorInit /\ [][GranulatorNext]_granulatorVars

-----------------------------------------------------------------------------
(* Where the arithmetic never wraps and the threads are no more than the    *)
(* threshold; the empty vector is left out.                                 *)
Sane ==
    /\ threshold_ >= 1
    /\ \A n \in Sizes : n >= 1 /\ n + threshold_ < W
    /\ \A hw \in Cores : hw <= threshold_ /\ hw * threshold_ < W

TypeOK ==
    /\ num_elements_ \in 0 .. W - 1
    /\ num_threads_ \in 1 .. W - 1
    /\ grain_ \in 0 .. W - 1
    /\ step_ \in 0 .. W - 1
    /\ ranges \in Seq([first : 0 .. W - 1, second : 0 .. W - 1])

(* The ranges given out so far follow each other without gap or overlap from *)
(* index 0 on, none is empty or leaves the vector, and once every thread has *)
(* its range the last one ends at the last element.                          *)
Tiling ==
    /\ \A k \in 1 .. Len(ranges) :
          /\ ranges[k].first <= ranges[k].second
          /\ ranges[k].second < num_elements_
    /\ Len(ranges) > 0 => ranges[1].first = 0
    /\ \A k \in 1 .. Len(ranges) - 1 : ranges[k + 1].first = ranges[k].second + 1
    /\ Len(ranges) = num_threads_ => ranges[num_threads_].second = num_elements_ - 1

(* When the work is shared, every thread gets at least threshold_ elements,  *)
(* as the comment in the constructor wants it.                               *)
EnoughWork ==
    num_threads_ > 1 =>
        \A k \in 1 .. Len(ranges) : ranges[k].second - ranges[k].first + 1 >= threshold_
=============================================================================
