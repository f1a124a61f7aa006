-------------------------------- MODULE Lbos --------------------------------
(***************************************************************************)
(* misc/lbos.cc, exercises of "The Little Book of Semaphores": main runs    *)
(* one demonstration after the other, each with two threads a and b, as its *)
(* options say.  Semaphore::wait waits for a positive value and, unlike the *)
(* book's, takes nothing away.  multiplex is not modelled: main never calls *)
(* it.                                                                      *)
(***************************************************************************)
EXTENDS Naturals, Sequences, SequencesExt

CONSTANTS
    Rounds,   \* turns of each counting loop: 100 and 1000 in the code
    MaxArgs   \* bound on the number of options

ASSUME ConstantsAssumption == Rounds \in Nat \ {0} /\ MaxArgs \in Nat

Threads == {"a", "b"}
Letters == {"a", "b", "c"}

VARIABLES
    args,     \* the options getopt has not returned yet
    status,   \* "running", "success", "failure"
    demo,     \* the demonstration main is in, or "none"
    pc,       \* where each thread is in it
    left,     \* the turns its loop still has to make
    cnt,      \* its reading of counter
    counter,
    mm,       \* the owner of the mutex, or "free"
    sa, sb,   \* the values of the semaphores
    printed   \* the statements of the rendez-vous, in order

mainVars == <<args, status, demo>>
loopVars == <<left, cnt, counter, mm>>
semVars  == <<sa, sb, printed>>
vars == <<mainVars, pc, loopVars, semVars>>

Init ==
    /\ args \in UNION {[1 .. n -> Letters] : n \in 0 .. MaxArgs}
    /\ status = "running" /\ demo = "none"
    /\ pc = [t \in Threads |-> "end"] /\ left = [t \in Threads |-> 0]
    /\ cnt = [t \in Threads |-> 0] /\ counter = 0 /\ mm = "free"
    /\ sa = 0 /\ sb = 0 /\ printed = <<>>

-----------------------------------------------------------------------------
(* Main.                                                                     *)

StartCounters(name) ==
    /\ demo' = name
    /\ counter' = 0 /\ left' = [t \in Threads |-> Rounds]
    /\ pc' = [t \in Threads |-> "loop"]
    /\ UNCHANGED <<args, status, cnt, mm, semVars>>

OptionA ==
    /\ status = "running" /\ demo = "none" /\ args # <<>> /\ Head(args) = "a"
    /\ StartCounters("atomic")

OptionB ==
    /\ status = "running" /\ demo = "none" /\ args # <<>> /\ Head(args) = "b"
    /\ demo' = "rendez_vous"
    /\ sa' = 0 /\ sb' = 0 /\ printed' = <<>>
    /\ pc' = [t \in Threads |-> "statement 1"]
    /\ UNCHANGED <<args, status, loopVars>>

(* getopt knows no other letter: usage, and exit. *)
Usage ==
    /\ status = "running" /\ demo = "none" /\ args # <<>> /\ Head(args) \notin {"a", "b"}
    /\ status' = "failure"
    /\ UNCHANGED <<args, demo, pc, loopVars, semVars>>

Joined == \A t \in Threads : pc[t] = "end"

AtomicDone == demo = "atomic" /\ Joined /\ StartCounters("mutex")

OptionDone ==
    /\ demo \in {"mutex", "rendez_vous"} /\ Joined
    /\ demo' = "none" /\ args' = Tail(args)
    /\ UNCHANGED <<status, pc, loopVars, semVars>>

Return ==
    /\ status = "running" /\ demo = "none" /\ args = <<>>
    /\ status' = "success"
    /\ UNCHANGED <<args, demo, pc, loopVars, semVars>>

-----------------------------------------------------------------------------
(* section_1_5_2.                                                            *)

(* The place after one turn of the loop. *)
NextTurn(t) == IF left[t] = 1 THEN "end" ELSE "loop"

FetchAdd(t) ==
    /\ demo = "atomic" /\ pc[t] = "loop"
    /\ counter' = counter + 1
    /\ left' = [left EXCEPT ![t] = @ - 1]
    /\ pc' = [pc EXCEPT ![t] = NextTurn(t)]
    /\ UNCHANGED <<mainVars, cnt, mm, semVars>>

MayLockAlways == TRUE

MayLock == mm = "free"

AddLock(t) ==
    /\ demo = "mutex" /\ pc[t] = "loop" /\ MayLock
    /\ mm' = t
    /\ pc' = [pc EXCEPT ![t] = "load"]
    /\ UNCHANGED <<mainVars, left, cnt, counter, semVars>>

AddLoad(t) ==
    /\ pc[t] = "load"
    /\ cnt' = [cnt EXCEPT ![t] = counter]
    /\ pc' = [pc EXCEPT ![t] = "store"]
    /\ UNCHANGED <<mainVars, left, counter, mm, semVars>>

(* The store, the yield and the end of the lock_guard. *)
AddStore(t) ==
    /\ pc[t] = "store"
    /\ counter' = cnt[t] + 1
    /\ mm' = "free"
    /\ left' = [left EXCEPT ![t] = @ - 1]
    /\ pc' = [pc EXCEPT ![t] = NextTurn(t)]
    /\ UNCHANGED <<mainVars, cnt, semVars>>

-----------------------------------------------------------------------------
(* section_3_3.                                                              *)

NotNegative(value_) == value_ >= 0
MoreThanOne(value_) == value_ > 1

(* The test that ends Semaphore::wait. *)
Signalled(value_) == value_ > 0

Statement1(t) ==
    /\ pc[t] = "statement 1"
    /\ printed' = Append(printed, <<t, 1>>)
    /\ pc' = [pc EXCEPT ![t] = IF t = "a" THEN "signal" ELSE "wait"]
    /\ UNCHANGED <<mainVars, loopVars, sa, sb>>

Signal(t) ==
    /\ pc[t] = "signal"
    /\ IF t = "a" THEN sb' = sb + 1 /\ UNCHANGED sa
                  ELSE sa' = sa + 1 /\ UNCHANGED sb
    /\ pc' = [pc EXCEPT ![t] = IF t = "a" THEN "wait" ELSE "statement 2"]
    /\ UNCHANGED <<mainVars, loopVars, printed>>

Wait(t) ==
    /\ pc[t] = "wait" /\ Signalled(IF t = "a" THEN sa ELSE sb)
    /\ pc' = [pc EXCEPT ![t] = IF t = "a" THEN "statement 2" ELSE "signal"]
    /\ UNCHANGED <<mainVars, loopVars, semVars>>

Statement2(t) ==
    /\ pc[t] = "statement 2"
    /\ printed' = Append(printed, <<t, 2>>)
    /\ pc' = [pc EXCEPT ![t] = "end"]
    /\ UNCHANGED <<mainVars, loopVars, sa, sb>>

-----------------------------------------------------------------------------
Main == OptionA \/ OptionB \/ Usage \/ AtomicDone \/ OptionDone \/ Return
Thread(t) ==
    \/ FetchAdd(t) \/ AddLock(t) \/ AddLoad(t) \/ AddStore(t)
    \/ Statement1(t) \/ Signal(t) \/ Wait(t) \/ Statement2(t)

Next == Main \/ \E t \in Threads : Thread(t)

(* The OS schedules every thread.  A thread that finds the mutex taken in    *)
(* its turn finds it free when the other is done.                            *)
Spec == Init /\ [][Next]_vars /\ WF_vars(Main) /\ \A t \in Threads : WF_vars(Thread(t))

-----------------------------------------------------------------------------
(* What the two counting loops print is what the output says it should be,   *)
(* two threads times the turns of the loop: no increment is lost.            *)
CountersAddUp ==
    demo \in {"atomic", "mutex"} /\ Joined => counter = 2 * Rounds

Before(x, y) ==
    Contains(printed, y) =>
        \E j, k \in DOMAIN printed : printed[j] = x /\ printed[k] = y /\ j < k

(* The rendez-vous of the book: neither thread gets to its second statement  *)
(* before the other has made its first.                                      *)
ThreadsMeet == Before(<<"a", 1>>, <<"b", 2>>) /\ Before(<<"b", 1>>, <<"a", 2>>)

(* No demonstration hangs: main returns or exits, whatever its options. *)
MainEnds == <>(status # "running")
=============================================================================
