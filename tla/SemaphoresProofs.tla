--------------------------- MODULE SemaphoresProofs --------------------------
(***************************************************************************)
(* The semaphore of grimoire/shm.c for any processes and any number of      *)
(* starts and objects, and the threads of misc/lbos.cc for any number of    *)
(* turns and options.                                                       *)
(***************************************************************************)
EXTENDS Lbos, SharedMemory, FiniteSetTheorems, TLAPS

-----------------------------------------------------------------------------
(* grimoire/shm.c.                                                           *)

Places == {"off", "sem_init", "test", "sem_wait", "in", "reading", "post", "unlink"}

(* A process that runs has mapped an object. *)
ShmTypes ==
    /\ sem \in [Objects -> Nat] /\ late \in [Objects -> Nat]
    /\ named \in 0..MaxObjects /\ created \in 0..MaxObjects
    /\ at_ \in [Procs -> Places] /\ res \in [Procs -> 0..MaxObjects]
    /\ \A p \in Procs : at_[p] # "off" => res[p] \in Objects

Permits(o) == sem[o] + Cardinality(Inside(o)) <= 1 + late[o]

(* A process past sem_init will find a permit, or somebody who brings one, or  *)
(* was killed before he could.                                                *)
Past(o) == \E p \in Procs : at_[p] \in {"test", "sem_wait", "unlink"} /\ res[p] = o
NotStuck(o) == Past(o) => sem[o] > 0 \/ Inside(o) # {} \/ o \in abandoned

ShmInv == ShmTypes /\ \A o \in Objects : Permits(o) /\ NotStuck(o)

LEMMA InsideFinite ==
    ASSUME NEW o
    PROVE  IsFiniteSet(Inside(o)) /\ Cardinality(Inside(o)) \in Nat
  BY SharedMemoryAssumption, FS_Subset, FS_CardinalityType DEF Inside

LEMMA ShmTypesStep == ASSUME ShmTypes, [ShmNext]_shmVars PROVE ShmTypes'
<1> USE DEF ShmTypes, Places, Goto, objectVars, shmVars
<1>1. ASSUME NEW p \in Procs, ShmOpen(p) PROVE ShmTypes'
  <2>1. named' \in 0..MaxObjects /\ created' \in 0..MaxObjects /\ named' # 0
    BY <1>1, SharedMemoryAssumption DEF ShmOpen
  <2>2. named' \in Objects
    BY <2>1, SharedMemoryAssumption DEF Objects
  <2> QED
    BY <1>1, <2>1, <2>2 DEF ShmOpen
<1>2. ASSUME NEW p \in Procs, SemInit(p) PROVE ShmTypes'
  <2>1. sem' \in [Objects -> Nat]
    BY <1>2 DEF SemInit, InitialValue
  <2>2. late' \in [Objects -> Nat]
    BY <1>2 DEF SemInit
  <2> QED
    BY <1>2, <2>1, <2>2 DEF SemInit
<1>3. ASSUME NEW p \in Procs, Test(p) PROVE ShmTypes'
  BY <1>3 DEF Test
<1>4. ASSUME NEW p \in Procs, SemWait(p) PROVE ShmTypes'
  <2>1. sem' \in [Objects -> Nat]
    BY <1>4 DEF SemWait
  <2> QED
    BY <1>4, <2>1 DEF SemWait
<1>5. ASSUME NEW p \in Procs, FgetsBegin(p) \/ FgetsEnd(p) \/ FgetsNothing(p) PROVE ShmTypes'
  BY <1>5 DEF FgetsBegin, FgetsEnd, FgetsNothing
<1>6. ASSUME NEW p \in Procs, SemPost(p) PROVE ShmTypes'
  <2>1. sem' \in [Objects -> Nat]
    BY <1>6 DEF SemPost
  <2> QED
    BY <1>6, <2>1 DEF SemPost
<1>7. ASSUME NEW p \in Procs, ShmUnlink(p) PROVE ShmTypes'
  BY <1>7, SharedMemoryAssumption DEF ShmUnlink
<1>8. ASSUME NEW p \in Procs, Interrupt(p) PROVE ShmTypes'
  BY <1>8 DEF Interrupt
<1>9. CASE UNCHANGED shmVars
  BY <1>9
<1> QED
  BY <1>1, <1>2, <1>3, <1>4, <1>5, <1>6, <1>7, <1>8, <1>9 DEF ShmNext

LEMMA ShmStep ==
    ASSUME ShmInv, [ShmNext]_shmVars, NEW o \in Objects
    PROVE  Permits(o)' /\ NotStuck(o)'
<1>0. /\ ShmTypes /\ ShmTypes' /\ Permits(o) /\ NotStuck(o)
      /\ IsFiniteSet(Inside(o)) /\ Cardinality(Inside(o)) \in Nat
      /\ sem[o] \in Nat /\ late[o] \in Nat
  BY ShmTypesStep, InsideFinite DEF ShmInv, ShmTypes
<1> USE DEF Objects, Goto, objectVars, shmVars, Past
(* Who is inside is what counts. *)
<1>1. ASSUME Inside(o)' = Inside(o), sem'[o] = sem[o], late'[o] = late[o],
             abandoned' = abandoned, Past(o)' => Past(o)
      PROVE  Permits(o)' /\ NotStuck(o)'
  BY <1>0, <1>1 DEF Permits, NotStuck
<1>2. ASSUME NEW p \in Procs, ShmOpen(p) PROVE Permits(o)' /\ NotStuck(o)'
  <2>1. /\ Inside(o)' = Inside(o) /\ sem'[o] = sem[o] /\ late'[o] = late[o]
        /\ abandoned' = abandoned /\ (Past(o)' => Past(o))
    BY <1>0, <1>2 DEF ShmOpen, Inside, ShmTypes
  <2> QED
    BY <1>1, <2>1
<1>3. ASSUME NEW p \in Procs, SemInit(p) PROVE Permits(o)' /\ NotStuck(o)'
  <2>1. Inside(o)' = Inside(o)
    BY <1>0, <1>3 DEF SemInit, Inside, ShmTypes
  <2>2. CASE res[p] = o
    <3>1. sem'[o] = 1 /\ (IF Inside(o) = {} THEN late'[o] = late[o] ELSE late'[o] = late[o] + 1)
      BY <1>0, <1>3, <2>2 DEF SemInit, InitialValue, ShmTypes
    <3>2. Inside(o) = {} => Cardinality(Inside(o)) = 0
      BY FS_EmptySet
    <3> QED
      BY <1>0, <2>1, <3>1, <3>2 DEF Permits, NotStuck
  <2>3. CASE res[p] # o
    <3>1. /\ sem'[o] = sem[o] /\ late'[o] = late[o] /\ (Past(o)' => Past(o))
          /\ (o \in abandoned' <=> o \in abandoned)
      BY <1>0, <1>3, <2>3 DEF SemInit, ShmTypes
    <3> QED
      BY <1>0, <2>1, <3>1 DEF Permits, NotStuck
  <2> QED
    BY <2>2, <2>3
<1>4. ASSUME NEW p \in Procs, Test(p) PROVE Permits(o)' /\ NotStuck(o)'
  <2>1. /\ Inside(o)' = Inside(o) /\ sem'[o] = sem[o] /\ late'[o] = late[o]
        /\ abandoned' = abandoned /\ (Past(o)' => Past(o))
    BY <1>0, <1>4 DEF Test, Inside, ShmTypes
  <2> QED
    BY <1>1, <2>1
<1>5. ASSUME NEW p \in Procs, SemWait(p) PROVE Permits(o)' /\ NotStuck(o)'
  <2>1. CASE res[p] = o
    <3>1. /\ Inside(o)' = Inside(o) \cup {p} /\ p \notin Inside(o)
          /\ sem'[o] = sem[o] - 1 /\ late'[o] = late[o]
      BY <1>0, <1>5, <2>1 DEF SemWait, Inside, ShmTypes
    <3>2. Cardinality(Inside(o)') = Cardinality(Inside(o)) + 1
      BY <1>0, <3>1, FS_AddElement
    <3> QED
      BY <1>0, <3>1, <3>2 DEF Permits, NotStuck
  <2>2. CASE res[p] # o
    <3>1. /\ Inside(o)' = Inside(o) /\ sem'[o] = sem[o] /\ late'[o] = late[o]
          /\ abandoned' = abandoned /\ (Past(o)' => Past(o))
      BY <1>0, <1>5, <2>2 DEF SemWait, Inside, ShmTypes
    <3> QED
      BY <1>1, <3>1
  <2> QED
    BY <2>1, <2>2
<1>6. ASSUME NEW p \in Procs, FgetsBegin(p) \/ FgetsEnd(p) \/ FgetsNothing(p)
      PROVE  Permits(o)' /\ NotStuck(o)'
  <2>1. /\ Inside(o)' = Inside(o) /\ sem'[o] = sem[o] /\ late'[o] = late[o]
        /\ abandoned' = abandoned /\ (Past(o)' => Past(o))
    BY <1>0, <1>6 DEF FgetsBegin, FgetsEnd, FgetsNothing, Inside, ShmTypes
  <2> QED
    BY <1>1, <2>1
<1>7. ASSUME NEW p \in Procs, SemPost(p) PROVE Permits(o)' /\ NotStuck(o)'
  <2>1. CASE res[p] = o
    <3>1. /\ Inside(o)' = Inside(o) \ {p} /\ p \in Inside(o)
          /\ sem'[o] = sem[o] + 1 /\ late'[o] = late[o]
      BY <1>0, <1>7, <2>1 DEF SemPost, Inside, ShmTypes
    <3>2. Cardinality(Inside(o)') = Cardinality(Inside(o)) - 1
      BY <1>0, <3>1, FS_RemoveElement
    <3> QED
      BY <1>0, <3>1, <3>2 DEF Permits, NotStuck
  <2>2. CASE res[p] # o
    <3>1. /\ Inside(o)' = Inside(o) /\ sem'[o] = sem[o] /\ late'[o] = late[o]
          /\ abandoned' = abandoned /\ (Past(o)' => Past(o))
      BY <1>0, <1>7, <2>2 DEF SemPost, Inside, ShmTypes
    <3> QED
      BY <1>1, <3>1
  <2> QED
    BY <2>1, <2>2
<1>8. ASSUME NEW p \in Procs, ShmUnlink(p) PROVE Permits(o)' /\ NotStuck(o)'
  <2>1. /\ Inside(o)' = Inside(o) /\ sem'[o] = sem[o] /\ late'[o] = late[o]
        /\ abandoned' = abandoned /\ (Past(o)' => Past(o))
    BY <1>0, <1>8 DEF ShmUnlink, Inside, ShmTypes
  <2> QED
    BY <1>1, <2>1
(* A kill outside changes nothing; inside, the permit is gone for good. *)
<1>9. ASSUME NEW p \in Procs, Interrupt(p) PROVE Permits(o)' /\ NotStuck(o)'
  <2>1. CASE p \in Inside(o)
    <3>1. /\ Inside(o)' = Inside(o) \ {p} /\ o \in abandoned'
          /\ sem'[o] = sem[o] /\ late'[o] = late[o]
      BY <1>0, <1>9, <2>1 DEF Interrupt, Inside, ShmTypes
    <3>2. Cardinality(Inside(o)') = Cardinality(Inside(o)) - 1
      BY <1>0, <2>1, <3>1, FS_RemoveElement
    <3> QED
      BY <1>0, <3>1, <3>2 DEF Permits, NotStuck
  <2>2. CASE p \notin Inside(o)
    <3>1. /\ Inside(o)' = Inside(o) /\ sem'[o] = sem[o] /\ late'[o] = late[o]
          /\ (o \in abandoned => o \in abandoned') /\ (Past(o)' => Past(o))
      BY <1>0, <1>9, <2>2 DEF Interrupt, Inside, ShmTypes
    <3> QED
      BY <1>0, <3>1 DEF Permits, NotStuck
  <2> QED
    BY <2>1, <2>2
<1>10. CASE UNCHANGED shmVars
  <2>1. /\ Inside(o)' = Inside(o) /\ sem'[o] = sem[o] /\ late'[o] = late[o]
        /\ abandoned' = abandoned /\ (Past(o)' => Past(o))
    BY <1>10 DEF Inside
  <2> QED
    BY <1>1, <2>1
<1> QED
  BY <1>2, <1>3, <1>4, <1>5, <1>6, <1>7, <1>8, <1>9, <1>10 DEF ShmNext

(* The semaphore lets one process into the buffer, and one more for each time  *)
(* sem_init ran over the head of somebody inside; and nobody waits on a        *)
(* semaphore at zero unless somebody is inside or was killed there.            *)
THEOREM SemaphorePermits == ShmSpec => []PermitsAddUp
<1>1. ShmInit => ShmInv
  <2> SUFFICES ASSUME ShmInit PROVE ShmInv
    OBVIOUS
  <2>1. ShmTypes
    <3>1. 0 \in 0..MaxObjects
      BY SharedMemoryAssumption
    <3> QED
      BY <3>1 DEF ShmInit, ShmTypes, Places
  <2>2. ASSUME NEW o \in Objects PROVE Permits(o) /\ NotStuck(o)
    <3>1. Inside(o) = {} /\ Cardinality(Inside(o)) = 0 /\ ~Past(o)
      BY FS_EmptySet DEF ShmInit, Inside, Past
    <3>2. sem[o] = 0 /\ late[o] = 0
      BY DEF ShmInit
    <3> QED
      BY <3>1, <3>2 DEF Permits, NotStuck
  <2> QED
    BY <2>1, <2>2 DEF ShmInv
<1>2. ShmInv /\ [ShmNext]_shmVars => ShmInv'
  <2> SUFFICES ASSUME ShmInv, [ShmNext]_shmVars PROVE ShmInv'
    OBVIOUS
  <2>1. ShmTypes'
    BY ShmTypesStep DEF ShmInv
  <2>2. \A o \in Objects : Permits(o)' /\ NotStuck(o)'
    BY ShmStep
  <2> QED
    BY <2>1, <2>2 DEF ShmInv, Objects
<1>3. ShmInv => PermitsAddUp
  BY DEF ShmInv, ShmTypes, Permits, NotStuck, Past, PermitsAddUp
<1> QED
  BY <1>1, <1>2, <1>3, PTL DEF ShmSpec

-----------------------------------------------------------------------------
(* misc/lbos.cc.                                                             *)

LoopPlaces == {"loop", "load", "store", "end"}
LbosPlaces == {"loop", "load", "store", "statement 1", "signal", "wait", "statement 2", "end"}
MeetPlaces == {"statement 1", "signal", "wait", "statement 2", "end"}
Statements == Threads \X {1, 2}

LoopTypes ==
    /\ demo \in {"none", "atomic", "mutex", "rendez_vous"}
    /\ pc \in [Threads -> LbosPlaces]
    /\ left \in [Threads -> Int] /\ cnt \in [Threads -> Nat] /\ counter \in Nat
    /\ mm \in Threads \cup {"free"}

MeetTypes == sa \in Nat /\ sb \in Nat /\ printed \in Seq(Statements)

(* The places each demonstration has, and the turns its loops still owe to   *)
(* the counter: the mutex keeps what a thread read of it the last value.     *)
PlacesInv ==
    /\ demo = "none" => Joined
    /\ demo = "atomic" => \A t \in Threads : pc[t] \in {"loop", "end"}
    /\ demo = "mutex" => \A t \in Threads : pc[t] \in LoopPlaces
    /\ demo = "rendez_vous" => \A t \in Threads : pc[t] \in MeetPlaces
    /\ \A t \in Threads : mm = t <=> pc[t] \in {"load", "store"}

TurnsInv ==
    /\ \A t \in Threads : pc[t] = "store" => cnt[t] = counter
    /\ demo \in {"atomic", "mutex"} =>
        /\ counter + left["a"] + left["b"] = 2 * Rounds
        /\ \A t \in Threads : pc[t] = "end" <=> left[t] = 0

CountInv == LoopTypes /\ PlacesInv /\ TurnsInv

LEMMA TwoThreads ==
    "a" \in Threads /\ "b" \in Threads /\ "free" \notin Threads
    /\ \A t \in Threads : t = "a" \/ t = "b"
  BY DEF Threads

LEMMA LoopTypesStep == ASSUME LoopTypes, [Next]_vars PROVE LoopTypes'
<1> USE DEF LoopTypes, mainVars, loopVars, semVars
<1>1. ASSUME NEW name \in {"atomic", "mutex"}, StartCounters(name) PROVE LoopTypes'
  <2>1. left' \in [Threads -> Int] /\ counter' \in Nat /\ cnt' \in [Threads -> Nat]
    BY <1>1, ConstantsAssumption DEF StartCounters
  <2> QED
    BY <1>1, <2>1 DEF StartCounters, LbosPlaces
<1>2. CASE OptionB
  BY <1>2 DEF OptionB, LbosPlaces
<1>3. CASE Usage \/ Return \/ OptionDone
  BY <1>3 DEF Usage, Return, OptionDone
<1>4. ASSUME NEW t \in Threads, FetchAdd(t) PROVE LoopTypes'
  <2>1. left' \in [Threads -> Int] /\ counter' \in Nat /\ cnt' \in [Threads -> Nat]
    BY <1>4 DEF FetchAdd
  <2>2. pc' \in [Threads -> LbosPlaces]
    BY <1>4 DEF FetchAdd, NextTurn, LbosPlaces
  <2> QED
    BY <1>4, <2>1, <2>2 DEF FetchAdd
<1>5. ASSUME NEW t \in Threads, AddLock(t) \/ AddLoad(t) PROVE LoopTypes'
  BY <1>5 DEF AddLock, AddLoad, LbosPlaces
<1>6. ASSUME NEW t \in Threads, AddStore(t) PROVE LoopTypes'
  <2>1. left' \in [Threads -> Int] /\ counter' \in Nat /\ cnt' \in [Threads -> Nat]
    BY <1>6 DEF AddStore
  <2>2. pc' \in [Threads -> LbosPlaces]
    BY <1>6 DEF AddStore, NextTurn, LbosPlaces
  <2> QED
    BY <1>6, <2>1, <2>2 DEF AddStore
<1>7. ASSUME NEW t \in Threads, Statement1(t) \/ Statement2(t) \/ Signal(t) \/ Wait(t)
      PROVE  LoopTypes'
  BY <1>7 DEF Statement1, Statement2, Signal, Wait, LbosPlaces
<1>8. CASE UNCHANGED vars
  BY <1>8 DEF vars
<1> QED
  BY <1>1, <1>2, <1>3, <1>4, <1>5, <1>6, <1>7, <1>8
     DEF Next, Main, Thread, OptionA, AtomicDone

LEMMA PlacesStep == ASSUME LoopTypes, PlacesInv, [Next]_vars PROVE PlacesInv'
<1>0. pc \in [Threads -> LbosPlaces]
  BY DEF LoopTypes
<1> USE <1>0, TwoThreads DEF PlacesInv, Joined, LoopPlaces, MeetPlaces, LbosPlaces, mainVars, loopVars
<1>1. CASE OptionA \/ AtomicDone
  BY <1>1 DEF OptionA, AtomicDone, StartCounters
<1>2. CASE OptionB
  BY <1>2 DEF OptionB
<1>3. CASE Usage \/ Return \/ OptionDone
  BY <1>3 DEF Usage, Return, OptionDone
<1>4. ASSUME NEW t \in Threads, FetchAdd(t) PROVE PlacesInv'
  BY <1>4 DEF FetchAdd, NextTurn
<1>5. ASSUME NEW t \in Threads, AddLock(t) PROVE PlacesInv'
  BY <1>5 DEF AddLock, MayLock
<1>6. ASSUME NEW t \in Threads, AddLoad(t) PROVE PlacesInv'
  BY <1>6 DEF AddLoad
<1>7. ASSUME NEW t \in Threads, AddStore(t) PROVE PlacesInv'
  BY <1>7 DEF AddStore, NextTurn
<1>8. ASSUME NEW t \in Threads, Statement1(t) \/ Statement2(t) \/ Signal(t) \/ Wait(t)
      PROVE  PlacesInv'
  BY <1>8 DEF Statement1, Statement2, Signal, Wait
<1>9. CASE UNCHANGED vars
  BY <1>9 DEF vars
<1> QED
  BY <1>1, <1>2, <1>3, <1>4, <1>5, <1>6, <1>7, <1>8, <1>9 DEF Next, Main, Thread

LEMMA TurnsStep == ASSUME CountInv, [Next]_vars PROVE TurnsInv'
<1>0. /\ DOMAIN pc = Threads /\ left \in [Threads -> Int]
      /\ cnt \in [Threads -> Nat] /\ counter \in Nat /\ left["a"] \in Int /\ left["b"] \in Int
      /\ PlacesInv /\ TurnsInv
  BY TwoThreads DEF CountInv, LoopTypes
<1> USE <1>0, TwoThreads DEF TurnsInv, mainVars, loopVars
<1>1. CASE OptionA \/ AtomicDone
  <2>1. /\ pc' = [t \in Threads |-> "loop"]
        /\ counter' = 0 /\ left' = [t \in Threads |-> Rounds]
    BY <1>1 DEF OptionA, AtomicDone, StartCounters
  <2>2. counter' + left'["a"] + left'["b"] = 2 * Rounds /\ \A t \in Threads : left'[t] # 0
    BY <2>1, ConstantsAssumption
  <2> QED
    BY <2>1, <2>2
<1>2. CASE OptionB
  BY <1>2 DEF OptionB
<1>3. CASE Usage \/ Return \/ OptionDone
  BY <1>3 DEF Usage, Return, OptionDone
(* Both ways of adding one pay for the turn. *)
<1>4. ASSUME NEW t \in Threads, counter' = counter + 1, left' = [left EXCEPT ![t] = @ - 1],
             pc' = [pc EXCEPT ![t] = NextTurn(t)], demo' = demo,
             pc[t] # "end"
      PROVE  demo' \in {"atomic", "mutex"} =>
               /\ counter' + left'["a"] + left'["b"] = 2 * Rounds
               /\ \A u \in Threads : pc'[u] = "end" <=> left'[u] = 0
  <2> SUFFICES ASSUME demo \in {"atomic", "mutex"}
               PROVE  /\ counter' + left'["a"] + left'["b"] = 2 * Rounds
                      /\ \A u \in Threads : pc'[u] = "end" <=> left'[u] = 0
    BY <1>4
  <2>1. left'[t] = left[t] - 1 /\ \A u \in Threads \ {t} : left'[u] = left[u] /\ pc'[u] = pc[u]
    BY <1>4
  <2>2. counter' + left'["a"] + left'["b"] = 2 * Rounds
    BY <1>4, <2>1, ConstantsAssumption
  <2>3. pc'[t] = "end" <=> left'[t] = 0
    BY <1>4, <2>1 DEF NextTurn
  <2> QED
    BY <2>1, <2>2, <2>3
<1>5. ASSUME NEW t \in Threads, FetchAdd(t) PROVE TurnsInv'
  <2>1. \A u \in Threads : pc'[u] # "store"
    BY <1>5 DEF FetchAdd, NextTurn, PlacesInv
  <2> QED
    BY <1>4, <1>5, <2>1 DEF FetchAdd
<1>6. ASSUME NEW t \in Threads, AddLock(t) PROVE TurnsInv'
  BY <1>6 DEF AddLock
<1>7. ASSUME NEW t \in Threads, AddLoad(t) PROVE TurnsInv'
  BY <1>7 DEF AddLoad
<1>8. ASSUME NEW t \in Threads, AddStore(t) PROVE TurnsInv'
  <2>1. \A u \in Threads : pc'[u] # "store"
    BY <1>8 DEF AddStore, NextTurn, PlacesInv
  <2> QED
    BY <1>4, <1>8, <2>1 DEF AddStore
<1>9. ASSUME NEW t \in Threads, Statement1(t) \/ Statement2(t) \/ Signal(t) \/ Wait(t)
      PROVE  TurnsInv'
  <2>1. pc[t] \notin LoopPlaces
    BY <1>9 DEF Statement1, Statement2, Signal, Wait, LoopPlaces
  <2>2. demo \notin {"atomic", "mutex"}
    BY <2>1 DEF PlacesInv, LoopPlaces
  <2> QED
    BY <1>9, <2>2 DEF Statement1, Statement2, Signal, Wait
<1>10. CASE UNCHANGED vars
  BY <1>10 DEF vars
<1> QED
  BY <1>1, <1>2, <1>3, <1>5, <1>6, <1>7, <1>8, <1>9, <1>10 DEF Next, Main, Thread

LEMMA CountStep == ASSUME CountInv, [Next]_vars PROVE CountInv'
  BY LoopTypesStep, PlacesStep, TurnsStep DEF CountInv

LEMMA CountInit == Init => CountInv
  BY DEF Init, CountInv, LoopTypes, PlacesInv, TurnsInv, Joined, Threads, LbosPlaces

(* No increment is lost, by fetch_add or under the mutex: when both threads   *)
(* have been joined the counter is what the output says it should be.         *)
THEOREM NoIncrementLost == Spec => []CountersAddUp
<1>1. Init => CountInv
  BY CountInit
<1>2. CountInv /\ [Next]_vars => CountInv'
  BY CountStep
<1>3. CountInv => CountersAddUp
  BY ConstantsAssumption DEF CountInv, LoopTypes, TurnsInv, CountersAddUp, Joined, Threads
<1> QED
  BY <1>1, <1>2, <1>3, PTL DEF Spec

-----------------------------------------------------------------------------
(* The rendez-vous.  A semaphore above zero, and a thread past its wait, show *)
(* that the other thread has made its first statement.                        *)
Said(x) == \E j \in DOMAIN printed : printed[j] = x

MeetRest ==
    /\ pc["a"] \in {"signal", "wait", "statement 2"} \/ sb > 0 => Said(<<"a", 1>>)
    /\ pc["b"] \in {"signal", "statement 2"} => Said(<<"a", 1>>)
    /\ pc["b"] \in {"signal", "wait", "statement 2"} \/ sa > 0 => Said(<<"b", 1>>)
    /\ pc["a"] = "statement 2" => Said(<<"b", 1>>)
    /\ ThreadsMeet

MeetInv == LoopTypes /\ MeetTypes /\ MeetRest

LEMMA SaidMore ==
    ASSUME printed \in Seq(Statements), NEW e \in Statements, printed' = Append(printed, e)
    PROVE  /\ Said(e)'
           /\ \A x \in Statements : Said(x) => Said(x)'
           /\ \A x, y \in Statements : Before(x, y) /\ (e = y => Said(x)) => Before(x, y)'
<1>1. /\ DOMAIN printed = 1..Len(printed) /\ Len(printed) \in Nat
      /\ DOMAIN printed' = 1..(Len(printed) + 1) /\ printed'[Len(printed) + 1] = e
      /\ \A j \in DOMAIN printed : printed'[j] = printed[j]
      /\ Len(printed') = Len(printed) + 1
  OBVIOUS
<1>2. Said(e)'
  BY <1>1 DEF Said
<1>3. ASSUME NEW x \in Statements, Said(x) PROVE Said(x)'
  BY <1>1, <1>3 DEF Said
<1>4. ASSUME NEW x \in Statements, NEW y \in Statements, Before(x, y), e = y => Said(x),
             Contains(printed', y)
      PROVE  \E j, k \in DOMAIN printed' : printed'[j] = x /\ printed'[k] = y /\ j < k
  <2>1. CASE e = y
    <3>1. PICK j \in DOMAIN printed : printed[j] = x
      BY <1>4, <2>1 DEF Said
    <3> QED
      BY <1>1, <2>1, <3>1
  <2>2. CASE e # y
    <3>1. Contains(printed, y)
      BY <1>1, <1>4, <2>2 DEF Contains
    <3>2. PICK j, k \in DOMAIN printed : printed[j] = x /\ printed[k] = y /\ j < k
      BY <1>4, <3>1 DEF Before
    <3> QED
      BY <1>1, <3>2
  <2> QED
    BY <2>1, <2>2
<1> QED
  BY <1>2, <1>3, <1>4 DEF Before

LEMMA AppendType ==
    ASSUME NEW S, NEW s \in Seq(S), NEW e \in S
    PROVE  Append(s, e) \in Seq(S)
  OBVIOUS

LEMMA NotSignalled == ~(0 > 0)
  OBVIOUS

LEMMA NothingSaid == ASSUME printed' = <<>> PROVE ThreadsMeet'
  BY DEF ThreadsMeet, Before, Contains

LEMMA FirstIsNotSecond == \A t, u \in Threads : <<t, 1>> # <<u, 2>>
  OBVIOUS

LEMMA MeetTypesStep == ASSUME MeetTypes, [Next]_vars PROVE MeetTypes'
<1>0. sa \in Nat /\ sb \in Nat /\ printed \in Seq(Statements)
  BY DEF MeetTypes
<1> USE DEF mainVars, loopVars, semVars
<1>1. CASE OptionB
  <2>1. printed' = <<>> /\ sa' = 0 /\ sb' = 0
    BY <1>1 DEF OptionB
  <2>2. printed' \in Seq(Statements)
    BY <2>1
  <2>3. sa' \in Nat /\ sb' \in Nat
    BY <2>1
  <2> QED
    BY <2>2, <2>3 DEF MeetTypes
<1>2. ASSUME NEW t \in Threads, Statement1(t) \/ Statement2(t) PROVE MeetTypes'
  <2>1. \A k \in {1, 2} : <<t, k>> \in Statements
    BY DEF Statements
  <2>2. PICK k \in {1, 2} : printed' = Append(printed, <<t, k>>)
    BY <1>2 DEF Statement1, Statement2
  <2>3. printed' \in Seq(Statements)
    BY <1>0, <2>1, <2>2, AppendType
  <2>4. sa' = sa /\ sb' = sb
    BY <1>2 DEF Statement1, Statement2
  <2> QED
    BY <1>0, <2>3, <2>4 DEF MeetTypes
<1>3. ASSUME NEW t \in Threads, Signal(t) PROVE MeetTypes'
  <2>1. (sa' = sa \/ sa' = sa + 1) /\ (sb' = sb \/ sb' = sb + 1)
    BY <1>3, Zenon DEF Signal
  <2>2. sa' \in Nat /\ sb' \in Nat
    BY <1>0, <2>1
  <2>3. printed' = printed
    BY <1>3 DEF Signal
  <2> QED
    BY <1>0, <2>2, <2>3 DEF MeetTypes
<1>4. ASSUME OptionA \/ AtomicDone \/ Usage \/ OptionDone \/ Return \/ UNCHANGED vars
      PROVE  UNCHANGED semVars
  BY <1>4 DEF OptionA, AtomicDone, StartCounters, Usage, OptionDone, Return, vars
<1>5. ASSUME NEW t \in Threads, FetchAdd(t) \/ AddLock(t) \/ AddLoad(t) \/ AddStore(t) \/ Wait(t)
      PROVE  UNCHANGED semVars
  BY <1>5 DEF FetchAdd, AddLock, AddLoad, AddStore, Wait
<1>6. ASSUME UNCHANGED semVars PROVE MeetTypes'
  BY <1>0, <1>6 DEF MeetTypes
<1> QED
  BY <1>1, <1>2, <1>3, <1>4, <1>5, <1>6 DEF Next, Main, Thread

LEMMA MeetStep == ASSUME MeetInv, [Next]_vars PROVE MeetInv'
<1>0. LoopTypes' /\ MeetTypes' /\ MeetRest /\ DOMAIN pc = Threads /\ sa \in Nat /\ sb \in Nat
  BY LoopTypesStep, MeetTypesStep DEF MeetInv, LoopTypes, MeetTypes
<1>10. printed \in Seq(Statements)
  BY DEF MeetInv, MeetTypes
<1>11. \A t \in Threads : <<t, 1>> \in Statements /\ <<t, 2>> \in Statements
  BY DEF Statements
<1> SUFFICES MeetRest'
  BY <1>0 DEF MeetInv
<1> USE <1>0, TwoThreads DEF MeetRest, mainVars, loopVars, semVars
(* The steps that make no statement and signal nothing. *)
<1>1. ASSUME UNCHANGED semVars, \A x \in Statements : Said(x)' <=> Said(x),
             pc'["a"] \in {"signal", "wait", "statement 2"} =>
                 /\ pc["a"] \in {"signal", "wait", "statement 2"}
                 /\ pc'["a"] = "statement 2" => pc["a"] = "statement 2" \/ sa > 0,
             pc'["b"] \in {"signal", "wait", "statement 2"} =>
                 /\ pc["b"] \in {"signal", "wait", "statement 2"}
                 /\ pc'["b"] # "wait" => pc["b"] # "wait" \/ sb > 0
      PROVE  MeetRest'
  <2>1. ThreadsMeet'
    BY <1>1 DEF ThreadsMeet, Before
  <2> QED
    BY <1>11, <1>1, <2>1
<1>2. ASSUME UNCHANGED semVars PROVE \A x \in Statements : Said(x)' <=> Said(x)
  BY <1>2 DEF Said
<1>3. CASE OptionA \/ AtomicDone \/ Usage \/ OptionDone \/ Return \/ UNCHANGED vars
  BY <1>1, <1>2, <1>3 DEF OptionA, AtomicDone, StartCounters, Usage, OptionDone, Return, vars
<1>4. ASSUME NEW t \in Threads, FetchAdd(t) \/ AddLock(t) \/ AddLoad(t) \/ AddStore(t)
      PROVE  MeetRest'
  <2>1. UNCHANGED semVars /\ pc'[t] \in {"loop", "load", "store", "end"}
        /\ \A u \in Threads \ {t} : pc'[u] = pc[u]
    BY <1>4 DEF FetchAdd, AddLock, AddLoad, AddStore, NextTurn
  <2> QED
    BY <1>1, <1>2, <2>1
<1>5. ASSUME NEW t \in Threads, Wait(t) PROVE MeetRest'
  BY <1>1, <1>2, <1>5 DEF Wait, Signalled
<1>6. CASE OptionB
  <2>1. printed' = <<>> /\ \A t \in Threads : pc'[t] = "statement 1"
    BY <1>6 DEF OptionB
  <2>2. ThreadsMeet'
    BY <2>1, NothingSaid
  <2>3. ~(sa' > 0) /\ ~(sb' > 0)
    <3>1. sa' = 0 /\ sb' = 0
      BY <1>6 DEF OptionB
    <3> QED
      BY <3>1, NotSignalled
  <2>4. pc'["a"] = "statement 1" /\ pc'["b"] = "statement 1"
    BY <2>1
  <2> QED
    BY <2>2, <2>3, <2>4
<1>7. ASSUME NEW t \in Threads, Signal(t) PROVE MeetRest'
  <2>1. /\ printed' = printed /\ \A u \in Threads \ {t} : pc'[u] = pc[u]
        /\ pc[t] = "signal" /\ pc'[t] = (IF t = "a" THEN "wait" ELSE "statement 2")
        /\ (t = "a" => sa' = sa) /\ (t = "b" => sb' = sb)
    BY <1>7 DEF Signal
  <2>2. ThreadsMeet'
    BY <2>1 DEF ThreadsMeet, Before
  <2>3. \A x \in Statements : Said(x)' <=> Said(x)
    BY <2>1 DEF Said
  <2> QED
    BY <1>11, <2>1, <2>2, <2>3
<1>8. ASSUME NEW t \in Threads, Statement1(t) PROVE MeetRest'
  <2>1. /\ printed' = Append(printed, <<t, 1>>) /\ sa' = sa /\ sb' = sb
        /\ \A u \in Threads \ {t} : pc'[u] = pc[u]
        /\ pc'[t] = (IF t = "a" THEN "signal" ELSE "wait")
    BY <1>8 DEF Statement1
  <2>2. /\ Said(<<t, 1>>)' /\ \A x \in Statements : Said(x) => Said(x)'
    BY <1>10, <1>11, <2>1, SaidMore
  <2>3. ThreadsMeet'
    <3>1. <<t, 1>> # <<"b", 2>> /\ <<t, 1>> # <<"a", 2>>
      BY FirstIsNotSecond
    <3> QED
      BY <1>10, <1>11, <2>1, <3>1, SaidMore DEF ThreadsMeet
  <2>4. pc'["a"] = "statement 2" => pc["a"] = "statement 2"
    BY <2>1
  <2>5. pc'["b"] \in {"signal", "statement 2"} => pc["b"] \in {"signal", "statement 2"}
    BY <2>1
  <2> QED
    BY <1>11, <2>1, <2>2, <2>3, <2>4, <2>5
<1>9. ASSUME NEW t \in Threads, Statement2(t) PROVE MeetRest'
  <2>1. /\ printed' = Append(printed, <<t, 2>>) /\ sa' = sa /\ sb' = sb
        /\ \A u \in Threads \ {t} : pc'[u] = pc[u]
        /\ pc'[t] = "end" /\ pc[t] = "statement 2"
    BY <1>9 DEF Statement2
  <2>2. \A x \in Statements : Said(x) => Said(x)'
    BY <1>10, <1>11, <2>1, SaidMore
  <2>3. ThreadsMeet'
    <3>1. /\ <<t, 2>> = <<"b", 2>> => Said(<<"a", 1>>)
          /\ <<t, 2>> = <<"a", 2>> => Said(<<"b", 1>>)
      BY <2>1
    <3> QED
      BY <1>10, <1>11, <2>1, <3>1, SaidMore DEF ThreadsMeet
  <2> QED
    BY <1>11, <2>1, <2>2, <2>3
<1> QED
  BY <1>3, <1>4, <1>5, <1>6, <1>7, <1>8, <1>9 DEF Next, Main, Thread

(* The rendez-vous: neither thread makes its second statement before the      *)
(* other has made its first, although Semaphore::wait takes nothing away.     *)
THEOREM RendezVousMeets == Spec => []ThreadsMeet
<1>1. Init => MeetInv
  <2> SUFFICES ASSUME Init PROVE MeetInv
    OBVIOUS
  <2>1. LoopTypes /\ MeetTypes /\ \A t \in Threads : pc[t] = "end"
    BY CountInit DEF CountInv, Init, MeetTypes
  <2>2. ThreadsMeet
    BY DEF Init, ThreadsMeet, Before, Contains
  <2> QED
    BY <2>1, <2>2, TwoThreads DEF MeetInv, MeetRest, Init
<1>2. MeetInv /\ [Next]_vars => MeetInv'
  BY MeetStep
<1>3. MeetInv => ThreadsMeet
  BY DEF MeetInv, MeetRest
<1> QED
  BY <1>1, <1>2, <1>3, PTL DEF Spec
=============================================================================
