------------------------- MODULE PsycalServerProofs -------------------------
(***************************************************************************)
(* The psycal daemon, for any events, times and number of kills: its types, *)
(* that it implements EventLedger, and, until one of its threads overtakes   *)
(* the load, that history.psycal records no event twice, that nothing        *)
(* expires early, that a quiet daemon is saved, and that only a kill loses.  *)
(***************************************************************************)
EXTENDS PsycalServer, TLAPS

-----------------------------------------------------------------------------
(* Sequences as the records of a file or a vector.                           *)

LEMMA RangeEmpty == Range(<<>>) = {}
  BY DEF Range

LEMMA RangeAppend ==
    ASSUME NEW S, NEW s \in Seq(S), NEW e \in S
    PROVE  /\ Append(s, e) \in Seq(S)
           /\ Range(Append(s, e)) = Range(s) \cup {e}
<1>1. /\ Append(s, e) \in Seq(S)
      /\ DOMAIN Append(s, e) = DOMAIN s \cup {Len(s) + 1}
      /\ \A j \in DOMAIN s : Append(s, e)[j] = s[j]
      /\ Append(s, e)[Len(s) + 1] = e
  OBVIOUS
<1> QED
  BY <1>1 DEF Range

LEMMA RangeType ==
    ASSUME NEW S, NEW s \in Seq(S)
    PROVE  Range(s) \subseteq S
  BY DEF Range

LEMMA HeadTail ==
    ASSUME NEW S, NEW s \in Seq(S), s # <<>>
    PROVE  /\ Head(s) \in S /\ Tail(s) \in Seq(S)
           /\ Range(s) = Range(Tail(s)) \cup {Head(s)}
<1>1. /\ Head(s) = s[1] /\ 1 \in DOMAIN s /\ Tail(s) \in Seq(S) /\ Head(s) \in S
      /\ \A j \in DOMAIN Tail(s) : j + 1 \in DOMAIN s /\ Tail(s)[j] = s[j + 1]
      /\ \A l \in DOMAIN s : l = 1 \/ (l - 1 \in DOMAIN Tail(s) /\ Tail(s)[l - 1] = s[l])
  OBVIOUS
<1>2. Range(Tail(s)) \cup {Head(s)} \subseteq Range(s)
  BY <1>1 DEF Range
<1>3. ASSUME NEW l \in DOMAIN s PROVE s[l] \in Range(Tail(s)) \cup {Head(s)}
  BY <1>1 DEF Range
<1>4. Range(s) \subseteq Range(Tail(s)) \cup {Head(s)}
  BY <1>3 DEF Range
<1> QED
  BY <1>1, <1>2, <1>4

LEMMA InjectiveAppend ==
    ASSUME NEW S, NEW s \in Seq(S), NEW e \in S, IsInjective(s), e \notin Range(s)
    PROVE  IsInjective(Append(s, e))
<1>1. /\ DOMAIN Append(s, e) = DOMAIN s \cup {Len(s) + 1}
      /\ \A j \in DOMAIN s : Append(s, e)[j] = s[j]
      /\ Append(s, e)[Len(s) + 1] = e
  OBVIOUS
<1> QED
  BY <1>1 DEF Range, IsInjective

LEMMA InjectiveTail ==
    ASSUME NEW S, NEW s \in Seq(S), s # <<>>, IsInjective(s)
    PROVE  IsInjective(Tail(s)) /\ Head(s) \notin Range(Tail(s))
<1>1. /\ Head(s) = s[1] /\ 1 \in DOMAIN s
      /\ \A j \in DOMAIN Tail(s) : /\ j \in Nat \ {0} /\ j + 1 \in DOMAIN s
                                   /\ Tail(s)[j] = s[j + 1]
  OBVIOUS
<1>2. \A j, l \in DOMAIN s : s[j] = s[l] => j = l
  BY DEF IsInjective
<1>3. Head(s) \notin Range(Tail(s))
  BY <1>1, <1>2 DEF Range
<1>4. ASSUME NEW j \in DOMAIN Tail(s), NEW l \in DOMAIN Tail(s), Tail(s)[j] = Tail(s)[l]
      PROVE  j = l
  BY <1>1, <1>2, <1>4
<1> QED
  BY <1>3, <1>4 DEF IsInjective

-----------------------------------------------------------------------------
LEMMA InitType == Init => TypeOK
<1> SUFFICES ASSUME Init PROVE TypeOK
  OBVIOUS
<1>1. old_ \in Seq(Ids) /\ history \in Seq(Ids)
  BY DEF Init
<1> QED
  BY <1>1 DEF Init, TypeOK, SavePcs

LEMMA TimepointType ==
    ASSUME TypeOK, NEW queue \in SUBSET Ids
    PROVE  NextTimepoint(queue) \subseteq Nat
  BY ConstantsAssumption DEF TypeOK, NextTimepoint, IsTop

LEMMA TypeStep == ASSUME TypeOK, [Next]_vars PROVE TypeOK'
<1> USE DEF TypeOK, SavePcs, clientVars, tickVars, threadVars, diskVars, historyVars, memVars
<1>1. CASE Tock
  BY <1>1 DEF Tock
<1>2. CASE Crash
  <2>1. old_' \in Seq(Ids) /\ history' \in Seq(Ids)
    BY <1>2 DEF Crash
  <2>2. torn' \in BOOLEAN /\ raced' \in BOOLEAN
    BY <1>2 DEF Crash
  <2>3. /\ phase' = "down" /\ lock_' = "free" /\ tickPc' = "exited" /\ snapPc' = "exited"
        /\ run_server_' \in BOOLEAN /\ make_snapshot_' \in BOOLEAN /\ popped_event' \in BOOLEAN
    BY <1>2 DEF Crash
  <2>4. tickNow' \in Nat /\ event_timepoint' \in Nat /\ crashes' \in Nat /\ clock' \in Nat
    BY <1>2 DEF Crash
  <2>5. /\ net' \subseteq Ids /\ toLoad' \subseteq Ids /\ events_' \subseteq Ids /\ copy' \subseteq Ids
        /\ when' \in [Ids -> Times] /\ sent' \subseteq Ids
        /\ eventsFile' \subseteq Ids /\ saved' \subseteq Ids /\ accepted' \subseteq Ids
    BY <1>2 DEF Crash
  <2> QED
    BY <2>1, <2>2, <2>3, <2>4, <2>5
<1>3. ASSUME NEW e \in Ids, SendEvent(e) PROVE TypeOK'
  BY <1>3 DEF SendEvent, Send
<1>4. CASE Boot
  BY <1>4 DEF Boot
<1>5. CASE FinishConstruct
  <2>1. /\ old_' \in Seq(Ids) /\ snapPc' \in {"start", "wait", "stuck", "exited"} \cup SavePcs
        /\ raced' \in BOOLEAN
    BY <1>5 DEF FinishConstruct
  <2> QED
    BY <1>5, <2>1 DEF FinishConstruct
<1>6. CASE ReadEventsFrom
  BY <1>6 DEF ReadEventsFrom, ReadBack
<1>7. CASE ListenWith
  BY <1>7 DEF ListenWith
<1>8. ASSUME NEW e \in Ids, StartPush(e) PROVE TypeOK'
  BY <1>8 DEF StartPush
<1>9. ASSUME NEW e \in Ids, Receive(e) PROVE TypeOK'
  BY <1>9 DEF Receive
<1>10. CASE TickEnter
  BY <1>10 DEF TickEnter, LeavesEarly
<1>11. CASE TickIdle
  BY <1>11 DEF TickIdle
<1>12. CASE TickLock
  <2>1. event_timepoint' \in Nat
    BY <1>12, TimepointType DEF TickLock
  <2> QED
    BY <1>12, <2>1 DEF TickLock, Overtakes
<1>13. CASE TickDone
  BY <1>13 DEF TickDone, SnapshotWanted
<1>14. ASSUME NEW e \in Ids, TickPop(e) PROVE TypeOK'
  <2>1. event_timepoint' \in Nat /\ old_' \in Seq(Ids)
    BY <1>14, TimepointType DEF TickPop, Expire
  <2> QED
    BY <1>14, <2>1 DEF TickPop
<1>15. CASE SnapEnter
  BY <1>15 DEF SnapEnter, LeavesEarly
<1>16. CASE SnapLock
  BY <1>16 DEF SnapLock, CopyOfQueue, Overtakes
<1>17. CASE SaveCurrentDone
  BY <1>17 DEF SaveCurrentDone
<1>18. CASE SaveOld
  <2>1. old_' \in Seq(Ids) /\ history' \in Seq(Ids)
    BY <1>18, HeadTail, RangeAppend DEF SaveOld, HistoryExtended
  <2> QED
    BY <1>18, <2>1 DEF SaveOld
<1>19. CASE SnapDone
  <2>1. Range(history) \subseteq Ids
    BY RangeType
  <2> QED
    BY <1>19, <2>1 DEF SnapDone
<1>20. ASSUME NEW e \in Ids, SaveCurrentEvent(e) PROVE TypeOK'
  BY <1>20 DEF SaveCurrentEvent
<1>21. CASE UNCHANGED vars
  BY <1>21 DEF vars
<1> QED
  BY <1>1, <1>2, <1>3, <1>4, <1>5, <1>6, <1>7, <1>8, <1>9, <1>10, <1>11, <1>12, <1>13,
     <1>14, <1>15, <1>16, <1>17, <1>18, <1>19, <1>20, <1>21
     DEF Next, Main, Tick, Snapshot

(* Every variable of the daemon keeps its type, whatever the threads do in   *)
(* whatever order.                                                           *)
THEOREM TypeCorrect == Spec => []TypeOK
<1>1. Init => TypeOK
  BY InitType
<1>2. TypeOK /\ [Next]_vars => TypeOK'
  BY TypeStep
<1> QED
  BY <1>1, <1>2, PTL DEF Spec

-----------------------------------------------------------------------------
(* The history records no event twice, until a thread overtakes the load.    *)

(* Once raced, always raced; and a step that leaves it FALSE lets Tick and   *)
(* Snapshot take the mutex only when the daemon listens.                     *)
LEMMA InOrder ==
    ASSUME [Next]_vars, ~raced'
    PROVE  ~raced /\ (TickLock \/ SnapLock => phase = "listening")
<1> USE DEF clientVars, tickVars, threadVars, diskVars, historyVars, memVars
<1>1. CASE TickLock \/ SnapLock
  BY <1>1 DEF TickLock, SnapLock, Overtakes
<1>2. ASSUME NEW e \in Ids,
             SendEvent(e) \/ StartPush(e) \/ Receive(e) \/ TickPop(e) \/ SaveCurrentEvent(e)
      PROVE  raced' = raced
  BY <1>2 DEF SendEvent, StartPush, Receive, TickPop, SaveCurrentEvent
<1>3. ASSUME \/ Tock \/ Crash \/ Boot \/ ReadEventsFrom \/ ListenWith
             \/ TickIdle \/ TickDone \/ SaveCurrentDone
             \/ SaveOld \/ SnapDone \/ UNCHANGED vars
      PROVE  raced' = raced
  BY <1>3 DEF Tock, Crash, Boot, ReadEventsFrom, ListenWith, TickIdle, TickDone,
     SaveCurrentDone, SaveOld, SnapDone, vars
<1>4. ASSUME FinishConstruct \/ TickEnter \/ SnapEnter PROVE ~raced
  BY <1>4 DEF FinishConstruct, TickEnter, SnapEnter, LeavesEarly
<1>5. ~raced
  BY <1>1, <1>2, <1>3, <1>4 DEF Next, Main, Tick, Snapshot, TickLock, SnapLock, Overtakes
<1> QED
  BY <1>1, <1>5

(* Who may be where before the daemon listens. *)
PhaseInv ==
    /\ phase # "loading" => toLoad = {}
    /\ phase # "listening" => /\ lock_ = "free" /\ old_ = <<>> /\ copy = {}
                             /\ tickPc # "drain" /\ snapPc \notin SavePcs

(* The mutex does exclude: Tick drains and Snapshot saves alone. *)
LockInv ==
    /\ lock_ = "tick" <=> tickPc = "drain"
    /\ lock_ = "snap" <=> snapPc \in SavePcs
    /\ snapPc # "events" => copy = {}

Held == events_ \cup toLoad \cup copy \cup eventsFile

(* A datagram is accepted once, and everything the daemon holds or wrote was *)
(* accepted.                                                                 *)
AcceptInv ==
    /\ accepted \subseteq sent /\ net \subseteq sent /\ net \cap accepted = {}
    /\ Held \cup Range(old_) \cup Range(history) \subseteq accepted

(* An archived event is nowhere else; an expired one is not in the queue,    *)
(* and once the save has begun not in events.psycal either.                  *)
ApartInv ==
    /\ Range(history) \cap (Held \cup Range(old_)) = {}
    /\ Range(old_) \cap (events_ \cup toLoad \cup copy) = {}
    /\ snapPc \in SavePcs => Range(old_) \cap eventsFile = {}

OnceRest ==
    PhaseInv /\ LockInv /\ AcceptInv /\ ApartInv /\ IsInjective(old_) /\ IsInjective(history)

OnceInv == TypeOK /\ (~raced => OnceRest)

LEMMA OnceInit == Init => OnceInv
<1> SUFFICES ASSUME Init PROVE OnceInv
  OBVIOUS
<1>1. Range(old_) = {} /\ Range(history) = {} /\ IsInjective(old_) /\ IsInjective(history)
  BY RangeEmpty DEF Init, IsInjective
<1> QED
  BY <1>1, InitType DEF Init, OnceInv, OnceRest, PhaseInv, LockInv, AcceptInv, ApartInv,
     Held, SavePcs

LEMMA OnceStep == ASSUME OnceInv, [Next]_vars, ~raced' PROVE OnceRest'
<1>0. OnceRest /\ old_ \in Seq(Ids) /\ history \in Seq(Ids)
  BY InOrder DEF OnceInv, TypeOK
<1>22. TickLock \/ SnapLock => phase = "listening"
  BY InOrder
<1> USE <1>0 DEF OnceRest, PhaseInv, LockInv, AcceptInv, ApartInv, Held, SavePcs,
            clientVars, tickVars, threadVars, diskVars, historyVars, memVars
<1>1. CASE Tock
  BY <1>1 DEF Tock
<1>2. CASE Crash
  <2>1. Range(old_') = {} /\ IsInjective(old_')
    BY <1>2, RangeEmpty DEF Crash, IsInjective
  <2> QED
    BY <1>2, <2>1 DEF Crash
<1>3. ASSUME NEW e \in Ids, SendEvent(e) PROVE OnceRest'
  BY <1>3 DEF SendEvent, Send
<1>4. CASE Boot
  BY <1>4 DEF Boot
<1>5. CASE FinishConstruct
  BY <1>5 DEF FinishConstruct
<1>6. CASE ReadEventsFrom
  BY <1>6, RangeEmpty DEF ReadEventsFrom, ReadBack
<1>7. CASE ListenWith
  BY <1>7 DEF ListenWith
<1>8. ASSUME NEW e \in Ids, StartPush(e) PROVE OnceRest'
  BY <1>8, RangeEmpty DEF StartPush
<1>9. ASSUME NEW e \in Ids, Receive(e) PROVE OnceRest'
  BY <1>9 DEF Receive
<1>10. CASE TickEnter
  BY <1>10 DEF TickEnter
<1>11. CASE TickIdle
  BY <1>11 DEF TickIdle
<1>12. CASE TickLock
  BY <1>12, <1>22 DEF TickLock
<1>13. CASE TickDone
  BY <1>13 DEF TickDone
<1>14. ASSUME NEW e \in Ids, TickPop(e) PROVE OnceRest'
  <2>1. e \in events_ /\ e \notin Range(old_) /\ e \notin Range(history) /\ e \in accepted
    BY <1>14 DEF TickPop, IsTop
  <2>2. Range(old_') = Range(old_) \cup {e} /\ IsInjective(old_')
    BY <1>0, <1>14, <2>1, RangeAppend, InjectiveAppend DEF TickPop, Expire
  <2> QED
    BY <1>14, <2>1, <2>2 DEF TickPop
<1>15. CASE SnapEnter
  BY <1>15 DEF SnapEnter
<1>16. CASE SnapLock
  BY <1>16, <1>22 DEF SnapLock, CopyOfQueue
<1>17. CASE SaveCurrentDone
  BY <1>17 DEF SaveCurrentDone
<1>18. CASE SaveOld
  <2>1. /\ Range(old_) = Range(old_') \cup {Head(old_)}
        /\ IsInjective(old_') /\ Head(old_) \notin Range(old_')
    BY <1>0, <1>18, HeadTail, InjectiveTail DEF SaveOld
  <2>2. Head(old_) \in Ids /\ Head(old_) \notin Range(history)
    BY <1>0, <1>18, <2>1, HeadTail DEF SaveOld
  <2>3. Range(history') = Range(history) \cup {Head(old_)} /\ IsInjective(history')
    BY <1>0, <1>18, <2>2, RangeAppend, InjectiveAppend DEF SaveOld, HistoryExtended
  <2> QED
    BY <1>18, <2>1, <2>2, <2>3 DEF SaveOld
<1>19. CASE SnapDone
  BY <1>19 DEF SnapDone
<1>20. ASSUME NEW e \in Ids, SaveCurrentEvent(e) PROVE OnceRest'
  BY <1>20 DEF SaveCurrentEvent, IsTop
<1>21. CASE UNCHANGED vars
  BY <1>21 DEF vars
<1> QED
  BY <1>1, <1>2, <1>3, <1>4, <1>5, <1>6, <1>7, <1>8, <1>9, <1>10, <1>11, <1>12, <1>13,
     <1>14, <1>15, <1>16, <1>17, <1>18, <1>19, <1>20, <1>21
     DEF Next, Main, Tick, Snapshot

LEMMA OnceInvStep == ASSUME OnceInv, [Next]_vars PROVE OnceInv'
  BY TypeStep, OnceStep DEF OnceInv

(* history.psycal never records an event twice, however often and whenever   *)
(* the daemon is killed, as long as Tick and Snapshot do not leave or work   *)
(* before the constructor and the load are over.                             *)
THEOREM HistoryRecordsOnce == Spec => []HistoryOnce
<1>1. Init => OnceInv
  BY OnceInit
<1>2. OnceInv /\ [Next]_vars => OnceInv'
  BY OnceInvStep
<1>3. OnceInv => HistoryOnce
  BY DEF OnceInv, OnceRest, HistoryOnce
<1> QED
  BY <1>1, <1>2, <1>3, PTL DEF Spec

-----------------------------------------------------------------------------
(* Nothing expires early.  Tick decides on event_timepoint, which it read     *)
(* before the pop: while it drains a queue that is not empty, that is the     *)
(* time of the top, because the mutex keeps the listener out and the load is  *)
(* over.  Its reading of the clock is never ahead of the clock.               *)
FreshTimepoint ==
    tickPc = "drain" => \A e \in Ids : IsTop(e, events_) => event_timepoint = when[e]

NoneEarly == \A e \in Range(old_) \cup Range(history) : when[e] < clock

DueRest == NoneEarly /\ tickNow <= clock /\ FreshTimepoint

DueInv == OnceInv /\ (~raced => DueRest)

LEMMA TimepointOfTop ==
    ASSUME TypeOK, NEW queue \in SUBSET Ids, NEW e \in Ids, IsTop(e, queue),
           NEW t \in NextTimepoint(queue)
    PROVE  t = when[e]
<1>1. PICK f \in queue : IsTop(f, queue) /\ t = when[f]
  BY DEF NextTimepoint, IsTop
<1>2. when[e] \in Nat /\ when[f] \in Nat /\ when[e] <= when[f] /\ when[f] <= when[e]
  BY <1>1, ConstantsAssumption DEF TypeOK, IsTop
<1> QED
  BY <1>1, <1>2

LEMMA DueStep == ASSUME DueInv, [Next]_vars, ~raced' PROVE DueRest'
<1> USE DEF clientVars, tickVars, threadVars, diskVars, historyVars, memVars, DueRest
<1>0. ~raced /\ OnceRest /\ DueRest /\ TypeOK
  BY InOrder DEF DueInv, OnceInv
<1>1. /\ clock \in Nat /\ tickNow \in Nat /\ tickNow <= clock /\ event_timepoint \in Nat
      /\ when \in [Ids -> Nat] /\ old_ \in Seq(Ids) /\ history \in Seq(Ids)
      /\ Range(old_) \subseteq Ids /\ Range(history) \subseteq Ids /\ events_ \subseteq Ids
      /\ \A e \in Range(old_) \cup Range(history) : when[e] < clock
  BY <1>0, ConstantsAssumption, RangeType DEF TypeOK, NoneEarly
<1>2. CASE Tock
  BY <1>0, <1>1, <1>2 DEF Tock, NoneEarly, FreshTimepoint, IsTop
<1>3. CASE Crash
  BY <1>1, <1>3, RangeEmpty DEF Crash, NoneEarly, FreshTimepoint
<1>4. CASE FinishConstruct
  BY <1>0, <1>1, <1>4, RangeEmpty DEF FinishConstruct, NoneEarly, FreshTimepoint, IsTop
<1>5. ASSUME NEW e \in Ids, TickPop(e) PROVE DueRest'
  <2>1. Range(old_') = Range(old_) \cup {e}
    BY <1>1, <1>5, RangeAppend DEF TickPop, Expire
  <2>2. event_timepoint = when[e] /\ tickNow > event_timepoint
    BY <1>0, <1>5 DEF TickPop, Due, FreshTimepoint
  <2>3. NoneEarly' /\ tickNow' <= clock'
    BY <1>1, <1>5, <2>1, <2>2 DEF TickPop, NoneEarly
  <2>4. ASSUME NEW f \in Ids, IsTop(f, events_ \ {e}) PROVE event_timepoint' = when[f]
    BY <1>0, <1>1, <1>5, <2>4, TimepointOfTop DEF TickPop
  <2>5. FreshTimepoint'
    BY <1>5, <2>4 DEF TickPop, FreshTimepoint, IsTop
  <2> QED
    BY <2>3, <2>5
<1>6. CASE SaveOld
  <2>1. /\ Range(old_) = Range(old_') \cup {Head(old_)}
        /\ Range(history') = Range(history) \cup {Head(old_)}
    BY <1>1, <1>6, HeadTail, RangeAppend DEF SaveOld, HistoryExtended
  <2> QED
    BY <1>0, <1>1, <1>6, <2>1 DEF SaveOld, NoneEarly, FreshTimepoint, IsTop
<1>7. CASE TickLock
  <2>1. ASSUME NEW f \in Ids, IsTop(f, events_) PROVE event_timepoint' = when[f]
    BY <1>0, <1>1, <1>7, <2>1, TimepointOfTop DEF TickLock
  <2> QED
    BY <1>1, <1>7, <2>1 DEF TickLock, NoneEarly, FreshTimepoint, IsTop
<1>8. ASSUME UNCHANGED <<clock, when, old_, history, tickNow>>, FreshTimepoint'
      PROVE  DueRest'
  BY <1>1, <1>8 DEF NoneEarly
(* The queue grows only while Tick is elsewhere. *)
<1>9. ASSUME NEW e \in Ids, SendEvent(e) \/ StartPush(e) \/ Receive(e) \/ SaveCurrentEvent(e)
      PROVE  UNCHANGED <<clock, when, old_, history, tickNow>> /\ FreshTimepoint'
  <2>1. CASE SendEvent(e) \/ SaveCurrentEvent(e)
    BY <1>0, <2>1 DEF SendEvent, Send, SaveCurrentEvent, FreshTimepoint, IsTop
  <2>2. CASE StartPush(e) \/ Receive(e)
    BY <1>0, <2>2 DEF StartPush, Receive, FreshTimepoint, OnceRest, PhaseInv, LockInv
  <2> QED
    BY <1>9, <2>1, <2>2
<1>10. ASSUME \/ Boot \/ ReadEventsFrom \/ ListenWith \/ TickEnter \/ TickIdle \/ TickDone
              \/ SnapEnter \/ SnapLock \/ SaveCurrentDone \/ SnapDone \/ UNCHANGED vars
       PROVE  UNCHANGED <<clock, when, old_, history, tickNow>> /\ FreshTimepoint'
  BY <1>0, <1>10 DEF Boot, ReadEventsFrom, ListenWith, TickEnter, TickIdle, TickDone, SnapEnter,
     SnapLock, SaveCurrentDone, SnapDone, vars, FreshTimepoint, IsTop
<1> QED
  BY <1>2, <1>3, <1>4, <1>5, <1>6, <1>7, <1>8, <1>9, <1>10 DEF Next, Main, Tick, Snapshot

(* No event leaves the queue before its time, for all that Tick compares     *)
(* with a time point it read earlier, and reads one of an empty queue.       *)
THEOREM NothingExpiresEarly == Spec => []NotBeforeDue
<1>1. Init => DueInv
  BY OnceInit, RangeEmpty DEF DueInv, DueRest, Init, NoneEarly, FreshTimepoint
<1>2. DueInv /\ [Next]_vars => DueInv'
  BY OnceInvStep, DueStep DEF DueInv
<1>3. DueInv => NotBeforeDue
  BY DEF DueInv, DueRest, NoneEarly, NotBeforeDue
<1> QED
  BY <1>1, <1>2, <1>3, PTL DEF Spec
-----------------------------------------------------------------------------
(* What is on disk.  The queue is events.psycal as long as nothing happened   *)
(* to it since the last save or the load; after that make_snapshot_ is set,   *)
(* or Tick is about to set it.  The file never has an event that memory does  *)
(* not have, so truncating it loses nothing that is not written again.        *)
LoadInv ==
    /\ phase \in {"down", "boot", "built"} => events_ = {}
    /\ phase = "loading" => events_ \cup toLoad = eventsFile

DiskInv ==
    /\ phase = "listening" /\ snapPc \notin SavePcs => eventsFile \subseteq events_ \cup Range(old_)
    /\ snapPc = "events" => eventsFile \cup copy = events_
    /\ snapPc = "old" => eventsFile = events_

QuietInv ==
    phase = "listening" /\ snapPc \notin SavePcs /\ ~make_snapshot_
        /\ ~(tickPc = "drain" /\ popped_event) => eventsFile = events_ /\ old_ = <<>>

KeptInv ==
    ~torn => saved \subseteq OnDisk \cup (IF snapPc \in SavePcs THEN copy \cup Range(old_) ELSE {})

SaveRest == LoadInv /\ DiskInv /\ QuietInv /\ KeptInv

SaveInv == OnceInv /\ (~raced => SaveRest)

LEMMA SaveInit == Init => SaveInv
  BY OnceInit, RangeEmpty DEF SaveInv, SaveRest, Init, LoadInv, DiskInv, QuietInv, KeptInv,
     OnDisk, SavePcs

LEMMA SaveStep == ASSUME SaveInv, [Next]_vars, ~raced' PROVE SaveRest'
<1>0. /\ SaveRest /\ PhaseInv /\ LockInv
      /\ old_ \in Seq(Ids) /\ history \in Seq(Ids)
  BY InOrder DEF SaveInv, OnceInv, OnceRest, TypeOK
<1>22. TickLock \/ SnapLock => phase = "listening"
  BY InOrder
<1> USE <1>0 DEF SaveRest, LoadInv, DiskInv, QuietInv, KeptInv, OnDisk, PhaseInv, LockInv,
            SavePcs, clientVars, tickVars, threadVars, diskVars, historyVars, memVars
<1>1. CASE Tock
  BY <1>1 DEF Tock
<1>2. CASE Crash
  BY <1>2 DEF Crash
<1>3. ASSUME NEW e \in Ids, SendEvent(e) PROVE SaveRest'
  BY <1>3 DEF SendEvent
<1>4. CASE Boot
  BY <1>4 DEF Boot
<1>5. CASE FinishConstruct
  BY <1>5 DEF FinishConstruct
<1>6. CASE ReadEventsFrom
  BY <1>6 DEF ReadEventsFrom, ReadBack
<1>7. CASE ListenWith
  BY <1>7 DEF ListenWith
<1>8. ASSUME NEW e \in Ids, StartPush(e) PROVE SaveRest'
  BY <1>8 DEF StartPush
<1>9. ASSUME NEW e \in Ids, Receive(e) PROVE SaveRest'
  BY <1>9 DEF Receive
<1>10. CASE TickEnter
  BY <1>10 DEF TickEnter
<1>11. CASE TickIdle
  BY <1>11 DEF TickIdle
<1>12. CASE TickLock
  BY <1>12, <1>22 DEF TickLock
<1>13. CASE TickDone
  BY <1>13 DEF TickDone, SnapshotWanted
<1>14. ASSUME NEW e \in Ids, TickPop(e) PROVE SaveRest'
  <2>1. Range(old_') = Range(old_) \cup {e}
    BY <1>14, RangeAppend DEF TickPop, Expire
  <2> QED
    BY <1>14, <2>1 DEF TickPop, IsTop
<1>15. CASE SnapEnter
  BY <1>15 DEF SnapEnter
<1>16. CASE SnapLock
  BY <1>16, <1>22 DEF SnapLock, CopyOfQueue
<1>17. CASE SaveCurrentDone
  BY <1>17 DEF SaveCurrentDone
<1>18. CASE SaveOld
  <2>1. /\ Range(old_) = Range(old_') \cup {Head(old_)}
        /\ Range(history') = Range(history) \cup {Head(old_)}
    BY <1>18, HeadTail, RangeAppend DEF SaveOld, HistoryExtended
  <2> QED
    BY <1>18, <2>1 DEF SaveOld
<1>19. CASE SnapDone
  BY <1>19, RangeEmpty DEF SnapDone
<1>20. ASSUME NEW e \in Ids, SaveCurrentEvent(e) PROVE SaveRest'
  BY <1>20 DEF SaveCurrentEvent, IsTop
<1>21. CASE UNCHANGED vars
  BY <1>21 DEF vars
<1> QED
  BY <1>1, <1>2, <1>3, <1>4, <1>5, <1>6, <1>7, <1>8, <1>9, <1>10, <1>11, <1>12, <1>13,
     <1>14, <1>15, <1>16, <1>17, <1>18, <1>19, <1>20, <1>21
     DEF Next, Main, Tick, Snapshot

LEMMA SaveInvStep == ASSUME SaveInv, [Next]_vars PROVE SaveInv'
  BY OnceInvStep, SaveStep DEF SaveInv

(* Whenever the daemon listens, nobody owns the mutex and no save is wanted,  *)
(* events.psycal is the queue and nothing expired waits: every change that    *)
(* Tick and the listener make to memory asks for a snapshot in time.          *)
THEOREM QuietIsSaved == Spec => []QuietMeansSaved
<1>1. Init => SaveInv
  BY SaveInit
<1>2. SaveInv /\ [Next]_vars => SaveInv'
  BY SaveInvStep
<1>3. SaveInv => QuietMeansSaved
  BY DEF SaveInv, SaveRest, QuietInv, QuietMeansSaved, Idle, OnceInv, OnceRest, LockInv
<1> QED
  BY <1>1, <1>2, <1>3, PTL DEF Spec

(* What a finished save put on disk stays there, in one of the two files,     *)
(* until a kill hits a later save: a kill between saves, a load and the       *)
(* saves that run to their end all keep it.                                   *)
THEOREM SavedIsKept == Spec => []KeptUnlessTorn
<1>1. Init => SaveInv
  BY SaveInit
<1>2. SaveInv /\ [Next]_vars => SaveInv'
  BY SaveInvStep
<1>3. SaveInv => KeptUnlessTorn
  BY DEF SaveInv, SaveRest, KeptInv, KeptUnlessTorn
<1> QED
  BY <1>1, <1>2, <1>3, PTL DEF Spec

(* The step that could lose events and is not a kill is the truncation of     *)
(* events.psycal; DiskInv says the queue and old_ still have all of them.     *)
LEMMA LosesNothing ==
    ASSUME SaveInv, [Next]_vars, ~raced', crashes' = crashes
    PROVE  Upcoming \subseteq Upcoming' \cup Range(history')
<1>0. /\ SaveRest /\ PhaseInv /\ LockInv
      /\ old_ \in Seq(Ids) /\ history \in Seq(Ids) /\ crashes \in Nat
  BY InOrder DEF SaveInv, OnceInv, OnceRest, TypeOK
<1>9. SnapLock => phase = "listening"
  BY InOrder
<1> USE <1>0 DEF Upcoming, clientVars, tickVars, threadVars, diskVars, historyVars, memVars
<1>1. CASE FinishConstruct
  BY <1>1 DEF FinishConstruct, PhaseInv
<1>2. CASE ReadEventsFrom
  BY <1>2 DEF ReadEventsFrom, ReadBack, PhaseInv
<1>3. CASE SnapLock
  BY <1>3, <1>9 DEF SnapLock, CopyOfQueue, SaveRest, DiskInv, PhaseInv, LockInv, SavePcs
<1>4. CASE SaveOld
  <2>1. /\ Range(old_) = Range(old_') \cup {Head(old_)}
        /\ Range(history') = Range(history) \cup {Head(old_)}
    BY <1>4, HeadTail, RangeAppend DEF SaveOld, HistoryExtended
  <2> QED
    BY <1>4, <2>1 DEF SaveOld
<1>5. ASSUME NEW e \in Ids, TickPop(e) PROVE Upcoming \subseteq Upcoming'
  <2>1. Range(old_') = Range(old_) \cup {e}
    BY <1>5, RangeAppend DEF TickPop, Expire
  <2> QED
    BY <1>5, <2>1 DEF TickPop
<1>6. ASSUME NEW e \in Ids, SendEvent(e) \/ StartPush(e) \/ Receive(e) \/ SaveCurrentEvent(e)
      PROVE  Upcoming \subseteq Upcoming'
  BY <1>6 DEF SendEvent, StartPush, Receive, SaveCurrentEvent
<1>7. ASSUME \/ Tock \/ Boot \/ ListenWith \/ TickEnter \/ TickIdle \/ TickLock \/ TickDone
             \/ SnapEnter \/ SaveCurrentDone \/ SnapDone \/ UNCHANGED vars
      PROVE  Upcoming' = Upcoming
  BY <1>7 DEF Tock, Boot, ListenWith, TickEnter, TickIdle, TickLock, TickDone, SnapEnter,
     SaveCurrentDone, SnapDone, vars
<1>8. ~Crash
  BY DEF Crash
<1> QED
  BY <1>1, <1>2, <1>3, <1>4, <1>5, <1>6, <1>7, <1>8 DEF Next, Main, Tick, Snapshot

(* Only a kill loses an accepted event that was not archived yet.             *)
THEOREM OnlyCrashLosesEvents == Spec => OnlyCrashLoses
<1>1. Init => SaveInv
  BY SaveInit
<1>2. SaveInv /\ [Next]_vars => SaveInv'
  BY SaveInvStep
<1>3. SaveInv /\ [Next]_vars =>
        (crashes' = crashes /\ ~raced' => Upcoming \subseteq (Upcoming \cup Range(history))')
  BY LosesNothing
<1> QED
  BY <1>1, <1>2, <1>3, PTL DEF Spec, OnlyCrashLoses

-----------------------------------------------------------------------------
(* The daemon implements the ledger, overtaken or not: a thread that runs     *)
(* before the load may lose or reorder, but it invents no event and takes     *)
(* none out of the archive.                                                   *)
LedgerInv == TypeOK /\ AcceptInv

LEMMA LedgerInit == Init => LedgerInv
  BY InitType, RangeEmpty DEF Init, LedgerInv, AcceptInv, Held

(* Steps that take no datagram and write no history hold fewer events, or     *)
(* the same ones in other places.                                             *)
HoldsNoMore ==
    /\ accepted' = accepted /\ history' = history
    /\ Held' \cup Range(old_') \subseteq Held \cup Range(old_)

LEMMA StepHoldsNoMore ==
    ASSUME TypeOK, [Next]_vars
    PROVE  HoldsNoMore \/ SaveOld \/ \E e \in Ids : Receive(e)
<1> USE DEF HoldsNoMore, Held, clientVars, tickVars, threadVars, diskVars, historyVars, memVars
<1>1. CASE Crash
  BY <1>1, RangeEmpty DEF Crash
<1>2. CASE FinishConstruct
  BY <1>2, RangeEmpty DEF FinishConstruct
<1>3. CASE SnapLock
  BY <1>3 DEF SnapLock, CopyOfQueue
<1>4. CASE ReadEventsFrom
  BY <1>4 DEF ReadEventsFrom, ReadBack
<1>5. ASSUME NEW e \in Ids, TickPop(e) PROVE HoldsNoMore
  <2>1. Range(old_') = Range(old_) \cup {e} /\ e \in events_
    BY <1>5, RangeAppend DEF TickPop, Expire, IsTop, TypeOK
  <2> QED
    BY <1>5, <2>1 DEF TickPop
<1>6. ASSUME NEW e \in Ids, SendEvent(e) \/ StartPush(e) \/ SaveCurrentEvent(e)
      PROVE  HoldsNoMore
  BY <1>6 DEF SendEvent, StartPush, SaveCurrentEvent, IsTop
<1>7. ASSUME \/ Tock \/ Boot \/ ListenWith \/ TickEnter \/ TickIdle \/ TickLock \/ TickDone
             \/ SnapEnter \/ SaveCurrentDone \/ SnapDone \/ UNCHANGED vars
      PROVE  HoldsNoMore
  BY <1>7 DEF Tock, Boot, ListenWith, TickEnter, TickIdle, TickLock, TickDone, SnapEnter,
     SaveCurrentDone, SnapDone, vars
<1> QED
  BY <1>1, <1>2, <1>3, <1>4, <1>5, <1>6, <1>7 DEF Next, Main, Tick, Snapshot

(* A datagram reaches the socket buffer when it is sent, and leaves it when   *)
(* it is accepted or the daemon is killed.                                    *)
LEMMA NetStep ==
    ASSUME AcceptInv, [Next]_vars
    PROVE  \/ accepted' = accepted /\ sent \subseteq sent' /\ net' \subseteq sent'
              /\ net' \cap accepted = {}
           \/ \E e \in Ids : Receive(e)
<1> USE DEF AcceptInv, clientVars, tickVars, threadVars, diskVars, historyVars, memVars
<1>1. ASSUME NEW e \in Ids, SendEvent(e)
      PROVE  accepted' = accepted /\ sent \subseteq sent' /\ net' \subseteq sent'
             /\ net' \cap accepted = {}
  BY <1>1 DEF SendEvent, Send
<1>2. ASSUME NEW e \in Ids, StartPush(e) \/ TickPop(e) \/ SaveCurrentEvent(e)
      PROVE  accepted' = accepted /\ sent' = sent /\ net' = net
  BY <1>2 DEF StartPush, TickPop, SaveCurrentEvent
<1>3. ASSUME \/ Tock \/ Boot \/ FinishConstruct \/ ReadEventsFrom \/ ListenWith \/ TickEnter
             \/ TickIdle \/ TickLock \/ TickDone \/ SnapEnter \/ SnapLock \/ SaveCurrentDone
             \/ SaveOld \/ SnapDone \/ UNCHANGED vars
      PROVE  accepted' = accepted /\ sent' = sent /\ net' = net
  BY <1>3 DEF Tock, Boot, FinishConstruct, ReadEventsFrom, ListenWith, TickEnter, TickIdle,
     TickLock, TickDone, SnapEnter, SnapLock, SaveCurrentDone, SaveOld, SnapDone, vars
<1>4. CASE Crash
  BY <1>4 DEF Crash
<1> QED
  BY <1>1, <1>2, <1>3, <1>4 DEF Next, Main, Tick, Snapshot

LEMMA ReceiveEffect ==
    ASSUME NEW e \in Ids, Receive(e)
    PROVE  /\ e \in net /\ net' = net \ {e} /\ sent' = sent /\ accepted' = accepted \cup {e}
           /\ history' = history /\ old_' = old_ /\ Held' = Held \cup {e}
  BY DEF Receive, Held, clientVars, threadVars, diskVars

LEMMA SaveOldEffect ==
    ASSUME TypeOK, SaveOld
    PROVE  /\ accepted' = accepted /\ Held' = Held
           /\ Range(old_) = Range(old_') \cup {Head(old_)} /\ Head(old_) \in Ids
           /\ Range(history') = Range(history) \cup {Head(old_)}
<1>1. old_ \in Seq(Ids) /\ history \in Seq(Ids) /\ old_ # <<>>
  BY DEF TypeOK, SaveOld
<1>2. Head(old_) \in Ids /\ Range(old_) = Range(Tail(old_)) \cup {Head(old_)}
  BY <1>1, HeadTail
<1>3. Range(history') = Range(history) \cup {Head(old_)}
  BY <1>1, <1>2, RangeAppend DEF SaveOld, HistoryExtended
<1> QED
  BY <1>2, <1>3 DEF SaveOld, Held, threadVars, historyVars

LEMMA LedgerInvStep == ASSUME LedgerInv, [Next]_vars PROVE LedgerInv'
<1>1. TypeOK' /\ TypeOK /\ AcceptInv
  BY TypeStep DEF LedgerInv
<1>2. CASE \E e \in Ids : Receive(e)
  <2>1. PICK e \in Ids : Receive(e)
    BY <1>2
  <2> QED
    BY <1>1, <2>1, ReceiveEffect DEF LedgerInv, AcceptInv
<1>3. CASE ~\E e \in Ids : Receive(e)
  <2>1. accepted' = accepted /\ sent \subseteq sent' /\ net' \subseteq sent'
        /\ net' \cap accepted = {}
    BY <1>1, <1>3, NetStep
  <2>2. Held' \cup Range(old_') \cup Range(history') \subseteq accepted
    <3>1. CASE HoldsNoMore
      BY <1>1, <3>1 DEF HoldsNoMore, AcceptInv
    <3>2. CASE SaveOld
      BY <1>1, <3>2, SaveOldEffect DEF AcceptInv
    <3> QED
      BY <1>1, <1>3, <3>1, <3>2, StepHoldsNoMore
  <2> QED
    BY <1>1, <2>1, <2>2 DEF LedgerInv, AcceptInv
<1> QED
  BY <1>2, <1>3

(* Each step of the daemon is a step of the ledger: Receive accepts, SaveOld  *)
(* archives, and every other step loses the events it holds no longer.        *)
LEMMA LedgerStep ==
    ASSUME LedgerInv, [Next]_vars
    PROVE  [Ledger!Next]_<<accepted, Upcoming, Range(history)>>
<1>1. TypeOK /\ AcceptInv /\ Upcoming = (Held \cup Range(old_)) \ Range(history)
  BY DEF LedgerInv, Upcoming, Held
<1>2. Upcoming' = (Held' \cup Range(old_')) \ Range(history')
  BY DEF Upcoming, Held
<1>3. ASSUME NEW e \in Ids, Receive(e) PROVE Ledger!Accept(e)
  <2>1. e \notin accepted /\ e \notin Range(history)
    BY <1>1, <1>3, ReceiveEffect DEF AcceptInv
  <2> QED
    BY <1>1, <1>2, <1>3, <2>1, ReceiveEffect DEF Ledger!Accept
<1>4. CASE SaveOld
  <2>1. CASE Head(old_) \in Range(history)
    BY <1>1, <1>2, <1>4, <2>1, SaveOldEffect
  <2>2. CASE Head(old_) \notin Range(history)
    <3>1. Head(old_) \in Ids /\ Ledger!Archive(Head(old_))
      BY <1>1, <1>2, <1>4, <2>2, SaveOldEffect DEF Ledger!Archive
    <3> QED
      BY <3>1 DEF Ledger!Next
  <2> QED
    BY <2>1, <2>2
<1>5. CASE HoldsNoMore
  <2>1. Upcoming \ Upcoming' \in SUBSET Upcoming
    OBVIOUS
  <2>2. Ledger!Lose(Upcoming \ Upcoming')
    BY <1>1, <1>2, <1>5 DEF HoldsNoMore, Ledger!Lose
  <2> QED
    BY <2>1, <2>2 DEF Ledger!Next
<1> QED
  BY <1>1, <1>3, <1>4, <1>5, StepHoldsNoMore DEF Ledger!Next

(* The daemon implements the ledger: each event is accepted at most once,     *)
(* archived only from the upcoming ones, never leaves the archive, and once   *)
(* lost does not come back, however the threads, the load and kills           *)
(* interleave.                                                                *)
THEOREM ImplementsLedger == Spec => LedgerSpec
<1>1. Init => Ledger!Init
  BY RangeEmpty DEF Init, Ledger!Init, Upcoming
<1>2. Init => LedgerInv
  BY LedgerInit
<1>3. LedgerInv /\ [Next]_vars => LedgerInv'
  BY LedgerInvStep
<1>4. LedgerInv /\ [Next]_vars => [Ledger!Next]_<<accepted, Upcoming, Range(history)>>
  BY LedgerStep
<1> QED
  BY <1>1, <1>2, <1>3, <1>4, PTL DEF Spec, LedgerSpec, Ledger!Spec
=============================================================================
