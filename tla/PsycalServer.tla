---------------------------- MODULE PsycalServer ----------------------------
(***************************************************************************)
(* The psycal daemon (src/psycal/server.cc): a UDP listener that pushes     *)
(* calendar events on a priority queue, a Tick thread that moves due        *)
(* events to the vector old_, and a Snapshot thread that rewrites           *)
(* events.psycal and appends to history.psycal when make_snapshot_ is set.  *)
(* The three share lock_.  The daemon has no shutdown path: it only ever    *)
(* stops by being killed, and Start reloads events.psycal.                  *)
(*                                                                          *)
(* An event is its identifier, and its time is when[i]; what happens to its *)
(* bytes on the way is in EventBytes.  A critical section that touches only *)
(* memory is one step per pop or push; the two saves are one step per       *)
(* record written, because a kill leaves what was written on disk.          *)
(***************************************************************************)
EXTENDS Naturals, Sequences, Functions

CONSTANTS
    Ids,         \* the events that clients may send, one psycald -t call each
    Times,       \* the timestamps a client may ask for
    MaxClock,    \* bound on the wall clock
    MaxCrashes   \* bound on the number of times the daemon is killed

ASSUME ConstantsAssumption ==
    /\ Times \subseteq Nat
    /\ MaxClock \in Nat
    /\ MaxCrashes \in Nat

VARIABLES
    clock,          \* system_clock::now(), in the unit of Times
    when,           \* Event::GetUnixTimestamp of each event
    sent,           \* events some client has handed to sendto
    net,            \* datagrams in the listener's socket buffer
    phase,          \* what the main thread is doing
    toLoad,         \* the vector ReadEventsFrom returned, not yet pushed
    events_,        \* the priority queue
    old_,           \* expired events not yet appended to history.psycal
    lock_,          \* the thread that owns the mutex, or "free"
    run_server_,
    make_snapshot_,
    tickPc, tickNow, popped_event,  \* the Tick thread
    event_timepoint,                \* what Tick last read from top()
    snapPc, copy,                   \* the Snapshot thread and its queue copy
    eventsFile,     \* the records of events.psycal
    history,        \* the records of history.psycal
    crashes,        \* how often the daemon was killed
    torn,           \* history variable: a kill hit the Snapshot thread mid-save
    raced,          \* history variable: a thread overtook the constructor or the load
    saved,          \* history variable: events on disk after a finished save
    accepted        \* history variable: events the listener took

clientVars  == <<when, sent>>
tickVars    == <<tickPc, tickNow, popped_event, event_timepoint>>
threadVars  == <<tickVars, snapPc, copy>>
diskVars    == <<eventsFile, history>>
historyVars == <<crashes, torn, raced, saved, accepted>>
memVars     == <<phase, toLoad, events_, old_, lock_, run_server_, make_snapshot_>>
vars == <<clock, clientVars, net, memVars, threadVars, diskVars, historyVars>>

SavePcs == {"events", "old"}

TypeOK ==
    /\ clock \in Nat
    /\ when \in [Ids -> Times]
    /\ sent \subseteq Ids /\ net \subseteq Ids
    /\ phase \in {"down", "boot", "built", "loading", "listening"}
    /\ toLoad \subseteq Ids /\ events_ \subseteq Ids
    /\ old_ \in Seq(Ids)
    /\ lock_ \in {"free", "tick", "snap"}
    /\ run_server_ \in BOOLEAN /\ make_snapshot_ \in BOOLEAN
    /\ tickPc \in {"start", "sleep", "drain", "exited"}
    /\ tickNow \in Nat /\ popped_event \in BOOLEAN /\ event_timepoint \in Nat
    /\ snapPc \in {"start", "wait", "stuck", "exited"} \cup SavePcs
    /\ copy \subseteq Ids /\ eventsFile \subseteq Ids
    /\ history \in Seq(Ids)
    /\ crashes \in Nat /\ torn \in BOOLEAN /\ raced \in BOOLEAN
    /\ saved \subseteq Ids /\ accepted \subseteq Ids

(* No daemon is running and both files are empty: the first run. *)
Init ==
    /\ clock = 0
    /\ when \in [Ids -> Times]
    /\ sent = {} /\ net = {}
    /\ phase = "down"
    /\ toLoad = {} /\ events_ = {} /\ old_ = <<>>
    /\ lock_ = "free" /\ run_server_ = FALSE /\ make_snapshot_ = FALSE
    /\ tickPc = "exited" /\ tickNow = 0 /\ popped_event = FALSE
    /\ event_timepoint = 0
    /\ snapPc = "exited" /\ copy = {}
    /\ eventsFile = {} /\ history = <<>>
    /\ crashes = 0 /\ torn = FALSE /\ raced = FALSE
    /\ saved = {} /\ accepted = {}

(* SoonerCmp makes top() an event no other event of the queue precedes. *)
IsTop(e, queue) == e \in queue /\ \A f \in queue : when[e] <= when[f]

-----------------------------------------------------------------------------
(* The environment: the clock, clients, and the signal that kills.          *)

Tock ==
    /\ clock < MaxClock
    /\ clock' = clock + 1
    /\ UNCHANGED <<clientVars, net, memVars, threadVars, diskVars, historyVars>>

(* UDPClient::Send: fire and forget.  The datagram reaches the socket buffer *)
(* only if a daemon has bound the port, and may be dropped anyway; Send      *)
(* never sets last_error_, so the client cannot tell.                        *)
Send(e) ==
    \/ phase # "down" /\ net' = net \cup {e}
    \/ UNCHANGED net

(* Session::SendEvent, the whole life of a psycald -t client. *)
SendEvent(e) ==
    /\ e \notin sent
    /\ sent' = sent \cup {e}
    /\ Send(e)
    /\ UNCHANGED <<clock, when, memVars, threadVars, diskVars, historyVars>>

Crash ==
    /\ phase # "down" /\ crashes < MaxCrashes
    /\ crashes' = crashes + 1
    /\ torn' = (torn \/ snapPc \in SavePcs)
    /\ phase' = "down"
    /\ net' = {} /\ toLoad' = {} /\ events_' = {} /\ old_' = <<>>
    /\ lock_' = "free" /\ run_server_' = FALSE /\ make_snapshot_' = FALSE
    /\ tickPc' = "exited" /\ tickNow' = 0 /\ popped_event' = FALSE
    /\ event_timepoint' = 0
    /\ snapPc' = "exited" /\ copy' = {}
    /\ UNCHANGED <<clock, clientVars, diskVars, raced, saved, accepted>>

-----------------------------------------------------------------------------
(* The main thread.                                                          *)

(* The constructor starts both threads before it initialises the members     *)
(* declared after them, so until FinishConstruct run_server_ and             *)
(* make_snapshot_ hold whatever was on the stack.                            *)
Boot ==
    /\ phase = "down"
    /\ phase' = "boot"
    /\ tickPc' = "start" /\ snapPc' = "start"
    /\ run_server_' \in BOOLEAN /\ make_snapshot_' \in BOOLEAN
    /\ UNCHANGED <<clock, clientVars, net, toLoad, events_, old_, lock_,
                   tickNow, popped_event, event_timepoint, copy, diskVars, historyVars>>

(* lock_, old_, run_server_, snapshot_cv_ and make_snapshot_ are constructed  *)
(* over whatever the threads did to them: the mutex becomes free, and a       *)
(* thread already waiting on the condition variable may never be found again. *)
(* raced remembers that it happened.                                          *)
FinishConstruct ==
    /\ phase = "boot"
    /\ phase' = "built"
    /\ lock_' = "free" /\ old_' = <<>>
    /\ run_server_' = TRUE /\ make_snapshot_' = FALSE
    /\ snapPc' \in (IF snapPc = "wait" THEN {"wait", "stuck"} ELSE {snapPc})
    /\ raced' = (raced \/ snapPc' = "stuck")
    /\ UNCHANGED <<clock, clientVars, net, toLoad, events_, tickVars,
                   copy, diskVars, crashes, torn, saved, accepted>>

ReadBackUnexpired == {e \in eventsFile : when[e] >= clock}

(* Start loads every record of events.psycal, expired or not. *)
ReadBack == eventsFile

ReadEventsFrom ==
    /\ phase = "built"
    /\ phase' = "loading"
    /\ toLoad' = ReadBack
    /\ UNCHANGED <<clock, clientVars, net, events_, old_, lock_, run_server_,
                   make_snapshot_, threadVars, diskVars, historyVars>>

(* Start pushes what it read without taking lock_. *)
StartPush(e) ==
    /\ phase = "loading" /\ e \in toLoad
    /\ toLoad' = toLoad \ {e}
    /\ events_' = events_ \cup {e}
    /\ UNCHANGED <<clock, clientVars, net, phase, old_, lock_, run_server_,
                   make_snapshot_, threadVars, diskVars, historyVars>>

ListenWith ==
    /\ phase = "loading" /\ toLoad = {}
    /\ phase' = "listening"
    /\ UNCHANGED <<clock, clientVars, net, toLoad, events_, old_, lock_, run_server_,
                   make_snapshot_, threadVars, diskVars, historyVars>>

(* One turn of the listener's loop: read, then listen_fn. *)
Receive(e) ==
    /\ phase = "listening" /\ lock_ = "free" /\ e \in net
    /\ net' = net \ {e}
    /\ events_' = events_ \cup {e}
    /\ make_snapshot_' = TRUE
    /\ accepted' = accepted \cup {e}
    /\ UNCHANGED <<clock, clientVars, phase, toLoad, old_, lock_, run_server_,
                   threadVars, diskVars, crashes, torn, raced, saved>>

-----------------------------------------------------------------------------
(* The Tick thread.                                                          *)

(* Nothing keeps the two threads from running before the constructor and the *)
(* load are over.  That they enter their loops early, sleep and wait, as they *)
(* mostly do, changes nothing; raced remembers that one left for good on a    *)
(* run_server_ that was not set yet, or took the mutex for a round of its     *)
(* work before Start listened.                                                *)
LeavesEarly == raced' = (raced \/ ~run_server_)
Overtakes == raced' = (raced \/ phase # "listening")

TickEnter ==
    /\ tickPc = "start"
    /\ LeavesEarly
    /\ tickPc' = IF run_server_ THEN "sleep" ELSE "exited"
    /\ UNCHANGED <<clock, clientVars, net, memVars, tickNow, popped_event,
                   event_timepoint, snapPc, copy, diskVars, crashes, torn, saved, accepted>>

(* One sleep_for later: an empty queue ends the round at once. *)
TickIdle ==
    /\ /\ tickPc = "sleep" /\ lock_ = "free" /\ events_ = {}
    /\ tickPc' = "start"
    /\ UNCHANGED <<clock, clientVars, net, memVars, tickNow, popped_event,
                   event_timepoint, snapPc, copy, diskVars, historyVars>>

NextTimepointStale(queue) == {event_timepoint}

(* What reading top() may yield: the time of a first event, or, when the     *)
(* queue is empty, whatever the memory behind its end holds.                 *)
NextTimepoint(queue) ==
    IF queue = {} THEN Times ELSE {when[e] : e \in {f \in queue : IsTop(f, queue)}}

TickLock ==
    /\ tickPc = "sleep" /\ lock_ = "free" /\ events_ # {}
    /\ lock_' = "tick" /\ tickPc' = "drain"
    /\ tickNow' = clock /\ popped_event' = FALSE
    /\ event_timepoint' \in NextTimepoint(events_)
    /\ Overtakes
    /\ UNCHANGED <<clock, clientVars, net, phase, toLoad, events_, old_, run_server_,
                   make_snapshot_, snapPc, copy, diskVars, crashes, torn, saved, accepted>>

DueAtOnce == events_ # {} /\ tickNow >= event_timepoint

(* The test of the draining loop. *)
Due == events_ # {} /\ tickNow > event_timepoint

ExpireForgetting(e) == <<e>>
ExpireTimestamp(e) == Append(old_, when[e])

Expire(e) == Append(old_, e)

TickPop(e) ==
    /\ tickPc = "drain" /\ Due /\ IsTop(e, events_)
    /\ old_' = Expire(e)
    /\ events_' = events_ \ {e}
    /\ popped_event' = TRUE
    /\ event_timepoint' \in NextTimepoint(events_ \ {e})
    /\ UNCHANGED <<clock, clientVars, net, phase, toLoad, lock_, run_server_,
                   make_snapshot_, tickPc, tickNow, snapPc, copy, diskVars, historyVars>>

SnapshotNotWanted == make_snapshot_

SnapshotWanted == make_snapshot_ \/ popped_event

TickDone ==
    /\ tickPc = "drain" /\ ~Due
    /\ event_timepoint' = 0
    /\ make_snapshot_' = SnapshotWanted
    /\ lock_' = "free" /\ tickPc' = "start"
    /\ UNCHANGED <<clock, clientVars, net, phase, toLoad, events_, old_, run_server_,
                   tickNow, popped_event, snapPc, copy, diskVars, historyVars>>

-----------------------------------------------------------------------------
(* The Snapshot thread.                                                      *)

SnapEnter ==
    /\ snapPc = "start"
    /\ LeavesEarly
    /\ snapPc' = IF run_server_ THEN "wait" ELSE "exited"
    /\ UNCHANGED <<clock, clientVars, net, memVars, tickVars,
                   copy, diskVars, crashes, torn, saved, accepted>>

CopyOfQueueAndOld == events_ \cup Range(old_)

CopyOfQueue == events_

(* The wait is over; SaveCurrentEvents truncates events.psycal on open and   *)
(* copies the queue.                                                         *)
SnapLock ==
    /\ /\ snapPc = "wait" /\ lock_ = "free" /\ make_snapshot_
    /\ lock_' = "snap" /\ snapPc' = "events"
    /\ eventsFile' = {} /\ copy' = CopyOfQueue
    /\ Overtakes
    /\ UNCHANGED <<clock, clientVars, net, phase, toLoad, events_, old_, run_server_,
                   make_snapshot_, tickVars, history, crashes, torn, saved, accepted>>

SaveCurrentEvent(e) ==
    /\ snapPc = "events" /\ IsTop(e, copy)
    /\ eventsFile' = eventsFile \cup {e}
    /\ copy' = copy \ {e}
    /\ UNCHANGED <<clock, clientVars, net, memVars, tickVars,
                   snapPc, history, historyVars>>

SaveCurrentDone ==
    /\ snapPc = "events" /\ copy = {}
    /\ snapPc' = "old"
    /\ UNCHANGED <<clock, clientVars, net, memVars, tickVars,
                   copy, diskVars, historyVars>>

HistoryTruncated == <<Head(old_)>>

(* history.psycal is opened with ofstream::app. *)
HistoryExtended == Append(history, Head(old_))

(* SaveOld appends old_ in order; the vector is dropped when the save ends,  *)
(* which no one can tell from dropping each record as it is written.         *)
SaveOld ==
    /\ snapPc = "old" /\ old_ # <<>>
    /\ history' = HistoryExtended
    /\ old_' = Tail(old_)
    /\ UNCHANGED <<clock, clientVars, net, phase, toLoad, events_, lock_, run_server_,
                   make_snapshot_, threadVars, eventsFile, historyVars>>

SnapDone ==
    /\ snapPc = "old" /\ old_ = <<>>
    /\ make_snapshot_' = FALSE
    /\ lock_' = "free" /\ snapPc' = "start"
    /\ saved' = saved \cup eventsFile \cup Range(history)
    /\ UNCHANGED <<clock, clientVars, net, phase, toLoad, events_, old_, run_server_,
                   tickVars, copy, diskVars, crashes, torn, raced, accepted>>

-----------------------------------------------------------------------------
Main == \/ Boot \/ FinishConstruct \/ ReadEventsFrom \/ ListenWith
        \/ \E e \in Ids : StartPush(e) \/ Receive(e)
Tick == TickEnter \/ TickIdle \/ TickLock \/ TickDone \/ \E e \in Ids : TickPop(e)
Snapshot == \/ SnapEnter \/ SnapLock \/ SaveCurrentDone \/ SaveOld \/ SnapDone
            \/ \E e \in Ids : SaveCurrentEvent(e)

Next ==
    \/ Tock \/ Crash \/ \E e \in Ids : SendEvent(e)
    \/ Main \/ Tick \/ Snapshot

Spec == Init /\ [][Next]_vars

(* The OS schedules every runnable thread, time passes, and somebody starts  *)
(* the daemon again; nothing obliges a client to send or a signal to arrive. *)
Fairness == WF_vars(Tock) /\ WF_vars(Main) /\ WF_vars(Tick) /\ WF_vars(Snapshot)

FairSpec == Spec /\ Fairness

-----------------------------------------------------------------------------
(* Properties.                                                               *)

Idle == phase = "listening" /\ lock_ = "free" /\ snapPc \notin SavePcs
OnDisk == eventsFile \cup Range(history)

(* When the daemon listens, no one owns the mutex and no save is requested,  *)
(* the disk is the memory: events.psycal holds exactly the queue and every   *)
(* expired event has been moved to history.psycal.  A change of events_ or   *)
(* old_ in listen_fn or Tick that forgot to set make_snapshot_ breaks it.    *)
(* Like the others with ~raced, it is claimed as long as no start-up went     *)
(* wrong: threads that sleep and wait through the load are covered, one that  *)
(* works on a queue half loaded, or has left for good, is not.                *)
QuietMeansSaved ==
    ~raced /\ Idle /\ ~make_snapshot_ => eventsFile = events_ /\ old_ = <<>>

(* history.psycal never records an event twice, whatever instant the daemon  *)
(* is killed at: the queue is rewritten without the expired events before    *)
(* they are appended to the history.                                         *)
HistoryOnce == ~raced => IsInjective(history)

(* As long as no kill has hit the Snapshot thread between the truncation of  *)
(* events.psycal and the end of SaveOld, an event that a finished save put   *)
(* on disk is in one of the two files whenever no save is under way.         *)
KeptUnlessTorn ==
    ~raced /\ ~torn /\ snapPc \notin SavePcs => saved \subseteq OnDisk

(* The README's claim without that excuse: unexpired events are stored in    *)
(* events.psycal and old ones are preserved in history.psycal.               *)
NeverLost == ~raced /\ snapPc \notin SavePcs => saved \subseteq OnDisk

(* No event is moved out of the queue before its time, although Tick decides  *)
(* on a time point it read before the pop, and once more after the last pop,  *)
(* where the queue has no top().                                              *)
NotBeforeDue == ~raced => \A e \in Range(old_) \cup Range(history) : when[e] < clock

(* The queue as the user sees it: accepted, not archived, still somewhere.   *)
Upcoming == (events_ \cup toLoad \cup copy \cup eventsFile \cup Range(old_)) \ Range(history)
Ledger == INSTANCE EventLedger WITH
              upcoming <- Upcoming, archived <- Range(history)

(* The daemon implements the ledger: each event is accepted at most once,     *)
(* archived only from the queue, never leaves the archive, and once lost does *)
(* not come back.                                                             *)
LedgerSpec == Ledger!Spec

(* Only a kill loses events: every other step of every thread keeps each      *)
(* accepted event in the queue, in old_, in a file, or between two of them.   *)
OnlyCrashLoses ==
    [][crashes' = crashes /\ ~raced' => Upcoming \subseteq (Upcoming \cup Range(history))']_vars

(* Once the last kill is behind us, every event in the queue reaches         *)
(* history.psycal.                                                           *)
EventuallyArchived ==
    \A e \in Ids :
        (crashes = MaxCrashes /\ e \in events_) ~> (e \in Range(history) \/ raced)
=============================================================================
