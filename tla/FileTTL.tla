------------------------------ MODULE FileTTL -------------------------------
(***************************************************************************)
(* fttl (src/fttl/fttl.cc): a daemon that removes files when their time     *)
(* comes.  The main thread reads (path, timestamp) datagrams and inserts    *)
(* them in the map files_; the Consumer thread sweeps the map once a        *)
(* second.  Both take mutex_.  The registrations live in memory only.       *)
(*                                                                          *)
(* A datagram is what Packed makes of a timestamp and a path; TTLMessage    *)
(* has the bytes.  Under the mutex the sweep is one step per visited key    *)
(* and one per remove(), because files come back and the daemon may be      *)
(* killed between two of them.                                              *)
(***************************************************************************)
EXTENDS Naturals, Sequences, Functions

CONSTANTS
    Paths,       \* the files somebody may register
    Stamps,      \* the unix timestamps somebody may ask for
    NoPath,      \* the empty path
    None,        \* the main thread holds no decoded datagram
    Packed(_, _),\* the datagram for a timestamp and a path
    Unpacked(_), \* the timestamp and the path Run takes from its buffer
    Blank,       \* what a failed read leaves in the buffer
    MaxClock,    \* bound on the wall clock
    MaxSends,    \* bound on the number of datagrams sent
    MaxCreates,  \* bound on the number of files created
    MaxErrors,   \* bound on the number of failed reads
    MaxCrashes   \* bound on the number of times the daemon is killed

ASSUME ConstantsAssumption ==
    /\ Stamps \subseteq Nat
    /\ NoPath \notin Paths
    /\ None \notin Nat \X (Paths \cup {NoPath})
    /\ \A t \in Stamps, p \in Paths : Unpacked(Packed(t, p)) = <<t, p>>
    /\ Unpacked(Blank) = <<0, NoPath>>
    /\ {MaxClock, MaxSends, MaxCreates, MaxErrors, MaxCrashes} \subseteq Nat

VARIABLES
    clock,      \* system_clock::now() in seconds
    disk,       \* the registered or future paths that exist
    net,        \* datagrams in the socket buffer, oldest first
    up,         \* a daemon is running
    decoded,    \* Run: the pair between read() and InsertPair, or None
    files_,     \* timestamp -> vector of paths
    mutex_,     \* "free", or "consumer"
    pc,         \* what the Consumer thread is doing
    ss,         \* its reading of the clock
    todo,       \* the keys from files_iterator to end()
    key,        \* files_iterator->first while its files are removed
    names,      \* the part of that vector not yet removed
    sends, creates, errors, crashes,
    asked,      \* history variable: every pair a client ever sent
    attempted   \* history variable: pairs remove() was called for since
                \* they were last inserted

Names == Paths \cup {NoPath}
Datagrams == {Packed(t, p) : t \in Stamps, p \in Paths}
envVars   == <<clock, disk, net, sends, creates, errors, crashes, asked>>
sweepVars == <<mutex_, pc, ss, todo, key, names>>
vars == <<envVars, up, decoded, files_, sweepVars, attempted>>

EmptyMap == [t \in {} |-> <<>>]

TypeOK ==
    /\ clock \in Nat /\ disk \subseteq Paths
    /\ net \in Seq(Datagrams)
    /\ up \in BOOLEAN
    /\ decoded \in (Nat \X Names) \cup {None}
    /\ DOMAIN files_ \subseteq Nat
    /\ files_ \in [DOMAIN files_ -> Seq(Names)]
    /\ mutex_ \in {"free", "consumer"}
    /\ pc \in {"off", "sleep", "sweep", "remove"}
    /\ ss \in Nat /\ todo \subseteq Nat /\ key \in Nat
    /\ names \in Seq(Names)
    /\ sends \in Nat /\ creates \in Nat /\ errors \in Nat /\ crashes \in Nat
    /\ asked \subseteq Stamps \X Paths
    /\ attempted \subseteq Nat \X Names

Init ==
    /\ clock = 0 /\ disk \in SUBSET Paths /\ net = <<>>
    /\ up = FALSE /\ decoded = None /\ files_ = EmptyMap
    /\ mutex_ = "free" /\ pc = "off" /\ ss = 0 /\ todo = {} /\ key = 0 /\ names = <<>>
    /\ sends = 0 /\ creates = 0 /\ errors = 0 /\ crashes = 0
    /\ asked = {} /\ attempted = {}

-----------------------------------------------------------------------------
(* The environment.                                                          *)

Tock ==
    /\ clock < MaxClock
    /\ clock' = clock + 1
    /\ UNCHANGED <<disk, net, sends, creates, errors, crashes, asked,
                   up, decoded, files_, sweepVars, attempted>>

(* Somebody writes a file, perhaps one that was just removed. *)
Create(p) ==
    /\ creates < MaxCreates /\ p \notin disk
    /\ disk' = disk \cup {p}
    /\ creates' = creates + 1
    /\ UNCHANGED <<clock, net, sends, errors, crashes, asked,
                   up, decoded, files_, sweepVars, attempted>>

(* send_message_fn: the datagram is lost without a trace when nobody has     *)
(* bound the port or the buffer is full.                                     *)
SendMessage(t, p) ==
    /\ sends < MaxSends
    /\ sends' = sends + 1
    /\ asked' = asked \cup {<<t, p>>}
    /\ \/ up /\ net' = Append(net, Packed(t, p))
       \/ UNCHANGED net
    /\ UNCHANGED <<clock, disk, creates, errors, crashes,
                   up, decoded, files_, sweepVars, attempted>>

Kill ==
    /\ up /\ crashes < MaxCrashes
    /\ crashes' = crashes + 1
    /\ up' = FALSE /\ net' = <<>> /\ decoded' = None /\ files_' = EmptyMap
    /\ mutex_' = "free" /\ pc' = "off" /\ ss' = 0 /\ todo' = {} /\ key' = 0
    /\ names' = <<>>
    /\ UNCHANGED <<clock, disk, sends, creates, errors, asked, attempted>>

-----------------------------------------------------------------------------
(* The main thread: the constructor binds the port, Run starts the Consumer. *)

Run ==
    /\ ~up
    /\ up' = TRUE /\ pc' = "sleep"
    /\ UNCHANGED <<envVars, decoded, files_, mutex_, ss, todo, key, names, attempted>>

Read ==
    /\ up /\ decoded = None /\ net # <<>>
    /\ decoded' = Unpacked(Head(net))
    /\ net' = Tail(net)
    /\ UNCHANGED <<clock, disk, sends, creates, errors, crashes, asked,
                   up, files_, sweepVars, attempted>>

(* What the decoder makes of a buffer of zeros. *)
ErrorPair == Unpacked(Blank)

(* A failed read is reported and then decoded like any other. *)
ReadError ==
    /\ up /\ decoded = None /\ errors < MaxErrors
    /\ errors' = errors + 1
    /\ decoded' = ErrorPair
    /\ UNCHANGED <<clock, disk, net, sends, creates, crashes, asked,
                   up, files_, sweepVars, attempted>>

SlotLowerBound(t) ==
    IF \E u \in DOMAIN files_ : u >= t
    THEN CHOOSE u \in DOMAIN files_ : u >= t /\ \A v \in DOMAIN files_ : v >= t => u <= v
    ELSE t

(* The key whose vector takes the path: files_.find(timestamp). *)
Slot(t) == t

(* That vector after the insertion. *)
VectorAfter(t, p) == IF t \in DOMAIN files_ THEN Append(files_[t], p) ELSE <<p>>

InsertPair ==
    /\ decoded # None /\ mutex_ = "free"
    /\ LET t == Slot(decoded[1])
           p == decoded[2]
       IN files_' = [u \in DOMAIN files_ \cup {t} |->
                        IF u = t THEN VectorAfter(t, p) ELSE files_[u]]
    /\ attempted' = attempted \ {decoded}
    /\ decoded' = None
    /\ UNCHANGED <<envVars, up, sweepVars>>

-----------------------------------------------------------------------------
(* The Consumer thread.                                                      *)

(* One sleep_for later: take the mutex, read the clock, start at begin(). *)
ConsumerLock ==
    /\ pc = "sleep" /\ mutex_ = "free"
    /\ mutex_' = "consumer" /\ pc' = "sweep"
    /\ ss' = clock /\ todo' = DOMAIN files_
    /\ UNCHANGED <<envVars, up, decoded, files_, key, names, attempted>>

ExpiredEarly(t) == ss + 1 >= t
ExpiredLate(t) == ss > t

Expired(t) == ss >= t

(* files_iterator->first: a std::map is visited in the order of its keys. *)
IsNext(t) == t \in todo /\ \A u \in todo : t <= u

SweepKeep(t) ==
    /\ pc = "sweep" /\ IsNext(t) /\ ~Expired(t)
    /\ todo' = todo \ {t}
    /\ UNCHANGED <<envVars, up, decoded, files_, mutex_, pc, ss, key, names, attempted>>

NamesUnderButFirst(t) == Tail(files_[t])

NamesUnder(t) == files_[t]

SweepExpired(t) ==
    /\ pc = "sweep" /\ IsNext(t) /\ Expired(t)
    /\ pc' = "remove" /\ key' = t /\ names' = NamesUnder(t)
    /\ UNCHANGED <<envVars, up, decoded, files_, mutex_, ss, todo, attempted>>

(* remove() and, when it fails, perror: the sweep goes on either way. *)
RemoveFile ==
    /\ pc = "remove" /\ names # <<>>
    /\ \/ /\ Head(names) \in disk
          /\ disk' = disk \ {Head(names)}
       \/ UNCHANGED disk
    /\ attempted' = attempted \cup {<<key, Head(names)>>}
    /\ names' = Tail(names)
    /\ UNCHANGED <<clock, net, sends, creates, errors, crashes, asked,
                   up, decoded, files_, mutex_, pc, ss, todo, key>>

EraseKey ==
    /\ pc = "remove" /\ names = <<>>
    /\ files_' = [t \in DOMAIN files_ \ {key} |-> files_[t]]
    /\ todo' = todo \ {key}
    /\ pc' = "sweep"
    /\ UNCHANGED <<envVars, up, decoded, mutex_, ss, key, names, attempted>>

ConsumerUnlock ==
    /\ pc = "sweep" /\ todo = {}
    /\ mutex_' = "free" /\ pc' = "sleep"
    /\ UNCHANGED <<envVars, up, decoded, files_, ss, todo, key, names, attempted>>

-----------------------------------------------------------------------------
Main == Run \/ Read \/ ReadError \/ InsertPair
Consumer == \/ ConsumerLock \/ RemoveFile \/ EraseKey \/ ConsumerUnlock
            \/ \E t \in todo : SweepKeep(t) \/ SweepExpired(t)

Next ==
    \/ Tock \/ Kill \/ \E p \in Paths : Create(p)
    \/ \E t \in Stamps, p \in Paths : SendMessage(t, p)
    \/ Main \/ Consumer

Spec == Init /\ [][Next]_vars

(* The OS runs both threads and time passes.  Nothing obliges read() to fail,*)
(* a client to send or a signal to arrive.  InsertPair is asked for strong   *)
(* fairness: the Consumer takes the mutex again and again, but sleeps for a  *)
(* second each time without it, so the main thread gets its turn.            *)
Fairness ==
    /\ WF_vars(Tock) /\ WF_vars(Run) /\ WF_vars(Read) /\ SF_vars(InsertPair)
    /\ WF_vars(Consumer)

FairSpec == Spec /\ Fairness

-----------------------------------------------------------------------------
(* Properties.                                                               *)

(* Every path in the map stands under a timestamp a client asked for, or is  *)
(* the empty path a failed read leaves there: no order of datagrams, no      *)
(* collision of timestamps and no interleaving with a sweep moves a path to  *)
(* another time.                                                             *)
FilesAsAsked ==
    \A t \in DOMAIN files_ : \A i \in DOMAIN files_[t] :
        <<t, files_[t][i]>> \in asked \cup {<<0, NoPath>>}

(* A file is removed only when a client has asked for a time that has come;  *)
(* files_, the key and the names read from it, the sweep's reading of the    *)
(* clock and the file's re-creation are all older than the removal.          *)
NoEarlyRemoval ==
    [][\A p \in disk \ disk' : \E t \in Stamps : t <= clock /\ <<t, p>> \in asked]_vars

(* When the sweep gives the mutex back, no key it should have expired is     *)
(* left in the map.                                                          *)
SweepLeavesNoneDue ==
    [][pc = "sweep" /\ pc' = "sleep" => \A t \in DOMAIN files_' : t > ss]_vars

(* A key leaves the map only by a kill, or when it is due and remove() was   *)
(* called for each of its paths since that path was inserted.                *)
NoneDropped ==
    [][\A t \in DOMAIN files_ \ DOMAIN files_' :
          \/ crashes' # crashes
          \/ t <= clock /\ \A i \in DOMAIN files_[t] : <<t, files_[t][i]>> \in attempted]_vars

(* Inserted, and remove() not yet called for it. *)
Pending(t, p) ==
    t \in DOMAIN files_ /\ p \in Range(files_[t]) /\ <<t, p>> \notin attempted

(* Once the last kill is behind us, remove() is called for each registered   *)
(* file: InsertPair gets the mutex between two sweeps, the sweep gets to     *)
(* every key, and one file that cannot be removed does not keep the others.  *)
EventuallyTried ==
    \A p \in Paths : \A t \in Stamps :
        (crashes = MaxCrashes /\ Pending(t, p)) ~> (<<t, p>> \in attempted)
=============================================================================
