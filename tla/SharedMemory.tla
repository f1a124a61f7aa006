---------------------------- MODULE SharedMemory ----------------------------
(***************************************************************************)
(* grimoire/shm.c: processes that share a buffer and the semaphore in front *)
(* of it.  Every process initialises the semaphore, also one that another   *)
(* process already holds; every process that leaves the loop unlinks the    *)
(* path, whatever object that names by then.  The buffer is tested outside  *)
(* the semaphore, while fgets may be half way through it.                   *)
(***************************************************************************)
EXTENDS Naturals, FiniteSets

CONSTANTS
    Procs,
    MaxStarts,   \* bound on how often processes are started
    MaxObjects   \* bound on how often the path is created anew

ASSUME SharedMemoryAssumption ==
    IsFiniteSet(Procs) /\ MaxStarts \in Nat /\ MaxObjects \in Nat

Objects == 1..MaxObjects
Lines == {"end", "end\n", "other\n"}   \* the last line of an input may lack its newline

VARIABLES
    named,      \* the object the path stands for, or 0
    created,    \* how many objects there have been
    sem, data,  \* struct resource, of each object
    at_,        \* where each process is; "off" if it does not run
    res,        \* the object it has mapped
    line,       \* the line fgets is giving it
    starts,
    late,       \* history variable: how often sem_init found a process inside
    abandoned   \* history variable: the objects held by a process that was killed

objectVars == <<named, created, data>>
shmVars == <<objectVars, sem, at_, res, line, starts, late, abandoned>>

ShmInit ==
    /\ named = 0 /\ created = 0 /\ starts = 0 /\ abandoned = {}
    /\ sem = [o \in Objects |-> 0] /\ data = [o \in Objects |-> ""] /\ late = [o \in Objects |-> 0]
    /\ at_ = [p \in Procs |-> "off"] /\ res = [p \in Procs |-> 0] /\ line = [p \in Procs |-> ""]

Inside(o) == {p \in Procs : at_[p] \in {"in", "reading", "post"} /\ res[p] = o}

Goto(p, place) == at_' = [at_ EXCEPT ![p] = place]

-----------------------------------------------------------------------------
(* shm_open with O_CREAT, ftruncate and mmap. *)
ShmOpen(p) ==
    /\ at_[p] = "off" /\ starts < MaxStarts
    /\ IF named # 0 THEN UNCHANGED <<named, created>>
                   ELSE created < MaxObjects /\ created' = created + 1 /\ named' = created'
    /\ res' = [res EXCEPT ![p] = named']
    /\ starts' = starts + 1
    /\ Goto(p, "sem_init")
    /\ UNCHANGED <<sem, data, line, late, abandoned>>

InitialValueTwo == 2

InitialValue == 1

SemInit(p) ==
    /\ at_[p] = "sem_init"
    /\ sem' = [sem EXCEPT ![res[p]] = InitialValue]
    /\ late' = [late EXCEPT ![res[p]] = IF Inside(res[p]) = {} THEN @ ELSE @ + 1]
    /\ abandoned' = abandoned \ {res[p]}
    /\ Goto(p, "test")
    /\ UNCHANGED <<objectVars, res, line, starts>>

(* strncmp: only "end" without a newline ends the loop. *)
Test(p) ==
    /\ at_[p] = "test"
    /\ Goto(p, IF data[res[p]] = "end" THEN "unlink" ELSE "sem_wait")
    /\ UNCHANGED <<objectVars, sem, res, line, starts, late, abandoned>>

SemWait(p) ==
    /\ at_[p] = "sem_wait" /\ sem[res[p]] > 0
    /\ sem' = [sem EXCEPT ![res[p]] = @ - 1]
    /\ Goto(p, "in")
    /\ UNCHANGED <<objectVars, res, line, starts, late, abandoned>>

(* What the buffer may hold while a line is being copied into zeroes. *)
Torn(l) == IF l = "other\n" THEN {"", l} ELSE {"", "end", l}

FgetsBegin(p) ==
    /\ at_[p] = "in"
    /\ \E l \in Lines : \E part \in Torn(l) :
        line' = [line EXCEPT ![p] = l] /\ data' = [data EXCEPT ![res[p]] = part]
    /\ Goto(p, "reading")
    /\ UNCHANGED <<named, created, sem, res, starts, late, abandoned>>

(* The rest of the line, and bzero. *)
FgetsEnd(p) ==
    /\ at_[p] = "reading"
    /\ data' = [data EXCEPT ![res[p]] = line[p]] /\ line' = [line EXCEPT ![p] = ""]
    /\ Goto(p, "post")
    /\ UNCHANGED <<named, created, sem, res, starts, late, abandoned>>

(* At the end of the input fgets leaves the buffer alone. *)
FgetsNothing(p) ==
    /\ at_[p] = "in"
    /\ Goto(p, "post")
    /\ UNCHANGED <<objectVars, sem, res, line, starts, late, abandoned>>

SemPost(p) ==
    /\ at_[p] = "post"
    /\ sem' = [sem EXCEPT ![res[p]] = @ + 1]
    /\ Goto(p, "test")
    /\ UNCHANGED <<objectVars, res, line, starts, late, abandoned>>

(* shm_unlink of the path, and the end of the process. *)
ShmUnlink(p) ==
    /\ at_[p] = "unlink"
    /\ named' = 0
    /\ Goto(p, "off")
    /\ UNCHANGED <<created, sem, data, res, line, starts, late, abandoned>>

(* The usual end: an interrupt from the terminal, anywhere. *)
Interrupt(p) ==
    /\ at_[p] # "off"
    /\ abandoned' = IF p \in Inside(res[p]) THEN abandoned \cup {res[p]} ELSE abandoned
    /\ line' = [line EXCEPT ![p] = ""]
    /\ Goto(p, "off")
    /\ UNCHANGED <<objectVars, sem, res, starts, late>>

ShmNext ==
    \E p \in Procs :
        \/ ShmOpen(p) \/ SemInit(p) \/ Test(p) \/ SemWait(p)
        \/ FgetsBegin(p) \/ FgetsEnd(p) \/ FgetsNothing(p)
        \/ SemPost(p) \/ ShmUnlink(p) \/ Interrupt(p)

ShmSpec == ShmInit /\ [][ShmNext]_shmVars

-----------------------------------------------------------------------------
(* The semaphore lets one process into the buffer, and one more for each time *)
(* a newcomer initialised it over the head of somebody inside; and a process  *)
(* waits only while somebody is inside or was killed there: no post is lost,  *)
(* whatever is started, unlinked and created anew in between.                 *)
PermitsAddUp ==
    \A o \in Objects :
        /\ sem[o] + Cardinality(Inside(o)) <= 1 + late[o]
        /\ sem[o] = 0 /\ (\E p \in Procs : at_[p] = "sem_wait" /\ res[p] = o)
            => Inside(o) # {} \/ o \in abandoned
=============================================================================
