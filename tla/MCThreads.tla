----------------------------- MODULE MCThreads ------------------------------
(* The threads of lbos and of multi-vector and the processes of shm: in a      *)
(* behaviour those of one program run, and the others are at rest.             *)
EXTENDS MCSumWorkers, Lbos, SharedMemory

LbosRest ==
    /\ args = <<>> /\ status = "success" /\ demo = "none"
    /\ pc = [t \in Threads |-> "end"] /\ left = [t \in Threads |-> 0]
    /\ cnt = [t \in Threads |-> 0] /\ counter = 0 /\ mm = "free"
    /\ sa = 0 /\ sb = 0 /\ printed = <<>>

ShmRest ==
    /\ named = 0 /\ created = 0 /\ starts = MaxStarts /\ abandoned = {}
    /\ sem = [o \in Objects |-> 0] /\ data = [o \in Objects |-> ""] /\ late = [o \in Objects |-> 0]
    /\ at_ = [p \in Procs |-> "off"] /\ res = [p \in Procs |-> 0] /\ line = [p \in Procs |-> ""]

SumRest ==
    /\ num_elements_ = 1 /\ num_threads_ = 1 /\ grain_ = 1 /\ step_ = 0 /\ ranges = <<>>
    /\ main = "rest" /\ range_slot = [first |-> 0, second |-> 0]
    /\ workPc = <<>> /\ idx = <<>> /\ sum = <<>> /\ items_ = <<>> /\ final_sum = 0

ThreadsInit ==
    \/ Init /\ ShmRest /\ SumRest
    \/ LbosRest /\ ShmInit /\ SumRest
    \/ LbosRest /\ ShmRest /\ SumInit

ThreadsNext ==
    \/ Next /\ UNCHANGED <<shmVars, sumVars>>
    \/ ShmNext /\ UNCHANGED <<vars, sumVars>>
    \/ SumNext /\ UNCHANGED <<vars, shmVars>>

ThreadsSpec ==
    /\ ThreadsInit /\ [][ThreadsNext]_<<vars, shmVars, sumVars>>
    /\ WF_vars(Main) /\ \A t \in Threads : WF_vars(Thread(t))
=============================================================================
