--------------------------- MODULE MCInterpreters ---------------------------
(* The brainfuck interpreter, the shell and the assembler: in a behaviour one *)
(* of them has a program, and the others are at rest.                         *)
EXTENDS MCBrainfuck, MCPshy, MCTvm

BrainfuckRest ==
    /\ mCode = <<>> /\ mCodePos = 0 /\ mCellPos = 0 /\ mCells = [c \in 0 .. mMaxCells - 1 |-> 0]
    /\ mStatus = "success" /\ pc = "run" /\ skip = 0 /\ from = 0 /\ mOutput = 0
ShellRest ==
    /\ typed = <<>> /\ chunk = 1 /\ taken = 0 /\ handled = <<>> /\ nested = FALSE
    /\ procs = [p \in Pids |-> Free]
TvmRest ==
    /\ tokens = <<>> /\ good = FALSE /\ pass = "done" /\ it = 1 /\ rows = <<>> /\ row = 1
    /\ offset = 0 /\ address = <<>> /\ symtab_ = <<>> /\ data = <<>> /\ file = <<>>

InterpretersInit ==
    \/ Init /\ ShellRest /\ TvmRest
    \/ BrainfuckRest /\ ShellInit /\ TvmRest
    \/ BrainfuckRest /\ ShellRest /\ TvmInit

InterpretersNext ==
    \/ Next /\ UNCHANGED <<shellVars, tvmVars>>
    \/ ShellNext /\ UNCHANGED <<vars, tvmVars>>
    \/ TvmNext /\ UNCHANGED <<vars, shellVars>>

InterpretersSpec ==
    /\ InterpretersInit /\ [][InterpretersNext]_<<vars, shellVars, tvmVars>>
    /\ \A p \in Pids : WF_shellVars(ShellStep(p))
    /\ WF_tvmVars(TvmNext)
=============================================================================
