-------------------------------- MODULE Pshy --------------------------------
(***************************************************************************)
(* The shell pshy (src/pshy): it reads a line into a growing buffer,        *)
(* splits it into words, runs the builtins itself and forks a child for     *)
(* everything else, which it waits for.  A child whose execvp fails falls   *)
(* back into the shell's loop, as a shell under the shell, reading the same *)
(* standard input.                                                          *)
(*                                                                          *)
(* A symbol of a line stands for a run of characters: a word, or the space  *)
(* between two.  Standard input is a terminal, which hands out one line per *)
(* read(2), or a pipe, where one read fills the stdio buffer with several;  *)
(* that buffer is memory of the process, and fork copies it.                *)
(***************************************************************************)
EXTENDS Naturals, Sequences, SequencesExt, FiniteSets

CONSTANTS
    Lines,      \* the lines that may be typed, each a sequence of symbols
    MaxLines,   \* bound on how many lines are typed
    Pids,       \* the processes there may be; fork fails when all are taken
    Shell,      \* the process main() runs in
    Cap0,       \* the first capacity of a buffer (64 in the code)
    Programs    \* the words execvp finds a program for

NUL == "\\0"
Noise == "?"     \* a byte realloc left as it was
NoWord == "NULL"

ASSUME ShellAssumption == Shell \in Pids /\ Cap0 \in Nat \ {0, 1} /\ MaxLines \in Nat

(* What is typed is text. *)
ASSUME LinesAssumption ==
    Lines \subseteq Seq(STRING) /\ \A line \in Lines : \A i \in DOMAIN line : line[i] # NUL

VARIABLES
    typed,    \* what will have been typed on standard input, line by line
    chunk,    \* how many lines one read(2) may return
    taken,    \* how many lines read(2) has handed out
    procs,    \* the process table
    handled,  \* history variable: the words of every line, as some shell took it
    nested    \* history variable: an execvp has failed

shellVars == <<typed, chunk, taken, procs, handled, nested>>

-----------------------------------------------------------------------------
(* dynbuf.c *)

pshy_buff_create == [len |-> 0, cap |-> Cap0, data |-> [i \in 0..Cap0 - 1 |-> NUL]]

pshy_buff_add_unzeroed(buff, c) ==
    LET cap == IF buff.len + 1 >= buff.cap THEN 2 * buff.cap ELSE buff.cap
    IN  [len  |-> buff.len + 1, cap |-> cap,
         data |-> [i \in 0..cap - 1 |-> CASE i = buff.len -> c
                                          [] i # buff.len /\ i < buff.cap -> buff.data[i]
                                          [] OTHER -> Noise]]

(* The buffer doubles one character early, and all behind the place of the   *)
(* new character is zeroed: the string stays terminated.                     *)
pshy_buff_add(buff, c) ==
    LET grows == buff.len + 1 >= buff.cap
        cap   == IF grows THEN 2 * buff.cap ELSE buff.cap
        kept  == [i \in 0..cap - 1 |-> IF i < buff.cap THEN buff.data[i] ELSE Noise]
        clean == [i \in 0..cap - 1 |-> IF grows /\ i > buff.len THEN NUL ELSE kept[i]]
    IN  [len |-> buff.len + 1, cap |-> cap, data |-> [clean EXCEPT ![buff.len] = c]]

(* The buffer as the getc loop reads a line, character by character. *)
Filled(line) ==
    LET filled[n \in 0..Len(line)] ==
            IF n = 0 THEN pshy_buff_create ELSE pshy_buff_add(filled[n - 1], line[n])
    IN  filled

BufferOf == [line \in Lines |-> Filled(line)[Len(line)]]

(* What strdup copies: the data up to the first zero, wherever that is. *)
CString(buff) ==
    LET end == IF \E i \in DOMAIN buff.data : buff.data[i] = NUL
               THEN CHOOSE i \in DOMAIN buff.data :
                        buff.data[i] = NUL /\ \A j \in 0..i - 1 : buff.data[j] # NUL
               ELSE buff.cap
    IN  [i \in 1..end |-> buff.data[i - 1]]

(* tokenizer.c *)

WordsOf(symbols) == SelectSeq(symbols, LAMBDA c : c # " ")

(* strtok_r skips runs of spaces; the NULL at the end counts as a token. *)
pshy_tokens_from_buff(buff) == Append(WordsOf(CString(buff)), NoWord)

(* strncmp on the first letters: "exitnow" and "cdrom" are builtins too. *)
pshy_tokens_builtin(toks) ==
    CASE toks[1] \in {"exit", "exitnow"} -> "TOKEN_BUILTIN_EXIT"
      [] toks[1] \in {"cd", "cdrom"}     -> "TOKEN_BUILTIN_CD"
      [] OTHER                           -> "TOKEN_NOT_BUILTIN"

-----------------------------------------------------------------------------
(* shell.c *)

Free == [pc |-> "free", parent |-> Shell, child |-> Shell, stopped |-> FALSE,
         stdin |-> <<>>, toks |-> <<>>, cwd |-> "/home"]

ShellInit ==
    /\ typed \in SeqOf(Lines, MaxLines)
    /\ chunk \in {1, MaxLines}
    /\ taken = 0
    /\ procs = [p \in Pids |-> IF p = Shell THEN [Free EXCEPT !.pc = "prompt"] ELSE Free]
    /\ handled = <<>> /\ nested = FALSE

Runs(p, at) == procs[p].pc = at /\ ~procs[p].stopped
Ended == {"exited", "signaled"}
Live(p) == procs[p].pc \notin Ended \cup {"free"}

(* The lines getc has before it: the stdio buffer, refilled when empty. *)
Unread(p) ==
    IF procs[p].stdin # <<>> THEN {procs[p].stdin}
    ELSE {SubSeq(typed, taken + 1, n) : n \in {m \in DOMAIN typed : m - taken \in 1..chunk}}

(* The getc loop up to the delimiter.  An empty line prompts again, and so    *)
(* does the end of the input, for ever.                                       *)
ReadLine(p) ==
    /\ Runs(p, "prompt")
    /\ \E lines \in Unread(p) :
        LET buff == BufferOf[Head(lines)]
        IN  /\ taken' = IF procs[p].stdin = <<>> THEN taken + Len(lines) ELSE taken
            /\ procs' = [procs EXCEPT
                   ![p].stdin = Tail(lines),
                   ![p].pc    = IF buff.len = 0 THEN "prompt" ELSE "line",
                   ![p].toks  = pshy_tokens_from_buff(buff)]
            /\ handled' = Append(handled, WordsOf(CString(buff)))
    /\ UNCHANGED <<typed, chunk, nested>>

(* A line of spaces has no first word, and strncmp reads through NULL. *)
NoFirstWord(p) ==
    /\ Runs(p, "line") /\ procs[p].toks[1] = NoWord
    /\ procs' = [procs EXCEPT ![p].pc = "signaled"]
    /\ UNCHANGED <<typed, chunk, taken, handled, nested>>

BuiltinExit(p) ==
    /\ Runs(p, "line") /\ pshy_tokens_builtin(procs[p].toks) = "TOKEN_BUILTIN_EXIT"
    /\ procs' = [procs EXCEPT ![p].pc = "exited"]
    /\ UNCHANGED <<typed, chunk, taken, handled, nested>>

(* The NULL counts, so even a bare cd has two tokens: chdir(NULL) fails. *)
BuiltinCd(p) ==
    /\ Runs(p, "line") /\ pshy_tokens_builtin(procs[p].toks) = "TOKEN_BUILTIN_CD"
    /\ procs' = [procs EXCEPT ![p].pc = "prompt",
                              ![p].cwd = IF procs[p].toks[2] = "/tmp" THEN "/tmp" ELSE @]
    /\ UNCHANGED <<typed, chunk, taken, handled, nested>>

External(p) ==
    /\ Runs(p, "line") /\ procs[p].toks[1] # NoWord
    /\ pshy_tokens_builtin(procs[p].toks) = "TOKEN_NOT_BUILTIN"

(* The child is a copy of its parent, unread input included. *)
Fork(p) ==
    /\ External(p)
    /\ \E c \in Pids :
        /\ procs[c].pc = "free"
        /\ procs' = [procs EXCEPT ![c] = [procs[p] EXCEPT !.pc = "exec", !.parent = p],
                                  ![p].pc = "wait", ![p].child = c]
    /\ UNCHANGED <<typed, chunk, taken, handled, nested>>

ForkFails(p) ==
    /\ External(p)
    /\ procs' = [procs EXCEPT ![p].pc = "prompt"]
    /\ UNCHANGED <<typed, chunk, taken, handled, nested>>

(* A child that cannot execvp complains, and goes on as a shell. *)
Exec(p) ==
    /\ Runs(p, "exec")
    /\ LET found == procs[p].toks[1] \in Programs
       IN  /\ procs' = [procs EXCEPT ![p].pc = IF found THEN "running" ELSE "prompt"]
           /\ nested' = (nested \/ ~found)
    /\ UNCHANGED <<typed, chunk, taken, handled>>

WaitOverWhenStopped(child) == child.pc \in Ended \/ child.stopped
WaitOverWhenExited(child) == child.pc = "exited"

(* WUNTRACED and WCONTINUED make waitpid return for a child that was stopped  *)
(* or continued as well; the loop goes on until it exited or was killed.      *)
WaitOver(child) == child.pc \in Ended

Wait(p) ==
    /\ Runs(p, "wait")
    /\ LET c == procs[p].child
       IN  /\ WaitOver(procs[c])
           /\ procs' = [procs EXCEPT ![p].pc = "prompt",
                                     ![c] = IF procs[c].pc \in Ended THEN Free ELSE @]
    /\ UNCHANGED <<typed, chunk, taken, handled, nested>>

-----------------------------------------------------------------------------
(* The environment: programs end, and signals arrive.                        *)

ProgramEnds(p) ==
    /\ Runs(p, "running")
    /\ procs' = [procs EXCEPT ![p].pc = "exited"]
    /\ UNCHANGED <<typed, chunk, taken, handled, nested>>

(* A signal to the process that is not waiting for another one. *)
Killed(p) ==
    /\ p # Shell /\ Live(p) /\ procs[p].pc # "wait"
    /\ procs' = [procs EXCEPT ![p].pc = "signaled"]
    /\ UNCHANGED <<typed, chunk, taken, handled, nested>>

(* Control-C reaches the whole group: pshy neither catches it nor makes one. *)
Interrupt ==
    /\ Live(Shell)
    /\ procs' = [p \in Pids |-> IF Live(p) THEN [procs[p] EXCEPT !.pc = "signaled"] ELSE procs[p]]
    /\ UNCHANGED <<typed, chunk, taken, handled, nested>>

Stop(p) ==
    /\ p # Shell /\ Live(p) /\ ~procs[p].stopped
    /\ procs' = [procs EXCEPT ![p].stopped = TRUE]
    /\ UNCHANGED <<typed, chunk, taken, handled, nested>>

Continue(p) ==
    /\ Live(p) /\ procs[p].stopped
    /\ procs' = [procs EXCEPT ![p].stopped = FALSE]
    /\ UNCHANGED <<typed, chunk, taken, handled, nested>>

ShellStep(p) ==
    \/ ReadLine(p) \/ NoFirstWord(p) \/ BuiltinExit(p) \/ BuiltinCd(p)
    \/ Fork(p) \/ ForkFails(p) \/ Exec(p) \/ Wait(p) \/ ProgramEnds(p)

ShellNext ==
    Interrupt \/ \E p \in Pids : ShellStep(p) \/ Killed(p) \/ Stop(p) \/ Continue(p)

ShellSpec == ShellInit /\ [][ShellNext]_shellVars

(* Every process that can go on does: the OS schedules it, and programs end.  *)
(* Nobody need continue what is stopped.                                      *)
FairShellSpec == ShellSpec /\ \A p \in Pids : WF_shellVars(ShellStep(p))

-----------------------------------------------------------------------------
(* Properties.                                                               *)

(* The terminal has one reader: of the processes alive, all but one sit in    *)
(* waitpid for a child that is alive or not yet reaped, through failed         *)
(* execvps, stops, continues and kills.                                       *)
OneInForeground ==
    \A p, q \in Pids :
        Live(p) /\ Live(q) /\ p # q => procs[p].pc = "wait" \/ procs[q].pc = "wait"

(* Every line is taken by one shell, in the order typed and word for word,    *)
(* whichever shell of the chain reads it and however long it is; except that  *)
(* with a pipe, a failed execvp leaves two shells with the same unread lines. *)
EachLineOnce ==
    chunk = 1 \/ ~nested =>
        /\ Len(handled) <= taken
        /\ \A i \in DOMAIN handled : handled[i] = WordsOf(typed[i])

(* What is typed on a terminal is taken up, as long as the first shell lives  *)
(* and nothing stays stopped: a wait for a killed child ends like any other.  *)
EveryLineHandled ==
    chunk = 1 => []<>(\/ Len(handled) = Len(typed) \/ ~Live(Shell)
                      \/ \E p \in Pids : procs[p].stopped)
=============================================================================
