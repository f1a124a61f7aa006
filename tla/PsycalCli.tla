----------------------------- MODULE PsycalCli ------------------------------
(***************************************************************************)
(* The command line of psycald (src/psycal/main.cc, session.cc, utils.cc):  *)
(* main takes the options from getopt one by one, then serves, dumps a      *)
(* file, or sends one event.  Only the option letters, the words that are   *)
(* times and the words that are not are told apart.                         *)
(***************************************************************************)
EXTENDS Naturals, Sequences, SequencesExt

CONSTANTS
    Dates,      \* the words strptime understands
    Words,      \* other words: ports, paths, texts
    Arguments   \* the argument lists main may be given

Letters == {"x", "p", "s", "h", "f", "t", "d"}

ASSUME CliAssumption ==
    /\ Arguments \subseteq Seq(Letters \cup Dates \cup Words)
    /\ Dates \cap Words = {} /\ Letters \cap (Dates \cup Words) = {}

VARIABLES
    argv,      \* the arguments; a letter stands for the option of that name
    rest,      \* those getopt has not looked at
    operands,  \* those it has put off to the end, which is where optind stops
    server_mode_, maybe_timestamp_, dump_filepath_,
    outcome,   \* "none", or what the process did
    taken      \* history variable: the options served, with their arguments

sessionVars == <<server_mode_, maybe_timestamp_, dump_filepath_>>
cliVars == <<argv, rest, operands, sessionVars, outcome, taken>>

CliInit ==
    /\ argv \in Arguments
    /\ rest = argv /\ operands = <<>>
    /\ server_mode_ = FALSE /\ maybe_timestamp_ = {} /\ dump_filepath_ = <<>>
    /\ outcome = "none" /\ taken = <<>>

(* main without arguments. *)
NoArguments ==
    /\ outcome = "none" /\ argv = <<>>
    /\ outcome' = "usage"
    /\ UNCHANGED <<argv, rest, operands, sessionVars, taken>>

-----------------------------------------------------------------------------
(* getopt with the string "x:pshft:".                                        *)

Parsing == outcome = "none" /\ rest # <<>>

Operand ==
    /\ Parsing /\ Head(rest) \notin Letters
    /\ operands' = Append(operands, Head(rest)) /\ rest' = Tail(rest)
    /\ UNCHANGED <<argv, sessionVars, outcome, taken>>

(* The letters that have a colon behind them. *)
TakesArgument == {"x", "t"}

(* getopt returns letter, having consumed used arguments. *)
Option(letter, used) ==
    /\ Parsing /\ Head(rest) = letter /\ Len(rest) >= used
    /\ rest' = SubSeq(rest, used + 1, Len(rest))
    /\ taken' = Append(taken, SubSeq(rest, 1, used))
    /\ UNCHANGED <<argv, operands>>

ProcessTimestampAny(word) == {word}

(* One of the two formats fits, or std::nullopt. *)
ProcessTimestamp(word) == {word} \cap Dates

OptionT ==
    /\ Option("t", 2)
    /\ maybe_timestamp_' = ProcessTimestamp(rest[2])
    /\ UNCHANGED <<server_mode_, dump_filepath_, outcome>>

OptionX ==
    /\ Option("x", 2)
    /\ dump_filepath_' = <<rest[2]>>
    /\ UNCHANGED <<server_mode_, maybe_timestamp_, outcome>>

OptionS ==
    /\ Option("s", 1)
    /\ server_mode_' = TRUE
    /\ UNCHANGED <<maybe_timestamp_, dump_filepath_, outcome>>

(* foreground_ is set and never read. *)
OptionF == Option("f", 1) /\ UNCHANGED <<sessionVars, outcome>>

(* p takes no argument, so optarg is null, and the stringstream that         *)
(* PortStrIntoInt makes of it throws.                                        *)
OptionP == Option("p", 1) /\ outcome' = "threw" /\ UNCHANGED sessionVars

OptionH == Option("h", 1) /\ outcome' = "usage" /\ UNCHANGED sessionVars

(* d is missing from the string, and x or t may lack its argument. *)
BadOption ==
    /\ Parsing /\ Head(rest) \in Letters
    /\ Head(rest) = "d" \/ (Head(rest) \in TakesArgument /\ Len(rest) = 1)
    /\ outcome' = "failure"
    /\ UNCHANGED <<argv, rest, operands, sessionVars, taken>>

-----------------------------------------------------------------------------
(* The rest of main.                                                         *)

Parsed == outcome = "none" /\ argv # <<>> /\ rest = <<>>

StartServer ==
    /\ Parsed /\ server_mode_
    /\ outcome' = "server"
    /\ UNCHANGED <<argv, rest, operands, sessionVars, taken>>

DumpEvents ==
    /\ Parsed /\ ~server_mode_ /\ dump_filepath_ # <<>>
    /\ outcome' = "dumped"
    /\ UNCHANGED <<argv, rest, operands, sessionVars, taken>>

Client == Parsed /\ ~server_mode_ /\ dump_filepath_ = <<>>

(* No text, or no valid time. *)
Refuse ==
    /\ Client /\ (operands = <<>> \/ maybe_timestamp_ = {})
    /\ outcome' = "failure"
    /\ UNCHANGED <<argv, rest, operands, sessionVars, taken>>

SendEvent ==
    /\ Client /\ operands # <<>> /\ maybe_timestamp_ # {}
    /\ outcome' = "sent"
    /\ UNCHANGED <<argv, rest, operands, sessionVars, taken>>

CliNext ==
    \/ NoArguments \/ Operand
    \/ OptionT \/ OptionX \/ OptionS \/ OptionF \/ OptionP \/ OptionH \/ BadOption
    \/ StartServer \/ DumpEvents \/ Refuse \/ SendEvent

CliSpec == CliInit /\ [][CliNext]_cliVars

-----------------------------------------------------------------------------
Given(letter) == {k \in DOMAIN taken : taken[k][1] = letter}

(* An event is sent only if the last -t gave a time that strptime            *)
(* understands and there is a text besides; neither an earlier valid time    *)
(* nor an argument swallowed by another option can stand in for them.        *)
SentAsAsked ==
    outcome = "sent" =>
        /\ operands # <<>> /\ Given("s") = {} /\ Given("x") = {}
        /\ Given("t") # {} /\ taken[Max(Given("t"))][2] \in Dates
=============================================================================
