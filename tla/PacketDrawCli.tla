--------------------------- MODULE PacketDrawCli ----------------------------
(***************************************************************************)
(* The command line of packetdraw (src/packetdraw/main.c): options fill in  *)
(* the session and the client's request, then main serves, sends, or does   *)
(* neither.  An option getopt does not accept only prints the usage.        *)
(* Integers are as wide as IntRange and PortRange say; both are multiples   *)
(* of the colours' 256, like 2^32 and 2^16.                                 *)
(***************************************************************************)
EXTENDS Integers, Sequences, SequencesExt

CONSTANTS
    Commands   \* the command lines: option letters, and words

ASSUME CommandsAssumption == Commands \subseteq Seq(STRING)

IntRange  == 2048
PortRange == 1024

VARIABLES
    command, optind,   \* the arguments, and how many getopt has used up
    sess,              \* struct session, with the struct client in it
    drawEnd,           \* "none", or how the process ended
    served             \* history variable: the options served, with their arguments

drawVars == <<command, optind, sess, drawEnd, served>>

Type == "type"
Numbers == {"x", "y", "w", "h"}
Colours == {"r", "g", "b"}

NewSession ==
    [server_mode |-> FALSE, client_mode |-> FALSE, host |-> "", port |-> 0,
     cl |-> [f \in Numbers \cup Colours \cup {Type} |-> IF f = Type THEN "UNKNOWN" ELSE 0]]

DrawInit ==
    /\ command \in Commands
    /\ optind = 0 /\ sess = NewSession /\ drawEnd = "none" /\ served = <<>>

-----------------------------------------------------------------------------
(* What strtol reads in a word: no number in some, and more than a long in    *)
(* "huge"; "wide" is three more than an int holds.                            *)
Strtol(word) ==
    CASE word = "7" -> {7} [] word = "300" -> {300} [] word = "-1" -> {-1}
      [] word = "wide" -> {IntRange + 3} [] OTHER -> {}

(* The same in both, parse_int_or_die and parse_uint32_or_die: the value goes *)
(* through an int.                                                            *)
ParseOrDie(word) == {n % IntRange : n \in Strtol(word)}

Shape(word) ==
    CASE word = "pixel" -> "PIXEL" [] word = "line" -> "LINE" [] word = "rect" -> "RECTANGLE"
      [] OTHER -> "UNKNOWN"

-----------------------------------------------------------------------------
(* getopt with "h:p:sct:x:y:w:k:r:g:b:".                                      *)

Flags  == {"s", "c"}
Valued == {"h", "p", "t", "x", "y", "w", "k", "r", "g", "b"}

Looking == drawEnd = "none" /\ optind < Len(command)
Opt == command[optind + 1]
OptArg == command[optind + 2]

Serve(letters, used) ==
    /\ Looking /\ Opt \in letters /\ optind + used <= Len(command)
    /\ optind' = optind + used
    /\ served' = Append(served, SubSeq(command, optind + 1, optind + used))
    /\ UNCHANGED command

(* Words that are no options are put off, and never looked at. *)
SkipOperand ==
    /\ Looking /\ Opt \notin Flags \cup Valued \cup {"-1", "q"}
    /\ optind' = optind + 1
    /\ UNCHANGED <<command, sess, drawEnd, served>>

(* An unknown letter, or an option without its argument. *)
PrintUsage ==
    /\ Looking
    /\ Opt \in {"-1", "q"} \/ (Opt \in Valued /\ optind + 1 = Len(command))
    /\ optind' = optind + 1
    /\ UNCHANGED <<command, sess, drawEnd, served>>

OptionMode ==
    /\ Serve(Flags, 1)
    /\ sess' = IF Opt = "s" THEN [sess EXCEPT !.server_mode = TRUE]
                            ELSE [sess EXCEPT !.client_mode = TRUE]
    /\ UNCHANGED drawEnd

OptionHost ==
    /\ Serve({"h"}, 2)
    /\ sess' = [sess EXCEPT !.host = OptArg]
    /\ UNCHANGED drawEnd

OptionType ==
    /\ Serve({"t"}, 2)
    /\ sess' = [sess EXCEPT !.cl[Type] = Shape(OptArg)]
    /\ UNCHANGED drawEnd

FieldOfLetterW(letter) == IF letter = "k" THEN "w" ELSE letter

(* -h is taken by the host. *)
FieldOf(letter) == IF letter = "k" THEN "h" ELSE letter

(* p, x, y, w, k, r, g and b; exit() if there is no number. *)
OptionNumber ==
    /\ Serve(Valued \ {"h", "t"}, 2)
    /\ \/ ParseOrDie(OptArg) = {} /\ drawEnd' = "died" /\ UNCHANGED sess
       \/ \E n \in ParseOrDie(OptArg) :
            /\ sess' = CASE Opt = "p" -> [sess EXCEPT !.port = n]
                         [] Opt \in Colours -> [sess EXCEPT !.cl[Opt] = n % 256]
                         [] OTHER -> [sess EXCEPT !.cl[FieldOf(Opt)] = n]
            /\ UNCHANGED drawEnd

-----------------------------------------------------------------------------
(* The rest of main: -s comes before -c. *)
MainEnd(outcome) == drawEnd = "none" /\ optind = Len(command) /\ drawEnd' = outcome

RenderLoop ==
    /\ MainEnd("served") /\ sess.server_mode
    /\ UNCHANGED <<command, optind, sess, served>>

(* cl.port has 16 bits; a request of unknown type is not sent. *)
SendMessage ==
    /\ MainEnd(IF sess.cl[Type] = "UNKNOWN" THEN "unsent" ELSE "sent")
    /\ ~sess.server_mode /\ sess.client_mode
    /\ sess' = [sess EXCEPT !.port = @ % PortRange]
    /\ UNCHANGED <<command, optind, served>>

NeitherMode ==
    /\ MainEnd("nothing") /\ ~sess.server_mode /\ ~sess.client_mode
    /\ UNCHANGED <<command, optind, sess, served>>

DrawNext ==
    \/ SkipOperand \/ PrintUsage \/ OptionMode \/ OptionHost \/ OptionType \/ OptionNumber
    \/ RenderLoop \/ SendMessage \/ NeitherMode

DrawSpec == DrawInit /\ [][DrawNext]_drawVars

-----------------------------------------------------------------------------
LastArg(letter) ==
    LET k == SelectLastInSeq(served, LAMBDA option : option[1] = letter)
    IN  IF k = 0 THEN {} ELSE {served[k][2]}

(* A request goes out only if -c and a known shape were given and -s was not, *)
(* and every field in it is what the last option for that field says: none is *)
(* filled from another option, from a flag swallowed as an argument, or from  *)
(* an earlier value; a colour is the low byte of its number.                  *)
RequestAsGiven ==
    drawEnd = "sent" =>
        /\ \E k \in DOMAIN served : served[k] = <<"c">>
        /\ \A k \in DOMAIN served : served[k] # <<"s">>
        /\ \E shape \in LastArg("t") : sess.cl[Type] = Shape(shape) /\ sess.cl[Type] # "UNKNOWN"
        /\ \A pair \in {<<"x", "x">>, <<"y", "y">>, <<"w", "w">>, <<"k", "h">>} :
            IF LastArg(pair[1]) = {} THEN sess.cl[pair[2]] = 0
            ELSE \E n \in UNION {Strtol(word) : word \in LastArg(pair[1])} :
                    sess.cl[pair[2]] = n % IntRange
        /\ \A c \in Colours :
            IF LastArg(c) = {} THEN sess.cl[c] = 0
            ELSE \E n \in UNION {Strtol(word) : word \in LastArg(c)} : sess.cl[c] = n % 256
=============================================================================
