---------------------------- MODULE CommandLines ----------------------------
(***************************************************************************)
(* The two programs whose main takes its options from getopt in a loop and  *)
(* then decides, from what the options left behind, whether to send.        *)
(***************************************************************************)
EXTENDS PsycalCli, PacketDrawCli

(* Both option loops end with what a reader of the command line expects.      *)
OptionsAsGiven == SentAsAsked /\ RequestAsGiven
=============================================================================
