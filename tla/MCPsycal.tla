------------------------------ MODULE MCPsycal ------------------------------
(* Two events that may be due at the same or at different times, on a clock  *)
(* that runs past both.                                                      *)
EXTENDS PsycalServer, TLC

CONSTANTS a, b

MCIds == {a, b}
MCTimes == {0, 1}
Perms == Permutations(MCIds)
=============================================================================
