---------------------------- MODULE MCBrainfuck -----------------------------
(* Every program of up to six characters that nests loops, moves and counts, *)
(* and every program of up to three characters.                              *)
EXTENDS Brainfuck

Words(alphabet, n) == UNION {[1 .. k -> alphabet] : k \in 0 .. n}

MCCodes ==
    Words({"+", ">", "[", "]"}, 6) \cup Words({"+", "-", "<", ">", ".", ",", "[", "]", "#"}, 3)
=============================================================================
