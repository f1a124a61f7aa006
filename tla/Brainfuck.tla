----------------------------- MODULE Brainfuck ------------------------------
(***************************************************************************)
(* The interpreter of src/brainfuck/brainfuck.cc.  Positions in the code    *)
(* are size_t and count from 0; a jump is one step per character it looks   *)
(* at.  Reading mCode beyond its terminating zero is undefined behaviour:   *)
(* the model stops there, in the status "wild".                             *)
(***************************************************************************)
EXTENDS Integers, Sequences, FiniteSetsExt

CONSTANTS
    Codes,      \* the programs, sequences of characters
    mMaxCells,  \* 300000 in the code
    Cell,       \* 256: the cells are uint8_t
    W           \* 2^64: positions are size_t

ASSUME ConstantsAssumption ==
    /\ mMaxCells \in Nat \ {0} /\ Cell \in Nat \ {0, 1}
    /\ Codes \subseteq Seq(STRING)
    /\ W \in Nat /\ \A p \in Codes : Len(p) + 1 < W

VARIABLES
    mCode, mCodePos, mCellPos, mCells,
    mStatus,   \* "executing", "success" or "wild"
    pc,        \* "run", or "right" and "left" inside a jump
    skip,      \* brackets the jump has yet to close
    from,      \* history variable: where the last jump started
    mOutput    \* the last value written to mOutputStream

jumpVars == <<pc, skip, from>>
cellVars == <<mCellPos, mCells, mOutput>>
vars == <<mCode, mCodePos, mStatus, jumpVars, cellVars>>

Init ==
    /\ mCode \in Codes
    /\ mCodePos = 0 /\ mCellPos = 0 /\ mCells = [c \in 0 .. mMaxCells - 1 |-> 0]
    /\ mStatus = "executing"
    /\ pc = "run" /\ skip = 0 /\ from = 0 /\ mOutput = 0

Readable == mCodePos <= Len(mCode)
Char == IF mCodePos = Len(mCode) THEN "zero" ELSE mCode[mCodePos + 1]

Incr(p) == (p + 1) % W
Decr(p) == (p - 1) % W

(* The end of a turn of Run, which the last character read left at p. *)
Advance(p) ==
    /\ mCodePos' = Incr(p)
    /\ mStatus' = IF Incr(p) > Len(mCode) THEN "success" ELSE "executing"

Executing(chars) == mStatus = "executing" /\ pc = "run" /\ Readable /\ Char \in chars

-----------------------------------------------------------------------------
SetCell(v) ==
    /\ mCells' = [mCells EXCEPT ![mCellPos] = v % Cell]
    /\ UNCHANGED <<mCellPos, mOutput>>

IncrCell == Executing({"+"}) /\ SetCell(mCells[mCellPos] + 1)
DecrCell == Executing({"-"}) /\ SetCell(mCells[mCellPos] - 1)

RightOf(c) == IF c = mMaxCells - 1 THEN 0 ELSE c + 1
LeftOf(c) == IF c = 0 THEN mMaxCells - 1 ELSE c - 1

MoveCursor ==
    /\ Executing({"<", ">"})
    /\ mCellPos' = IF Char = ">" THEN RightOf(mCellPos) ELSE LeftOf(mCellPos)
    /\ UNCHANGED <<mCells, mOutput>>

OutputChar ==
    /\ Executing({"."})
    /\ mOutput' = mCells[mCellPos]
    /\ UNCHANGED <<mCellPos, mCells>>

(* What is typed goes to the output, not to the cell. *)
InputChar ==
    /\ Executing({","})
    /\ \E input \in 0 .. Cell - 1 : mOutput' = input
    /\ UNCHANGED <<mCellPos, mCells>>

(* The rest of the characters, the terminating zero among them. *)
Comment == Executing({"zero", "#"}) /\ UNCHANGED cellVars

(* A bracket on a cell that is not zero. *)
EnterLoop == Executing({"["}) /\ mCells[mCellPos] # 0 /\ UNCHANGED cellVars

Plain ==
    /\ \/ IncrCell \/ DecrCell \/ MoveCursor \/ OutputChar \/ InputChar
       \/ Comment \/ EnterLoop
    /\ Advance(mCodePos)
    /\ UNCHANGED <<mCode, jumpVars>>

-----------------------------------------------------------------------------
JumpLBrackUnmoved ==
    /\ Executing({"["}) /\ mCells[mCellPos] = 0
    /\ pc' = "right" /\ skip' = 1 /\ from' = mCodePos
    /\ UNCHANGED <<mCode, mCodePos, mStatus, cellVars>>

(* JumpLBrack: on a zero cell, forward to behind the matching bracket. *)
JumpLBrack ==
    /\ Executing({"["}) /\ mCells[mCellPos] = 0
    /\ pc' = "right" /\ skip' = 1 /\ from' = mCodePos
    /\ mCodePos' = Incr(mCodePos)
    /\ UNCHANGED <<mCode, mStatus, cellVars>>

(* JumpRBrack: back to the matching bracket, whatever the cell holds. *)
JumpRBrack ==
    /\ Executing({"]"})
    /\ pc' = "left" /\ skip' = 1 /\ from' = mCodePos
    /\ mCodePos' = Decr(mCodePos)
    /\ UNCHANGED <<mCode, mStatus, cellVars>>

SkipAfter(open, close) ==
    CASE Char = open  -> skip + 1
      [] Char = close -> skip - 1
      [] OTHER        -> skip

ScanRight ==
    /\ pc = "right" /\ Readable
    /\ skip' = SkipAfter("[", "]")
    /\ IF skip' = 0 THEN pc' = "run" /\ Advance(mCodePos)
                    ELSE pc' = pc /\ mCodePos' = Incr(mCodePos) /\ UNCHANGED mStatus
    /\ UNCHANGED <<mCode, from, cellVars>>

LandAt(p) == p

(* The loop steps back once more after the match, Run forward again. *)
LandBehind(p) == Decr(p)

ScanLeft ==
    /\ pc = "left" /\ Readable
    /\ skip' = SkipAfter("]", "[")
    /\ IF skip' = 0 THEN pc' = "run" /\ Advance(LandBehind(mCodePos))
                    ELSE pc' = pc /\ mCodePos' = Decr(mCodePos) /\ UNCHANGED mStatus
    /\ UNCHANGED <<mCode, from, cellVars>>

OffTheCode ==
    /\ mStatus = "executing" /\ ~Readable
    /\ mStatus' = "wild"
    /\ UNCHANGED <<mCode, mCodePos, jumpVars, cellVars>>

Next == Plain \/ JumpLBrack \/ JumpRBrack \/ ScanRight \/ ScanLeft \/ OffTheCode

Spec == Init /\ [][Next]_vars

-----------------------------------------------------------------------------
Count(c, lo, hi) == Cardinality({k \in lo .. hi : mCode[k] = c})
Depth(lo, hi) == Count("[", lo, hi) - Count("]", lo, hi)

(* Brackets close in the order of their opening. *)
WellBracketed ==
    /\ \A k \in 1 .. Len(mCode) : Depth(1, k) >= 0
    /\ Depth(1, Len(mCode)) = 0

(* Validate: the unsigned cursor is back at zero. *)
Validate == Depth(1, Len(mCode)) % W = 0

(* The bracket that belongs to the one at position p, both from 0. *)
MatchRight(p) == Min({q \in p + 1 .. Len(mCode) - 1 : Depth(p + 1, q + 1) = 0})
MatchLeft(p) == Max({q \in 0 .. p - 1 : Depth(q + 1, p + 1) = 0})

(* A program with well-nested brackets never makes the interpreter read      *)
(* outside the code, although a jump back to a bracket at position 0 takes   *)
(* mCodePos below zero on its way; and Validate lets every such program      *)
(* through.                                                                  *)
StaysOnTheCode == WellBracketed => Validate /\ mStatus # "wild"

(* A jump of a well-bracketed program ends at the partner of the bracket it  *)
(* started from, however deep it is nested: forward jumps behind it, jumps   *)
(* back on it, where the loop's test is made.                                *)
JumpsToPartner ==
    [][WellBracketed =>
          /\ pc = "right" /\ pc' = "run" => mCodePos' = MatchRight(from) + 1
          /\ pc = "left" /\ pc' = "run" => mCodePos' = MatchLeft(from)]_vars

=============================================================================
