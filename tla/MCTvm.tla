------------------------------- MODULE MCTvm --------------------------------
(* Programs for the assembler, line by line. *)
EXTENDS Tvm

Tok(type, value, size, second, head, tail, hextail) ==
    [type |-> type, value |-> value, size |-> size, second |-> second,
     head |-> head, tail |-> tail, hextail |-> hextail]

Ins(v, size, second, hextail) == Tok("Instruction", v, size, second, 0, 0, hextail)
Seg(v, size, second, hextail) == Tok("Segment", v, size, second, 0, 0, hextail)
Reg(i) == Tok("Register", "R", 2, 48 + i, 0, i, i)

ORIG == Seg(".ORIG", 5, 79, 0)
STRINGZ == Seg(".STRINGZ", 8, 83, 0)
BLKW == Seg(".BLKW", 5, 66, 11)
FILL == Seg(".FILL", 5, 70, 15)
END  == Seg(".END", 4, 69, 14)

AND == Ins("AND", 3, 78, 0)
ADD == Ins("ADD", 3, 68, 221)
NOT == Ins("NOT", 3, 79, 0)
LDR == Ins("LDR", 3, 68, 13)
LD  == Ins("LD", 2, 68, 13)
LEA == Ins("LEA", 3, 69, 234)
ST  == Ins("ST", 2, 84, 0)
LDI == Ins("LDI", 3, 68, 13)
BR(v) == Ins(v, IF v = "BR" THEN 2 ELSE IF v \in {"BRn", "BRz", "BRp"} THEN 3 ELSE 4, 82, 0)
PUTS == Ins("PUTS", 4, 85, 0)
HALT == Ins("HALT", 4, 65, 10)
JMP == Ins("JMP", 3, 77, 0)

Var  == Tok("Label", "VAR", 3, 65, 0, 0, 10)
L1   == Tok("Label", "L1", 2, 49, 0, 1, 1)
Str  == Tok("String", "\"name\"", 6, 110, 0, 0, 0)
x3000  == Tok("HexNumber", "x3000", 5, 51, 0, 3000, 12288)
Minus1 == Tok("NumberLiteral", "#-1", 3, 45, 0, -1, -1)
Zero   == Tok("NumberLiteral", "#0", 2, 48, 0, 0, 0)
Large  == Tok("NumberLiteral", "#90000", 6, 57, 0, 90000, 589824)
Ten  == Tok("NumberLiteral", "10", 2, 48, 10, 0, 0)
One  == Tok("NumberLiteral", "1", 1, 0, 1, 0, 0)
Colon == Tok("Punct", ":", 1, 0, 0, 0, 0)

(* Statements that Parse has a case for, statements that it has none for, and *)
(* lines that are cut short or in which something else stands where an operand *)
(* should, in programs of up to three lines; more statements in shorter ones. *)
Handled == {
    <<ORIG, x3000>>, <<Var, STRINGZ, Str>>, <<L1, BLKW, Ten>>, <<STRINGZ, Str>>,
    <<L1, ADD, Reg(0), Reg(1), Minus1>>, <<AND, Reg(3), Reg(0), Large>>,
    <<LDR, Reg(0), Reg(1), Minus1>>, <<LD, Reg(2), Minus1>>, <<ST, Reg(1), Var>>, <<HALT>>}
Unhandled == {<<Var, FILL, x3000>>, <<JMP, Reg(1)>>}
Fragments == {<<Var>>, <<ORIG>>, <<ADD, Reg(1)>>, <<NOT, One, Reg(1)>>, <<L1, Colon>>}
AlsoHandled ==
    {<<BR(v), t>> : v \in Branches, t \in {L1, Minus1}} \cup {
    <<END>>, <<PUTS>>, <<NOT, Reg(3), Reg(2)>>, <<LEA, Reg(3), Var>>, <<LEA, Reg(1), Minus1>>,
    <<AND, Reg(1), Reg(2), Reg(3)>>, <<ADD, Reg(1), Reg(1), One>>,
    <<ST, Reg(1), Minus1>>, <<ST, Reg(1), Zero>>}
AlsoUnhandled == {<<LDI, Reg(1), Var>>}

MCGoodLines == Handled \cup AlsoHandled
MCSources ==
    LET common == Handled \cup Unhandled \cup Fragments
    IN  SeqOf(common, 3) \cup SeqOf(common \cup AlsoHandled \cup AlsoUnhandled, 2)
=============================================================================
