-------------------------------- MODULE Tvm ---------------------------------
(***************************************************************************)
(* The assembler of src/tvm: Parse cuts the tokens into rows, BuildSymtab    *)
(* gives the labelled rows addresses, Encode turns the rows into words and   *)
(* tvmc writes them to a file.  One step is one row of a pass.               *)
(*                                                                         *)
(* The text of a token is reduced to what the assembler asks of it: its      *)
(* length, the code of its second character, and the numbers a stream reads  *)
(* from it (head) and from what follows its first character (tail in         *)
(* decimal, hextail in hexadecimal); a text without such a number reads 0.   *)
(* Pointers to tokens are their positions, and 0 is nullptr.                 *)
(***************************************************************************)
EXTENDS Integers, Sequences, SequencesExt, FiniteSetsExt

CONSTANTS
    Sources,    \* sequences of lines, which are sequences of tokens
    GoodLines   \* statements that Parse has a case for, with all their operands

Types == {"Segment", "Instruction", "Register", "Label", "NumberLiteral",
          "HexNumber", "Punct", "String", "Unknown"}
Branches == {"BR", "BRn", "BRz", "BRp", "BRnp", "BRnz", "BRzp"}
Instructions ==
    Branches \cup {"AND", "ADD", "HALT", "JMP", "LD", "LDI", "LEA", "LDR", "PUTS", "ST", "NOT"}

Tokens ==
    [type : Types, value : STRING, size : Nat \ {0}, second : 0 .. 127,
     head : Int, tail : Int, hextail : Int]

ASSUME TokensAssumption ==
    /\ Sources \subseteq Seq(Seq(Tokens))
    /\ \A p \in Sources : \A l \in Range(p) : \A t \in Range(l) :
          t.type = "Instruction" => t.value \in Instructions

VARIABLES
    tokens, good,   \* good: whether every line of the program is in GoodLines
    pass,   \* the pass, or "done", "unwritten", "aborted", "crashed", "exhausted"
    it,     \* Parse's iterator
    rows,   \* rows_
    row,    \* the row BuildSymtab or Encode is at
    offset, address, symtab_,
    data,   \* data_[0 .. len_ - 1]
    file    \* the bytes of the output file

symVars == <<offset, address, symtab_>>
tvmVars == <<tokens, good, pass, it, rows, row, symVars, data, file>>

-----------------------------------------------------------------------------
(* The numbers in a text.  A stream that reads a number out of range stores  *)
(* the largest one; a minus sign negates modulo 2^16.                        *)
U16 == 65536
ToU16(n) == IF n >= U16 \/ n <= -U16 THEN U16 - 1 ELSE n % U16

HexToU16(t) == ToU16(t.hextail)
LitValue(t) == ToU16(t.tail)
U16Value(t) == ToU16(t.head)
StringToRegister(t) == (t.second - 48) % U16

(* The bitwise or of a set of words. *)
Or(words) ==
    MapThenSumSet(LAMBDA b : 2^b, {b \in 0 .. 15 : \E w \in words : (w \div 2^b) % 2 = 1})

AsSR1(r) == (r * 64) % U16
AsDR(r) == (r * 512) % U16

OpCode(v) ==
    CASE v = "ADD" -> 1 * 4096   [] v = "LD"   -> 2 * 4096   [] v = "ST" -> 3 * 4096
      [] v = "AND" -> 5 * 4096   [] v = "NOT"  -> 9 * 4096   [] v = "LEA" -> 14 * 4096
      [] v = "BR"  -> 0          [] v = "BRn"  -> 2048       [] v = "BRz" -> 1024
      [] v = "BRp" -> 512        [] v = "BRnp" -> 2048 + 512 [] v = "BRnz" -> 2048 + 1024
      [] v = "BRzp" -> 1024 + 512
      [] v = "PUTS" -> 61440 + 34
      [] v = "HALT" -> 61440 + 37

-----------------------------------------------------------------------------
(* Parse *)

Token(p) == tokens[p]
Type(p) == IF p <= Len(tokens) THEN Token(p).type ELSE "end"

(* How many operands Parse assigns; LDI and JMP are instructions for          *)
(* Token::Classify, but Parse has no case for them.                          *)
ArityLDR2(v) ==
    CASE v \in {"AND", "ADD"} -> 3
      [] v \in {"LD", "LEA", "NOT", "ST", "LDR"} -> 2
      [] v \in Branches \cup {".ORIG", ".STRINGZ", ".BLKW"} -> 1
      [] v \in {"HALT", "PUTS", ".END"} -> 0

Arity(v) ==
    CASE v \in {"AND", "ADD", "LDR"} -> 3
      [] v \in {"LD", "LEA", "NOT", "ST"} -> 2
      [] v \in Branches \cup {".ORIG", ".STRINGZ", ".BLKW"} -> 1
      [] v \in {"HALT", "PUTS", ".END"} -> 0

Unparsed == {"LDI", "JMP"}
KnownSegments == {".END", ".ORIG", ".STRINGZ", ".BLKW"}

(* AssignOperand does nothing at the end of the tokens. *)
OperandAt(p) == IF p <= Len(tokens) THEN p ELSE 0
Behind(p, n) == Min({p + n, Len(tokens)}) + 1

Row(label, op, n) ==
    [label |-> label, op |-> op,
     operands |-> [j \in 1 .. 3 |-> IF j <= n THEN OperandAt(op + j) ELSE 0]]

Push(r, next) == rows' = Append(rows, r) /\ it' = next /\ UNCHANGED pass

(* parse_instruction and parse_segment, with a label or without one. *)
ParseOp(label, p) ==
    \/ /\ \/ Type(p) = "Instruction" /\ Token(p).value \notin Unparsed
          \/ Type(p) = "Segment" /\ Token(p).value \in KnownSegments
       /\ Push(Row(label, p, Arity(Token(p).value)), Behind(p, Arity(Token(p).value)))
    \/ /\ Type(p) = "Segment" /\ Token(p).value \notin KnownSegments
       /\ Push([label |-> p, op |-> 0, operands |-> <<OperandAt(p + 1), 0, 0>>],
               Behind(p, 1))
    \/ (* rows are pushed until memory runs out *)
       /\ Type(p) = "Instruction" /\ Token(p).value \in Unparsed
       /\ pass' = "exhausted"
       /\ UNCHANGED <<rows, it>>

ParseLabel ==
    /\ Type(it) = "Label"
    /\ \/ ParseOp(it, it + 1)
       \/ Type(it + 1) = "end" /\ it' = it + 1 /\ UNCHANGED <<rows, pass>>
       \/ /\ Type(it + 1) \notin {"end", "Instruction", "Segment"}
          /\ Push([label |-> it, op |-> 0, operands |-> <<0, 0, 0>>], it + 1)

ParseRow ==
    /\ pass = "parse" /\ it <= Len(tokens)
    /\ \/ ParseOp(0, it)
       \/ ParseLabel
       \/ /\ Type(it) \notin {"Segment", "Label", "Instruction"}
          /\ pass' = "aborted"
          /\ UNCHANGED <<rows, it>>
    /\ UNCHANGED <<tokens, good, row, symVars, data, file>>

(* The end of a pass's loop. *)
EndPass(ended, next) ==
    /\ pass = ended
    /\ pass' = next /\ row' = 1
    /\ UNCHANGED <<tokens, good, it, rows, symVars, data, file>>

ParseEnd == it > Len(tokens) /\ EndPass("parse", "symtab")

-----------------------------------------------------------------------------
(* BuildSymtab *)

Op(r) == Token(r.op).value
Arg(r, j) == Token(r.operands[j])

RowOffset(r) == IF Op(r) = ".ORIG" THEN HexToU16(Arg(r, 1)) ELSE offset

SpaceWithoutLast(r) ==
    CASE Op(r) = ".STRINGZ" -> Arg(r, 1).size - 2
      [] Op(r) = ".BLKW" -> U16Value(Arg(r, 1))
      [] OTHER -> 0

(* What a labelled row takes up: a string counts its quotes. *)
Space(r) ==
    CASE Op(r) = ".STRINGZ" -> Arg(r, 1).size
      [] Op(r) = ".BLKW" -> U16Value(Arg(r, 1))
      [] OTHER -> 0

SymtabCrashes(r) == r.op # 0 => Op(r) = ".ORIG" /\ r.operands[1] = 0

SymtabRow ==
    /\ pass = "symtab" /\ row <= Len(rows)
    /\ LET r == rows[row] IN
       \/ /\ SymtabCrashes(r)
          /\ pass' = "crashed"
          /\ UNCHANGED <<row, symVars>>
       \/ /\ ~SymtabCrashes(r)
          /\ r.label = 0 \/ r.operands[1] = 0
          /\ offset' = RowOffset(r) + 2 /\ row' = row + 1
          /\ UNCHANGED <<pass, address, symtab_>>
       \/ /\ ~SymtabCrashes(r)
          /\ r.label # 0 /\ r.operands[1] # 0
          /\ address' = [address EXCEPT ![r.label] = RowOffset(r) % U16]
          /\ symtab_' = [v \in DOMAIN symtab_ \cup {Token(r.label).value} |->
                           IF v = Token(r.label).value THEN r.label ELSE symtab_[v]]
          /\ offset' = RowOffset(r) + Space(r) /\ row' = row + 1
          /\ UNCHANGED pass
    /\ UNCHANGED <<tokens, good, it, rows, data, file>>

SymtabEnd == row > Len(rows) /\ EndPass("symtab", "encode")

-----------------------------------------------------------------------------
(* Encode *)

PCOffset(t) == LitValue(t) % 512

ImmUnmasked(t) ==
    IF t.type = "NumberLiteral" THEN Or({32, LitValue(t)}) ELSE StringToRegister(t)

ImmOrRegister(t) ==
    IF t.type = "NumberLiteral" THEN 32 + (LitValue(t) % 32) ELSE StringToRegister(t)

(* The operands whose text StringToRegister indexes. *)
RegisterOperands(r) ==
    CASE Op(r) \in {"AND", "ADD"} ->
           {1, 2} \cup {j \in {3} : r.operands[3] # 0 /\ Arg(r, 3).type # "NumberLiteral"}
      [] Op(r) = "NOT" -> {1, 2}
      [] Op(r) \in {"LD", "LEA", "ST"} -> {1}
      [] OTHER -> {}

DR(r) == AsDR(StringToRegister(Arg(r, 1)))
SR1(r, j) == AsSR1(StringToRegister(Arg(r, j)))

Word(r) ==
    CASE Op(r) = ".ORIG" -> HexToU16(Arg(r, 1))
      [] Op(r) = "NOT" -> Or({OpCode("NOT"), DR(r), SR1(r, 2), 63})
      [] Op(r) \in {"AND", "ADD"} ->
           Or({OpCode(Op(r)), DR(r), SR1(r, 2), ImmOrRegister(Arg(r, 3))})
      [] Op(r) \in {"PUTS", "HALT"} -> OpCode(Op(r))
      [] Op(r) \in {"LD", "LEA"} -> Or({OpCode(Op(r)), DR(r), PCOffset(Arg(r, 2))})
      [] Op(r) \in Branches -> Or({OpCode(Op(r)), PCOffset(Arg(r, 1))})
      (* the first operand twice, and the second one not at all *)
      [] Op(r) = "ST" -> Or({OpCode("ST"), SR1(r, 1), PCOffset(Arg(r, 1))})

(* LDR, .END, .STRINGZ and .BLKW put nothing into the image. *)
Emits(r) == Op(r) \notin {"LDR", ".END", ".STRINGZ", ".BLKW"}
(* The operands Encode reads: all that Parse asks for, but one of ST. *)
Reads(r) == 1 .. (IF Op(r) = "ST" THEN 1 ELSE Arity(Op(r)))
EncodeCrashes(r) == Emits(r) /\ \E j \in Reads(r) : r.operands[j] = 0
EncodeAborts(r) ==
    \E j \in RegisterOperands(r) : r.operands[j] # 0 /\ Arg(r, j).size < 2

EncodeRow ==
    /\ pass = "encode" /\ row <= Len(rows)
    /\ LET r == rows[row] IN
       \/ EncodeCrashes(r) /\ pass' = "crashed" /\ UNCHANGED <<row, data>>
       \/ EncodeAborts(r) /\ pass' = "aborted" /\ UNCHANGED <<row, data>>
       \/ /\ ~EncodeCrashes(r) /\ ~EncodeAborts(r)
          /\ data' = IF Emits(r) THEN Append(data, Word(r)) ELSE data
          /\ row' = row + 1
          /\ UNCHANGED pass
    /\ UNCHANGED <<tokens, good, it, rows, symVars, file>>

EncodeEnd == row > Len(rows) /\ EndPass("encode", "write")

-----------------------------------------------------------------------------
(* CompileFile: htons puts the high byte first. *)

NetOrder(w) == <<w \div 256, w % 256>>

WriteFile ==
    /\ pass = "write"
    /\ \/ pass' = "done" /\ file' = FlattenSeq([i \in DOMAIN data |-> NetOrder(data[i])])
       \/ pass' = "unwritten" /\ UNCHANGED file   \* the file cannot be opened
    /\ UNCHANGED <<tokens, good, it, rows, row, symVars, data>>

Final == {"done", "unwritten", "aborted", "crashed", "exhausted"}
Exited == pass \in Final /\ UNCHANGED tvmVars

TvmInit ==
    /\ \E program \in Sources :
          /\ tokens = FlattenSeq(program)
          /\ good = (Range(program) \subseteq GoodLines)
    /\ pass = "parse" /\ it = 1 /\ rows = <<>> /\ row = 1
    /\ offset = 0 /\ address = [p \in DOMAIN tokens |-> 0] /\ symtab_ = <<>>
    /\ data = <<>> /\ file = <<>>

TvmNext ==
    \/ ParseRow \/ ParseEnd \/ SymtabRow \/ SymtabEnd
    \/ EncodeRow \/ EncodeEnd \/ WriteFile \/ Exited

TvmSpec == TvmInit /\ [][TvmNext]_tvmVars /\ WF_tvmVars(TvmNext)
-----------------------------------------------------------------------------
(* What a variable needs: the characters of a string and a zero, or the words *)
(* of a block.                                                              *)
Room(r) ==
    LET t == Arg(r, 1) IN
    IF Op(r) = ".STRINGZ" THEN IF t.type = "String" THEN t.size - 1 ELSE 0 ELSE t.head

Variables == {j \in 1 .. row - 1 :
                 /\ rows[j].label # 0 /\ rows[j].operands[1] # 0
                 /\ Op(rows[j]) \in {".STRINGZ", ".BLKW"}}

(* The labelled variables of a program do not overlap: between two of them    *)
(* there is room for the first, unless an .ORIG moved the offset.  (A string  *)
(* without a label is given two places, whatever its length, so the next      *)
(* variable may lie inside it.)                                               *)
VariablesApart ==
    pass = "symtab" =>
       \A i, j \in Variables :
          i < j /\ (\A c \in i .. j : Op(rows[c]) # ".ORIG") =>
             address[rows[j].label] >= address[rows[i].label] + Room(rows[i])

(* A reading of the instruction words that owes nothing to Encode. *)
Bits(w, low, n) == (w \div 2^low) % 2^n
Signed(b, n) == IF b >= 2^(n - 1) THEN b - 2^n ELSE b
IsRegister(t) == t.type = "Register"
(* A literal with a hash (or a plain zero) that fits into n bits. *)
IsLiteral(t, n) ==
    t.type = "NumberLiteral" /\ t.head = 0 /\ t.tail \in -(2^(n - 1)) .. 2^(n - 1) - 1

Code ==
    [ADD |-> 1, AND |-> 5, NOT |-> 9, LD |-> 2, LEA |-> 14, ST |-> 3, HALT |-> 15, PUTS |-> 15,
     BR |-> 0, BRn |-> 0, BRz |-> 0, BRp |-> 0, BRnp |-> 0, BRnz |-> 0, BRzp |-> 0]
Nzp == [BR |-> 0, BRn |-> 4, BRz |-> 2, BRp |-> 1, BRnp |-> 5, BRnz |-> 6, BRzp |-> 3]
Vector == [HALT |-> 37, PUTS |-> 34]   \* the numbers of the traps, x25 and x22

(* The operands that are registers, by the comments in Parse. *)
RegistersGiven(r) ==
    /\ Op(r) \in {"AND", "ADD", "NOT", "LD", "LEA", "ST"} => IsRegister(Arg(r, 1))
    /\ Op(r) \in {"AND", "ADD", "NOT"} => IsRegister(Arg(r, 2))
    /\ Op(r) \in {"AND", "ADD"} =>
          IsRegister(Arg(r, 3)) \/ Arg(r, 3).type = "NumberLiteral"

SaysWhatRowSays(w, r) ==
    LET a == Arg(r, 1)  b == Arg(r, 2)  c == Arg(r, 3) IN
    /\ Bits(w, 12, 4) = Code[Op(r)]
    /\ Op(r) \in {"AND", "ADD"} =>
          /\ Bits(w, 9, 3) = a.tail /\ Bits(w, 6, 3) = b.tail
          /\ IsRegister(c) => Bits(w, 0, 6) = c.tail
          /\ ~IsRegister(c) => Bits(w, 5, 1) = 1
          /\ IsLiteral(c, 5) => Signed(Bits(w, 0, 5), 5) = c.tail
    /\ Op(r) = "NOT" =>
          Bits(w, 9, 3) = a.tail /\ Bits(w, 6, 3) = b.tail /\ Bits(w, 0, 6) = 63
    /\ Op(r) \in {"LD", "LEA"} =>
          Bits(w, 9, 3) = a.tail /\ (IsLiteral(b, 9) => Signed(Bits(w, 0, 9), 9) = b.tail)
    /\ Op(r) \in Branches =>
          Bits(w, 9, 3) = Nzp[Op(r)] /\ (IsLiteral(a, 9) => Signed(Bits(w, 0, 9), 9) = a.tail)
    /\ Op(r) = "ST" => Bits(w, 6, 3) = a.tail
    /\ Op(r) \in {"HALT", "PUTS"} => Bits(w, 0, 12) = Vector[Op(r)]

EmittedUpTo(j) == Cardinality({c \in 1 .. j : Emits(rows[c])})
FileWord(i) == 256 * file[2 * i - 1] + file[2 * i]

(* The file holds, big end first and in the order of the text, one word for   *)
(* each row Encode has a case for: the address of an .ORIG, or an opcode with  *)
(* the registers in their fields and the literals in two's complement; when a  *)
(* literal is too long for its field, its neighbours are intact.  It is said   *)
(* of literals with a hash.  Not carried into the words, and nothing is        *)
(* claimed of them: the second operand of ST (StoresTold), the first digit of  *)
(* a literal without a hash, and where a label is, since Encode does not look  *)
(* into symtab_.                                                               *)
EncodesAsWritten ==
    pass = "done" =>
       /\ Len(file) = 2 * EmittedUpTo(Len(rows))
       /\ \A j \in DOMAIN rows : Emits(rows[j]) =>
             IF Op(rows[j]) = ".ORIG"
             THEN Arg(rows[j], 1).type = "HexNumber" =>
                     FileWord(EmittedUpTo(j)) = Arg(rows[j], 1).hextail
             ELSE RegistersGiven(rows[j]) =>
                     SaysWhatRowSays(FileWord(EmittedUpTo(j)), rows[j])

(* Parse takes ST with two operands, "ST SR1 LABEL": two stores of the same   *)
(* register to different offsets are different words.  Encode puts the first  *)
(* operand into the word twice and the second not at all: tvm_store violates  *)
(* this.                                                                      *)
StoresTold ==
    LET Stores == {j \in DOMAIN rows : Op(rows[j]) = "ST" /\ rows[j].operands[2] # 0
                                          /\ IsLiteral(Arg(rows[j], 2), 9)}
    IN  pass = "done" =>
           \A i, j \in Stores :
              Arg(rows[i], 1) = Arg(rows[j], 1) /\ Arg(rows[i], 2) # Arg(rows[j], 2) =>
                 FileWord(EmittedUpTo(i)) # FileWord(EmittedUpTo(j))

(* A program that begins with .ORIG and is made of statements Parse has a     *)
(* case for, with all their operands, gets through all passes.  Nothing is    *)
(* said of the others: a program without .ORIG, which Parse's comment rules   *)
(* out and Parse lets pass; one with a .FILL, an LDI or a JMP, for which      *)
(* Parse has no case; and one with a missing or misplaced operand.            *)
ProgramsAssemble ==
    good /\ tokens # <<>> /\ tokens[1].value = ".ORIG" ~> pass \in {"done", "unwritten"}
=============================================================================
