-------------------------------- MODULE Md5 ---------------------------------
(***************************************************************************)
(* psy::ds::MD5 (src/ds/md5.cc): a message is padded to whole chunks of 64  *)
(* bytes, and each chunk's sixteen words go into four registers in sixty-   *)
(* four operations.  Of a message only its length counts, of a register the *)
(* places of the padded message it depends on; the bit arithmetic of F, G,  *)
(* H, I, the shifts and the constants are left out.                         *)
(***************************************************************************)
EXTENDS Naturals, Sequences, SequencesExt, FiniteSets

CONSTANTS
    Lengths   \* the lengths of the messages, whose bits a u32 can count

MaxLength == 536870911

ASSUME LengthsAssumption == Lengths \subseteq 0..MaxLength

VARIABLES
    msg_size,   \* the length of the message
    padded,     \* PadMessage's result: <<kind, value>> for each byte
    from,       \* Digest's i: where the current chunk starts
    chunk,      \* its words x[0] to x[15], each the places its bytes come from
    op,         \* how many of the 64 operations are done
    sums,       \* A0, B0, C0, D0
    regs,       \* a, b, c, d
    mixed,      \* history variable: how often each word went in
    digestPc

md5Vars == <<msg_size, padded, from, chunk, op, sums, regs, mixed, digestPc>>

Registers == {"a", "b", "c", "d"}
Fresh == [r \in Registers |-> {}]
NoWords == [w \in 0..15 |-> <<>>]

Md5Init ==
    /\ msg_size \in Lengths /\ padded = <<>> /\ from = 0 /\ chunk = NoWords
    /\ op = 0 /\ sums = Fresh /\ regs = Fresh /\ mixed = [w \in 0..15 |-> 0]
    /\ digestPc = "pad"

-----------------------------------------------------------------------------
NumBlocksOfSeven(size) == ((size + 7) \div 64) + 1

(* The mark and the eight bytes of the length need room in the last block. *)
NumBlocks(size) == ((size + 8) \div 64) + 1

(* Of the low half; the high one is 0. *)
LowByte(number, n) == (number \div <<1, 256, 65536, 16777216>>[n + 1]) % 256

PadMessage ==
    /\ digestPc = "pad"
    /\ LET surplus_bytes == 64 * NumBlocks(msg_size) - msg_size - 8 - 1
       IN  padded' = Append([i \in 1..msg_size |-> <<"message", i>>], <<"pad", 128>>)
                     \o [i \in 1..surplus_bytes |-> <<"pad", 0>>]
                     \o [i \in 1..4 |-> <<"pad", LowByte(8 * msg_size, i - 1)>>]
                     \o [i \in 1..4 |-> <<"pad", 0>>]
    /\ digestPc' = "chunk"
    /\ UNCHANGED <<msg_size, from, chunk, op, sums, regs, mixed>>

(* The next chunk's words, low byte first. *)
ExtractChunk ==
    /\ digestPc = "chunk" /\ from < Len(padded)
    /\ chunk' = [w \in 0..15 |-> [n \in 1..4 |-> from + 4 * w + n]]
    /\ regs' = sums /\ op' = 0 /\ mixed' = [w \in 0..15 |-> 0]
    /\ digestPc' = "mix"
    /\ UNCHANGED <<msg_size, padded, from, sums>>

(* The registers take turns, and each of the four rounds has its own order of *)
(* the words.                                                                 *)
Target(n) == <<"a", "d", "c", "b">>[(n % 4) + 1]

Orders == <<<<0, 1, 2, 3, 4, 5, 6, 7, 8, 9, 10, 11, 12, 13, 14, 15>>,
            <<1, 6, 11, 0, 5, 10, 15, 4, 9, 14, 3, 8, 13, 2, 7, 12>>,
            <<5, 8, 11, 14, 1, 4, 7, 10, 13, 0, 3, 6, 9, 12, 15, 2>>,
            <<0, 7, 14, 5, 12, 3, 10, 1, 8, 15, 6, 13, 4, 11, 2, 9>>>>

Word(n) == Orders[n \div 16 + 1][(n % 16) + 1]

(* FF, GG, HH or II: all four registers and a word make the target. *)
Mix ==
    /\ digestPc = "mix" /\ op < 64
    /\ regs' = [regs EXCEPT ![Target(op)] = (UNION {regs[r] : r \in Registers})
                                            \cup Range(chunk[Word(op)])]
    /\ mixed' = [mixed EXCEPT ![Word(op)] = @ + 1]
    /\ op' = op + 1
    /\ UNCHANGED <<msg_size, padded, from, chunk, sums, digestPc>>

AddUp ==
    /\ digestPc = "mix" /\ op = 64
    /\ sums' = [r \in Registers |-> sums[r] \cup regs[r]]
    /\ from' = from + 64 /\ digestPc' = "chunk"
    /\ UNCHANGED <<msg_size, padded, chunk, op, regs, mixed>>

DigestDone ==
    /\ digestPc = "chunk" /\ from >= Len(padded)
    /\ digestPc' = "done"
    /\ UNCHANGED <<msg_size, padded, from, chunk, op, sums, regs, mixed>>

Md5Next == PadMessage \/ ExtractChunk \/ Mix \/ AddUp \/ DigestDone

Md5Spec == Md5Init /\ [][Md5Next]_md5Vars

-----------------------------------------------------------------------------
(* The number that the padded message ends in, as four bytes and four zeros. *)
LengthField ==
    LET size == Len(padded)
    IN  padded[size - 7][2] + 256 * padded[size - 6][2] + 65536 * padded[size - 5][2]
            + 16777216 * padded[size - 4][2]

(* The padded message gives the message back: it ends in the number of bits,  *)
(* the mark follows the message, and it is as short as whole chunks allow.    *)
(* Every register ends up depending on every byte of it, no read goes beyond  *)
(* it, and each round of operations uses each word of its chunk once.         *)
DigestOfMessage ==
    /\ digestPc = "done" =>
        LET size == Len(padded)
        IN  /\ size % 64 = 0 /\ size - msg_size \in 9..72
            /\ LengthField = 8 * msg_size
            /\ \A i \in 1..msg_size : padded[i] = <<"message", i>>
            /\ padded[msg_size + 1] = <<"pad", 128>>
            /\ \A i \in (msg_size + 2..size - 8) \cup (size - 3..size) : padded[i] = <<"pad", 0>>
            /\ \A r \in Registers : sums[r] = 1..size
    /\ digestPc = "mix" /\ op % 16 = 0 => \A w \in 0..15 : 16 * mixed[w] = op
=============================================================================
