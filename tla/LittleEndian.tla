---------------------------- MODULE LittleEndian ----------------------------
(***************************************************************************)
(* Numbers as sequences of bytes, lowest first (src/common/codec.cc, and    *)
(* the hand-written copies of it in fttl and psycal).  A byte is a digit of *)
(* base Base, 256 in the code.                                              *)
(***************************************************************************)
EXTENDS Naturals, Sequences, SequencesExt

CONSTANT Base

ASSUME BaseAssumption == Base \in Nat \ {0, 1}

Bytes == 0 .. Base - 1

(* What a one in the byte at offset k is worth; Weight[8] is 2^64 in the code. *)
Weight ==
    LET weight[k \in 0 .. 8] == IF k = 0 THEN 1 ELSE Base * weight[k - 1]
    IN  weight

(* The n lowest bytes of x. *)
Encode(x, n) == [k \in 1 .. n |-> (x \div Weight[k - 1]) % Base]

(* The numbers that the first n bytes of bs are, and the one that all are. *)
Decoding(bs) ==
    LET value[n \in 0 .. Len(bs)] ==
            IF n = 0 THEN 0 ELSE value[n - 1] + bs[n] * Weight[n - 1]
    IN  value

Decode(bs) == Decoding(bs)[Len(bs)]

EncodeU64LE(x) == Encode(x, 8)

DecodeU64LE(bs) == Decode(SubSeq(bs, 1, 8))

(* n bytes of memory that starts with bs; behind them it holds filler. *)
Memory(bs, n, filler) == [k \in 1 .. n |-> IF k <= Len(bs) THEN bs[k] ELSE filler]
=============================================================================
