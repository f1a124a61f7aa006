------------------------------- MODULE BigInt -------------------------------
(***************************************************************************)
(* psy::ds::BigInt (src/ds/bigint.cc): numbers of any length as deques of   *)
(* decimal digits, the first one the highest.  operator+ adds digit by      *)
(* digit, and carries afterwards.  operator- is unfinished in the code.     *)
(***************************************************************************)
EXTENDS Naturals, Sequences, SequencesExt

CONSTANTS
    Numerals   \* the texts numbers are made of: digits, and 10 for any other character

ASSUME NumeralsAssumption == Numerals \subseteq Seq(0..10)

VARIABLES
    addends,   \* *this and other
    ret,       \* the digits of the sum so far
    column,    \* how many columns of the present loop are done
    carry,
    sumPc

bigVars == <<addends, ret, column, carry, sumPc>>

BigInit ==
    /\ addends \in Numerals \X Numerals /\ ret = <<>> /\ column = 0 /\ carry = 0
    /\ sumPc = "construct"

-----------------------------------------------------------------------------
(* The constructor refuses a text that is not purely numeric. *)
Construct ==
    /\ sumPc = "construct"
    /\ sumPc' = IF \A n \in 1..2 : Range(addends[n]) \subseteq 0..9 THEN "add" ELSE "threw"
    /\ UNCHANGED <<addends, ret, column, carry>>

(* Of two numbers of the same length, other is the bigger one. *)
Bigger  == IF Len(addends[2]) >= Len(addends[1]) THEN addends[2] ELSE addends[1]
Smaller == IF Len(addends[2]) < Len(addends[1]) THEN addends[2] ELSE addends[1]

FromEnd(digits, n) == IF n < Len(digits) THEN digits[Len(digits) - n] ELSE 0

AddColumn ==
    /\ sumPc = "add" /\ column < Len(Bigger)
    /\ ret' = <<FromEnd(Bigger, column) + FromEnd(Smaller, column)>> \o ret
    /\ column' = column + 1
    /\ UNCHANGED <<addends, carry, sumPc>>

AllAdded ==
    /\ sumPc = "add" /\ column = Len(Bigger)
    /\ column' = 0 /\ sumPc' = "carry"
    /\ UNCHANGED <<addends, ret, carry>>

(* The carry of a column whose digit is value. *)
CarryAboveTen(value) == IF value > 10 THEN 1 ELSE 0
CarryOf(value) == IF value >= 10 THEN 1 ELSE 0

CarryColumn ==
    /\ sumPc = "carry" /\ column < Len(ret)
    /\ LET value == FromEnd(ret, column) + carry
       IN  /\ ret' = [ret EXCEPT ![Len(ret) - column] = value - 10 * CarryOf(value)]
           /\ carry' = CarryOf(value)
    /\ column' = column + 1
    /\ UNCHANGED <<addends, sumPc>>

SumDone ==
    /\ sumPc = "carry" /\ column = Len(ret)
    /\ ret' = IF carry = 1 THEN <<carry>> \o ret ELSE ret
    /\ sumPc' = "done"
    /\ UNCHANGED <<addends, column, carry>>

BigNext == Construct \/ AddColumn \/ AllAdded \/ CarryColumn \/ SumDone

BigSpec == BigInit /\ [][BigNext]_bigVars

-----------------------------------------------------------------------------
(* The values of the first n digits, and of all of them. *)
Reading(digits) ==
    LET value[n \in 0..Len(digits)] == IF n = 0 THEN 0 ELSE 10 * value[n - 1] + digits[n]
    IN  value

Value(digits) == Reading(digits)[Len(digits)]

(* The sum of two numbers is their sum, in decimal digits, whichever is longer *)
(* and however far a carry runs; it is longer than both only by a carry that  *)
(* is not zero.  (Zeros an addend begins with stay.)                          *)
SumOfAddends ==
    sumPc = "done" =>
        /\ Value(ret) = Value(addends[1]) + Value(addends[2])
        /\ Range(ret) \subseteq 0..9
        /\ Len(ret) > Len(Bigger) => Head(ret) # 0
=============================================================================
