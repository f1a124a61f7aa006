------------------------------ MODULE UuidText ------------------------------
(***************************************************************************)
(* psy::uuid::FromString and UUID::String (src/uuid/uuid.cc).  A text is a  *)
(* sequence of hexadecimal digits (0 to 15), hyphens and other characters;  *)
(* each of the two 64-bit words is the sequence of its eight bytes.         *)
(***************************************************************************)
EXTENDS Naturals, Sequences, SequencesExt, FiniteSets

CONSTANTS
    UuidTexts   \* the texts that are read

Digit  == 0..15
Hyphen == 16
Other  == 17

ASSUME UuidTextsAssumption == UuidTexts \subseteq Seq(Digit \cup {Hyphen, Other})

VARIABLES
    str,       \* the text
    it,        \* how many of its characters have been read
    arr,       \* the two words
    count,     \* the bytes read
    uuidPc     \* "check", "scan", "made", "threw", or "overrun" when it passes str.end()

uuidVars == <<str, it, arr, count, uuidPc>>

Zero == [i \in 1..8 |-> 0]

UuidInit ==
    /\ str \in UuidTexts
    /\ it = 0 /\ arr = <<Zero, Zero>> /\ count = 0 /\ uuidPc = "check"

(* The places of the hyphens are tested, not that there are no others. *)
WellFormed ==
    /\ \A i \in DOMAIN str : str[i] # Other
    /\ Len(str) = 36
    /\ \A i \in {9, 14, 19, 24} : str[i] = Hyphen

CheckText ==
    /\ uuidPc = "check"
    /\ uuidPc' = IF WellFormed THEN "scan" ELSE "threw"
    /\ UNCHANGED <<str, it, arr, count>>

Scanning == uuidPc = "scan" /\ it < Len(str)

SkipHyphen ==
    /\ Scanning /\ str[it + 1] = Hyphen
    /\ it' = it + 1
    /\ UNCHANGED <<str, arr, count, uuidPc>>

(* stoull stops at a hyphen in second place. *)
ByteOf(hi, lo) == IF lo = Hyphen THEN hi ELSE 16 * hi + lo

Shifted(bytes, value) == Append(Tail(bytes), value)

WordOfNinth(n) == IF n > 8 THEN 2 ELSE 1

WordOf(n) == IF n >= 8 THEN 2 ELSE 1

ReadByte ==
    /\ Scanning /\ str[it + 1] # Hyphen /\ it + 2 <= Len(str)
    /\ arr' = [arr EXCEPT ![WordOf(count)] = Shifted(@, ByteOf(str[it + 1], str[it + 2]))]
    /\ it' = it + 2 /\ count' = count + 1
    /\ UNCHANGED <<str, uuidPc>>

(* The second digit would be behind the end, and so is the iterator then. *)
ReadPastEnd ==
    /\ Scanning /\ str[it + 1] # Hyphen /\ it + 2 > Len(str)
    /\ uuidPc' = "overrun"
    /\ UNCHANGED <<str, it, arr, count>>

MakeUuid ==
    /\ uuidPc = "scan" /\ it = Len(str)
    /\ uuidPc' = "made"
    /\ UNCHANGED <<str, it, arr, count>>

UuidNext == CheckText \/ SkipHyphen \/ ReadByte \/ ReadPastEnd \/ MakeUuid

UuidSpec == UuidInit /\ [][UuidNext]_uuidVars

(* Sixteen digits for each word. *)
Hex(words) ==
    [d \in 1..32 |->
        LET byte == words[IF d <= 16 THEN 1 ELSE 2][((d - 1) % 16) \div 2 + 1]
        IN  IF d % 2 = 1 THEN byte \div 16 ELSE byte % 16]

(* And the hyphens, each behind its group. *)
UuidString(words) ==
    LET hyphenated(s, place) == InsertAt(s, place, Hyphen)
    IN  hyphenated(hyphenated(hyphenated(hyphenated(Hex(words), 9), 14), 19), 24)

-----------------------------------------------------------------------------
(* An identifier that was read prints as the text it was read from, unless    *)
(* the text has hyphens besides the four: then it prints as another one, and  *)
(* only then may the reading have run past the end of the text.               *)
UuidRoundTrip ==
    LET hyphens == Cardinality({i \in DOMAIN str : str[i] = Hyphen})
    IN  /\ uuidPc = "made" => (UuidString(arr) = str <=> hyphens = 4)
        /\ uuidPc = "overrun" => hyphens > 4
=============================================================================
