---------------------------- MODULE MCEventBytes ----------------------------
(* Digits to base 3 for bytes; texts of up to two of them where a datagram   *)
(* has room for one; one time of one digit and one that fills several.       *)
EXTENDS EventBytes

MCStamps == {2, 100}
MCTexts == {<<>>, <<1>>, <<2, 1>>, <<2, 2>>}
=============================================================================
