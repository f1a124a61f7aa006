---------------------------- MODULE MCSumWorkers ----------------------------
(* Vectors for one worker and vectors cut for two or three.                  *)
EXTENDS SumWorkers

MCSizes == 1 .. 10
MCCores == 1 .. 3
=============================================================================
