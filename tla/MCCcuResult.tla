---------------------------- MODULE MCCcuResult ----------------------------
(* Hashes of every kind the program tells apart, for TLC.                   *)
EXTENDS CcuResult

\* Nothing abnormal; a contactor; a stopped fan; the contactor of a gun and
\* its lock; values and field numbers the program passes over.
SampleHashes ==
  {[f \in {1, 12}  |-> "2"],
   [f \in {1, 13}  |-> "1"],
   [f \in {12}     |-> "1"],
   [f \in {17, 20} |-> "1"],
   [f \in {1, 32}  |-> IF f = 1 THEN "other" ELSE "1"]}
=============================================================================
