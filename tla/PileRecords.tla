----------------------------- MODULE PileRecords -----------------------------
(***************************************************************************)
(* What the records of one pile promise, however the program comes by the  *)
(* hashes: a record is of a check that was answered, and holds, for each   *)
(* module of the pile, what that check has measured or a later one that    *)
(* had begun by the time of the record.  Only a module whose hash was      *)
(* removed may be missing.  CcuResult, which reads the hashes one by one,  *)
(* and SelfCheck, which reads them in one step, both implement it.         *)
(***************************************************************************)
EXTENDS Naturals

CONSTANTS Modules, Numbers

VARIABLES
  begun,      (* The newest check the pile has begun, 0 for none.          *)
  answered,   (* The checks that were answered.                            *)
  removed,    (* The modules whose hash was once removed.                  *)
  records     (* What was recorded, and for each module in which check it  *)
              (* was measured, 0 if it is missing.                         *)

vars == <<begun, answered, removed, records>>

Init ==
  /\ begun = 0 /\ answered = {} /\ removed = {} /\ records = {}

\* A check may be skipped, but never begun after a later one.
Begin(n) ==
  /\ n > begun
  /\ begun' = n
  /\ UNCHANGED <<answered, removed, records>>

Answer(n) ==
  /\ n <= begun
  /\ answered' = answered \cup {n}
  /\ UNCHANGED <<begun, removed, records>>

Remove(m) ==
  /\ removed' = removed \cup {m}
  /\ UNCHANGED <<begun, answered, records>>

Record(n, of) ==
  /\ n \in answered
  /\ \A m \in Modules :
       \/ n <= of[m] /\ of[m] <= begun
       \/ of[m] = 0 /\ m \in removed
  /\ records' = records \cup {[n |-> n, of |-> of]}
  /\ UNCHANGED <<begun, answered, removed>>

Next ==
  \/ \E n \in Numbers : Begin(n) \/ Answer(n)
  \/ \E m \in Modules : Remove(m)
  \/ \E n \in Numbers, of \in [Modules -> Numbers \cup {0}] : Record(n, of)

Spec == Init /\ [][Next]_vars
=============================================================================
