----------------------------- MODULE CheckLedger -----------------------------
(***************************************************************************)
(* What the self-check pipeline promises, with threads, queues and retries *)
(* left out.  A check is first answered by DataServer; an answered check   *)
(* is settled by recording it, by refusing it, or by both when the program *)
(* gives up on a record MySQL has nevertheless kept; a card shows recorded *)
(* checks only; and a restart empties the cards and nothing else.          *)
(***************************************************************************)
EXTENDS Naturals

CONSTANTS Devices, Numbers

VARIABLES
  answered, saved, refused,  (* Sets of <<device, number>>.                *)
  shown                      (* The check each card shows, 0 for none.     *)

vars == <<answered, saved, refused, shown>>

Checks == Devices \X Numbers

Init ==
  /\ answered = {} /\ saved = {} /\ refused = {}
  /\ shown = [d \in Devices |-> 0]

Answer(c) ==
  /\ answered' = answered \cup {c}
  /\ UNCHANGED <<saved, refused, shown>>

Settle(c) ==
  /\ c \in answered
  /\ saved' \in {saved, saved \cup {c}}
  /\ refused' \in {refused, refused \cup {c}}
  /\ UNCHANGED <<answered, shown>>

Show(d, n) ==
  /\ <<d, n>> \in saved
  /\ shown' = [shown EXCEPT ![d] = n]
  /\ UNCHANGED <<answered, saved, refused>>

Restart ==
  /\ shown' = [d \in Devices |-> 0]
  /\ UNCHANGED <<answered, saved, refused>>

Next ==
  \/ \E c \in Checks : Answer(c) \/ Settle(c)
  \/ \E d \in Devices, n \in Numbers : Show(d, n)
  \/ Restart

Spec == Init /\ [][Next]_vars
=============================================================================
