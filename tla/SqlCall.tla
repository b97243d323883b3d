------------------------------- MODULE SqlCall -------------------------------
(***************************************************************************)
(* What a caller of executeUpdate may rely on, and what SelfCheck relies   *)
(* on: a call ends once.  If it succeeds, the statement has taken effect   *)
(* once, and once more for each attempt whose reply was lost; if it fails, *)
(* only for those.  All in all it takes effect no more than MaxEffects     *)
(* times, and never after the call has ended.                              *)
(***************************************************************************)
EXTENDS Naturals

CONSTANTS Calls, MaxEffects

VARIABLES
  result,    (* "pending", "ok" or "failed".                               *)
  effects    (* How often the statement took effect.                       *)

vars == <<result, effects>>

Init ==
  /\ result = [c \in Calls |-> "pending"]
  /\ effects = [c \in Calls |-> 0]

TakeEffect(c) ==
  /\ result[c] = "pending"
  /\ effects[c] < MaxEffects
  /\ effects' = [effects EXCEPT ![c] = @ + 1]

LoseReply(c) == TakeEffect(c) /\ UNCHANGED result

\* The reply to the last attempt is lost, and the call gives up.
LoseLastReply(c) == TakeEffect(c) /\ result' = [result EXCEPT ![c] = "failed"]

ReturnOk(c) == TakeEffect(c) /\ result' = [result EXCEPT ![c] = "ok"]

ReturnFailed(c) ==
  /\ result[c] = "pending"
  /\ result' = [result EXCEPT ![c] = "failed"]
  /\ UNCHANGED effects

Next == \E c \in Calls :
  LoseReply(c) \/ LoseLastReply(c) \/ ReturnOk(c) \/ ReturnFailed(c)

Spec == Init /\ [][Next]_vars
=============================================================================
