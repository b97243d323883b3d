-------------------------- MODULE MySqlClientProofs --------------------------
(***************************************************************************)
(* Proofs about MySqlClient, for any number of calls and of retries and    *)
(* any set of faults.                                                      *)
(*                                                                         *)
(* Everything rests on one invariant per call, CallInv: a statement has    *)
(* taken effect no more often than attempts were made, and each way that   *)
(* leads from one attempt to the next costs a fault.                       *)
(***************************************************************************)
EXTENDS MySqlClient, TLAPS

\* The attempts of a call that are over.
Made(c) == IF round[c] = 1 THEN attempt[c] ELSE MaxRetries + 1 + attempt[c]

CallInv(c) ==
  /\ effects[c] <= IF pc[c] = "attempt" THEN Made(c)
                   ELSE IF pc[c] = "reconnect" THEN MaxRetries + 1
                   ELSE MaxAttempts
  /\ pc[c] = "reconnect" => round[c] = 1
  /\ (pc[c] = "reconnect" \/ round[c] = 2 \/ attempt[c] > 0) => hits[c] >= 1
  /\ pc[c] = "failed" => hits[c] = 2

Inv == TypeOK /\ \A c \in Calls : CallInv(c)

(* What an attempt or a reconnection comes to is an outcome, and only an    *)
(* attempt that ran its statement succeeds.                                 *)
LEMMA NewSessionOutcomes ==
  ASSUME NEW o \in NewSession
  PROVE  o \in Outcomes /\ o.effects = 0
BY DEF NewSession, Fail, Outcome, Outcomes, Sessions, Rejected

LEMMA WorkOutcomes ==
  ASSUME TypeOK, NEW o \in work
  PROVE  o \in Outcomes /\ (o.exception = "no" => o.effects = 1)
<1>1. ASSUME NEW s \in Sessions, NEW q \in Statement(s)
      PROVE  q \in Outcomes /\ (q.exception = "no" => q.effects = 1)
  BY <1>1 DEF Statement, Fail, Outcome, Outcomes, Sessions, Rejected
<1>2. ASSUME NEW q \in ensureConnectionUnlocked PROVE q \in Outcomes
  <2>1. CASE session \in {"good", "raw"}
    BY <2>1 DEF ensureConnectionUnlocked, Outcome, Outcomes, Sessions
  <2>2. CASE session \notin {"good", "raw"}
    BY <2>2, NewSessionOutcomes DEF ensureConnectionUnlocked
  <2> QED BY <2>1, <2>2
<1>3. PICK q \in ensureConnectionUnlocked :
        o \in IF q.exception = "no" THEN Statement(q.session) ELSE {q}
  BY DEF work
<1>4. q \in Outcomes /\ q.session \in Sessions
  BY <1>2 DEF Outcomes
<1> QED BY <1>1, <1>3, <1>4

-----------------------------------------------------------------------------
(* One step of a call, without the outcomes it is chosen from.              *)

\* The fault counter.
LEMMA MetCounts ==
  ASSUME TypeOK, NEW c \in Calls, NEW e \in {"no", "transient", "sql", "other"},
         Met(c, e)
  PROVE  /\ hits' \in [Calls -> 0..2]
         /\ \A d \in Calls : d # c => hits'[d] = hits[d]
         /\ hits'[c] >= hits[c]
         /\ e # "no" => hits'[c] >= 1
         /\ e # "no" /\ hits[c] >= 1 => hits'[c] = 2
         /\ e = "other" => hits'[c] = 2
BY DEF TypeOK, Met

\* What an attempt that fails leads to.
LEMMA RetryStep ==
  ASSUME TypeOK, NEW c \in Calls, NEW e \in {"transient", "sql", "other"},
         WithRetry(c, e)
  PROVE  \/ /\ attempt[c] < MaxRetries
            /\ attempt' = [attempt EXCEPT ![c] = @ + 1]
            /\ UNCHANGED <<pc, round>>
         \/ /\ round[c] = 1
            /\ pc' = [pc EXCEPT ![c] = "reconnect"]
            /\ UNCHANGED <<round, attempt>>
         \/ /\ e = "other" \/ round[c] = 2
            /\ pc' = [pc EXCEPT ![c] = "failed"]
            /\ UNCHANGED <<round, attempt>>
<1>1. round[c] \in {1, 2}
  BY DEF TypeOK
<1> QED BY <1>1 DEF WithRetry, Returns

LEMMA InitInv == Init => Inv
<1> SUFFICES ASSUME Init PROVE Inv
  OBVIOUS
<1> USE MySqlClientAssumption DEF MySqlClientAssumption, Init
<1>1. MaxAttempts \in Nat /\ 0 \in 0..MaxAttempts /\ 0 \in 0..MaxRetries
  BY DEF MaxAttempts
<1>2. TypeOK
  BY <1>1 DEF TypeOK, Sessions
<1>3. ASSUME NEW c \in Calls PROVE CallInv(c)
  BY <1>3 DEF CallInv, Made
<1> QED BY <1>2, <1>3 DEF Inv

LEMMA AttemptInv ==
  ASSUME Inv, NEW c \in Calls, Attempt(c)
  PROVE  Inv'
<1> USE MySqlClientAssumption DEF MySqlClientAssumption
<1>1. TypeOK /\ CallInv(c) /\ pc[c] = "attempt"
  BY DEF Inv, Attempt
<1>2. PICK o \in work :
        /\ session' = o.session
        /\ effects' = [effects EXCEPT ![c] = @ + o.effects]
        /\ rawUse' = IF o.effects = 1 /\ session = "raw"
                     THEN rawUse \cup {c} ELSE rawUse
        /\ Met(c, o.exception)
        /\ IF o.exception = "no" THEN Returns(c, "ok")
                                 ELSE WithRetry(c, o.exception)
  BY DEF Attempt
<1>3. /\ o.session \in Sessions /\ o.effects \in {0, 1}
      /\ o.exception \in {"no", "transient", "sql", "other"}
  BY <1>1, WorkOutcomes DEF Outcomes
<1>4. /\ hits' \in [Calls -> 0..2]
      /\ \A d \in Calls : d # c => hits'[d] = hits[d]
      /\ hits'[c] >= hits[c]
      /\ o.exception # "no" => hits'[c] >= 1
      /\ o.exception # "no" /\ hits[c] >= 1 => hits'[c] = 2
      /\ o.exception = "other" => hits'[c] = 2
  BY <1>1, <1>2, <1>3, MetCounts
<1>5. rawUse' \subseteq Calls /\ session' \in Sessions
  BY <1>1, <1>2, <1>3 DEF TypeOK
<1>6. /\ effects[c] \in Nat /\ attempt[c] \in 0..MaxRetries
      /\ round[c] \in {1, 2} /\ hits[c] \in 0..2
      /\ effects[c] <= Made(c)
      /\ round[c] = 2 \/ attempt[c] > 0 => hits[c] >= 1
      /\ MaxAttempts = 2 * (MaxRetries + 1)
  BY <1>1 DEF TypeOK, CallInv, MaxAttempts
<1>7. /\ effects'[c] = effects[c] + o.effects
      /\ \A d \in Calls : d # c => effects'[d] = effects[d]
  BY <1>1, <1>2 DEF TypeOK
<1>8. effects'[c] \in Nat /\ effects'[c] <= Made(c) + 1 /\ Made(c) + 1 <= MaxAttempts
  BY <1>3, <1>6, <1>7 DEF Made
<1>9. effects' \in [Calls -> 0..MaxAttempts]
  <2>1. effects'[c] \in 0..MaxAttempts
    BY <1>6, <1>8 DEF Made
  <2>2. effects' = [effects EXCEPT ![c] = effects'[c]]
    BY <1>1, <1>2, <1>7 DEF TypeOK
  <2> QED BY <1>1, <2>1, <2>2 DEF TypeOK
<1>10. /\ pc' \in [Calls -> {"attempt", "reconnect", "ok", "failed"}]
       /\ round' \in [Calls -> 1..2]
       /\ attempt' \in [Calls -> 0..MaxRetries]
       /\ \A d \in Calls : d # c => /\ pc'[d] = pc[d] /\ round'[d] = round[d]
                                    /\ attempt'[d] = attempt[d]
       /\ CallInv(c)'
  <2>1. CASE o.exception = "no"
    <3>1. pc' = [pc EXCEPT ![c] = "ok"] /\ UNCHANGED <<round, attempt>>
      BY <1>2, <2>1 DEF Returns
    <3> QED BY <1>1, <1>4, <1>6, <1>8, <3>1 DEF TypeOK, CallInv, Made
  <2>2. CASE o.exception # "no"
    <3>1. hits'[c] >= 1
      BY <1>4, <2>2
    <3>2. \/ /\ attempt[c] < MaxRetries
             /\ attempt' = [attempt EXCEPT ![c] = @ + 1]
             /\ UNCHANGED <<pc, round>>
          \/ /\ round[c] = 1
             /\ pc' = [pc EXCEPT ![c] = "reconnect"]
             /\ UNCHANGED <<round, attempt>>
          \/ /\ o.exception = "other" \/ round[c] = 2
             /\ pc' = [pc EXCEPT ![c] = "failed"]
             /\ UNCHANGED <<round, attempt>>
      BY <1>1, <1>2, <1>3, <2>2, RetryStep
    <3>3. CASE attempt[c] < MaxRetries
               /\ attempt' = [attempt EXCEPT ![c] = @ + 1]
               /\ UNCHANGED <<pc, round>>
      <4>1. Made(c)' = Made(c) + 1
        BY <1>1, <1>6, <3>3 DEF Made, TypeOK
      <4> QED BY <1>1, <1>6, <1>8, <3>1, <3>3, <4>1 DEF TypeOK, CallInv
    <3>4. CASE round[c] = 1 /\ pc' = [pc EXCEPT ![c] = "reconnect"]
               /\ UNCHANGED <<round, attempt>>
      <4>1. effects'[c] <= MaxRetries + 1
        BY <1>6, <1>8, <3>4 DEF Made
      <4>2. pc'[c] = "reconnect" /\ round'[c] = 1
        BY <1>1, <3>4 DEF TypeOK
      <4>3. CallInv(c)'
        BY <3>1, <4>1, <4>2 DEF CallInv
      <4> QED BY <1>1, <3>4, <4>3 DEF TypeOK
    <3>5. CASE (o.exception = "other" \/ round[c] = 2)
               /\ pc' = [pc EXCEPT ![c] = "failed"]
               /\ UNCHANGED <<round, attempt>>
      <4>1. hits'[c] = 2
        BY <1>4, <1>6, <2>2, <3>5
      <4> QED BY <1>1, <1>6, <1>8, <3>1, <3>5, <4>1 DEF TypeOK, CallInv, Made
    <3> QED BY <3>2, <3>3, <3>4, <3>5
  <2> QED BY <2>1, <2>2
<1>11. TypeOK'
  BY <1>4, <1>5, <1>9, <1>10 DEF TypeOK, MaxAttempts
<1>12. ASSUME NEW d \in Calls, d # c PROVE CallInv(d)'
  <2>1. CallInv(d)
    BY DEF Inv
  <2>2. /\ pc'[d] = pc[d] /\ round'[d] = round[d] /\ attempt'[d] = attempt[d]
        /\ hits'[d] = hits[d] /\ effects'[d] = effects[d]
    BY <1>4, <1>7, <1>10, <1>12
  <2> QED BY <2>1, <2>2 DEF CallInv, Made, MaxAttempts
<1> QED BY <1>10, <1>11, <1>12 DEF Inv

LEMMA ReconnectInv ==
  ASSUME Inv, NEW c \in Calls, reconnect(c)
  PROVE  Inv'
<1> USE MySqlClientAssumption DEF MySqlClientAssumption
<1>1. TypeOK /\ CallInv(c) /\ pc[c] = "reconnect"
  BY DEF Inv, reconnect
<1>2. PICK o \in NewSession :
        /\ session' = o.session
        /\ Met(c, o.exception)
        /\ IF o.exception = "no"
           THEN /\ pc' = [pc EXCEPT ![c] = "attempt"]
                /\ round' = [round EXCEPT ![c] = 2]
                /\ attempt' = [attempt EXCEPT ![c] = 0]
           ELSE Returns(c, "failed")
  BY DEF reconnect
<1>3. /\ o.session \in Sessions
      /\ o.exception \in {"no", "transient", "sql", "other"}
  BY NewSessionOutcomes DEF Outcomes
<1>4. /\ hits' \in [Calls -> 0..2]
      /\ \A d \in Calls : d # c => hits'[d] = hits[d]
      /\ hits'[c] >= hits[c]
      /\ o.exception # "no" /\ hits[c] >= 1 => hits'[c] = 2
  BY <1>1, <1>2, <1>3, MetCounts
<1>5. /\ hits[c] \in 0..2 /\ hits[c] >= 1 /\ hits'[c] \in 0..2
      /\ effects[c] \in Nat /\ effects[c] <= MaxRetries + 1
      /\ UNCHANGED <<effects, rawUse>>
      /\ MaxAttempts = 2 * (MaxRetries + 1)
  BY <1>1, <1>4 DEF TypeOK, CallInv, reconnect, MaxAttempts
<1>6. /\ pc' \in [Calls -> {"attempt", "reconnect", "ok", "failed"}]
      /\ round' \in [Calls -> 1..2]
      /\ attempt' \in [Calls -> 0..MaxRetries]
      /\ \A d \in Calls : d # c => /\ pc'[d] = pc[d] /\ round'[d] = round[d]
                                   /\ attempt'[d] = attempt[d]
      /\ CallInv(c)'
  <2>1. CASE o.exception = "no"
    BY <1>1, <1>2, <1>4, <1>5, <2>1 DEF TypeOK, CallInv, Made
  <2>2. CASE o.exception # "no"
    <3>1. /\ pc' = [pc EXCEPT ![c] = "failed"]
          /\ UNCHANGED <<round, attempt>>
      BY <1>2, <2>2 DEF Returns
    <3>2. hits'[c] = 2
      BY <1>4, <1>5, <2>2
    <3> QED BY <1>1, <1>5, <3>1, <3>2 DEF TypeOK, CallInv, Made
  <2> QED BY <2>1, <2>2
<1>7. TypeOK'
  BY <1>1, <1>2, <1>3, <1>4, <1>5, <1>6 DEF TypeOK
<1>8. ASSUME NEW d \in Calls, d # c PROVE CallInv(d)'
  <2>1. CallInv(d)
    BY DEF Inv
  <2>2. /\ pc'[d] = pc[d] /\ round'[d] = round[d] /\ attempt'[d] = attempt[d]
        /\ hits'[d] = hits[d] /\ effects'[d] = effects[d]
    BY <1>4, <1>5, <1>6, <1>8
  <2> QED BY <2>1, <2>2 DEF CallInv, Made, MaxAttempts
<1> QED BY <1>6, <1>7, <1>8 DEF Inv

LEMMA NextInv == Inv /\ [Next]_vars => Inv'
<1> SUFFICES ASSUME Inv, [Next]_vars PROVE Inv'
  OBVIOUS
<1>1. ASSUME NEW c \in Calls, Attempt(c) PROVE Inv'
  BY <1>1, AttemptInv
<1>2. ASSUME NEW c \in Calls, reconnect(c) PROVE Inv'
  BY <1>2, ReconnectInv
<1>3. CASE SessionBreaks \/ UNCHANGED vars
  <2>1. UNCHANGED <<pc, round, attempt, effects, hits, rawUse>>
    BY <1>3 DEF SessionBreaks, vars
  <2>2. session' \in Sessions
    BY <1>3 DEF SessionBreaks, vars, Inv, TypeOK, Sessions
  <2> QED BY <2>1, <2>2 DEF Inv, TypeOK, CallInv, Made, MaxAttempts
<1> QED BY <1>1, <1>2, <1>3 DEF Next

LEMMA SpecInv == Spec => []Inv
BY InitInv, NextInv, PTL DEF Spec

(* Every variable keeps its type; no statement takes effect more often than *)
(* two rounds have attempts.                                                *)
THEOREM SpecTypeOK == Spec => []TypeOK
<1>1. Inv => TypeOK
  BY DEF Inv
<1> QED BY <1>1, SpecInv, PTL

(* A call that failed has met two faults, or the one nothing absorbs,       *)
(* whatever the other calls did to the session it shares with them.         *)
THEOREM SpecOneFaultIsAbsorbed == Spec => []OneFaultIsAbsorbed
<1>1. Inv => OneFaultIsAbsorbed
  BY DEF Inv, CallInv, OneFaultIsAbsorbed
<1> QED BY <1>1, SpecInv, PTL

-----------------------------------------------------------------------------
\* The result of each call, as SqlCall sees it.
Result == [c \in Calls |-> IF pc[c] \in {"ok", "failed"} THEN pc[c]
                                                         ELSE "pending"]

LEMMA AttemptCall ==
  ASSUME Inv, NEW c \in Calls, Attempt(c)
  PROVE  [Call!Next]_(Call!vars)
<1> USE MySqlClientAssumption DEF MySqlClientAssumption
<1>1. TypeOK /\ CallInv(c) /\ pc[c] = "attempt"
  BY DEF Inv, Attempt
<1>2. PICK o \in work :
        /\ effects' = [effects EXCEPT ![c] = @ + o.effects]
        /\ IF o.exception = "no" THEN Returns(c, "ok")
                                 ELSE WithRetry(c, o.exception)
  BY DEF Attempt
<1>3. /\ o.effects \in {0, 1}
      /\ o.exception \in {"no", "transient", "sql", "other"}
      /\ o.exception = "no" => o.effects = 1
  BY <1>1, WorkOutcomes DEF Outcomes
<1>4. effects[c] \in Nat /\ effects[c] < MaxAttempts
  <2>1. effects[c] <= Made(c) /\ Made(c) < MaxAttempts
    BY <1>1 DEF TypeOK, CallInv, Made, MaxAttempts
  <2> QED BY <1>1, <2>1 DEF TypeOK, Made, MaxAttempts
<1>5. effects' = [effects EXCEPT ![c] = @ + 1] \/ effects' = effects
  <2>1. CASE o.effects = 0
    <3>1. effects[c] + 0 = effects[c]
      BY <1>4
    <3>2. effects' = [effects EXCEPT ![c] = effects[c]]
      BY <1>2, <2>1, <3>1
    <3> QED BY <1>1, <3>2 DEF TypeOK
  <2> QED BY <1>2, <1>3, <2>1
<1>6. Result[c] = "pending"
  BY <1>1 DEF Result
<1>7. CASE o.exception = "no"
  <2>1. pc' = [pc EXCEPT ![c] = "ok"]
    BY <1>2, <1>7 DEF Returns
  <2>2. Result' = [Result EXCEPT ![c] = "ok"]
    BY <1>1, <2>1 DEF Result, TypeOK
  <2>3. effects' = [effects EXCEPT ![c] = @ + 1]
    BY <1>2, <1>3, <1>7
  <2> QED BY <1>4, <1>6, <2>2, <2>3
          DEF Call!Next, Call!ReturnOk, Call!TakeEffect, Result
<1>8. CASE o.exception # "no"
  <2>1. \/ UNCHANGED pc
        \/ pc' = [pc EXCEPT ![c] = "reconnect"]
        \/ pc' = [pc EXCEPT ![c] = "failed"]
    BY <1>2, <1>8 DEF WithRetry, Returns
  <2>2. CASE UNCHANGED pc \/ pc' = [pc EXCEPT ![c] = "reconnect"]
    <3>1. Result' = Result
      BY <1>1, <2>2 DEF Result, TypeOK
    <3> QED BY <1>4, <1>5, <1>6, <3>1
            DEF Call!Next, Call!LoseReply, Call!TakeEffect, Call!vars, Result
  <2>3. CASE pc' = [pc EXCEPT ![c] = "failed"]
    <3>1. Result' = [Result EXCEPT ![c] = "failed"]
      BY <1>1, <2>3 DEF Result, TypeOK
    <3> QED BY <1>4, <1>5, <1>6, <3>1
            DEF Call!Next, Call!LoseLastReply, Call!ReturnFailed,
                Call!TakeEffect, Result
  <2> QED BY <2>1, <2>2, <2>3
<1> QED BY <1>7, <1>8

LEMMA ReconnectCall ==
  ASSUME Inv, NEW c \in Calls, reconnect(c)
  PROVE  [Call!Next]_(Call!vars)
<1>1. TypeOK /\ pc[c] = "reconnect" /\ effects' = effects
  BY DEF Inv, reconnect
<1>2. Result[c] = "pending"
  BY <1>1 DEF Result
<1>3. \/ pc' = [pc EXCEPT ![c] = "attempt"]
      \/ pc' = [pc EXCEPT ![c] = "failed"]
  BY DEF reconnect, Returns
<1>4. CASE pc' = [pc EXCEPT ![c] = "attempt"]
  <2>1. Result' = Result
    BY <1>1, <1>4 DEF Result, TypeOK
  <2> QED BY <1>1, <2>1 DEF Call!vars, Result
<1>5. CASE pc' = [pc EXCEPT ![c] = "failed"]
  <2>1. Result' = [Result EXCEPT ![c] = "failed"]
    BY <1>1, <1>5 DEF Result, TypeOK
  <2> QED BY <1>1, <1>2, <2>1 DEF Call!Next, Call!ReturnFailed, Result
<1> QED BY <1>3, <1>4, <1>5

(* A call is what SqlCall says: it ends once; it takes effect once if it    *)
(* succeeds, once more for each reply that was lost, and never afterwards.  *)
THEOREM SpecImplementsSqlCall == Spec => ImplementsSqlCall
<1>1. Init => Call!Init
  BY DEF Init, Call!Init
<1>2. Inv /\ [Next]_vars => [Call!Next]_(Call!vars)
  <2> SUFFICES ASSUME Inv, [Next]_vars PROVE [Call!Next]_(Call!vars)
    OBVIOUS
  <2>1. ASSUME NEW c \in Calls, Attempt(c) \/ reconnect(c)
        PROVE  [Call!Next]_(Call!vars)
    BY <2>1, AttemptCall, ReconnectCall
  <2>2. CASE SessionBreaks \/ UNCHANGED vars
    BY <2>2 DEF SessionBreaks, vars, Call!vars
  <2> QED BY <2>1, <2>2 DEF Next
<1> QED BY <1>1, <1>2, SpecInv, PTL DEF Spec, Call!Spec, ImplementsSqlCall

-----------------------------------------------------------------------------
\* The steps a call has left, round by round.
Steps(c) ==
  CASE pc[c] \in {"ok", "failed"}           -> 0
    [] pc[c] = "reconnect"                  -> MaxRetries + 2
    [] pc[c] = "attempt" /\ round[c] = 1    -> 2 * MaxRetries + 3 - attempt[c]
    [] pc[c] = "attempt" /\ round[c] = 2    -> MaxRetries + 1 - attempt[c]

StepsInv == \A c \in Calls : StepsLeft(c) = Steps(c) /\ StepsLeft(c) \in Nat

LEMMA StepsOf == Inv => StepsInv
<1> SUFFICES ASSUME Inv, NEW c \in Calls
             PROVE  StepsLeft(c) = Steps(c) /\ Steps(c) \in Nat
  BY DEF StepsInv
<1> USE MySqlClientAssumption DEF MySqlClientAssumption
<1>1. /\ pc[c] \in {"attempt", "reconnect", "ok", "failed"}
      /\ attempt[c] \in 0..MaxRetries
      /\ pc[c] = "reconnect" => round[c] = 1
  BY DEF Inv, TypeOK, CallInv
<1>2. round[c] \in {1, 2}
  BY DEF Inv, TypeOK
<1>3. (2 - 1) * (MaxRetries + 2) = MaxRetries + 2 /\ (2 - 2) * (MaxRetries + 2) = 0
  OBVIOUS
<1> QED BY <1>1, <1>2, <1>3 DEF StepsLeft, Steps

(* An attempt is one of a bounded number, and so is the reconnection: no    *)
(* fault, and nothing other calls do to the session, sends a call back.     *)
(* (StepsInv has that what is left is a natural number.)                    *)
THEOREM SpecEveryStepCounts == Spec => EveryStepCounts
<1>1. ASSUME Inv, StepsInv, StepsInv', NEW c \in Calls,
             Attempt(c) \/ reconnect(c)
      PROVE  StepsLeft(c)' < StepsLeft(c)
  <2> USE MySqlClientAssumption DEF MySqlClientAssumption
  <2>1. /\ pc \in [Calls -> {"attempt", "reconnect", "ok", "failed"}]
        /\ attempt \in [Calls -> 0..MaxRetries] /\ round \in [Calls -> 1..2]
        /\ attempt[c] \in 0..MaxRetries
        /\ round[c] \in {1, 2} /\ TypeOK
    BY <1>1 DEF Inv, TypeOK
  <2>2. StepsLeft(c) = Steps(c) /\ StepsLeft(c)' = Steps(c)'
    BY <1>1 DEF StepsInv
  <2>3. CASE Attempt(c)
    <3>1. pc[c] = "attempt"
      BY <2>3 DEF Attempt
    <3>2. PICK o \in work : IF o.exception = "no" THEN Returns(c, "ok")
                                                 ELSE WithRetry(c, o.exception)
      BY <2>3 DEF Attempt
    <3>3. o.exception \in {"no", "transient", "sql", "other"}
      BY <2>1, WorkOutcomes DEF Outcomes
    <3>4. \/ pc'[c] \in {"ok", "failed"}
          \/ pc'[c] = "reconnect" /\ round[c] = 1
          \/ pc'[c] = "attempt" /\ round'[c] = round[c]
               /\ attempt'[c] = attempt[c] + 1
      <4>1. CASE o.exception = "no"
        BY <2>1, <3>2, <4>1 DEF Returns
      <4>2. CASE o.exception # "no"
        BY <2>1, <3>1, <3>2, <3>3, <4>2, RetryStep
      <4> QED BY <4>1, <4>2
    <3> QED BY <2>1, <2>2, <3>1, <3>4 DEF Steps
  <2>4. CASE reconnect(c)
    <3>1. /\ pc[c] = "reconnect"
          /\ \/ pc'[c] = "failed"
             \/ pc'[c] = "attempt" /\ round'[c] = 2 /\ attempt'[c] = 0
      BY <2>1, <2>4 DEF reconnect, Returns
    <3> QED BY <2>1, <2>2, <3>1 DEF Steps
  <2> QED BY <1>1, <2>3, <2>4
<1>2. Inv /\ StepsInv /\ StepsInv'
        => \A c \in Calls :
             Attempt(c) \/ reconnect(c) => StepsLeft(c)' < StepsLeft(c)
  BY <1>1
<1> QED BY <1>2, StepsOf, SpecInv, PTL DEF EveryStepCounts

-----------------------------------------------------------------------------
\* No session is half configured.
NoRawSession == session # "raw" /\ rawUse = {}

\* A session of which the configuration is never rejected is good or gone.
LEMMA OutcomesNotRaw ==
  ASSUME "configure" \notin Faults, session # "raw"
  PROVE  /\ \A o \in NewSession : o.session # "raw"
         /\ \A o \in work : o.session # "raw"
<1>1. \A o \in NewSession : o.session # "raw"
  BY DEF NewSession, Fail, Outcome, Rejected
<1>2. \A q \in ensureConnectionUnlocked : q.session # "raw"
  BY <1>1 DEF ensureConnectionUnlocked, Outcome
<1>3. ASSUME NEW t, t # "raw", NEW o \in Statement(t) PROVE o.session # "raw"
  BY <1>3 DEF Statement, Fail, Outcome, Rejected
<1>4. ASSUME NEW o \in work PROVE o.session # "raw"
  <2>1. PICK q \in ensureConnectionUnlocked :
          o \in IF q.exception = "no" THEN Statement(q.session) ELSE {q}
    BY <1>4 DEF work
  <2> QED BY <1>2, <1>3, <2>1
<1> QED BY <1>1, <1>4

(* It takes a rejected database, charset or time zone for a statement to    *)
(* run in a session without them: no other fault, and no order of the       *)
(* calls, leads to one.  (With that fault it is refuted by TLC.)            *)
THEOREM SpecStatementsInConfiguredSessions ==
  ASSUME "configure" \notin Faults
  PROVE  Spec => []StatementsInConfiguredSessions
<1>1. Init => NoRawSession
  BY DEF Init, NoRawSession
<1>2. NoRawSession /\ [Next]_vars => NoRawSession'
  <2> SUFFICES ASSUME NoRawSession, [Next]_vars PROVE NoRawSession'
    OBVIOUS
  <2> USE DEF NoRawSession
  <2>1. ASSUME NEW c \in Calls, Attempt(c) PROVE NoRawSession'
    BY <2>1, OutcomesNotRaw DEF Attempt
  <2>2. ASSUME NEW c \in Calls, reconnect(c) PROVE NoRawSession'
    BY <2>2, OutcomesNotRaw DEF reconnect
  <2>3. CASE SessionBreaks \/ UNCHANGED vars
    BY <2>3 DEF SessionBreaks, vars
  <2> QED BY <2>1, <2>2, <2>3 DEF Next
<1>3. NoRawSession => StatementsInConfiguredSessions
  BY DEF NoRawSession, StatementsInConfiguredSessions
<1> QED BY <1>1, <1>2, <1>3, PTL DEF Spec
=============================================================================
