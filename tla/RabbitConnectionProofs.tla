------------------------ MODULE RabbitConnectionProofs ------------------------
(***************************************************************************)
(* Proofs about RabbitConnection, for any number of attempts.              *)
(*                                                                         *)
(* AtMostTwoAttempts rests on where the caller is: only between the start  *)
(* of a task and the assignment of its future can two tasks run, the new   *)
(* one and that of the future it replaces; everywhere else the future, if  *)
(* there is one, belongs to the only task that may run.                    *)
(***************************************************************************)
EXTENDS RabbitConnection, FiniteSetTheorems, TLAPS

(* What TypeOK needs to be inductive: an assignment is under way only after *)
(* a start, and a start within the bound; attempts that were not started    *)
(* are nowhere, and an attempt has no channel before it made one.           *)
TypeInv ==
  /\ TypeOK
  /\ pc = "assign" => started # 0
  /\ pc = "start" => started < MaxAttempts
  /\ \A k \in Attempts : k > started => task[k] = "none"
  /\ \A k \in Attempts : task[k] \in {"none", "reset", "create"}
                            => chan[k] = "none"

LEMMA InitTypeInv == Init => TypeInv
<1> USE RabbitConnectionAssumption
        DEF RabbitConnectionAssumption, Init, Attempts
<1> SUFFICES ASSUME Init PROVE TypeInv
  OBVIOUS
<1>1. /\ task \in [Attempts -> {"none", "reset", "create", "wait", "true",
                              "false"}]
      /\ chan \in [Attempts -> {"none", "opening", "ready", "failed"}]
      /\ \A k \in Attempts : task[k] = "none" /\ chan[k] = "none"
  OBVIOUS
<1>2. connected \in BOOLEAN /\ connecting \in BOOLEAN /\ error \in BOOLEAN
  OBVIOUS
<1>3. /\ future \in 0..started /\ channel \in 0..started
      /\ started \in 0..MaxAttempts
  OBVIOUS
<1>4. pc = "idle"
  OBVIOUS
<1> QED BY <1>1, <1>2, <1>3, <1>4 DEF TypeInv, TypeOK

LEMMA NextTypeInv == TypeInv /\ [Next]_vars => TypeInv'
<1> USE RabbitConnectionAssumption
        DEF RabbitConnectionAssumption, TypeInv, TypeOK, Attempts, Done
<1> SUFFICES ASSUME TypeInv, [Next]_vars PROVE TypeInv'
  OBVIOUS
<1>0. late' \in BOOLEAN
  BY DEF Next, Connect, Caller, ConnectAsync, AssignFuture, WaitForConnection,
         WaitForReady, WaitForTimeout, Attempt, Reset, Create, Finish, OnReady,
         OnError, vars
<1>1. CASE Connect
  BY <1>1 DEF Connect
<1>2. CASE ConnectAsync
  <2>1. CASE connected \/ connecting
    BY <1>2, <2>1 DEF ConnectAsync
  <2>2. CASE ~(connected \/ connecting)
    <3>1. /\ pc' = "assign" /\ connecting' = TRUE /\ started' = started + 1
          /\ task' = [task EXCEPT ![started + 1] = "reset"]
          /\ UNCHANGED <<connected, error, future, channel, chan>>
      BY <1>2, <2>2 DEF ConnectAsync
    <3>2. started + 1 \in Attempts
      BY <1>2 DEF ConnectAsync
    <3> QED BY <1>0, <3>1, <3>2
  <2> QED BY <2>1, <2>2
<1>3. CASE AssignFuture
  <2>1. /\ started # 0 /\ future' = started /\ pc' = "wait"
        /\ UNCHANGED <<connected, connecting, error, channel, started, task,
                      chan>>
    BY <1>3 DEF AssignFuture
  <2> QED BY <1>0, <2>1
<1>4. CASE WaitForConnection
  <2>1. /\ pc' \in {"idle", "waitFor"} /\ (pc' = "waitFor" => future # 0)
        /\ UNCHANGED <<connected, connecting, error, future, channel, started,
                      task, chan>>
    BY <1>4 DEF WaitForConnection, Return
  <2> QED BY <1>0, <2>1
<1>5. CASE WaitForReady \/ WaitForTimeout
  <2>1. /\ pc' = "idle" /\ connecting' = FALSE
        /\ future' = 0 \/ future' = future
        /\ UNCHANGED <<connected, error, channel, started, task, chan>>
    BY <1>5 DEF WaitForReady, WaitForTimeout, Return
  <2>2. future' \in 0..started
    BY <2>1
  <2> QED BY <1>0, <2>1, <2>2
<1>6. ASSUME NEW k \in Attempts, Reset(k) \/ Finish(k) PROVE TypeInv'
  BY <1>0, <1>6 DEF Reset, Finish
<1>7. ASSUME NEW k \in Attempts, Create(k) PROVE TypeInv'
  <2>1. k <= started /\ k \in 1..MaxAttempts
    BY <1>7 DEF Create
  <2>2. task' \in [Attempts -> {"none", "reset", "create", "wait", "true",
                                "false"}]
    BY <1>7 DEF Create
  <2>3. chan' \in [Attempts -> {"none", "opening", "ready", "failed"}]
    BY <1>7 DEF Create
  <2>4. /\ channel' \in 0..started
        /\ UNCHANGED <<connected, connecting, error, future, pc, started>>
    BY <1>7, <2>1 DEF Create
  <2>5. \A j \in Attempts : j > started => task'[j] = "none"
    BY <1>7, <2>1 DEF Create
  <2>6. \A j \in Attempts : task'[j] \in {"none", "reset", "create"}
                              => chan'[j] = "none"
    BY <1>7 DEF Create
  <2>7. pc = "waitFor" => future # 0
    OBVIOUS
  <2> QED BY <1>0, <2>2, <2>3, <2>4, <2>5, <2>6, <2>7
<1>8. ASSUME NEW k \in Attempts, OnReady(k) \/ OnError(k) PROVE TypeInv'
  BY <1>8 DEF OnReady, OnError
<1>9. CASE UNCHANGED vars
  BY <1>9 DEF vars
<1> QED BY <1>1, <1>2, <1>3, <1>4, <1>5, <1>6, <1>7, <1>8, <1>9
        DEF Next, Caller, Attempt

(* Every variable keeps its type, and a caller that waits has a future to   *)
(* wait for.                                                                *)
THEOREM SpecTypeOK == Spec => []TypeOK
<1>1. Spec => []TypeInv
  BY InitTypeInv, NextTypeInv, PTL DEF Spec
<1> QED BY <1>1, PTL DEF TypeInv

-----------------------------------------------------------------------------
RunningInv ==
  IF pc = "assign" THEN Running \subseteq {future, started}
                   ELSE Running \subseteq {future}

LEMMA NextRunningInv ==
  TypeInv /\ RunningInv /\ [Next]_vars => RunningInv'
<1> USE DEF Running
<1> SUFFICES ASSUME TypeInv, RunningInv, [Next]_vars PROVE RunningInv'
  OBVIOUS
<1>1. CASE Connect
  BY <1>1 DEF Connect, RunningInv
<1>2. CASE ConnectAsync
  <2>1. CASE connected \/ connecting
    BY <1>2, <2>1 DEF ConnectAsync, RunningInv
  <2>2. CASE ~(connected \/ connecting)
    <3>1. /\ pc = "start" /\ pc' = "assign" /\ future' = future
          /\ started' = started + 1
          /\ \A k \in Attempts : k # started + 1 => task'[k] = task[k]
      BY <1>2, <2>2 DEF ConnectAsync, TypeInv, TypeOK
    <3> QED BY <3>1 DEF RunningInv
  <2> QED BY <2>1, <2>2
<1>3. CASE AssignFuture
  <2>1. /\ pc = "assign" /\ pc' = "wait" /\ task' = task
        /\ future' = started
        /\ future # 0 => task[future] \in {"true", "false"}
    BY <1>3 DEF AssignFuture, Done
  <2>2. 0 \notin Attempts
    BY RabbitConnectionAssumption DEF RabbitConnectionAssumption, Attempts
  <2> QED BY <2>1, <2>2 DEF RunningInv
<1>4. CASE WaitForConnection \/ WaitForTimeout
  BY <1>4 DEF WaitForConnection, WaitForTimeout, Return, RunningInv
<1>5. CASE WaitForReady
  BY <1>5 DEF WaitForReady, Return, RunningInv, Done
<1>6. ASSUME NEW k \in Attempts, Attempt(k) PROVE RunningInv'
  <2>1. /\ UNCHANGED <<pc, future, started>>
        /\ \A j \in Attempts : task'[j] # task[j] => j = k /\ j \in Running
    BY <1>6 DEF Attempt, Reset, Create, Finish, TypeInv, TypeOK
  <2> QED BY <2>1 DEF RunningInv
<1>7. ASSUME NEW k \in Attempts, OnReady(k) \/ OnError(k) PROVE RunningInv'
  BY <1>7 DEF OnReady, OnError, RunningInv
<1>8. CASE UNCHANGED vars
  BY <1>8 DEF vars, RunningInv
<1> QED BY <1>1, <1>2, <1>3, <1>4, <1>5, <1>6, <1>7, <1>8 DEF Next, Caller

LEMMA RunningBound == RunningInv => AtMostTwoAttempts
<1> SUFFICES ASSUME RunningInv PROVE Cardinality(Running) <= 2
  BY DEF AtMostTwoAttempts
<1>1. Running \subseteq {future, started}
  BY DEF RunningInv
<1>2. IsFiniteSet({future, started}) /\ Cardinality({future, started}) <= 2
  <2>1. IsFiniteSet({future}) /\ Cardinality({future}) = 1
    BY FS_Singleton
  <2>2. {future, started} = {future} \cup {started}
    OBVIOUS
  <2>3. /\ IsFiniteSet({future} \cup {started})
        /\ Cardinality({future} \cup {started})
             = IF started \in {future} THEN Cardinality({future})
                                       ELSE Cardinality({future}) + 1
    BY <2>1, FS_AddElement
  <2> QED BY <2>1, <2>2, <2>3
<1>3. IsFiniteSet(Running) /\ Cardinality(Running) <= Cardinality({future, started})
  BY <1>1, <1>2, FS_Subset
<1>4. Cardinality(Running) \in Nat /\ Cardinality({future, started}) \in Nat
  BY <1>2, <1>3, FS_CardinalityType
<1> QED BY <1>2, <1>3, <1>4

LEMMA SpecRunningInv == Spec => [](TypeInv /\ RunningInv)
<1>1. Init => RunningInv
  BY DEF Init, RunningInv, Running
<1> QED BY <1>1, InitTypeInv, NextTypeInv, NextRunningInv, PTL DEF Spec

(* However many attempts are abandoned, two at most run at the same time.   *)
THEOREM SpecAtMostTwoAttempts == Spec => []AtMostTwoAttempts
BY SpecRunningInv, RunningBound, PTL

-----------------------------------------------------------------------------
\* As long as no attempt was given up or ended too early, they follow one
\* another: an attempt that has yet to make its channel finds every other one
\* closed, and only the channel of channel_ can be open or opening.
OneAfterTheOther ==
  ~late =>
    /\ connected <=> channel # 0 /\ chan[channel] = "ready"
    /\ Running \subseteq {started}
    /\ Running # {} => connecting
    /\ \A k \in Attempts :
         /\ chan[k] \in {"opening", "ready"} => k = channel
         /\ chan[k] = "opening" => task[k] = "wait"
         /\ task[k] = "wait" => k = channel
         /\ task[k] \in {"reset", "create"} =>
              \A j \in Attempts : chan[j] \in {"none", "failed"}

LEMMA NextOneAfterTheOther ==
  TypeInv /\ RunningInv /\ OneAfterTheOther /\ [Next]_vars => OneAfterTheOther'
<1> SUFFICES ASSUME TypeInv, RunningInv, OneAfterTheOther, [Next]_vars, ~late'
             PROVE  OneAfterTheOther'
  BY DEF OneAfterTheOther
<1> USE DEF OneAfterTheOther, Running
<1>0. /\ 0 \notin Attempts /\ (channel = 0 \/ channel \in Attempts)
      /\ task \in [Attempts -> {"none", "reset", "create", "wait", "true",
                                "false"}]
      /\ chan \in [Attempts -> {"none", "opening", "ready", "failed"}]
  BY RabbitConnectionAssumption
     DEF RabbitConnectionAssumption, TypeInv, TypeOK, Attempts
<1>1. CASE Connect \/ AssignFuture \/ WaitForConnection \/ UNCHANGED vars
  BY <1>1 DEF Connect, AssignFuture, WaitForConnection, vars
<1>2. CASE ConnectAsync
  <2>1. CASE connected \/ connecting
    BY <1>2, <2>1 DEF ConnectAsync
  <2>2. CASE ~(connected \/ connecting)
    <3>1. /\ ~late /\ started' = started + 1 /\ connecting' = TRUE
          /\ task' = [task EXCEPT ![started + 1] = "reset"]
          /\ UNCHANGED <<connected, channel, chan>>
      BY <1>2, <2>2 DEF ConnectAsync
    <3>2. Running = {}
      BY <2>2, <3>1
    <3>3. \A j \in Attempts : chan[j] \in {"none", "failed"}
      BY <1>0, <2>2, <3>1, <3>2
    <3>4. Running' \subseteq {started'}
      BY <1>0, <3>1, <3>2
    <3> QED BY <1>0, <3>1, <3>2, <3>3, <3>4
  <2> QED BY <2>1, <2>2
<1>3. CASE WaitForReady
  <2>1. /\ pc = "waitFor" /\ task[future] \in {"true", "false"}
        /\ UNCHANGED <<connected, channel, started, task, chan, late>>
    BY <1>3 DEF WaitForReady, Done
  <2>2. Running = {}
    BY <2>1 DEF RunningInv
  <2> QED BY <2>1, <2>2
<1>4. CASE WaitForTimeout
  BY <1>4 DEF WaitForTimeout
<1>5. ASSUME NEW k \in Attempts, Reset(k) PROVE OneAfterTheOther'
  BY <1>0, <1>5 DEF Reset
<1>6. ASSUME NEW k \in Attempts, Create(k) PROVE OneAfterTheOther'
  <2>1. /\ task[k] = "create" /\ ~late
        /\ UNCHANGED <<connected, connecting, started>>
        /\ \/ /\ task' = [task EXCEPT ![k] = "wait"]
              /\ channel' = k /\ chan' = [chan EXCEPT ![k] = "opening"]
           \/ /\ task' = [task EXCEPT ![k] = "false"]
              /\ UNCHANGED <<channel, chan>>
    BY <1>6 DEF Create
  <2>2. /\ k = started /\ \A j \in Attempts : j # k => j \notin Running
        /\ \A j \in Attempts : chan[j] \in {"none", "failed"}
        /\ ~connected
    BY <1>0, <2>1
  <2> QED BY <1>0, <2>1, <2>2
<1>7. ASSUME NEW k \in Attempts, Finish(k) PROVE OneAfterTheOther'
  <2>1. /\ task[k] = "wait" /\ ~late /\ (connected \/ chan[k] # "opening")
        /\ task' \in {[task EXCEPT ![k] = "true"], [task EXCEPT ![k] = "false"]}
        /\ UNCHANGED <<connected, connecting, channel, started, chan>>
    BY <1>7 DEF Finish
  <2>2. k = channel /\ chan[k] # "opening"
    BY <2>1
  <2> QED BY <1>0, <2>1, <2>2
<1>8. ASSUME NEW k \in Attempts, OnReady(k) \/ OnError(k)
      PROVE  OneAfterTheOther'
  BY <1>0, <1>8 DEF OnReady, OnError
<1> QED BY <1>1, <1>2, <1>3, <1>4, <1>5, <1>6, <1>7, <1>8
        DEF Next, Caller, Attempt

\* Whoever wrote connected_, some channel is open while it is set.
ConnectedSomewhere == connected => \E k \in Attempts : chan[k] = "ready"

LEMMA NextConnectedSomewhere ==
  TypeInv /\ ConnectedSomewhere /\ [Next]_vars => ConnectedSomewhere'
<1> SUFFICES ASSUME TypeInv, ConnectedSomewhere, [Next]_vars
             PROVE  ConnectedSomewhere'
  OBVIOUS
<1> USE DEF ConnectedSomewhere
<1>1. CASE Connect \/ Caller \/ UNCHANGED vars
  BY <1>1 DEF Connect, Caller, ConnectAsync, AssignFuture, WaitForConnection,
              WaitForReady, WaitForTimeout, vars
<1>2. ASSUME NEW k \in Attempts, Attempt(k) PROVE ConnectedSomewhere'
  <2>1. CASE Reset(k) \/ Finish(k)
    BY <2>1 DEF Reset, Finish
  <2>2. CASE Create(k)
    <3>1. /\ connected' = connected
          /\ \A j \in Attempts : j # k => chan'[j] = chan[j]
          /\ chan[k] = "none"
      BY <2>2 DEF Create, TypeInv, TypeOK
    <3> QED BY <3>1
  <2> QED BY <1>2, <2>1, <2>2 DEF Attempt
<1>3. ASSUME NEW k \in Attempts, OnReady(k) \/ OnError(k)
      PROVE  ConnectedSomewhere'
  BY <1>3 DEF OnReady, OnError, TypeInv, TypeOK
<1> QED BY <1>1, <1>2, <1>3 DEF Next

(* connected_ is what the channel in use is, as long as no attempt was      *)
(* given up or ended before its answer: attempts then follow one another,   *)
(* and every other channel is closed.  Otherwise some channel is open.      *)
THEOREM SpecConnectedMeansChannel == Spec => []ConnectedMeansChannel
<1>1. Init => OneAfterTheOther /\ ConnectedSomewhere
  BY DEF Init, OneAfterTheOther, ConnectedSomewhere, Running
<1>2. OneAfterTheOther /\ ConnectedSomewhere => ConnectedMeansChannel
  BY DEF OneAfterTheOther, ConnectedSomewhere, ConnectedMeansChannel
<1> QED BY SpecRunningInv, NextOneAfterTheOther, NextConnectedSomewhere, <1>1,
           <1>2, PTL DEF Spec

-----------------------------------------------------------------------------
(* connecting_ is set only while an attempt is being started or its outcome *)
(* is still to be collected, so the client can always connect again.        *)
THEOREM SpecNeverStuck == Spec => []NeverStuck
<1>1. Init => NeverStuck
  BY DEF Init, NeverStuck
<1>2. TypeInv /\ NeverStuck /\ [Next]_vars => NeverStuck'
  <2> SUFFICES ASSUME TypeInv, NeverStuck, [Next]_vars PROVE NeverStuck'
    OBVIOUS
  <2> USE DEF NeverStuck
  <2>1. CASE Connect \/ ConnectAsync \/ UNCHANGED vars
    BY <2>1 DEF Connect, ConnectAsync, vars
  <2>2. CASE AssignFuture
    BY <2>2 DEF AssignFuture, TypeInv
  <2>3. CASE WaitForConnection \/ WaitForReady \/ WaitForTimeout
    BY <2>3 DEF WaitForConnection, WaitForReady, WaitForTimeout, Return
  <2>4. ASSUME NEW k \in Attempts, Attempt(k) \/ OnReady(k) \/ OnError(k)
        PROVE  NeverStuck'
    BY <2>4 DEF Attempt, Reset, Create, Finish, OnReady, OnError
  <2> QED BY <2>1, <2>2, <2>3, <2>4 DEF Next, Caller
<1>3. Spec => []TypeInv
  BY InitTypeInv, NextTypeInv, PTL DEF Spec
<1> QED BY <1>1, <1>2, <1>3, PTL DEF Spec

-----------------------------------------------------------------------------
(* StepsLeft.  The steps an attempt has left before and after a step.       *)
LEMMA AttemptStepsType ==
  ASSUME NEW k
  PROVE  AttemptSteps(k) \in 0..3 /\ AttemptSteps(k)' \in 0..3
<1>1. AttemptSteps(k) \in 0..3
  BY DEF AttemptSteps
<1>2. AttemptSteps(k)' \in 0..3
  BY DEF AttemptSteps
<1> QED BY <1>1, <1>2

\* An attempt in the middle of a step of its own is one that StepsLeft counts.
LEMMA AttemptStep ==
  ASSUME TypeInv, RunningInv, NEW k \in Attempts, Attempt(k)
  PROVE  /\ k = future \/ k = started
         /\ UNCHANGED <<pc, future, started>>
         /\ AttemptSteps(k)' < AttemptSteps(k)
         /\ \A j : j # k /\ (j = 0 \/ j \in Attempts)
                    => AttemptSteps(j)' = AttemptSteps(j)
<1>1. task \in [Attempts -> {"none", "reset", "create", "wait", "true",
                              "false"}]
  BY DEF TypeInv, TypeOK
<1>2. k # 0
  BY RabbitConnectionAssumption DEF RabbitConnectionAssumption, Attempts
<1>3. /\ UNCHANGED <<pc, future, started>>
      /\ \A j \in Attempts : j # k => task'[j] = task[j]
      /\ \/ task[k] = "reset" /\ task'[k] = "create"
         \/ task[k] = "create" /\ task'[k] \in {"wait", "false"}
         \/ task[k] = "wait" /\ task'[k] \in {"true", "false"}
  BY <1>1 DEF Attempt, Reset, Create, Finish
<1>4. k = future \/ k = started
  BY <1>3 DEF RunningInv, Running
<1>5. AttemptSteps(k)' < AttemptSteps(k)
  BY <1>2, <1>3 DEF AttemptSteps
<1>6. ASSUME NEW j, j # k, j = 0 \/ j \in Attempts
      PROVE  AttemptSteps(j)' = AttemptSteps(j)
  BY <1>3, <1>6 DEF AttemptSteps
<1> QED BY <1>3, <1>4, <1>5, <1>6

LEMMA AttemptCounts ==
  ASSUME TypeInv, RunningInv, NEW k \in Attempts, Attempt(k)
  PROVE  StepsLeft' < StepsLeft
<1>1. PICK f \in 0..MaxAttempts, s \in 0..MaxAttempts : f = future /\ s = started
  BY RabbitConnectionAssumption
     DEF RabbitConnectionAssumption, TypeInv, TypeOK
<1>2. (f = 0 \/ f \in Attempts) /\ (s = 0 \/ s \in Attempts)
  BY RabbitConnectionAssumption DEF RabbitConnectionAssumption, Attempts
<1>3. /\ k = f \/ k = s
      /\ pc' = pc /\ future' = f /\ started' = s
      /\ AttemptSteps(k)' < AttemptSteps(k)
      /\ s # k => AttemptSteps(s)' = AttemptSteps(s)
      /\ f # k => AttemptSteps(f)' = AttemptSteps(f)
  BY <1>1, <1>2, AttemptStep
<1>4. CallerSteps' = CallerSteps /\ CallerSteps \in 0..7
  BY <1>3 DEF CallerSteps
<1>5. /\ AttemptSteps(s) \in 0..3 /\ AttemptSteps(f) \in 0..3
      /\ AttemptSteps(s)' \in 0..3 /\ AttemptSteps(f)' \in 0..3
  BY AttemptStepsType
<1>6. /\ StepsLeft = CallerSteps + AttemptSteps(s)
                       + (IF f = s THEN 0 ELSE AttemptSteps(f))
      /\ StepsLeft' = CallerSteps' + AttemptSteps(s)'
                       + (IF f = s THEN 0 ELSE AttemptSteps(f)')
  BY <1>1, <1>3 DEF StepsLeft, AttemptSteps
<1> QED BY <1>3, <1>4, <1>5, <1>6

\* A step of the caller: each wait is passed once, and the attempt it starts
\* was accounted for.
LEMMA CallerCounts ==
  ASSUME TypeInv, Caller
  PROVE  StepsLeft' < StepsLeft
<1>1. PICK f \in 0..MaxAttempts, s \in 0..MaxAttempts : f = future /\ s = started
  BY RabbitConnectionAssumption
     DEF RabbitConnectionAssumption, TypeInv, TypeOK
<1>2. \A k : AttemptSteps(k) \in 0..3 /\ AttemptSteps(k)' \in 0..3
  BY AttemptStepsType
<1>3. StepsLeft = CallerSteps + AttemptSteps(s)
                    + (IF f = s THEN 0 ELSE AttemptSteps(f))
  BY <1>1 DEF StepsLeft
<1>4. CASE pc = "start" /\ ConnectAsync /\ ~(connected \/ connecting)
  <2>1. /\ pc' = "assign" /\ future' = f /\ started' = s + 1 /\ f <= s
        /\ task' = [task EXCEPT ![s + 1] = "reset"]
    BY <1>1, <1>4 DEF ConnectAsync, TypeInv, TypeOK
  <2>2. AttemptSteps(f)' = AttemptSteps(f)
    BY <2>1 DEF AttemptSteps, TypeInv, TypeOK
  <2>3. StepsLeft' = CallerSteps' + AttemptSteps(s + 1)' + AttemptSteps(f)'
    BY <1>1, <2>1 DEF StepsLeft, AttemptSteps
  <2>4. CallerSteps = 7 /\ CallerSteps' = 3
    BY <1>4, <2>1 DEF CallerSteps
  <2> QED BY <1>2, <1>3, <2>2, <2>3, <2>4
<1>5. CASE AssignFuture
  <2>1. pc = "assign" /\ pc' = "wait" /\ future' = s /\ started' = s /\ task' = task
    BY <1>1, <1>5 DEF AssignFuture
  <2>2. StepsLeft' = CallerSteps' + AttemptSteps(s) + 0
    BY <2>1 DEF StepsLeft, AttemptSteps
  <2>3. CallerSteps = 3 /\ CallerSteps' = 2
    BY <2>1 DEF CallerSteps
  <2> QED BY <1>2, <1>3, <2>2, <2>3
<1>6. CASE \/ ConnectAsync /\ (connected \/ connecting)
           \/ WaitForConnection \/ WaitForTimeout
  <2>1. /\ future' = f /\ started' = s /\ task' = task
        /\ \/ pc = "start" /\ pc' = "wait"
           \/ pc = "wait" /\ pc' \in {"idle", "waitFor"}
           \/ pc = "waitFor" /\ pc' = "idle"
    BY <1>1, <1>6 DEF ConnectAsync, WaitForConnection, WaitForTimeout, Return
  <2>2. StepsLeft' = CallerSteps' + AttemptSteps(s)
                       + (IF f = s THEN 0 ELSE AttemptSteps(f))
    BY <2>1 DEF StepsLeft, AttemptSteps
  <2>3. CallerSteps' \in 0..7 /\ CallerSteps \in 0..7 /\ CallerSteps' < CallerSteps
    BY <2>1 DEF CallerSteps
  <2> QED BY <1>2, <1>3, <2>2, <2>3
<1>7. CASE WaitForReady
  <2>1. pc = "waitFor" /\ pc' = "idle" /\ future' = 0 /\ started' = s /\ task' = task
    BY <1>1, <1>7 DEF WaitForReady, Return
  <2>2. StepsLeft' = CallerSteps' + AttemptSteps(s) + 0
    <3>1. AttemptSteps(0)' = 0
      BY DEF AttemptSteps
    <3>2. StepsLeft' = CallerSteps' + AttemptSteps(s)'
                         + (IF 0 = s THEN 0 ELSE AttemptSteps(0)')
      BY <2>1 DEF StepsLeft, AttemptSteps
    <3>3. AttemptSteps(s)' = AttemptSteps(s)
      BY <2>1 DEF AttemptSteps
    <3> QED BY <3>1, <3>2, <3>3
  <2>3. CallerSteps = 1 /\ CallerSteps' = 0
    BY <2>1 DEF CallerSteps
  <2> QED BY <1>2, <1>3, <2>2, <2>3
<1> QED BY <1>4, <1>5, <1>6, <1>7 DEF Caller, ConnectAsync

(* No answer of the broker, no late callback of an abandoned attempt and no *)
(* timeout sends a call of Connect back: each step of the caller and of the *)
(* attempts that may still run leaves them less to do.                      *)
THEOREM SpecEveryStepCounts == Spec => EveryStepCounts
<1>1. TypeInv /\ RunningInv
        => (Caller \/ (\E k \in Attempts : Attempt(k)) => StepsLeft' < StepsLeft)
  BY AttemptCounts, CallerCounts
<1> QED BY <1>1, SpecRunningInv, PTL DEF EveryStepCounts
=============================================================================
