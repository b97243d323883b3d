-------------------------- MODULE RabbitConnection --------------------------
(***************************************************************************)
(* How RabbitMqClient comes to a connection, below what SelfCheck sees of  *)
(* Connect.  Three kinds of thread meet here:                              *)
(*                                                                         *)
(*   caller    the thread in Publish or Subscribe: first the startup       *)
(*             thread, and only after it has subscribed and the cards      *)
(*             exist the UI thread, so there is one caller at a time;      *)
(*   attempts  a std::async task for each call of ConnectInternal_;        *)
(*   events    the libevent thread, which runs the callbacks of every      *)
(*             channel ever made, the replaced ones included: nothing      *)
(*             deletes them.                                               *)
(*                                                                         *)
(* The two waits of ten seconds, that of the caller and that of the        *)
(* attempt, may end in either order.  Attempts are numbered in the order   *)
(* they start; the channel of an attempt has its number.                   *)
(***************************************************************************)
EXTENDS Naturals, FiniteSets

CONSTANT MaxAttempts   (* Bounds the attempts to connect.                  *)

ASSUME RabbitConnectionAssumption == MaxAttempts \in Nat

VARIABLES
  connected,   (* connected_.                                              *)
  connecting,  (* connecting_.                                             *)
  error,       (* connection_error_ is not empty.                          *)
  future,      (* The attempt connection_future_ belongs to, 0 for none.   *)
  channel,     (* The attempt that made channel_, 0 for none.              *)
  pc,          (* Where the caller is in Connect.                          *)
  started,     (* The number of attempts started.                          *)
  task,        (* Where each attempt is.                                   *)
  chan,        (* The channel of each attempt, as libevent sees it.        *)
  late         (* History: an attempt was given up by its caller, or ended *)
               (* while its channel was still opening, so that a callback  *)
               (* may come when nobody waits for it any more.              *)

vars == <<connected, connecting, error, future, channel, pc, started, task,
          chan, late>>

Attempts == 1..MaxAttempts
Running  == {k \in Attempts : task[k] \in {"reset", "create", "wait"}}
Done     == {"true", "false"}

Init ==
  /\ connected = FALSE /\ connecting = FALSE /\ error = FALSE
  /\ future = 0 /\ channel = 0
  /\ pc = "idle"
  /\ started = 0
  /\ task = [k \in Attempts |-> "none"] /\ chan = [k \in Attempts |-> "none"]
  /\ late = FALSE

-----------------------------------------------------------------------------
(* The caller.  Each step reads connected_ at most once.                    *)

Return == pc' = "idle"

\* Connect.
Connect ==
  /\ pc = "idle"
  /\ started < MaxAttempts
  /\ pc' = IF connected THEN "idle" ELSE IF connecting THEN "wait" ELSE "start"
  /\ UNCHANGED <<connected, connecting, error, future, channel, started, task,
                 chan, late>>

\* Mutant of ConnectAsync: the future of the last attempt is dropped without
\* waiting for it.
ConnectAsyncDetached ==
  /\ pc = "start"
  /\ IF connected \/ connecting
     THEN pc' = "wait" /\ UNCHANGED <<connecting, started, task, future>>
     ELSE /\ connecting' = TRUE
          /\ started' = started + 1
          /\ task' = [task EXCEPT ![started + 1] = "reset"]
          /\ future' = started + 1
          /\ pc' = "wait"
  /\ UNCHANGED <<connected, error, channel, chan, late>>

(* ConnectAsync.  The task runs at once; the assignment to the future then  *)
(* waits for the task of the future it replaces, as that of a std::async.   *)
ConnectAsync ==
  /\ pc = "start"
  /\ IF connected \/ connecting
     THEN pc' = "wait" /\ UNCHANGED <<connecting, started, task>>
     ELSE /\ connecting' = TRUE
          /\ started' = started + 1
          /\ task' = [task EXCEPT ![started + 1] = "reset"]
          /\ pc' = "assign"
  /\ UNCHANGED <<connected, error, future, channel, chan, late>>

AssignFuture ==
  /\ pc = "assign"
  /\ future # 0 => task[future] \in Done
  /\ future' = started
  /\ pc' = "wait"
  /\ UNCHANGED <<connected, connecting, error, channel, started, task, chan,
                 late>>

\* WaitForConnection up to wait_for: it returns at once if connected_ is
\* set by now, and leaves connecting_ and the future as they are.
WaitForConnection ==
  /\ pc = "wait"
  /\ IF connected \/ ~connecting \/ future = 0 THEN Return
                                              ELSE pc' = "waitFor"
  /\ UNCHANGED <<connected, connecting, error, future, channel, started, task,
                 chan, late>>

\* Mutant of WaitForReady: a failed attempt is waited for again.
WaitForReadyAgain ==
  /\ pc = "waitFor"
  /\ task[future] \in Done
  /\ future' = 0
  /\ connecting' = FALSE
  /\ IF task[future] = "true" THEN Return ELSE UNCHANGED pc
  /\ UNCHANGED <<connected, error, channel, started, task, chan, late>>

\* Mutant of WaitForReady: connecting_ stays set.
WaitForReadyStillConnecting ==
  /\ pc = "waitFor"
  /\ task[future] \in Done
  /\ future' = 0
  /\ Return
  /\ UNCHANGED <<connected, connecting, error, channel, started, task, chan,
                 late>>

WaitForReady ==
  /\ pc = "waitFor"
  /\ task[future] \in Done
  /\ future' = 0
  /\ connecting' = FALSE
  /\ Return
  /\ UNCHANGED <<connected, error, channel, started, task, chan, late>>

\* The attempt goes on, and its future stays.
WaitForTimeout ==
  /\ pc = "waitFor"
  /\ task[future] \notin Done
  /\ connecting' = FALSE
  /\ late' = TRUE
  /\ Return
  /\ UNCHANGED <<connected, error, future, channel, started, task, chan>>

-----------------------------------------------------------------------------
(* An attempt: ConnectInternal_.                                            *)

Reset(k) ==
  /\ task[k] = "reset"
  /\ connected' = FALSE
  /\ error' = FALSE
  /\ task' = [task EXCEPT ![k] = "create"]
  /\ UNCHANGED <<connecting, future, channel, pc, started, chan, late>>

\* Mutant of Create: a channel_ that exists is kept.
CreateKeepsChannel(k) ==
  /\ task[k] = "create"
  /\ task' = [task EXCEPT ![k] = "wait"]
  /\ channel' = IF channel = 0 THEN k ELSE channel
  /\ chan' = [chan EXCEPT ![k] = "opening"]
  /\ UNCHANGED <<connected, connecting, error, future, pc, started, late>>

(* The connection and channel, the callbacks, the declarations, the event   *)
(* loop.  An exception ends the attempt: before channel_ is set, or after,  *)
(* when the new channel keeps its callbacks.                                *)
Create(k) ==
  /\ task[k] = "create"
  /\ \/ /\ task' = [task EXCEPT ![k] = "wait"]
        /\ channel' = k /\ chan' = [chan EXCEPT ![k] = "opening"]
        /\ UNCHANGED late
     \/ /\ task' = [task EXCEPT ![k] = "false"]
        /\ UNCHANGED <<channel, chan, late>>
     \/ /\ task' = [task EXCEPT ![k] = "false"]
        /\ channel' = k /\ chan' = [chan EXCEPT ![k] = "opening"]
        /\ late' = TRUE
  /\ UNCHANGED <<connected, connecting, error, future, pc, started>>

\* Mutant of Finish: only a connection ends the wait, neither an error nor
\* the time.
FinishOnlyConnected(k) ==
  /\ task[k] = "wait"
  /\ connected
  /\ task' = [task EXCEPT ![k] = "true"]
  /\ UNCHANGED <<connected, connecting, error, future, channel, pc, started,
                 chan, late>>

\* The condition variable is notified, or ten seconds are over; connected_
\* is then read under the same lock.
Finish(k) ==
  /\ task[k] = "wait"
  /\ task' = [task EXCEPT ![k] = IF connected THEN "true" ELSE "false"]
  /\ late' = (late \/ (~connected /\ chan[k] = "opening"))
  /\ UNCHANGED <<connected, connecting, error, future, channel, pc, started,
                 chan>>

-----------------------------------------------------------------------------
(* The callbacks of a channel, whichever channel_ is by now.                *)

OnReady(k) ==
  /\ chan[k] = "opening"
  /\ chan' = [chan EXCEPT ![k] = "ready"]
  /\ connected' = TRUE
  /\ UNCHANGED <<connecting, error, future, channel, pc, started, task, late>>

OnError(k) ==
  /\ chan[k] \in {"opening", "ready"}
  /\ chan' = [chan EXCEPT ![k] = "failed"]
  /\ connected' = FALSE
  /\ error' = TRUE
  /\ UNCHANGED <<connecting, future, channel, pc, started, task, late>>

Caller ==
  \/ ConnectAsync \/ AssignFuture \/ WaitForConnection
  \/ WaitForReady \/ WaitForTimeout

Attempt(k) == Reset(k) \/ Create(k) \/ Finish(k)

Next ==
  \/ Connect \/ Caller
  \/ \E k \in Attempts : Attempt(k) \/ OnReady(k) \/ OnError(k)

Spec == Init /\ [][Next]_vars

(* Every thread runs, and both waits end; the broker need not answer.       *)
FairSpec ==
  /\ Spec
  /\ WF_vars(Caller)
  /\ \A k \in Attempts : WF_vars(Attempt(k))

-----------------------------------------------------------------------------
(* Properties.                                                              *)

(* Type invariant of the whole state.                                       *)
TypeOK ==
  /\ connected \in BOOLEAN /\ connecting \in BOOLEAN /\ error \in BOOLEAN
  /\ future \in 0..started /\ channel \in 0..started
  /\ pc \in {"idle", "start", "assign", "wait", "waitFor"}
  /\ started \in 0..MaxAttempts
  /\ task \in [Attempts -> {"none", "reset", "create", "wait", "true", "false"}]
  /\ chan \in [Attempts -> {"none", "opening", "ready", "failed"}]
  /\ late \in BOOLEAN
  /\ pc = "waitFor" => future # 0

(* However often callers time out and try again, two attempts at most run   *)
(* at the same time: a new one waits in the assignment for the last.        *)
AtMostTwoAttempts == Cardinality(Running) <= 2

(* The client believes to be connected exactly while the channel it would   *)
(* publish on is open, unless an attempt was given up or ended before the   *)
(* broker had answered it: only then a late callback writes connected_ for  *)
(* a channel that was replaced.  Even then some channel it made is open     *)
(* while it believes so.                                                    *)
ConnectedMeansChannel ==
  /\ ~late => (connected <=> channel # 0 /\ chan[channel] = "ready")
  /\ connected => \E k \in Attempts : chan[k] = "ready"

(* connecting_ never stays set without an attempt whose outcome a later     *)
(* call of Connect can still collect, also when a caller finds the          *)
(* connection made and leaves both behind, or gives up: otherwise every     *)
(* later call would return at once and nobody would connect again.          *)
NeverStuck == connecting /\ pc # "assign" => future # 0

\* The steps an attempt has left.
AttemptSteps(k) ==
  CASE k # 0 /\ task[k] = "reset"  -> 3
    [] k # 0 /\ task[k] = "create" -> 2
    [] k # 0 /\ task[k] = "wait"   -> 1
    [] OTHER                       -> 0

\* Those of the caller; one that is to start an attempt has its steps too.
CallerSteps ==
  CASE pc = "start"   -> 7
    [] pc = "assign"  -> 3
    [] pc = "wait"    -> 2
    [] pc = "waitFor" -> 1
    [] OTHER          -> 0

StepsLeft ==
  CallerSteps + AttemptSteps(started)
    + IF future = started THEN 0 ELSE AttemptSteps(future)

(* Each step of a call of Connect, of the attempt it waits for and of the   *)
(* one it has started leaves them less to do together, whatever the broker  *)
(* answers and however often connected_ changes: a call waits for two       *)
(* attempts at most, and never starts a second one.                         *)
EveryStepCounts ==
  [][Caller \/ (\E k \in Attempts : Attempt(k)) => StepsLeft' < StepsLeft]_vars

(* Connect returns, also when the broker never answers and an abandoned     *)
(* attempt is still waiting.                                                *)
ConnectReturns == pc # "idle" ~> pc = "idle"
=============================================================================
