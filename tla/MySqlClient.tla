----------------------------- MODULE MySqlClient -----------------------------
(***************************************************************************)
(* MySqlClient: threads that call executeUpdate share one session.  A call *)
(* is a round of attempts (WithRetry) and, when the round ends with an     *)
(* SQLException, a reconnection and a second round.  An attempt holds the  *)
(* connection mutex from the check of the session to the reply, so it is   *)
(* one step here; the mutex is free while a call backs off between two     *)
(* attempts and between the rounds.  executeQuery has the same control.    *)
(*                                                                         *)
(* MySQL is external.  A fault is one of                                   *)
(*   "refuse"     no connection can be made;                               *)
(*   "configure"  the database, charset or time zone of a new session is   *)
(*                rejected;                                                *)
(*   "reject"     the statement is rejected;                               *)
(*   "break"      the session breaks while it is configured, or before the *)
(*                statement is committed;                                  *)
(*   "reply"      it breaks after that, and the reply is lost;             *)
(*   "driver"     there is no driver: the one error that is no             *)
(*                SQLException.                                            *)
(* A session may also break while nobody uses it.                          *)
(***************************************************************************)
EXTENDS Naturals

CONSTANTS
  Calls,        (* The calls of executeUpdate, each by a thread of its own. *)
  MaxRetries,   (* RetryConfig::max_retries.                               *)
  Faults        (* The kinds of fault that may happen.                     *)

FaultKinds == {"refuse", "configure", "reject", "break", "reply", "driver"}

ASSUME MySqlClientAssumption ==
  /\ MaxRetries \in Nat
  /\ Faults \subseteq FaultKinds

VARIABLES
  session,   (* connection_: "none", "good", "raw" if it was not configured *)
             (* to the end, or "broken" if the server no longer knows it.   *)
  pc,        (* Where each call is: "attempt", "reconnect", "ok", "failed". *)
  round,     (* 1 before the reconnection, 2 after it.                     *)
  attempt,   (* WithRetry's counter.                                       *)
  (* History.                                                              *)
  effects,   (* How often the statement of each call took effect.          *)
  hits,      (* How many faults each call has met, 2 for more and for one  *)
             (* that is no SQLException.                                   *)
  rawUse     (* Calls whose statement took effect in a raw session.        *)

vars == <<session, pc, round, attempt, effects, hits, rawUse>>

Sessions == {"none", "good", "raw", "broken"}

\* What an attempt or a reconnection can come to: the session it leaves, how
\* often the statement took effect, and the exception that ends it, if any.
Outcomes == [session : Sessions, effects : {0, 1},
             exception : {"no", "transient", "sql", "other"}]

Outcome(s, n, e) == [session |-> s, effects |-> n, exception |-> e]

\* WithRetry tries again when the text or the code of the error says that
\* the connection was lost, or that anything was a timeout.  Not every error
\* of a broken session says so.
Rejected == {"transient", "sql"}

Init ==
  /\ session = "none"
  /\ pc = [c \in Calls |-> "attempt"]
  /\ round = [c \in Calls |-> 1] /\ attempt = [c \in Calls |-> 0]
  /\ effects = [c \in Calls |-> 0] /\ hits = [c \in Calls |-> 0]
  /\ rawUse = {}

-----------------------------------------------------------------------------
Fail(fault, outcomes) == IF fault \in Faults THEN outcomes ELSE {}

(* The second half of ensureConnectionUnlocked.  connection_ is set before  *)
(* the database, the charset and the time zone are, and stays set when one  *)
(* of these is rejected.                                                    *)
NewSession ==
  {Outcome("good", 0, "no")}
    \cup Fail("driver", {Outcome("none", 0, "other")})
    \cup Fail("refuse", {Outcome("none", 0, e) : e \in Rejected})
    \cup Fail("configure", {Outcome("raw", 0, e) : e \in Rejected})
    \cup Fail("break", {Outcome("broken", 0, e) : e \in Rejected})

(* A session that answers SELECT 1 is used as it is; a broken one is        *)
(* dropped without an error, and made anew.                                 *)
ensureConnectionUnlocked ==
  IF session \in {"good", "raw"} THEN {Outcome(session, 0, "no")}
                                 ELSE NewSession

\* The statement, once the session s is there.
Statement(s) ==
  {Outcome(s, 1, "no")}
    \cup Fail("reject", {Outcome(s, 0, e) : e \in Rejected})
    \cup Fail("break", {Outcome("broken", 0, e) : e \in Rejected})
    \cup Fail("reply", {Outcome("broken", 1, e) : e \in Rejected})

work ==
  UNION {IF o.exception = "no" THEN Statement(o.session) ELSE {o} :
           o \in ensureConnectionUnlocked}

Returns(c, where) ==
  /\ pc' = [pc EXCEPT ![c] = where]
  /\ UNCHANGED <<round, attempt>>

\* Mutant of WithRetry: the counter is tested after it was incremented.
WithRetryOneMore(c, exception) ==
  IF exception = "transient" /\ attempt[c] <= MaxRetries
  THEN attempt' = [attempt EXCEPT ![c] = @ + 1] /\ UNCHANGED <<pc, round>>
  ELSE IF exception # "other" /\ round[c] = 1
       THEN Returns(c, "reconnect")
       ELSE Returns(c, "failed")

\* Mutant of WithRetry: the counter is never incremented.
WithRetryForever(c, exception) ==
  IF exception = "transient" /\ attempt[c] < MaxRetries
  THEN UNCHANGED <<pc, round, attempt>>
  ELSE IF exception # "other" /\ round[c] = 1
       THEN Returns(c, "reconnect")
       ELSE Returns(c, "failed")

\* Mutant of WithRetry: an error that is not transient ends the call at once.
WithRetryNoReconnect(c, exception) ==
  IF exception = "transient" /\ attempt[c] < MaxRetries
  THEN attempt' = [attempt EXCEPT ![c] = @ + 1] /\ UNCHANGED <<pc, round>>
  ELSE IF exception = "transient" /\ round[c] = 1
       THEN Returns(c, "reconnect")
       ELSE Returns(c, "failed")

(* What becomes of the exception of an attempt: another attempt of the same *)
(* round; or it leaves WithRetry, and an SQLException of the first round    *)
(* leads to the reconnection, any other exception to an error.              *)
WithRetry(c, exception) ==
  IF exception = "transient" /\ attempt[c] < MaxRetries
  THEN attempt' = [attempt EXCEPT ![c] = @ + 1] /\ UNCHANGED <<pc, round>>
  ELSE IF exception # "other" /\ round[c] = 1
       THEN Returns(c, "reconnect")
       ELSE Returns(c, "failed")

Met(c, exception) ==
  hits' = CASE exception = "no"    -> hits
            [] exception = "other" -> [hits EXCEPT ![c] = 2]
            [] OTHER -> [hits EXCEPT ![c] = IF @ = 2 THEN 2 ELSE @ + 1]

Attempt(c) ==
  /\ pc[c] = "attempt"
  /\ \E o \in work :
       /\ session' = o.session
       /\ effects' = [effects EXCEPT ![c] = @ + o.effects]
       /\ rawUse' = IF o.effects = 1 /\ session = "raw"
                    THEN rawUse \cup {c} ELSE rawUse
       /\ Met(c, o.exception)
       /\ IF o.exception = "no" THEN Returns(c, "ok")
                                ELSE WithRetry(c, o.exception)

(* reconnect() drops the session, whoever made it, and makes a new one; the *)
(* catch (...) around it and around the second round ends the call.         *)
reconnect(c) ==
  /\ pc[c] = "reconnect"
  /\ \E o \in NewSession :
       /\ session' = o.session
       /\ Met(c, o.exception)
       /\ IF o.exception = "no"
          THEN /\ pc' = [pc EXCEPT ![c] = "attempt"]
               /\ round' = [round EXCEPT ![c] = 2]
               /\ attempt' = [attempt EXCEPT ![c] = 0]
          ELSE Returns(c, "failed")
  /\ UNCHANGED <<effects, rawUse>>

\* MySQL restarts, or closes a session that was idle for too long.
SessionBreaks ==
  /\ session \in {"good", "raw"}
  /\ session' = "broken"
  /\ UNCHANGED <<pc, round, attempt, effects, hits, rawUse>>

Next ==
  \/ \E c \in Calls : Attempt(c) \/ reconnect(c)
  \/ SessionBreaks

Spec == Init /\ [][Next]_vars

(* Every thread gets the mutex, and the driver answers or fails.            *)
FairSpec == Spec /\ \A c \in Calls : WF_vars(Attempt(c) \/ reconnect(c))

-----------------------------------------------------------------------------
(* Properties.                                                              *)

MaxAttempts == 2 * (MaxRetries + 1)

(* Type invariant of the whole state.                                       *)
TypeOK ==
  /\ session \in Sessions
  /\ pc \in [Calls -> {"attempt", "reconnect", "ok", "failed"}]
  /\ round \in [Calls -> 1..2]
  /\ attempt \in [Calls -> 0..MaxRetries]
  /\ effects \in [Calls -> 0..MaxAttempts]
  /\ hits \in [Calls -> 0..2]
  /\ rawUse \subseteq Calls

(* One fault never makes a call fail, even when other calls break, drop or  *)
(* half configure the session they share: the ping, the attempts of a round *)
(* or the reconnection absorb it.  (Only the missing driver, which is no    *)
(* SQLException, is not absorbed.)                                          *)
OneFaultIsAbsorbed ==
  \A c \in Calls : pc[c] = "failed" => hits[c] = 2

\* How many steps a call has left at most: the attempts of its round, the
\* reconnection, and the attempts of the second round.
StepsLeft(c) ==
  IF pc[c] \in {"ok", "failed"} THEN 0
  ELSE (2 - round[c]) * (MaxRetries + 2)
         + IF pc[c] = "reconnect" THEN 0 ELSE MaxRetries + 1 - attempt[c]

(* Whatever fails, and whatever other calls do to the session, a step of a  *)
(* call leaves it fewer steps: no fault makes WithRetry begin anew, and the *)
(* reconnection is tried once.                                              *)
EveryStepCounts ==
  [][\A c \in Calls : Attempt(c) \/ reconnect(c) => StepsLeft(c)' < StepsLeft(c)]_vars

(* Every call returns, whatever fails.                                      *)
CallsReturn ==
  \A c \in Calls : <>(pc[c] \in {"ok", "failed"})

Call == INSTANCE SqlCall WITH
  MaxEffects <- MaxAttempts,
  result     <- [c \in Calls |-> IF pc[c] \in {"ok", "failed"} THEN pc[c]
                                                               ELSE "pending"]

(* A call is what SelfCheck takes it for: it takes effect once, and once    *)
(* more for each lost reply, within the number of attempts two rounds have. *)
ImplementsSqlCall == Call!Spec

(* The comments of ensureConnectionUnlocked: the charset and the time zone  *)
(* are set if specified.  A statement takes effect only in a session where  *)
(* they are.                                                                *)
StatementsInConfiguredSessions == rawUse = {}
=============================================================================
