---------------------------- MODULE OnlineWatcher ----------------------------
(***************************************************************************)
(* OnlineStatusWatcher: a timer of the UI thread starts, at every timeout, *)
(* a detached thread that walks over all devices, reads the "comm" field   *)
(* of each from Redis, compares it with the row and, when they differ,     *)
(* queues an update of the row for the UI thread.  Nothing waits for the   *)
(* thread of an earlier timeout, so several may run at once.               *)
(*                                                                         *)
(* Time is left out: a timeout may come whenever the timer runs, whatever  *)
(* its interval, so setPollIntervalMs changes nothing here.  The startup   *)
(* thread connects Redis once, waits five seconds for the attempt, and     *)
(* goes on whatever came of it; the attempt may end later, and the client  *)
(* never forgets that it was connected.  What the thread does before and   *)
(* after that (the table, the subscription, the devices) is here only as   *)
(* far as it may fail and end the startup: SelfCheck and RabbitConnection  *)
(* have the rest.  A read of Redis that fails yields "offline".            *)
(***************************************************************************)
EXTENDS DeviceRows, Sequences

CONSTANTS
  Devices,      (* The rows of the device table, all of type PILE.         *)
  Polls,        (* The threads that may run pollAllDevices at a time.      *)
  MaxQueue,     (* No poll starts while more updates than this are queued. *)
  MaxChanges,   (* Bounds the changes of the status of one device.         *)
  MaxFailures   (* Bounds the reads of Redis that fail.                    *)

ASSUME OnlineWatcherAssumption ==
  /\ MaxQueue \in Nat
  /\ MaxChanges \in Nat
  /\ MaxFailures \in Nat

VARIABLES
  rows,        (* DeviceModel, of which the watcher reads and writes online. *)
  running,     (* running_, and the timer with it.                         *)
  todo,        (* The devices each poll has still to look at.              *)
  reading,     (* What each poll has read and not yet compared.            *)
  uiQueue,     (* updateOnlineStatus calls queued for the UI thread.       *)
  (* RedisClient and Redis.                                                *)
  startup,     (* The next call of AsyncLoadDevices, then of the lambda it *)
               (* queues for the UI thread, or that it has failed.         *)
  attempt,     (* The task of ConnectAsync, which runs ConnectInternal_.   *)
  redisUp,     (* RedisClient::connected_.                                 *)
  comm,        (* Whether the field says "true".                           *)
  (* History.                                                              *)
  changes,     (* How often comm has changed.                              *)
  shown,       (* Of which value of comm the row last heard.               *)
  failures,    (* Reads that failed.                                       *)
  overlapped,  (* Two polls have run at the same time.                     *)
  undisturbed  (* The last poll started with no other running and nothing  *)
               (* queued, and Redis neither changed nor failed since.      *)

redis == <<startup, attempt, redisUp>>

vars == <<rows, running, todo, reading, uiQueue, redis, comm, changes, shown,
          failures, overlapped, undisturbed>>

Readings == [dev : Devices, online : BOOLEAN, of : 0..MaxChanges]

Busy(p) == todo[p] # {} \/ reading[p] # <<>>

Init ==
  /\ rows = [d \in Devices |-> NoRow]
  /\ running = FALSE
  /\ todo = [p \in Polls |-> {}] /\ reading = [p \in Polls |-> <<>>]
  /\ uiQueue = <<>>
  /\ startup = "table" /\ attempt = "none" /\ redisUp = FALSE
  /\ comm \in [Devices -> BOOLEAN]
  /\ changes = [d \in Devices |-> 0] /\ shown = [d \in Devices |-> 0]
  /\ failures = 0
  /\ overlapped = FALSE /\ undisturbed = FALSE

-----------------------------------------------------------------------------
(* The startup thread.                                                      *)

\* A call of AsyncLoadDevices or InitClient whose failure ends the thread.
StartupCall(call, next) ==
  /\ startup = call
  /\ startup' \in {next, "failed"}
  /\ UNCHANGED <<rows, running, todo, reading, uiQueue, attempt, redisUp, comm,
                 changes, shown, failures, overlapped, undisturbed>>

CreateSelfCheckRecordTable == StartupCall("table", "connect")
SubMsg                     == StartupCall("subscribe", "read")
GetAllPipeDevices          == StartupCall("read", "loaded")

\* ConnectAsync.  Nobody else ever connects, so connecting_ and the future
\* are looked at by this call only.
Connect ==
  /\ startup = "connect"
  /\ startup' = "waiting"
  /\ attempt' = "creating"
  /\ UNCHANGED <<rows, running, todo, reading, uiQueue, redisUp, comm, changes,
                 shown, failures, overlapped, undisturbed>>

\* Mutant of WaitForConnection: it waits until the attempt has ended.
WaitForConnectionForEver ==
  /\ startup = "waiting"
  /\ attempt \in {"succeeded", "failed"}
  /\ startup' = "subscribe"
  /\ UNCHANGED <<rows, running, todo, reading, uiQueue, attempt, redisUp, comm,
                 changes, shown, failures, overlapped, undisturbed>>

\* The wait ends with the attempt or after five seconds; InitClient ignores
\* the result, and the thread goes on to subscribe.
WaitForConnection ==
  /\ startup = "waiting"
  /\ startup' = "subscribe"
  /\ UNCHANGED <<rows, running, todo, reading, uiQueue, attempt, redisUp, comm,
                 changes, shown, failures, overlapped, undisturbed>>

\* Mutant of CreateRedis: connected_ is set before the ping.
CreateRedisConnected ==
  /\ attempt = "creating"
  /\ attempt' = "pinging"
  /\ redisUp' = TRUE
  /\ UNCHANGED <<rows, running, todo, reading, uiQueue, startup, comm, changes,
                 shown, failures, overlapped, undisturbed>>

\* ConnectInternal_: redis_ is set, and then pinged.
CreateRedis ==
  /\ attempt = "creating"
  /\ attempt' = "pinging"
  /\ UNCHANGED <<rows, running, todo, reading, uiQueue, startup, redisUp, comm,
                 changes, shown, failures, overlapped, undisturbed>>

Ping ==
  /\ attempt = "pinging"
  /\ \/ attempt' = "succeeded" /\ redisUp' = TRUE
     \/ attempt' = "failed"    /\ redisUp' = FALSE
  /\ UNCHANGED <<rows, running, todo, reading, uiQueue, startup, comm, changes,
                 shown, failures, overlapped, undisturbed>>

-----------------------------------------------------------------------------
(* The UI thread.                                                           *)

Loaded == {d \in Devices : rows[d].present}

(* The thread of a poll.  Without Redis or without devices it ends at once; *)
(* otherwise it begins with a snapshot of the devices, which need not be    *)
(* all while the UI thread adds them.  A thread that does not begin at once *)
(* is that of a later refreshNow.                                           *)
StartPoll ==
  \/ UNCHANGED <<todo, overlapped, undisturbed>>
  \/ /\ redisUp /\ Loaded # {}
     /\ \E p \in Polls :
          /\ ~Busy(p)
          /\ Len(uiQueue) <= MaxQueue
          /\ todo' = [todo EXCEPT ![p] = Loaded]
     /\ overlapped' = (overlapped \/ \E q \in Polls : Busy(q))
     /\ undisturbed' = (uiQueue = <<>> /\ (\A q \in Polls : ~Busy(q))
                                      /\ Loaded = Devices)

\* start() of a running watcher does nothing; otherwise it polls at once.
StartIfStopped ==
  \/ running /\ UNCHANGED <<running, todo, overlapped, undisturbed>>
  \/ ~running /\ running' = TRUE /\ StartPoll

(* The lambda of AsyncLoadDevices adds every device, then starts the        *)
(* watcher.  The UI thread does nothing else meanwhile, but polls may run.  *)
AddDevice(d) ==
  /\ startup \in {"loaded", "adding"}
  /\ d \notin Loaded
  /\ rows' = addDevice(rows, d)
  /\ startup' = "adding"
  /\ UNCHANGED <<running, todo, reading, uiQueue, attempt, redisUp, comm,
                 changes, shown, failures, overlapped, undisturbed>>

StartWatcher ==
  /\ startup \in {"loaded", "adding"}
  /\ Loaded = Devices
  /\ startup' = "started"
  /\ StartIfStopped
  /\ UNCHANGED <<rows, reading, uiQueue, attempt, redisUp, comm, changes, shown,
                 failures>>

start ==
  /\ startup # "adding"
  /\ StartIfStopped
  /\ UNCHANGED <<rows, reading, uiQueue, redis, comm, changes, shown, failures>>

\* The polls that are running go on.
stop ==
  /\ startup # "adding"
  /\ running
  /\ running' = FALSE
  /\ UNCHANGED <<rows, todo, reading, uiQueue, redis, comm, changes, shown,
                 failures, overlapped, undisturbed>>

\* refreshNow() also polls when the watcher is stopped.
refreshNow ==
  /\ StartPoll
  /\ UNCHANGED <<rows, running, reading, uiQueue, redis, comm, changes, shown,
                 failures>>

onPollTimeout == running /\ refreshNow

\* Mutant of UiUpdateOnlineStatus: the newest call runs first.
UiUpdateNewestFirst ==
  /\ startup # "adding"
  /\ uiQueue # <<>>
  /\ LET u == uiQueue[Len(uiQueue)] IN
       /\ rows' = updateOnlineStatus(rows, u.dev, u.online)
       /\ shown' = [shown EXCEPT ![u.dev] = u.of]
  /\ uiQueue' = SubSeq(uiQueue, 1, Len(uiQueue) - 1)
  /\ UNCHANGED <<running, todo, reading, redis, comm, changes, failures,
                 overlapped, undisturbed>>

UiUpdateOnlineStatus ==
  /\ startup # "adding"
  /\ uiQueue # <<>>
  /\ LET u == Head(uiQueue) IN
       /\ rows' = updateOnlineStatus(rows, u.dev, u.online)
       /\ shown' = [shown EXCEPT ![u.dev] = u.of]
  /\ uiQueue' = Tail(uiQueue)
  /\ UNCHANGED <<running, todo, reading, redis, comm, changes, failures,
                 overlapped, undisturbed>>

-----------------------------------------------------------------------------
(* A poll: one device after the other, first Redis and then the row.        *)

Reading(d, online) == [dev |-> d, online |-> online, of |-> changes[d]]

queryOnlineStatus(p, d) ==
  /\ reading[p] = <<>>
  /\ d \in todo[p]
  /\ todo' = [todo EXCEPT ![p] = @ \ {d}]
  /\ \/ /\ reading' = [reading EXCEPT ![p] = <<Reading(d, redisUp /\ comm[d])>>]
        /\ UNCHANGED <<failures, undisturbed>>
     \/ /\ failures < MaxFailures
        /\ failures' = failures + 1
        /\ undisturbed' = FALSE
        /\ reading' = [reading EXCEPT ![p] = <<Reading(d, FALSE)>>]
  /\ UNCHANGED <<rows, running, uiQueue, redis, comm, changes, shown,
                 overlapped>>

\* Mutants of compareAndQueue: only a device found online is reported, or
\* only one found offline.
CompareAndQueueOnly(p, reported) ==
  /\ reading[p] # <<>>
  /\ LET r == Head(reading[p]) IN
       uiQueue' = IF r.online = reported /\ r.online # IsOnline(rows[r.dev])
                  THEN Append(uiQueue, r) ELSE uiQueue
  /\ reading' = [reading EXCEPT ![p] = <<>>]
  /\ UNCHANGED <<rows, running, todo, redis, comm, changes, shown, failures,
                 overlapped, undisturbed>>
CompareOnlineOnly(p)  == CompareAndQueueOnly(p, TRUE)
CompareOfflineOnly(p) == CompareAndQueueOnly(p, FALSE)

(* The row is read without the model's mutex, while calls that change it    *)
(* may still be queued.  A row that is Unknown is not online, so a device   *)
(* found offline leaves it Unknown.                                         *)
compareAndQueue(p) ==
  /\ reading[p] # <<>>
  /\ LET r == Head(reading[p]) IN
       uiQueue' = IF r.online # IsOnline(rows[r.dev])
                  THEN Append(uiQueue, r) ELSE uiQueue
  /\ reading' = [reading EXCEPT ![p] = <<>>]
  /\ UNCHANGED <<rows, running, todo, redis, comm, changes, shown, failures,
                 overlapped, undisturbed>>

-----------------------------------------------------------------------------
\* Redis: DataServer reports that a pile came up or went down.
CommChanges(d) ==
  /\ changes[d] < MaxChanges
  /\ comm' = [comm EXCEPT ![d] = ~@]
  /\ changes' = [changes EXCEPT ![d] = @ + 1]
  /\ undisturbed' = FALSE
  /\ UNCHANGED <<rows, running, todo, reading, uiQueue, redis, shown,
                 failures, overlapped>>

Poll(p) == compareAndQueue(p) \/ \E d \in Devices : queryOnlineStatus(p, d)

Startup ==
  \/ CreateSelfCheckRecordTable \/ Connect \/ WaitForConnection
  \/ SubMsg \/ GetAllPipeDevices

Lambda == StartWatcher \/ \E d \in Devices : AddDevice(d)

Next ==
  \/ Startup \/ CreateRedis \/ Ping
  \/ Lambda \/ start \/ stop \/ refreshNow \/ onPollTimeout
  \/ UiUpdateOnlineStatus
  \/ \E p \in Polls : Poll(p)
  \/ \E d \in Devices : CommChanges(d)

Spec == Init /\ [][Next]_vars

(* Each call of the startup thread ends, the event loop runs, the timer     *)
(* fires again and again while it is active, and every poll makes progress. *)
(* The attempt to connect Redis may hang.                                   *)
Fairness ==
  /\ WF_vars(Startup)
  /\ WF_vars(Lambda)
  /\ WF_vars(onPollTimeout)
  /\ WF_vars(UiUpdateOnlineStatus)
  /\ \A p \in Polls : WF_vars(Poll(p))

FairSpec == Spec /\ Fairness

-----------------------------------------------------------------------------
(* Properties.                                                              *)

(* Type invariant of the whole state.                                       *)
TypeOK ==
  /\ \A d \in Devices : rows[d].online \in {"Unknown", "Online", "Offline"}
  /\ running \in BOOLEAN
  /\ todo \in [Polls -> SUBSET Devices]
  /\ \A p \in Polls : reading[p] = <<>> \/ Head(reading[p]) \in Readings
  /\ \A i \in DOMAIN uiQueue : uiQueue[i] \in Readings
  /\ startup \in {"table", "connect", "waiting", "subscribe", "read", "loaded",
                  "adding", "started", "failed"}
  /\ attempt \in {"none", "creating", "pinging", "succeeded", "failed"}
  /\ redisUp \in BOOLEAN
  /\ comm \in [Devices -> BOOLEAN]
  /\ changes \in [Devices -> 0..MaxChanges]
  /\ shown \in [Devices -> 0..MaxChanges]
  /\ failures \in 0..MaxFailures
  /\ overlapped \in BOOLEAN /\ undisturbed \in BOOLEAN

(* A poll that nothing disturbs leaves every card with the status Redis     *)
(* holds, once the updates it queued have run: comparing with the row, and  *)
(* queuing only the differences, is enough.                                 *)
UndisturbedPollIsAccurate ==
  (undisturbed /\ uiQueue = <<>> /\ \A p \in Polls : ~Busy(p))
    => \A d \in Devices : IsOnline(rows[d]) = comm[d]

(* The card of a device hears of the values of comm in their order, as long *)
(* as no poll starts before the one before it has ended: neither the queue  *)
(* to the UI thread nor the unlocked comparison with the row can take it    *)
(* back.  (With overlapping polls it can: a slow poll queues an old value   *)
(* behind the new one.)                                                     *)
OnlyOverlapGoesBack ==
  [][~overlapped' => \A d \in Devices : shown'[d] >= shown[d]]_vars

(* No card says Online or Offline unless Redis has been reached: polls that *)
(* begin before the attempt to connect has ended, or after it has failed,   *)
(* leave the cards as they were added.                                      *)
NoStatusWithoutRedis ==
  (\E d \in Devices : rows[d].online # "Unknown") => attempt = "succeeded"

(* However the attempt to connect Redis goes, also when it hangs, and       *)
(* whatever is started, stopped or polled meanwhile, the devices are added  *)
(* and the watcher runs, unless the table, the subscription or the read of  *)
(* the devices fails.                                                       *)
DevicesAppear == [](startup # "failed") => <>(Loaded = Devices /\ running)

(* When the status stops changing, the attempt to connect has succeeded,    *)
(* be it after its caller gave up, and the watcher keeps running, every     *)
(* card that is there comes to show the status and keeps it, whatever       *)
(* overlapping polls, polls begun before all the devices were there and     *)
(* failed reads had put there before.                                       *)
EventuallyAccurate ==
  <>(attempt = "succeeded") =>
    \A d \in Devices :
      <>[](running /\ d \in Loaded) => <>[](IsOnline(rows[d]) = comm[d])
=============================================================================
