-------------------------- MODULE OnlineWatcherProofs --------------------------
(***************************************************************************)
(* Proofs about OnlineWatcher, for every set of devices, any number of     *)
(* polls at a time and every bound.                                        *)
(***************************************************************************)
EXTENDS OnlineWatcher, SequenceTheorems, TLAPS

OnlineRows == [present  : BOOLEAN,
               online   : {"Unknown", "Online", "Offline"},
               checking : BOOLEAN,
               text     : {""},
               last     : Nat]

AllPresent == \A d \in Devices : rows[d].present

(* What TypeOK needs to be inductive: the whole rows and the queue, that    *)
(* polls run and updates are queued only with Redis, and that a poll is     *)
(* undisturbed only when every device is there.                             *)
TypeInv ==
  /\ TypeOK
  /\ rows \in [Devices -> OnlineRows]
  /\ reading \in [Polls -> {<<>>} \cup {<<r>> : r \in Readings}]
  /\ uiQueue \in Seq(Readings)
  /\ redisUp <=> attempt = "succeeded"
  /\ startup \in {"table", "connect"} => attempt = "none"
  /\ \A p \in Polls : Busy(p) => redisUp
  /\ uiQueue # <<>> => redisUp
  /\ (\E d \in Devices : rows[d].online # "Unknown") => redisUp
  /\ undisturbed => AllPresent

\* The parts of it that no step says much about.
LEMMA Plain ==
  TypeInv => /\ MaxQueue \in Nat /\ MaxChanges \in Nat /\ MaxFailures \in Nat
             /\ rows \in [Devices -> OnlineRows]
             /\ todo \in [Polls -> SUBSET Devices]
             /\ reading \in [Polls -> {<<>>} \cup {<<r>> : r \in Readings}]
             /\ uiQueue \in Seq(Readings)
             /\ comm \in [Devices -> BOOLEAN]
             /\ changes \in [Devices -> 0..MaxChanges]
             /\ shown \in [Devices -> 0..MaxChanges]
BY OnlineWatcherAssumption DEF OnlineWatcherAssumption, TypeInv, TypeOK

LEMMA ReadingParts ==
  ASSUME NEW r \in Readings
  PROVE  r.dev \in Devices /\ r.online \in BOOLEAN /\ r.of \in 0..MaxChanges
BY DEF Readings

LEMMA ReadingOf ==
  ASSUME changes \in [Devices -> 0..MaxChanges],
         NEW d \in Devices, NEW b \in BOOLEAN
  PROVE  /\ Reading(d, b) \in Readings
         /\ Reading(d, b).dev = d /\ Reading(d, b).online = b
         /\ Reading(d, b).of = changes[d]
BY DEF Reading, Readings

\* What a poll has read, if anything.
LEMMA HeadOfReading ==
  ASSUME TypeInv, NEW p \in Polls, reading[p] # <<>>
  PROVE  Head(reading[p]) \in Readings
<1>1. PICK r \in Readings : reading[p] = <<r>>
  BY Plain
<1> QED BY <1>1

LEMMA OneReading ==
  ASSUME NEW r \in Readings
  PROVE  Head(<<r>>) = r /\ <<r>> # <<>>
OBVIOUS

\* What updateOnlineStatus makes of the row of a device.
LEMMA OnlineRow ==
  ASSUME NEW r \in OnlineRows, NEW x \in {"Online", "Offline"}
  PROVE  /\ [r EXCEPT !.online = x] \in OnlineRows
         /\ [r EXCEPT !.online = x].present = r.present
         /\ [r EXCEPT !.online = x].online = x
<1> DEFINE n == [r EXCEPT !.online = x]
<1>0. r = [present |-> r.present, online |-> r.online,
           checking |-> r.checking, text |-> r.text, last |-> r.last]
  BY DEF OnlineRows
<1>1. n = [present |-> r.present, online |-> x, checking |-> r.checking,
           text |-> r.text, last |-> r.last]
  BY <1>0
<1> HIDE DEF n
<1>2. n \in OnlineRows /\ n.present = r.present /\ n.online = x
  BY <1>1 DEF OnlineRows
<1> QED BY <1>2 DEF n

LEMMA Updated ==
  ASSUME rows \in [Devices -> OnlineRows], NEW d \in Devices, NEW b \in BOOLEAN
  PROVE  /\ updateOnlineStatus(rows, d, b) \in [Devices -> OnlineRows]
         /\ \A e \in Devices :
              /\ updateOnlineStatus(rows, d, b)[e].present = rows[e].present
              /\ e # d => updateOnlineStatus(rows, d, b)[e] = rows[e]
         /\ rows[d].present =>
              (IsOnline(updateOnlineStatus(rows, d, b)[d]) <=> b)
<1> DEFINE x == IF b THEN "Online" ELSE "Offline"
           row == [rows[d] EXCEPT !.online = x]
<1>1. x \in {"Online", "Offline"}
  OBVIOUS
<1>0. rows[d] \in OnlineRows
  OBVIOUS
<1> HIDE DEF x
<1>2. row \in OnlineRows /\ row.present = rows[d].present /\ row.online = x
  BY <1>0, <1>1, OnlineRow
<1>3. updateOnlineStatus(rows, d, b)
        = IF rows[d].present THEN [rows EXCEPT ![d] = row] ELSE rows
  BY DEF updateOnlineStatus, OnKnown, x
<1> HIDE DEF row
<1>4. x = "Online" <=> b
  BY DEF x
<1> QED BY <1>2, <1>3, <1>4 DEF IsOnline

\* The queue of the UI thread.
LEMMA QueueTail ==
  ASSUME NEW q \in Seq(Readings), q # <<>>
  PROVE  /\ Head(q) \in Readings /\ Tail(q) \in Seq(Readings)
         /\ 1 \in DOMAIN q /\ Head(q) = q[1]
         /\ \A i \in DOMAIN Tail(q) :
              i + 1 \in DOMAIN q /\ Tail(q)[i] = q[i + 1] /\ i \in Nat
         /\ \A i \in DOMAIN q : i # 1 =>
              i - 1 \in DOMAIN Tail(q) /\ Tail(q)[i - 1] = q[i]
         /\ \A i \in DOMAIN q : i >= 1 /\ i \in Nat
OBVIOUS

LEMMA QueueAppend ==
  ASSUME NEW q \in Seq(Readings), NEW e \in Readings
  PROVE  /\ Append(q, e) \in Seq(Readings)
         /\ Len(q) + 1 \in DOMAIN Append(q, e) /\ Append(q, e)[Len(q) + 1] = e
         /\ \A i \in DOMAIN Append(q, e) :
              \/ i \in DOMAIN q /\ i <= Len(q) /\ Append(q, e)[i] = q[i]
              \/ i = Len(q) + 1
         /\ \A i \in DOMAIN q :
              i <= Len(q) /\ i \in DOMAIN Append(q, e) /\ Append(q, e)[i] = q[i]
         /\ Len(q) \in Nat
<1>1. /\ Append(q, e) \in Seq(Readings)
      /\ DOMAIN Append(q, e) = 1..(Len(q) + 1)
      /\ \A i \in DOMAIN q : i \in DOMAIN Append(q, e) /\ Append(q, e)[i] = q[i]
      /\ Append(q, e)[Len(q) + 1] = e
      /\ DOMAIN q = 1..Len(q) /\ Len(q) \in Nat
  OBVIOUS
<1>2. \A i \in 1..(Len(q) + 1) : i \in 1..Len(q) \/ i = Len(q) + 1
  BY <1>1
<1>3. Len(q) + 1 \in DOMAIN Append(q, e)
  BY <1>1
<1> QED BY <1>1, <1>2, <1>3

LEMMA QueueTypes ==
  ASSUME NEW q \in Seq(Readings)
  PROVE  \A i \in DOMAIN q : q[i] \in Readings
OBVIOUS

LEMMA QueueIndices ==
  ASSUME NEW q \in Seq(Readings)
  PROVE  \A i \in DOMAIN q : i \in Nat
OBVIOUS

-----------------------------------------------------------------------------
(* Types.                                                                   *)

LEMMA InitTypeInv == Init => TypeInv
<1> SUFFICES ASSUME Init PROVE TypeInv
  OBVIOUS
<1>1. MaxQueue \in Nat /\ MaxChanges \in Nat /\ MaxFailures \in Nat
  BY OnlineWatcherAssumption DEF OnlineWatcherAssumption
<1>2. rows \in [Devices -> OnlineRows]
      /\ \A d \in Devices : rows[d].online = "Unknown" /\ ~rows[d].present
  BY DEF Init, NoRow, OnlineRows
<1>3. /\ running = FALSE /\ startup = "table" /\ attempt = "none"
      /\ redisUp = FALSE /\ overlapped = FALSE /\ undisturbed = FALSE
      /\ failures = 0 /\ uiQueue = <<>> /\ comm \in [Devices -> BOOLEAN]
  BY DEF Init
<1>4. /\ todo \in [Polls -> SUBSET Devices]
      /\ \A p \in Polls : reading[p] = <<>> /\ ~Busy(p)
      /\ reading \in [Polls -> {<<>>} \cup {<<r>> : r \in Readings}]
  BY DEF Init, Busy
<1>5. /\ changes \in [Devices -> 0..MaxChanges]
      /\ shown \in [Devices -> 0..MaxChanges]
  BY <1>1 DEF Init
<1>6. uiQueue \in Seq(Readings) /\ DOMAIN uiQueue = {} /\ failures \in 0..MaxFailures
  BY <1>1, <1>3
<1> QED BY <1>2, <1>3, <1>4, <1>5, <1>6 DEF TypeInv, TypeOK

\* A poll that starts.
LEMMA PollStarts ==
  ASSUME TypeInv, StartPoll
  PROVE  /\ todo' \in [Polls -> SUBSET Devices]
         /\ overlapped' \in BOOLEAN /\ undisturbed' \in BOOLEAN
         /\ undisturbed' => AllPresent
         /\ \A p \in Polls : todo'[p] # todo[p] => redisUp
<1>1. CASE UNCHANGED <<todo, overlapped, undisturbed>>
  BY <1>1 DEF TypeInv, TypeOK
<1>2. CASE ~UNCHANGED <<todo, overlapped, undisturbed>>
  <2>1. PICK p \in Polls : todo' = [todo EXCEPT ![p] = Loaded]
    BY <1>2 DEF StartPoll
  <2>2. /\ redisUp
        /\ overlapped' = (overlapped \/ \E q \in Polls : Busy(q))
        /\ undisturbed' = (uiQueue = <<>> /\ (\A q \in Polls : ~Busy(q))
                                         /\ Loaded = Devices)
    BY <1>2 DEF StartPoll
  <2>3. Loaded \in SUBSET Devices /\ (Loaded = Devices => AllPresent)
    BY DEF Loaded, AllPresent
  <2>4. todo' \in [Polls -> SUBSET Devices]
    BY <2>1, <2>3, Plain
  <2>5. overlapped' \in BOOLEAN /\ undisturbed' \in BOOLEAN
    BY <2>2 DEF TypeInv, TypeOK
  <2> QED BY <2>2, <2>3, <2>4, <2>5
<1> QED BY <1>1, <1>2

\* The steps of the UI thread, or of a poll's thread, with which one may start.
LEMMA PollMayStart ==
  ASSUME StartWatcher \/ start \/ refreshNow
  PROVE  /\ StartPoll
         /\ UNCHANGED <<rows, reading, uiQueue, attempt, redisUp, comm, changes,
                        shown, failures>>
         /\ running' \in {TRUE, running}
         /\ startup' \in {startup, "started"}
BY DEF StartWatcher, start, StartIfStopped, refreshNow, StartPoll, redis

LEMMA StartupSteps ==
  ASSUME TypeInv, Startup
  PROVE  /\ UNCHANGED <<rows, running, todo, reading, uiQueue, redisUp, comm,
                        changes, shown, failures, overlapped, undisturbed>>
         /\ attempt' \in {attempt, "creating"}
         /\ attempt' # attempt => attempt = "none"
         /\ startup' \in {"connect", "waiting", "subscribe", "read", "loaded",
                           "failed"}
         /\ startup' = "connect" => attempt' = "none"
BY DEF Startup, StartupCall, CreateSelfCheckRecordTable, Connect,
       WaitForConnection, SubMsg, GetAllPipeDevices, TypeInv

\* The row of a device that is added.
LEMMA Added ==
  ASSUME rows \in [Devices -> OnlineRows], NEW d \in Devices
  PROVE  /\ addDevice(rows, d) \in [Devices -> OnlineRows]
         /\ addDevice(rows, d)[d].online = "Unknown"
         /\ \A e \in Devices : e # d => addDevice(rows, d)[e] = rows[e]
<1>1. FreshRow \in OnlineRows /\ FreshRow.online = "Unknown"
  BY DEF FreshRow, NoRow, OnlineRows
<1> QED BY <1>1 DEF addDevice

LEMMA NextTypeInv == TypeInv /\ [Next]_vars => TypeInv'
<1> SUFFICES ASSUME TypeInv, [Next]_vars PROVE TypeInv'
  OBVIOUS
<1> USE Plain
<1>1. CASE Startup
  BY <1>1, StartupSteps DEF TypeInv, TypeOK, AllPresent, Busy
<1>3. CASE CreateRedis
  BY <1>3 DEF CreateRedis, TypeInv, TypeOK, AllPresent, Busy
<1>4. CASE Ping
  BY <1>4 DEF Ping, TypeInv, TypeOK, AllPresent, Busy
<1>5. ASSUME NEW d \in Devices, AddDevice(d) PROVE TypeInv'
  <2>1. /\ ~rows[d].present /\ rows' = addDevice(rows, d) /\ startup' = "adding"
        /\ UNCHANGED <<running, todo, reading, uiQueue, attempt, redisUp, comm,
                       changes, shown, failures, overlapped, undisturbed>>
    BY <1>5 DEF AddDevice, Loaded
  <2>2. /\ rows' \in [Devices -> OnlineRows]
        /\ \A e \in Devices : rows'[e].online \in {"Unknown", rows[e].online}
    BY <2>1, Added
  <2>3. ~undisturbed
    BY <2>1 DEF TypeInv, AllPresent
  <2>4. \A e \in Devices : rows'[e].online \in {"Unknown", "Online", "Offline"}
    BY <2>2 DEF OnlineRows
  <2> QED BY <2>1, <2>2, <2>3, <2>4 DEF TypeInv, TypeOK, Busy
<1>6. CASE StartWatcher \/ start \/ refreshNow
  <2>1. /\ StartPoll /\ running' \in BOOLEAN /\ startup' \in {startup, "started"}
        /\ UNCHANGED <<rows, reading, uiQueue, attempt, redisUp, comm, changes,
                       shown, failures>>
    BY <1>6, PollMayStart DEF TypeInv, TypeOK
  <2>2. /\ todo' \in [Polls -> SUBSET Devices]
        /\ overlapped' \in BOOLEAN /\ undisturbed' \in BOOLEAN
        /\ undisturbed' => AllPresent
        /\ \A p \in Polls : todo'[p] # todo[p] => redisUp
    BY <2>1, PollStarts
  <2>3. \A p \in Polls : Busy(p)' => redisUp
    BY <2>1, <2>2 DEF Busy, TypeInv
  <2> QED BY <2>1, <2>2, <2>3 DEF TypeInv, TypeOK, AllPresent
<1>7. CASE stop
  BY <1>7 DEF stop, redis, TypeInv, TypeOK, AllPresent, Busy
<1>8. CASE UiUpdateOnlineStatus
  <2> DEFINE u == Head(uiQueue)
  <2>1. /\ uiQueue # <<>> /\ uiQueue' = Tail(uiQueue)
        /\ rows' = updateOnlineStatus(rows, u.dev, u.online)
        /\ shown' = [shown EXCEPT ![u.dev] = u.of]
        /\ UNCHANGED <<running, todo, reading, startup, attempt, redisUp, comm,
                       changes, failures, overlapped, undisturbed>>
    BY <1>8 DEF UiUpdateOnlineStatus, redis
  <2>2. u \in Readings /\ uiQueue' \in Seq(Readings)
    BY <2>1, QueueTail
  <2>3. u.dev \in Devices /\ u.online \in BOOLEAN /\ u.of \in 0..MaxChanges
    BY <2>2, ReadingParts
  <2> HIDE DEF u
  <2>4. /\ rows' \in [Devices -> OnlineRows]
        /\ \A e \in Devices : rows'[e].present = rows[e].present
    BY <2>1, <2>3, Updated
  <2>5. shown' \in [Devices -> 0..MaxChanges]
    BY <2>1, <2>3
  <2>6. redisUp
    BY <2>1 DEF TypeInv
  <2>7. undisturbed => AllPresent'
    BY <2>4 DEF TypeInv, AllPresent
  <2>8. \A d \in Devices : rows'[d].online \in {"Unknown", "Online", "Offline"}
    BY <2>4 DEF OnlineRows
  <2>9. \A i \in DOMAIN uiQueue' : uiQueue'[i] \in Readings
    BY <2>2
  <2> QED BY <2>1, <2>2, <2>4, <2>5, <2>6, <2>7, <2>8, <2>9
          DEF TypeInv, TypeOK, Busy
<1>9. ASSUME NEW p \in Polls, NEW d \in Devices, queryOnlineStatus(p, d)
      PROVE  TypeInv'
  <2>1. /\ todo' = [todo EXCEPT ![p] = @ \ {d}]
        /\ UNCHANGED <<rows, running, uiQueue, startup, attempt, redisUp, comm,
                       changes, shown, overlapped>>
    BY <1>9 DEF queryOnlineStatus, redis
  <2>2. PICK b \in BOOLEAN : reading' = [reading EXCEPT ![p] = <<Reading(d, b)>>]
    BY <1>9 DEF queryOnlineStatus, TypeInv, TypeOK
  <2>3. Reading(d, b) \in Readings
    BY ReadingOf
  <2>4. reading' \in [Polls -> {<<>>} \cup {<<r>> : r \in Readings}]
    BY <2>2, <2>3
  <2>5. \A q \in Polls : reading'[q] = <<>> \/ Head(reading'[q]) \in Readings
    BY <2>2, <2>3, OneReading DEF TypeInv, TypeOK
  <2>6. /\ failures' \in 0..MaxFailures
        /\ undisturbed' \in BOOLEAN /\ (undisturbed' => undisturbed)
    <3>1. \/ failures' = failures /\ undisturbed' = undisturbed
          \/ failures' = failures + 1 /\ failures < MaxFailures
             /\ undisturbed' = FALSE
      BY <1>9 DEF queryOnlineStatus
    <3>2. failures \in 0..MaxFailures /\ undisturbed \in BOOLEAN
      BY DEF TypeInv, TypeOK
    <3>3. failures' \in 0..MaxFailures
      BY <3>1, <3>2
    <3>4. undisturbed' = undisturbed \/ undisturbed' = FALSE
      BY <3>1
    <3>5. undisturbed' \in BOOLEAN
      BY <3>2, <3>4
    <3>6. undisturbed' => undisturbed
      BY <3>4
    <3> QED BY <3>3, <3>5, <3>6
  <2>7. todo' \in [Polls -> SUBSET Devices]
    BY <2>1
  <2>8. \A q \in Polls : Busy(q)' => redisUp
    <3>1. redisUp
      BY <1>9 DEF queryOnlineStatus, TypeInv, Busy
    <3> QED BY <3>1
  <2> QED BY <2>1, <2>4, <2>5, <2>6, <2>7, <2>8 DEF TypeInv, TypeOK, AllPresent
<1>10. ASSUME NEW p \in Polls, compareAndQueue(p) PROVE TypeInv'
  <2> DEFINE r == Head(reading[p])
  <2>1. /\ reading[p] # <<>> /\ r \in Readings
        /\ uiQueue' \in {uiQueue, Append(uiQueue, r)}
        /\ reading' = [reading EXCEPT ![p] = <<>>]
        /\ UNCHANGED <<rows, running, todo, startup, attempt, redisUp, comm,
                       changes, shown, failures, overlapped, undisturbed>>
    BY <1>10, HeadOfReading DEF compareAndQueue, redis
  <2> HIDE DEF r
  <2>2. uiQueue' \in Seq(Readings)
    <3>1. Append(uiQueue, r) \in Seq(Readings)
      BY <2>1, QueueAppend
    <3> QED BY <2>1, <3>1
  <2>3. \A i \in DOMAIN uiQueue' : uiQueue'[i] \in Readings
    BY <2>2, QueueTypes
  <2>4. redisUp
    BY <2>1 DEF TypeInv, Busy
  <2>5. /\ reading' \in [Polls -> {<<>>} \cup {<<x>> : x \in Readings}]
        /\ \A q \in Polls : reading'[q] = <<>> \/ reading'[q] = reading[q]
    BY <2>1
  <2> QED BY <2>1, <2>2, <2>3, <2>4, <2>5 DEF TypeInv, TypeOK, AllPresent
<1>11. ASSUME NEW d \in Devices, CommChanges(d) PROVE TypeInv'
  <2>1. /\ changes[d] < MaxChanges
        /\ comm' = [comm EXCEPT ![d] = ~@]
        /\ changes' = [changes EXCEPT ![d] = @ + 1]
        /\ undisturbed' = FALSE
        /\ UNCHANGED <<rows, running, todo, reading, uiQueue, startup, attempt,
                       redisUp, shown, failures, overlapped>>
    BY <1>11 DEF CommChanges, redis
  <2>2. changes[d] + 1 \in 0..MaxChanges
    BY <2>1
  <2>3. changes' \in [Devices -> 0..MaxChanges] /\ comm' \in [Devices -> BOOLEAN]
    BY <2>1, <2>2
  <2> QED BY <2>1, <2>3 DEF TypeInv, TypeOK, AllPresent, Busy
<1>12. CASE UNCHANGED vars
  BY <1>12 DEF vars, redis, TypeInv, TypeOK, AllPresent, Busy
<1> QED BY <1>1, <1>3, <1>4, <1>5, <1>6, <1>7, <1>8, <1>9, <1>10, <1>11, <1>12
        DEF Next, Lambda, Poll, onPollTimeout

(* Every variable keeps its type.                                           *)
THEOREM SpecTypeOK == Spec => []TypeOK
<1>1. Spec => []TypeInv
  BY InitTypeInv, NextTypeInv, PTL DEF Spec
<1> QED BY <1>1, PTL DEF TypeInv

(* No card says Online or Offline before Redis has been reached, and none   *)
(* ever does after a failed attempt: polls run only with Redis, and only    *)
(* they queue updates.                                                      *)
THEOREM SpecNoStatusWithoutRedis == Spec => []NoStatusWithoutRedis
<1>1. Spec => []TypeInv
  BY InitTypeInv, NextTypeInv, PTL DEF Spec
<1>2. TypeInv => NoStatusWithoutRedis
  BY DEF TypeInv, NoStatusWithoutRedis
<1> QED BY <1>1, <1>2, PTL

-----------------------------------------------------------------------------
(* Accuracy.                                                                *)

\* The card of a device shows the status, or the poll has still to look at
\* it, or what the poll found is on its way to it.
Settling(d) ==
  \/ IsOnline(rows[d]) = comm[d]
  \/ \E p \in Polls : d \in todo[p]
  \/ \E p \in Polls : reading[p] # <<>> /\ Head(reading[p]).dev = d
  \/ \E i \in DOMAIN uiQueue : uiQueue[i].dev = d

\* Nothing that was found is out of date, and no device was forgotten.
UndisturbedInv ==
  undisturbed =>
    /\ \A i \in DOMAIN uiQueue : uiQueue[i].online = comm[uiQueue[i].dev]
    /\ \A p \in Polls : reading[p] # <<>> =>
         Head(reading[p]).online = comm[Head(reading[p]).dev]
    /\ \A d \in Devices : Settling(d)

\* A poll that starts, for this invariant.
LEMMA UndisturbedStart ==
  ASSUME TypeInv, UndisturbedInv, StartPoll,
         UNCHANGED <<rows, reading, uiQueue, comm>>
  PROVE  UndisturbedInv'
<1>1. CASE UNCHANGED <<todo, undisturbed>>
  BY <1>1 DEF UndisturbedInv, Settling
<1>2. CASE ~UNCHANGED <<todo, undisturbed>>
  <2> SUFFICES ASSUME undisturbed' PROVE UndisturbedInv'
    BY DEF UndisturbedInv
  <2>1. PICK p \in Polls : todo' = [todo EXCEPT ![p] = Devices]
    BY <1>2 DEF StartPoll
  <2>2. uiQueue = <<>> /\ \A q \in Polls : ~Busy(q)
    BY <1>2 DEF StartPoll
  <2>3. todo'[p] = Devices
    BY <2>1, Plain
  <2>4. \A q \in Polls : reading[q] = <<>>
    BY <2>2 DEF Busy
  <2>5. DOMAIN uiQueue = {}
    BY <2>2
  <2> QED BY <2>3, <2>4, <2>5 DEF UndisturbedInv, Settling
<1> QED BY <1>1, <1>2

LEMMA NextUndisturbedInv ==
  TypeInv /\ UndisturbedInv /\ [Next]_vars => UndisturbedInv'
<1> SUFFICES ASSUME TypeInv, UndisturbedInv, [Next]_vars PROVE UndisturbedInv'
  OBVIOUS
<1> USE Plain
<1>1. CASE Startup \/ CreateRedis \/ Ping \/ stop \/ UNCHANGED vars
  <2>1. UNCHANGED <<rows, todo, reading, uiQueue, comm, undisturbed>>
    BY <1>1, StartupSteps DEF CreateRedis, Ping, stop, vars
  <2> QED BY <2>1 DEF UndisturbedInv, Settling
<1>2. ASSUME NEW d \in Devices, AddDevice(d) PROVE UndisturbedInv'
  <2>1. ~undisturbed /\ undisturbed' = undisturbed
    BY <1>2 DEF AddDevice, Loaded, TypeInv, AllPresent
  <2> QED BY <2>1 DEF UndisturbedInv
<1>3. CASE StartWatcher \/ start \/ refreshNow
  BY <1>3, PollMayStart, UndisturbedStart
<1>4. CASE UiUpdateOnlineStatus
  <2> SUFFICES ASSUME undisturbed PROVE UndisturbedInv'
    BY <1>4 DEF UiUpdateOnlineStatus, UndisturbedInv
  <2> DEFINE u == Head(uiQueue)
  <2>1. /\ uiQueue # <<>> /\ uiQueue' = Tail(uiQueue)
        /\ rows' = updateOnlineStatus(rows, u.dev, u.online)
        /\ UNCHANGED <<todo, reading, comm, undisturbed>>
    BY <1>4 DEF UiUpdateOnlineStatus
  <2>2. /\ u \in Readings /\ 1 \in DOMAIN uiQueue /\ u = uiQueue[1]
        /\ \A i \in DOMAIN uiQueue' :
             i + 1 \in DOMAIN uiQueue /\ uiQueue'[i] = uiQueue[i + 1]
        /\ \A i \in DOMAIN uiQueue : i # 1 =>
             i - 1 \in DOMAIN uiQueue' /\ uiQueue'[i - 1] = uiQueue[i]
    BY <2>1, QueueTail
  <2> HIDE DEF u
  <2>3. /\ u.dev \in Devices /\ u.online \in BOOLEAN
        /\ u.online = comm[u.dev] /\ rows[u.dev].present
    BY <2>2, ReadingParts DEF UndisturbedInv, TypeInv, AllPresent
  <2>4. /\ IsOnline(rows'[u.dev]) = comm[u.dev]
        /\ \A d \in Devices : d # u.dev => rows'[d] = rows[d]
    BY <2>1, <2>3, Updated DEF IsOnline
  <2>5. ASSUME NEW d \in Devices PROVE Settling(d)'
    <3>1. CASE d = u.dev
      BY <2>1, <2>4, <3>1 DEF Settling
    <3>2. CASE d # u.dev
      <4>1. (\E i \in DOMAIN uiQueue : uiQueue[i].dev = d) =>
               \E i \in DOMAIN uiQueue' : uiQueue'[i].dev = d
        BY <2>2, <3>2
      <4>2. Settling(d)
        BY DEF UndisturbedInv
      <4> QED BY <2>1, <2>4, <3>2, <4>1, <4>2 DEF Settling
    <3> QED BY <3>1, <3>2
  <2>6. \A i \in DOMAIN uiQueue' : uiQueue'[i].online = comm[uiQueue'[i].dev]
    BY <2>2 DEF UndisturbedInv
  <2> QED BY <2>1, <2>5, <2>6 DEF UndisturbedInv
<1>5. ASSUME NEW p \in Polls, NEW d \in Devices, queryOnlineStatus(p, d)
      PROVE  UndisturbedInv'
  <2> SUFFICES ASSUME undisturbed' PROVE UndisturbedInv'
    BY DEF UndisturbedInv
  <2>1. redisUp
    BY <1>5 DEF queryOnlineStatus, TypeInv, Busy
  <2>2. /\ d \in todo[p] /\ todo' = [todo EXCEPT ![p] = @ \ {d}]
        /\ reading[p] = <<>>
        /\ reading' = [reading EXCEPT ![p] = <<Reading(d, redisUp /\ comm[d])>>]
        /\ undisturbed
        /\ UNCHANGED <<rows, uiQueue, comm>>
    BY <1>5 DEF queryOnlineStatus
  <2>3. (redisUp /\ comm[d]) = comm[d] /\ comm[d] \in BOOLEAN
    BY <2>1
  <2> DEFINE r == Reading(d, comm[d])
  <2>4. r \in Readings /\ r.dev = d /\ r.online = comm[d]
    BY <2>3, ReadingOf
  <2> HIDE DEF r
  <2>5. reading' = [reading EXCEPT ![p] = <<r>>]
    BY <2>2, <2>3 DEF r
  <2>6. reading'[p] = <<r>> /\ Head(reading'[p]) = r /\ reading'[p] # <<>>
    BY <2>4, <2>5
  <2>7. \A q \in Polls : q # p => reading'[q] = reading[q] /\ todo'[q] = todo[q]
    BY <2>2, <2>5
  <2>8. \A q \in Polls : reading'[q] # <<>> =>
          Head(reading'[q]).online = comm[Head(reading'[q]).dev]
    BY <2>2, <2>4, <2>6, <2>7 DEF UndisturbedInv
  <2>9. ASSUME NEW e \in Devices PROVE Settling(e)'
    <3>1. CASE e = d
      BY <2>4, <2>6, <3>1 DEF Settling
    <3>2. CASE e # d
      <4>1. Settling(e)
        BY <2>2 DEF UndisturbedInv
      <4>2. \A q \in Polls : e \in todo[q] => e \in todo'[q]
        BY <2>2, <3>2
      <4>3. \A q \in Polls : reading[q] # <<>> => reading'[q] = reading[q]
        BY <2>2, <2>7
      <4> QED BY <2>2, <4>1, <4>2, <4>3 DEF Settling
    <3> QED BY <3>1, <3>2
  <2> QED BY <2>2, <2>8, <2>9 DEF UndisturbedInv
<1>6. ASSUME NEW p \in Polls, compareAndQueue(p) PROVE UndisturbedInv'
  <2> SUFFICES ASSUME undisturbed PROVE UndisturbedInv'
    BY <1>6 DEF compareAndQueue, UndisturbedInv
  <2> DEFINE r == Head(reading[p])
  <2>1. /\ reading[p] # <<>> /\ r \in Readings
        /\ uiQueue' = IF r.online # IsOnline(rows[r.dev])
                      THEN Append(uiQueue, r) ELSE uiQueue
        /\ reading' = [reading EXCEPT ![p] = <<>>]
        /\ UNCHANGED <<rows, todo, comm, undisturbed>>
    BY <1>6, HeadOfReading DEF compareAndQueue
  <2>2. r.online = comm[r.dev]
    BY <2>1 DEF UndisturbedInv
  <2>3. \A q \in Polls : reading'[q] # <<>> => q # p /\ reading'[q] = reading[q]
    BY <2>1
  <2>4. \A q \in Polls : q # p => reading'[q] = reading[q]
    BY <2>1
  <2>a. \A q \in Polls : reading[q] # <<>> /\ Head(reading[q]).dev # r.dev
          => reading'[q] = reading[q]
    BY <2>4
  <2> HIDE DEF r
  <2>5. /\ \A i \in DOMAIN uiQueue' : uiQueue'[i].online = comm[uiQueue'[i].dev]
        /\ \A i \in DOMAIN uiQueue : i \in DOMAIN uiQueue' /\ uiQueue'[i] = uiQueue[i]
        /\ \/ IsOnline(rows[r.dev]) = comm[r.dev]
           \/ \E i \in DOMAIN uiQueue' : uiQueue'[i].dev = r.dev
    <3>1. CASE r.online # IsOnline(rows[r.dev])
      BY <2>1, <2>2, <3>1, QueueAppend DEF UndisturbedInv
    <3>2. CASE r.online = IsOnline(rows[r.dev])
      BY <2>1, <2>2, <3>2 DEF UndisturbedInv
    <3> QED BY <3>1, <3>2
  <2>6. ASSUME NEW e \in Devices PROVE Settling(e)'
    <3>1. CASE e = r.dev
      BY <2>1, <2>5, <3>1 DEF Settling
    <3>2. CASE e # r.dev
      <4>1. Settling(e)
        BY DEF UndisturbedInv
      <4>2. \A q \in Polls : reading[q] # <<>> /\ Head(reading[q]).dev = e
              => reading'[q] = reading[q]
        BY <2>a, <3>2
      <4> QED BY <2>1, <2>5, <4>1, <4>2 DEF Settling
    <3> QED BY <3>1, <3>2
  <2> QED BY <2>1, <2>3, <2>5, <2>6 DEF UndisturbedInv
<1>7. ASSUME NEW d \in Devices, CommChanges(d) PROVE UndisturbedInv'
  BY <1>7 DEF CommChanges, UndisturbedInv
<1> QED BY <1>1, <1>2, <1>3, <1>4, <1>5, <1>6, <1>7
        DEF Next, Lambda, Poll, onPollTimeout

(* A poll that nothing disturbs leaves every card with the status Redis     *)
(* holds, for any number of devices: comparing with the unlocked row, and   *)
(* queuing the differences only, forgets none.                              *)
THEOREM SpecUndisturbedPollIsAccurate == Spec => []UndisturbedPollIsAccurate
<1>1. Init => UndisturbedInv
  BY DEF Init, UndisturbedInv
<1>2. TypeInv /\ UndisturbedInv => UndisturbedPollIsAccurate
  <2> SUFFICES ASSUME UndisturbedInv, undisturbed, uiQueue = <<>>,
                      \A p \in Polls : ~Busy(p), NEW d \in Devices
               PROVE  IsOnline(rows[d]) = comm[d]
    BY DEF UndisturbedPollIsAccurate
  <2>1. DOMAIN uiQueue = {} /\ Settling(d)
    BY DEF UndisturbedInv
  <2> QED BY <2>1 DEF Settling, Busy
<1> QED BY InitTypeInv, NextTypeInv, NextUndisturbedInv, <1>1, <1>2, PTL DEF Spec

-----------------------------------------------------------------------------
(* Order.                                                                   *)

\* What a poll has read is no older than what the card was told, or will be
\* by the calls that are queued.
Newest(r) ==
  /\ shown[r.dev] <= r.of /\ r.of <= changes[r.dev]
  /\ \A i \in DOMAIN uiQueue : uiQueue[i].dev = r.dev => uiQueue[i].of <= r.of

\* One poll at a time, and each device's values queued in their order.
OrderInv ==
  ~overlapped =>
    /\ \A p, q \in Polls : Busy(p) /\ Busy(q) => p = q
    /\ \A d \in Devices : shown[d] <= changes[d]
    /\ \A i \in DOMAIN uiQueue :
         /\ shown[uiQueue[i].dev] <= uiQueue[i].of
         /\ uiQueue[i].of <= changes[uiQueue[i].dev]
    /\ \A i, j \in DOMAIN uiQueue :
         i <= j /\ uiQueue[i].dev = uiQueue[j].dev
           => uiQueue[i].of <= uiQueue[j].of
    /\ \A p \in Polls : reading[p] # <<>> => Newest(Head(reading[p]))

\* A poll that starts, for this invariant.
LEMMA OrderStart ==
  ASSUME TypeInv, OrderInv, StartPoll,
         UNCHANGED <<reading, uiQueue, changes, shown>>
  PROVE  OrderInv'
<1> SUFFICES ASSUME ~overlapped' PROVE OrderInv'
  BY DEF OrderInv
<1>1. CASE UNCHANGED <<todo, overlapped>>
  BY <1>1 DEF OrderInv, Newest, Busy
<1>2. CASE ~UNCHANGED <<todo, overlapped>>
  <2>1. PICK p \in Polls : todo' = [todo EXCEPT ![p] = Loaded]
    BY <1>2 DEF StartPoll
  <2>2. \A q \in Polls : ~Busy(q)
    BY <1>2 DEF StartPoll
  <2>3. ~overlapped
    BY <1>2 DEF StartPoll
  <2>4. \A q \in Polls : Busy(q)' => q = p
    BY <2>1, <2>2, Plain DEF Busy
  <2> QED BY <2>3, <2>4 DEF OrderInv, Newest
<1> QED BY <1>1, <1>2

LEMMA NextOrderInv == TypeInv /\ OrderInv /\ [Next]_vars => OrderInv'
<1> SUFFICES ASSUME TypeInv, OrderInv, [Next]_vars PROVE OrderInv'
  OBVIOUS
<1> USE Plain
<1>1. CASE Startup \/ CreateRedis \/ Ping \/ stop \/ UNCHANGED vars
  <2>1. UNCHANGED <<todo, reading, uiQueue, changes, shown, overlapped>>
    BY <1>1, StartupSteps DEF CreateRedis, Ping, stop, vars
  <2> QED BY <2>1 DEF OrderInv, Newest, Busy
<1>2. ASSUME NEW d \in Devices, AddDevice(d) PROVE OrderInv'
  BY <1>2 DEF AddDevice, OrderInv, Newest, Busy
<1>3. CASE StartWatcher \/ start \/ refreshNow
  BY <1>3, PollMayStart, OrderStart
<1>4. CASE UiUpdateOnlineStatus
  <2> SUFFICES ASSUME ~overlapped PROVE OrderInv'
    BY <1>4 DEF UiUpdateOnlineStatus, OrderInv
  <2> DEFINE u == Head(uiQueue)
  <2>1. /\ uiQueue # <<>> /\ uiQueue' = Tail(uiQueue)
        /\ shown' = [shown EXCEPT ![u.dev] = u.of]
        /\ UNCHANGED <<todo, reading, changes, overlapped>>
    BY <1>4 DEF UiUpdateOnlineStatus
  <2>2. /\ u \in Readings /\ 1 \in DOMAIN uiQueue /\ u = uiQueue[1]
        /\ \A i \in DOMAIN uiQueue' :
             i + 1 \in DOMAIN uiQueue /\ uiQueue'[i] = uiQueue[i + 1] /\ i \in Nat
        /\ \A i \in DOMAIN uiQueue : i >= 1 /\ i \in Nat
    BY <2>1, QueueTail
  <2> HIDE DEF u
  <2>3. u.dev \in Devices /\ u.of \in 0..MaxChanges
    BY <2>2, ReadingParts
  <2>4. shown'[u.dev] = u.of /\ \A d \in Devices : d # u.dev => shown'[d] = shown[d]
    BY <2>1, <2>3
  <2>5. \A d \in Devices : shown'[d] <= changes[d]
    BY <2>2, <2>4 DEF OrderInv
  <2>6. ASSUME NEW i \in DOMAIN uiQueue'
        PROVE  shown'[uiQueue'[i].dev] <= uiQueue'[i].of
    <3> DEFINE n == uiQueue[i + 1]
    <3>1. i + 1 \in DOMAIN uiQueue /\ uiQueue'[i] = n /\ 1 <= i + 1
      BY <2>2
    <3>2. n \in Readings
      BY <3>1, QueueTypes
    <3>3. n.dev \in Devices
      BY <3>2, ReadingParts
    <3>4. CASE n.dev = u.dev
      BY <2>2, <2>4, <3>1, <3>4 DEF OrderInv
    <3>5. CASE n.dev # u.dev
      BY <2>4, <3>1, <3>3, <3>5 DEF OrderInv
    <3> QED BY <3>4, <3>5
  <2>7. ASSUME NEW i \in DOMAIN uiQueue', NEW j \in DOMAIN uiQueue',
               i <= j, uiQueue'[i].dev = uiQueue'[j].dev
        PROVE  uiQueue'[i].of <= uiQueue'[j].of
    <3>1. i + 1 \in DOMAIN uiQueue /\ j + 1 \in DOMAIN uiQueue /\ i + 1 <= j + 1
      BY <2>2, <2>7
    <3> QED BY <2>2, <2>7, <3>1 DEF OrderInv
  <2>8. ASSUME NEW p \in Polls, reading[p] # <<>>
        PROVE  Newest(Head(reading[p]))'
    <3> DEFINE r == Head(reading[p])
    <3>1. Newest(r) /\ r \in Readings /\ Head(reading'[p]) = r
      BY <2>1, <2>8, HeadOfReading DEF OrderInv
    <3> HIDE DEF r
    <3>2. r.dev \in Devices
      BY <3>1, ReadingParts
    <3>3. shown'[r.dev] <= r.of
      BY <2>2, <2>4, <3>1, <3>2 DEF Newest
    <3> QED BY <2>1, <2>2, <3>1, <3>3 DEF Newest
  <2> QED BY <2>1, <2>2, <2>5, <2>6, <2>7, <2>8 DEF OrderInv, Busy
<1>5. ASSUME NEW p \in Polls, NEW d \in Devices, queryOnlineStatus(p, d)
      PROVE  OrderInv'
  <2> SUFFICES ASSUME ~overlapped PROVE OrderInv'
    BY <1>5 DEF queryOnlineStatus, OrderInv
  <2>1. /\ d \in todo[p] /\ todo' = [todo EXCEPT ![p] = @ \ {d}]
        /\ reading[p] = <<>>
        /\ UNCHANGED <<uiQueue, changes, shown, overlapped>>
    BY <1>5 DEF queryOnlineStatus
  <2>2. PICK b \in BOOLEAN : reading' = [reading EXCEPT ![p] = <<Reading(d, b)>>]
    BY <1>5 DEF queryOnlineStatus, TypeInv, TypeOK
  <2>3. PICK r \in Readings :
          r.dev = d /\ r.of = changes[d] /\ reading' = [reading EXCEPT ![p] = <<r>>]
    BY <2>2, ReadingOf
  <2>5. /\ Head(reading'[p]) = r
        /\ \A q \in Polls : q # p => reading'[q] = reading[q] /\ todo'[q] = todo[q]
    BY <2>1, <2>3, OneReading
  <2>6. Busy(p) /\ \A q \in Polls : Busy(q)' => Busy(q)
    BY <2>1, <2>5 DEF Busy
  <2>7. Newest(r)'
    <3>1. changes[d] \in Nat /\ shown[d] <= changes[d]
      BY DEF OrderInv
    <3>2. shown'[r.dev] <= r.of /\ r.of <= changes'[r.dev]
      BY <2>1, <2>3, <3>1
    <3>3. \A i \in DOMAIN uiQueue : uiQueue[i].dev = d => uiQueue[i].of <= changes[d]
      BY DEF OrderInv
    <3> QED BY <2>1, <2>3, <3>2, <3>3 DEF Newest
  <2>8. ASSUME NEW q \in Polls, reading'[q] # <<>> PROVE Newest(Head(reading[q]))'
    <3>1. CASE q = p
      BY <2>5, <2>7, <3>1 DEF Newest
    <3>2. CASE q # p
      <4>1. reading'[q] = reading[q] /\ Busy(q) /\ reading[q] # <<>>
        BY <2>5, <2>6, <2>8, <3>2 DEF Busy
      <4>2. q = p
        BY <2>6, <4>1 DEF OrderInv
      <4> QED BY <3>2, <4>2
    <3> QED BY <3>1, <3>2
  <2> QED BY <2>1, <2>6, <2>8 DEF OrderInv
<1>6. ASSUME NEW p \in Polls, compareAndQueue(p) PROVE OrderInv'
  <2> SUFFICES ASSUME ~overlapped PROVE OrderInv'
    BY <1>6 DEF compareAndQueue, OrderInv
  <2> DEFINE r == Head(reading[p])
  <2>1. /\ reading[p] # <<>> /\ r \in Readings
        /\ uiQueue' \in {uiQueue, Append(uiQueue, r)}
        /\ reading' = [reading EXCEPT ![p] = <<>>]
        /\ UNCHANGED <<todo, changes, shown, overlapped>>
    BY <1>6, HeadOfReading DEF compareAndQueue
  <2>2. Newest(r) /\ r.of \in 0..MaxChanges
    BY <2>1, ReadingParts DEF OrderInv
  <2>3. \A q \in Polls : q # p => reading[q] = <<>>
    BY <2>1 DEF OrderInv, Busy
  <2>4. \A q \in Polls : reading'[q] = <<>>
    BY <2>1, <2>3
  <2>5. \A q \in Polls : Busy(q)' => Busy(q)
    BY <2>1, <2>4 DEF Busy
  <2> HIDE DEF r
  <2>6. \A i \in DOMAIN uiQueue' :
          /\ shown[uiQueue'[i].dev] <= uiQueue'[i].of
          /\ uiQueue'[i].of <= changes[uiQueue'[i].dev]
    <3>1. CASE uiQueue' = uiQueue
      BY <3>1 DEF OrderInv
    <3>2. CASE uiQueue' = Append(uiQueue, r)
      <4>1. \A i \in DOMAIN uiQueue' :
              \/ i \in DOMAIN uiQueue /\ uiQueue'[i] = uiQueue[i]
              \/ uiQueue'[i] = r
        BY <2>1, <3>2, QueueAppend
      <4> QED BY <2>2, <4>1 DEF OrderInv, Newest
    <3> QED BY <2>1, <3>1, <3>2
  <2>7. ASSUME NEW i \in DOMAIN uiQueue', NEW j \in DOMAIN uiQueue',
               i <= j, uiQueue'[i].dev = uiQueue'[j].dev
        PROVE  uiQueue'[i].of <= uiQueue'[j].of
    <3>1. CASE uiQueue' = uiQueue
      BY <2>7, <3>1 DEF OrderInv
    <3>2. CASE uiQueue' = Append(uiQueue, r)
      <4>1. CASE j = Len(uiQueue) + 1
        <5>1. uiQueue'[j] = r
          BY <2>1, <3>2, <4>1, QueueAppend
        <5>2. \/ i \in DOMAIN uiQueue /\ uiQueue'[i] = uiQueue[i]
              \/ uiQueue'[i] = r
          BY <2>1, <3>2, QueueAppend
        <5> QED BY <2>2, <2>7, <5>1, <5>2 DEF Newest
      <4>2. CASE j \in DOMAIN uiQueue /\ j <= Len(uiQueue)
        <5>1. uiQueue'[j] = uiQueue[j] /\ Len(uiQueue) \in Nat
          BY <2>1, <3>2, <4>2, QueueAppend
        <5>2. i # Len(uiQueue) + 1
          <6>1. j \in Nat
            BY <4>2, QueueIndices
          <6> QED BY <2>7, <4>2, <5>1, <6>1
        <5>3. i \in DOMAIN uiQueue /\ uiQueue'[i] = uiQueue[i]
          BY <2>1, <3>2, <5>2, QueueAppend
        <5> QED BY <2>7, <4>2, <5>1, <5>3 DEF OrderInv
      <4> QED BY <2>1, <3>2, <4>1, <4>2, QueueAppend
    <3> QED BY <2>1, <3>1, <3>2
  <2> QED BY <2>1, <2>4, <2>5, <2>6, <2>7 DEF OrderInv
<1>7. ASSUME NEW d \in Devices, CommChanges(d) PROVE OrderInv'
  <2> SUFFICES ASSUME ~overlapped PROVE OrderInv'
    BY <1>7 DEF CommChanges, OrderInv
  <2>1. /\ changes' = [changes EXCEPT ![d] = @ + 1]
        /\ UNCHANGED <<todo, reading, uiQueue, shown, overlapped>>
    BY <1>7 DEF CommChanges
  <2>2. \A e \in Devices : changes[e] <= changes'[e] /\ changes[e] \in Nat
                           /\ changes'[e] \in Nat /\ shown[e] \in Nat
    BY <2>1
  <2>3. \A e \in Devices : shown[e] <= changes'[e]
    BY <2>2 DEF OrderInv
  <2>4. ASSUME NEW r \in Readings, r.of <= changes[r.dev]
        PROVE  r.of <= changes'[r.dev]
    BY <2>2, <2>4, ReadingParts
  <2>5. \A i \in DOMAIN uiQueue : uiQueue[i].of <= changes'[uiQueue[i].dev]
    BY <2>4, QueueTypes DEF OrderInv
  <2>6. \A p \in Polls : reading[p] # <<>> => Newest(Head(reading[p]))'
    BY <2>1, <2>4, HeadOfReading DEF OrderInv, Newest
  <2> QED BY <2>1, <2>3, <2>5, <2>6 DEF OrderInv, Busy
<1> QED BY <1>1, <1>2, <1>3, <1>4, <1>5, <1>6, <1>7
        DEF Next, Lambda, Poll, onPollTimeout

(* Without overlapping polls no card is taken back to an older value of the *)
(* status: what is queued, and what a poll has read, is never older than    *)
(* what the card was told before.                                           *)
THEOREM SpecOnlyOverlapGoesBack == Spec => OnlyOverlapGoesBack
<1>1. Init => OrderInv
  <2>1. ASSUME Init PROVE OrderInv
    <3>1. /\ \A p \in Polls : ~Busy(p) /\ reading[p] = <<>>
          /\ \A d \in Devices : shown[d] = 0 /\ changes[d] = 0
          /\ uiQueue = <<>>
      BY <2>1 DEF Init, Busy
    <3>2. DOMAIN uiQueue = {}
      BY <3>1
    <3> QED BY <3>1, <3>2 DEF OrderInv
  <2> QED BY <2>1
<1>2. TypeInv /\ OrderInv /\ [Next]_vars
        => [~overlapped' => \A d \in Devices : shown'[d] >= shown[d]]_vars
  <2> SUFFICES ASSUME TypeInv, OrderInv, Next, ~overlapped', NEW d \in Devices
               PROVE  shown'[d] >= shown[d]
    OBVIOUS
  <2>1. shown[d] \in Nat
    BY Plain
  <2>2. CASE shown' = shown
    BY <2>1, <2>2
  <2>3. CASE UiUpdateOnlineStatus
    <3>1. /\ uiQueue # <<>> /\ ~overlapped
          /\ shown' = [shown EXCEPT ![Head(uiQueue).dev] = Head(uiQueue).of]
      BY <2>3 DEF UiUpdateOnlineStatus
    <3>2. 1 \in DOMAIN uiQueue /\ Head(uiQueue) = uiQueue[1]
          /\ Head(uiQueue) \in Readings
      BY <3>1, Plain, QueueTail
    <3>3. shown[Head(uiQueue).dev] <= Head(uiQueue).of
          /\ Head(uiQueue).of \in 0..MaxChanges
      BY <3>1, <3>2, ReadingParts DEF OrderInv
    <3> QED BY <2>1, <3>1, <3>3, Plain
  <2>4. CASE Startup \/ StartWatcher \/ start \/ refreshNow
    BY <2>2, <2>4, StartupSteps, PollMayStart
  <2> QED BY <2>2, <2>3, <2>4
          DEF Next, CreateRedis, Ping, Lambda, AddDevice, stop, onPollTimeout,
              Poll, queryOnlineStatus, compareAndQueue, CommChanges
<1> QED BY InitTypeInv, NextTypeInv, NextOrderInv, <1>1, <1>2, PTL
        DEF Spec, OnlyOverlapGoesBack
=============================================================================
