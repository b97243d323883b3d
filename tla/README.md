# E-AutoCheck: a TLA+ model of the self-check client

E-AutoCheck is a Qt/QML client that shows the charging piles ("devices") of a
station, sends self-check commands to them through RabbitMQ, shows the
progress and the result, and keeps every result in MySQL. DataServer (not in
this repository) talks to the piles, answers over RabbitMQ and puts the
measurements of each CCU module into Redis.

This directory holds TLA+ modules that model the program, configurations that
let TLC check them on small instances, and theorems that TLAPS checks for every
value of the constants. Paths below are relative to the repository.

## 1. Inventory of the system

| Component | State | Operations | Talks to |
|---|---|---|---|
| **Startup**, `src/main.cpp` | a detached thread | `AsyncLoadDevices`: `InitClient`, `SubMsg`, read the devices, queue a lambda that adds them, `LoadLatestCheckInfo` | every client, DeviceRepo, DeviceModel through the UI event queue |
| **CheckManager**, `src/check_manager.cpp` | none (`sequence_index_` is written and never read) | `SubMsg`, `CheckDevice`, `recvMsg` (notices and results), `getResultFromRedis`, `saveResultToMysql` | RabbitMqClient, RedisClient, MySqlClient, DeviceModel |
| **DeviceModel / PileDevice**, `src/model/device_model.cpp`, `src/device/pile_deivce.cpp` | `device_map_`, rows under one mutex: online state, checking flag, progress text, last result | `addDevice`, `updateSelfCheck`, `updateSelfCheckProgress`, `updateOnlineStatus`, `data`, the signals after an update | called from the UI, the consumer, the startup and the watcher threads; the cards of the home page listen to its signals |
| **RabbitMqClient**, `src/client/rabbitmq_client.cpp` | `connected_`, `connecting_`, connection and channel, the libevent thread | `Connect`, `Publish`, `Subscribe`/`consume`, the delivery callback with its ack, `onError` | the broker |
| **RedisClient**, `src/client/redis_client.cpp` | `redis_`, `connected_`, the connect future | `Connect`, `ConnectAsync`, `HGetAll`, `Keys`, `Get` | Redis |
| **MySqlClient**, `src/client/mysql_client.cpp` | one connection under one mutex, the configuration | `executeQuery`, `executeUpdate`, `WithRetry`, `ensureConnection`, `reconnect` | MySQL |
| **OnlineStatusWatcher**, `src/watcher/online_status_watcher.cpp` | timer, `running_` | `start`, `stop`, `setPollIntervalMs`, `refreshNow`, `pollAllDevices` on a detached thread per timeout | RedisClient, DeviceModel through the UI event queue |
| **HistoryModel, PileModel**, `src/model/` | items, `loading_`, `lastError` | asynchronous loads by device and by record, `loadDemo` | DeviceRepo, the QML pages |
| **DeviceRepo**, `src/device/device_repo.cpp` | none | `GetAllPipeDevices`, `GetHistoryItems`, `GetPileItems`, `GetLatestPileItems` | MySqlClient |
| **CCU attributes**, `include/utils/convert.h`, `include/device/device_object.h` | none | a hash of strings to the attributes of a module and back | Redis, MySQL, PileModel |
| **Table and row helpers**, `src/db/` | none | one `CREATE TABLE`, conversions of column text | MySQL |
| **Configuration, logging, HTTP, MQTT** | read once, or not called at all | | |
| **QML pages**, `qml/` | which page is shown, of which device | click to check, open the detail page, open the history, open one record | all models |

### How the parts interact

A click on a card calls `CheckManager::CheckDevice` on the UI thread, which
connects if the client believes it is not connected, and publishes. DataServer
sends notices (`CMD_SENT`, `STARTED`, `COMPLETED`) on one queue and the result
on another. Both are consumed on the libevent thread, one message at a time.
`recvMsg` turns a notice into one update of the card; for a result it reads the
CCU hashes from **Redis** (the message does not carry them), inserts a record
into MySQL, then updates the card twice (progress, result). The callback of
the client acknowledges after the handler returned, whatever the handler did.
Meanwhile the startup thread, which subscribed **before** the devices are in
the model, reads the newest record of each device and queues it for the UI
thread; and each timeout of the watcher starts a thread that polls Redis. Every
update of a row ends with `dataChanged`, emitted after the mutex was left: from
the UI thread the cards read the row again at once, from the consumer thread
the signal is queued first.

### Which behaviours are hard

- Four kinds of thread update the rows, two of them directly under the mutex
  and two through the UI event queue, so the order of the updates is not the
  order of the events.
- A connection can end at any point of a handler; the broker then delivers
  again what was not acknowledged.
- `executeUpdate` repeats a statement whose reply was lost.
- Every failing store is an early return, after which the message is
  acknowledged all the same.
- `Connect` replaces connection and channel, but not the subscriptions.
- Redis is connected once, by an attempt that may end after its caller has gone
  on, and whose outcome nobody looks at.
- A row may change between the update, its signal and the reads it causes, and
  the page that would read may be gone, or be another one.
- Nothing orders the notices queue and the result queue against each other,
  and nothing prevents a second self-check of a device while one runs.

### What correctness means

- *Pipeline*: an answer of DataServer is never lost silently: it is recorded,
  given up on by `recvMsg`, or still at the broker. A card shows only what is
  recorded. A result is recorded more than once only because of a fault. A
  record never holds the measurements of an earlier check.
- *Cards*: "checking" ends; only the load at the start can take a card back; a
  card shows what its row says, or is about to be told.
- *Watcher*: a card follows the status in Redis, eventually, and shows none that
  Redis never gave; without Redis the devices appear all the same, if the rest of
  the startup succeeds.
- *MySQL client*: a bounded number of attempts, and a statement takes effect
  twice only when a reply was lost.
- *Asynchronous models*: what a page shows belongs to what was asked for.

The hazards, each with its line, and the properties about it are listed in
`PROJECT.json`.

## 2. Modules

| Module | Models | Code |
|---|---|---|
| `DeviceRows` | the rows of DeviceModel as a value, one operator per update under the mutex | `device_model.cpp`, `pile_deivce.cpp` |
| `SelfCheck` | a self-check from the click to the record and the card; startup, UI and consumer thread; broker, DataServer, Redis, MySQL as environment | `check_manager.cpp`, `main.cpp`, `rabbitmq_client.cpp` |
| `CheckLedger` | what the pipeline promises, without threads, queues and retries | abstract |
| `Cards` | the mutex and the signals of DeviceModel, and what the cards of the home page read when | `device_model.cpp`, `Home.qml`, `DeviceCard.qml` |
| `OnlineWatcher` | the attempt to connect Redis, the polls of the online status, which may overlap, and the updates they queue | `online_status_watcher.cpp`, `redis_client.cpp`, `main.cpp` |
| `MySqlClient` | the attempts, rounds and reconnection of a call, on a session threads share | `mysql_client.cpp` |
| `SqlCall` | what one call promises | abstract |
| `PileRecords` | what the records of one pile promise, however the hashes are read | abstract |
| `Pages` | the pages, and the two models that load for them | `history_model.cpp`, `pile_model.cpp`, `device_repo.cpp`, `qml/` |
| `RabbitConnection` | the attempts to connect and their callbacks, thread by thread | `rabbitmq_client.cpp` |
| `CcuResult` | the measurements of a pile, hash by hash, to the record, and what the pages and the start make of it | `check_manager.cpp`, `convert.h`, `redis_client.cpp`, `device_repo.cpp`, `pile_model.cpp`, `PileDetail.qml`, `main.cpp` |
| `SelfCheckProofs`, `SelfCheckLedgerProofs` | the theorems about `SelfCheck` | |
| `CardsProofs`, `OnlineWatcherProofs`, `MySqlClientProofs`, `PagesProofs`, `RabbitConnectionProofs`, `CcuResultProofs` | the theorems about these | |
| `MC*` | values of constants for TLC | |

`SelfCheck`, `OnlineWatcher` and `Cards` EXTEND `DeviceRows`: a row is updated by
the same operators whoever calls them. The first two say which thread calls
which update, when and why, and take the update as one step; `Cards` lets the
threads call the updates at any time, and says how what they did reaches the
card. `SelfCheck` and `CheckLedger`, `MySqlClient` and `SqlCall`, and both
`SelfCheck` and `CcuResult` with `PileRecords` are joined by a refinement mapping. `SelfCheck`
uses `executeUpdate` and `Connect` as single steps with several outcomes; the
modules below it justify this: `MySqlClient` shows that a call takes effect once
when it succeeds and once more per lost reply, as `saveResultToMysql` assumes,
and `RabbitConnection` shows that `Connect` returns. `SelfCheck` also reads the
hashes of a pile in one step, which `CcuResult` reads one by one while DataServer
measures again: a record may then hold modules of different checks. What remains
true for each module is `PileRecords`, and both implement it: `SelfCheck` with
many devices, redeliveries, restarts and repeated inserts, and one read that
stands for all modules; `CcuResult` with one pile, every hash, and hashes that
are removed. What `SelfCheck` says of its records therefore does not depend on
the read being one step, as far as `PileRecords` says it.

### State and actions against the code

**SelfCheck.** `startup`, `toAdd`, `toLoad` are where the thread of
`AsyncLoadDevices` and the lambda it queues are; `uiQueue` holds the calls
queued with `QMetaObject::invokeMethod`. `connected` is `connected_`, `linkUp`
whether the broker agrees: a connection is lost in two steps (`LinkDrop`, and
later `ChannelError`, the `onError` callback), and between them the client
publishes into nothing. `queue` keeps every message sent, `unacked` and `acked`
what the broker has pushed and forgotten, so a redelivery is a `Push` of a tag
that was pushed before. `pc` cuts `recvMsg` where another thread or a crash
can come between: after the read of Redis, after the insert, between the two
updates of the card, before the acknowledgement. A crash keeps the broker, Redis
and MySQL, and nothing else. Checks are numbered for the properties; no guard
of `recvMsg` looks at the number, as the code never looks at the `Index` it
sent. A self-check is *asked* (or *lost*), *sent*, *started*, *done*
and *answered*; the last four are DataServer's, and each sends its message. A
check that never ran is answered without new hashes (the fault "abort").
DataServer may also send one message that is neither a notice nor a result;
`recvMsg` falls through it.

**Cards.** A row stands for its index: nothing moves or leaves the list.
`emitting[t]` is the signal a thread has still to emit after it left the mutex;
`ConsumerEmit` queues it for the UI thread, `UiEmit` has it heard at once. What
is heard turns into `reread`, the bindings of `Home.qml` that read a changed
role, and each is evaluated by a call of `data()` under the mutex; the one of
`statusText` asks for `isOnline` in a second call when it got no text, and the row
may get one in between (`midway`, `EvaluateFallback`). The UI thread
finishes an event before it takes the next (`UiIdle`). `home` is whether the page
is on the stack: signals queued for a page that is gone reach nobody, a new page
makes new cards of the present rows. `toAdd` is what the lambda of
`AsyncLoadDevices` has still to add, in the order of the table; `addDevice` of a
number that is there already keeps the mutex while it asks for the index and
emits (`ReplaceDevice`), and `holder` stays "ui" from then on, as `std::mutex` is
not recursive. `ChangedRoles` (what an update announces) and `Reads` (what a binding
reads) are lists written down apart in the code as well, one in C++ and one in
QML.

**OnlineWatcher.** `startup` is where the startup thread is: the table, Redis
(it starts the attempt, waits at most five seconds, and goes on whatever came of
it), the subscription, the devices, and then the lambda that adds them one by one
and starts the watcher. Creating the table, subscribing and reading the devices
may fail, and each failure ends the thread (`StartupCall`): no device appears
then. The UI thread takes nothing else while it is in the lambda, but a poll may
take its snapshot of the devices there and then. `attempt` is the
task of `ConnectAsync`: it sets `redis_`, then pings, and only then sets
`connected_` (`redisUp`), before or after the wait has ended. `todo[p]` and `reading[p]` are the two places where a poll
can be: between two devices, and between the answer of Redis and the comparison
with the row, which is read without the model's mutex. A timeout starts a poll
whether or not others run. `shown` remembers of which value of the field the row
last heard. QML could call `start`, `stop` and `refreshNow`, which are
`Q_INVOKABLE`; the present pages do not, and the model lets them.

**MySqlClient.** An attempt holds `connection_mutex_` from the ping to the
reply and is one step; the mutex is free between two attempts and between the
rounds, and that is where calls interleave. `session` is `connection_`, with
`raw` for one whose schema, charset or time zone was rejected. Whatever fails
may be reported as an error that `WithRetry` takes for transient or as one it does
not.

**Pages.** A load is three steps: the UI thread sets `loading_`, the pool runs
the query, the slot of `finished` runs on the UI thread. A load requested in
between is dropped. The pages replace one another at any time, the models stay.

**RabbitConnection.** A step reads or writes each shared field at most once.
The assignment of a `std::async` future blocks until the task of the old one has
ended (`AssignFuture`); the caller's ten seconds and those of the attempt end in
either order; callbacks of replaced channels still come, also of one whose
attempt ended with an exception after it had set `channel_`. `late` remembers
that an attempt was given up by its caller, or ended before the broker had
answered it: from then on such a callback can write `connected_`.

**CcuResult.** One pile. DataServer measures module by module, answers when all
are measured, and may begin the next check before the result of the last was
handled. `KEYS` is a step of the handler, and so is each `HGETALL`; both may
fail, and a hash may be removed at any time (`gone` remembers that one was). The
attributes of a module are the set of the flags of `ToCCUAttr` that are true,
as numbers from 0 to 31, which is how `convert.h` indexes them. The flags that
count are written down four times in the code, and therefore four times here:
`IssueFlags` in `saveResultToMysql`, `PageFlags` and `RedRows` on the detail
page, `CardFlags` in `LoadLatestCheckInfo`. The numbers `n` of checks and
`measured`, which keeps the hash each check wrote, are for the properties; the
code has neither. `StatusAgreesWithPage` compares the status of a record with the
two lists of the page and with `measured`, so a field number or a value that
`ToCCUAttr` should have passed over cannot show in it.

## 3. Runs

| Run | Instance | Shows |
|---|---|---|
| `selfcheck_faults` | 1 device, 2 checks, 2 faults among lost connection, restart and lost reply; connects and stores fail at will | `ShownIsRecorded`, `NoResultLost`, `DuplicatesNeedFaults`, `RecordNotOlderThanResult`, `RecordedInOrder`, `ImplementsLedger`, `ImplementsPileRecords` |
| `selfcheck_live` | 1 device, 2 checks, failing stores, aborted checks and a foreign message, fair threads, the connection holds | `CheckingEnds`, `RequestsSettle`, `OnlyStartupLoadGoesBack` |
| `ccu` | 2 modules, 5 hashes, 2 checks | `RecordIsComplete`, `ModulesNotOlderThanResult`, `StatusAgreesWithPage`, `ImplementsPileRecords` |
| `cards` | a table of 2 devices, or of 1 listed twice; 2 updates from any thread, 1 visit to another page | `CardIsCurrentOrTold`, `CardsCatchUp` |
| `watcher` | 2 devices, 2 polls, each field changes once, 1 failed read; each call of the startup fails at will, and the attempt to connect Redis also hangs or is late | `UndisturbedPollIsAccurate`, `NoStatusWithoutRedis`, `OnlyOverlapGoesBack`, `EventuallyAccurate`, `DevicesAppear` |
| `mysql` | 2 calls, 2 retries, every kind of fault | `OneFaultIsAbsorbed`, `ImplementsSqlCall`, `EveryStepCounts`, `CallsReturn` |
| `pages` | 3 devices, one of them with an id `loadData` ignores, 2 records in all, a list of 1 | `DetailServed`, `HistoryServed`, `LoadsEnd` |
| `rabbit` | 4 attempts | `AtMostTwoAttempts`, `ConnectedMeansChannel`, `NeverStuck`, `EveryStepCounts`, `ConnectReturns` |

and four runs that find a statement of a document or a comment violated (section
5). Each module has one type invariant, checked in its run.

**Why the bounds are enough.** Two checks are the fewest of which one can
overtake or overwrite the other, in the queues, in Redis and on the card. Two
faults allow one while the program recovers from another. Devices meet in the
queues, the handler and the session, none of which looks at the device, so one
device shows what happens to each; `ShownIsRecorded`, `NoResultLost` and
`ImplementsLedger` are proved for any number. Two modules are the fewest that
can be of two checks in one record. The five hashes hold nothing abnormal, a
contactor, a stopped fan, a gun, and values and field numbers the program passes
over. Two polls are the fewest that overlap, two devices the fewest of which a
snapshot can hold a part, and one change of the field is
enough for an old value to be queued behind the new one; the failed read comes
on top. A call of MySQL has at most six attempts with two retries, more than the
faults needed to end it in every way. Three devices of which two have long ids
give a page of one device, of another and of none; two records give one device
two, of which the list leaves one out, or two devices one each. Of four attempts
to connect one can be abandoned, the next block in the assignment, and the
others start after both. Two updates of rows are the fewest of which the second
can fall between the first and its signal, or between the reads of one signal;
one visit takes a page away and makes another, with signals of before and of
the time between in the queue; two devices show that a signal reaches the right
card, one listed twice is what makes `addDevice` replace a row. The foreign message of `selfcheck_live` comes on the
queue of the results; `recvMsg` does not know from which queue a message is.

**Counters.** `MaxChecks`, `MaxFaults`, `MaxQueue`, `MaxChanges`, `MaxFailures`,
`MaxRecords`, `MaxAttempts`, `MaxCalls` and `MaxVisits` bound what is unbounded in the program, in guards
of the actions of the environment (or, for `MaxQueue`, of the start of a poll;
for `MaxAttempts`, of a call of `Connect`). `CHECK_DEADLOCK FALSE` is said where
these bounds make a run end (every check made, every call returned, every
attempt used), and in `Cards` because a table that lists a device twice stops
the UI thread for good (section 5). `MaxRecords` bounds the records of any two devices together.

**Fairness.** Weak fairness of each thread of the program as a whole: the
operating system runs it, the UI thread has its event loop, the watcher its
timer, the pool its tasks; which of several possible steps a thread takes is
left open. A load of a model is its query and then its slot, never both at
once, and is one condition. Nothing is assumed of a fault, a click or a change
of a status.
`selfcheck_live` also assumes that the broker delivers and that DataServer goes on
(`Server` as a whole; it may abort a check, but not leave it unanswered):
the code has no timeout of its own for a check, and a card of a check that is
never answered stays in checking. `CallsReturn` assumes that the driver answers
or fails; `ConnectReturns` assumes nothing of the broker, as both waits end.
Each call of the startup thread ends, and so does its wait for Redis, but the
attempt to connect itself may hang: `DevicesAppear` holds all the same, as long
as the other calls of the startup succeed, and `EventuallyAccurate` is
conditional: if the attempt succeeds at some time, the card is there, from some
time on the watcher runs, and (the changes being bounded) the field no longer
changes. `CardsCatchUp` assumes that the UI thread takes its events and
that the consumer thread emits what it has to; nobody has to open a page.

## 4. Proofs

The theorems are proved by TLAPS for every value of the constants. They rest on
the assumptions about the constants only, which are next to their declarations
and which TLC evaluates in every run: the bounds are natural numbers, the sets
of faults are subsets of the known kinds, the modules of a pile are finitely
many, a hash maps numbers to the values the program tells apart.

| Theorem | Of | By |
|---|---|---|
| `SpecTypeOK`, `SpecShownIsRecorded` | `SelfCheck` | `TypeInv`, then `ShownInv` |
| `SpecNoResultLost` | `SelfCheck` | `LossInv`, with `CardsStay` for the refusals |
| `SpecRecordNotOlder` | `SelfCheck` without aborted checks | `AgeInv` |
| `SpecDuplicatesNeedFaults` | `SelfCheck` | `OnceInv` |
| `SpecOnlyStartupLoadGoesBack`, `SpecRecordedInOrder` | `SelfCheck` | `LinkInv` and `InOrderInv` |
| `SpecImplementsLedger` | `SelfCheck` implements `CheckLedger` | `LedgerInv`, `TypeInv` and `ShownInv` |
| `SpecImplementsPileRecords` | each device of `SelfCheck`, without aborted checks, implements `PileRecords` | `PileInv` and `LedgerInv` |
| `SpecRefusedWithoutCard` | `SelfCheck` without aborted checks and without faults of Redis and MySQL | `AgeInv` and `LedgerInv` |
| `SpecTypeOK`, `SpecOneFaultIsAbsorbed`, `SpecImplementsSqlCall` | `MySqlClient`, which implements `SqlCall` | `Inv` |
| `SpecEveryStepCounts` | `MySqlClient` | `Inv` and `StepsInv` |
| `SpecStatementsInConfiguredSessions` | `MySqlClient` without rejected configurations | `NoRawSession` |
| `SpecTypeOK`, `SpecAtMostTwoAttempts`, `SpecConnectedMeansChannel`, `SpecNeverStuck` | `RabbitConnection` | `TypeInv`, `RunningInv`, and for the third `OneAfterTheOther` |
| `SpecEveryStepCounts` | `RabbitConnection` | `RunningInv` |
| `SpecTypeOK`, `SpecNoStatusWithoutRedis`, `SpecUndisturbedPollIsAccurate`, `SpecOnlyOverlapGoesBack` | `OnlineWatcher` | `TypeInv`, then `UndisturbedInv` and `OrderInv` |
| `SpecTypeOK`, `SpecCardIsCurrentOrTold` | `Cards` | `TypeInv`, then `MidwayInv` and `CardsFresh` |
| `SpecTypeOK`, `SpecDetailServed`, `SpecHistoryServed` | `Pages` | `PagesInv` |
| `SpecTypeOK`, `SpecRecordIsComplete`, `SpecModulesNotOlder`, `SpecStatusAgreesWithPage` | `CcuResult` | `Inv`, for the last with `WrittenInv` |
| `SpecImplementsPileRecords`, `SpecFailedIsAbnormal` | `CcuResult`, which implements `PileRecords` | `Inv`, for the first with `NewestInv` |

**SelfCheck.** `TypeInv` adds to `TypeOK` what the handler takes for granted:
every delivery in the inbox is of a message that was sent (`DeliveriesOK`), and
while `pc` is inside `recvMsg` there is a delivery at the head of the inbox, of
a result if the handler is saving (`HandlerOK`).
*A card shows what is recorded* is not inductive alone: a load queued for the
UI thread and a handler between insert and update will show a check later, so
`ShownInv` says of both that the check is recorded already. Records are never
removed, which keeps it. *No result is lost* needs to know where an answer can
be: `AnswerSent` (an answered check has a message in the result queue),
`AckedIsSettled` (an acknowledged result is recorded or refused) and
`HandledIsSettled` (so is the one the handler is about to acknowledge); the
connection and the process take nothing from `queue`, `acked` or the stores. The
second half, that without a fault no result is refused before its device has a
card, is `CardsStay`: whoever asked for a check has a card (`ChecksBegin`), and
only the end of the process takes a card away. For the refinement, `LedgerInv` says that a message with a result is that of an
answered check (`ResultIsAnswer`), and that a device is added to the model once
(`AddedOnce`), so that adding it cannot take a shown result away; then each
action is a step of the ledger or a stutter: the answer is `Answer`, a save or an
early return is `Settle`, `UiUpdateSelfCheck` and `ShowResult` are `Show`, the
end of the process is `Restart`.

*What is recorded is not of an earlier check* has an assumption, as the run has:
no check is answered that was not run (`"abort" \notin Faults`). `AgeInv` says
that a pile begins a check only when it is done with those before (`InOrder`), so
that Redis holds the hashes of the newest check that was run (`RedisIsNewest`);
the handler reads them after the answer was sent, and Redis only moves on.

*Duplicates need faults* is a sum: for each check, the records of its result, one
if the result may still be delivered (`ToCome`) and one if a delivery of it is
with the client and not inserted yet (`AtClient`) are together at most one more
than the faults (`CountInv`). A push moves the one from the broker to the client
and an insert from the client to the records; only a lost connection or a
restart gives it back to the broker, and only a lost reply lets an insert add
more than one record. The sum needs that DataServer answers a check once
(`OneResult`) and that, while the connection is up, the inbox is what the broker
has not had acknowledged, each delivery once (`LinkInv`).

*Only the startup load goes back* is the order of the results on their way, as
long as nothing has failed (`InOrderInv`): DataServer answers the checks of a
device in their order and on one queue (`AnsweredInOrder`, `ResultsInOrder`), what
is acknowledged comes before what is in the inbox and this before what is ready
(`InboxInOrder`), and the result of a recorded check is acknowledged or at the
head of the inbox (`RecordedWasDealtWith`). So what `ShowResult` shows is at
least as new as every record of the device, and the card shows a recorded one
(`ShownInv`). The same invariant orders the records (`RecordedInOrder`): what the
handler is about to insert is newer than every record of the device, strictly,
because a result that was not delivered twice is not recorded yet. The order is
lost with the first fault, and the theorem says nothing after it.

*Each device implements `PileRecords`* (no aborted checks, as above): the check
whose hashes Redis holds is the newest one begun, as `SelfCheck` measures in one
step; the answered checks are the answers, and the only step that records is
`saveResultToMysql`. `PileInv` adds to `AgeInv` that the hashes in Redis are of a
check that was completed (`RedisWasDone`) and that what the handler holds
between its read and its insert is not newer than what Redis holds by then
(`SnapshotWasDone`). A record that a lost reply inserts twice is one for the
mapping.

*When a result is given up* (`RefusedWithoutCard`, of the proofs only: it makes
`NoResultLost` sharper). `recvMsg` has three places to give up a result
(`RefusalSteps`). Without faults of MySQL the insert is none of them; without
faults of Redis and with every answered check measured, neither is the read, as
Redis has the hashes by then. What is left is a result that comes before the
card of its device: the subscription is made before the devices are added.
`NoResultLost` says that this takes a restart: a result that waits at the broker
when the program starts may be handled before the devices are there, and is then
given up on and acknowledged; before the first fault none is.

**MySqlClient.** `CallInv(c)` counts: a statement has taken effect no more often
than attempts were made, and each way that leads from one attempt to the next
costs a fault. Only a call's own steps change what its invariant speaks of, the
shared session is not part of it: that is why other threads cannot disturb it.
`EveryStepCounts` gives each call a number of steps left, which each step makes
smaller (`StepsInv`: it is a natural number, so this cannot go on); like
`CallInv` it does not look at the session. *Statements run in configured
sessions* is false, and a finding (section 5); it is a theorem when no
configuration is rejected (`"configure" \notin Faults`), which says that this is
the only way to a raw session: losing and replacing sessions, by any number of
calls, makes none.

**RabbitConnection.** An attempt is abandoned only by a caller that has timed
out, and the next call then blocks in the assignment of the future until the
attempt has ended. `RunningInv` says which attempts can be running: during the
assignment the one just started and the one the old future belongs to, at any
other time only the one of the future. `NeverStuck` is inductive with `TypeInv`:
`connecting_` is cleared by whoever collects the outcome, and a caller that
leaves it set leaves the future behind. For `EveryStepCounts` the caller counts
with the attempt it started and the one of the future; it needs `RunningInv` for
the attempt that is abandoned, which must be one of the two, or its steps would
not count. For `ConnectedMeansChannel`, `OneAfterTheOther` says that without such
an attempt (`late`) the attempts follow one another: one that has yet to make its
channel finds every other channel closed and `connected_` cleared, so no channel
but that of `channel_` has a callback to come.

**OnlineWatcher.** `TypeInv` adds that polls run and calls are queued only with
Redis, and that a poll counts as undisturbed only when every device is there; *no status without Redis*
follows. `UndisturbedInv` says of a poll that nothing disturbs where the
difference between a card and the field can be: the device is still to be looked
at, was read, or its update is queued. `OrderInv` says, as long as no two polls
have overlapped, that what a poll has read is no older than what is queued, and
what is queued no older than what the card was told.

**Cards.** `TypeInv` adds that only devices that are in the model are announced,
and that each of them has a card while the page is there. `CardsFresh` is the
property itself, which then is inductive: an update changes what a binding shows
only if it announces a role the binding reads (`UpdateTells`), a signal that is
heard makes the binding be evaluated (`ConcernedIsReread`), and a page that goes
takes the signals that were queued for it with its cards. `MidwayInv` is about the
binding between its two calls: a text that came after it found none has a signal
with its thread or in the queue.

**Pages.** `ModelInv` says of each model that the load the page asked for is the
one that runs, or was dropped; that what the query has read answers the request,
and is at least as new as the records of that time; `HistoryInv` that the history
page only asks for the newest list of its own device. The UI thread moves from
page to page while the query runs, and none of its steps touches the request.

**CcuResult.** `MeasuredInv` says of which check each hash can be,
`HandlerInv` that what the handler has read is newer than the results it has
dealt with and that no module but a removed one has been passed over,
`RecordsInv` that each record is as the three properties ask. That the three
lists of flags name the same flags is a lemma (`SameFlags`); that a count is
above zero exactly when a flag is set uses the theorems on finite sets.
`WrittenInv` carries the status on to what DataServer wrote: each hash, reading
and record of a module is of what one check has written for it, and that check
is done with the module and will not write it again.
`NewestInv` adds the other end of `PileRecords`: no hash and nothing read is of a
check that has not begun. `FailedIsAbnormal`, of the proofs only, is the half of
`AnyAbnormalIsFailed` (section 5) that holds: the load at the start never calls a
result failed whose record is not WARN, because what `LoadLatestCheckInfo` looks
at is a part of what the record looks at.

**What stays with TLC.** The liveness properties (`CheckingEnds`,
`RequestsSettle`, `CardsCatchUp`, `EventuallyAccurate`, `DevicesAppear`,
`CallsReturn`, `LoadsEnd`, `ConnectReturns`): liveness under fairness and
`ENABLED` are out of the prover's reach. Of `CallsReturn` and `ConnectReturns` the
half that is safety is proved: `EveryStepCounts` says that there are only so many
steps, TLC with the fairness that they are taken. Every other property of the
passing runs is proved, one theorem each. No module has a recursive operator.

## 5. Findings

| Run | The code | The text |
|---|---|---|
| `reconnect_resumes` | after a lost connection nothing consumes again | `doc/架构设计.md:91` gives reconnection to the MQ layer |
| `mysql_configured` | a session whose configuration was rejected is kept, and passes the next ping | comments in `mysql_client.cpp:238` and `:246` |
| `ccu_any_abnormal` | the load at the start looks at contactors only; a pile whose newest record is WARN for a fan or a gun is shown as passed | comment in `main.cpp:70`: any abnormal state counts as failed |
| `cards_signal_under_lock` | `addDevice` of a number that is in the model already asks for an index and emits with the mutex held; both lock it again on the same thread, and the UI thread stands still | comments in `device_model.cpp:107` and `:111`: emitting under the lock is fine, no foreign code is called, safe |

Remarks that no run is about, because no text says otherwise or because they
need no model:

- The load at the start is queued for the UI thread while live results are
  shown at once: a queued load of an earlier record replaces a live result
  (`main.cpp:93`); `OnlyStartupLoadGoesBack` says that nothing else does.
- A load of the detail page requested while another runs is dropped without an
  error, and the page shows the modules of the other device
  (`pile_model.cpp:242`); `DetailServed` speaks of the loads that are not.
- `connecting_` stays set when a caller finds the connection made before it
  waits, and the next `Connect` after a loss returns the result of the old
  attempt; `NeverStuck` says that the call after that connects.
- The devices of a table that lists a number twice are added up to the second
  mention; from then on the window does not react. `equipment_info` is not
  created by this program, and whether its column is unique is not known here.
- After `exec` the client of MySQL is destroyed while detached threads may be in
  a query, and `GetInstance` ends the process for one that comes later
  (`main.cpp:186`).
- A callback of a channel that was replaced still writes `connected_`, which
  then may not be the state of the channel the client publishes on;
  `ConnectedMeansChannel` says that this takes an attempt that was given up or
  that ended before the broker had answered it.
- A `STARTED` notice handled after the final result of its check sets the card
  to checking again, until the `COMPLETED` notice, which is behind it in the
  same queue (`CheckingEnds` holds for this reason only).
- The history page of one device may list the records of another after a failed
  load (the error is shown) or a dropped one (it is not).
- The back button of the history page pops the only page of the stack, and
  nothing happens.
- `HistoryPage.qml` colours the statuses `normal`, `warning` and `error`, the
  words of `doc/详细页设计.md:84`; records hold `OK`, `WARN` and `ERROR`, so
  every status has the default colour.
- The button of a card says "stop" while the device is being checked, and
  requests one more check.

## 6. Assumptions, and what is not modelled

- An attempt to connect that its caller abandoned does not report late in
  `SelfCheck`; `RabbitConnection` has such attempts.
- `CreatedAt` of two records of a device differs: the newest record is one.
- The publisher (UI thread) and the consumer (libevent thread) use one channel
  of a library that does not lock it. Each call into it is one step; what two
  calls at once do to its memory is not modelled.
- Redis is connected once, at the start, and the client never notices that the
  connection ended: a read fails then. `SelfCheck` lets every read fail,
  `OnlineWatcher` a bounded number, as `EventuallyAccurate` needs reads that come
  to succeed.
- In `Cards` a signal from another thread is queued when somebody listens; that
  the page may go between the two is the choice of an order of steps. The bindings
  of a signal are evaluated in any order.
- `Connect` of RabbitMqClient has one caller at a time: the startup thread has
  subscribed before it queues the devices, and without cards nobody clicks.
- The timeouts of MySQL in the configuration are never handed to the driver;
  `CallsReturn` assumes that the driver answers or fails.
- Two fields of one hash with the same number do not occur.
- A device is a pile: other types are refused by `getResultFromRedis`, which
  is one of its ways to fail. A card offers its button only when it is online;
  `SelfCheck` lets it be clicked at any time.
- A second `Subscribe` of the client replaces the handler with the same one.
- Not modelled: `HttpClient`, `MqttClient` and `self_check_result.h`, which nothing
  calls; configuration and logging (`log_init.h`), which are read or set once and
  have no behaviour over time; `src/db`, one `CREATE TABLE` and conversions of
  column text; the `Disconnect` of RabbitMqClient and of RedisClient, which run
  only in destructors at the end of the process, and `MySqlClient::Init` and
  `Shutdown`; the list operations, `Set` and `Del` of RedisClient, `ping` and
  `updateStatus`, which have no caller; the text of JSON and of logs, the settings
  page, the filters of the home page, layout and style.

## 7. Plan

Done: the inventory; the rows, the pipeline, its ledger, the cards, the watcher
with the connection of Redis, the MySQL client, the connection of RabbitMQ, the
pages and the measurements, with their runs; the theorems of section 4. The
order was that of importance: first what a result goes through, then what it
relies on (MySQL, RabbitMQ, Redis), then what shows it.

Left, for the model: the click enabled only for a card that is online, with
`OnlineWatcher` and `SelfCheck` on the same rows.

Left, for the proofs: every safety and action property of the passing runs is a
theorem. What could be added are sharper ones, as `RefusedWithoutCard` and
`FailedIsAbnormal` are: which faults, or which flags, a property really needs.
