------------------------------ MODULE SelfCheck ------------------------------
(***************************************************************************)
(* A self-check from the click on a device card to the record in MySQL and *)
(* the result on the card.  Three threads of the program take part:        *)
(*                                                                         *)
(*   startup    the detached thread of AsyncLoadDevices: connect the       *)
(*              clients, subscribe, read the devices, then read the newest *)
(*              record of each device and queue it for the UI thread;      *)
(*   UI         runs the queued updates and CheckManager::CheckDevice;     *)
(*   consumer   the libevent thread: one recvMsg at a time, acknowledged   *)
(*              after the handler returned, whatever the handler did.      *)
(*                                                                         *)
(* The broker, DataServer with its piles, Redis and MySQL are external and *)
(* are modelled by how the code uses them.                                 *)
(*                                                                         *)
(* The n-th self-check requested for a device has number n.  The number    *)
(* stands for the data of that check (its messages, its CCU hashes in      *)
(* Redis, its record); recvMsg itself never looks at it, as the code never *)
(* looks at the Index it sent.                                             *)
(***************************************************************************)
EXTENDS DeviceRows, Sequences, FiniteSets

CONSTANTS
  Devices,    (* The rows of the device table.                              *)
  MaxChecks,  (* Bounds the self-checks requested for one device.           *)
  Faults,     (* The kinds of fault the environment may show.               *)
  MaxFaults   (* Bounds the faults that can make the broker deliver, or     *)
              (* MySQL insert, the same result again.                       *)

FaultKinds == {"connect", "startup", "redis", "mysql", "reply", "link",
               "crash", "abort", "otherNotice", "otherResult"}

ASSUME SelfCheckAssumption ==
  /\ MaxChecks \in Nat
  /\ MaxFaults \in Nat
  /\ Faults \subseteq FaultKinds

VARIABLES
  (* The program; lost when the process ends.                              *)
  startup,    (* Where the startup thread is.                              *)
  toAdd,      (* Devices the queued lambda has still to add to the model.  *)
  toLoad,     (* Devices LoadLatestCheckInfo has still to read.            *)
  uiQueue,    (* updateSelfCheck calls queued for the UI thread.           *)
  rows,       (* DeviceModel.                                              *)
  connected,  (* RabbitMqClient::connected_.                               *)
  consumers,  (* The queues the current channel consumes.                  *)
  inbox,      (* Messages pushed to the client and not yet handled.        *)
  pc,         (* Where recvMsg is in the message at the head of the inbox. *)
  snapshot,   (* The check whose CCU hashes recvMsg read from Redis.       *)
  (* The environment.                                                      *)
  linkUp,     (* The broker still holds the client's connection.           *)
  queue,      (* Every message sent to each queue, in the order sent.      *)
  unacked,    (* Those the broker has pushed over the present connection   *)
              (* and seen no acknowledgement of.                           *)
  acked,      (* Those it has seen one of, and forgotten.                  *)
  phase,      (* How far DataServer is with each check.                    *)
  redis,      (* The check whose CCU hashes Redis holds, 0 for none.       *)
  records,    (* The rows of self_check_record, oldest first.              *)
  (* History.                                                              *)
  refused,    (* Checks whose result recvMsg gave up on.                   *)
  faults      (* Faults counted against MaxFaults.                         *)

startupVars  == <<startup, toAdd, toLoad, uiQueue>>
consumerVars == <<connected, consumers, inbox, pc, snapshot>>
brokerVars   == <<linkUp, queue, unacked, acked>>
serverVars   == <<phase, redis>>
storeVars    == <<records, refused>>
vars == <<startupVars, rows, consumerVars, brokerVars, serverVars, storeVars,
          faults>>

Numbers  == 1..MaxChecks
Queues   == {"notice", "resp"}
Notices  == {"CMD_SENT", "STARTED", "COMPLETED"}
Messages == [kind : Notices \cup {"RESULT"}, dev : Devices, n : Numbers]
              \cup [kind : {"OTHER"}, dev : Devices, n : {0}]
Deliveries == [queue : Queues, tag : Nat]
Loads    == [dev : Devices, n : Numbers]
Records  == [n : Numbers, source : 0..MaxChecks]
Rows     == [present  : BOOLEAN,
             online   : {"Unknown", "Online", "Offline"},
             checking : BOOLEAN,
             text     : Notices \cup {"", "final"},
             last     : 0..MaxChecks]
Phases   == {"none", "lost", "asked", "sent", "started", "done", "answered"}

Message(d, n, kind) == [kind |-> kind, dev |-> d, n |-> n]

Init ==
  /\ startup = "init" /\ toAdd = {} /\ toLoad = {} /\ uiQueue = <<>>
  /\ rows = [d \in Devices |-> NoRow]
  /\ connected = FALSE /\ consumers = {} /\ inbox = <<>>
  /\ pc = "idle" /\ snapshot = 0
  /\ linkUp = FALSE
  /\ queue = [q \in Queues |-> <<>>]
  /\ unacked = [q \in Queues |-> {}] /\ acked = [q \in Queues |-> {}]
  /\ phase = [d \in Devices |-> [n \in Numbers |-> "none"]]
  /\ redis = [d \in Devices |-> 0]
  /\ records = [d \in Devices |-> <<>>]
  /\ refused = {}
  /\ faults = 0

-----------------------------------------------------------------------------
(* The startup thread.                                                      *)

InitClient ==
  /\ startup = "init"
  /\ \/ startup' = "subscribeNotice"
     \/ "startup" \in Faults /\ startup' = "failed"
  /\ UNCHANGED <<toAdd, toLoad, uiQueue, rows, consumerVars, brokerVars,
                 serverVars, storeVars, faults>>

(* Connect() as its callers see it.  A connection that is believed to be up *)
(* is returned as it is; otherwise a new connection and channel are made,   *)
(* and nothing subscribes again on the new channel.                         *)
Connect(ok) ==
  IF connected
  THEN ok /\ UNCHANGED <<connected, linkUp, unacked>>
  ELSE \/ /\ ok
          /\ connected' = TRUE
          /\ linkUp' = TRUE
          /\ unacked' = [q \in Queues |-> {}]
       \/ /\ "connect" \in Faults
          /\ ~ok
          /\ UNCHANGED <<connected, linkUp, unacked>>

(* Subscribe is void: SubMsg cannot tell a failed subscription from a good  *)
(* one and goes on.                                                         *)
Subscribe(q) ==
  /\ \E ok \in BOOLEAN :
       /\ Connect(ok)
       /\ consumers' = IF ok THEN consumers \cup {q} ELSE consumers
  /\ UNCHANGED <<inbox, pc, snapshot, queue, acked>>

SubMsg ==
  /\ \/ startup = "subscribeNotice" /\ Subscribe("notice")
                                    /\ startup' = "subscribeResp"
     \/ startup = "subscribeResp" /\ Subscribe("resp")
                                  /\ startup' = "readDevices"
  /\ UNCHANGED <<toAdd, toLoad, uiQueue, rows, serverVars, storeVars, faults>>

\* GetAllPipeDevices, then the lambda that adds the devices is queued.
LoadDevices ==
  /\ startup = "readDevices"
  /\ \/ /\ startup' = "loadLatest"
        /\ toAdd' = Devices
        /\ toLoad' = Devices
     \/ /\ "startup" \in Faults
        /\ startup' = "failed"
        /\ UNCHANGED <<toAdd, toLoad>>
  /\ UNCHANGED <<uiQueue, rows, consumerVars, brokerVars, serverVars,
                 storeVars, faults>>

\* One round of LoadLatestCheckInfo: a device whose newest record cannot be
\* read, or that has none, is skipped.
LoadLatest(d) ==
  /\ startup = "loadLatest"
  /\ d \in toLoad
  /\ toLoad' = toLoad \ {d}
  /\ \/ /\ records[d] # <<>>
        /\ LET newest == records[d][Len(records[d])]
           IN  uiQueue' = Append(uiQueue, [dev |-> d, n |-> newest.n])
     \/ /\ records[d] = <<>> \/ "mysql" \in Faults
        /\ UNCHANGED uiQueue
  /\ UNCHANGED <<startup, toAdd, rows, consumerVars, brokerVars, serverVars,
                 storeVars, faults>>

-----------------------------------------------------------------------------
(* The UI thread.                                                           *)

\* The lambda was queued before every updateSelfCheck, and addDevice takes
\* the mutex once per device.
UiAddDevice(d) ==
  /\ d \in toAdd
  /\ toAdd' = toAdd \ {d}
  /\ rows' = addDevice(rows, d)
  /\ UNCHANGED <<startup, toLoad, uiQueue, consumerVars, brokerVars,
                 serverVars, storeVars, faults>>

UiUpdateSelfCheck ==
  /\ toAdd = {}
  /\ uiQueue # <<>>
  /\ rows' = updateSelfCheck(rows, Head(uiQueue).dev, Head(uiQueue).n)
  /\ uiQueue' = Tail(uiQueue)
  /\ UNCHANGED <<startup, toAdd, toLoad, consumerVars, brokerVars, serverVars,
                 storeVars, faults>>

\* A request that could not be connected, or that went into a connection the
\* broker has dropped, is lost; the caller is not told.
Publish(d, n) ==
  \E ok \in BOOLEAN :
    /\ Connect(ok)
    /\ phase' = [phase EXCEPT ![d][n] = IF ok /\ linkUp' THEN "asked" ELSE "lost"]

\* The click on a card.  Nothing remembers that the device is being checked.
CheckDevice(d, n) ==
  /\ toAdd = {}
  /\ rows[d].present
  /\ phase[d][n] = "none"
  /\ \A m \in 1..(n - 1) : phase[d][m] # "none"
  /\ Publish(d, n)
  /\ UNCHANGED <<startupVars, rows, consumers, inbox, pc, snapshot, queue,
                 acked, redis, storeVars, faults>>

-----------------------------------------------------------------------------
(* The consumer thread.                                                     *)

\* The message at the head of the inbox.
Msg == queue[Head(inbox).queue][Head(inbox).tag]

(* Mutants of RecvNotice: the result is saved when one of the notices in    *)
(* saving arrives, and the card says checking for those in checking.        *)
RecvNoticeAs(saving, checking) ==
  /\ pc = "idle" /\ inbox # <<>> /\ Msg.kind # "RESULT"
  /\ pc' = IF Msg.kind \in saving THEN "read" ELSE "ack"
  /\ rows' = IF Msg.kind \in Notices
             THEN updateSelfCheckProgress(rows, Msg.dev, Msg.kind,
                                          Msg.kind \in checking)
             ELSE rows
  /\ UNCHANGED <<startupVars, connected, consumers, inbox, snapshot,
                 brokerVars, serverVars, storeVars, faults>>
RecvNoticeSavesOnStarted   == RecvNoticeAs({"STARTED"}, {"STARTED"})
RecvNoticeSavesOnCompleted == RecvNoticeAs({"COMPLETED"}, {"STARTED"})
RecvNoticeSavesAny         == RecvNoticeAs({"OTHER"}, {"STARTED"})
RecvNoticeStaysChecking    == RecvNoticeAs({}, {"STARTED", "COMPLETED"})

(* The branch of recvMsg for NoticeType: one update of the card.  Messages  *)
(* of another type or shape fall through without one.                       *)
RecvNotice ==
  /\ pc = "idle" /\ inbox # <<>> /\ Msg.kind # "RESULT"
  /\ pc' = "ack"
  /\ rows' = IF Msg.kind \in Notices
             THEN updateSelfCheckProgress(rows, Msg.dev, Msg.kind,
                                          Msg.kind = "STARTED")
             ELSE rows
  /\ UNCHANGED <<startupVars, connected, consumers, inbox, snapshot,
                 brokerVars, serverVars, storeVars, faults>>

\* An early return of saveResultToMysql, and then of recvMsg.
GiveUp ==
  /\ pc' = "ack"
  /\ refused' = refused \cup {<<Msg.dev, Msg.n>>}

\* Mutant of RecvResult: a result is ignored unless the card says checking.
RecvResultIfChecking ==
  /\ pc = "idle" /\ inbox # <<>> /\ Msg.kind = "RESULT"
  /\ \/ rows[Msg.dev].checking /\ pc' = "read" /\ UNCHANGED refused
     \/ ~rows[Msg.dev].checking /\ pc' = "ack" /\ UNCHANGED refused
  /\ UNCHANGED <<startupVars, rows, connected, consumers, inbox, snapshot,
                 brokerVars, serverVars, records, faults>>

\* The branch for ReqType: saveResultToMysql needs the device in the model.
RecvResult ==
  /\ pc = "idle" /\ inbox # <<>> /\ Msg.kind = "RESULT"
  /\ \/ rows[Msg.dev].present /\ pc' = "read" /\ UNCHANGED refused
     \/ ~rows[Msg.dev].present /\ GiveUp
  /\ UNCHANGED <<startupVars, rows, connected, consumers, inbox, snapshot,
                 brokerVars, serverVars, records, faults>>

(* The attributes come from what Redis holds now, not from the message.     *)
getResultFromRedis ==
  /\ pc = "read"
  /\ \/ /\ redis[Msg.dev] # 0
        /\ snapshot' = redis[Msg.dev]
        /\ pc' = "insert"
        /\ UNCHANGED refused
     \/ /\ redis[Msg.dev] = 0 \/ "redis" \in Faults
        /\ GiveUp
        /\ UNCHANGED snapshot
  /\ UNCHANGED <<startupVars, rows, connected, consumers, inbox, brokerVars,
                 serverVars, records, faults>>

Copies(r, k) == [i \in 1..k |-> r]

\* Mutant of saveResultToMysql: recvMsg does not look at the status.
saveResultToMysqlUnchecked ==
  /\ pc = "insert"
  /\ \E ok \in BOOLEAN :
       /\ ok \/ "mysql" \in Faults
       /\ records' = [records EXCEPT ![Msg.dev] =
                        IF ok THEN Append(@, [n |-> Msg.n, source |-> snapshot])
                              ELSE @]
  /\ pc' = "progress"
  /\ snapshot' = 0
  /\ UNCHANGED <<startupVars, rows, connected, consumers, inbox, brokerVars,
                 serverVars, refused, faults>>

(* The INSERT of saveResultToMysql.  executeUpdate repeats a statement      *)
(* whose connection broke, so attempts that MySQL committed before the      *)
(* reply was lost leave a record each.                                      *)
SaveAttempt(lost, ok) ==
  /\ ok \/ "mysql" \in Faults
  /\ faults' = faults + lost
  /\ records' =
       [records EXCEPT ![Msg.dev] =
          @ \o Copies([n |-> Msg.n, source |-> snapshot],
                      IF ok THEN lost + 1 ELSE lost)]
  /\ \/ ok /\ pc' = "progress" /\ UNCHANGED refused
     \/ ~ok /\ GiveUp

saveResultToMysql ==
  /\ pc = "insert"
  /\ \E lost \in 0..(IF "reply" \in Faults THEN MaxFaults - faults ELSE 0),
        ok \in BOOLEAN : SaveAttempt(lost, ok)
  /\ snapshot' = 0
  /\ UNCHANGED <<startupVars, rows, connected, consumers, inbox, brokerVars,
                 serverVars>>

\* Mutant of ShowProgress: recvMsg returns after the first update of the card.
ShowProgressOnly ==
  /\ pc = "progress"
  /\ rows' = updateSelfCheckProgress(rows, Msg.dev, "final", FALSE)
  /\ pc' = "ack"
  /\ UNCHANGED <<startupVars, connected, consumers, inbox, snapshot,
                 brokerVars, serverVars, storeVars, faults>>

\* The two updates of the card are two sections of the mutex.
ShowProgress ==
  /\ pc = "progress"
  /\ rows' = updateSelfCheckProgress(rows, Msg.dev, "final", FALSE)
  /\ pc' = "show"
  /\ UNCHANGED <<startupVars, connected, consumers, inbox, snapshot,
                 brokerVars, serverVars, storeVars, faults>>

ShowResult ==
  /\ pc = "show"
  /\ rows' = updateSelfCheck(rows, Msg.dev, Msg.n)
  /\ pc' = "ack"
  /\ UNCHANGED <<startupVars, connected, consumers, inbox, snapshot,
                 brokerVars, serverVars, storeVars, faults>>

\* Mutant of Ack: a result that was given up on goes back to the end of its
\* queue.
AckOrRequeue ==
  /\ pc = "ack"
  /\ pc' = "idle"
  /\ inbox' = Tail(inbox)
  /\ LET at == Head(inbox) IN
       /\ unacked' = [unacked EXCEPT ![at.queue] = @ \ {at.tag}]
       /\ acked' = [acked EXCEPT ![at.queue] = @ \cup {at.tag}]
       /\ queue' = IF <<Msg.dev, Msg.n>> \in refused
                   THEN [queue EXCEPT ![at.queue] = Append(@, Msg)]
                   ELSE queue
  /\ UNCHANGED <<startupVars, rows, connected, consumers, snapshot, linkUp,
                 serverVars, storeVars, faults>>

\* onReceived acknowledges its own delivery after the handler; on a dropped
\* connection that does nothing.
Ack ==
  /\ pc = "ack"
  /\ pc' = "idle"
  /\ inbox' = Tail(inbox)
  /\ LET at == Head(inbox) IN
       IF linkUp
       THEN /\ unacked' = [unacked EXCEPT ![at.queue] = @ \ {at.tag}]
            /\ acked' = [acked EXCEPT ![at.queue] = @ \cup {at.tag}]
       ELSE UNCHANGED <<unacked, acked>>
  /\ UNCHANGED <<startupVars, rows, connected, consumers, snapshot, linkUp,
                 queue, serverVars, storeVars, faults>>

\* onError of the channel runs on the consumer thread, between two messages;
\* the deliveries it had not read yet are gone with the connection.
ChannelError ==
  /\ connected /\ ~linkUp
  /\ pc = "idle"
  /\ connected' = FALSE
  /\ consumers' = {}
  /\ inbox' = <<>>
  /\ UNCHANGED <<startupVars, rows, pc, snapshot, brokerVars, serverVars,
                 storeVars, faults>>

-----------------------------------------------------------------------------
(* The broker.  It pushes in order and without a limit (the client sets     *)
(* none), keeps every message until it is acknowledged, and has the ones    *)
(* that were not ready again when the connection ends.                      *)

Ready(q) == DOMAIN queue[q] \ (unacked[q] \cup acked[q])

Push(q) ==
  /\ linkUp
  /\ q \in consumers
  /\ \E t \in Ready(q) :
       /\ \A u \in Ready(q) : t <= u
       /\ inbox' = Append(inbox, [queue |-> q, tag |-> t])
       /\ unacked' = [unacked EXCEPT ![q] = @ \cup {t}]
  /\ UNCHANGED <<startupVars, rows, connected, consumers, pc, snapshot,
                 linkUp, queue, acked, serverVars, storeVars, faults>>

LinkDrop ==
  /\ "link" \in Faults /\ faults < MaxFaults
  /\ linkUp
  /\ linkUp' = FALSE
  /\ unacked' = [q \in Queues |-> {}]
  /\ faults' = faults + 1
  /\ UNCHANGED <<startupVars, rows, consumerVars, queue, acked, serverVars,
                 storeVars>>

(* The process ends at any point and is started again.                      *)
Crash ==
  /\ "crash" \in Faults /\ faults < MaxFaults
  /\ startup # "init"
  /\ startup' = "init" /\ toAdd' = {} /\ toLoad' = {} /\ uiQueue' = <<>>
  /\ rows' = [d \in Devices |-> NoRow]
  /\ connected' = FALSE /\ consumers' = {} /\ inbox' = <<>>
  /\ pc' = "idle" /\ snapshot' = 0
  /\ linkUp' = FALSE
  /\ unacked' = [q \in Queues |-> {}]
  /\ faults' = faults + 1
  /\ UNCHANGED <<queue, acked, serverVars, storeVars>>

-----------------------------------------------------------------------------
(* DataServer and the piles.  A pile runs one check at a time, in the order *)
(* of the requests; the hashes are in Redis before the result is sent.      *)

Send(q, m) == queue' = [queue EXCEPT ![q] = Append(@, m)]

Advance(d, n, from, to) ==
  /\ phase[d][n] = from
  /\ phase' = [phase EXCEPT ![d][n] = to]
  /\ UNCHANGED <<startupVars, rows, consumerVars, linkUp, unacked, acked,
                 storeVars, faults>>

ServerAccept(d, n) ==
  /\ \A m \in 1..(n - 1) : phase[d][m] \in {"lost", "done", "answered"}
  /\ Advance(d, n, "asked", "sent")
  /\ Send("notice", Message(d, n, "CMD_SENT"))
  /\ UNCHANGED redis

PileStart(d, n) ==
  /\ Advance(d, n, "sent", "started")
  /\ Send("notice", Message(d, n, "STARTED"))
  /\ UNCHANGED redis

PileComplete(d, n) ==
  /\ Advance(d, n, "started", "done")
  /\ Send("notice", Message(d, n, "COMPLETED"))
  /\ redis' = [redis EXCEPT ![d] = n]

\* A check that never ran is answered with an error code, and without hashes.
ServerRespond(d, n) ==
  /\ \A m \in 1..(n - 1) : phase[d][m] \in {"lost", "answered"}
  /\ \/ Advance(d, n, "done", "answered")
     \/ "abort" \in Faults /\ Advance(d, n, "sent", "answered")
  /\ Send("resp", Message(d, n, "RESULT"))
  /\ UNCHANGED redis

\* Something else on one of the two queues; one such message bounds the model.
OtherOn == [notice |-> "otherNotice", resp |-> "otherResult"]

ServerNoise(q, d) ==
  /\ OtherOn[q] \in Faults
  /\ \A p \in Queues : \A i \in DOMAIN queue[p] : queue[p][i].kind # "OTHER"
  /\ Send(q, Message(d, 0, "OTHER"))
  /\ UNCHANGED <<startupVars, rows, consumerVars, linkUp, unacked, acked,
                 serverVars, storeVars, faults>>

-----------------------------------------------------------------------------
Startup  == InitClient \/ SubMsg \/ LoadDevices \/ \E d \in Devices : LoadLatest(d)
Ui       == UiUpdateSelfCheck \/ \E d \in Devices : UiAddDevice(d)
Handler  == RecvNotice \/ RecvResult \/ getResultFromRedis
              \/ saveResultToMysql \/ ShowProgress \/ ShowResult \/ Ack
Server   == \E d \in Devices, n \in Numbers :
              \/ ServerAccept(d, n) \/ PileStart(d, n)
              \/ PileComplete(d, n) \/ ServerRespond(d, n)

Next ==
  \/ Startup
  \/ Ui
  \/ \E d \in Devices, n \in Numbers : CheckDevice(d, n)
  \/ Handler
  \/ ChannelError
  \/ \E q \in Queues : Push(q)
  \/ Server
  \/ \E q \in Queues, d \in Devices : ServerNoise(q, d)
  \/ LinkDrop
  \/ Crash

Spec == Init /\ [][Next]_vars

(* Each thread of the program keeps running; the broker delivers, and       *)
(* DataServer answers.  Nobody has to click, and no fault has to happen.    *)
Fairness ==
  /\ WF_vars(Startup)
  /\ WF_vars(Ui)
  /\ WF_vars(Handler)
  /\ WF_vars(ChannelError)
  /\ \A q \in Queues : WF_vars(Push(q))
  /\ WF_vars(Server)

FairSpec == Spec /\ Fairness

-----------------------------------------------------------------------------
(* Properties.                                                              *)

(* Type invariant of the whole state.                                       *)
TypeOK ==
  /\ startup \in {"init", "subscribeNotice", "subscribeResp", "readDevices",
                  "loadLatest", "failed"}
  /\ toAdd \subseteq Devices /\ toLoad \subseteq Devices
  /\ uiQueue \in Seq(Loads)
  /\ rows \in [Devices -> Rows]
  /\ connected \in BOOLEAN /\ consumers \subseteq Queues
  /\ inbox \in Seq(Deliveries)
  /\ pc \in {"idle", "read", "insert", "progress", "show", "ack"}
  /\ snapshot \in 0..MaxChecks
  /\ linkUp \in BOOLEAN
  /\ queue \in [Queues -> Seq(Messages)]
  /\ unacked \in [Queues -> SUBSET Nat] /\ acked \in [Queues -> SUBSET Nat]
  /\ phase \in [Devices -> [Numbers -> Phases]]
  /\ redis \in [Devices -> 0..MaxChecks]
  /\ records \in [Devices -> Seq(Records)]
  /\ refused \subseteq Devices \X Numbers
  /\ faults \in 0..MaxFaults

Recorded(d, n) == \E i \in DOMAIN records[d] : records[d][i].n = n

(* A card never shows the result of a check that has no record in MySQL:    *)
(* recvMsg saves before it touches the model and gives up when the save     *)
(* fails, and LoadLatestCheckInfo shows only what it read from MySQL.       *)
ShownIsRecorded ==
  \A d \in Devices : rows[d].last # 0 => Recorded(d, rows[d].last)

(* No answer disappears: until a result is recorded or recvMsg has given up *)
(* on it, the broker still has its message, whatever connection or process  *)
(* ended in between (acknowledging after the handler is what ensures it).   *)
(* And recvMsg does not give up on a result for want of a card, although    *)
(* the queues are subscribed to before the devices are there, unless a      *)
(* fault has come before: who asked for a check had the card.               *)
NoResultLost ==
  /\ \A d \in Devices, n \in Numbers :
       phase[d][n] = "answered" =>
         \/ Recorded(d, n)
         \/ <<d, n>> \in refused
         \/ \E i \in DOMAIN queue["resp"] \ acked["resp"] :
              queue["resp"][i] = Message(d, n, "RESULT")
  /\ faults = 0 => \A c \in refused : rows[c[1]].present

(* A check has one record, and one more for each connection loss, restart   *)
(* or lost MySQL reply: nothing else makes the program save a result again. *)
DuplicatesNeedFaults ==
  \A d \in Devices, n \in Numbers :
    Cardinality({i \in DOMAIN records[d] : records[d][i].n = n}) <= 1 + faults

(* The hashes saved with a result are those of its own check or of a later  *)
(* one, never those of an earlier check of the device, although they are    *)
(* read from Redis and do not come with the message.  It needs DataServer   *)
(* to write the hashes of every check it answers ("abort" is no fault of    *)
(* the run).                                                                *)
RecordNotOlderThanResult ==
  \A d \in Devices : \A i \in DOMAIN records[d] :
    records[d][i].source >= records[d][i].n

(* Unless something fails, the newest record of a device is that of its     *)
(* newest recorded check, which is what LoadLatestCheckInfo takes it for:   *)
(* what is refused in between is not recorded later.                        *)
RecordedInOrder ==
  faults = 0 =>
    \A d \in Devices : \A i, j \in DOMAIN records[d] :
      i < j => records[d][i].n < records[d][j].n

(* The card of a device goes back to an earlier check only by the queued    *)
(* load of the startup thread; live results come in the order DataServer    *)
(* sent them.  (A redelivery may repeat an older result, so the steps after *)
(* a counted fault are not spoken of.)                                      *)
OnlyStartupLoadGoesBack ==
  [][\A d \in Devices :
       (faults' = 0 /\ rows'[d].last < rows[d].last) => UiUpdateSelfCheck]_vars

(* A card that says the device is being checked stops saying so, even when  *)
(* every result is refused, as long as the connection holds.                *)
CheckingEnds ==
  \A d \in Devices : rows[d].checking ~> ~rows[d].checking

(* A request that reached DataServer is settled: it is recorded and its     *)
(* card shows the result, or it is given up on, as long as the connection   *)
(* holds.                                                                   *)
RequestsSettle ==
  \A d \in Devices, n \in Numbers :
    phase[d][n] = "asked" ~>
      ((Recorded(d, n) /\ rows[d].last = n) \/ <<d, n>> \in refused)

(* The abstract view of this state, and the ledger it implements.           *)
Ledger == INSTANCE CheckLedger WITH
  answered <- {c \in Devices \X Numbers : phase[c[1]][c[2]] = "answered"},
  saved    <- {c \in Devices \X Numbers : Recorded(c[1], c[2])},
  shown    <- [d \in Devices |-> rows[d].last]

(* The pipeline implements the ledger: nothing is recorded or refused       *)
(* before DataServer answered, records and refusals are for ever, and a     *)
(* card changes its result only to a recorded one or by a restart.          *)
ImplementsLedger == Ledger!Spec

\* The hashes of a pile as one module of it, which is never removed.
Measured(r) == [n |-> r.n, of |-> [m \in {"hashes"} |-> r.source]]

PileLog(d) == INSTANCE PileRecords WITH
  Modules  <- {"hashes"},
  begun    <- redis[d],
  answered <- {n \in Numbers : phase[d][n] = "answered"},
  removed  <- {},
  records  <- {Measured(records[d][i]) : i \in DOMAIN records[d]}

(* What is recorded of each device is as CcuResult promises it: through     *)
(* redeliveries, restarts and statements sent again, a record is of an      *)
(* answered check, and its hashes are of that check or a later one.         *)
ImplementsPileRecords ==
  /\ \A d \in Devices : PileLog(d)!Init
  /\ [][\A d \in Devices : [PileLog(d)!Next]_(PileLog(d)!vars)]_vars

(* The architecture document (doc, 3.1) has the MQ layer handle the         *)
(* reconnection: messages waiting at the broker are consumed again once the *)
(* client is connected again.                                               *)
ReconnectResumes ==
  \A q \in Queues :
    LET waiting == DOMAIN queue[q] \ acked[q] # {}
    IN  (connected /\ linkUp /\ waiting) ~> (~waiting \/ ~linkUp)
=============================================================================
