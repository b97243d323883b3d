--------------------------- MODULE SelfCheckProofs ---------------------------
(***************************************************************************)
(* Theorems about SelfCheck, for every set of devices, every bound and     *)
(* every set of faults.                                                    *)
(***************************************************************************)
EXTENDS SelfCheck, SequenceTheorems, TLAPS

-----------------------------------------------------------------------------
(* Type correctness.                                                        *)

(* The types alone are not inductive.  A delivery names a message that was  *)
(* sent, recvMsg is past its first step only with a delivery at the head of *)
(* the inbox, and it is saving only when that message is a result.          *)
DeliveriesOK ==
  \A i \in DOMAIN inbox : inbox[i].tag \in DOMAIN queue[inbox[i].queue]

HandlerOK ==
  /\ pc # "idle" => inbox # <<>>
  /\ pc \in {"read", "insert", "progress", "show"} => Msg.kind = "RESULT"

TypeInv == TypeOK /\ DeliveriesOK /\ HandlerOK

LEMMA InitTypeInv == Init => TypeInv
  <1> SUFFICES ASSUME Init PROVE TypeInv
    OBVIOUS
  <1> USE SelfCheckAssumption DEF Init, SelfCheckAssumption
  <1>1. rows \in [Devices -> Rows]
    <2>1. 0 \in 0..MaxChecks
      OBVIOUS
    <2>2. NoRow \in Rows
      BY <2>1, Zenon DEF Rows, NoRow
    <2> QED BY <2>2
  <1>2. queue \in [Queues -> Seq(Messages)] /\ inbox \in Seq(Deliveries)
        /\ uiQueue \in Seq(Loads) /\ records \in [Devices -> Seq(Records)]
    OBVIOUS
  <1>3. /\ toAdd \subseteq Devices /\ toLoad \subseteq Devices
        /\ consumers \subseteq Queues /\ refused \subseteq Devices \X Numbers
        /\ snapshot \in 0..MaxChecks /\ faults \in 0..MaxFaults
    OBVIOUS
  <1>4. phase \in [Devices -> [Numbers -> Phases]] /\ redis \in [Devices -> 0..MaxChecks]
    BY DEF Phases
  <1>5. unacked \in [Queues -> SUBSET Nat] /\ acked \in [Queues -> SUBSET Nat]
    OBVIOUS
  <1>6. TypeOK
    BY <1>1, <1>2, <1>3, <1>4, <1>5 DEF TypeOK
  <1>7. DeliveriesOK /\ HandlerOK
    BY DEF DeliveriesOK, HandlerOK
  <1> QED BY <1>6, <1>7 DEF TypeInv

(* What the updates of a card return: rows, with the same devices known and *)
(* the same results shown, except where the update says otherwise.          *)
LEMMA RowsType ==
  ASSUME NEW r \in [Devices -> Rows], NEW d \in Devices
  PROVE  /\ addDevice(r, d) \in [Devices -> Rows]
         /\ \A e \in Devices :
              addDevice(r, d)[e].last = IF e = d THEN 0 ELSE r[e].last
         /\ \A n \in 0..MaxChecks :
              /\ updateSelfCheck(r, d, n) \in [Devices -> Rows]
              /\ \A e \in Devices : updateSelfCheck(r, d, n)[e].last =
                   IF e = d /\ r[d].present THEN n ELSE r[e].last
         /\ \A t \in Notices \cup {"", "final"}, b \in BOOLEAN :
              /\ updateSelfCheckProgress(r, d, t, b) \in [Devices -> Rows]
              /\ \A e \in Devices :
                   updateSelfCheckProgress(r, d, t, b)[e].last = r[e].last
  <1>1. /\ addDevice(r, d) \in [Devices -> Rows]
        /\ \A e \in Devices :
             addDevice(r, d)[e].last = IF e = d THEN 0 ELSE r[e].last
    <2>1. 0 \in 0..MaxChecks
      BY SelfCheckAssumption DEF SelfCheckAssumption
    <2>2. NoRow \in Rows
      BY <2>1, Zenon DEF Rows, NoRow
    <2>3. FreshRow \in Rows
      BY <2>2, Zenon DEF Rows, FreshRow
    <2>4. FreshRow.last = 0
      BY DEF FreshRow, NoRow
    <2> QED BY <2>3, <2>4 DEF addDevice
  <1>2. ASSUME NEW row \in Rows
        PROVE  /\ OnKnown(r, d, row) \in [Devices -> Rows]
               /\ \A e \in Devices : OnKnown(r, d, row)[e].last =
                    IF e = d /\ r[d].present THEN row.last ELSE r[e].last
    BY DEF OnKnown
  <1>3. ASSUME NEW n \in 0..MaxChecks
        PROVE  [r[d] EXCEPT !.last = n] \in Rows /\ [r[d] EXCEPT !.last = n].last = n
    BY DEF Rows
  <1>4. ASSUME NEW t \in Notices \cup {"", "final"}, NEW b \in BOOLEAN
        PROVE  /\ [r[d] EXCEPT !.text = t, !.checking = b] \in Rows
               /\ [r[d] EXCEPT !.text = t, !.checking = b].last = r[d].last
    BY DEF Rows
  <1>5. \A n \in 0..MaxChecks :
          /\ updateSelfCheck(r, d, n) \in [Devices -> Rows]
          /\ \A e \in Devices : updateSelfCheck(r, d, n)[e].last =
               IF e = d /\ r[d].present THEN n ELSE r[e].last
    BY <1>2, <1>3 DEF updateSelfCheck
  <1>6. \A t \in Notices \cup {"", "final"}, b \in BOOLEAN :
          /\ updateSelfCheckProgress(r, d, t, b) \in [Devices -> Rows]
          /\ \A e \in Devices :
               updateSelfCheckProgress(r, d, t, b)[e].last = r[e].last
    <2> TAKE t \in Notices \cup {"", "final"}, b \in BOOLEAN
    <2> DEFINE row == [r[d] EXCEPT !.text = t, !.checking = b]
    <2>1. row \in Rows /\ row.last = r[d].last
      BY <1>4
    <2> HIDE DEF row
    <2>2. OnKnown(r, d, row) \in [Devices -> Rows]
          /\ \A e \in Devices : OnKnown(r, d, row)[e].last = r[e].last
      BY <1>2, <2>1
    <2> QED BY <2>2 DEF updateSelfCheckProgress, row
  <1> QED BY <1>1, <1>5, <1>6

(* The message recvMsg works on is one that was sent.                       *)
LEMMA MsgType ==
  ASSUME TypeInv, inbox # <<>>
  PROVE  /\ Head(inbox) \in Deliveries
         /\ Head(inbox).queue \in Queues
         /\ Head(inbox).tag \in DOMAIN queue[Head(inbox).queue]
         /\ Msg \in Messages
         /\ Msg.dev \in Devices
         /\ Msg.n \in 0..MaxChecks
         /\ Msg.kind # "OTHER" => Msg.n \in Numbers
  <1>1. Head(inbox) \in Deliveries /\ Head(inbox) = inbox[1] /\ 1 \in DOMAIN inbox
    BY DEF TypeInv, TypeOK
  <1>2. Head(inbox).tag \in DOMAIN queue[Head(inbox).queue]
    BY <1>1 DEF TypeInv, DeliveriesOK
  <1>3. queue[Head(inbox).queue] \in Seq(Messages)
    BY <1>1 DEF TypeInv, TypeOK, Deliveries
  <1>4. Msg \in Messages
    BY <1>2, <1>3 DEF Msg
  <1>5. /\ Msg.dev \in Devices
        /\ Msg.n \in Numbers \cup {0}
        /\ Msg.kind # "OTHER" => Msg.n \in Numbers
    BY <1>4 DEF Messages, Notices
  <1>6. Numbers \cup {0} \subseteq 0..MaxChecks
    BY SelfCheckAssumption DEF SelfCheckAssumption, Numbers
  <1>7. Head(inbox).queue \in Queues
    BY <1>1 DEF Deliveries
  <1> QED BY <1>1, <1>2, <1>4, <1>5, <1>6, <1>7

(* Messages are only ever added, so deliveries keep naming what they named. *)
LEMMA SendKeeps ==
  ASSUME NEW q \in Queues, NEW m \in Messages, TypeInv, Send(q, m)
  PROVE  /\ queue' \in [Queues -> Seq(Messages)]
         /\ \A p \in Queues : \A i \in DOMAIN queue[p] :
              i \in DOMAIN queue'[p] /\ queue'[p][i] = queue[p][i]
  BY DEF TypeInv, TypeOK, Send

LEMMA HandlerTypeInv == TypeInv /\ Handler => TypeInv'
  <1> SUFFICES ASSUME TypeInv, Handler PROVE TypeInv'
    OBVIOUS
  <1> USE DEF startupVars, brokerVars, serverVars, storeVars
  <1>0. inbox # <<>>
    BY DEF TypeInv, HandlerOK, Handler, RecvNotice, RecvResult,
       getResultFromRedis, saveResultToMysql, ShowProgress, ShowResult, Ack
  <1>1. CASE RecvNotice
    <2>1. rows' \in [Devices -> Rows]
      BY <1>0, <1>1, MsgType, RowsType DEF RecvNotice, TypeInv, TypeOK
    <2> QED BY <1>1, <2>1 DEF RecvNotice, TypeInv, TypeOK, DeliveriesOK, HandlerOK
  <1>2. CASE RecvResult
    <2>1. Msg' = Msg
      BY <1>2 DEF RecvResult, Msg
    <2>2. <<Msg.dev, Msg.n>> \in Devices \X Numbers
      BY <1>0, <1>2, MsgType DEF RecvResult
    <2>3. refused' \subseteq Devices \X Numbers
      BY <1>2, <2>2 DEF RecvResult, GiveUp, TypeInv, TypeOK
    <2> QED BY <1>2, <2>1, <2>3 DEF RecvResult, GiveUp, TypeInv, TypeOK, DeliveriesOK, HandlerOK
  <1>3. CASE getResultFromRedis
    <2>1. Msg' = Msg
      BY <1>3 DEF getResultFromRedis, Msg
    <2>2. <<Msg.dev, Msg.n>> \in Devices \X Numbers
      BY <1>0, <1>3, MsgType DEF getResultFromRedis, TypeInv, HandlerOK
    <2>3. refused' \subseteq Devices \X Numbers
      BY <1>3, <2>2 DEF getResultFromRedis, GiveUp, TypeInv, TypeOK
    <2>4. snapshot' \in 0..MaxChecks
      BY <1>3, <2>2 DEF getResultFromRedis, TypeInv, TypeOK
    <2> QED BY <1>3, <2>1, <2>3, <2>4
            DEF getResultFromRedis, GiveUp, TypeInv, TypeOK, DeliveriesOK, HandlerOK
  <1>4. CASE saveResultToMysql
    <2>1. PICK lost \in 0..(IF "reply" \in Faults THEN MaxFaults - faults ELSE 0),
               ok \in BOOLEAN : SaveAttempt(lost, ok)
      BY <1>4 DEF saveResultToMysql
    <2>2. Msg' = Msg
      BY <1>4 DEF saveResultToMysql, Msg
    <2>3. Msg.dev \in Devices /\ Msg.n \in Numbers
      BY <1>0, <1>4, MsgType DEF saveResultToMysql, TypeInv, HandlerOK
    <2>4. records' \in [Devices -> Seq(Records)]
      <3>1. [n |-> Msg.n, source |-> snapshot] \in Records
        BY <2>3 DEF Records, TypeInv, TypeOK
      <3>2. \A k \in Nat : Copies([n |-> Msg.n, source |-> snapshot], k) \in Seq(Records)
        BY <3>1 DEF Copies
      <3>3. lost \in Nat /\ lost + 1 \in Nat
        OBVIOUS
      <3> QED BY <2>1, <2>3, <3>2, <3>3, ConcatProperties DEF SaveAttempt, TypeInv, TypeOK
    <2>5. refused' \subseteq Devices \X Numbers
      BY <2>1, <2>3 DEF SaveAttempt, GiveUp, TypeInv, TypeOK
    <2>6. snapshot' \in 0..MaxChecks /\ faults' \in 0..MaxFaults
      BY <1>4, <2>1, SelfCheckAssumption
      DEF SelfCheckAssumption, saveResultToMysql, SaveAttempt, TypeInv, TypeOK
    <2> QED BY <1>4, <2>1, <2>2, <2>4, <2>5, <2>6
            DEF saveResultToMysql, SaveAttempt, GiveUp, TypeInv, TypeOK, DeliveriesOK, HandlerOK
  <1>5. CASE ShowProgress
    <2>1. Msg' = Msg /\ rows' \in [Devices -> Rows]
      BY <1>0, <1>5, MsgType, RowsType DEF ShowProgress, Msg, TypeInv, TypeOK
    <2> QED BY <1>5, <2>1 DEF ShowProgress, TypeInv, TypeOK, DeliveriesOK, HandlerOK
  <1>6. CASE ShowResult
    <2>1. rows' \in [Devices -> Rows]
      BY <1>0, <1>6, MsgType, RowsType DEF ShowResult, TypeInv, TypeOK
    <2> QED BY <1>6, <2>1 DEF ShowResult, TypeInv, TypeOK, DeliveriesOK, HandlerOK
  <1>7. CASE Ack
    <2>1. inbox \in Seq(Deliveries) /\ inbox' = Tail(inbox)
      BY <1>7 DEF Ack, TypeInv, TypeOK
    <2>2. inbox' \in Seq(Deliveries)
          /\ \A i \in DOMAIN inbox' : i + 1 \in DOMAIN inbox /\ inbox'[i] = inbox[i + 1]
      BY <1>0, <2>1, HeadTailProperties
    <2>3. Head(inbox).queue \in Queues /\ Head(inbox).tag \in Nat
      BY <1>0, MsgType DEF Deliveries
    <2>4. /\ unacked' \in [Queues -> SUBSET Nat]
          /\ acked' \in [Queues -> SUBSET Nat]
      <3> DEFINE q == Head(inbox).queue
                 t == Head(inbox).tag
      <3>1. unacked[q] \ {t} \in SUBSET Nat /\ acked[q] \cup {t} \in SUBSET Nat
        BY <2>3 DEF TypeInv, TypeOK
      <3>2. CASE linkUp
        <4>1. /\ unacked' = [unacked EXCEPT ![q] = unacked[q] \ {t}]
              /\ acked' = [acked EXCEPT ![q] = acked[q] \cup {t}]
          BY <1>7, <3>2 DEF Ack
        <4> QED BY <2>3, <3>1, <4>1 DEF TypeInv, TypeOK
      <3>3. CASE ~linkUp
        BY <1>7, <3>3 DEF Ack, TypeInv, TypeOK
      <3> QED BY <3>2, <3>3
    <2>5. queue' = queue
      BY <1>7 DEF Ack
    <2>6. DeliveriesOK'
      BY <2>2, <2>5 DEF TypeInv, DeliveriesOK
    <2> QED BY <1>7, <2>2, <2>4, <2>6 DEF Ack, TypeInv, TypeOK, HandlerOK
  <1> QED BY <1>1, <1>2, <1>3, <1>4, <1>5, <1>6, <1>7 DEF Handler

LEMMA StartupTypeInv == TypeInv /\ Startup => TypeInv'
  <1> SUFFICES ASSUME TypeInv, Startup PROVE TypeInv'
    OBVIOUS
  <1> USE DEF startupVars, consumerVars, brokerVars, serverVars, storeVars
  <1>1. CASE InitClient
    BY <1>1 DEF InitClient, TypeInv, TypeOK, DeliveriesOK, HandlerOK, Msg
  <1>2. CASE SubMsg
    <2>1. PICK q \in Queues : Subscribe(q)
      BY <1>2 DEF SubMsg, Queues
    <2>2. PICK ok \in BOOLEAN :
            Connect(ok) /\ consumers' = IF ok THEN consumers \cup {q} ELSE consumers
      BY <2>1 DEF Subscribe
    <2>3. connected' \in BOOLEAN /\ linkUp' \in BOOLEAN
          /\ unacked' \in [Queues -> SUBSET Nat]
      BY <2>2 DEF Connect, TypeInv, TypeOK
    <2>4. consumers' \subseteq Queues
      BY <2>2 DEF TypeInv, TypeOK
    <2> QED BY <1>2, <2>1, <2>3, <2>4
            DEF SubMsg, Subscribe, TypeInv, TypeOK, DeliveriesOK, HandlerOK, Msg
  <1>3. CASE LoadDevices
    BY <1>3 DEF LoadDevices, TypeInv, TypeOK, DeliveriesOK, HandlerOK, Msg
  <1>4. ASSUME NEW d \in Devices, LoadLatest(d) PROVE TypeInv'
    <2>1. uiQueue' \in Seq(Loads)
      <3>1. CASE records[d] # <<>> /\ uiQueue' =
                   Append(uiQueue, [dev |-> d, n |-> records[d][Len(records[d])].n])
        <4>1. records[d] \in Seq(Records) /\ Len(records[d]) \in DOMAIN records[d]
          BY <3>1 DEF TypeInv, TypeOK
        <4>2. [dev |-> d, n |-> records[d][Len(records[d])].n] \in Loads
          <5>1. records[d][Len(records[d])] \in Records
            BY <4>1
          <5>2. records[d][Len(records[d])].n \in Numbers
            BY <5>1 DEF Records
          <5> QED BY <5>2 DEF Loads
        <4> QED BY <3>1, <4>2, AppendProperties DEF TypeInv, TypeOK
      <3>2. CASE UNCHANGED uiQueue
        BY <3>2 DEF TypeInv, TypeOK
      <3> QED BY <1>4, <3>1, <3>2 DEF LoadLatest
    <2> QED BY <1>4, <2>1 DEF LoadLatest, TypeInv, TypeOK, DeliveriesOK, HandlerOK, Msg
  <1> QED BY <1>1, <1>2, <1>3, <1>4 DEF Startup

LEMMA UiTypeInv == TypeInv /\ Ui => TypeInv'
  <1> SUFFICES ASSUME TypeInv, Ui PROVE TypeInv'
    OBVIOUS
  <1> USE DEF startupVars, consumerVars, brokerVars, serverVars, storeVars
  <1>1. CASE UiUpdateSelfCheck
    <2>1. Head(uiQueue) \in Loads /\ uiQueue' \in Seq(Loads)
      BY <1>1, HeadTailProperties DEF UiUpdateSelfCheck, TypeInv, TypeOK
    <2>2. Head(uiQueue).dev \in Devices /\ Head(uiQueue).n \in 0..MaxChecks
      BY <2>1, SelfCheckAssumption DEF SelfCheckAssumption, Loads, Numbers
    <2>3. rows' \in [Devices -> Rows]
      BY <1>1, <2>2, RowsType DEF UiUpdateSelfCheck, TypeInv, TypeOK
    <2> QED BY <1>1, <2>1, <2>3
            DEF UiUpdateSelfCheck, TypeInv, TypeOK, DeliveriesOK, HandlerOK, Msg
  <1>2. ASSUME NEW d \in Devices, UiAddDevice(d) PROVE TypeInv'
    <2>1. rows' \in [Devices -> Rows]
      BY <1>2, RowsType DEF UiAddDevice, TypeInv, TypeOK
    <2> QED BY <1>2, <2>1 DEF UiAddDevice, TypeInv, TypeOK, DeliveriesOK, HandlerOK, Msg
  <1> QED BY <1>1, <1>2 DEF Ui

LEMMA CheckDeviceTypeInv ==
  ASSUME TypeInv, NEW d \in Devices, NEW n \in Numbers, CheckDevice(d, n)
  PROVE  TypeInv'
  <1> USE DEF startupVars, consumerVars, brokerVars, serverVars, storeVars
  <1>1. PICK ok \in BOOLEAN :
          /\ Connect(ok)
          /\ phase' = [phase EXCEPT ![d][n] = IF ok /\ linkUp' THEN "asked" ELSE "lost"]
    BY DEF CheckDevice, Publish
  <1>2. connected' \in BOOLEAN /\ linkUp' \in BOOLEAN
        /\ unacked' \in [Queues -> SUBSET Nat]
    BY <1>1 DEF Connect, TypeInv, TypeOK
  <1>3. phase' \in [Devices -> [Numbers -> Phases]]
    BY <1>1 DEF Phases, TypeInv, TypeOK
  <1> QED BY <1>2, <1>3 DEF CheckDevice, Publish, TypeInv, TypeOK, DeliveriesOK, HandlerOK, Msg

LEMMA ServerTypeInv ==
  ASSUME TypeInv, NEW d \in Devices, NEW n \in 0..MaxChecks,
         NEW q \in Queues, NEW kind, Message(d, n, kind) \in Messages,
         Send(q, Message(d, n, kind)),
         phase' \in [Devices -> [Numbers -> Phases]],
         redis' \in [Devices -> 0..MaxChecks],
         UNCHANGED <<startupVars, rows, consumerVars, linkUp, unacked, acked,
                     storeVars, faults>>
  PROVE  TypeInv'
  <1> USE DEF startupVars, consumerVars, brokerVars, serverVars, storeVars
  <1>1. /\ queue' \in [Queues -> Seq(Messages)]
        /\ \A p \in Queues : \A i \in DOMAIN queue[p] :
             i \in DOMAIN queue'[p] /\ queue'[p][i] = queue[p][i]
    BY SendKeeps
  <1>2. \A i \in DOMAIN inbox : inbox[i].queue \in Queues
    <2>1. \A i \in DOMAIN inbox : inbox[i] \in Deliveries
      BY DEF TypeInv, TypeOK
    <2> QED BY <2>1 DEF Deliveries
  <1>3. DeliveriesOK'
    BY <1>1, <1>2 DEF TypeInv, DeliveriesOK
  <1>4. inbox # <<>> => Msg' = Msg
    <2> SUFFICES ASSUME inbox # <<>> PROVE Msg' = Msg
      OBVIOUS
    <2>1. Head(inbox).queue \in Queues
          /\ Head(inbox).tag \in DOMAIN queue[Head(inbox).queue]
      BY MsgType
    <2> QED BY <1>1, <2>1 DEF Msg
  <1>5. HandlerOK'
    BY <1>4 DEF TypeInv, TypeOK, HandlerOK
  <1> QED BY <1>1, <1>3, <1>5 DEF TypeInv, TypeOK

LEMMA NextTypeInv == TypeInv /\ [Next]_vars => TypeInv'
  <1> SUFFICES ASSUME TypeInv, [Next]_vars PROVE TypeInv'
    OBVIOUS
  <1> USE DEF startupVars, consumerVars, brokerVars, serverVars, storeVars
  <1>1. CASE Startup \/ Ui \/ Handler
    BY <1>1, StartupTypeInv, UiTypeInv, HandlerTypeInv
  <1>2. ASSUME NEW d \in Devices, NEW n \in Numbers, CheckDevice(d, n) PROVE TypeInv'
    BY <1>2, CheckDeviceTypeInv
  <1>3. CASE ChannelError
    <2>1. inbox' \in Seq(Deliveries) /\ inbox' = <<>> /\ pc' = "idle"
      BY <1>3 DEF ChannelError
    <2>2. DeliveriesOK' /\ HandlerOK'
      BY <2>1 DEF DeliveriesOK, HandlerOK
    <2>3. TypeOK'
      BY <1>3, <2>1 DEF ChannelError, TypeInv, TypeOK
    <2> QED BY <2>2, <2>3 DEF TypeInv
  <1>4. ASSUME NEW q \in Queues, Push(q) PROVE TypeInv'
    <2>1. PICK t \in Ready(q) :
            /\ inbox' = Append(inbox, [queue |-> q, tag |-> t])
            /\ unacked' = [unacked EXCEPT ![q] = @ \cup {t}]
      BY <1>4 DEF Push
    <2>2. t \in DOMAIN queue[q] /\ t \in Nat
      BY DEF Ready, TypeInv, TypeOK
    <2>3. [queue |-> q, tag |-> t] \in Deliveries
      BY <2>2 DEF Deliveries
    <2>4. inbox' \in Seq(Deliveries)
          /\ \A i \in DOMAIN inbox' :
               \/ i \in DOMAIN inbox /\ inbox'[i] = inbox[i]
               \/ inbox'[i] = [queue |-> q, tag |-> t]
      BY <2>1, <2>3, AppendProperties DEF TypeInv, TypeOK
    <2>5. inbox # <<>> => inbox' # <<>> /\ Head(inbox') = Head(inbox)
      BY <2>1, <2>3, AppendProperties DEF TypeInv, TypeOK
    <2>6. unacked' \in [Queues -> SUBSET Nat]
      BY <2>1, <2>2 DEF TypeInv, TypeOK
    <2>7. queue' = queue /\ pc' = pc
      BY <1>4 DEF Push
    <2>8. DeliveriesOK'
      BY <2>2, <2>4, <2>7 DEF TypeInv, DeliveriesOK
    <2>9. HandlerOK'
      <3>1. inbox # <<>> => Msg' = Msg
        BY <2>5, <2>7 DEF Msg
      <3> QED BY <2>5, <2>7, <3>1 DEF TypeInv, TypeOK, HandlerOK
    <2> QED BY <1>4, <2>4, <2>6, <2>8, <2>9 DEF Push, TypeInv, TypeOK
  <1>5. ASSUME NEW d \in Devices, NEW n \in Numbers,
               ServerAccept(d, n) \/ PileStart(d, n) \/ PileComplete(d, n)
                 \/ ServerRespond(d, n)
        PROVE  TypeInv'
    <2>1. PICK q \in Queues, kind \in Notices \cup {"RESULT"} :
            Send(q, Message(d, n, kind))
      BY <1>5 DEF ServerAccept, PileStart, PileComplete, ServerRespond, Queues, Notices
    <2>2. Message(d, n, kind) \in Messages /\ n \in 0..MaxChecks
      BY DEF Message, Messages, Numbers
    <2>3. phase' \in [Devices -> [Numbers -> Phases]]
      <3>1. PICK to \in Phases : phase' = [phase EXCEPT ![d][n] = to]
        BY <1>5 DEF ServerAccept, PileStart, PileComplete, ServerRespond, Advance, Phases
      <3> QED BY <3>1 DEF TypeInv, TypeOK
    <2>4. redis' \in [Devices -> 0..MaxChecks]
      BY <1>5, <2>2 DEF ServerAccept, PileStart, PileComplete, ServerRespond, TypeInv, TypeOK
    <2>5. UNCHANGED <<startupVars, rows, consumerVars, linkUp, unacked, acked,
                      storeVars, faults>>
      BY <1>5 DEF ServerAccept, PileStart, PileComplete, ServerRespond, Advance
    <2> QED BY <2>1, <2>2, <2>3, <2>4, <2>5, ServerTypeInv
  <1>6. ASSUME NEW q \in Queues, NEW d \in Devices, ServerNoise(q, d) PROVE TypeInv'
    <2>1. Message(d, 0, "OTHER") \in Messages
      BY DEF Message, Messages
    <2>2. /\ Send(q, Message(d, 0, "OTHER"))
          /\ phase' = phase /\ redis' = redis
          /\ UNCHANGED <<startupVars, rows, consumerVars, linkUp, unacked, acked,
                         storeVars, faults>>
      BY <1>6 DEF ServerNoise
    <2>3. 0 \in 0..MaxChecks
      BY SelfCheckAssumption DEF SelfCheckAssumption
    <2>4. phase' \in [Devices -> [Numbers -> Phases]] /\ redis' \in [Devices -> 0..MaxChecks]
      BY <2>2 DEF TypeInv, TypeOK
    <2> QED BY <2>1, <2>2, <2>3, <2>4, ServerTypeInv
  <1>7. CASE LinkDrop
    <2>1. unacked' \in [Queues -> SUBSET Nat] /\ faults' \in 0..MaxFaults
      BY <1>7, SelfCheckAssumption DEF SelfCheckAssumption, LinkDrop, TypeInv, TypeOK
    <2> QED BY <1>7, <2>1 DEF LinkDrop, TypeInv, TypeOK, DeliveriesOK, HandlerOK, Msg
  <1>8. CASE Crash
    <2>1. unacked' \in [Queues -> SUBSET Nat] /\ faults' \in 0..MaxFaults
      BY <1>8, SelfCheckAssumption DEF SelfCheckAssumption, Crash, TypeInv, TypeOK
    <2>2. 0 \in 0..MaxChecks
      BY SelfCheckAssumption DEF SelfCheckAssumption
    <2>3. NoRow \in Rows
      BY <2>2, Zenon DEF Rows, NoRow
    <2>4. rows' \in [Devices -> Rows]
      BY <1>8, <2>3 DEF Crash
    <2>5. snapshot' \in 0..MaxChecks /\ uiQueue' \in Seq(Loads) /\ inbox' \in Seq(Deliveries)
      BY <1>8, <2>2 DEF Crash
    <2>6. DeliveriesOK' /\ HandlerOK'
      BY <1>8 DEF Crash, DeliveriesOK, HandlerOK
    <2>7. TypeOK'
      BY <1>8, <2>1, <2>4, <2>5 DEF Crash, TypeInv, TypeOK
    <2> QED BY <2>6, <2>7 DEF TypeInv
  <1>9. CASE UNCHANGED vars
    BY <1>9 DEF vars, TypeInv, TypeOK, DeliveriesOK, HandlerOK, Msg
  <1> QED BY <1>1, <1>2, <1>3, <1>4, <1>5, <1>6, <1>7, <1>8, <1>9 DEF Next, Server

LEMMA SpecTypeInv == Spec => []TypeInv
  BY InitTypeInv, NextTypeInv, PTL DEF Spec

(* Every variable of the pipeline keeps its type, for any number of devices *)
(* and checks and under all faults.                                         *)
THEOREM SpecTypeOK == Spec => []TypeOK
  <1>1. TypeInv => TypeOK
    BY DEF TypeInv
  <1> QED BY <1>1, SpecTypeInv, PTL

-----------------------------------------------------------------------------
(* What is shown is recorded.                                               *)

(* Appending to a sequence keeps what was in it.                            *)
LEMMA ConcatKeeps ==
  ASSUME NEW S, NEW s \in Seq(S), NEW t \in Seq(S)
  PROVE  /\ \A i \in DOMAIN s : i \in DOMAIN (s \o t) /\ (s \o t)[i] = s[i]
         /\ \A i \in DOMAIN (s \o t) :
              \/ i \in DOMAIN s /\ (s \o t)[i] = s[i]
              \/ \E j \in DOMAIN t : (s \o t)[i] = t[j]
         /\ \A j \in DOMAIN t :
              Len(s) + j \in DOMAIN (s \o t) /\ (s \o t)[Len(s) + j] = t[j]
  <1>1. /\ s \o t \in Seq(S)
        /\ Len(s \o t) = Len(s) + Len(t)
        /\ \A i \in 1..Len(s) + Len(t) :
             (s \o t)[i] = IF i <= Len(s) THEN s[i] ELSE t[i - Len(s)]
    BY ConcatProperties
  <1>2. DOMAIN (s \o t) = 1..Len(s) + Len(t) /\ DOMAIN s = 1..Len(s) /\ DOMAIN t = 1..Len(t)
        /\ Len(s) \in Nat /\ Len(t) \in Nat
    BY <1>1
  <1>3. ASSUME NEW j \in DOMAIN t
        PROVE  Len(s) + j \in DOMAIN (s \o t) /\ (s \o t)[Len(s) + j] = t[j]
    BY <1>1, <1>2
  <1>4. ASSUME NEW i \in DOMAIN (s \o t)
        PROVE  \/ i \in DOMAIN s /\ (s \o t)[i] = s[i]
               \/ \E j \in DOMAIN t : (s \o t)[i] = t[j]
    <2>1. CASE i <= Len(s)
      BY <1>1, <1>2, <2>1
    <2>2. CASE ~(i <= Len(s))
      <3>1. i - Len(s) \in DOMAIN t /\ (s \o t)[i] = t[i - Len(s)]
        BY <1>1, <1>2, <2>2
      <3> QED BY <3>1
    <2> QED BY <2>1, <2>2
  <1>5. \A i \in DOMAIN s : i \in DOMAIN (s \o t) /\ (s \o t)[i] = s[i]
    BY <1>1, <1>2
  <1> QED BY <1>3, <1>4, <1>5

(* The insert records the check of the message and no other, loses no       *)
(* record, and recvMsg goes on only when the check is recorded.             *)
LEMMA SaveRecords ==
  ASSUME TypeInv, saveResultToMysql
  PROVE  /\ \A d \in Devices, n \in Numbers : Recorded(d, n) => Recorded(d, n)'
         /\ \A d \in Devices, n \in Numbers :
              Recorded(d, n)' => Recorded(d, n) \/ (d = Msg.dev /\ n = Msg.n)
         /\ pc' = "progress" => Recorded(Msg.dev, Msg.n)'
         /\ pc' = "ack" => refused' = refused \cup {<<Msg.dev, Msg.n>>}
         /\ pc' \in {"progress", "ack"}
  <1>1. Msg' = Msg /\ Msg.dev \in Devices /\ Msg.n \in Numbers
    BY MsgType DEF TypeInv, HandlerOK, saveResultToMysql, brokerVars, Msg
  <1> DEFINE dev == Msg.dev
             r == [n |-> Msg.n, source |-> snapshot]
  <1>2. PICK lost \in Nat, ok \in BOOLEAN : SaveAttempt(lost, ok)
    BY DEF saveResultToMysql
  <1> DEFINE k == IF ok THEN lost + 1 ELSE lost
             new == Copies(r, k)
             old == records[dev]
  <1>3. r \in Records /\ r.n = Msg.n
    BY <1>1 DEF Records, TypeInv, TypeOK
  <1>4. k \in Nat /\ (ok => 1 \in 1..k)
    OBVIOUS
  <1>5. records' = [records EXCEPT ![dev] = old \o new]
    BY <1>2 DEF SaveAttempt
  <1> HIDE DEF k, r
  <1>6. new \in Seq(Records) /\ DOMAIN new = 1..k /\ \A j \in 1..k : new[j] = r
    BY <1>3, <1>4 DEF Copies
  <1>7. old \in Seq(Records)
    BY <1>1 DEF TypeInv, TypeOK
  <1>8. records'[dev] = old \o new /\ \A d \in Devices \ {dev} : records'[d] = records[d]
    BY <1>1, <1>5 DEF TypeInv, TypeOK
  <1> HIDE DEF new, old, dev
  <1>9. \A i \in DOMAIN old : i \in DOMAIN (old \o new) /\ (old \o new)[i] = old[i]
    BY <1>6, <1>7, ConcatKeeps
  <1>10. ASSUME NEW i \in DOMAIN (old \o new)
         PROVE  \/ i \in DOMAIN old /\ (old \o new)[i] = old[i]
                \/ (old \o new)[i] = r
    <2>1. \/ i \in DOMAIN old /\ (old \o new)[i] = old[i]
          \/ \E j \in DOMAIN new : (old \o new)[i] = new[j]
      BY <1>6, <1>7, ConcatKeeps
    <2> QED BY <1>6, <2>1
  <1>11. ok => \E i \in DOMAIN (old \o new) : (old \o new)[i] = r
    <2>1. \A j \in DOMAIN new :
            Len(old) + j \in DOMAIN (old \o new) /\ (old \o new)[Len(old) + j] = new[j]
      BY <1>6, <1>7, ConcatKeeps
    <2> QED BY <1>4, <1>6, <2>1
  <1>12. ASSUME NEW d \in Devices, NEW n \in Numbers
         PROVE  /\ Recorded(d, n) => Recorded(d, n)'
                /\ Recorded(d, n)' => Recorded(d, n) \/ (d = dev /\ n = Msg.n)
    <2>1. CASE d # dev
      BY <1>8, <2>1 DEF Recorded
    <2>2. CASE d = dev
      <3>1. records[d] = old /\ records'[d] = old \o new
        BY <1>8, <2>2 DEF old
      <3>2. Recorded(d, n) => Recorded(d, n)'
        BY <1>9, <3>1 DEF Recorded
      <3>3. Recorded(d, n)' => Recorded(d, n) \/ n = Msg.n
        BY <1>3, <1>10, <3>1 DEF Recorded
      <3> QED BY <2>2, <3>2, <3>3
    <2> QED BY <2>1, <2>2
  <1>13. ok => Recorded(Msg.dev, Msg.n)'
    <2>1. ok => \E i \in DOMAIN records'[dev] : records'[dev][i].n = Msg.n
      BY <1>3, <1>8, <1>11
    <2> QED BY <1>1, <2>1 DEF Recorded, dev
  <1>14. /\ pc' = "progress" => ok
         /\ pc' = "ack" => refused' = refused \cup {<<Msg.dev, Msg.n>>}
         /\ pc' \in {"progress", "ack"}
    BY <1>2 DEF SaveAttempt, GiveUp
  <1> QED BY <1>12, <1>13, <1>14 DEF dev

LEMMA RecordsUnchanged ==
  ASSUME NEW d, NEW n, records' = records
  PROVE  Recorded(d, n)' <=> Recorded(d, n)
  BY DEF Recorded

(* What the three updates of the cards do to the results shown.             *)
LEMMA LastAfterAdd ==
  ASSUME TypeInv, NEW d \in Devices, rows' = addDevice(rows, d)
  PROVE  \A e \in Devices : rows'[e].last = 0 \/ rows'[e].last = rows[e].last
  <1>1. rows \in [Devices -> Rows]
    BY DEF TypeInv, TypeOK
  <1>2. \A e \in Devices :
          addDevice(rows, d)[e].last = IF e = d THEN 0 ELSE rows[e].last
    BY <1>1, RowsType
  <1> QED BY <1>2

LEMMA LastAfterResult ==
  ASSUME TypeInv, NEW d \in Devices, NEW n \in 0..MaxChecks,
         rows' = updateSelfCheck(rows, d, n)
  PROVE  \A e \in Devices :
           rows'[e].last = rows[e].last \/ (e = d /\ rows'[e].last = n)
  <1>1. rows \in [Devices -> Rows]
    BY DEF TypeInv, TypeOK
  <1>2. \A e \in Devices : updateSelfCheck(rows, d, n)[e].last =
          IF e = d /\ rows[d].present THEN n ELSE rows[e].last
    BY <1>1, RowsType
  <1> QED BY <1>2

LEMMA LastAfterProgress ==
  ASSUME TypeInv, NEW d \in Devices, NEW t \in Notices \cup {"", "final"},
         NEW b \in BOOLEAN, rows' = updateSelfCheckProgress(rows, d, t, b)
  PROVE  \A e \in Devices : rows'[e].last = rows[e].last
  <1>1. rows \in [Devices -> Rows]
    BY DEF TypeInv, TypeOK
  <1>2. rows[d] \in Rows
    BY <1>1
  <1>3. [rows[d] EXCEPT !.text = t, !.checking = b].last = rows[d].last
    BY <1>2 DEF Rows
  <1> QED BY <1>1, <1>3 DEF updateSelfCheckProgress, OnKnown

(* The card shows what two other places hand it: the queue of the UI thread *)
(* and the message recvMsg has saved.  Both must be recorded already.       *)
ShownInv ==
  /\ ShownIsRecorded
  /\ \A i \in DOMAIN uiQueue : Recorded(uiQueue[i].dev, uiQueue[i].n)
  /\ pc \in {"progress", "show"} => Recorded(Msg.dev, Msg.n)

(* The steps of everybody but the consumer thread and the restart.          *)
Others ==
  \/ Startup
  \/ Ui
  \/ \E d \in Devices, n \in Numbers : CheckDevice(d, n)
  \/ \E q \in Queues : Push(q)
  \/ Server
  \/ \E q \in Queues, d \in Devices : ServerNoise(q, d)
  \/ LinkDrop
  \/ UNCHANGED vars

LEMMA NextSplit == [Next]_vars => Handler \/ ChannelError \/ Crash \/ Others
  BY DEF Next, Others

(* No step takes a message back or changes it.                              *)
LEMMA QueueGrows ==
  ASSUME TypeInv, [Next]_vars
  PROVE  \A p \in Queues : \A i \in DOMAIN queue[p] :
           i \in DOMAIN queue'[p] /\ queue'[p][i] = queue[p][i]
  <1> USE DEF startupVars, consumerVars, brokerVars, serverVars, storeVars
  <1>1. \/ queue' = queue
        \/ \E q \in Queues, d \in Devices, n \in Numbers, kind \in Notices \cup {"RESULT"} :
             Send(q, Message(d, n, kind))
        \/ \E q \in Queues, d \in Devices : Send(q, Message(d, 0, "OTHER"))
    <2>1. CASE Handler
      BY <2>1 DEF Handler, RecvNotice, RecvResult, getResultFromRedis, saveResultToMysql,
                  ShowProgress, ShowResult, Ack
    <2>2. CASE Startup \/ Ui
      BY <2>2 DEF Startup, Ui, InitClient, SubMsg, Subscribe, LoadDevices, LoadLatest,
                  UiAddDevice, UiUpdateSelfCheck
    <2>3. ASSUME NEW d \in Devices, NEW n \in Numbers,
                 ServerAccept(d, n) \/ PileStart(d, n) \/ PileComplete(d, n)
                   \/ ServerRespond(d, n)
          PROVE  \E q \in Queues, kind \in Notices \cup {"RESULT"} :
                   Send(q, Message(d, n, kind))
      BY <2>3 DEF ServerAccept, PileStart, PileComplete, ServerRespond, Queues, Notices
    <2>4. CASE \/ ChannelError \/ Crash \/ LinkDrop \/ UNCHANGED vars
               \/ \E d \in Devices, n \in Numbers : CheckDevice(d, n)
               \/ \E q \in Queues : Push(q)
      BY <2>4 DEF ChannelError, Crash, LinkDrop, CheckDevice, Publish, Push, vars
    <2>5. CASE \E q \in Queues, d \in Devices : ServerNoise(q, d)
      BY <2>5 DEF ServerNoise
    <2> QED BY <2>1, <2>2, <2>3, <2>4, <2>5 DEF Next, Server
  <1>2. \/ queue' = queue
        \/ \E q \in Queues, m \in Messages : Send(q, m)
    BY <1>1 DEF Message, Messages
  <1> QED BY <1>2, SendKeeps

(* Nobody else touches the message recvMsg works on, nor what it decides.   *)
LEMMA OthersFrame ==
  ASSUME TypeInv, Others
  PROVE  /\ UNCHANGED <<pc, records, refused, acked>>
         /\ inbox # <<>> => inbox' # <<>> /\ Head(inbox') = Head(inbox) /\ Msg' = Msg
  <1> USE DEF startupVars, consumerVars, brokerVars, serverVars, storeVars
  <1>1. ASSUME NEW q \in Queues, Push(q)
        PROVE  /\ UNCHANGED <<pc, records, refused, acked>>
               /\ inbox # <<>> => inbox' # <<>> /\ Head(inbox') = Head(inbox)
    <2>1. PICK t \in Ready(q) : inbox' = Append(inbox, [queue |-> q, tag |-> t])
      BY <1>1 DEF Push
    <2>2. [queue |-> q, tag |-> t] \in Deliveries
      BY DEF Ready, TypeInv, TypeOK, Deliveries
    <2>3. inbox # <<>> => inbox' # <<>> /\ Head(inbox') = Head(inbox)
      BY <2>1, <2>2, AppendProperties DEF TypeInv, TypeOK
    <2> QED BY <1>1, <2>3 DEF Push
  <1>2. ASSUME Startup \/ Ui PROVE UNCHANGED <<pc, inbox, records, refused, acked>>
    BY <1>2 DEF Startup, Ui, InitClient, SubMsg, Subscribe, LoadDevices, LoadLatest,
                UiAddDevice, UiUpdateSelfCheck
  <1>3. ASSUME \/ Server \/ LinkDrop \/ UNCHANGED vars
               \/ \E d \in Devices, n \in Numbers : CheckDevice(d, n)
               \/ \E q \in Queues, d \in Devices : ServerNoise(q, d)
        PROVE  UNCHANGED <<pc, inbox, records, refused, acked>>
    BY <1>3 DEF Server, ServerAccept, PileStart, PileComplete, ServerRespond, Advance,
                LinkDrop, vars, CheckDevice, Publish, ServerNoise
  <1>4. /\ UNCHANGED <<pc, records, refused, acked>>
        /\ inbox # <<>> => inbox' # <<>> /\ Head(inbox') = Head(inbox)
    BY <1>1, <1>2, <1>3 DEF Others
  <1>5. inbox # <<>> => Msg' = Msg
    <2>1. [Next]_vars
      BY DEF Others, Next
    <2> QED BY <1>4, <2>1, QueueGrows, MsgType DEF Msg
  <1> QED BY <1>4, <1>5

LEMMA NextShownInv == TypeInv /\ ShownInv /\ [Next]_vars => ShownInv'
  <1> SUFFICES ASSUME TypeInv, ShownInv, [Next]_vars PROVE ShownInv'
    OBVIOUS
  <1> USE DEF startupVars, consumerVars, brokerVars, serverVars, storeVars
  <1>1. CASE Others
    <2>1. pc \in {"progress", "show"} => inbox # <<>>
      BY DEF TypeInv, HandlerOK
    <2>2. \A d, n : Recorded(d, n)' <=> Recorded(d, n)
      BY <1>1, OthersFrame, RecordsUnchanged
    <2>3. (pc \in {"progress", "show"} => Recorded(Msg.dev, Msg.n))'
      <3>1. SUFFICES ASSUME pc' \in {"progress", "show"}
                     PROVE  \E i \in DOMAIN records'[Msg'.dev] : records'[Msg'.dev][i].n = Msg'.n
        BY DEF Recorded
      <3>2. pc' = pc /\ Msg' = Msg /\ records' = records
        BY <1>1, <2>1, <3>1, OthersFrame
      <3> QED BY <3>1, <3>2 DEF ShownInv, Recorded
    <2>4. CASE UNCHANGED <<rows, uiQueue>>
      BY <2>2, <2>3, <2>4 DEF ShownInv, ShownIsRecorded
    <2>5. ASSUME NEW d \in Devices, LoadLatest(d) PROVE ShownInv'
      <3>1. CASE UNCHANGED uiQueue
        BY <2>2, <2>3, <2>5, <3>1 DEF LoadLatest, ShownInv, ShownIsRecorded
      <3>2. CASE /\ records[d] # <<>>
                 /\ uiQueue' = Append(uiQueue, [dev |-> d, n |-> records[d][Len(records[d])].n])
        <4> DEFINE newest == records[d][Len(records[d])].n
        <4>1. records[d] \in Seq(Records) /\ Len(records[d]) \in DOMAIN records[d]
          BY <3>2 DEF TypeInv, TypeOK
        <4>2. Recorded(d, newest) /\ newest \in Numbers
          <5>1. records[d][Len(records[d])] \in Records
            BY <4>1
          <5> QED BY <4>1, <5>1 DEF Recorded, Records
        <4> HIDE DEF newest
        <4>3. [dev |-> d, n |-> newest] \in Loads
          BY <4>2 DEF Loads
        <4>4. \A i \in DOMAIN uiQueue' :
                \/ i \in DOMAIN uiQueue /\ uiQueue'[i] = uiQueue[i]
                \/ uiQueue'[i] = [dev |-> d, n |-> newest]
          BY <3>2, <4>3, AppendProperties DEF newest, TypeInv, TypeOK
        <4>5. (\A i \in DOMAIN uiQueue : Recorded(uiQueue[i].dev, uiQueue[i].n))'
          BY <2>2, <4>2, <4>4 DEF ShownInv
        <4>6. rows' = rows
          BY <2>5 DEF LoadLatest
        <4> QED BY <2>2, <2>3, <4>5, <4>6 DEF ShownInv, ShownIsRecorded
      <3> QED BY <2>5, <3>1, <3>2 DEF LoadLatest
    <2>6. ASSUME NEW d \in Devices, UiAddDevice(d) PROVE ShownInv'
      <3>1. rows' = addDevice(rows, d) /\ uiQueue' = uiQueue
        BY <2>6 DEF UiAddDevice
      <3>2. \A e \in Devices : rows'[e].last = 0 \/ rows'[e].last = rows[e].last
        BY <3>1, LastAfterAdd
      <3> QED BY <2>2, <2>3, <3>1, <3>2 DEF ShownInv, ShownIsRecorded
    <2>7. CASE UiUpdateSelfCheck
      <3> DEFINE load == Head(uiQueue)
      <3>1. /\ load = uiQueue[1] /\ 1 \in DOMAIN uiQueue /\ load \in Loads
            /\ \A i \in DOMAIN uiQueue' : i + 1 \in DOMAIN uiQueue /\ uiQueue'[i] = uiQueue[i + 1]
        BY <2>7, HeadTailProperties DEF UiUpdateSelfCheck, TypeInv, TypeOK
      <3>2. Recorded(load.dev, load.n) /\ load.dev \in Devices /\ load.n \in 0..MaxChecks
        BY <3>1, SelfCheckAssumption DEF SelfCheckAssumption, ShownInv, Loads, Numbers
      <3>3. rows' = updateSelfCheck(rows, load.dev, load.n)
        BY <2>7 DEF UiUpdateSelfCheck
      <3> HIDE DEF load
      <3>4. \A e \in Devices : rows'[e].last = rows[e].last \/ (e = load.dev /\ rows'[e].last = load.n)
        BY <3>2, <3>3, LastAfterResult
      <3>5. ShownIsRecorded'
        BY <2>2, <3>2, <3>4 DEF ShownInv, ShownIsRecorded
      <3>6. (\A i \in DOMAIN uiQueue : Recorded(uiQueue[i].dev, uiQueue[i].n))'
        BY <2>2, <3>1 DEF ShownInv
      <3> QED BY <2>3, <3>5, <3>6 DEF ShownInv
    <2>8. \/ UNCHANGED <<rows, uiQueue>>
          \/ \E d \in Devices : LoadLatest(d) \/ UiAddDevice(d)
          \/ UiUpdateSelfCheck
      BY <1>1 DEF Others, Startup, Ui, InitClient, SubMsg, LoadDevices, CheckDevice, Publish, Push,
                  Server, ServerAccept, PileStart, PileComplete, ServerRespond, Advance,
                  ServerNoise, LinkDrop, vars
    <2> QED BY <2>4, <2>5, <2>6, <2>7, <2>8
  <1>2. CASE RecvNotice
    <2>1. \A e \in Devices : rows'[e].last = rows[e].last
      <3>1. CASE Msg.kind \in Notices
        <4>1. Msg.dev \in Devices
          BY <1>2, MsgType DEF RecvNotice
        <4>2. Msg.kind \in Notices \cup {"", "final"} /\ (Msg.kind = "STARTED") \in BOOLEAN
          BY <3>1
        <4>3. rows' = updateSelfCheckProgress(rows, Msg.dev, Msg.kind, Msg.kind = "STARTED")
          BY <1>2, <3>1 DEF RecvNotice
        <4> QED BY <4>1, <4>2, <4>3, LastAfterProgress
      <3>2. CASE Msg.kind \notin Notices
        BY <1>2, <3>2 DEF RecvNotice
      <3> QED BY <3>1, <3>2
    <2>2. UNCHANGED <<uiQueue, records>> /\ pc' = "ack"
      BY <1>2 DEF RecvNotice
    <2>3. \A d, n : Recorded(d, n)' <=> Recorded(d, n)
      BY <2>2, RecordsUnchanged
    <2> QED BY <2>1, <2>2, <2>3 DEF ShownInv, ShownIsRecorded
  <1>3. CASE RecvResult \/ getResultFromRedis \/ Ack \/ ChannelError
    <2>1. UNCHANGED <<rows, uiQueue, records>> /\ pc' \notin {"progress", "show"}
      BY <1>3 DEF RecvResult, getResultFromRedis, GiveUp, Ack, ChannelError
    <2>2. \A d, n : Recorded(d, n)' <=> Recorded(d, n)
      BY <2>1, RecordsUnchanged
    <2> QED BY <2>1, <2>2 DEF ShownInv, ShownIsRecorded
  <1>4. CASE saveResultToMysql
    <2>1. /\ UNCHANGED <<rows, uiQueue, inbox, queue>>
      BY <1>4 DEF saveResultToMysql
    <2>2. \A d \in Devices, n \in Numbers : Recorded(d, n) => Recorded(d, n)'
      BY <1>4, SaveRecords
    <2>3. /\ \A i \in DOMAIN uiQueue : uiQueue[i].dev \in Devices /\ uiQueue[i].n \in Numbers
          /\ \A d \in Devices : rows[d].last # 0 => rows[d].last \in Numbers
      <3>1. \A i \in DOMAIN uiQueue : uiQueue[i] \in Loads
        BY DEF TypeInv, TypeOK
      <3>2. \A d \in Devices : rows[d].last \in 0..MaxChecks
        BY DEF TypeInv, TypeOK, Rows
      <3> QED BY <3>1, <3>2, SelfCheckAssumption DEF SelfCheckAssumption, Loads, Numbers
    <2>4. ShownIsRecorded' /\ (\A i \in DOMAIN uiQueue : Recorded(uiQueue[i].dev, uiQueue[i].n))'
      BY <2>1, <2>2, <2>3 DEF ShownInv, ShownIsRecorded
    <2>5. (pc \in {"progress", "show"} => Recorded(Msg.dev, Msg.n))'
      <3>1. Msg' = Msg
        BY <2>1 DEF Msg
      <3>2. pc' \in {"progress", "show"} => pc' = "progress"
        BY <1>4, SaveRecords
      <3>3. pc' = "progress" => Recorded(Msg.dev, Msg.n)'
        BY <1>4, SaveRecords
      <3> QED BY <3>1, <3>2, <3>3
    <2> QED BY <2>4, <2>5 DEF ShownInv
  <1>5. CASE ShowProgress
    <2>1. inbox # <<>>
      BY <1>5 DEF ShowProgress, TypeInv, HandlerOK
    <2>2. \A e \in Devices : rows'[e].last = rows[e].last
      <3>1. Msg.dev \in Devices
        BY <2>1, MsgType
      <3>2. rows' = updateSelfCheckProgress(rows, Msg.dev, "final", FALSE)
        BY <1>5 DEF ShowProgress
      <3>3. "final" \in Notices \cup {"", "final"} /\ FALSE \in BOOLEAN
        OBVIOUS
      <3> QED BY <3>1, <3>2, <3>3, LastAfterProgress
    <2>3. UNCHANGED <<uiQueue, records, inbox, queue>> /\ pc = "progress"
      BY <1>5 DEF ShowProgress
    <2>4. Msg' = Msg
      BY <2>3 DEF Msg
    <2> QED BY <2>2, <2>3, <2>4 DEF ShownInv, ShownIsRecorded, Recorded
  <1>6. CASE ShowResult
    <2>1. inbox # <<>>
      BY <1>6 DEF ShowResult, TypeInv, HandlerOK
    <2>2. Msg.dev \in Devices /\ Msg.n \in 0..MaxChecks
      BY <2>1, MsgType
    <2>3. rows' = updateSelfCheck(rows, Msg.dev, Msg.n)
      BY <1>6 DEF ShowResult
    <2>4. \A e \in Devices : rows'[e].last = rows[e].last \/ (e = Msg.dev /\ rows'[e].last = Msg.n)
      BY <2>2, <2>3, LastAfterResult
    <2>5. UNCHANGED <<uiQueue, records>> /\ pc = "show" /\ pc' = "ack"
      BY <1>6 DEF ShowResult
    <2>6. Recorded(Msg.dev, Msg.n)
      BY <2>5 DEF ShownInv
    <2>7. \A d, n : Recorded(d, n)' <=> Recorded(d, n)
      BY <2>5, RecordsUnchanged
    <2>8. ShownIsRecorded'
      BY <2>4, <2>6, <2>7 DEF ShownInv, ShownIsRecorded
    <2> QED BY <2>5, <2>7, <2>8 DEF ShownInv
  <1>7. CASE Crash
    <2>1. /\ uiQueue' = <<>> /\ pc' = "idle"
          /\ \A d \in Devices : rows'[d].last = 0
      BY <1>7 DEF Crash, NoRow
    <2> QED BY <2>1 DEF ShownInv, ShownIsRecorded
  <1> QED BY <1>1, <1>2, <1>3, <1>4, <1>5, <1>6, <1>7, NextSplit DEF Handler

LEMMA SpecShownInv == Spec => []ShownInv
  <1>1. Init => ShownInv
    <2> SUFFICES ASSUME Init PROVE ShownInv
      OBVIOUS
    <2>1. \A d \in Devices : rows[d].last = 0
      BY DEF Init, NoRow
    <2>2. DOMAIN uiQueue = {} /\ pc = "idle"
      BY DEF Init
    <2> QED BY <2>1, <2>2 DEF ShownInv, ShownIsRecorded
  <1> QED BY <1>1, SpecTypeInv, NextShownInv, PTL DEF Spec

(* Whatever order the threads, the broker and the faults take, a card shows *)
(* only results that self_check_record holds.                               *)
THEOREM SpecShownIsRecorded == Spec => []ShownIsRecorded
  <1>1. ShownInv => ShownIsRecorded
    BY DEF ShownInv
  <1> QED BY <1>1, SpecShownInv, PTL
=============================================================================
