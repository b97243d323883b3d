------------------------ MODULE SelfCheckLedgerProofs ------------------------
(***************************************************************************)
(* No answer of DataServer is lost, the pipeline implements the ledger of  *)
(* CheckLedger, what is recorded with a result is not of an earlier check, *)
(* a result is recorded once unless something failed, and without a fault  *)
(* only the load of the startup thread takes a card back: for every set of *)
(* devices and every bound.                                                *)
(***************************************************************************)
EXTENDS SelfCheckProofs, FiniteSetTheorems

-----------------------------------------------------------------------------
(* A check that is settled stays settled.                                   *)

Settled(d, n) == Recorded(d, n) \/ <<d, n>> \in refused

(* Records are only added, and nothing takes back that recvMsg gave up.     *)
LEMMA SettledStays ==
  ASSUME TypeInv, [Next]_vars, NEW d \in Devices, NEW n \in Numbers
  PROVE  Settled(d, n) => Settled(d, n)'
  <1> USE DEF startupVars, consumerVars, brokerVars, serverVars, storeVars
  <1>1. CASE saveResultToMysql
    <2>1. Recorded(d, n) => Recorded(d, n)'
      BY <1>1, SaveRecords
    <2>2. refused \subseteq refused'
      BY <1>1 DEF saveResultToMysql, SaveAttempt, GiveUp
    <2> QED BY <2>1, <2>2 DEF Settled
  <1>2. CASE Others
    <2>1. records' = records /\ refused' = refused
      BY <1>2, OthersFrame
    <2> QED BY <2>1 DEF Settled, Recorded
  <1>3. CASE \/ RecvNotice \/ RecvResult \/ getResultFromRedis \/ ShowProgress
             \/ ShowResult \/ Ack \/ ChannelError \/ Crash
    <2>1. records' = records /\ refused \subseteq refused'
      BY <1>3 DEF RecvNotice, RecvResult, getResultFromRedis, GiveUp, ShowProgress,
                  ShowResult, Ack, ChannelError, Crash
    <2> QED BY <2>1 DEF Settled, Recorded
  <1> QED BY <1>1, <1>2, <1>3, NextSplit DEF Handler

-----------------------------------------------------------------------------
(* No result is lost.                                                       *)

(* An answered check was answered by a message, which stays in the log.     *)
AnswerSent ==
  \A d \in Devices, n \in Numbers :
    phase[d][n] = "answered" =>
      \E i \in DOMAIN queue["resp"] : queue["resp"][i] = Message(d, n, "RESULT")

(* Whoever acknowledges has settled the check first.                        *)
AckedIsSettled ==
  \A i \in acked["resp"] :
    /\ i \in DOMAIN queue["resp"]
    /\ LET m == queue["resp"][i] IN m.kind = "RESULT" => Settled(m.dev, m.n)

HandledIsSettled == pc = "ack" /\ Msg.kind = "RESULT" => Settled(Msg.dev, Msg.n)

LossInv == AnswerSent /\ AckedIsSettled /\ HandledIsSettled

(* Only ServerRespond answers, and it sends the result.                     *)
LEMMA NextAnswerSent == TypeInv /\ AnswerSent /\ [Next]_vars => AnswerSent'
  <1> SUFFICES ASSUME TypeInv, AnswerSent, [Next]_vars,
                      NEW d \in Devices, NEW n \in Numbers, phase'[d][n] = "answered"
               PROVE  \E i \in DOMAIN queue'["resp"] :
                        queue'["resp"][i] = Message(d, n, "RESULT")
    BY DEF AnswerSent, Message
  <1> USE DEF startupVars, consumerVars, brokerVars, serverVars, storeVars
  <1>0. "resp" \in Queues
    BY DEF Queues
  <1>1. CASE phase[d][n] = "answered"
    <2>1. PICK i \in DOMAIN queue["resp"] : queue["resp"][i] = Message(d, n, "RESULT")
      BY <1>1 DEF AnswerSent
    <2> QED BY <1>0, <2>1, QueueGrows
  <1>2. ASSUME NEW e \in Devices, NEW m \in Numbers, ServerRespond(e, m)
        PROVE  \/ phase[d][n] = "answered"
               \/ \E i \in DOMAIN queue'["resp"] :
                    queue'["resp"][i] = Message(d, n, "RESULT")
    <2>1. CASE e = d /\ m = n
      <3>1. queue' = [queue EXCEPT !["resp"] = Append(@, Message(d, n, "RESULT"))]
        BY <1>2, <2>1 DEF ServerRespond, Send
      <3>2. queue["resp"] \in Seq(Messages)
        BY <1>0 DEF TypeInv, TypeOK
      <3>3. Message(d, n, "RESULT") \in Messages
        BY DEF Message, Messages
      <3>4. queue'["resp"] = Append(queue["resp"], Message(d, n, "RESULT"))
        BY <1>0, <3>1 DEF TypeInv, TypeOK
      <3>5. /\ Len(queue["resp"]) + 1 \in DOMAIN queue'["resp"]
            /\ queue'["resp"][Len(queue["resp"]) + 1] = Message(d, n, "RESULT")
        BY <3>2, <3>3, <3>4, AppendProperties
      <3> QED BY <3>5
    <2>2. CASE ~(e = d /\ m = n)
      BY <1>2, <2>2 DEF ServerRespond, Advance, TypeInv, TypeOK
    <2> QED BY <2>1, <2>2
  <1>3. CASE \E e \in Devices, m \in Numbers :
               ServerAccept(e, m) \/ PileStart(e, m) \/ PileComplete(e, m)
    <2>1. PICK e \in Devices, m \in Numbers, to \in {"sent", "started", "done"} :
             phase' = [phase EXCEPT ![e][m] = to]
      BY <1>3 DEF ServerAccept, PileStart, PileComplete, Advance
    <2>2. phase[d][n] = "answered"
      BY <2>1 DEF TypeInv, TypeOK
    <2> QED BY <1>1, <2>2
  <1>4. CASE \E e \in Devices, m \in Numbers : CheckDevice(e, m)
    <2>1. PICK e \in Devices, m \in Numbers, to \in {"asked", "lost"} :
             phase' = [phase EXCEPT ![e][m] = to]
      BY <1>4 DEF CheckDevice, Publish
    <2>2. phase[d][n] = "answered"
      BY <2>1 DEF TypeInv, TypeOK
    <2> QED BY <1>1, <2>2
  <1>5. CASE Startup \/ Ui \/ Handler
    <2>1. phase' = phase
      BY <1>5 DEF Startup, InitClient, SubMsg, LoadDevices, LoadLatest,
                  Ui, UiAddDevice, UiUpdateSelfCheck, Handler, RecvNotice, RecvResult,
                  getResultFromRedis, saveResultToMysql, ShowProgress, ShowResult, Ack
    <2> QED BY <1>1, <2>1
  <1>6. CASE \/ ChannelError \/ Crash \/ LinkDrop \/ UNCHANGED vars
             \/ \E q \in Queues : Push(q)
             \/ \E q \in Queues, e \in Devices : ServerNoise(q, e)
    <2>1. phase' = phase
      BY <1>6 DEF ChannelError, Crash, LinkDrop, Push, ServerNoise, vars
    <2> QED BY <1>1, <2>1
  <1> QED BY <1>1, <1>2, <1>3, <1>4, <1>5, <1>6 DEF Next, Server

(* recvMsg is finished with a result only when it is settled.               *)
LEMMA NextHandledIsSettled ==
  TypeInv /\ ShownInv /\ HandledIsSettled /\ [Next]_vars => HandledIsSettled'
  <1> SUFFICES ASSUME TypeInv, ShownInv, HandledIsSettled, [Next]_vars,
                      pc' = "ack", Msg'.kind = "RESULT"
               PROVE  Settled(Msg.dev, Msg.n)'
    BY DEF HandledIsSettled
  <1> USE DEF startupVars, consumerVars, brokerVars, serverVars, storeVars
  <1>1. CASE Others
    <2>1. pc = "ack"
      BY <1>1, OthersFrame
    <2>2. inbox # <<>> /\ Msg' = Msg
      BY <1>1, <2>1, OthersFrame DEF TypeInv, HandlerOK
    <2>3. Msg.dev \in Devices /\ Msg.n \in Numbers
      BY <2>2, MsgType
    <2>4. Settled(Msg.dev, Msg.n)
      BY <2>1, <2>2 DEF HandledIsSettled
    <2>5. records' = records /\ refused' = refused
      BY <1>1, OthersFrame
    <2> QED BY <2>2, <2>4, <2>5 DEF Settled, Recorded
  <1>2. CASE RecvNotice
    <2>1. Msg.kind # "RESULT" /\ Msg' = Msg
      BY <1>2 DEF RecvNotice, Msg
    <2> QED BY <2>1
  <1>3. CASE RecvResult \/ getResultFromRedis \/ saveResultToMysql
    <2>1. Msg' = Msg
      BY <1>3 DEF RecvResult, getResultFromRedis, saveResultToMysql, Msg
    <2>2. <<Msg.dev, Msg.n>> \in refused'
      BY <1>3, SaveRecords DEF RecvResult, getResultFromRedis, GiveUp
    <2> QED BY <2>1, <2>2 DEF Settled
  <1>4. CASE ShowResult
    <2>1. Msg' = Msg /\ records' = records /\ pc = "show"
      BY <1>4 DEF ShowResult, Msg
    <2>2. Recorded(Msg.dev, Msg.n)
      BY <2>1 DEF ShownInv
    <2> QED BY <2>1, <2>2 DEF Settled, Recorded
  <1>5. ~ShowProgress /\ ~Ack /\ ~ChannelError /\ ~Crash
    BY DEF ShowProgress, Ack, ChannelError, Crash
  <1> QED BY <1>1, <1>2, <1>3, <1>4, <1>5, NextSplit DEF Handler

(* The broker forgets a result only after recvMsg is finished with it.      *)
LEMMA NextAckedIsSettled ==
  TypeInv /\ AckedIsSettled /\ HandledIsSettled /\ [Next]_vars => AckedIsSettled'
  <1> SUFFICES ASSUME TypeInv, AckedIsSettled, HandledIsSettled, [Next]_vars,
                      NEW i \in acked'["resp"]
               PROVE  /\ i \in DOMAIN queue'["resp"]
                      /\ queue'["resp"][i].kind = "RESULT" =>
                           Settled(queue["resp"][i].dev, queue["resp"][i].n)'
    BY DEF AckedIsSettled
  <1> USE DEF startupVars, consumerVars, brokerVars, serverVars, storeVars
  <1> DEFINE m == queue["resp"][i]
  <1>0. "resp" \in Queues
    BY DEF Queues
  <1>1. ASSUME i \in DOMAIN queue["resp"], m.kind = "RESULT" => Settled(m.dev, m.n)
        PROVE  /\ i \in DOMAIN queue'["resp"]
               /\ queue'["resp"][i].kind = "RESULT" =>
                    Settled(queue["resp"][i].dev, queue["resp"][i].n)'
    <2>1. i \in DOMAIN queue'["resp"] /\ queue'["resp"][i] = m
      BY <1>0, <1>1, QueueGrows
    <2>2. m \in Messages
      BY <1>0, <1>1 DEF TypeInv, TypeOK
    <2>3. m.kind = "RESULT" => m.dev \in Devices /\ m.n \in Numbers
      BY <2>2 DEF Messages
    <2> HIDE DEF m
    <2>4. m.kind = "RESULT" =>
            \/ \E j \in DOMAIN records'[m.dev] : records'[m.dev][j].n = m.n
            \/ <<m.dev, m.n>> \in refused'
      BY <1>1, <2>3, SettledStays DEF Settled, Recorded
    <2> QED BY <2>1, <2>4 DEF Settled, Recorded
  <1>2. CASE i \in acked["resp"]
    BY <1>1, <1>2 DEF AckedIsSettled
  <1>3. CASE i \notin acked["resp"]
    <2>1. Ack
      <3>1. acked' # acked
        BY <1>3
      <3>2. ~Others
        BY <3>1, OthersFrame
      <3> QED BY <3>1, <3>2, NextSplit
              DEF Handler, RecvNotice, RecvResult, getResultFromRedis, saveResultToMysql,
                  ShowProgress, ShowResult, ChannelError, Crash
    <2>2. pc = "ack" /\ inbox # <<>>
      BY <2>1 DEF Ack, TypeInv, HandlerOK
    <2>3. /\ Head(inbox).queue \in Queues
          /\ Head(inbox).tag \in DOMAIN queue[Head(inbox).queue]
      BY <2>2, MsgType
    <2>4. acked' = [acked EXCEPT ![Head(inbox).queue] = @ \cup {Head(inbox).tag}]
      BY <1>3, <2>1 DEF Ack
    <2>5. Head(inbox).queue = "resp" /\ Head(inbox).tag = i
      BY <1>0, <1>3, <2>3, <2>4 DEF TypeInv, TypeOK
    <2>6. Msg = m /\ i \in DOMAIN queue["resp"]
      BY <2>3, <2>5 DEF Msg
    <2> QED BY <1>1, <2>2, <2>6 DEF HandledIsSettled
  <1> QED BY <1>2, <1>3

LEMMA SpecLossInv == Spec => []LossInv
  <1>1. Init => LossInv
    <2> SUFFICES ASSUME Init PROVE LossInv
      OBVIOUS
    <2>1. \A d \in Devices, n \in Numbers : phase[d][n] = "none"
      BY DEF Init
    <2>2. acked["resp"] = {} /\ pc = "idle"
      BY DEF Init, Queues
    <2> QED BY <2>1, <2>2 DEF LossInv, AnswerSent, AckedIsSettled, HandledIsSettled
  <1>2. TypeInv /\ ShownInv /\ LossInv /\ [Next]_vars => LossInv'
    BY NextAnswerSent, NextHandledIsSettled, NextAckedIsSettled DEF LossInv
  <1> QED BY <1>1, <1>2, SpecTypeInv, SpecShownInv, PTL DEF Spec

(* Whatever connection or process ends, an answered check is settled, or the *)
(* broker still has its result.                                             *)
LEMMA SettledOrQueued ==
  ASSUME LossInv, NEW d \in Devices, NEW n \in Numbers,
         phase[d][n] = "answered", ~Settled(d, n)
  PROVE  \E i \in DOMAIN queue["resp"] \ acked["resp"] :
           queue["resp"][i] = Message(d, n, "RESULT")
  <1>1. PICK i \in DOMAIN queue["resp"] : queue["resp"][i] = Message(d, n, "RESULT")
    BY DEF LossInv, AnswerSent
  <1>2. i \notin acked["resp"]
    BY <1>1 DEF LossInv, AckedIsSettled, Message
  <1> QED BY <1>1, <1>2

-----------------------------------------------------------------------------
(* The pipeline implements the ledger.                                      *)

(* A result on one of the queues is the answer of its own check.            *)
ResultIsAnswer ==
  \A q \in Queues : \A i \in DOMAIN queue[q] :
    queue[q][i].kind = "RESULT" => phase[queue[q][i].dev][queue[q][i].n] = "answered"

(* A device still to be added has no card, so that addDevice wipes nothing. *)
AddedOnce ==
  /\ \A d \in Devices : ~rows[d].present => rows[d].last = 0
  /\ \A d \in toAdd : ~rows[d].present
  /\ startup \in {"init", "subscribeNotice", "subscribeResp", "readDevices"} =>
       toAdd = {} /\ \A d \in Devices : ~rows[d].present

(* The last thing that happens to a check is that it is answered.           *)
LEMMA AnswersStay ==
  ASSUME TypeInv, [Next]_vars, NEW d \in Devices, NEW n \in Numbers
  PROVE  /\ phase[d][n] = "answered" => phase'[d][n] = "answered"
         /\ phase'[d][n] = "answered" => phase[d][n] = "answered" \/ ServerRespond(d, n)
  <1> USE DEF startupVars, consumerVars, brokerVars, serverVars, storeVars
  <1>1. CASE \E e \in Devices, m \in Numbers : ServerRespond(e, m)
    <2>1. PICK e \in Devices, m \in Numbers : ServerRespond(e, m)
      BY <1>1
    <2>2. phase' = [phase EXCEPT ![e][m] = "answered"]
      BY <2>1 DEF ServerRespond, Advance
    <2>3. CASE d = e /\ n = m
      BY <2>1, <2>2, <2>3 DEF TypeInv, TypeOK
    <2>4. CASE ~(d = e /\ n = m)
      BY <2>2, <2>4 DEF TypeInv, TypeOK
    <2> QED BY <2>3, <2>4
  <1>2. CASE \E e \in Devices, m \in Numbers :
               ServerAccept(e, m) \/ PileStart(e, m) \/ PileComplete(e, m)
    <2>1. PICK e \in Devices, m \in Numbers, to \in {"sent", "started", "done"} :
             /\ phase[e][m] # "answered"
             /\ phase' = [phase EXCEPT ![e][m] = to]
      BY <1>2 DEF ServerAccept, PileStart, PileComplete, Advance
    <2> QED BY <2>1 DEF TypeInv, TypeOK
  <1>3. CASE \E e \in Devices, m \in Numbers : CheckDevice(e, m)
    <2>1. PICK e \in Devices, m \in Numbers, to \in {"asked", "lost"} :
             /\ phase[e][m] # "answered"
             /\ phase' = [phase EXCEPT ![e][m] = to]
      BY <1>3 DEF CheckDevice, Publish
    <2> QED BY <2>1 DEF TypeInv, TypeOK
  <1>4. CASE Startup \/ Ui \/ Handler
    BY <1>4 DEF Startup, InitClient, SubMsg, LoadDevices, LoadLatest,
                Ui, UiAddDevice, UiUpdateSelfCheck, Handler, RecvNotice, RecvResult,
                getResultFromRedis, saveResultToMysql, ShowProgress, ShowResult, Ack
  <1>5. CASE \/ ChannelError \/ Crash \/ LinkDrop \/ UNCHANGED vars
             \/ \E q \in Queues : Push(q)
             \/ \E q \in Queues, e \in Devices : ServerNoise(q, e)
    BY <1>5 DEF ChannelError, Crash, LinkDrop, Push, ServerNoise, vars
  <1> QED BY <1>1, <1>2, <1>3, <1>4, <1>5 DEF Next, Server

(* Sending adds one message and nothing else.                               *)
LEMMA SendAdds ==
  ASSUME TypeInv, NEW p \in Queues, NEW m \in Messages, Send(p, m)
  PROVE  \A q \in Queues : \A i \in DOMAIN queue'[q] :
           \/ i \in DOMAIN queue[q] /\ queue'[q][i] = queue[q][i]
           \/ queue'[q][i] = m
  <1>1. ASSUME NEW q \in Queues, NEW i \in DOMAIN queue'[q]
        PROVE  \/ i \in DOMAIN queue[q] /\ queue'[q][i] = queue[q][i]
               \/ queue'[q][i] = m
    <2>1. queue[q] \in Seq(Messages)
      BY DEF TypeInv, TypeOK
    <2>2. queue'[q] = IF q = p THEN Append(queue[q], m) ELSE queue[q]
      BY DEF Send, TypeInv, TypeOK
    <2> QED BY <2>1, <2>2, AppendProperties
  <1> QED BY <1>1

(* Who sends what: results come from ServerRespond only.                    *)
LEMMA QueueSteps ==
  ASSUME TypeInv, [Next]_vars
  PROVE  \/ \E e \in Devices, m \in Numbers : ServerRespond(e, m)
         \/ \E e \in Devices, m \in Numbers, kind \in Notices :
              Send("notice", Message(e, m, kind))
         \/ \E p \in Queues, e \in Devices : Send(p, Message(e, 0, "OTHER"))
         \/ UNCHANGED queue
  <1> USE DEF startupVars, consumerVars, brokerVars, serverVars, storeVars
  <1>1. CASE Handler
    BY <1>1 DEF Handler, RecvNotice, RecvResult, getResultFromRedis, saveResultToMysql,
                ShowProgress, ShowResult, Ack
  <1>2. CASE Startup \/ Ui
    BY <1>2 DEF Startup, Ui, InitClient, SubMsg, Subscribe, LoadDevices, LoadLatest,
                UiAddDevice, UiUpdateSelfCheck
  <1>3. CASE Server
    BY <1>3 DEF Server, ServerAccept, PileStart, PileComplete, Notices
  <1>4. CASE \/ ChannelError \/ Crash \/ LinkDrop \/ UNCHANGED vars
             \/ \E d \in Devices, n \in Numbers : CheckDevice(d, n)
             \/ \E p \in Queues : Push(p)
    BY <1>4 DEF ChannelError, Crash, LinkDrop, CheckDevice, Publish, Push, vars
  <1>5. CASE \E p \in Queues, d \in Devices : ServerNoise(p, d)
    BY <1>5 DEF ServerNoise
  <1> QED BY <1>1, <1>2, <1>3, <1>4, <1>5 DEF Next

LEMMA NextResultIsAnswer ==
  TypeInv /\ ResultIsAnswer /\ [Next]_vars => ResultIsAnswer'
  <1> SUFFICES ASSUME TypeInv, ResultIsAnswer, [Next]_vars,
                      NEW q \in Queues, NEW i \in DOMAIN queue'[q],
                      queue'[q][i].kind = "RESULT"
               PROVE  phase'[queue'[q][i].dev][queue'[q][i].n] = "answered"
    BY DEF ResultIsAnswer
  <1> USE DEF startupVars, consumerVars, brokerVars, serverVars, storeVars
  <1>1. CASE i \in DOMAIN queue[q] /\ queue'[q][i] = queue[q][i]
    <2>1. queue[q][i] \in Messages
      BY <1>1 DEF TypeInv, TypeOK
    <2>2. queue[q][i].dev \in Devices /\ queue[q][i].n \in Numbers
      BY <1>1, <2>1 DEF Messages
    <2> QED BY <1>1, <2>2, AnswersStay DEF ResultIsAnswer
  <1>2. ASSUME NEW e \in Devices, NEW m \in Numbers, ServerRespond(e, m)
        PROVE  \/ i \in DOMAIN queue[q] /\ queue'[q][i] = queue[q][i]
               \/ phase'[queue'[q][i].dev][queue'[q][i].n] = "answered"
    <2>1. Message(e, m, "RESULT") \in Messages /\ "resp" \in Queues
      BY DEF Message, Messages, Queues
    <2>2. Send("resp", Message(e, m, "RESULT"))
      BY <1>2 DEF ServerRespond
    <2>3. \/ i \in DOMAIN queue[q] /\ queue'[q][i] = queue[q][i]
          \/ queue'[q][i] = Message(e, m, "RESULT")
      BY <2>1, <2>2, SendAdds
    <2>4. phase' = [phase EXCEPT ![e][m] = "answered"]
      BY <1>2 DEF ServerRespond, Advance
    <2>5. phase'[e][m] = "answered"
      BY <2>4 DEF TypeInv, TypeOK
    <2> QED BY <2>3, <2>5 DEF Message
  <1>3. CASE \/ \E e \in Devices, m \in Numbers, kind \in Notices :
                  Send("notice", Message(e, m, kind))
             \/ \E p \in Queues, e \in Devices : Send(p, Message(e, 0, "OTHER"))
    <2>1. ASSUME NEW e \in Devices, NEW m \in Numbers, NEW kind \in Notices
          PROVE  /\ Message(e, m, kind) \in Messages
                 /\ Message(e, m, kind).kind # "RESULT"
      BY DEF Message, Messages, Notices
    <2>2. ASSUME NEW e \in Devices
          PROVE  /\ Message(e, 0, "OTHER") \in Messages
                 /\ Message(e, 0, "OTHER").kind # "RESULT"
      BY DEF Message, Messages
    <2>3. "notice" \in Queues
      BY DEF Queues
    <2>4. \E p \in Queues, m \in Messages : Send(p, m) /\ m.kind # "RESULT"
      BY <1>3, <2>1, <2>2, <2>3
    <2>5. PICK p \in Queues, m \in Messages : Send(p, m) /\ m.kind # "RESULT"
      BY <2>4
    <2> QED BY <1>1, <2>5, SendAdds
  <1>4. CASE UNCHANGED queue
    BY <1>1, <1>4
  <1>5. \/ \E e \in Devices, m \in Numbers : ServerRespond(e, m)
        \/ \E e \in Devices, m \in Numbers, kind \in Notices :
             Send("notice", Message(e, m, kind))
        \/ \E p \in Queues, e \in Devices : Send(p, Message(e, 0, "OTHER"))
        \/ UNCHANGED queue
    BY QueueSteps
  <1> QED BY <1>1, <1>2, <1>3, <1>4, <1>5

(* What the updates of a card leave alone: which cards there are, and the   *)
(* results of all cards, but for updateSelfCheck on the card it names.      *)
LEMMA UpdatesFrame ==
  ASSUME TypeInv, NEW d \in Devices
  PROVE  /\ \A n : rows' = updateSelfCheck(rows, d, n) =>
              \A e \in Devices :
                /\ rows'[e].present = rows[e].present
                /\ \/ rows'[e].last = rows[e].last
                   \/ e = d /\ rows[e].present /\ rows'[e].last = n
         /\ \A t, b : rows' = updateSelfCheckProgress(rows, d, t, b) =>
              \A e \in Devices :
                /\ rows'[e].present = rows[e].present
                /\ rows'[e].last = rows[e].last
         /\ rows' = addDevice(rows, d) =>
              \A e \in Devices :
                IF e = d THEN rows'[e].present /\ rows'[e].last = 0
                         ELSE rows'[e] = rows[e]
  <1>1. rows \in [Devices -> Rows] /\ rows[d] \in Rows
    BY DEF TypeInv, TypeOK
  <1>2. ASSUME NEW n, rows' = updateSelfCheck(rows, d, n)
        PROVE  \A e \in Devices :
                 /\ rows'[e].present = rows[e].present
                 /\ \/ rows'[e].last = rows[e].last
                    \/ e = d /\ rows[e].present /\ rows'[e].last = n
    <2>1. /\ [rows[d] EXCEPT !.last = n].present = rows[d].present
          /\ [rows[d] EXCEPT !.last = n].last = n
      BY <1>1 DEF Rows
    <2> QED BY <1>1, <1>2, <2>1 DEF updateSelfCheck, OnKnown
  <1>3. ASSUME NEW t, NEW b, rows' = updateSelfCheckProgress(rows, d, t, b)
        PROVE  \A e \in Devices :
                 /\ rows'[e].present = rows[e].present
                 /\ rows'[e].last = rows[e].last
    <2>1. /\ [rows[d] EXCEPT !.text = t, !.checking = b].present = rows[d].present
          /\ [rows[d] EXCEPT !.text = t, !.checking = b].last = rows[d].last
      BY <1>1 DEF Rows
    <2> QED BY <1>1, <1>3, <2>1 DEF updateSelfCheckProgress, OnKnown
  <1>4. ASSUME rows' = addDevice(rows, d)
        PROVE  \A e \in Devices :
                 IF e = d THEN rows'[e].present /\ rows'[e].last = 0
                          ELSE rows'[e] = rows[e]
    <2>1. FreshRow.present /\ FreshRow.last = 0
      BY DEF FreshRow, NoRow
    <2> QED BY <1>1, <1>4, <2>1 DEF addDevice
  <1> QED BY <1>2, <1>3, <1>4

(* The cards, as the ledger sees them, in every step but a restart.         *)
LEMMA CardsFrame ==
  ASSUME TypeInv, [Next]_vars, ~Crash
  PROVE  \/ \E d \in toAdd : UiAddDevice(d)
         \/ UiUpdateSelfCheck
         \/ ShowResult
         \/ \A e \in Devices : /\ rows'[e].present = rows[e].present
                               /\ rows'[e].last = rows[e].last
  <1> USE DEF startupVars, consumerVars, brokerVars, serverVars, storeVars
  <1>1. CASE RecvNotice
    <2>1. Msg.dev \in Devices
      BY <1>1, MsgType DEF RecvNotice
    <2>2. \/ rows' = rows
          \/ rows' = updateSelfCheckProgress(rows, Msg.dev, Msg.kind, Msg.kind = "STARTED")
      BY <1>1 DEF RecvNotice
    <2> QED BY <2>1, <2>2, UpdatesFrame
  <1>2. CASE ShowProgress
    <2>1. Msg.dev \in Devices
      BY <1>2, MsgType DEF ShowProgress, TypeInv, HandlerOK
    <2>2. rows' = updateSelfCheckProgress(rows, Msg.dev, "final", FALSE)
      BY <1>2 DEF ShowProgress
    <2> QED BY <2>1, <2>2, UpdatesFrame
  <1>3. CASE \/ RecvResult \/ getResultFromRedis \/ saveResultToMysql \/ Ack
             \/ ChannelError \/ Startup
    BY <1>3 DEF RecvResult, getResultFromRedis, saveResultToMysql, Ack, ChannelError,
                Startup, InitClient, SubMsg, LoadDevices, LoadLatest
  <1>4. CASE \/ \E d \in Devices, n \in Numbers : CheckDevice(d, n)
             \/ \E q \in Queues : Push(q)
             \/ Server \/ LinkDrop \/ UNCHANGED vars
             \/ \E q \in Queues, d \in Devices : ServerNoise(q, d)
    BY <1>4 DEF CheckDevice, Publish, Push, Server, ServerAccept, PileStart, PileComplete,
                ServerRespond, Advance, LinkDrop, vars, ServerNoise
  <1>5. CASE Ui
    BY <1>5 DEF Ui, UiAddDevice
  <1> QED BY <1>1, <1>2, <1>3, <1>4, <1>5, NextSplit DEF Handler, Others

LEMMA NextAddedOnce == TypeInv /\ AddedOnce /\ [Next]_vars => AddedOnce'
  <1> SUFFICES ASSUME TypeInv, AddedOnce, [Next]_vars PROVE AddedOnce'
    OBVIOUS
  <1> USE DEF startupVars, consumerVars, brokerVars, serverVars, storeVars
  <1> DEFINE Early == {"init", "subscribeNotice", "subscribeResp", "readDevices"}
  <1>1. CASE Crash
    BY <1>1 DEF Crash, AddedOnce, NoRow
  <1>2. ASSUME NEW d \in toAdd, UiAddDevice(d) PROVE AddedOnce'
    <2>1. d \in Devices
      BY DEF TypeInv, TypeOK
    <2>2. rows' = addDevice(rows, d) /\ toAdd' = toAdd \ {d} /\ startup' = startup
      BY <1>2 DEF UiAddDevice
    <2>3. \A e \in Devices : IF e = d THEN rows'[e].present /\ rows'[e].last = 0
                                      ELSE rows'[e] = rows[e]
      BY <2>1, <2>2, UpdatesFrame
    <2>4. toAdd \subseteq Devices
      BY DEF TypeInv, TypeOK
    <2> QED BY <2>2, <2>3, <2>4 DEF AddedOnce
  <1>3. CASE UiUpdateSelfCheck
    <2>1. Head(uiQueue) \in Loads
      BY <1>3 DEF UiUpdateSelfCheck, TypeInv, TypeOK
    <2>2. Head(uiQueue).dev \in Devices
      BY <2>1 DEF Loads
    <2>3. \A e \in Devices :
            /\ rows'[e].present = rows[e].present
            /\ rows'[e].last = rows[e].last \/ rows[e].present
      BY <1>3, <2>2, UpdatesFrame DEF UiUpdateSelfCheck
    <2>4. toAdd' = toAdd /\ startup' = startup /\ toAdd \subseteq Devices
      BY <1>3 DEF UiUpdateSelfCheck, TypeInv, TypeOK
    <2> QED BY <2>3, <2>4 DEF AddedOnce
  <1>4. CASE ShowResult
    <2>1. Msg.dev \in Devices
      BY <1>4, MsgType DEF ShowResult, TypeInv, HandlerOK
    <2>2. \A e \in Devices :
            /\ rows'[e].present = rows[e].present
            /\ rows'[e].last = rows[e].last \/ rows[e].present
      BY <1>4, <2>1, UpdatesFrame DEF ShowResult
    <2>3. toAdd' = toAdd /\ startup' = startup /\ toAdd \subseteq Devices
      BY <1>4 DEF ShowResult, TypeInv, TypeOK
    <2> QED BY <2>2, <2>3 DEF AddedOnce
  <1>5. CASE /\ ~Crash
             /\ \A e \in Devices : /\ rows'[e].present = rows[e].present
                                   /\ rows'[e].last = rows[e].last
    <2>1. toAdd \subseteq Devices /\ toAdd' \subseteq toAdd \cup Devices
      BY <1>5, NextTypeInv DEF TypeInv, TypeOK
    <2>2. /\ toAdd' \subseteq toAdd \/ (startup = "readDevices" /\ startup' = "loadLatest")
          /\ startup' \in Early => startup \in Early
      <3>1. CASE Startup
        BY <3>1 DEF Startup, InitClient, SubMsg, LoadDevices, LoadLatest
      <3>2. CASE Ui
        BY <3>2 DEF Ui, UiAddDevice, UiUpdateSelfCheck
      <3>3. CASE Handler \/ ChannelError
        BY <3>3 DEF Handler, RecvNotice, RecvResult, getResultFromRedis,
                    saveResultToMysql, ShowProgress, ShowResult, Ack, ChannelError
      <3>4. CASE \/ \E d \in Devices, n \in Numbers : CheckDevice(d, n)
                 \/ \E q \in Queues : Push(q)
                 \/ Server \/ LinkDrop \/ UNCHANGED vars
                 \/ \E q \in Queues, d \in Devices : ServerNoise(q, d)
        BY <3>4 DEF CheckDevice, Publish, Push, Server, ServerAccept, PileStart, PileComplete,
                    ServerRespond, Advance, LinkDrop, vars, ServerNoise
      <3> QED BY <1>5, <3>1, <3>2, <3>3, <3>4, NextSplit DEF Others
    <2> QED BY <1>5, <2>1, <2>2 DEF AddedOnce
  <1> QED BY <1>1, <1>2, <1>3, <1>4, <1>5, CardsFrame

LedgerInv == ResultIsAnswer /\ AddedOnce

LEMMA SpecLedgerInv == Spec => []LedgerInv
  <1>1. Init => LedgerInv
    <2> SUFFICES ASSUME Init PROVE LedgerInv
      OBVIOUS
    <2>1. \A q \in Queues : DOMAIN queue[q] = {}
      BY DEF Init
    <2>2. toAdd = {} /\ \A d \in Devices : ~rows[d].present /\ rows[d].last = 0
      BY DEF Init, NoRow
    <2> QED BY <2>1, <2>2 DEF LedgerInv, ResultIsAnswer, AddedOnce
  <1>2. TypeInv /\ LedgerInv /\ [Next]_vars => LedgerInv'
    BY NextResultIsAnswer, NextAddedOnce DEF LedgerInv
  <1> QED BY <1>1, <1>2, SpecTypeInv, PTL DEF Spec

(* The parts of the ledger's state, as this state has them.                 *)
AnsweredSet == {c \in Devices \X Numbers : phase[c[1]][c[2]] = "answered"}
SavedSet    == {c \in Devices \X Numbers : Recorded(c[1], c[2])}
ShownResult == [d \in Devices |-> rows[d].last]

(* Which of them a step can change.                                         *)
LEMMA AnsweredStep ==
  ASSUME TypeInv, [Next]_vars
  PROVE  \/ AnsweredSet' = AnsweredSet
         \/ \E d \in Devices, n \in Numbers :
              ServerRespond(d, n) /\ AnsweredSet' = AnsweredSet \cup {<<d, n>>}
  <1>1. CASE \E d \in Devices, n \in Numbers : ServerRespond(d, n)
    <2>1. PICK d \in Devices, n \in Numbers : ServerRespond(d, n)
      BY <1>1
    <2>2. phase' = [phase EXCEPT ![d][n] = "answered"]
      BY <2>1 DEF ServerRespond, Advance
    <2>3. \A e \in Devices, m \in Numbers :
            phase'[e][m] = "answered" <=> phase[e][m] = "answered" \/ (e = d /\ m = n)
      BY <2>2 DEF TypeInv, TypeOK
    <2>4. AnsweredSet' = AnsweredSet \cup {<<d, n>>}
      BY <2>3 DEF AnsweredSet
    <2> QED BY <2>1, <2>4
  <1>2. CASE ~\E d \in Devices, n \in Numbers : ServerRespond(d, n)
    <2>1. \A e \in Devices, m \in Numbers :
            phase'[e][m] = "answered" <=> phase[e][m] = "answered"
      BY <1>2, AnswersStay
    <2> QED BY <2>1 DEF AnsweredSet
  <1> QED BY <1>1, <1>2

(* recvMsg settles the check of the message it works on, and no other.      *)
LEMMA SettleStep ==
  ASSUME TypeInv, [Next]_vars
  PROVE  \/ SavedSet' = SavedSet /\ refused' = refused
         \/ /\ RecvResult \/ getResultFromRedis \/ saveResultToMysql
            /\ SavedSet' \in {SavedSet, SavedSet \cup {<<Msg.dev, Msg.n>>}}
            /\ refused' \in {refused, refused \cup {<<Msg.dev, Msg.n>>}}
  <1> USE DEF startupVars, consumerVars, brokerVars, serverVars, storeVars
  <1>1. ASSUME records' = records PROVE SavedSet' = SavedSet
    BY <1>1 DEF SavedSet, Recorded
  <1>2. CASE saveResultToMysql
    <2>1. Msg.dev \in Devices /\ Msg.n \in Numbers
      BY <1>2, MsgType DEF saveResultToMysql, TypeInv, HandlerOK
    <2>2. \A d \in Devices, n \in Numbers :
            /\ Recorded(d, n) => Recorded(d, n)'
            /\ Recorded(d, n)' => Recorded(d, n) \/ (d = Msg.dev /\ n = Msg.n)
      BY <1>2, SaveRecords
    <2>3. SavedSet' \in {SavedSet, SavedSet \cup {<<Msg.dev, Msg.n>>}}
      <3>1. /\ \A d \in Devices, n \in Numbers : <<d, n>> \in SavedSet <=> Recorded(d, n)
            /\ \A d \in Devices, n \in Numbers : <<d, n>> \in SavedSet' <=> Recorded(d, n)'
            /\ SavedSet \subseteq Devices \X Numbers /\ SavedSet' \subseteq Devices \X Numbers
        BY DEF SavedSet
      <3>2. \A c \in Devices \X Numbers :
              /\ c \in SavedSet => c \in SavedSet'
              /\ c \in SavedSet' => c \in SavedSet \/ c = <<Msg.dev, Msg.n>>
        BY <2>2, <3>1
      <3> QED BY <2>1, <3>1, <3>2
    <2>4. refused' \in {refused, refused \cup {<<Msg.dev, Msg.n>>}}
      BY <1>2 DEF saveResultToMysql, SaveAttempt, GiveUp
    <2> QED BY <1>2, <2>3, <2>4
  <1>3. CASE RecvResult \/ getResultFromRedis
    BY <1>1, <1>3 DEF RecvResult, getResultFromRedis, GiveUp
  <1>4. CASE RecvNotice \/ ShowProgress \/ ShowResult \/ Ack \/ ChannelError \/ Crash
    BY <1>1, <1>4 DEF RecvNotice, ShowProgress, ShowResult, Ack, ChannelError, Crash
  <1>5. CASE Others
    BY <1>1, <1>5, OthersFrame
  <1> QED BY <1>2, <1>3, <1>4, <1>5, NextSplit DEF Handler

(* A card changes its result to a recorded one, or with all the others.     *)
LEMMA ShowStep ==
  ASSUME TypeInv, ShownInv, AddedOnce, [Next]_vars, ~Crash
  PROVE  \/ ShownResult' = ShownResult
         \/ \E d \in Devices, n \in Numbers :
              /\ UiUpdateSelfCheck \/ ShowResult
              /\ Recorded(d, n)
              /\ ShownResult' = [ShownResult EXCEPT ![d] = n]
  <1>1. ASSUME \A e \in Devices : rows'[e].last = rows[e].last
        PROVE  ShownResult' = ShownResult
    BY <1>1 DEF ShownResult
  <1>2. ASSUME NEW d \in Devices, NEW n \in Numbers, rows' = updateSelfCheck(rows, d, n)
        PROVE  \/ ShownResult' = ShownResult
               \/ ShownResult' = [ShownResult EXCEPT ![d] = n]
    <2>1. \A e \in Devices : \/ rows'[e].last = rows[e].last
                             \/ e = d /\ rows'[e].last = n
      BY <1>2, UpdatesFrame
    <2> QED BY <2>1 DEF ShownResult
  <1>3. CASE UiUpdateSelfCheck
    <2> DEFINE load == Head(uiQueue)
    <2>1. load = uiQueue[1] /\ 1 \in DOMAIN uiQueue /\ load \in Loads
      BY <1>3 DEF UiUpdateSelfCheck, TypeInv, TypeOK
    <2>2. Recorded(load.dev, load.n) /\ load.dev \in Devices /\ load.n \in Numbers
      BY <2>1 DEF ShownInv, Loads
    <2>3. rows' = updateSelfCheck(rows, load.dev, load.n)
      BY <1>3 DEF UiUpdateSelfCheck
    <2> HIDE DEF load
    <2> QED BY <1>2, <1>3, <2>2, <2>3
  <1>4. CASE ShowResult
    <2>1. Msg.dev \in Devices /\ Msg.n \in Numbers
      BY <1>4, MsgType DEF ShowResult, TypeInv, HandlerOK
    <2>2. Recorded(Msg.dev, Msg.n)
      BY <1>4 DEF ShowResult, ShownInv
    <2>3. rows' = updateSelfCheck(rows, Msg.dev, Msg.n)
      BY <1>4 DEF ShowResult
    <2> QED BY <1>2, <1>4, <2>1, <2>2, <2>3
  <1>5. ASSUME NEW d \in toAdd, UiAddDevice(d) PROVE ShownResult' = ShownResult
    <2>1. d \in Devices /\ rows[d].last = 0
      BY DEF AddedOnce, TypeInv, TypeOK
    <2>2. \A e \in Devices : IF e = d THEN rows'[e].present /\ rows'[e].last = 0
                                      ELSE rows'[e] = rows[e]
      BY <1>5, <2>1, UpdatesFrame DEF UiAddDevice
    <2> QED BY <1>1, <2>1, <2>2
  <1> QED BY <1>1, <1>3, <1>4, <1>5, CardsFrame

(* No step changes two parts of the ledger at once, except settling.        *)
LEMMA NextLedger ==
  TypeInv /\ ShownInv /\ LedgerInv /\ [Next]_vars => [Ledger!Next]_(Ledger!vars)
  <1> SUFFICES ASSUME TypeInv, ShownInv, LedgerInv, [Next]_vars
               PROVE  [Ledger!Next]_(Ledger!vars)
    OBVIOUS
  <1> USE DEF startupVars, consumerVars, brokerVars, serverVars, storeVars
  <1>1. Ledger!vars = <<AnsweredSet, SavedSet, refused, ShownResult>>
    BY DEF Ledger!vars, AnsweredSet, SavedSet, ShownResult
  <1>2. CASE Crash
    <2>1. ShownResult' = [d \in Devices |-> 0]
      BY <1>2 DEF Crash, ShownResult, NoRow
    <2>2. UNCHANGED <<AnsweredSet, SavedSet, refused>>
      BY <1>2 DEF Crash, AnsweredSet, SavedSet, Recorded
    <2>3. Ledger!Restart
      BY <2>1, <2>2 DEF Ledger!Restart, AnsweredSet, SavedSet, ShownResult
    <2> QED BY <2>3 DEF Ledger!Next
  <1>3. ASSUME NEW d \in Devices, NEW n \in Numbers, ServerRespond(d, n),
               AnsweredSet' = AnsweredSet \cup {<<d, n>>}
        PROVE  Ledger!Next
    <2>1. UNCHANGED <<SavedSet, refused, ShownResult>>
      BY <1>3 DEF ServerRespond, Advance, SavedSet, Recorded, ShownResult
    <2>2. Ledger!Answer(<<d, n>>)
      BY <1>3, <2>1 DEF Ledger!Answer, AnsweredSet, SavedSet, ShownResult
    <2> QED BY <2>2 DEF Ledger!Next, Ledger!Checks
  <1>4. ASSUME RecvResult \/ getResultFromRedis \/ saveResultToMysql,
               SavedSet' \in {SavedSet, SavedSet \cup {<<Msg.dev, Msg.n>>}},
               refused' \in {refused, refused \cup {<<Msg.dev, Msg.n>>}}
        PROVE  Ledger!Next
    <2>1. UNCHANGED <<AnsweredSet, ShownResult>>
      BY <1>4 DEF RecvResult, getResultFromRedis, saveResultToMysql, AnsweredSet, ShownResult
    <2>2. inbox # <<>> /\ Msg.kind = "RESULT"
      BY <1>4 DEF RecvResult, getResultFromRedis, saveResultToMysql, TypeInv, HandlerOK
    <2>3. /\ Msg.dev \in Devices /\ Msg.n \in Numbers
          /\ Head(inbox).queue \in Queues
          /\ Head(inbox).tag \in DOMAIN queue[Head(inbox).queue]
      BY <2>2, MsgType
    <2>4. <<Msg.dev, Msg.n>> \in AnsweredSet
      BY <2>2, <2>3 DEF Msg, LedgerInv, ResultIsAnswer, AnsweredSet
    <2>5. Ledger!Settle(<<Msg.dev, Msg.n>>)
      BY <1>4, <2>1, <2>4 DEF Ledger!Settle, AnsweredSet, SavedSet, ShownResult
    <2> QED BY <2>3, <2>5 DEF Ledger!Next, Ledger!Checks
  <1>5. ASSUME NEW d \in Devices, NEW n \in Numbers, UiUpdateSelfCheck \/ ShowResult,
               Recorded(d, n), ShownResult' = [ShownResult EXCEPT ![d] = n]
        PROVE  Ledger!Next
    <2>1. UNCHANGED <<AnsweredSet, SavedSet, refused>>
      BY <1>5 DEF UiUpdateSelfCheck, ShowResult, AnsweredSet, SavedSet, Recorded
    <2>2. <<d, n>> \in SavedSet
      BY <1>5 DEF SavedSet
    <2>3. Ledger!Show(d, n)
      BY <1>5, <2>1, <2>2 DEF Ledger!Show, AnsweredSet, SavedSet, ShownResult
    <2> QED BY <2>3 DEF Ledger!Next
  <1>6. CASE /\ UNCHANGED <<AnsweredSet, SavedSet, refused, ShownResult>>
    BY <1>1, <1>6 DEF Ledger!vars, AnsweredSet, SavedSet, ShownResult
  <1>7. ~Crash => ShownResult' = ShownResult \/ Ledger!Next
    BY <1>5, ShowStep DEF LedgerInv
  <1> QED BY <1>2, <1>3, <1>4, <1>6, <1>7, AnsweredStep, SettleStep

(* The pipeline implements the ledger, whatever fails: checks are recorded  *)
(* and refused only once answered, for ever, and cards show recorded ones.  *)
THEOREM SpecImplementsLedger == Spec => ImplementsLedger
  <1>1. Init => Ledger!Init
    <2> SUFFICES ASSUME Init PROVE Ledger!Init
      OBVIOUS
    <2>1. \A d \in Devices, n \in Numbers : phase[d][n] = "none" /\ ~Recorded(d, n)
      BY DEF Init, Recorded
    <2>2. refused = {} /\ [d \in Devices |-> rows[d].last] = [d \in Devices |-> 0]
      BY DEF Init, NoRow
    <2> QED BY <2>1, <2>2 DEF Ledger!Init
  <1>2. Spec => Ledger!Spec
    BY <1>1, NextLedger, SpecTypeInv, SpecShownInv, SpecLedgerInv, PTL DEF Spec, Ledger!Spec
  <1> QED BY <1>2 DEF ImplementsLedger

-----------------------------------------------------------------------------
(* What is recorded with a result.                                          *)

\* A pile gets to a check only when it is done with those before.
InOrder ==
  \A d \in Devices, m, n \in Numbers :
    m < n /\ phase[d][n] \in {"sent", "started", "done", "answered"}
      => phase[d][m] \in {"lost", "done", "answered"}

\* Redis holds the hashes of the last check that was run, if every check that
\* is answered was run.
RedisIsNewest ==
  \A d \in Devices, n \in Numbers :
    phase[d][n] \in {"done", "answered"} => redis[d] >= n

AgeInv ==
  /\ InOrder
  /\ RedisIsNewest
  /\ pc = "insert" => snapshot >= Msg.n
  /\ RecordNotOlderThanResult

\* The step of one check, and what the others need not know of it.
PhaseStep(d, n, from, to) ==
  /\ phase[d][n] = from
  /\ phase' = [phase EXCEPT ![d][n] = to]
  /\ UNCHANGED <<pc, inbox, snapshot, records>>

\* Each step moves one check at most, and Redis with it when the check is done.
LEMMA CheckSteps ==
  ASSUME TypeInv, [Next]_vars, "abort" \notin Faults
  PROVE  \/ phase' = phase /\ redis' = redis
         \/ \E d \in Devices, n \in Numbers :
              \/ /\ \E to \in {"asked", "lost"} : PhaseStep(d, n, "none", to)
                 /\ redis' = redis
              \/ /\ PhaseStep(d, n, "asked", "sent")
                 /\ \A m \in 1..(n - 1) : phase[d][m] \in {"lost", "done", "answered"}
                 /\ redis' = redis
              \/ /\ PhaseStep(d, n, "sent", "started")
                 /\ redis' = redis
              \/ /\ PhaseStep(d, n, "started", "done")
                 /\ redis' = [redis EXCEPT ![d] = n]
              \/ /\ PhaseStep(d, n, "done", "answered")
                 /\ redis' = redis
  <1> USE DEF startupVars, consumerVars, brokerVars, serverVars, storeVars
  <1>1. ASSUME NEW d \in Devices, NEW n \in Numbers, CheckDevice(d, n)
        PROVE  /\ \E to \in {"asked", "lost"} : PhaseStep(d, n, "none", to)
               /\ redis' = redis
    BY <1>1 DEF CheckDevice, Publish, PhaseStep
  <1>2. ASSUME NEW d \in Devices, NEW n \in Numbers, ServerAccept(d, n)
        PROVE  /\ PhaseStep(d, n, "asked", "sent")
               /\ \A m \in 1..(n - 1) : phase[d][m] \in {"lost", "done", "answered"}
               /\ redis' = redis
    BY <1>2 DEF ServerAccept, Advance, PhaseStep
  <1>3. ASSUME NEW d \in Devices, NEW n \in Numbers, PileStart(d, n)
        PROVE  PhaseStep(d, n, "sent", "started") /\ redis' = redis
    BY <1>3 DEF PileStart, Advance, PhaseStep
  <1>4. ASSUME NEW d \in Devices, NEW n \in Numbers, PileComplete(d, n)
        PROVE  /\ PhaseStep(d, n, "started", "done")
               /\ redis' = [redis EXCEPT ![d] = n]
    BY <1>4 DEF PileComplete, Advance, PhaseStep
  <1>5. ASSUME NEW d \in Devices, NEW n \in Numbers, ServerRespond(d, n)
        PROVE  PhaseStep(d, n, "done", "answered") /\ redis' = redis
    BY <1>5 DEF ServerRespond, Advance, PhaseStep
  <1>6. CASE Startup \/ Ui \/ Handler
    BY <1>6 DEF Startup, InitClient, SubMsg, LoadDevices, LoadLatest,
                Ui, UiAddDevice, UiUpdateSelfCheck, Handler, RecvNotice, RecvResult,
                getResultFromRedis, saveResultToMysql, ShowProgress, ShowResult, Ack
  <1>7. CASE \/ ChannelError \/ Crash \/ LinkDrop \/ UNCHANGED vars
             \/ \E q \in Queues : Push(q)
             \/ \E q \in Queues, e \in Devices : ServerNoise(q, e)
    BY <1>7 DEF ChannelError, Crash, LinkDrop, Push, ServerNoise, vars
  <1> QED BY <1>1, <1>2, <1>3, <1>4, <1>5, <1>6, <1>7 DEF Next, Server

\* The numbers of checks are numbers.
LEMMA NumberFacts ==
  /\ MaxChecks \in Nat
  /\ \A n \in Numbers : n \in Nat /\ n >= 1 /\ n <= MaxChecks
BY SelfCheckAssumption DEF SelfCheckAssumption, Numbers

\* What one step of a check leaves to prove.
LEMMA PhaseStepOrder ==
  ASSUME TypeInv, InOrder, RedisIsNewest,
         NEW d \in Devices, NEW n \in Numbers, NEW from \in Phases, NEW to \in Phases,
         PhaseStep(d, n, from, to),
         to \in {"sent", "started", "done", "answered"} =>
           \A m \in 1..(n - 1) : phase[d][m] \in {"lost", "done", "answered"},
         from \notin {"lost", "done", "answered"} \/ to \in {"lost", "done", "answered"},
         IF to = "done" THEN redis' = [redis EXCEPT ![d] = n] ELSE redis' = redis,
         to = "done" => from = "started",
         to = "answered" => from = "done",
         from \notin {"lost", "answered"}
  PROVE  InOrder' /\ RedisIsNewest'
<1> USE NumberFacts
<1>1. /\ phase'[d][n] = to /\ phase[d][n] = from
      /\ \A e \in Devices, m \in Numbers :
           ~(e = d /\ m = n) => phase'[e][m] = phase[e][m]
  BY DEF PhaseStep, TypeInv, TypeOK
<1>2. InOrder'
  <2> SUFFICES ASSUME NEW e \in Devices, NEW m \in Numbers, NEW k \in Numbers,
                      m < k, phase'[e][k] \in {"sent", "started", "done", "answered"}
               PROVE  phase'[e][m] \in {"lost", "done", "answered"}
    BY DEF InOrder
  <2>1. CASE e = d /\ k = n
    <3>1. m \in 1..(n - 1)
      BY <2>1
    <3>2. phase'[e][m] = phase[e][m] /\ phase[d][m] \in {"lost", "done", "answered"}
      BY <1>1, <2>1, <3>1
    <3> QED BY <2>1, <3>2
  <2>2. CASE ~(e = d /\ k = n)
    <3>1. phase[e][m] \in {"lost", "done", "answered"}
      BY <1>1, <2>2 DEF InOrder
    <3> QED BY <1>1, <3>1
  <2> QED BY <2>1, <2>2
<1>3. RedisIsNewest'
  <2> SUFFICES ASSUME NEW e \in Devices, NEW k \in Numbers,
                      phase'[e][k] \in {"done", "answered"}
               PROVE  redis'[e] >= k
    BY DEF RedisIsNewest
  <2>1. CASE to # "done"
    BY <1>1, <2>1 DEF RedisIsNewest
  <2>2. CASE to = "done" /\ e # d
    <3>1. redis'[e] = redis[e]
      BY <2>2 DEF TypeInv, TypeOK
    <3> QED BY <1>1, <2>2, <3>1 DEF RedisIsNewest
  <2>3. CASE to = "done" /\ e = d
    <3>1. redis'[d] = n
      BY <2>3 DEF TypeInv, TypeOK
    <3>2. CASE k <= n
      BY <2>3, <3>1, <3>2
    <3>3. CASE n < k
      <4>1. phase[d][k] \in {"done", "answered"}
        BY <1>1, <2>3, <3>3
      <4>2. phase[d][n] \in {"lost", "done", "answered"}
        BY <3>3, <4>1 DEF InOrder
      <4> QED BY <1>1, <2>3, <4>2
    <3> QED BY <3>2, <3>3
  <2> QED BY <2>1, <2>2, <2>3
<1> QED BY <1>2, <1>3

\* Every step keeps the order of the checks of a pile.
LEMMA NextOrder ==
  ASSUME "abort" \notin Faults, TypeInv, InOrder, RedisIsNewest, [Next]_vars
  PROVE  InOrder' /\ RedisIsNewest'
<1> USE NumberFacts
<1>1. CASE phase' = phase /\ redis' = redis
  BY <1>1 DEF InOrder, RedisIsNewest
<1>2. ASSUME NEW d \in Devices, NEW n \in Numbers, NEW to \in {"asked", "lost"},
             PhaseStep(d, n, "none", to), redis' = redis
      PROVE  InOrder' /\ RedisIsNewest'
  BY <1>2, PhaseStepOrder DEF Phases
<1>3. ASSUME NEW d \in Devices, NEW n \in Numbers,
             PhaseStep(d, n, "asked", "sent"), redis' = redis,
             \A m \in 1..(n - 1) : phase[d][m] \in {"lost", "done", "answered"}
      PROVE  InOrder' /\ RedisIsNewest'
  BY <1>3, PhaseStepOrder DEF Phases
<1>4. ASSUME NEW d \in Devices, NEW n \in Numbers,
             \/ PhaseStep(d, n, "sent", "started") /\ redis' = redis
             \/ /\ PhaseStep(d, n, "started", "done")
                /\ redis' = [redis EXCEPT ![d] = n]
             \/ PhaseStep(d, n, "done", "answered") /\ redis' = redis
      PROVE  InOrder' /\ RedisIsNewest'
  <2>1. phase[d][n] \in {"sent", "started", "done", "answered"}
    BY <1>4 DEF PhaseStep
  <2>2. ASSUME NEW m \in 1..(n - 1)
        PROVE  phase[d][m] \in {"lost", "done", "answered"}
    <3>1. m \in Numbers /\ m < n
      BY DEF Numbers
    <3> QED BY <2>1, <3>1 DEF InOrder
  <2> QED BY <1>4, <2>2, PhaseStepOrder DEF Phases
<1> QED BY <1>1, <1>2, <1>3, <1>4, CheckSteps

\* What the insert adds to the records.
LEMMA SavedRecords ==
  ASSUME TypeInv, saveResultToMysql
  PROVE  /\ Msg.dev \in Devices /\ Msg.n \in Numbers
         /\ \A d \in Devices : d # Msg.dev => records'[d] = records[d]
         /\ \A i \in DOMAIN records'[Msg.dev] :
              \/ /\ i \in DOMAIN records[Msg.dev]
                 /\ records'[Msg.dev][i] = records[Msg.dev][i]
              \/ records'[Msg.dev][i] = [n |-> Msg.n, source |-> snapshot]
<1>1. Msg.dev \in Devices /\ Msg.n \in Numbers
  BY MsgType DEF TypeInv, HandlerOK, saveResultToMysql
<1> DEFINE dev == Msg.dev
           r   == [n |-> Msg.n, source |-> snapshot]
<1>2. PICK lost \in Nat, ok \in BOOLEAN : SaveAttempt(lost, ok)
  BY DEF saveResultToMysql
<1> DEFINE k   == IF ok THEN lost + 1 ELSE lost
           new == Copies(r, k)
           old == records[dev]
<1>3. r \in Records /\ k \in Nat
  BY <1>1 DEF Records, TypeInv, TypeOK
<1>4. records' = [records EXCEPT ![dev] = old \o new]
  BY <1>2 DEF SaveAttempt
<1> HIDE DEF k, r
<1>5. new \in Seq(Records) /\ DOMAIN new = 1..k /\ \A j \in 1..k : new[j] = r
  BY <1>3 DEF Copies
<1>6. old \in Seq(Records)
  BY <1>1 DEF TypeInv, TypeOK
<1>7. records'[dev] = old \o new /\ \A d \in Devices \ {dev} : records'[d] = records[d]
  BY <1>1, <1>4 DEF TypeInv, TypeOK
<1> HIDE DEF new, old, dev
<1>8. ASSUME NEW i \in DOMAIN (old \o new)
      PROVE  \/ i \in DOMAIN old /\ (old \o new)[i] = old[i]
             \/ (old \o new)[i] = r
  <2>1. \/ i \in DOMAIN old /\ (old \o new)[i] = old[i]
        \/ \E j \in DOMAIN new : (old \o new)[i] = new[j]
    BY <1>5, <1>6, ConcatKeeps
  <2> QED BY <1>5, <2>1
<1>9. \A i \in DOMAIN records'[dev] :
        \/ i \in DOMAIN old /\ records'[dev][i] = old[i]
        \/ records'[dev][i] = r
  BY <1>7, <1>8
<1> QED BY <1>1, <1>7, <1>9 DEF dev, old, r

\* Every step keeps the invariant.
LEMMA NextAgeInv ==
  ASSUME "abort" \notin Faults, TypeInv, ResultIsAnswer, AgeInv, [Next]_vars
  PROVE  AgeInv'
<1> USE NumberFacts
<1> USE DEF startupVars, consumerVars, brokerVars, serverVars, storeVars
<1>1. InOrder' /\ RedisIsNewest'
  BY NextOrder DEF AgeInv
<1>2. (pc = "insert" => snapshot >= Msg.n)'
  <2>1. CASE Others
    <3>1. snapshot' = snapshot
      BY <2>1 DEF Others, Startup, InitClient, SubMsg, Subscribe, LoadDevices,
              LoadLatest, Ui, UiAddDevice, UiUpdateSelfCheck, CheckDevice, Publish,
              Push, Server, ServerAccept, PileStart, PileComplete, ServerRespond,
              Advance, ServerNoise, LinkDrop, vars
    <3> QED BY <2>1, <3>1, OthersFrame DEF TypeInv, HandlerOK, AgeInv
  <2>2. CASE getResultFromRedis
    <3> SUFFICES ASSUME pc' = "insert" PROVE snapshot' >= Msg'.n
      OBVIOUS
    <3>1. Msg' = Msg /\ snapshot' = redis[Msg.dev] /\ pc = "read"
      BY <2>2 DEF getResultFromRedis, GiveUp, Msg
    <3>2. inbox # <<>> /\ Msg.kind = "RESULT"
      BY <3>1 DEF TypeInv, HandlerOK
    <3>3. /\ Msg.dev \in Devices /\ Msg.n \in Numbers
          /\ Head(inbox).queue \in Queues
          /\ Head(inbox).tag \in DOMAIN queue[Head(inbox).queue]
      BY <3>2, MsgType
    <3>4. phase[Msg.dev][Msg.n] = "answered"
      BY <3>2, <3>3 DEF Msg, ResultIsAnswer
    <3> QED BY <3>1, <3>3, <3>4 DEF AgeInv, RedisIsNewest
  <2>3. pc' # "insert"
        \/ ~(\/ RecvNotice \/ RecvResult \/ saveResultToMysql \/ ShowProgress
             \/ ShowResult \/ Ack \/ ChannelError \/ Crash)
    BY DEF RecvNotice, RecvResult, GiveUp, saveResultToMysql, SaveAttempt,
           ShowProgress, ShowResult, Ack, ChannelError, Crash
  <2> QED BY <2>1, <2>2, <2>3, NextSplit DEF Handler
<1>3. RecordNotOlderThanResult'
  <2>1. CASE saveResultToMysql
    <3>1. snapshot >= Msg.n
      BY <2>1 DEF AgeInv, saveResultToMysql
    <3> QED BY <2>1, <3>1, SavedRecords DEF AgeInv, RecordNotOlderThanResult
  <2>2. records' = records \/ saveResultToMysql
    BY NextSplit, OthersFrame
       DEF Handler, RecvNotice, RecvResult, getResultFromRedis, ShowProgress,
           ShowResult, Ack, ChannelError, Crash
  <2> QED BY <2>1, <2>2 DEF AgeInv, RecordNotOlderThanResult
<1> QED BY <1>1, <1>2, <1>3 DEF AgeInv

LEMMA SpecAgeInv ==
  ASSUME "abort" \notin Faults
  PROVE  Spec => []AgeInv
<1>1. Init => AgeInv
  <2> SUFFICES ASSUME Init PROVE AgeInv
    OBVIOUS
  <2>1. /\ \A d \in Devices, n \in Numbers : phase[d][n] = "none"
        /\ \A d \in Devices : DOMAIN records[d] = {}
        /\ pc = "idle"
    BY DEF Init
  <2> QED BY <2>1 DEF AgeInv, InOrder, RedisIsNewest, RecordNotOlderThanResult
<1>2. TypeInv /\ LedgerInv /\ AgeInv /\ [Next]_vars => AgeInv'
  BY NextAgeInv DEF LedgerInv
<1> QED BY <1>1, <1>2, SpecTypeInv, SpecLedgerInv, PTL DEF Spec

(* The hashes saved with a result are never those of an earlier check, if   *)
(* DataServer answers only checks that were run: a pile runs its checks in  *)
(* their order, and the hashes are there before the result is.              *)
THEOREM SpecRecordNotOlder ==
  ASSUME "abort" \notin Faults
  PROVE  Spec => []RecordNotOlderThanResult
<1>1. AgeInv => RecordNotOlderThanResult
  BY DEF AgeInv
<1> QED BY <1>1, SpecAgeInv, PTL

-----------------------------------------------------------------------------
(* How often a result is recorded.                                          *)

IsResult(q, t, d, n) ==
  t \in DOMAIN queue[q] /\ queue[q][t] = Message(d, n, "RESULT")

\* DataServer answers a check once.
OneResult ==
  \A d \in Devices, n \in Numbers, p, q \in Queues :
    \A s \in DOMAIN queue[p], t \in DOMAIN queue[q] :
      IsResult(p, s, d, n) /\ IsResult(q, t, d, n) => p = q /\ s = t

\* While the connection is up, what is in the inbox is what the broker waits
\* to be acknowledged, each message once.
LinkInv ==
  /\ linkUp => connected
  /\ ~connected => inbox = <<>>
  /\ ~linkUp => \A q \in Queues : unacked[q] = {}
  /\ linkUp => \A i \in DOMAIN inbox : inbox[i].tag \in unacked[inbox[i].queue]
  /\ \A i, j \in DOMAIN inbox : inbox[i] = inbox[j] => i = j

\* The result may still be delivered, and recvMsg may still insert it.
ToCome(d, n) ==
  \/ phase[d][n] # "answered"
  \/ \E q \in Queues : \E t \in Ready(q) : IsResult(q, t, d, n)

AtClient(d, n) ==
  \E i \in DOMAIN inbox :
    /\ IsResult(inbox[i].queue, inbox[i].tag, d, n)
    /\ i = 1 => pc \in {"idle", "read", "insert"}

Of(s, n)     == {i \in DOMAIN s : s[i].n = n}
Count(d, n)  == Cardinality(Of(records[d], n))
One(b)       == IF b THEN 1 ELSE 0

\* Whatever can still be inserted counts as if it were.
CountInv ==
  \A d \in Devices, n \in Numbers :
    Count(d, n) + One(ToCome(d, n)) + One(AtClient(d, n)) <= 1 + faults

\* All together.
OnceInv == OneResult /\ LinkInv /\ CountInv

\* What a message of a queue is in the next state it was before, unless it is
\* the one the step sends.
LEMMA NewResult ==
  ASSUME TypeInv, [Next]_vars, NEW d \in Devices, NEW n \in Numbers,
         NEW q \in Queues, NEW t \in DOMAIN queue'[q],
         IsResult(q, t, d, n)', ~IsResult(q, t, d, n)
  PROVE  /\ ServerRespond(d, n) /\ q = "resp"
         /\ t = Len(queue["resp"]) + 1
  <1> USE DEF startupVars, consumerVars, brokerVars, serverVars, storeVars
  <1>1. queue'[q][t] = Message(d, n, "RESULT")
    BY DEF IsResult, Message
  <1>2. \A p \in Queues : queue[p] \in Seq(Messages)
    BY DEF TypeInv, TypeOK
  <1>3. \/ \E e \in Devices, m \in Numbers : ServerRespond(e, m)
        \/ \E e \in Devices, m \in Numbers, kind \in Notices :
             Send("notice", Message(e, m, kind))
        \/ \E p \in Queues, e \in Devices : Send(p, Message(e, 0, "OTHER"))
        \/ UNCHANGED queue
    BY QueueSteps
  <1>4. ASSUME NEW p \in Queues, NEW m \in Messages, Send(p, m)
        PROVE  /\ m = Message(d, n, "RESULT")
               /\ q = p /\ t = Len(queue[p]) + 1
    <2>1. queue'[q] = IF q = p THEN Append(queue[p], m) ELSE queue[q]
      BY <1>4 DEF Send, TypeInv, TypeOK
    <2>2. q = p
      BY <1>1, <2>1 DEF IsResult
    <2>3. queue'[q] = Append(queue[p], m)
      BY <2>1, <2>2
    <2>4. /\ DOMAIN queue'[q] = 1..(Len(queue[p]) + 1)
          /\ \A i \in 1..Len(queue[p]) : queue'[q][i] = queue[p][i]
          /\ queue'[q][Len(queue[p]) + 1] = m
          /\ Len(queue[p]) \in Nat /\ DOMAIN queue[p] = 1..Len(queue[p])
      BY <1>2, <2>3, AppendProperties
    <2>5. t = Len(queue[p]) + 1
      BY <1>1, <2>2, <2>4 DEF IsResult
    <2> QED BY <1>1, <2>2, <2>4, <2>5
  <1>5. ASSUME NEW e \in Devices, NEW m \in Numbers, ServerRespond(e, m)
        PROVE  /\ ServerRespond(d, n) /\ q = "resp"
               /\ t = Len(queue["resp"]) + 1
    <2>1. Message(e, m, "RESULT") \in Messages /\ "resp" \in Queues
      BY DEF Message, Messages, Queues
    <2>2. Send("resp", Message(e, m, "RESULT"))
      BY <1>5 DEF ServerRespond
    <2>3. /\ Message(e, m, "RESULT") = Message(d, n, "RESULT")
          /\ q = "resp" /\ t = Len(queue["resp"]) + 1
      BY <1>4, <2>1, <2>2
    <2>4. e = d /\ m = n
      BY <2>3 DEF Message
    <2> QED BY <1>5, <2>3, <2>4
  <1>6. ASSUME NEW e \in Devices, NEW m \in Numbers, NEW kind \in Notices,
               Send("notice", Message(e, m, kind))
        PROVE  FALSE
    <2>1. Message(e, m, kind) \in Messages /\ "notice" \in Queues
      BY DEF Message, Messages, Queues
    <2>2. Message(e, m, kind) = Message(d, n, "RESULT")
      BY <1>4, <1>6, <2>1
    <2>3. kind = "RESULT"
      BY <2>2 DEF Message
    <2> QED BY <2>3 DEF Notices
  <1>7. ASSUME NEW p \in Queues, NEW e \in Devices, Send(p, Message(e, 0, "OTHER"))
        PROVE  FALSE
    <2>1. Message(e, 0, "OTHER") \in Messages
      BY DEF Message, Messages
    <2>2. Message(e, 0, "OTHER") = Message(d, n, "RESULT")
      BY <1>4, <1>7, <2>1
    <2> QED BY <2>2 DEF Message
  <1>8. ~UNCHANGED queue
    BY DEF IsResult, Message
  <1> QED BY <1>3, <1>5, <1>6, <1>7, <1>8

\* Only ServerRespond sends a result, and never for an answered check.
LEMMA NextOneResult ==
  ASSUME TypeInv, ResultIsAnswer, OneResult, [Next]_vars
  PROVE  OneResult'
  <1> SUFFICES ASSUME NEW d \in Devices, NEW n \in Numbers,
                      NEW p \in Queues, NEW q \in Queues,
                      NEW s \in DOMAIN queue'[p], NEW t \in DOMAIN queue'[q],
                      IsResult(p, s, d, n)', IsResult(q, t, d, n)'
               PROVE  p = q /\ s = t
    BY DEF OneResult
  <1>1. ASSUME NEW o \in Queues, NEW u, IsResult(o, u, d, n)
        PROVE  phase[d][n] = "answered" /\ ~ServerRespond(d, n)
    <2>1. phase[d][n] = "answered"
      BY <1>1 DEF IsResult, ResultIsAnswer, Message
    <2> QED BY <2>1 DEF ServerRespond, Advance
  <1>2. CASE IsResult(p, s, d, n) /\ IsResult(q, t, d, n)
    BY <1>2 DEF OneResult, IsResult
  <1>3. CASE ~IsResult(p, s, d, n) /\ ~IsResult(q, t, d, n)
    BY <1>3, NewResult
  <1>4. CASE IsResult(p, s, d, n) /\ ~IsResult(q, t, d, n)
    BY <1>1, <1>4, NewResult
  <1>5. CASE ~IsResult(p, s, d, n) /\ IsResult(q, t, d, n)
    BY <1>1, <1>5, NewResult
  <1> QED BY <1>2, <1>3, <1>4, <1>5

\* Which steps change the connection, the inbox, or what the broker has pushed.
LEMMA LinkSteps ==
  ASSUME TypeInv, [Next]_vars
  PROVE  \/ UNCHANGED <<connected, linkUp, inbox, unacked, acked>>
         \/ /\ \E ok \in BOOLEAN : Connect(ok)
            /\ UNCHANGED <<inbox, acked>>
         \/ Ack \/ ChannelError \/ LinkDrop \/ Crash
         \/ \E q \in Queues : Push(q)
  <1> USE DEF startupVars, consumerVars, brokerVars, serverVars, storeVars
  <1>1. CASE Handler
    BY <1>1 DEF Handler, RecvNotice, RecvResult, getResultFromRedis, saveResultToMysql,
                ShowProgress, ShowResult
  <1>2. CASE Startup \/ Ui
    BY <1>2 DEF Startup, Ui, InitClient, SubMsg, Subscribe, LoadDevices, LoadLatest,
                UiAddDevice, UiUpdateSelfCheck
  <1>3. CASE \E d \in Devices, n \in Numbers : CheckDevice(d, n)
    BY <1>3 DEF CheckDevice, Publish
  <1>4. CASE \/ Server \/ UNCHANGED vars
             \/ \E q \in Queues, d \in Devices : ServerNoise(q, d)
    BY <1>4 DEF Server, ServerAccept, PileStart, PileComplete, ServerRespond, Advance,
                ServerNoise, vars
  <1> QED BY <1>1, <1>2, <1>3, <1>4 DEF Next

\* The inbox after a push, and after a message was dealt with.
LEMMA InboxAppend ==
  ASSUME TypeInv, NEW at \in Deliveries, inbox' = Append(inbox, at)
  PROVE  \A i \in DOMAIN inbox' :
           \/ i \in DOMAIN inbox /\ inbox'[i] = inbox[i]
           \/ i = Len(inbox) + 1 /\ i \notin DOMAIN inbox /\ inbox'[i] = at
  BY AppendProperties DEF TypeInv, TypeOK

\* The same after a message was dealt with.
LEMMA InboxTail ==
  ASSUME TypeInv, inbox # <<>>, inbox' = Tail(inbox)
  PROVE  /\ Head(inbox) = inbox[1] /\ 1 \in DOMAIN inbox
         /\ \A i \in DOMAIN inbox' :
              i \in Nat \ {0} /\ i + 1 \in DOMAIN inbox /\ inbox'[i] = inbox[i + 1]
  <1>1. inbox \in Seq(Deliveries)
    BY DEF TypeInv, TypeOK
  <1> QED BY <1>1, HeadTailProperties

\* A delivery of the inbox names a message of a queue.
LEMMA InboxParts ==
  ASSUME TypeInv, NEW i \in DOMAIN inbox
  PROVE  /\ inbox[i].queue \in Queues /\ inbox[i].tag \in Nat
         /\ inbox[i] = [queue |-> inbox[i].queue, tag |-> inbox[i].tag]
         /\ inbox[i].tag \in DOMAIN queue[inbox[i].queue]
  <1>1. inbox[i] \in Deliveries
    BY DEF TypeInv, TypeOK
  <1> QED BY <1>1 DEF Deliveries, TypeInv, DeliveriesOK

\* Push and Ack keep inbox and broker in step; the other steps empty both.
LEMMA NextLinkInv == TypeInv /\ LinkInv /\ [Next]_vars => LinkInv'
  <1> SUFFICES ASSUME TypeInv, LinkInv, [Next]_vars PROVE LinkInv'
    OBVIOUS
  <1> USE DEF startupVars, consumerVars, brokerVars, serverVars, storeVars
  <1>0. unacked \in [Queues -> SUBSET Nat]
    BY DEF TypeInv, TypeOK
  <1>1. CASE UNCHANGED <<connected, linkUp, inbox, unacked>>
    BY <1>1 DEF LinkInv
  <1>2. CASE (\E ok \in BOOLEAN : Connect(ok)) /\ UNCHANGED inbox
    <2>1. CASE UNCHANGED <<connected, linkUp, unacked>>
      BY <1>1, <1>2, <2>1
    <2>2. CASE /\ ~connected /\ connected' /\ linkUp'
      <3>1. inbox' = <<>> /\ DOMAIN inbox' = {}
        BY <1>2, <2>2 DEF LinkInv
      <3> QED BY <2>2, <3>1 DEF LinkInv
    <2> QED BY <1>2, <2>1, <2>2 DEF Connect
  <1>3. CASE ChannelError
    <2>1. DOMAIN inbox' = {} /\ inbox' = <<>>
      BY <1>3 DEF ChannelError
    <2> QED BY <1>3, <2>1 DEF ChannelError, LinkInv
  <1>4. CASE Crash
    <2>1. DOMAIN inbox' = {} /\ inbox' = <<>> /\ ~linkUp'
          /\ \A q \in Queues : unacked'[q] = {}
      BY <1>4 DEF Crash
    <2> QED BY <2>1 DEF LinkInv
  <1>5. CASE LinkDrop
    <2>1. inbox' = inbox /\ connected' = connected /\ ~linkUp'
          /\ \A q \in Queues : unacked'[q] = {}
      BY <1>5 DEF LinkDrop
    <2> QED BY <2>1 DEF LinkInv
  <1>6. ASSUME NEW q \in Queues, Push(q) PROVE LinkInv'
    <2>1. PICK t \in Ready(q) :
            /\ inbox' = Append(inbox, [queue |-> q, tag |-> t])
            /\ unacked' = [unacked EXCEPT ![q] = @ \cup {t}]
      BY <1>6 DEF Push
    <2> DEFINE at == [queue |-> q, tag |-> t]
    <2>2. at \in Deliveries /\ t \in Nat /\ t \notin unacked[q]
      BY DEF Ready, TypeInv, TypeOK, Deliveries
    <2>3. \A i \in DOMAIN inbox' :
            \/ i \in DOMAIN inbox /\ inbox'[i] = inbox[i]
            \/ i = Len(inbox) + 1 /\ i \notin DOMAIN inbox /\ inbox'[i] = at
      BY <2>1, <2>2, InboxAppend
    <2>4. linkUp /\ linkUp' /\ connected /\ connected'
      BY <1>6 DEF Push, LinkInv
    <2>5. \A p \in Queues : unacked[p] \subseteq unacked'[p]
      BY <1>0, <2>1
    <2>6. t \in unacked'[q]
      BY <1>0, <2>1
    <2>7. at.queue = q /\ at.tag = t
      OBVIOUS
    <2> HIDE DEF at
    <2>8. \A i \in DOMAIN inbox :
            inbox[i].queue \in Queues /\ inbox[i].tag \in unacked[inbox[i].queue]
      BY <2>4, InboxParts DEF LinkInv
    <2>9. \A i \in DOMAIN inbox' : inbox'[i].tag \in unacked'[inbox'[i].queue]
      BY <2>3, <2>5, <2>6, <2>7, <2>8
    <2>10. \A i \in DOMAIN inbox : inbox[i] # at
      BY <2>2, <2>7, <2>8
    <2>11. \A i, j \in DOMAIN inbox' : inbox'[i] = inbox'[j] => i = j
      BY <2>3, <2>10 DEF LinkInv
    <2> QED BY <2>4, <2>9, <2>11 DEF LinkInv
  <1>7. CASE Ack
    <2>0. inbox # <<>> /\ inbox' = Tail(inbox)
      BY <1>7 DEF Ack, TypeInv, HandlerOK
    <2> DEFINE at == Head(inbox)
    <2>1. /\ at = inbox[1] /\ 1 \in DOMAIN inbox
          /\ \A i \in DOMAIN inbox' :
               i \in Nat \ {0} /\ i + 1 \in DOMAIN inbox /\ inbox'[i] = inbox[i + 1]
      BY <2>0, InboxTail
    <2>2. \A i, j \in DOMAIN inbox' : inbox'[i] = inbox'[j] => i = j
      BY <2>1 DEF LinkInv
    <2>3. connected' = connected /\ linkUp' = linkUp /\ connected
      BY <1>7, <2>0 DEF Ack, LinkInv
    <2>4. CASE ~linkUp
      BY <1>7, <2>2, <2>3, <2>4 DEF Ack, LinkInv
    <2>5. CASE linkUp
      <3>1. unacked' = [unacked EXCEPT ![at.queue] = @ \ {at.tag}]
        BY <1>7, <2>5 DEF Ack
      <3> HIDE DEF at
      <3>2. ASSUME NEW i \in DOMAIN inbox'
            PROVE  inbox'[i].tag \in unacked'[inbox'[i].queue]
        <4>1. /\ i + 1 \in DOMAIN inbox /\ i + 1 # 1
              /\ inbox'[i] = inbox[i + 1]
          BY <2>1
        <4>2. inbox[i + 1] # at
          BY <2>1, <4>1 DEF LinkInv
        <4>3. ~(inbox[i + 1].queue = at.queue /\ inbox[i + 1].tag = at.tag)
          BY <2>1, <4>1, <4>2, InboxParts
        <4>4. /\ inbox[i + 1].queue \in Queues
              /\ inbox[i + 1].tag \in unacked[inbox[i + 1].queue]
          BY <2>5, <4>1, InboxParts DEF LinkInv
        <4> QED BY <1>0, <3>1, <4>1, <4>3, <4>4
      <3> QED BY <2>2, <2>3, <2>5, <3>2 DEF LinkInv
    <2> QED BY <2>4, <2>5
  <1> QED BY <1>1, <1>2, <1>3, <1>4, <1>5, <1>6, <1>7, LinkSteps

\* What was pushed stays so, unless the connection ends.
LEMMA PushedStays ==
  ASSUME TypeInv, LinkInv, [Next]_vars, ~LinkDrop, ~Crash
  PROVE  \A q \in Queues : unacked[q] \cup acked[q] \subseteq unacked'[q] \cup acked'[q]
  <1> USE DEF startupVars, consumerVars, brokerVars, serverVars, storeVars
  <1>0. unacked \in [Queues -> SUBSET Nat] /\ acked \in [Queues -> SUBSET Nat]
    BY DEF TypeInv, TypeOK
  <1>1. CASE UNCHANGED <<unacked, acked>>
    BY <1>1
  <1>2. CASE (\E ok \in BOOLEAN : Connect(ok)) /\ UNCHANGED acked
    <2>1. CASE unacked' = unacked
      BY <1>1, <1>2, <2>1
    <2>2. CASE ~connected
      BY <1>2, <2>2 DEF LinkInv
    <2> QED BY <1>2, <2>1, <2>2 DEF Connect
  <1>3. CASE ChannelError
    BY <1>1, <1>3 DEF ChannelError
  <1>4. CASE Ack
    BY <1>0, <1>4 DEF Ack
  <1>5. ASSUME NEW q \in Queues, Push(q)
        PROVE  \A p \in Queues : unacked[p] \cup acked[p] \subseteq unacked'[p] \cup acked'[p]
    BY <1>0, <1>5 DEF Push
  <1> QED BY <1>1, <1>2, <1>3, <1>4, <1>5, LinkSteps

\* A result comes again only with the end of a connection.
LEMMA ToComeStep ==
  ASSUME TypeInv, LinkInv, [Next]_vars, ~LinkDrop, ~Crash,
         NEW d \in Devices, NEW n \in Numbers, ToCome(d, n)'
  PROVE  ToCome(d, n)
  <1>1. CASE phase'[d][n] # "answered"
    BY <1>1, AnswersStay DEF ToCome
  <1>2. CASE \E q \in Queues : \E t \in Ready(q)' : IsResult(q, t, d, n)'
    <2>0. PICK q \in Queues : \E t \in Ready(q)' : IsResult(q, t, d, n)'
      BY <1>2
    <2>1. PICK t \in Ready(q)' : IsResult(q, t, d, n)'
      BY <2>0
    <2>2. t \in DOMAIN queue'[q]
      BY <2>1 DEF IsResult
    <2>3. CASE ~IsResult(q, t, d, n)
      <3>1. ServerRespond(d, n)
        BY <2>1, <2>2, <2>3, NewResult
      <3> QED BY <3>1 DEF ServerRespond, Advance, ToCome
    <2>4. CASE IsResult(q, t, d, n)
      <3>1. t \in Ready(q)
        BY <2>1, <2>4, PushedStays DEF Ready, IsResult
      <3> QED BY <2>4, <3>1 DEF ToCome
    <2> QED BY <2>3, <2>4
  <1> QED BY <1>1, <1>2 DEF ToCome

\* A result comes to the client by a delivery, after which it has not to come
\* any more.
LEMMA PushTakes ==
  ASSUME TypeInv, ResultIsAnswer, OneResult, NEW q \in Queues, Push(q),
         NEW d \in Devices, NEW n \in Numbers, AtClient(d, n)', ~AtClient(d, n)
  PROVE  ToCome(d, n) /\ ~ToCome(d, n)'
  <1> USE DEF startupVars, consumerVars, brokerVars, serverVars, storeVars
  <1>1. PICK t \in Ready(q) :
          /\ inbox' = Append(inbox, [queue |-> q, tag |-> t])
          /\ unacked' = [unacked EXCEPT ![q] = @ \cup {t}]
    BY DEF Push
  <1>2. UNCHANGED <<pc, queue, acked, phase>>
    BY DEF Push
  <1> DEFINE at == [queue |-> q, tag |-> t]
  <1>3. at \in Deliveries /\ at.queue = q /\ at.tag = t
    BY DEF Ready, TypeInv, TypeOK, Deliveries
  <1>4. \A i \in DOMAIN inbox' :
          \/ i \in DOMAIN inbox /\ inbox'[i] = inbox[i]
          \/ i = Len(inbox) + 1 /\ i \notin DOMAIN inbox /\ inbox'[i] = at
    BY <1>1, <1>3, InboxAppend
  <1> HIDE DEF at
  <1>5. PICK i \in DOMAIN inbox' :
          /\ IsResult(inbox'[i].queue, inbox'[i].tag, d, n)
          /\ i = 1 => pc \in {"idle", "read", "insert"}
    BY <1>2 DEF AtClient, IsResult, Message
  <1>6. inbox'[i] = at
    BY <1>4, <1>5 DEF AtClient
  <1>7. IsResult(q, t, d, n)
    BY <1>3, <1>5, <1>6
  <1>8. ToCome(d, n)
    BY <1>7 DEF ToCome
  <1>9. phase'[d][n] = "answered"
    BY <1>2, <1>7 DEF IsResult, ResultIsAnswer, Message
  <1>10. ASSUME NEW p \in Queues, NEW s \in Ready(p)', IsResult(p, s, d, n)'
         PROVE  FALSE
    <2>1. IsResult(p, s, d, n)
      BY <1>2, <1>10 DEF IsResult, Message
    <2>2. p = q /\ s = t
      BY <1>7, <2>1 DEF OneResult, IsResult
    <2>3. t \in unacked'[q]
      BY <1>1 DEF TypeInv, TypeOK
    <2> QED BY <1>10, <2>2, <2>3 DEF Ready
  <1> QED BY <1>8, <1>9, <1>10 DEF ToCome

\* Nothing else brings one.
LEMMA AtClientStep ==
  ASSUME TypeInv, [Next]_vars, \A q \in Queues : ~Push(q),
         NEW d \in Devices, NEW n \in Numbers, AtClient(d, n)'
  PROVE  AtClient(d, n)
  <1> USE DEF startupVars, consumerVars, brokerVars, serverVars, storeVars
  <1>1. PICK i \in DOMAIN inbox' :
          /\ queue'[inbox'[i].queue][inbox'[i].tag] = Message(d, n, "RESULT")
          /\ i = 1 => pc' \in {"idle", "read", "insert"}
    BY DEF AtClient, IsResult, Message
  <1>2. ASSUME NEW j \in DOMAIN inbox, inbox'[i] = inbox[j]
        PROVE  IsResult(inbox[j].queue, inbox[j].tag, d, n)
    <2>1. /\ inbox[j].queue \in Queues
          /\ inbox[j].tag \in DOMAIN queue[inbox[j].queue]
      BY InboxParts
    <2>2. queue'[inbox[j].queue][inbox[j].tag] = queue[inbox[j].queue][inbox[j].tag]
      BY <2>1, QueueGrows
    <2> QED BY <1>1, <1>2, <2>1, <2>2 DEF IsResult, Message
  <1>3. ASSUME inbox' = inbox,
               pc' \in {"idle", "read", "insert"} => pc \in {"idle", "read", "insert"}
        PROVE  AtClient(d, n)
    BY <1>1, <1>2, <1>3 DEF AtClient
  <1>4. CASE Ack
    <2>1. inbox # <<>> /\ inbox' = Tail(inbox)
      BY <1>4 DEF Ack, TypeInv, HandlerOK
    <2>2. i \in Nat \ {0} /\ i + 1 \in DOMAIN inbox /\ inbox'[i] = inbox[i + 1]
      BY <2>1, InboxTail
    <2>3. i + 1 # 1
      BY <2>2
    <2> QED BY <1>2, <2>2, <2>3 DEF AtClient
  <1>5. CASE ChannelError \/ Crash
    <2>1. DOMAIN inbox' = {}
      BY <1>5 DEF ChannelError, Crash
    <2> QED BY <1>1, <2>1
  <1>6. CASE \/ RecvNotice \/ RecvResult \/ getResultFromRedis \/ saveResultToMysql
             \/ ShowProgress \/ ShowResult
    BY <1>3, <1>6 DEF RecvNotice, RecvResult, getResultFromRedis, GiveUp,
                      saveResultToMysql, SaveAttempt, ShowProgress, ShowResult
  <1>7. CASE Others
    <2>1. pc' = pc
      BY <1>7, OthersFrame
    <2>2. inbox' = inbox
      BY <1>7 DEF Others, Startup, Ui, InitClient, SubMsg, Subscribe, LoadDevices,
              LoadLatest, UiAddDevice, UiUpdateSelfCheck, CheckDevice, Publish,
              Server, ServerAccept, PileStart, PileComplete, ServerRespond, Advance,
              ServerNoise, LinkDrop, vars
    <2> QED BY <1>3, <2>1, <2>2
  <1> QED BY <1>4, <1>5, <1>6, <1>7, NextSplit DEF Handler

\* The records of a check are finitely many.
LEMMA CountType ==
  ASSUME NEW s \in Seq(Records), NEW n
  PROVE  IsFiniteSet(Of(s, n)) /\ Cardinality(Of(s, n)) \in Nat
  <1>1. DOMAIN s = 1..Len(s) /\ Len(s) \in Nat
    OBVIOUS
  <1>2. IsFiniteSet(1..Len(s))
    BY <1>1, FS_Interval
  <1>3. Of(s, n) \subseteq 1..Len(s)
    BY <1>1 DEF Of
  <1> QED BY <1>2, <1>3, FS_Subset, FS_CardinalityType

\* The records new are the records old, and k times r after them.
Appended(old, new, r, k) ==
  /\ DOMAIN old = 1..Len(old) /\ Len(old) \in Nat
  /\ DOMAIN new = 1..(Len(old) + k)
  /\ \A i \in DOMAIN old : i \in DOMAIN new /\ new[i] = old[i]
  /\ \A i \in DOMAIN new :
       \/ i \in DOMAIN old
       \/ i \in (Len(old) + 1)..(Len(old) + k) /\ new[i] = r

LEMMA CopiesAppended ==
  ASSUME NEW s \in Seq(Records), NEW r \in Records, NEW k \in Nat
  PROVE  Appended(s, s \o Copies(r, k), r, k)
  <1> DEFINE c == Copies(r, k)
  <1>1. c \in Seq(Records) /\ Len(c) = k /\ \A j \in 1..k : c[j] = r
    BY DEF Copies
  <1> HIDE DEF c
  <1>2. /\ s \o c \in Seq(Records) /\ Len(s \o c) = Len(s) + k
        /\ \A i \in 1..(Len(s) + k) :
             (s \o c)[i] = IF i <= Len(s) THEN s[i] ELSE c[i - Len(s)]
    BY <1>1, ConcatProperties
  <1>3. DOMAIN (s \o c) = 1..(Len(s) + k) /\ DOMAIN s = 1..Len(s) /\ Len(s) \in Nat
    BY <1>2
  <1>4. ASSUME NEW i \in DOMAIN (s \o c), i \notin DOMAIN s
        PROVE  i \in (Len(s) + 1)..(Len(s) + k) /\ (s \o c)[i] = r
    <2>1. i \in 1..(Len(s) + k) /\ ~(i <= Len(s))
      BY <1>3, <1>4
    <2>2. i - Len(s) \in 1..k
      BY <1>3, <2>1
    <2> QED BY <1>1, <1>2, <1>3, <2>1, <2>2
  <1>5. \A i \in DOMAIN s : i \in DOMAIN (s \o c) /\ (s \o c)[i] = s[i]
    BY <1>2, <1>3
  <1> QED BY <1>3, <1>4, <1>5 DEF c, Appended

\* k copies of a record add k to the records of its check, and none to others.
LEMMA CountAppend ==
  ASSUME NEW s \in Seq(Records), NEW r \in Records, NEW k \in Nat, NEW n
  PROVE  /\ Cardinality(Of(s \o Copies(r, k), n)) <= Cardinality(Of(s, n)) + k
         /\ r.n # n => Of(s \o Copies(r, k), n) = Of(s, n)
  <1> DEFINE c == Copies(r, k)
             S == Of(s, n)
             U == Of(s \o c, n)
             T == (Len(s) + 1)..(Len(s) + k)
  <1>1. Appended(s, s \o c, r, k)
    BY CopiesAppended
  <1> HIDE DEF c
  <1>3. Len(s) \in Nat
    OBVIOUS
  <1>4. \A i \in DOMAIN (s \o c) :
          \/ i \in DOMAIN s
          \/ i \in T /\ (s \o c)[i] = r
    BY <1>1 DEF Appended
  <1>5. \A i \in DOMAIN s : i \in DOMAIN (s \o c) /\ (s \o c)[i] = s[i]
    BY <1>1 DEF Appended
  <1>6. r.n # n => U = S
    BY <1>4, <1>5 DEF Of
  <1>7. U \subseteq S \cup T
    BY <1>4, <1>5 DEF Of
  <1>8. IsFiniteSet(T) /\ Cardinality(T) = k
    <2>1. Len(s) + 1 \in Int /\ Len(s) + k \in Int
      BY <1>3
    <2>2. /\ IsFiniteSet(T)
          /\ Cardinality(T) = IF Len(s) + 1 > Len(s) + k THEN 0
                              ELSE (Len(s) + k) - (Len(s) + 1) + 1
      BY <2>1, FS_Interval
    <2> QED BY <1>3, <2>2
  <1>9. IsFiniteSet(S) /\ Cardinality(S) \in Nat
    BY CountType
  <1> HIDE DEF S, T, U
  <1>10. /\ IsFiniteSet(S \cup T)
         /\ Cardinality(S \cup T)
              = Cardinality(S) + Cardinality(T) - Cardinality(S \cap T)
    BY <1>8, <1>9, FS_Union
  <1>11. IsFiniteSet(S \cap T) /\ Cardinality(S \cap T) \in Nat
    BY <1>9, FS_Intersection, FS_CardinalityType
  <1>12. Cardinality(U) <= Cardinality(S \cup T)
    BY <1>7, <1>10, FS_Subset
  <1>13. Cardinality(U) \in Nat
    BY <1>7, <1>10, FS_Subset, FS_CardinalityType
  <1>14. Cardinality(U) <= Cardinality(S) + k
    BY <1>8, <1>9, <1>10, <1>11, <1>12, <1>13
  <1> QED BY <1>6, <1>14 DEF c, S, U

\* The insert, as a number of copies that grows with the faults.
LEMMA SaveAppends ==
  ASSUME TypeInv, saveResultToMysql
  PROVE  /\ Msg.dev \in Devices /\ Msg.n \in Numbers
         /\ \E k, lost \in Nat, r \in Records :
              /\ r.n = Msg.n /\ r.source = snapshot
              /\ k <= lost + 1 /\ faults' = faults + lost
              /\ records' = [records EXCEPT ![Msg.dev] =
                               records[Msg.dev] \o Copies(r, k)]
  <1>1. Msg.dev \in Devices /\ Msg.n \in Numbers
    BY MsgType DEF TypeInv, HandlerOK, saveResultToMysql
  <1> DEFINE r == [n |-> Msg.n, source |-> snapshot]
  <1>2. r \in Records /\ r.n = Msg.n /\ r.source = snapshot
    BY <1>1 DEF Records, TypeInv, TypeOK
  <1>3. PICK lost \in Nat, ok \in BOOLEAN : SaveAttempt(lost, ok)
    <2>1. \A f \in Int : 0..f \subseteq Nat
      OBVIOUS
    <2>2. MaxFaults - faults \in Int /\ 0 \in Int
      BY SelfCheckAssumption DEF SelfCheckAssumption, TypeInv, TypeOK
    <2> QED BY <2>1, <2>2 DEF saveResultToMysql
  <1> DEFINE k == IF ok THEN lost + 1 ELSE lost
  <1>4. k \in Nat /\ k <= lost + 1
    OBVIOUS
  <1>5. faults' = faults + lost
    BY <1>3 DEF SaveAttempt
  <1>6. records' = [records EXCEPT ![Msg.dev] = records[Msg.dev] \o Copies(r, k)]
    BY <1>3 DEF SaveAttempt
  <1> QED BY <1>1, <1>2, <1>4, <1>5, <1>6

\* Where the counted things stand in any step.
LEMMA CountParts ==
  ASSUME TypeInv, NEW d \in Devices, NEW n \in Numbers
  PROVE  /\ Count(d, n) \in Nat /\ faults \in Nat
         /\ One(ToCome(d, n)) = IF ToCome(d, n) THEN 1 ELSE 0
         /\ One(AtClient(d, n)) = IF AtClient(d, n) THEN 1 ELSE 0
  <1>1. records[d] \in Seq(Records)
    BY DEF TypeInv, TypeOK
  <1>2. faults \in Nat
    BY SelfCheckAssumption DEF SelfCheckAssumption, TypeInv, TypeOK
  <1> QED BY <1>1, <1>2, CountType DEF Count, One

\* The result that is saved is no longer at the client.
LEMMA SaveTakes ==
  ASSUME TypeInv, OneResult, LinkInv, saveResultToMysql,
         NEW d \in Devices, NEW n \in Numbers, d = Msg.dev, n = Msg.n
  PROVE  AtClient(d, n) /\ ~AtClient(d, n)'
  <1>1. /\ pc = "insert" /\ Msg.kind = "RESULT" /\ inbox # <<>>
    BY DEF saveResultToMysql, TypeInv, HandlerOK
  <1>2. /\ inbox[1] = Head(inbox) /\ 1 \in DOMAIN inbox
        /\ Msg \in Messages
    BY <1>1, MsgType DEF TypeInv, TypeOK
  <1>3. Msg = Message(d, n, "RESULT")
    BY <1>1, <1>2 DEF Messages, Message
  <1>4. IsResult(inbox[1].queue, inbox[1].tag, d, n)
    BY <1>2, <1>3, InboxParts DEF IsResult, Msg
  <1>5. AtClient(d, n)
    BY <1>1, <1>2, <1>4 DEF AtClient
  <1>6. inbox' = inbox /\ queue' = queue /\ pc' \in {"progress", "ack"}
    BY DEF saveResultToMysql, SaveAttempt, GiveUp, consumerVars, brokerVars
  <1>7. ASSUME NEW i \in DOMAIN inbox,
               IsResult(inbox[i].queue, inbox[i].tag, d, n)
        PROVE  i = 1
    <2>1. /\ inbox[i].queue = inbox[1].queue /\ inbox[i].tag = inbox[1].tag
      BY <1>2, <1>4, <1>7, InboxParts DEF OneResult
    <2>2. inbox[i] = inbox[1]
      BY <1>2, <2>1, InboxParts
    <2> QED BY <1>2, <2>2 DEF LinkInv
  <1>8. ~AtClient(d, n)'
    BY <1>6, <1>7 DEF AtClient, IsResult, Message
  <1> QED BY <1>5, <1>8

\* What no step but the insert and the two faults changes.
LEMMA OtherSteps ==
  ASSUME [Next]_vars, ~saveResultToMysql, ~LinkDrop, ~Crash
  PROVE  records' = records /\ faults' = faults
  <1> USE DEF startupVars, consumerVars, brokerVars, serverVars, storeVars
  <1> QED BY NextSplit
          DEF Handler, RecvNotice, RecvResult, getResultFromRedis, ShowProgress,
              ShowResult, Ack, ChannelError, Others, Startup, Ui, InitClient, SubMsg,
              Subscribe, LoadDevices, LoadLatest, UiAddDevice, UiUpdateSelfCheck,
              CheckDevice, Publish, Push, Server, ServerAccept, PileStart,
              PileComplete, ServerRespond, Advance, ServerNoise, vars

\* A delivery only moves on; it is counted again only when a fault is.
LEMMA NextCountInv ==
  ASSUME TypeInv, ResultIsAnswer, OnceInv, [Next]_vars, TypeInv'
  PROVE  CountInv'
  <1> USE DEF startupVars, consumerVars, brokerVars, serverVars, storeVars
  <1>0. OneResult /\ LinkInv /\ CountInv
    BY DEF OnceInv
  <1> SUFFICES ASSUME NEW d \in Devices, NEW n \in Numbers
               PROVE  Count(d, n)' + One(ToCome(d, n))' + One(AtClient(d, n))'
                        <= 1 + faults'
    BY DEF CountInv
  <1>1. /\ Count(d, n) \in Nat /\ faults \in Nat
        /\ One(ToCome(d, n)) = IF ToCome(d, n) THEN 1 ELSE 0
        /\ One(AtClient(d, n)) = IF AtClient(d, n) THEN 1 ELSE 0
        /\ Count(d, n) + One(ToCome(d, n)) + One(AtClient(d, n)) <= 1 + faults
    BY <1>0, CountParts DEF CountInv
  <1>2. /\ One(ToCome(d, n))' = IF ToCome(d, n)' THEN 1 ELSE 0
        /\ One(AtClient(d, n))' = IF AtClient(d, n)' THEN 1 ELSE 0
    BY DEF One
  <1>3. CASE LinkDrop \/ Crash
    <2>1. records' = records /\ faults' = faults + 1
      BY <1>3 DEF LinkDrop, Crash
    <2>2. \A q \in Queues : ~Push(q)
      BY <1>3 DEF LinkDrop, Crash, Push
    <2>3. AtClient(d, n)' => AtClient(d, n)
      BY <2>2, AtClientStep
    <2>4. Count(d, n)' = Count(d, n)
      BY <2>1 DEF Count
    <2> QED BY <1>1, <1>2, <2>1, <2>3, <2>4
  <1>4. CASE saveResultToMysql /\ ~LinkDrop /\ ~Crash
    <2>1. PICK k \in Nat, lost \in Nat, r \in Records :
            /\ r.n = Msg.n
            /\ k <= lost + 1 /\ faults' = faults + lost
            /\ records' = [records EXCEPT ![Msg.dev] = records[Msg.dev] \o Copies(r, k)]
      BY <1>4, SaveAppends
    <2>2. ToCome(d, n)' => ToCome(d, n)
      BY <1>0, <1>4, ToComeStep
    <2>3. \A q \in Queues : ~Push(q)
      BY <1>4 DEF saveResultToMysql, SaveAttempt, GiveUp, Push
    <2>4. AtClient(d, n)' => AtClient(d, n)
      BY <2>3, AtClientStep
    <2>5. records'[d] = IF d = Msg.dev THEN records[d] \o Copies(r, k) ELSE records[d]
      BY <2>1 DEF TypeInv, TypeOK
    <2>6. records[d] \in Seq(Records)
      BY DEF TypeInv, TypeOK
    <2>7. CASE d = Msg.dev /\ n = Msg.n
      <3>1. AtClient(d, n) /\ ~AtClient(d, n)'
        BY <1>0, <1>4, <2>7, SaveTakes
      <3>2. Count(d, n)' <= Count(d, n) + k
        BY <2>5, <2>6, <2>7, CountAppend DEF Count
      <3>3. records'[d] \in Seq(Records)
        BY DEF TypeInv, TypeOK
      <3>4. Count(d, n)' \in Nat
        BY <3>3, CountType DEF Count
      <3> QED BY <1>1, <1>2, <2>1, <2>2, <3>1, <3>2, <3>4
    <2>8. CASE ~(d = Msg.dev /\ n = Msg.n)
      <3>1. Count(d, n)' = Count(d, n)
        BY <2>1, <2>5, <2>6, <2>8, CountAppend DEF Count
      <3> QED BY <1>1, <1>2, <2>1, <2>2, <2>4, <3>1
    <2> QED BY <2>7, <2>8
  <1>5. CASE ~saveResultToMysql /\ ~LinkDrop /\ ~Crash
    <2>1. records' = records /\ faults' = faults
      BY <1>5, OtherSteps
    <2>2. Count(d, n)' = Count(d, n)
      BY <2>1 DEF Count
    <2>3. ToCome(d, n)' => ToCome(d, n)
      BY <1>0, <1>5, ToComeStep
    <2>4. AtClient(d, n)' => AtClient(d, n) \/ (ToCome(d, n) /\ ~ToCome(d, n)')
      BY <1>0, PushTakes, AtClientStep
    <2> QED BY <1>1, <1>2, <2>1, <2>2, <2>3, <2>4
  <1> QED BY <1>3, <1>4, <1>5

\* At the start nothing is answered, delivered or recorded.
LEMMA InitOnceInv == Init => OnceInv
  <1> SUFFICES ASSUME Init PROVE OnceInv
    OBVIOUS
  <1>1. OneResult
    BY DEF Init, OneResult
  <1>2. LinkInv
    BY DEF Init, LinkInv
  <1>3. ASSUME NEW d \in Devices, NEW n \in Numbers
        PROVE  Count(d, n) + One(ToCome(d, n)) + One(AtClient(d, n)) <= 1 + faults
    <2>1. Of(records[d], n) = {} /\ faults = 0
      BY <1>3 DEF Init, Of
    <2>2. Count(d, n) = 0
      BY <2>1, FS_EmptySet DEF Count
    <2>3. ~AtClient(d, n)
      BY DEF Init, AtClient
    <2> QED BY <2>1, <2>2, <2>3 DEF One
  <1> QED BY <1>1, <1>2, <1>3 DEF OnceInv, CountInv

(* A result is recorded once, and once more for each fault: a lost          *)
(* connection or a restart has the broker deliver it again, a lost reply    *)
(* has executeUpdate insert it again, and nothing else does.                *)
THEOREM SpecDuplicatesNeedFaults == Spec => []DuplicatesNeedFaults
<1>1. TypeInv /\ TypeInv' /\ LedgerInv /\ OnceInv /\ [Next]_vars => OnceInv'
  BY NextOneResult, NextLinkInv, NextCountInv DEF LedgerInv, OnceInv
<1>2. TypeInv /\ OnceInv => DuplicatesNeedFaults
  <2> SUFFICES ASSUME TypeInv, OnceInv, NEW d \in Devices, NEW n \in Numbers
               PROVE  Count(d, n) <= 1 + faults
    BY DEF DuplicatesNeedFaults, Count, Of
  <2>1. Count(d, n) + One(ToCome(d, n)) + One(AtClient(d, n)) <= 1 + faults
    BY DEF OnceInv, CountInv
  <2> QED BY <2>1, CountParts
<1> QED BY InitOnceInv, <1>1, <1>2, SpecTypeInv, SpecLedgerInv, PTL DEF Spec

-----------------------------------------------------------------------------
(* What takes a card back.                                                  *)

\* DataServer answers the checks of a pile in their order, on one queue.
AnsweredInOrder ==
  \A d \in Devices, m, n \in Numbers :
    m < n /\ phase[d][n] = "answered" => phase[d][m] \in {"lost", "answered"}

ResultsInOrder ==
  /\ \A q \in Queues : \A t \in DOMAIN queue[q] :
       queue[q][t].kind = "RESULT" => q = "resp"
  /\ \A d \in Devices, m, n \in Numbers :
       \A s, t \in DOMAIN queue["resp"] :
         s < t /\ IsResult("resp", s, d, m) /\ IsResult("resp", t, d, n) => m < n

\* What was pushed or acknowledged was sent.
PushedWasSent ==
  \A q \in Queues : unacked[q] \cup acked[q] \subseteq DOMAIN queue[q]

\* The results go through the client in the order of their queue.
InboxInOrder ==
  /\ \A i \in DOMAIN inbox : \A a \in acked["resp"] :
       inbox[i].queue = "resp" => a < inbox[i].tag
  /\ \A i, j \in DOMAIN inbox :
       i < j /\ inbox[i].queue = "resp" /\ inbox[j].queue = "resp"
         => inbox[i].tag < inbox[j].tag
  /\ \A t \in Ready("resp"), u \in unacked["resp"] \cup acked["resp"] : u < t

\* recvMsg is done with the result, or has saved it at least.
DealtWith(s) ==
  \/ s \in acked["resp"]
  \/ /\ 1 \in DOMAIN inbox /\ inbox[1] = [queue |-> "resp", tag |-> s]
     /\ pc \in {"progress", "show", "ack"}

RecordedWasDealtWith ==
  \A d \in Devices, n \in Numbers :
    Recorded(d, n) =>
      \E s \in DOMAIN queue["resp"] : IsResult("resp", s, d, n) /\ DealtWith(s)

\* All of it, as long as there was no fault.
InOrderInv ==
  /\ AnsweredInOrder /\ ResultsInOrder /\ PushedWasSent
  /\ faults = 0 => /\ linkUp <=> connected
                   /\ InboxInOrder
                   /\ RecordedWasDealtWith

\* DataServer answers a check of a device after those before it.
LEMMA NextAnsweredInOrder ==
  ASSUME TypeInv, AnsweredInOrder, [Next]_vars
  PROVE  AnsweredInOrder'
  <1> USE NumberFacts
  <1> USE DEF startupVars, consumerVars, brokerVars, serverVars, storeVars
  <1> SUFFICES ASSUME NEW d \in Devices, NEW m \in Numbers, NEW n \in Numbers,
                      m < n, phase'[d][n] = "answered"
               PROVE  phase'[d][m] \in {"lost", "answered"}
    BY DEF AnsweredInOrder
  <1>1. phase[d][m] \in {"lost", "answered"}
    <2>1. CASE phase[d][n] = "answered"
      BY <2>1 DEF AnsweredInOrder
    <2>2. CASE ServerRespond(d, n)
      <3>1. m \in 1..(n - 1)
        OBVIOUS
      <3> QED BY <2>2, <3>1 DEF ServerRespond
    <2> QED BY <2>1, <2>2, AnswersStay
  <1>2. CASE phase[d][m] = "answered"
    BY <1>2, AnswersStay
  <1>3. CASE phase[d][m] = "lost"
    <2>1. phase' = phase \/ \E e \in Devices, k \in Numbers, to \in Phases :
                              phase[e][k] # "lost" /\ phase' = [phase EXCEPT ![e][k] = to]
      <3>1. ASSUME NEW e \in Devices, NEW k \in Numbers, CheckDevice(e, k)
            PROVE  \E to \in Phases :
                     phase[e][k] # "lost" /\ phase' = [phase EXCEPT ![e][k] = to]
        BY <3>1 DEF CheckDevice, Publish, Phases
      <3>2. ASSUME NEW e \in Devices, NEW k \in Numbers,
                   ServerAccept(e, k) \/ PileStart(e, k) \/ PileComplete(e, k)
                     \/ ServerRespond(e, k)
            PROVE  \E to \in Phases :
                     phase[e][k] # "lost" /\ phase' = [phase EXCEPT ![e][k] = to]
        BY <3>2 DEF ServerAccept, PileStart, PileComplete, ServerRespond, Advance, Phases
      <3>3. CASE Startup \/ Ui \/ Handler
        BY <3>3 DEF Startup, InitClient, SubMsg, LoadDevices, LoadLatest,
                    Ui, UiAddDevice, UiUpdateSelfCheck, Handler, RecvNotice, RecvResult,
                    getResultFromRedis, saveResultToMysql, ShowProgress, ShowResult, Ack
      <3>4. CASE \/ ChannelError \/ Crash \/ LinkDrop \/ UNCHANGED vars
                 \/ \E q \in Queues : Push(q)
                 \/ \E q \in Queues, e \in Devices : ServerNoise(q, e)
        BY <3>4 DEF ChannelError, Crash, LinkDrop, Push, ServerNoise, vars
      <3> QED BY <3>1, <3>2, <3>3, <3>4 DEF Next, Server
    <2>2. ASSUME NEW e \in Devices, NEW k \in Numbers, NEW to \in Phases,
                 phase[e][k] # "lost", phase' = [phase EXCEPT ![e][k] = to]
          PROVE  phase'[d][m] = "lost"
      <3>1. ~(e = d /\ k = m)
        BY <1>3, <2>2
      <3> QED BY <1>3, <2>2, <3>1 DEF TypeInv, TypeOK
    <2> QED BY <1>3, <2>1, <2>2
  <1> QED BY <1>1, <1>2, <1>3

\* A result names its check.
\* So a new result is of the newest check the queue answers.
LEMMA NextResultsInOrder ==
  ASSUME TypeInv, TypeInv', ResultIsAnswer, AnsweredInOrder, ResultsInOrder, [Next]_vars
  PROVE  ResultsInOrder'
  <1> USE NumberFacts
  <1>0. "resp" \in Queues
    BY DEF Queues
  <1>1. ASSUME NEW q \in Queues, NEW t \in DOMAIN queue'[q], queue'[q][t].kind = "RESULT"
        PROVE  q = "resp"
    <2>1. \E d \in Devices, n \in Numbers : IsResult(q, t, d, n)'
      <3>1. queue'[q][t] \in Messages
        BY <1>1 DEF TypeInv, TypeOK
      <3>2. /\ queue'[q][t].dev \in Devices /\ queue'[q][t].n \in Numbers
            /\ queue'[q][t] = Message(queue'[q][t].dev, queue'[q][t].n, "RESULT")
        BY <1>1, <3>1 DEF Messages, Message
      <3> QED BY <1>1, <3>2 DEF IsResult, Message
    <2>2. PICK d \in Devices, n \in Numbers : IsResult(q, t, d, n)'
      BY <2>1
    <2>3. CASE IsResult(q, t, d, n)
      BY <2>3 DEF IsResult, Message, ResultsInOrder
    <2> QED BY <1>1, <2>2, <2>3, NewResult
  <1>2. ASSUME NEW d \in Devices, NEW m \in Numbers, NEW n \in Numbers,
               NEW s \in DOMAIN queue'["resp"], NEW t \in DOMAIN queue'["resp"], s < t,
               IsResult("resp", s, d, m)', IsResult("resp", t, d, n)'
        PROVE  m < n
    <2>1. queue["resp"] \in Seq(Messages) /\ queue'["resp"] \in Seq(Messages)
      BY <1>0 DEF TypeInv, TypeOK
    <2>2. CASE ~IsResult("resp", s, d, m)
      <3>1. s = Len(queue["resp"]) + 1
        BY <1>0, <1>2, <2>2, NewResult
      <3>2. t \notin DOMAIN queue["resp"] /\ t # Len(queue["resp"]) + 1
        BY <1>2, <2>1, <3>1
      <3>3. ~IsResult("resp", t, d, n)
        BY <3>2 DEF IsResult
      <3> QED BY <1>0, <1>2, <3>2, <3>3, NewResult
    <2>3. CASE IsResult("resp", s, d, m) /\ IsResult("resp", t, d, n)
      BY <1>2, <2>3 DEF ResultsInOrder, IsResult
    <2>4. CASE IsResult("resp", s, d, m) /\ ~IsResult("resp", t, d, n)
      <3>1. ServerRespond(d, n)
        BY <1>0, <1>2, <2>4, NewResult
      <3>2. phase[d][m] = "answered"
        BY <1>0, <2>4 DEF IsResult, Message, ResultIsAnswer
      <3>3. phase[d][n] \notin {"lost", "answered"}
        BY <3>1 DEF ServerRespond, Advance
      <3> QED BY <3>2, <3>3 DEF AnsweredInOrder
    <2> QED BY <2>2, <2>3, <2>4
  <1> QED BY <1>1, <1>2 DEF ResultsInOrder

\* Only what is in a queue is pushed.
LEMMA NextPushedWasSent ==
  ASSUME TypeInv, LinkInv, PushedWasSent, [Next]_vars
  PROVE  PushedWasSent'
  <1> USE DEF startupVars, consumerVars, brokerVars, serverVars, storeVars
  <1>0. unacked \in [Queues -> SUBSET Nat] /\ acked \in [Queues -> SUBSET Nat]
    BY DEF TypeInv, TypeOK
  <1>1. \A q \in Queues : DOMAIN queue[q] \subseteq DOMAIN queue'[q]
    BY QueueGrows
  <1>2. ASSUME \A q \in Queues : unacked'[q] \cup acked'[q] \subseteq DOMAIN queue[q]
        PROVE  PushedWasSent'
    BY <1>1, <1>2 DEF PushedWasSent
  <1>3. CASE UNCHANGED <<unacked, acked>> \/ ChannelError
    BY <1>2, <1>3 DEF PushedWasSent, ChannelError
  <1>4. CASE (\E ok \in BOOLEAN : Connect(ok)) /\ UNCHANGED acked
    <2>1. \A q \in Queues : unacked'[q] \subseteq unacked[q]
      BY <1>4 DEF Connect
    <2> QED BY <1>2, <1>4, <2>1 DEF PushedWasSent
  <1>5. CASE LinkDrop \/ Crash
    <2>1. \A q \in Queues : unacked'[q] = {} /\ acked'[q] = acked[q]
      BY <1>5 DEF LinkDrop, Crash
    <2> QED BY <1>2, <2>1 DEF PushedWasSent
  <1>6. CASE Ack
    <2>1. /\ Head(inbox).queue \in Queues
          /\ Head(inbox).tag \in DOMAIN queue[Head(inbox).queue]
      BY <1>6, MsgType DEF Ack, TypeInv, HandlerOK
    <2>2. \A q \in Queues : unacked'[q] \cup acked'[q] \subseteq DOMAIN queue[q]
      BY <1>0, <1>6, <2>1 DEF Ack, PushedWasSent
    <2> QED BY <1>2, <2>2
  <1>7. ASSUME NEW q \in Queues, Push(q) PROVE PushedWasSent'
    <2>1. \A p \in Queues : unacked'[p] \cup acked'[p] \subseteq DOMAIN queue[p]
      BY <1>0, <1>7 DEF Push, Ready, PushedWasSent
    <2> QED BY <1>2, <2>1
  <1> QED BY <1>3, <1>4, <1>5, <1>6, <1>7, LinkSteps

\* An acknowledgement shortens the inbox.
LEMMA AckEnds ==
  ASSUME TypeInv, inbox' = inbox
  PROVE  ~Ack
  <1> SUFFICES ASSUME Ack PROVE FALSE
    OBVIOUS
  <1>1. inbox # <<>> /\ inbox' = Tail(inbox) /\ inbox \in Seq(Deliveries)
    BY DEF Ack, TypeInv, TypeOK, HandlerOK
  <1>2. Len(Tail(inbox)) = Len(inbox) - 1 /\ Len(inbox) \in Nat
    BY <1>1, HeadTailProperties
  <1> QED BY <1>1, <1>2

\* Which steps are possible without a fault.
LEMMA FaultlessSteps ==
  ASSUME TypeInv, LinkInv, InOrderInv, [Next]_vars, faults' = 0
  PROVE  /\ faults = 0 /\ ~LinkDrop /\ ~Crash
         /\ linkUp' <=> connected'
         /\ \/ UNCHANGED <<inbox, unacked, acked>> /\ ~Ack
            \/ Ack /\ linkUp
            \/ \E q \in Queues : Push(q)
  <1> USE DEF startupVars, consumerVars, brokerVars, serverVars, storeVars
  <1>1. faults \in Nat
    BY SelfCheckAssumption DEF SelfCheckAssumption, TypeInv, TypeOK
  <1>2. ~LinkDrop /\ ~Crash
    BY <1>1 DEF LinkDrop, Crash
  <1>3. faults' >= faults
    <2>1. CASE saveResultToMysql
      <3>1. PICK lost \in Nat : faults' = faults + lost
        BY <2>1, SaveAppends
      <3> QED BY <1>1, <3>1
    <2>2. CASE ~saveResultToMysql
      BY <1>1, <1>2, <2>2, OtherSteps
    <2> QED BY <2>1, <2>2
  <1>4. faults = 0
    BY <1>1, <1>3
  <1>5. linkUp <=> connected
    BY <1>4 DEF InOrderInv
  <1>6. CASE UNCHANGED <<connected, linkUp, inbox, unacked, acked>>
    BY <1>2, <1>4, <1>5, <1>6, LinkSteps, AckEnds
  <1>7. CASE (\E ok \in BOOLEAN : Connect(ok)) /\ UNCHANGED <<inbox, acked>>
    <2>1. CASE UNCHANGED <<connected, linkUp, unacked>>
      BY <1>6, <1>7, <2>1
    <2>2. CASE /\ ~connected /\ connected' /\ linkUp'
               /\ unacked' = [q \in Queues |-> {}]
      <3>1. unacked = [q \in Queues |-> {}]
        BY <1>5, <2>2 DEF LinkInv, TypeInv, TypeOK
      <3> QED BY <1>2, <1>4, <1>7, <2>2, <3>1, AckEnds
    <2> QED BY <1>7, <2>1, <2>2 DEF Connect
  <1>8. CASE Ack
    <2>1. inbox # <<>> /\ UNCHANGED <<connected, linkUp>>
      BY <1>8 DEF Ack, TypeInv, HandlerOK
    <2>2. linkUp
      BY <1>5, <2>1 DEF LinkInv
    <2> QED BY <1>2, <1>4, <1>5, <1>8, <2>1, <2>2
  <1>9. ~ChannelError
    BY <1>5 DEF ChannelError
  <1>10. ASSUME NEW q \in Queues, Push(q)
         PROVE  UNCHANGED <<connected, linkUp>>
    BY <1>10 DEF Push
  <1> QED BY <1>2, <1>4, <1>5, <1>6, <1>7, <1>8, <1>9, <1>10, LinkSteps

\* Push takes the oldest ready message, and Ack the head of the inbox.
LEMMA NextInboxInOrder ==
  ASSUME TypeInv, TypeInv', LinkInv, InOrderInv, [Next]_vars, faults' = 0
  PROVE  InboxInOrder'
  <1> USE DEF startupVars, consumerVars, brokerVars, serverVars, storeVars
  <1>0. /\ "resp" \in Queues
        /\ unacked \in [Queues -> SUBSET Nat] /\ acked \in [Queues -> SUBSET Nat]
        /\ queue["resp"] \in Seq(Messages) /\ queue'["resp"] \in Seq(Messages)
    BY DEF Queues, TypeInv, TypeOK
  <1>1. InboxInOrder /\ PushedWasSent
    BY FaultlessSteps DEF InOrderInv
  <1>2. ASSUME NEW t \in DOMAIN queue'["resp"], t \notin DOMAIN queue["resp"],
               NEW u \in unacked["resp"] \cup acked["resp"]
        PROVE  u < t
    <2>1. u \in DOMAIN queue["resp"]
      BY <1>0, <1>1 DEF PushedWasSent
    <2>2. u \in 1..Len(queue["resp"]) /\ t \in Nat \ {0} /\ ~(t <= Len(queue["resp"]))
      BY <1>0, <1>2, <2>1
    <2> QED BY <1>0, <2>2
  <1>3. ASSUME NEW t \in Ready("resp"), NEW u \in unacked["resp"] \cup acked["resp"]
        PROVE  u < t
    BY <1>1, <1>3 DEF InboxInOrder
  <1>4. CASE UNCHANGED <<inbox, unacked, acked>>
    <2>1. ASSUME NEW t \in Ready("resp")', NEW u \in unacked["resp"] \cup acked["resp"]
          PROVE  u < t
      <3>1. CASE t \in DOMAIN queue["resp"]
        BY <1>3, <1>4, <2>1, <3>1 DEF Ready
      <3>2. CASE t \notin DOMAIN queue["resp"]
        BY <1>2, <2>1, <3>2 DEF Ready
      <3> QED BY <3>1, <3>2
    <2> QED BY <1>1, <1>4, <2>1 DEF InboxInOrder
  <1>5. CASE Ack /\ linkUp
    <2> DEFINE at == Head(inbox)
    <2>0. inbox # <<>> /\ inbox' = Tail(inbox) /\ queue' = queue
          /\ unacked' = [unacked EXCEPT ![at.queue] = @ \ {at.tag}]
          /\ acked' = [acked EXCEPT ![at.queue] = @ \cup {at.tag}]
      BY <1>5 DEF Ack, TypeInv, HandlerOK
    <2>1. /\ at = inbox[1] /\ 1 \in DOMAIN inbox
          /\ \A i \in DOMAIN inbox' :
               i \in Nat \ {0} /\ i + 1 \in DOMAIN inbox /\ inbox'[i] = inbox[i + 1]
      BY <2>0, InboxTail
    <2>2. at.queue \in Queues /\ at.tag \in unacked[at.queue]
      BY <1>5, <2>1, InboxParts DEF LinkInv
    <2> HIDE DEF at
    <2>3. /\ \A a \in acked'["resp"] : a \in acked["resp"] \/ (at.queue = "resp" /\ a = at.tag)
          /\ unacked'["resp"] \cup acked'["resp"] = unacked["resp"] \cup acked["resp"]
      BY <1>0, <2>0, <2>2
    <2>4. ASSUME NEW i \in DOMAIN inbox', NEW a \in acked'["resp"], inbox'[i].queue = "resp"
          PROVE  a < inbox'[i].tag
      <3>1. /\ i + 1 \in DOMAIN inbox /\ inbox'[i] = inbox[i + 1] /\ 1 < i + 1
        BY <2>1
      <3> QED BY <1>1, <2>1, <2>3, <2>4, <3>1 DEF InboxInOrder
    <2>5. ASSUME NEW i \in DOMAIN inbox', NEW j \in DOMAIN inbox', i < j,
                 inbox'[i].queue = "resp", inbox'[j].queue = "resp"
          PROVE  inbox'[i].tag < inbox'[j].tag
      <3>1. /\ i + 1 \in DOMAIN inbox /\ inbox'[i] = inbox[i + 1]
            /\ j + 1 \in DOMAIN inbox /\ inbox'[j] = inbox[j + 1] /\ i + 1 < j + 1
        BY <2>1, <2>5
      <3> QED BY <1>1, <2>5, <3>1 DEF InboxInOrder
    <2>6. Ready("resp")' = Ready("resp")
      BY <2>0, <2>3 DEF Ready
    <2> QED BY <1>1, <2>3, <2>4, <2>5, <2>6 DEF InboxInOrder
  <1>6. ASSUME NEW q \in Queues, Push(q) PROVE InboxInOrder'
    <2>1. PICK t \in Ready(q) :
            /\ \A u \in Ready(q) : t <= u
            /\ inbox' = Append(inbox, [queue |-> q, tag |-> t])
            /\ unacked' = [unacked EXCEPT ![q] = @ \cup {t}]
      BY <1>6 DEF Push
    <2>2. acked' = acked /\ queue' = queue /\ linkUp
      BY <1>6 DEF Push
    <2> DEFINE at == [queue |-> q, tag |-> t]
    <2>3. at \in Deliveries /\ at.queue = q /\ at.tag = t /\ t \in Nat
      BY DEF Ready, TypeInv, TypeOK, Deliveries
    <2>4. \A i \in DOMAIN inbox' :
            \/ i \in DOMAIN inbox /\ inbox'[i] = inbox[i]
            \/ i = Len(inbox) + 1 /\ i \notin DOMAIN inbox /\ inbox'[i] = at
      BY <2>1, <2>3, InboxAppend
    <2> HIDE DEF at
    <2>5. ASSUME NEW i \in DOMAIN inbox', NEW a \in acked'["resp"], inbox'[i].queue = "resp"
          PROVE  a < inbox'[i].tag
      BY <1>1, <1>3, <2>2, <2>3, <2>4, <2>5 DEF InboxInOrder
    <2>6. ASSUME NEW i \in DOMAIN inbox', NEW j \in DOMAIN inbox', i < j,
                 inbox'[i].queue = "resp", inbox'[j].queue = "resp"
          PROVE  inbox'[i].tag < inbox'[j].tag
      <3>1. DOMAIN inbox = 1..Len(inbox) /\ Len(inbox) \in Nat
        BY DEF TypeInv, TypeOK
      <3>2. CASE j \in DOMAIN inbox
        <4>1. i \in DOMAIN inbox /\ inbox'[i] = inbox[i] /\ inbox'[j] = inbox[j]
          BY <2>4, <2>6, <3>1, <3>2
        <4>2. inbox[i].queue = "resp" /\ inbox[j].queue = "resp"
          BY <2>6, <4>1
        <4>3. inbox[i].tag < inbox[j].tag
          BY <1>1, <2>6, <3>2, <4>1, <4>2 DEF InboxInOrder
        <4> QED BY <4>1, <4>3
      <3>3. CASE j \notin DOMAIN inbox
        <4>1. inbox'[j] = at /\ j = Len(inbox) + 1
          BY <2>4, <3>3
        <4>2. i \in DOMAIN inbox /\ inbox'[i] = inbox[i]
          BY <2>4, <2>6, <3>1, <4>1
        <4>3. inbox[i].tag \in unacked["resp"]
          BY <2>2, <2>6, <4>2 DEF LinkInv
        <4>4. t \in Ready("resp") /\ at.tag = t
          BY <2>1, <2>3, <2>6, <4>1
        <4>5. inbox[i].tag < t
          BY <1>3, <4>3, <4>4
        <4> QED BY <4>1, <4>2, <4>4, <4>5
      <3> QED BY <3>2, <3>3
    <2>7. ASSUME NEW s \in Ready("resp")', NEW u \in unacked'["resp"] \cup acked'["resp"]
          PROVE  u < s
      <3>1. s \in Ready("resp") /\ s \in Nat
        BY <1>0, <2>1, <2>2, <2>7 DEF Ready
      <3>2. CASE u \in unacked["resp"] \cup acked["resp"]
        BY <1>3, <3>1, <3>2
      <3>3. CASE u \notin unacked["resp"] \cup acked["resp"]
        <4>1. q = "resp" /\ u = t
          BY <1>0, <2>1, <2>2, <2>7, <3>3
        <4>2. s # t /\ t <= s
          BY <1>0, <2>1, <2>7, <3>1, <4>1 DEF Ready
        <4> QED BY <2>3, <3>1, <4>1, <4>2
      <3> QED BY <3>2, <3>3
    <2> QED BY <2>5, <2>6, <2>7 DEF InboxInOrder
  <1> QED BY <1>4, <1>5, <1>6, FaultlessSteps

\* What is dealt with is acknowledged before it leaves the inbox.
LEMMA NextDealtWith ==
  ASSUME TypeInv, LinkInv, InOrderInv, [Next]_vars, faults' = 0, NEW s, DealtWith(s)
  PROVE  DealtWith(s)'
  <1> USE DEF startupVars, consumerVars, brokerVars, serverVars, storeVars
  <1>0. "resp" \in Queues /\ acked \in [Queues -> SUBSET Nat]
    BY DEF Queues, TypeInv, TypeOK
  <1>1. CASE s \in acked["resp"]
    <2>1. s \in acked'["resp"]
      BY <1>0, <1>1, FaultlessSteps DEF Ack, Push
    <2> QED BY <2>1 DEF DealtWith
  <1>2. CASE /\ 1 \in DOMAIN inbox /\ inbox[1] = [queue |-> "resp", tag |-> s]
             /\ pc \in {"progress", "show", "ack"}
    <2>1. CASE Ack /\ linkUp
      <3>1. Head(inbox) = inbox[1]
        BY <1>2 DEF TypeInv, TypeOK
      <3>2. s \in acked'["resp"]
        BY <1>0, <1>2, <2>1, <3>1 DEF Ack
      <3> QED BY <3>2 DEF DealtWith
    <2>2. CASE UNCHANGED inbox /\ ~Ack
      <3>1. pc' \in {"progress", "show", "ack"}
        BY <1>2, <2>2, FaultlessSteps, NextSplit, OthersFrame
           DEF Handler, RecvNotice, RecvResult, getResultFromRedis, saveResultToMysql,
               ShowProgress, ShowResult, ChannelError
      <3> QED BY <1>2, <2>2, <3>1 DEF DealtWith
    <2>3. ASSUME NEW q \in Queues, Push(q) PROVE DealtWith(s)'
      <3>1. pc' = pc /\ \E at : inbox' = Append(inbox, at)
        BY <2>3 DEF Push
      <3>2. 1 \in DOMAIN inbox' /\ inbox'[1] = inbox[1]
        BY <1>2, <3>1 DEF TypeInv, TypeOK
      <3> QED BY <1>2, <3>1, <3>2 DEF DealtWith
    <2> QED BY <2>1, <2>2, <2>3, FaultlessSteps
  <1> QED BY <1>1, <1>2 DEF DealtWith

\* Only the insert records, and it deals with the head of the inbox.
LEMMA NextRecordedWasDealtWith ==
  ASSUME TypeInv, LinkInv, ResultsInOrder', InOrderInv, [Next]_vars, faults' = 0
  PROVE  RecordedWasDealtWith'
  <1>0. RecordedWasDealtWith /\ ResultsInOrder
    BY FaultlessSteps DEF InOrderInv
  <1> SUFFICES ASSUME NEW d \in Devices, NEW n \in Numbers, Recorded(d, n)'
               PROVE  \E s \in DOMAIN queue'["resp"] :
                        IsResult("resp", s, d, n)' /\ DealtWith(s)'
    BY DEF RecordedWasDealtWith
  <1>1. \A s : IsResult("resp", s, d, n) => IsResult("resp", s, d, n)'
    BY QueueGrows DEF IsResult, Message, Queues
  <1>2. CASE Recorded(d, n)
    <2>1. PICK s \in DOMAIN queue["resp"] : IsResult("resp", s, d, n) /\ DealtWith(s)
      BY <1>0, <1>2 DEF RecordedWasDealtWith
    <2>2. DealtWith(s)' /\ IsResult("resp", s, d, n)'
      BY <1>1, <2>1, NextDealtWith
    <2> QED BY <2>2 DEF IsResult
  <1>3. CASE ~Recorded(d, n)
    <2>1. saveResultToMysql
      <3>1. records' = records \/ saveResultToMysql
        BY FaultlessSteps, OtherSteps
      <3> QED BY <1>3, <3>1 DEF Recorded
    <2>2. d = Msg.dev /\ n = Msg.n /\ pc' \in {"progress", "ack"}
      BY <1>3, <2>1, SaveRecords
    <2>3. /\ inbox # <<>> /\ Msg.kind = "RESULT" /\ inbox' = inbox
      BY <2>1 DEF saveResultToMysql, TypeInv, HandlerOK, consumerVars
    <2>4. /\ inbox[1] = Head(inbox) /\ 1 \in DOMAIN inbox
          /\ Msg \in Messages
          /\ Head(inbox).queue \in Queues
          /\ Head(inbox).tag \in DOMAIN queue[Head(inbox).queue]
      BY <2>3, MsgType DEF TypeInv, TypeOK
    <2>5. Head(inbox).queue = "resp"
      BY <1>0, <2>3, <2>4 DEF ResultsInOrder, Msg
    <2> DEFINE s == Head(inbox).tag
    <2>6. Msg = Message(d, n, "RESULT")
      BY <2>2, <2>3, <2>4 DEF Messages, Message
    <2>7. IsResult("resp", s, d, n)
      BY <2>4, <2>5, <2>6 DEF IsResult, Msg
    <2>8. inbox[1] = [queue |-> "resp", tag |-> s]
      BY <2>4, <2>5, InboxParts
    <2>9. PICK u : u = s
      OBVIOUS
    <2>10. DealtWith(u)'
      BY <2>2, <2>3, <2>4, <2>8, <2>9 DEF DealtWith
    <2>11. IsResult("resp", u, d, n)'
      BY <1>1, <2>7, <2>9
    <2> QED BY <2>10, <2>11 DEF IsResult
  <1> QED BY <1>2, <1>3

\* The parts that need a run without faults fall with the first fault.
LEMMA NextInOrderInv ==
  ASSUME TypeInv, TypeInv', ResultIsAnswer, LinkInv, InOrderInv, [Next]_vars
  PROVE  InOrderInv'
  <1>1. AnsweredInOrder /\ ResultsInOrder /\ PushedWasSent
    BY DEF InOrderInv
  <1>2. AnsweredInOrder' /\ ResultsInOrder' /\ PushedWasSent'
    BY <1>1, NextAnsweredInOrder, NextResultsInOrder, NextPushedWasSent
  <1>3. ASSUME faults' = 0
        PROVE  (linkUp' <=> connected') /\ InboxInOrder' /\ RecordedWasDealtWith'
    BY <1>2, <1>3, FaultlessSteps, NextInboxInOrder, NextRecordedWasDealtWith
  <1> QED BY <1>2, <1>3 DEF InOrderInv

\* At the start the queues and the inbox are empty.
LEMMA InitInOrderInv == Init => InOrderInv
  <1> SUFFICES ASSUME Init PROVE InOrderInv
    OBVIOUS
  <1>1. /\ \A q \in Queues : DOMAIN queue[q] = {} /\ unacked[q] = {} /\ acked[q] = {}
        /\ \A d \in Devices, n \in Numbers : phase[d][n] = "none" /\ ~Recorded(d, n)
        /\ DOMAIN inbox = {} /\ ~linkUp /\ ~connected /\ "resp" \in Queues
    BY DEF Init, Recorded, Queues
  <1> QED BY <1>1 DEF InOrderInv, AnsweredInOrder, ResultsInOrder, PushedWasSent,
                      InboxInOrder, RecordedWasDealtWith

LEMMA SpecInOrderInv == Spec => [](LinkInv /\ InOrderInv)
<1>1. TypeInv /\ TypeInv' /\ LedgerInv /\ LinkInv /\ [Next]_vars => LinkInv'
  BY NextLinkInv
<1>2. /\ TypeInv /\ TypeInv' /\ LedgerInv /\ LinkInv /\ InOrderInv /\ [Next]_vars
      => InOrderInv'
  BY NextInOrderInv DEF LedgerInv
<1>3. Init => LinkInv /\ InOrderInv
  BY InitOnceInv, InitInOrderInv DEF OnceInv
<1> QED BY <1>1, <1>2, <1>3, SpecTypeInv, SpecLedgerInv, PTL DEF Spec

\* The result that is inserted is newer than any that is recorded, and the
\* one that is shown is not older.
LEMMA HandledIsNewest ==
  ASSUME TypeInv, LinkInv, InOrderInv, faults = 0, pc \in {"insert", "show"},
         NEW n \in Numbers, Recorded(Msg.dev, n)
  PROVE  n <= Msg.n /\ (pc = "insert" => n < Msg.n)
  <1> USE NumberFacts
  <1>1. InboxInOrder /\ RecordedWasDealtWith /\ ResultsInOrder /\ PushedWasSent
    BY DEF InOrderInv
  <1>2. inbox # <<>> /\ Msg.kind = "RESULT"
    BY DEF TypeInv, HandlerOK
  <1>3. /\ inbox[1] = Head(inbox) /\ 1 \in DOMAIN inbox
        /\ Msg \in Messages /\ Msg.dev \in Devices /\ Msg.n \in Numbers
        /\ Head(inbox).queue \in Queues
        /\ Head(inbox).tag \in DOMAIN queue[Head(inbox).queue]
    BY <1>2, MsgType DEF TypeInv, TypeOK
  <1>4. Head(inbox).queue = "resp"
    BY <1>1, <1>2, <1>3 DEF ResultsInOrder, Msg
  <1> DEFINE t == Head(inbox).tag
  <1>5. Msg = Message(Msg.dev, Msg.n, "RESULT")
    BY <1>2, <1>3 DEF Messages, Message
  <1>6. IsResult("resp", t, Msg.dev, Msg.n) /\ t \in DOMAIN queue["resp"]
    BY <1>3, <1>4, <1>5 DEF IsResult, Msg
  <1>7. PICK s \in DOMAIN queue["resp"] : IsResult("resp", s, Msg.dev, n) /\ DealtWith(s)
    BY <1>1, <1>3 DEF RecordedWasDealtWith
  <1>8. CASE s \in acked["resp"]
    <2>1. s < t
      BY <1>1, <1>3, <1>4, <1>8 DEF InboxInOrder
    <2>2. n < Msg.n
      BY <1>1, <1>3, <1>6, <1>7, <2>1 DEF ResultsInOrder
    <2> QED BY <1>3, <2>2
  <1>9. CASE /\ inbox[1] = [queue |-> "resp", tag |-> s]
             /\ pc \in {"progress", "show", "ack"}
    <2>1. s = t /\ pc # "insert"
      BY <1>3, <1>9
    <2>2. Message(Msg.dev, n, "RESULT") = Message(Msg.dev, Msg.n, "RESULT")
      BY <1>6, <1>7, <2>1 DEF IsResult
    <2>3. n = Msg.n
      BY <2>2 DEF Message
    <2> QED BY <1>3, <2>1, <2>3
  <1> QED BY <1>7, <1>8, <1>9 DEF DealtWith

(* Without a fault, only the queued load of the startup thread takes a card *)
(* back: DataServer answers in order on one queue, and from the push to the *)
(* card nothing overtakes.                                                  *)
THEOREM SpecOnlyStartupLoadGoesBack == Spec => OnlyStartupLoadGoesBack
<1> DEFINE A == \A d \in Devices :
                  (faults' = 0 /\ rows'[d].last < rows[d].last) => UiUpdateSelfCheck
<1>1. /\ TypeInv /\ TypeInv' /\ ShownInv /\ AddedOnce /\ LinkInv /\ InOrderInv
      /\ [Next]_vars
      => [A]_vars
  <2> SUFFICES ASSUME TypeInv, TypeInv', ShownInv, AddedOnce, LinkInv, InOrderInv,
                      [Next]_vars,
                      NEW d \in Devices, faults' = 0, rows'[d].last < rows[d].last
               PROVE  UiUpdateSelfCheck
    OBVIOUS
  <2>1. /\ rows \in [Devices -> Rows] /\ rows[d].last \in 0..MaxChecks
        /\ rows'[d].last \in 0..MaxChecks /\ MaxChecks \in Nat
    BY NumberFacts DEF TypeInv, TypeOK, Rows
  <2>2. faults = 0 /\ ~Crash
    BY FaultlessSteps
  <2>3. ASSUME NEW e \in toAdd, UiAddDevice(e) PROVE FALSE
    <3>1. e \in Devices /\ rows[e].last = 0
      BY <2>3 DEF AddedOnce, TypeInv, TypeOK
    <3>2. rows'[d].last = IF d = e THEN 0 ELSE rows[d].last
      BY <2>1, <2>3, <3>1, RowsType DEF UiAddDevice
    <3> QED BY <2>1, <3>1, <3>2
  <2>4. CASE ShowResult
    <3>1. Msg.dev \in Devices /\ Msg.n \in Numbers /\ pc = "show"
      BY <2>4, MsgType DEF ShowResult, TypeInv, HandlerOK
    <3>2. Msg.n \in 0..MaxChecks
      BY <3>1, NumberFacts
    <3>3. d = Msg.dev /\ rows'[d].last = Msg.n
      BY <2>1, <2>4, <3>1, <3>2, LastAfterResult DEF ShowResult
    <3>4. rows[d].last \in Numbers /\ Recorded(d, rows[d].last)
      BY <2>1, <3>3, <3>2 DEF ShownInv, ShownIsRecorded, Numbers
    <3>5. rows[d].last <= Msg.n
      BY <2>2, <3>1, <3>3, <3>4, HandledIsNewest
    <3> QED BY <2>1, <3>3, <3>5
  <2> QED BY <2>1, <2>2, <2>3, <2>4, CardsFrame
<1>2. LedgerInv => AddedOnce
  BY DEF LedgerInv
<1>3. Spec => [][A]_vars
  BY <1>1, <1>2, SpecTypeInv, SpecShownInv, SpecLedgerInv, SpecInOrderInv, PTL DEF Spec
<1> QED BY <1>3 DEF OnlyStartupLoadGoesBack

-----------------------------------------------------------------------------
(* The order of the records.                                                *)

\* Without a fault the insert adds one record at most, and a newer one.
LEMMA NextRecordedInOrder ==
  ASSUME TypeInv, TypeInv', LinkInv, InOrderInv, RecordedInOrder, [Next]_vars
  PROVE  RecordedInOrder'
  <1> USE NumberFacts
  <1> SUFFICES ASSUME faults' = 0, NEW d \in Devices,
                      NEW i \in DOMAIN records'[d], NEW j \in DOMAIN records'[d], i < j
               PROVE  records'[d][i].n < records'[d][j].n
    BY DEF RecordedInOrder
  <1>1. faults = 0 /\ ~LinkDrop /\ ~Crash
    BY FaultlessSteps
  <1>2. CASE records'[d] = records[d]
    BY <1>1, <1>2 DEF RecordedInOrder
  <1>3. CASE saveResultToMysql /\ records'[d] # records[d]
    <2>1. Msg.dev \in Devices /\ Msg.n \in Numbers /\ pc = "insert"
      BY <1>3, SaveAppends DEF saveResultToMysql
    <2>2. PICK k \in Nat, lost \in Nat, r \in Records :
            /\ r.n = Msg.n
            /\ k <= lost + 1 /\ faults' = faults + lost
            /\ records' = [records EXCEPT ![Msg.dev] = records[Msg.dev] \o Copies(r, k)]
      BY <1>3, SaveAppends
    <2>3. d = Msg.dev /\ records'[d] = records[d] \o Copies(r, k) /\ k \in {0, 1}
      <3>1. \A e \in Devices : records'[e] = IF e = Msg.dev
                                              THEN records[Msg.dev] \o Copies(r, k)
                                              ELSE records[e]
        BY <2>2 DEF TypeInv, TypeOK
      <3>2. k \in {0, 1}
        BY <1>1, <2>2
      <3> QED BY <1>3, <3>1, <3>2
    <2>4. records[d] \in Seq(Records)
      BY DEF TypeInv, TypeOK
    <2>5. Appended(records[d], records'[d], r, k)
      BY <2>3, <2>4, CopiesAppended
    <2>6. i \in DOMAIN records[d]
      BY <2>3, <2>5 DEF Appended
    <2>7. CASE j \in DOMAIN records[d]
      BY <1>1, <2>5, <2>6, <2>7 DEF RecordedInOrder, Appended
    <2>8. CASE j \notin DOMAIN records[d]
      <3>1. records'[d][j].n = Msg.n
        BY <2>2, <2>5, <2>8 DEF Appended
      <3>2. records[d][i].n \in Numbers /\ Recorded(d, records[d][i].n)
        <4>1. records[d][i] \in Records
          BY <2>4, <2>6
        <4> QED BY <2>6, <4>1 DEF Recorded, Records
      <3>3. records[d][i].n < Msg.n
        BY <1>1, <2>1, <2>3, <3>2, HandledIsNewest
      <3> QED BY <2>5, <2>6, <3>1, <3>3 DEF Appended
    <2> QED BY <2>7, <2>8
  <1> QED BY <1>1, <1>2, <1>3, OtherSteps

(* Without a fault the records of a device are in the order of its checks,  *)
(* so the newest record, which the startup thread shows, is of the newest   *)
(* recorded check: a result that is refused is not saved after a later one. *)
THEOREM SpecRecordedInOrder == Spec => []RecordedInOrder
<1>1. Init => RecordedInOrder
  BY DEF Init, RecordedInOrder
<1>2. /\ TypeInv /\ TypeInv' /\ LinkInv /\ InOrderInv /\ RecordedInOrder /\ [Next]_vars
      => RecordedInOrder'
  BY NextRecordedInOrder
<1> QED BY <1>1, <1>2, SpecTypeInv, SpecInOrderInv, PTL DEF Spec

-----------------------------------------------------------------------------
(* The records of each pile implement PileRecords.                          *)

\* The hashes in Redis are of a check that was run, and what recvMsg holds is
\* of none that is newer.
RedisWasDone ==
  \A d \in Devices : redis[d] # 0 =>
    redis[d] \in Numbers /\ phase[d][redis[d]] \in {"done", "answered"}

SnapshotWasDone == pc = "insert" => snapshot <= redis[Msg.dev]

\* When a pile completes a check, Redis holds an older one.
LEMMA CompletesNewer ==
  ASSUME TypeInv, InOrder, RedisWasDone, NEW d \in Devices, NEW n \in Numbers,
         phase[d][n] = "started"
  PROVE  redis[d] < n
<1> USE NumberFacts
<1>1. redis[d] \in 0..MaxChecks
  BY DEF TypeInv, TypeOK
<1>2. CASE redis[d] = 0
  BY <1>2
<1>3. CASE redis[d] # 0
  <2>1. redis[d] \in Numbers /\ phase[d][redis[d]] \in {"done", "answered"}
    BY <1>3 DEF RedisWasDone
  <2>2. redis[d] # n
    BY <2>1
  <2>3. ~(n < redis[d])
    BY <2>1 DEF InOrder
  <2> QED BY <2>1, <2>2, <2>3
<1> QED BY <1>2, <1>3

LEMMA NextRedisWasDone ==
  ASSUME "abort" \notin Faults, TypeInv, InOrder, RedisWasDone, [Next]_vars
  PROVE  /\ RedisWasDone'
         /\ \A d \in Devices : redis[d] <= redis'[d]
<1> USE NumberFacts
<1>1. \A d \in Devices : redis[d] \in 0..MaxChecks
  BY DEF TypeInv, TypeOK
<1>2. CASE phase' = phase /\ redis' = redis
  BY <1>1, <1>2 DEF RedisWasDone
<1>3. ASSUME NEW d \in Devices, NEW n \in Numbers, NEW from \in Phases, NEW to \in Phases,
             PhaseStep(d, n, from, to), redis' = redis,
             from \notin {"done", "answered"} \/ to \in {"done", "answered"}
      PROVE  RedisWasDone' /\ \A e \in Devices : redis[e] <= redis'[e]
  <2>1. \A e \in Devices, m \in Numbers :
          phase[e][m] \in {"done", "answered"} => phase'[e][m] \in {"done", "answered"}
    BY <1>3 DEF PhaseStep, TypeInv, TypeOK
  <2> QED BY <1>1, <1>3, <2>1 DEF RedisWasDone
<1>4. ASSUME NEW d \in Devices, NEW n \in Numbers,
             PhaseStep(d, n, "started", "done"), redis' = [redis EXCEPT ![d] = n]
      PROVE  RedisWasDone' /\ \A e \in Devices : redis[e] <= redis'[e]
  <2>1. redis[d] < n
    BY <1>4, CompletesNewer DEF PhaseStep
  <2>2. \A e \in Devices : redis'[e] = IF e = d THEN n ELSE redis[e]
    BY <1>4 DEF TypeInv, TypeOK
  <2>3. /\ phase'[d][n] = "done"
        /\ \A e \in Devices \ {d} : phase'[e] = phase[e]
    BY <1>4 DEF PhaseStep, TypeInv, TypeOK
  <2> QED BY <1>1, <2>1, <2>2, <2>3 DEF RedisWasDone
<1>5. /\ {"none", "asked", "lost", "sent", "started", "done", "answered"} \subseteq Phases
  BY DEF Phases
<1> QED BY <1>2, <1>3, <1>4, <1>5, CheckSteps

LEMMA NextSnapshotWasDone ==
  ASSUME "abort" \notin Faults, TypeInv, InOrder, RedisWasDone, SnapshotWasDone,
         [Next]_vars
  PROVE  SnapshotWasDone'
<1> USE DEF startupVars, consumerVars, brokerVars, serverVars, storeVars
<1> SUFFICES ASSUME pc' = "insert" PROVE (snapshot <= redis[Msg.dev])'
  BY DEF SnapshotWasDone
<1>1. \A d \in Devices : /\ redis[d] \in 0..MaxChecks /\ redis'[d] >= redis[d]
                         /\ redis'[d] \in Int
  <2>1. /\ redis \in [Devices -> 0..MaxChecks] /\ redis' \in [Devices -> 0..MaxChecks]
        /\ MaxChecks \in Nat
    BY NextTypeInv, NumberFacts DEF TypeInv, TypeOK
  <2>2. \A d \in Devices : redis[d] <= redis'[d]
    BY NextRedisWasDone
  <2> QED BY <2>1, <2>2
<1>2. CASE Others
  <2>1. snapshot' = snapshot
    BY <1>2 DEF Others, Startup, InitClient, SubMsg, Subscribe, LoadDevices,
            LoadLatest, Ui, UiAddDevice, UiUpdateSelfCheck, CheckDevice, Publish,
            Push, Server, ServerAccept, PileStart, PileComplete, ServerRespond,
            Advance, ServerNoise, LinkDrop, vars
  <2>2. pc = "insert" /\ Msg' = Msg
    BY <1>2, OthersFrame DEF TypeInv, HandlerOK
  <2>3. Msg.dev \in Devices /\ snapshot \in Nat
    BY <2>2, MsgType, NumberFacts DEF TypeInv, TypeOK, HandlerOK
  <2> QED BY <1>1, <2>1, <2>2, <2>3, NumberFacts DEF SnapshotWasDone
<1>3. CASE getResultFromRedis
  <2>1. Msg' = Msg /\ snapshot' = redis[Msg.dev] /\ redis' = redis /\ pc = "read"
    BY <1>3 DEF getResultFromRedis, GiveUp, Msg
  <2>2. Msg.dev \in Devices
    BY <2>1, MsgType DEF TypeInv, HandlerOK
  <2> QED BY <1>1, <2>1, <2>2, NumberFacts
<1>4. ~(\/ RecvNotice \/ RecvResult \/ saveResultToMysql \/ ShowProgress
        \/ ShowResult \/ Ack \/ ChannelError \/ Crash)
  BY DEF RecvNotice, RecvResult, GiveUp, saveResultToMysql, SaveAttempt,
         ShowProgress, ShowResult, Ack, ChannelError, Crash
<1> QED BY <1>2, <1>3, <1>4, NextSplit DEF Handler

PileInv == AgeInv /\ RedisWasDone /\ SnapshotWasDone

LEMMA SpecPileInv ==
  ASSUME "abort" \notin Faults
  PROVE  Spec => []PileInv
<1>1. Init => RedisWasDone /\ SnapshotWasDone
  BY DEF Init, RedisWasDone, SnapshotWasDone
<1>2. TypeInv /\ PileInv /\ [Next]_vars => RedisWasDone' /\ SnapshotWasDone'
  BY NextRedisWasDone, NextSnapshotWasDone DEF PileInv, AgeInv
<1> QED BY <1>1, <1>2, SpecAgeInv, SpecTypeInv, PTL DEF Spec, PileInv

\* What PileRecords sees of a device.
AnswersOf(d) == {n \in Numbers : phase[d][n] = "answered"}
LogOf(d)     == {Measured(records[d][i]) : i \in DOMAIN records[d]}

LEMMA PileStutters ==
  ASSUME NEW d \in Devices, redis'[d] = redis[d], AnswersOf(d)' = AnswersOf(d),
         records'[d] = records[d]
  PROVE  UNCHANGED PileLog(d)!vars
BY DEF PileLog!vars, AnswersOf, Measured

\* A check moves on: its completion begins it, its answer answers it, and
\* PileRecords sees nothing else of it.
LEMMA CheckLog ==
  ASSUME TypeInv, PileInv, NEW d \in Devices,
         NEW e \in Devices, NEW n \in Numbers, NEW from \in Phases, NEW to \in Phases,
         PhaseStep(e, n, from, to), from # "answered",
         to = "answered" => from = "done",
         IF to = "done" THEN from = "started" /\ redis' = [redis EXCEPT ![e] = n]
                        ELSE redis' = redis
  PROVE  PileLog(d)!Next \/ UNCHANGED PileLog(d)!vars
<1> USE NumberFacts
<1>1. /\ phase[e][n] = from /\ phase'[e][n] = to /\ records' = records
      /\ \A c \in Devices, m \in Numbers :
           ~(c = e /\ m = n) => phase'[c][m] = phase[c][m]
  BY DEF PhaseStep, TypeInv, TypeOK
<1>2. /\ \A c \in Devices : redis'[c] = IF c = e /\ to = "done" THEN n ELSE redis[c]
      /\ redis[d] \in 0..MaxChecks
  BY DEF TypeInv, TypeOK
<1>3. AnswersOf(d)' = IF d = e /\ to = "answered" THEN AnswersOf(d) \cup {n}
                                                  ELSE AnswersOf(d)
  BY <1>1 DEF AnswersOf
<1>4. LogOf(d)' = LogOf(d)
  BY <1>1 DEF LogOf, Measured
<1>5. CASE d = e /\ to = "done"
  <2>1. redis[d] < n
    BY <1>1, <1>5, CompletesNewer DEF PileInv, AgeInv
  <2>2. PileLog(d)!Begin(n)
    BY <1>2, <1>3, <1>4, <1>5, <2>1 DEF PileLog!Begin, AnswersOf, LogOf
  <2> QED BY <2>2 DEF PileLog!Next
<1>6. CASE d = e /\ to = "answered"
  <2>1. n <= redis[d]
    BY <1>1, <1>2, <1>6 DEF PileInv, AgeInv, RedisIsNewest
  <2>2. PileLog(d)!Answer(n)
    BY <1>2, <1>3, <1>4, <1>6, <2>1 DEF PileLog!Answer, AnswersOf, LogOf
  <2> QED BY <2>2 DEF PileLog!Next
<1>7. CASE ~(d = e /\ to \in {"done", "answered"})
  BY <1>1, <1>2, <1>3, <1>7, PileStutters
<1> QED BY <1>5, <1>6, <1>7

\* The insert is one record more for its device, however often it is sent.
LEMMA SaveLog ==
  ASSUME TypeInv, ResultIsAnswer, PileInv, saveResultToMysql, NEW d \in Devices
  PROVE  PileLog(d)!Next \/ UNCHANGED PileLog(d)!vars
<1> USE NumberFacts
<1>1. /\ UNCHANGED <<phase, redis>> /\ pc = "insert"
      /\ Msg.dev \in Devices /\ Msg.n \in Numbers
  BY SaveAppends DEF saveResultToMysql, serverVars
<1>2. PICK k \in Nat, lost \in Nat, r \in Records :
        /\ r.n = Msg.n /\ r.source = snapshot
        /\ records' = [records EXCEPT ![Msg.dev] = records[Msg.dev] \o Copies(r, k)]
  BY SaveAppends
<1>3. \A c \in Devices : records'[c] = IF c = Msg.dev
                                        THEN records[Msg.dev] \o Copies(r, k)
                                        ELSE records[c]
  BY <1>2 DEF TypeInv, TypeOK
<1>4. AnswersOf(d)' = AnswersOf(d) /\ redis'[d] = redis[d]
  BY <1>1 DEF AnswersOf
<1>5. CASE d # Msg.dev \/ records'[d] = records[d]
  BY <1>3, <1>4, <1>5, PileStutters
<1>6. CASE d = Msg.dev /\ records'[d] # records[d]
  <2>1. records[d] \in Seq(Records) /\ records'[d] = records[d] \o Copies(r, k)
    BY <1>3, <1>6 DEF TypeInv, TypeOK
  <2>2. Appended(records[d], records'[d], r, k)
    BY <2>1, CopiesAppended
  <2>3. k # 0
    BY <1>6, <2>1, <2>2 DEF Copies
  <2>4. Len(records[d]) + 1 \in DOMAIN records'[d]
        /\ records'[d][Len(records[d]) + 1] = r
    BY <2>2, <2>3 DEF Appended
  <2>5. LogOf(d)' = LogOf(d) \cup {Measured(r)}
    BY <2>2, <2>4 DEF LogOf, Measured, Appended
  <2>6. phase[d][Msg.n] = "answered"
    <3>1. inbox # <<>> /\ Msg.kind = "RESULT"
      BY <1>1 DEF TypeInv, HandlerOK
    <3>2. /\ Head(inbox).queue \in Queues
          /\ Head(inbox).tag \in DOMAIN queue[Head(inbox).queue]
      BY <3>1, MsgType
    <3> QED BY <1>6, <3>1, <3>2 DEF Msg, ResultIsAnswer
  <2>7. r.n <= r.source /\ r.source <= redis[d] /\ r.source \in 0..MaxChecks
    BY <1>1, <1>2, <1>6 DEF PileInv, AgeInv, SnapshotWasDone, Records
  <2>8. PICK n, of : n = r.n /\ of = [m \in {"hashes"} |-> r.source]
    OBVIOUS
  <2>9. n \in Numbers /\ of \in [{"hashes"} -> Numbers \cup {0}]
    BY <1>1, <1>2, <2>7, <2>8 DEF Numbers
  <2>10. Measured(r) = [n |-> n, of |-> of]
    BY <2>8 DEF Measured
  <2>11. PileLog(d)!Record(n, of)
    BY <1>1, <1>2, <1>4, <2>5, <2>6, <2>7, <2>8, <2>10
       DEF PileLog!Record, AnswersOf, LogOf
  <2> QED BY <2>9, <2>11 DEF PileLog!Next
<1> QED BY <1>5, <1>6

(* Each device is what CcuResult makes of its pile: whatever is delivered   *)
(* or inserted again, lost or restarted, only answered checks are recorded, *)
(* with hashes that were measured by the check of the result or a later one *)
(* and before the insert, and what is recorded is never changed.            *)
THEOREM SpecImplementsPileRecords ==
  ASSUME "abort" \notin Faults
  PROVE  Spec => ImplementsPileRecords
<1> DEFINE Start == \A d \in Devices : PileLog(d)!Init
           Step  == \A d \in Devices : [PileLog(d)!Next]_(PileLog(d)!vars)
<1>1. Init => Start
  BY DEF Init, PileLog!Init
<1>2. TypeInv /\ LedgerInv /\ PileInv /\ [Next]_vars => [Step]_vars
  <2> SUFFICES ASSUME TypeInv, ResultIsAnswer, PileInv, [Next]_vars, NEW d \in Devices
               PROVE  PileLog(d)!Next \/ UNCHANGED PileLog(d)!vars
    BY DEF LedgerInv
  <2>1. CASE saveResultToMysql
    BY <2>1, SaveLog
  <2>2. ASSUME phase' = phase, redis' = redis, ~saveResultToMysql
        PROVE  PileLog(d)!Next \/ UNCHANGED PileLog(d)!vars
    <3>1. records' = records
      BY <2>2, OtherSteps DEF LinkDrop, Crash, storeVars
    <3> QED BY <2>2, <3>1, PileStutters DEF AnswersOf
  <2>3. {"none", "asked", "lost", "sent", "started", "done", "answered"} \subseteq Phases
    BY DEF Phases
  <2>4. ASSUME NEW e \in Devices, NEW n \in Numbers,
               NEW from \in {"none", "asked", "sent", "started", "done"},
               NEW to \in {"asked", "lost", "sent", "started", "done", "answered"},
               PhaseStep(e, n, from, to),
               to = "answered" => from = "done",
               IF to = "done" THEN from = "started" /\ redis' = [redis EXCEPT ![e] = n]
                              ELSE redis' = redis
        PROVE  PileLog(d)!Next \/ UNCHANGED PileLog(d)!vars
    BY <2>3, <2>4, CheckLog
  <2> QED BY <2>1, <2>2, <2>4, CheckSteps
<1> HIDE DEF Start, Step
<1>3. Spec => Start /\ [][Step]_vars
  BY <1>1, <1>2, SpecTypeInv, SpecLedgerInv, SpecPileInv, PTL DEF Spec
<1> QED BY <1>3 DEF Start, Step, ImplementsPileRecords

-----------------------------------------------------------------------------
(* When a result is given up.                                               *)

RefusedWithoutCard ==
  [][\A d \in Devices, n \in Numbers :
       <<d, n>> \in refused' \ refused => ~rows[d].present]_vars

\* recvMsg gives up a result at one of three places.
LEMMA RefusalSteps ==
  ASSUME [Next]_vars, refused' # refused
  PROVE  /\ refused' = refused \cup {<<Msg.dev, Msg.n>>}
         /\ \/ RecvResult /\ ~rows[Msg.dev].present
            \/ getResultFromRedis /\ (redis[Msg.dev] = 0 \/ "redis" \in Faults)
            \/ saveResultToMysql /\ "mysql" \in Faults
<1> USE DEF startupVars, consumerVars, brokerVars, serverVars, storeVars
<1>1. CASE RecvResult
  BY <1>1 DEF RecvResult, GiveUp
<1>2. CASE getResultFromRedis
  BY <1>2 DEF getResultFromRedis, GiveUp
<1>3. CASE saveResultToMysql
  BY <1>3 DEF saveResultToMysql, SaveAttempt, GiveUp
<1> QED
  BY <1>1, <1>2, <1>3, NextSplit
  DEF Handler, RecvNotice, ShowProgress, ShowResult, Ack, ChannelError, Crash, Others,
      Startup, Ui, InitClient, SubMsg, LoadDevices, LoadLatest, UiAddDevice,
      UiUpdateSelfCheck, CheckDevice, Push, Server, ServerAccept, PileStart,
      PileComplete, ServerRespond, Advance, ServerNoise, LinkDrop, vars

\* Before the first fault, whoever asked for a check had a card, and it stays.
CardsStay ==
  faults = 0 =>
    /\ \A d \in Devices, n \in Numbers : phase[d][n] # "none" => rows[d].present
    /\ \A c \in refused : rows[c[1]].present

\* A check begins with the click on a card.
LEMMA ChecksBegin ==
  ASSUME TypeInv, [Next]_vars, NEW d \in Devices, NEW n \in Numbers,
         phase[d][n] = "none", phase'[d][n] # "none"
  PROVE  rows[d].present
<1> USE DEF startupVars, consumerVars, brokerVars, serverVars, storeVars
<1>1. CASE \E e \in Devices, m \in Numbers : CheckDevice(e, m)
  <2>1. PICK e \in Devices, m \in Numbers : CheckDevice(e, m)
    BY <1>1
  <2>2. PICK to : phase' = [phase EXCEPT ![e][m] = to]
    BY <2>1 DEF CheckDevice, Publish
  <2>3. e = d
    BY <2>2 DEF TypeInv, TypeOK
  <2> QED BY <2>1, <2>3 DEF CheckDevice
<1>2. ASSUME NEW e \in Devices, NEW m \in Numbers,
             \/ ServerAccept(e, m) \/ PileStart(e, m)
             \/ PileComplete(e, m) \/ ServerRespond(e, m)
      PROVE  FALSE
  <2>1. PICK from \in {"asked", "sent", "started", "done"},
             to \in {"sent", "started", "done", "answered"} : Advance(e, m, from, to)
    BY <1>2 DEF ServerAccept, PileStart, PileComplete, ServerRespond
  <2> QED BY <2>1 DEF Advance, TypeInv, TypeOK
<1>3. CASE Startup \/ Ui \/ Handler
  BY <1>3 DEF Startup, InitClient, SubMsg, LoadDevices, LoadLatest,
              Ui, UiAddDevice, UiUpdateSelfCheck, Handler, RecvNotice, RecvResult,
              getResultFromRedis, saveResultToMysql, ShowProgress, ShowResult, Ack
<1>4. CASE \/ ChannelError \/ Crash \/ LinkDrop \/ UNCHANGED vars
           \/ \E q \in Queues : Push(q)
           \/ \E q \in Queues, e \in Devices : ServerNoise(q, e)
  BY <1>4 DEF ChannelError, Crash, LinkDrop, Push, ServerNoise, vars
<1> QED BY <1>1, <1>2, <1>3, <1>4 DEF Next, Server

\* The faults that were counted are not forgotten.
LEMMA NoFaultBefore ==
  ASSUME TypeInv, [Next]_vars, faults' = 0
  PROVE  faults = 0 /\ ~Crash
<1>1. faults \in Nat
  BY SelfCheckAssumption DEF SelfCheckAssumption, TypeInv, TypeOK
<1>2. ~LinkDrop /\ ~Crash
  BY <1>1 DEF LinkDrop, Crash
<1>3. CASE saveResultToMysql
  <2>1. PICK lost \in Nat : faults' = faults + lost
    BY <1>3, SaveAppends
  <2> QED BY <1>1, <1>2, <2>1
<1>4. CASE ~saveResultToMysql
  BY <1>2, <1>4, OtherSteps
<1> QED BY <1>3, <1>4

LEMMA NextCardsStay ==
  TypeInv /\ LedgerInv /\ CardsStay /\ [Next]_vars => CardsStay'
<1> SUFFICES ASSUME TypeInv, LedgerInv, CardsStay, [Next]_vars, faults' = 0
             PROVE  /\ \A d \in Devices, n \in Numbers :
                         phase'[d][n] # "none" => rows'[d].present
                    /\ \A c \in refused' : rows'[c[1]].present
  BY DEF CardsStay
<1>1. faults = 0 /\ ~Crash
  BY NoFaultBefore
<1>2. ASSUME NEW d \in Devices, rows[d].present PROVE rows'[d].present
  <2>1. CASE \E e \in toAdd : UiAddDevice(e)
    <3>1. PICK e \in Devices : rows' = addDevice(rows, e)
      BY <2>1 DEF UiAddDevice, TypeInv, TypeOK
    <3> QED BY <1>2, <3>1, UpdatesFrame
  <2>2. CASE UiUpdateSelfCheck
    <3>1. uiQueue \in Seq(Loads) /\ uiQueue # <<>>
      BY <2>2 DEF UiUpdateSelfCheck, TypeInv, TypeOK
    <3>2. Head(uiQueue) \in Loads
      BY <3>1, HeadTailProperties
    <3>3. Head(uiQueue).dev \in Devices
      BY <3>2 DEF Loads
    <3> QED BY <1>2, <2>2, <3>3, UpdatesFrame DEF UiUpdateSelfCheck
  <2>3. CASE ShowResult
    <3>1. Msg.dev \in Devices
      BY <2>3, MsgType DEF ShowResult, TypeInv, HandlerOK
    <3> QED BY <1>2, <2>3, <3>1, UpdatesFrame DEF ShowResult
  <2> QED BY <1>1, <1>2, <2>1, <2>2, <2>3, CardsFrame
<1>3. ASSUME NEW d \in Devices, NEW n \in Numbers, phase'[d][n] # "none"
      PROVE  rows'[d].present
  <2>1. phase[d][n] # "none" => rows[d].present
    BY <1>1 DEF CardsStay
  <2> QED BY <1>2, <1>3, <2>1, ChecksBegin
<1>4. ASSUME NEW c \in refused' PROVE rows'[c[1]].present
  <2>1. CASE c \in refused
    BY <1>1, <1>2, <2>1 DEF CardsStay, TypeInv, TypeOK
  <2>2. CASE c \notin refused
    <3>1. /\ c = <<Msg.dev, Msg.n>>
          /\ RecvResult \/ getResultFromRedis \/ saveResultToMysql
      BY <2>2, RefusalSteps
    <3>2. inbox # <<>> /\ Msg.kind = "RESULT"
      BY <3>1 DEF RecvResult, getResultFromRedis, saveResultToMysql, TypeInv,
                  HandlerOK
    <3>3. /\ Msg.dev \in Devices /\ Msg.n \in Numbers
          /\ Head(inbox).queue \in Queues
          /\ Head(inbox).tag \in DOMAIN queue[Head(inbox).queue]
      BY <3>2, MsgType
    <3>4. phase[Msg.dev][Msg.n] = "answered"
      BY <3>2, <3>3 DEF Msg, LedgerInv, ResultIsAnswer
    <3> QED BY <1>1, <1>2, <3>1, <3>3, <3>4 DEF CardsStay
  <2> QED BY <2>1, <2>2
<1> QED BY <1>3, <1>4

(* Whatever connection or process ends, an answered check is recorded, or   *)
(* recvMsg has given up on it, or the broker still has its result; and what *)
(* recvMsg has given up on before anything failed is of a device whose card *)
(* is there, so it was not for want of one.                                 *)
THEOREM SpecNoResultLost == Spec => []NoResultLost
<1>1. Init => CardsStay
  BY DEF Init, CardsStay
<1>2. LossInv /\ CardsStay => NoResultLost
  BY SettledOrQueued DEF CardsStay, NoResultLost, Settled
<1> QED BY <1>1, <1>2, NextCardsStay, SpecTypeInv, SpecLedgerInv, SpecLossInv,
           PTL DEF Spec

(* While Redis and MySQL answer, the only result recvMsg gives up is one    *)
(* that comes before the card of its device is there, as after a restart:   *)
(* when it comes to a result, Redis has the hashes of its check.            *)
THEOREM SpecRefusedWithoutCard ==
  ASSUME Faults \cap {"abort", "redis", "mysql"} = {}
  PROVE  Spec => RefusedWithoutCard
<1> DEFINE A == \A d \in Devices, n \in Numbers :
                  <<d, n>> \in refused' \ refused => ~rows[d].present
<1>0. "abort" \notin Faults
  OBVIOUS
<1>1. TypeInv /\ LedgerInv /\ AgeInv /\ [Next]_vars => [A]_vars
  <2> SUFFICES ASSUME TypeInv, ResultIsAnswer, RedisIsNewest, [Next]_vars,
                      NEW d \in Devices, NEW n \in Numbers,
                      <<d, n>> \in refused' \ refused
               PROVE  ~rows[d].present
    BY DEF LedgerInv, AgeInv
  <2>1. d = Msg.dev /\ n = Msg.n
    BY RefusalSteps
  <2>2. ASSUME getResultFromRedis PROVE redis[Msg.dev] # 0
    <3>1. inbox # <<>> /\ Msg.kind = "RESULT"
      BY <2>2 DEF getResultFromRedis, TypeInv, HandlerOK
    <3>2. /\ Msg.dev \in Devices /\ Msg.n \in Numbers
          /\ Head(inbox).queue \in Queues
          /\ Head(inbox).tag \in DOMAIN queue[Head(inbox).queue]
      BY <3>1, MsgType
    <3>3. phase[Msg.dev][Msg.n] = "answered"
      BY <3>1, <3>2 DEF Msg, ResultIsAnswer
    <3>4. redis[Msg.dev] >= Msg.n
      BY <3>2, <3>3 DEF RedisIsNewest
    <3> QED BY <3>2, <3>4, NumberFacts
  <2> QED BY <2>1, <2>2, RefusalSteps
<1> HIDE DEF A
<1>2. Spec => [][A]_vars
  BY <1>0, <1>1, SpecTypeInv, SpecLedgerInv, SpecAgeInv, PTL DEF Spec
<1> QED BY <1>2 DEF A, RefusedWithoutCard
=============================================================================
