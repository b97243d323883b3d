----------------------------- MODULE CardsProofs -----------------------------
(***************************************************************************)
(* Theorems about Cards, for every set of devices, tables, texts and every *)
(* bound.                                                                  *)
(***************************************************************************)
EXTENDS Cards, SequenceTheorems, TLAPS

\* What a card can show at all, which the type invariant of the model leaves
\* out.
Shown == BOOLEAN \cup Texts \cup {"normal", "offline", "", 0, 1}

\* Each device of the model has a card while the home page is there, and only
\* changes of such a device are announced.
CardsOfRows == home => cards = {d \in Devices : rows[d].present}
KnownDevice(n) == IsNotice(n) => rows[n.dev].present

TypeInv ==
  /\ TypeOK
  /\ card \in [Devices -> [Bindings -> Shown]]
  /\ CardsOfRows
  /\ \A t \in Threads : KnownDevice(emitting[t])
  /\ \A i \in DOMAIN uiQueue : KnownDevice(uiQueue[i])

-----------------------------------------------------------------------------
(* The events and the rows.                                                 *)

\* What kind an event is can be told from its name.
LEMMA NoticeKind ==
  ASSUME NEW n \in Notices
  PROVE  IsNotice(n) /\ n.dev \in Devices /\ n.roles \subseteq Roles
BY DEF Notices, IsNotice

LEMMA OtherKind ==
  ASSUME NEW e \in Calls \cup AddDevices \cup {Silence}
  PROVE  ~IsNotice(e)
BY DEF Calls, SelfChecks, Progresses, Onlines, AddDevices, Silence, IsNotice

\* What each update does to the rows, and what it announces.
LEMMA SelfCheckUpdate ==
  ASSUME NEW c \in SelfChecks
  PROVE  /\ c.dev \in Devices /\ c.result \in {0, 1}
         /\ Updated(c) = OnKnown(rows, c.dev,
                                 [rows[c.dev] EXCEPT !.last = c.result])
         /\ ChangedRoles(c) = {"LastCheckTime", "StatusText"}
         /\ c.name # "updateOnlineStatus"
BY DEF SelfChecks, Updated, ChangedRoles, updateSelfCheck

LEMMA ProgressUpdate ==
  ASSUME NEW c \in Progresses
  PROVE  /\ c.dev \in Devices /\ c.desc \in Texts /\ c.isChecking \in BOOLEAN
         /\ Updated(c) = OnKnown(rows, c.dev,
              [rows[c.dev] EXCEPT !.text = c.desc, !.checking = c.isChecking])
         /\ ChangedRoles(c) = {"StatusText", "IsChecking"}
         /\ c.name # "updateOnlineStatus"
BY DEF Progresses, Updated, ChangedRoles, updateSelfCheckProgress

LEMMA OnlineUpdate ==
  ASSUME NEW c \in Onlines
  PROVE  /\ c.dev \in Devices
         /\ \E s \in {"Online", "Offline"} :
              Updated(c) = OnKnown(rows, c.dev,
                                   [rows[c.dev] EXCEPT !.online = s])
         /\ ChangedRoles(c) = {"IsOnline", "StatusText"}
<1>1. c.dev \in Devices /\ c.name = "updateOnlineStatus"
  BY DEF Onlines
<1>2. Updated(c) = updateOnlineStatus(rows, c.dev, c.isOnline)
  BY <1>1 DEF Updated
<1>3. ChangedRoles(c) = {"IsOnline", "StatusText"}
  BY <1>1 DEF ChangedRoles
<1> QED BY <1>1, <1>2, <1>3 DEF updateOnlineStatus

\* The rows an update may write instead of row r.
LEMMA LastRow ==
  ASSUME NEW r \in Rows, NEW x \in {0, 1}
  PROVE  /\ [r EXCEPT !.last = x] \in Rows
         /\ [r EXCEPT !.last = x].present = r.present
         /\ \A b \in Bindings :
              Value(b, [r EXCEPT !.last = x]) # Value(b, r) => b = "lastCheck"
<1> DEFINE n == [r EXCEPT !.last = x]
<1>1. n \in Rows /\ n.present = r.present /\ n.online = r.online
      /\ n.text = r.text /\ n.checking = r.checking
  BY DEF Rows
<1> HIDE DEF n
<1>2. \A b \in Bindings : Value(b, n) # Value(b, r) => b = "lastCheck"
  BY <1>1 DEF Bindings, Value, Fallback, IsOnline
<1> QED BY <1>1, <1>2 DEF n

LEMMA ProgressRow ==
  ASSUME NEW r \in Rows, NEW x \in Texts, NEW y \in BOOLEAN
  PROVE  /\ [r EXCEPT !.text = x, !.checking = y] \in Rows
         /\ [r EXCEPT !.text = x, !.checking = y].present = r.present
         /\ \A b \in Bindings :
              Value(b, [r EXCEPT !.text = x, !.checking = y]) # Value(b, r)
                => b \in {"statusText", "checking"}
<1> DEFINE n == [r EXCEPT !.text = x, !.checking = y]
<1> DEFINE m == [r EXCEPT !.text = x]
<1>0. m = [present |-> r.present, online |-> r.online,
           checking |-> r.checking, text |-> x, last |-> r.last]
  BY DEF Rows
<1>a. n = [m EXCEPT !.checking = y]
  OBVIOUS
<1> HIDE DEF n, m
<1>1. n = [present |-> r.present, online |-> r.online, checking |-> y,
           text |-> x, last |-> r.last]
  BY <1>0, <1>a
<1>2. n \in Rows /\ n.present = r.present /\ n.online = r.online
      /\ n.last = r.last
  BY <1>1 DEF Rows
<1>3. \A b \in Bindings :
        Value(b, n) # Value(b, r) => b \in {"statusText", "checking"}
  BY <1>2 DEF Bindings, Value, Fallback, IsOnline
<1> QED BY <1>2, <1>3 DEF n

LEMMA OnlineRow ==
  ASSUME NEW r \in Rows, NEW x \in {"Online", "Offline"}
  PROVE  /\ [r EXCEPT !.online = x] \in Rows
         /\ [r EXCEPT !.online = x].present = r.present
         /\ \A b \in Bindings :
              Value(b, [r EXCEPT !.online = x]) # Value(b, r)
                => b \in {"online", "statusText"}
<1> DEFINE n == [r EXCEPT !.online = x]
<1>1. n = [present |-> r.present, online |-> x, checking |-> r.checking,
           text |-> r.text, last |-> r.last]
  BY DEF Rows
<1> HIDE DEF n
<1>2. n \in Rows /\ n.present = r.present /\ n.checking = r.checking
      /\ n.last = r.last
  BY <1>1 DEF Rows
<1>3. \A b \in Bindings :
        Value(b, n) # Value(b, r) => b \in {"online", "statusText"}
  BY <1>2 DEF Bindings, Value, Fallback, IsOnline
<1> QED BY <1>2, <1>3 DEF n

\* The row of another device, and every row if the device is unknown, stays.
LEMMA OnKnownRows ==
  ASSUME rows \in [Devices -> Rows], NEW d \in Devices, NEW row \in Rows,
         row.present = rows[d].present
  PROVE  /\ OnKnown(rows, d, row) \in [Devices -> Rows]
         /\ \A e \in Devices :
              /\ OnKnown(rows, d, row)[e].present = rows[e].present
              /\ OnKnown(rows, d, row)[e] # rows[e] =>
                   e = d /\ rows[d].present /\ OnKnown(rows, d, row)[e] = row
BY DEF OnKnown

\* An update leaves rows, keeps the devices that are present, and announces
\* a notice; and each binding of a card keeps its value or reads a role that
\* is announced.
LEMMA UpdateTells ==
  ASSUME rows \in [Devices -> Rows], NEW c \in Calls
  PROVE  /\ Updated(c) \in [Devices -> Rows]
         /\ Notice(c.dev, ChangedRoles(c)) \in Notices
         /\ \A d \in Devices : Updated(c)[d].present = rows[d].present
         /\ \A d \in Devices, b \in Bindings :
              Value(b, Updated(c)[d]) # Value(b, rows[d]) =>
                /\ d = c.dev /\ Announces(c)
                /\ Reads(b) \cap ChangedRoles(c) # {}
<1> DEFINE Goal(row, bs) ==
             /\ c.dev \in Devices
             /\ row \in Rows /\ row.present = rows[c.dev].present
             /\ Updated(c) = OnKnown(rows, c.dev, row)
             /\ \A b \in Bindings : Value(b, row) # Value(b, rows[c.dev]) => b \in bs
<1>1. CASE c \in SelfChecks
  <2>1. rows[c.dev] \in Rows
    BY SelfCheckUpdate, <1>1
  <2>2. Goal([rows[c.dev] EXCEPT !.last = c.result], {"lastCheck"})
    BY SelfCheckUpdate, LastRow, <1>1, <2>1
  <2>3. PICK row : Goal(row, {"lastCheck"})
    BY <2>2
  <2>4. Notice(c.dev, ChangedRoles(c)) \in Notices
    BY SelfCheckUpdate, <1>1 DEF Notice, Notices, Roles
  <2>5. \A b \in {"lastCheck"} : Reads(b) \cap ChangedRoles(c) # {}
    BY SelfCheckUpdate, <1>1 DEF Reads
  <2>6. \A d \in Devices, b \in Bindings :
          Value(b, Updated(c)[d]) # Value(b, rows[d]) =>
            d = c.dev /\ Announces(c) /\ b \in {"lastCheck"}
    BY SelfCheckUpdate, OnKnownRows, <1>1, <2>3 DEF Announces
  <2> QED BY OnKnownRows, <2>3, <2>4, <2>5, <2>6
<1>2. CASE c \in Progresses
  <2>1. rows[c.dev] \in Rows
    BY ProgressUpdate, <1>2
  <2>2. Goal([rows[c.dev] EXCEPT !.text = c.desc, !.checking = c.isChecking],
             {"statusText", "checking"})
    BY ProgressUpdate, ProgressRow, <1>2, <2>1
  <2>3. PICK row : Goal(row, {"statusText", "checking"})
    BY <2>2
  <2>4. Notice(c.dev, ChangedRoles(c)) \in Notices
    BY ProgressUpdate, <1>2 DEF Notice, Notices, Roles
  <2>5. \A b \in {"statusText", "checking"} : Reads(b) \cap ChangedRoles(c) # {}
    BY ProgressUpdate, <1>2 DEF Reads
  <2>6. \A d \in Devices, b \in Bindings :
          Value(b, Updated(c)[d]) # Value(b, rows[d]) =>
            d = c.dev /\ rows[c.dev].present /\ b \in {"statusText", "checking"}
    <3>1. \A d \in Devices : Updated(c)[d] # rows[d] =>
            d = c.dev /\ rows[c.dev].present /\ Updated(c)[d] = row
      BY OnKnownRows, <2>3
    <3> HIDE DEF Goal
    <3>2. \A b \in Bindings : Value(b, row) # Value(b, rows[c.dev]) =>
            b \in {"statusText", "checking"}
      BY <2>3 DEF Goal
    <3> QED BY <3>1, <3>2
  <2>7. rows[c.dev].present => Announces(c)
    BY ProgressUpdate, <1>2 DEF Announces
  <2>8. /\ Updated(c) \in [Devices -> Rows]
        /\ \A d \in Devices : Updated(c)[d].present = rows[d].present
    BY OnKnownRows, <2>3
  <2> QED BY <2>4, <2>5, <2>6, <2>7, <2>8
<1>3. CASE c \in Onlines
  <2>1. c.dev \in Devices /\ rows[c.dev] \in Rows
    BY OnlineUpdate, <1>3
  <2>2. PICK s \in {"Online", "Offline"} :
          Updated(c) = OnKnown(rows, c.dev, [rows[c.dev] EXCEPT !.online = s])
    BY OnlineUpdate, <1>3
  <2>3. Goal([rows[c.dev] EXCEPT !.online = s], {"online", "statusText"})
    BY OnlineRow, <2>1, <2>2
  <2>4. PICK row : Goal(row, {"online", "statusText"})
    BY <2>3
  <2>5. Notice(c.dev, ChangedRoles(c)) \in Notices
    BY OnlineUpdate, <1>3 DEF Notice, Notices, Roles
  <2>6. \A b \in {"online", "statusText"} : Reads(b) \cap ChangedRoles(c) # {}
    BY OnlineUpdate, <1>3 DEF Reads
  <2>7. \A d \in Devices, b \in Bindings :
          Value(b, Updated(c)[d]) # Value(b, rows[d]) =>
            d = c.dev /\ Announces(c) /\ b \in {"online", "statusText"}
    BY OnKnownRows, <2>4 DEF Announces
  <2> QED BY OnKnownRows, <2>4, <2>5, <2>6, <2>7
<1> QED BY <1>1, <1>2, <1>3 DEF Calls

\* Every binding reads some role.
LEMMA BindingsRead ==
  ASSUME NEW b \in Bindings
  PROVE  Reads(b) \cap Roles # {}
BY DEF Bindings, Reads, Roles

\* A value of a binding is one a card can show.
LEMMA ValueShown ==
  ASSUME NEW row \in Rows, NEW b \in Bindings
  PROVE  Value(b, row) \in Shown
BY DEF Rows, Bindings, Value, Shown, Fallback, IsOnline

LEMMA FallbackShown == \A row \in Rows : Fallback(row) \in Shown
BY DEF Fallback, Shown

-----------------------------------------------------------------------------
(* The queue of the UI thread.                                              *)

LEMMA QueueTail ==
  ASSUME NEW q \in Seq(Events), q # <<>>
  PROVE  /\ Head(q) \in Events /\ Tail(q) \in Seq(Events)
         /\ 1 \in DOMAIN q /\ Head(q) = q[1]
         /\ \A i \in DOMAIN Tail(q) : i + 1 \in DOMAIN q /\ Tail(q)[i] = q[i + 1]
         /\ \A i \in DOMAIN q : i # 1 =>
              i - 1 \in DOMAIN Tail(q) /\ Tail(q)[i - 1] = q[i]
OBVIOUS

LEMMA QueueAppend ==
  ASSUME NEW q \in Seq(Events), NEW e \in Events
  PROVE  /\ Append(q, e) \in Seq(Events)
         /\ \A i \in DOMAIN Append(q, e) :
              (i \in DOMAIN q /\ Append(q, e)[i] = q[i]) \/ Append(q, e)[i] = e
         /\ \A i \in DOMAIN q : i \in DOMAIN Append(q, e) /\ Append(q, e)[i] = q[i]
         /\ \E i \in DOMAIN Append(q, e) : Append(q, e)[i] = e
<1>1. /\ Append(q, e) \in Seq(Events)
      /\ DOMAIN Append(q, e) = 1..(Len(q) + 1)
      /\ \A i \in DOMAIN q : i \in DOMAIN Append(q, e) /\ Append(q, e)[i] = q[i]
      /\ Append(q, e)[Len(q) + 1] = e
      /\ DOMAIN q = 1..Len(q) /\ Len(q) \in Nat
  OBVIOUS
<1>2. \A i \in 1..(Len(q) + 1) : i \in 1..Len(q) \/ i = Len(q) + 1
  BY <1>1
<1>3. Len(q) + 1 \in DOMAIN Append(q, e)
  BY <1>1
<1> QED BY <1>1, <1>2, <1>3

\* A page that goes away leaves every event but the signals as it is.
LEMMA UnheardEvents ==
  ASSUME NEW e \in Events
  PROVE  /\ Unheard(e) \in Events
         /\ IsNotice(Unheard(e)) => Unheard(e).roles = {}
<1>1. CASE e \in Notices
  <2>1. [e EXCEPT !.roles = {}] \in Notices /\ [e EXCEPT !.roles = {}].roles = {}
    BY <1>1 DEF Notices
  <2> QED BY <1>1, <2>1, NoticeKind DEF Unheard, Events
<1>2. CASE e \in Calls \cup AddDevices
  BY <1>2, OtherKind DEF Unheard, Events
<1> QED BY <1>1, <1>2 DEF Events

-----------------------------------------------------------------------------
(* Types.                                                                   *)

LEMMA InitTypeInv == Init => TypeInv
<1> SUFFICES ASSUME Init PROVE TypeInv
  OBVIOUS
<1>1. rows \in [Devices -> Rows]
  BY CardsAssumption DEF CardsAssumption, Init, NoRow, Rows
<1>2. NewCard \in [Bindings -> Shown]
  BY DEF NewCard, Bindings, Shown
<1>3. card \in [Devices -> [Bindings -> Shown]]
  BY <1>2 DEF Init
<1>4. uiQueue = <<>> /\ toAdd = <<>> /\ calls = 0 /\ visits = 0
  BY DEF Init
<1>5. MaxCalls \in Nat /\ MaxVisits \in Nat
  BY CardsAssumption DEF CardsAssumption
<1>6. /\ uiQueue \in Seq(Events) /\ toAdd \in Seq(Devices)
      /\ DOMAIN uiQueue = {}
      /\ calls \in 0..MaxCalls /\ visits \in 0..MaxVisits
  BY <1>4, <1>5
<1>7. /\ emitting \in [Threads -> Notices \cup {Silence}]
      /\ \A t \in Threads : KnownDevice(emitting[t])
  BY OtherKind DEF KnownDevice, Init
<1>8. /\ holder \in {"none", "ui"} /\ home \in BOOLEAN /\ loaded \in BOOLEAN
      /\ cards \subseteq Devices /\ reread \subseteq cards \X Bindings
      /\ midway \subseteq Devices
  BY DEF Init
<1>9. CardsOfRows
  BY DEF CardsOfRows, NoRow, Init
<1> QED BY <1>1, <1>3, <1>6, <1>7, <1>8, <1>9 DEF TypeInv, TypeOK

\* What the page hears of a signal is about a card it has.
LEMMA ReevaluateType ==
  ASSUME TypeInv, NEW n \in Notices, KnownDevice(n)
  PROVE  Reevaluate(n) \subseteq cards \X Bindings
<1>1. home => n.dev \in cards
  BY NoticeKind DEF KnownDevice, TypeInv, CardsOfRows
<1> QED BY <1>1 DEF Reevaluate

\* The queue after an event was appended or taken, for the type invariant.
LEMMA AppendType ==
  ASSUME TypeInv, NEW e \in Events, KnownDevice(e),
         IsNotice(e) => home
  PROVE  /\ Append(uiQueue, e) \in Seq(Events)
         /\ \A i \in DOMAIN Append(uiQueue, e) :
              /\ KnownDevice(Append(uiQueue, e)[i])
              /\ IsNotice(Append(uiQueue, e)[i]) =>
                   home \/ Append(uiQueue, e)[i].roles = {}
BY QueueAppend DEF TypeInv, TypeOK

LEMMA TailType ==
  ASSUME TypeInv, uiQueue # <<>>
  PROVE  /\ Tail(uiQueue) \in Seq(Events)
         /\ \A i \in DOMAIN Tail(uiQueue) :
              /\ KnownDevice(Tail(uiQueue)[i])
              /\ IsNotice(Tail(uiQueue)[i]) =>
                   home \/ Tail(uiQueue)[i].roles = {}
         /\ Head(uiQueue) \in Events /\ KnownDevice(Head(uiQueue))
BY QueueTail DEF TypeInv, TypeOK

\* An update, for the type invariant.
LEMMA UpdateType ==
  ASSUME TypeInv, NEW t \in Threads, NEW c \in Calls, Update(t, c)
  PROVE  /\ rows' \in [Devices -> Rows]
         /\ \A d \in Devices : rows'[d].present = rows[d].present
         /\ emitting' \in [Threads -> Notices \cup {Silence}]
         /\ \A u \in Threads : KnownDevice(emitting'[u])
<1>1. rows \in [Devices -> Rows] /\ rows' = Updated(c)
  BY DEF TypeInv, TypeOK, Update
<1>2. Announces(c) => c.dev \in Devices /\ rows[c.dev].present
  BY UpdateTells, NoticeKind, <1>1 DEF Announces, Notice
<1>3. emitting' \in [Threads -> Notices \cup {Silence}]
  BY UpdateTells, <1>1 DEF TypeInv, TypeOK, Update
<1>4. ASSUME NEW u \in Threads PROVE KnownDevice(emitting'[u])
  BY UpdateTells, NoticeKind, <1>1, <1>2
     DEF TypeInv, TypeOK, Update, KnownDevice, Notice
<1> QED BY UpdateTells, <1>1, <1>3, <1>4
\* The parts of the type invariant that no other lemma is about.
LEMMA Plain ==
  TypeInv => /\ home \in BOOLEAN /\ loaded \in BOOLEAN
             /\ holder \in {"none", "ui"}
             /\ cards \subseteq Devices /\ reread \subseteq cards \X Bindings
             /\ midway \subseteq Devices
             /\ calls \in 0..MaxCalls /\ visits \in 0..MaxVisits
             /\ toAdd \in Seq(Devices)
             /\ rows \in [Devices -> Rows]
             /\ emitting \in [Threads -> Notices \cup {Silence}]
             /\ MaxCalls \in Nat /\ MaxVisits \in Nat
BY CardsAssumption DEF CardsAssumption, TypeInv, TypeOK

\* A fresh row is a row.
LEMMA FreshIsRow == FreshRow \in Rows /\ FreshRow.present
BY CardsAssumption DEF CardsAssumption, FreshRow, NoRow, Rows

LEMMA NextTypeInv == TypeInv /\ [Next]_vars => TypeInv'
<1> SUFFICES ASSUME TypeInv, [Next]_vars PROVE TypeInv'
  OBVIOUS
<1> USE Plain
<1>1. CASE LoadDevices
  <2>1. PICK e \in AddDevices : uiQueue' = Append(uiQueue, e)
    BY <1>1 DEF LoadDevices
  <2>2. e \in Events /\ ~IsNotice(e) /\ KnownDevice(e)
    BY OtherKind DEF Events, KnownDevice
  <2> QED BY <1>1, <2>1, <2>2, AppendType
          DEF LoadDevices, TypeInv, TypeOK, CardsOfRows, KnownDevice
<1>2. ASSUME NEW c \in SelfChecks \cup Onlines, Post(c) PROVE TypeInv'
  <2>1. c \in Events /\ ~IsNotice(c) /\ KnownDevice(c)
    BY OtherKind DEF Events, Calls, KnownDevice
  <2>2. uiQueue' = Append(uiQueue, c) /\ calls' \in 0..MaxCalls
    BY <1>2 DEF Post
  <2> QED BY <1>2, <2>1, <2>2, AppendType
          DEF Post, TypeInv, TypeOK, CardsOfRows, KnownDevice
<1>3. ASSUME NEW c \in SelfChecks \cup Progresses, ConsumerUpdate(c) PROVE TypeInv'
  <2>1. c \in Calls /\ "consumer" \in Threads /\ Update("consumer", c)
    BY <1>3 DEF Calls, Threads, ConsumerUpdate
  <2>2. calls' \in 0..MaxCalls
    BY <1>3 DEF ConsumerUpdate
  <2>3. /\ rows' \in [Devices -> Rows]
        /\ \A d \in Devices : rows'[d].present = rows[d].present
        /\ emitting' \in [Threads -> Notices \cup {Silence}]
        /\ \A u \in Threads : KnownDevice(emitting'[u])
    BY UpdateType, <2>1
  <2>4. CardsOfRows'
    BY <1>3, <2>3 DEF ConsumerUpdate, TypeInv, CardsOfRows
  <2>5. /\ \A u \in Threads : KnownDevice(emitting[u])'
        /\ \A i \in DOMAIN uiQueue : KnownDevice(uiQueue[i])'
    <3>1. \A i \in DOMAIN uiQueue : IsNotice(uiQueue[i]) => uiQueue[i].dev \in Devices
      BY NoticeKind, OtherKind DEF TypeInv, TypeOK, Events
    <3>2. \A u \in Threads : IsNotice(emitting'[u]) => emitting'[u].dev \in Devices
      BY NoticeKind, OtherKind, <2>3
    <3> QED BY <1>3, <2>3, <3>1, <3>2 DEF ConsumerUpdate, TypeInv, KnownDevice
  <2> QED BY <1>3, <2>2, <2>3, <2>4, <2>5 DEF ConsumerUpdate, TypeInv, TypeOK
<1>4. CASE ConsumerEmit
  <2>1. "consumer" \in Threads
    BY DEF Threads
  <2>2. emitting["consumer"] \in Notices /\ KnownDevice(emitting["consumer"])
    BY <1>4, <2>1 DEF ConsumerEmit, TypeInv
  <2>3. /\ emitting' \in [Threads -> Notices \cup {Silence}]
        /\ \A u \in Threads : emitting'[u] \in {emitting[u], Silence}
    BY <1>4 DEF ConsumerEmit
  <2>4. ~IsNotice(Silence)
    BY OtherKind
  <2>5. /\ uiQueue' \in Seq(Events)
        /\ \A i \in DOMAIN uiQueue' :
             /\ KnownDevice(uiQueue'[i])
             /\ IsNotice(uiQueue'[i]) => home \/ uiQueue'[i].roles = {}
    <3>1. CASE home
      BY <1>4, <2>2, <3>1, AppendType DEF ConsumerEmit, Events
    <3>2. CASE ~home
      BY <1>4, <3>2 DEF ConsumerEmit, TypeInv, TypeOK
    <3> QED BY <3>1, <3>2
  <2> QED BY <1>4, <2>3, <2>4, <2>5
          DEF ConsumerEmit, TypeInv, TypeOK, CardsOfRows, KnownDevice
<1>5. CASE EvaluateBinding
  <2>1. PICK e \in reread :
          /\ card' \in {card,
               [card EXCEPT ![e[1]][e[2]] = Value(e[2], rows[e[1]])]}
          /\ reread' \subseteq reread
          /\ midway' \in {midway, {e[1]}}
    BY <1>5 DEF EvaluateBinding
  <2>2. e[1] \in Devices /\ e[2] \in Bindings
    OBVIOUS
  <2>3. Value(e[2], rows[e[1]]) \in Shown
    BY ValueShown, <2>2
  <2>4. card' \in [Devices -> [Bindings -> Shown]]
    BY <2>1, <2>2, <2>3 DEF TypeInv
  <2>5. midway' \subseteq Devices /\ reread' \subseteq cards \X Bindings
    BY <2>1, <2>2
  <2> QED BY <1>5, <2>4, <2>5
          DEF EvaluateBinding, TypeInv, TypeOK, CardsOfRows, KnownDevice
<1>15. CASE EvaluateFallback
  <2>1. PICK d \in midway :
          /\ card' = [card EXCEPT ![d]["statusText"] = Fallback(rows[d])]
          /\ reread' = reread \ {<<d, "statusText">>}
    BY <1>15 DEF EvaluateFallback
  <2>2. Fallback(rows[d]) \in Shown
    BY FallbackShown
  <2>3. card' \in [Devices -> [Bindings -> Shown]]
    BY <2>1, <2>2 DEF TypeInv
  <2>4. midway' = {} /\ reread' \subseteq cards \X Bindings
    BY <1>15, <2>1 DEF EvaluateFallback
  <2> QED BY <1>15, <2>3, <2>4
          DEF EvaluateFallback, TypeInv, TypeOK, CardsOfRows, KnownDevice
<1>6. CASE UiEmit
  <2>1. "ui" \in Threads
    BY DEF Threads
  <2>2. emitting["ui"] \in Notices /\ KnownDevice(emitting["ui"])
    BY <1>6, <2>1 DEF UiEmit, TypeInv
  <2>3. /\ emitting' \in [Threads -> Notices \cup {Silence}]
        /\ \A u \in Threads : emitting'[u] \in {emitting[u], Silence}
    BY <1>6 DEF UiEmit
  <2>4. ~IsNotice(Silence)
    BY OtherKind
  <2>5. reread' \subseteq cards \X Bindings
    BY <1>6, <2>2, ReevaluateType DEF UiEmit
  <2> QED BY <1>6, <2>3, <2>4, <2>5
          DEF UiEmit, TypeInv, TypeOK, CardsOfRows, KnownDevice
<1>7. CASE AddNewDevice
  <2>1. /\ Head(toAdd) \in Devices /\ toAdd' \in Seq(Devices)
    BY <1>7 DEF AddNewDevice
  <2>2. /\ rows' = [rows EXCEPT ![Head(toAdd)] = FreshRow]
        /\ ~rows[Head(toAdd)].present
    BY <1>7 DEF AddNewDevice, addDevice
  <2>3. /\ rows' \in [Devices -> Rows]
        /\ \A d \in Devices :
             rows'[d].present <=> rows[d].present \/ d = Head(toAdd)
    BY <2>1, <2>2, FreshIsRow DEF Rows
  <2>4. CASE home
    <3>1. cards' = cards \cup {Head(toAdd)} /\ reread' = {Head(toAdd)} \X Bindings
      BY <1>7, <2>4 DEF AddNewDevice
    <3>2. cards' \subseteq Devices /\ reread' \subseteq cards' \X Bindings
      BY <2>1, <3>1
    <3>3. CardsOfRows'
      BY <2>1, <2>3, <2>4, <3>1 DEF TypeInv, CardsOfRows
    <3>4. /\ \A i \in DOMAIN uiQueue : IsNotice(uiQueue[i]) => uiQueue[i].dev \in Devices
          /\ \A u \in Threads : IsNotice(emitting[u]) => emitting[u].dev \in Devices
      BY NoticeKind, OtherKind DEF TypeInv, TypeOK, Events
    <3>5. /\ \A u \in Threads : KnownDevice(emitting[u])'
          /\ \A i \in DOMAIN uiQueue : KnownDevice(uiQueue[i])'
      BY <1>7, <2>3, <3>4 DEF AddNewDevice, TypeInv, KnownDevice
    <3> QED BY <1>7, <2>1, <2>3, <3>2, <3>3, <3>5
            DEF AddNewDevice, TypeInv, TypeOK
  <2>5. CASE ~home
    <3>1. UNCHANGED <<cards, reread, home>>
      BY <1>7, <2>5 DEF AddNewDevice
    <3>2. CardsOfRows'
      BY <2>5, <3>1 DEF CardsOfRows
    <3>4. /\ \A i \in DOMAIN uiQueue : IsNotice(uiQueue[i]) => uiQueue[i].dev \in Devices
          /\ \A u \in Threads : IsNotice(emitting[u]) => emitting[u].dev \in Devices
      BY NoticeKind, OtherKind DEF TypeInv, TypeOK, Events
    <3>5. /\ \A u \in Threads : KnownDevice(emitting[u])'
          /\ \A i \in DOMAIN uiQueue : KnownDevice(uiQueue[i])'
      BY <1>7, <2>3, <3>4 DEF AddNewDevice, TypeInv, KnownDevice
    <3> QED BY <1>7, <2>1, <2>3, <3>1, <3>2, <3>5
            DEF AddNewDevice, TypeInv, TypeOK
  <2> QED BY <2>4, <2>5
<1>8. CASE ReplaceDevice
  <2>1. /\ Head(toAdd) \in Devices /\ toAdd' \in Seq(Devices)
    BY <1>8 DEF ReplaceDevice
  <2>2. /\ rows' = [rows EXCEPT ![Head(toAdd)] = FreshRow]
        /\ rows[Head(toAdd)].present
        /\ emitting' = [emitting EXCEPT !["ui"] = Notice(Head(toAdd), Roles)]
    BY <1>8 DEF ReplaceDevice, addDevice
  <2>3. /\ rows' \in [Devices -> Rows]
        /\ \A d \in Devices : rows'[d].present = rows[d].present
    BY <2>1, <2>2, FreshIsRow DEF Rows
  <2>4. /\ Notice(Head(toAdd), Roles) \in Notices
        /\ Notice(Head(toAdd), Roles).dev = Head(toAdd)
    BY <2>1 DEF Notice, Notices
  <2>5. emitting' \in [Threads -> Notices \cup {Silence}]
    BY <2>2, <2>4
  <2>6. /\ \A i \in DOMAIN uiQueue : IsNotice(uiQueue[i]) => uiQueue[i].dev \in Devices
        /\ \A u \in Threads : IsNotice(emitting[u]) => emitting[u].dev \in Devices
    BY NoticeKind, OtherKind DEF TypeInv, TypeOK, Events
  <2>7. /\ \A u \in Threads : KnownDevice(emitting[u])'
        /\ \A i \in DOMAIN uiQueue : KnownDevice(uiQueue[i])'
    BY <1>8, <2>1, <2>2, <2>3, <2>4, <2>6 DEF ReplaceDevice, TypeInv, KnownDevice
  <2>8. CardsOfRows'
    BY <1>8, <2>3 DEF ReplaceDevice, TypeInv, CardsOfRows
  <2> QED BY <1>8, <2>1, <2>3, <2>5, <2>7, <2>8 DEF ReplaceDevice, TypeInv, TypeOK
<1>9. CASE RunAddDevices
  <2>1. toAdd' \in Seq(Devices)
    BY <1>9, CardsAssumption DEF CardsAssumption, RunAddDevices, AddDevices
  <2> QED BY <1>9, <2>1, TailType
          DEF RunAddDevices, TypeInv, TypeOK, CardsOfRows, KnownDevice
<1>10. CASE RunCall
  <2>1. Head(uiQueue) \in Calls /\ "ui" \in Threads /\ Update("ui", Head(uiQueue))
    BY <1>10 DEF Threads, RunCall
  <2>2. /\ rows' \in [Devices -> Rows]
        /\ \A d \in Devices : rows'[d].present = rows[d].present
        /\ emitting' \in [Threads -> Notices \cup {Silence}]
        /\ \A u \in Threads : KnownDevice(emitting'[u])
    BY UpdateType, <2>1
  <2>3. CardsOfRows'
    BY <1>10, <2>2 DEF RunCall, TypeInv, CardsOfRows
  <2>4. /\ uiQueue' \in Seq(Events)
        /\ \A i \in DOMAIN uiQueue' :
             /\ KnownDevice(uiQueue'[i])
             /\ IsNotice(uiQueue'[i]) => home \/ uiQueue'[i].roles = {}
    BY <1>10, TailType DEF RunCall
  <2>5. /\ \A u \in Threads : KnownDevice(emitting[u])'
        /\ \A i \in DOMAIN uiQueue' : KnownDevice(uiQueue[i])'
    <3>1. \A i \in DOMAIN uiQueue' : IsNotice(uiQueue'[i]) => uiQueue'[i].dev \in Devices
      BY NoticeKind, OtherKind, <2>4 DEF Events
    <3>2. \A u \in Threads : IsNotice(emitting'[u]) => emitting'[u].dev \in Devices
      BY NoticeKind, OtherKind, <2>2
    <3> QED BY <2>2, <2>4, <3>1, <3>2 DEF KnownDevice
  <2> QED BY <1>10, <2>2, <2>3, <2>4, <2>5 DEF RunCall, TypeInv, TypeOK
<1>11. CASE DeliverNotice
  <2>1. reread' \subseteq cards \X Bindings
    BY <1>11, TailType, ReevaluateType DEF DeliverNotice
  <2> QED BY <1>11, <2>1, TailType
          DEF DeliverNotice, TypeInv, TypeOK, CardsOfRows, KnownDevice
<1>12. CASE LeaveHome
  <2>1. \A i \in DOMAIN uiQueue : uiQueue[i] \in Events
    BY DEF TypeInv, TypeOK
  <2>2. /\ DOMAIN uiQueue' = DOMAIN uiQueue
        /\ \A i \in DOMAIN uiQueue : uiQueue'[i] = Unheard(uiQueue[i])
    BY <1>12 DEF LeaveHome
  <2>3. uiQueue' \in Seq(Events)
    <3>1. DOMAIN uiQueue = 1..Len(uiQueue) /\ Len(uiQueue) \in Nat
      BY DEF TypeInv, TypeOK
    <3>2. uiQueue' = [i \in 1..Len(uiQueue) |-> Unheard(uiQueue[i])]
      BY <1>12, <3>1 DEF LeaveHome
    <3>3. \A i \in 1..Len(uiQueue) : Unheard(uiQueue[i]) \in Events
      BY <2>1, <3>1, UnheardEvents
    <3> QED BY <3>1, <3>2, <3>3
  <2>4. \A i \in DOMAIN uiQueue' :
          IsNotice(uiQueue'[i]) => uiQueue'[i].roles = {}
    BY <2>1, <2>2, UnheardEvents
  <2>5. \A i \in DOMAIN uiQueue' : KnownDevice(uiQueue'[i])
    <3>1. ASSUME NEW e \in Events, KnownDevice(e) PROVE KnownDevice(Unheard(e))
      <4>1. CASE e \in Notices
        <5>1. [e EXCEPT !.roles = {}].dev = e.dev
          BY <4>1 DEF Notices
        <5> QED BY <3>1, <4>1, <5>1, NoticeKind DEF Unheard, KnownDevice
      <4>2. CASE e \notin Notices
        BY <3>1, <4>2, OtherKind DEF Unheard, Events
      <4> QED BY <4>1, <4>2
    <3> QED BY <2>1, <2>2, <3>1 DEF TypeInv
  <2>6. NewCard \in [Bindings -> Shown]
    BY DEF NewCard, Bindings, Shown
  <2>7. /\ card' \in [Devices -> [Bindings -> Shown]]
        /\ cards' = {} /\ home' = FALSE /\ reread = {}
        /\ visits' \in 0..MaxVisits
    BY <1>12, <2>6 DEF LeaveHome, UiIdle
  <2> QED BY <1>12, <2>3, <2>4, <2>5, <2>7
          DEF LeaveHome, TypeInv, TypeOK, CardsOfRows, KnownDevice
<1>13. CASE OpenHome
  <2>1. cards' = {d \in Devices : rows[d].present} /\ reread' = cards' \X Bindings
    BY <1>13 DEF OpenHome
  <2> QED BY <1>13, <2>1 DEF OpenHome, TypeInv, TypeOK, CardsOfRows, KnownDevice
<1>14. CASE UNCHANGED vars
  BY <1>14 DEF vars, TypeInv, TypeOK, CardsOfRows, KnownDevice
<1> QED BY <1>1, <1>2, <1>3, <1>4, <1>5, <1>6, <1>7, <1>8, <1>9, <1>10, <1>11,
           <1>12, <1>13, <1>14, <1>15 DEF Next, UiThread

(* The type invariant of the model holds for every set of devices and texts, *)
(* every table and every bound: no binding of a page that is gone stays to   *)
(* be evaluated, whatever the queue and the threads still hold for it.       *)
THEOREM SpecTypeOK == Spec => []TypeOK
<1>1. TypeInv => TypeOK
  BY DEF TypeInv
<1> QED BY InitTypeInv, NextTypeInv, <1>1, PTL DEF Spec

-----------------------------------------------------------------------------
(* What a card shows.                                                       *)

Fresh(d, b) == card[d][b] = Value(b, rows[d]) \/ Told(d, b)
CardsFresh  == home => \A d \in cards, b \in Bindings : Fresh(d, b)

\* What was told of a binding through the queue.
InQueue(q, d, b) == \E i \in DOMAIN q : Concerns(q[i], d, b)

LEMMA AppendTold ==
  ASSUME TypeInv, NEW e \in Events, NEW d, NEW b
  PROVE  /\ InQueue(uiQueue, d, b) => InQueue(Append(uiQueue, e), d, b)
         /\ Concerns(e, d, b) => InQueue(Append(uiQueue, e), d, b)
BY QueueAppend DEF TypeInv, TypeOK, InQueue

LEMMA TailTold ==
  ASSUME TypeInv, uiQueue # <<>>, NEW d, NEW b, InQueue(uiQueue, d, b)
  PROVE  Concerns(Head(uiQueue), d, b) \/ InQueue(Tail(uiQueue), d, b)
BY QueueTail DEF TypeInv, TypeOK, InQueue

\* A signal that concerns a binding makes the page that is there evaluate it.
LEMMA ConcernedIsReread ==
  ASSUME home, NEW n, NEW d, NEW b \in Bindings, Concerns(n, d, b)
  PROVE  <<d, b>> \in Reevaluate(n)
BY DEF Concerns, Reevaluate

LEMMA OthersDoNotConcern ==
  ASSUME NEW e \in Calls \cup AddDevices \cup {Silence}, NEW d, NEW b
  PROVE  ~Concerns(e, d, b)
BY OtherKind DEF Concerns

\* A signal that statusText of d will hear of is with a thread or queued.
Signalled(d) ==
  \/ \E t \in Threads : Concerns(emitting[t], d, "statusText")
  \/ InQueue(uiQueue, d, "statusText")

\* While bindings are left to evaluate the page is there and the UI thread
\* has no signal of its own to emit; and the binding that waits for isOnline
\* is one of them, and hears of a text that came after it found none.
MidwayInv ==
  /\ reread # {} => home /\ emitting["ui"] = Silence
  /\ \A d \in midway :
       /\ <<d, "statusText">> \in reread
       /\ rows[d].text = "" \/ Signalled(d)

\* An update that changes a text announces it.
LEMMA TextIsAnnounced ==
  ASSUME rows \in [Devices -> Rows], NEW c \in Calls, NEW d \in Devices,
         Updated(c)[d].text # rows[d].text
  PROVE  /\ d = c.dev /\ Announces(c)
         /\ Reads("statusText") \cap ChangedRoles(c) # {}
<1>1. CASE c \in SelfChecks
  <2>1. [rows[c.dev] EXCEPT !.last = c.result].text = rows[c.dev].text
    BY <1>1, SelfCheckUpdate DEF Rows
  <2> QED BY <1>1, <2>1, SelfCheckUpdate DEF OnKnown
<1>2. CASE c \in Progresses
  <2>1. d = c.dev /\ rows[c.dev].present
    BY <1>2, ProgressUpdate DEF OnKnown
  <2> QED BY <1>2, <2>1, ProgressUpdate DEF Announces, Reads
<1>3. CASE c \in Onlines
  <2>1. PICK s \in {"Online", "Offline"} :
          Updated(c) = OnKnown(rows, c.dev, [rows[c.dev] EXCEPT !.online = s])
    BY <1>3, OnlineUpdate
  <2>2. [rows[c.dev] EXCEPT !.online = s].text = rows[c.dev].text
    BY <1>3, OnlineUpdate DEF Rows
  <2> QED BY <1>3, <2>1, <2>2, OnlineUpdate DEF OnKnown
<1> QED BY <1>1, <1>2, <1>3 DEF Calls

LEMMA NextMidwayInv == TypeInv /\ MidwayInv /\ [Next]_vars => MidwayInv'
<1> SUFFICES ASSUME TypeInv, MidwayInv, [Next]_vars PROVE MidwayInv'
  OBVIOUS
<1> USE Plain
<1>a. "ui" \in Threads /\ "consumer" \in Threads /\ "ui" # "consumer"
  BY DEF Threads
<1>b. reread = {} => midway = {}
  BY DEF MidwayInv
\* A step that leaves what is midway alone and loses no signal.
<1>c. ASSUME UNCHANGED <<rows, home, reread, midway>>,
             reread # {} => emitting'["ui"] = emitting["ui"],
             \A d \in midway : Signalled(d) => Signalled(d)'
      PROVE  MidwayInv'
  BY <1>c DEF MidwayInv
\* A step of a UI thread that is idle before or after it.
<1>d. ASSUME midway' = {}, reread' # {} => home' /\ emitting'["ui"] = Silence
      PROVE  MidwayInv'
  BY <1>d DEF MidwayInv
<1>1. CASE LoadDevices
  <2>1. PICK e \in AddDevices : uiQueue' = Append(uiQueue, e)
    BY <1>1 DEF LoadDevices
  <2>2. \A d, b : InQueue(uiQueue, d, b) => InQueue(uiQueue', d, b)
    BY <2>1, AppendTold DEF Events
  <2> QED BY <1>1, <1>c, <2>2 DEF LoadDevices, Signalled, InQueue
<1>2. ASSUME NEW c \in SelfChecks \cup Onlines, Post(c) PROVE MidwayInv'
  <2>1. uiQueue' = Append(uiQueue, c) /\ c \in Events
    BY <1>2 DEF Post, Events, Calls
  <2>2. \A d, b : InQueue(uiQueue, d, b) => InQueue(uiQueue', d, b)
    BY <2>1, AppendTold
  <2> QED BY <1>2, <1>c, <2>2 DEF Post, Signalled, InQueue
<1>3. ASSUME NEW c \in SelfChecks \cup Progresses, ConsumerUpdate(c)
      PROVE  MidwayInv'
  <2>1. /\ c \in Calls /\ rows' = Updated(c) /\ emitting["consumer"] = Silence
        /\ UNCHANGED <<home, uiQueue, reread, midway>>
        /\ emitting' = IF Announces(c)
                       THEN [emitting EXCEPT !["consumer"] =
                               Notice(c.dev, ChangedRoles(c))]
                       ELSE emitting
    BY <1>3 DEF ConsumerUpdate, Update, Calls
  <2>2. emitting'["ui"] = emitting["ui"]
    BY <1>a, <2>1
  <2>3. ASSUME NEW d \in midway PROVE rows'[d].text = "" \/ Signalled(d)'
    <3>1. CASE rows'[d].text # rows[d].text
      <4>1. /\ d = c.dev /\ Announces(c)
            /\ Reads("statusText") \cap ChangedRoles(c) # {}
        BY <2>1, <3>1, TextIsAnnounced
      <4>2. emitting'["consumer"] = Notice(c.dev, ChangedRoles(c))
        BY <1>a, <2>1, <4>1
      <4>3. Concerns(emitting'["consumer"], d, "statusText")
        BY <4>1, <4>2 DEF Concerns, Notice, IsNotice
      <4> QED BY <1>a, <4>3 DEF Signalled
    <3>2. CASE rows'[d].text = rows[d].text
      <4>1. ASSUME NEW u \in Threads, Concerns(emitting[u], d, "statusText")
            PROVE  Concerns(emitting'[u], d, "statusText")
        <5>1. u # "consumer"
          BY <2>1, <4>1, OthersDoNotConcern
        <5> QED BY <2>1, <4>1, <5>1
      <4> QED BY <2>1, <3>2, <4>1 DEF MidwayInv, Signalled, InQueue
    <3> QED BY <3>1, <3>2
  <2> QED BY <2>1, <2>2, <2>3 DEF MidwayInv
<1>4. CASE ConsumerEmit
  <2>1. emitting["consumer"] \in Events
    BY <1>4, <1>a DEF ConsumerEmit, Events
  <2>2. /\ emitting' = [emitting EXCEPT !["consumer"] = Silence]
        /\ UNCHANGED <<rows, home, reread, midway>>
    BY <1>4 DEF ConsumerEmit
  <2>3. ASSUME NEW d \in midway, Signalled(d) PROVE Signalled(d)'
    <3>1. uiQueue' = Append(uiQueue, emitting["consumer"])
      BY <1>4, <2>3 DEF ConsumerEmit, MidwayInv
    <3>2. CASE \/ Concerns(emitting["consumer"], d, "statusText")
               \/ InQueue(uiQueue, d, "statusText")
      <4>1. InQueue(uiQueue', d, "statusText")
        BY <2>1, <3>1, <3>2, AppendTold
      <4> QED BY <4>1 DEF Signalled, InQueue
    <3>3. ASSUME NEW u \in Threads, u # "consumer",
                 Concerns(emitting[u], d, "statusText")
          PROVE  Concerns(emitting'[u], d, "statusText")
      BY <2>2, <3>3
    <3> QED BY <2>3, <3>2, <3>3 DEF Signalled
  <2> QED BY <1>a, <1>c, <2>2, <2>3
<1>5. CASE EvaluateBinding
  <2>1. /\ midway = {} /\ UNCHANGED <<rows, home, emitting, uiQueue>>
        /\ reread # {} /\ reread' \subseteq reread
    BY <1>5 DEF EvaluateBinding
  <2>2. PICK e \in reread :
          \/ /\ e[2] = "statusText" /\ rows[e[1]].text = ""
             /\ midway' = {e[1]} /\ reread' = reread
          \/ midway' = midway
    BY <1>5 DEF EvaluateBinding
  <2>3. e = <<e[1], e[2]>>
    OBVIOUS
  <2> QED BY <2>1, <2>2, <2>3 DEF MidwayInv
<1>15. CASE EvaluateFallback
  <2>1. reread' \subseteq reread
    BY <1>15 DEF EvaluateFallback
  <2> QED BY <1>15, <1>d, <2>1 DEF EvaluateFallback, MidwayInv
<1>6. CASE UiEmit
  <2>1. reread = {}
    BY <1>6 DEF UiEmit, MidwayInv
  <2>2. reread' # {} => home
    BY <1>6, <2>1 DEF UiEmit, Reevaluate
  <2> QED BY <1>6, <1>a, <1>b, <1>d, <2>1, <2>2 DEF UiEmit
<1>7. CASE AddNewDevice
  BY <1>7, <1>b, <1>d DEF AddNewDevice
<1>8. CASE ReplaceDevice
  BY <1>8, <1>b, <1>d DEF ReplaceDevice
<1>9. CASE RunAddDevices
  BY <1>9, <1>b, <1>d DEF RunAddDevices, UiIdle
<1>10. CASE RunCall
  BY <1>10, <1>b, <1>d DEF RunCall, UiIdle
<1>11. CASE DeliverNotice
  BY <1>11, <1>b, <1>d DEF DeliverNotice, UiIdle, Reevaluate
<1>12. CASE LeaveHome
  BY <1>12, <1>b, <1>d DEF LeaveHome, UiIdle
<1>13. CASE OpenHome
  BY <1>13, <1>b, <1>d DEF OpenHome, UiIdle
<1>14. CASE UNCHANGED vars
  BY <1>14 DEF vars, MidwayInv, Signalled, InQueue
<1> QED BY <1>1, <1>2, <1>3, <1>4, <1>5, <1>6, <1>7, <1>8, <1>9, <1>10, <1>11,
           <1>12, <1>13, <1>14, <1>15 DEF Next, UiThread

\* A step that leaves the rows and the cards alone and takes nothing off what
\* was told.
LEMMA NothingLost ==
  ASSUME CardsFresh, UNCHANGED <<rows, home, cards, card>>,
         home => \A d \in cards, b \in Bindings : Told(d, b) => Told(d, b)'
  PROVE  CardsFresh'
BY DEF CardsFresh, Fresh

\* An update of a row by a thread that had no signal to emit.
LEMMA UpdateFresh ==
  ASSUME TypeInv, CardsFresh, NEW t \in Threads, NEW c \in Calls,
         emitting[t] = Silence, Update(t, c),
         UNCHANGED <<home, cards, card, reread>>,
         \A d, b : InQueue(uiQueue, d, b) => InQueue(uiQueue', d, b)
  PROVE  CardsFresh'
<1> SUFFICES ASSUME home, NEW d \in cards, NEW b \in Bindings PROVE Fresh(d, b)'
  BY DEF CardsFresh
<1>1. /\ rows \in [Devices -> Rows] /\ rows' = Updated(c)
      /\ emitting \in [Threads -> Notices \cup {Silence}]
      /\ d \in Devices
  BY DEF TypeInv, TypeOK, Update
<1>2. Told(d, b) => Told(d, b)'
  <2>1. ASSUME NEW u \in Threads, Concerns(emitting[u], d, b)
        PROVE  Concerns(emitting'[u], d, b)
    <3>1. u # t
      BY OthersDoNotConcern, <2>1
    <3> QED BY <1>1, <2>1, <3>1 DEF Update
  <2> QED BY <2>1 DEF Told, InQueue
<1>3. CASE Value(b, rows'[d]) = Value(b, rows[d])
  BY <1>2, <1>3 DEF CardsFresh, Fresh
<1>4. CASE Value(b, rows'[d]) # Value(b, rows[d])
  <2>1. d = c.dev /\ Announces(c) /\ Reads(b) \cap ChangedRoles(c) # {}
    BY UpdateTells, <1>1, <1>4
  <2>2. emitting'[t] = Notice(c.dev, ChangedRoles(c))
    BY <1>1, <2>1 DEF Update
  <2>3. Concerns(emitting'[t], d, b)
    BY <2>1, <2>2 DEF Concerns, Notice, IsNotice
  <2> QED BY <2>3 DEF Fresh, Told
<1> QED BY <1>3, <1>4

LEMMA NextCardsFresh ==
  TypeInv /\ MidwayInv /\ CardsFresh /\ [Next]_vars => CardsFresh'
<1> SUFFICES ASSUME TypeInv, MidwayInv, CardsFresh, [Next]_vars
             PROVE  CardsFresh'
  OBVIOUS
<1> USE Plain
<1>1. CASE LoadDevices
  <2>1. PICK e \in AddDevices : uiQueue' = Append(uiQueue, e)
    BY <1>1 DEF LoadDevices
  <2>2. \A d, b : InQueue(uiQueue, d, b) => InQueue(uiQueue', d, b)
    BY <2>1, AppendTold DEF Events
  <2> QED BY <1>1, <2>2, NothingLost DEF LoadDevices, Told, InQueue
<1>2. ASSUME NEW c \in SelfChecks \cup Onlines, Post(c) PROVE CardsFresh'
  <2>1. uiQueue' = Append(uiQueue, c) /\ c \in Events
    BY <1>2 DEF Post, Events, Calls
  <2>2. \A d, b : InQueue(uiQueue, d, b) => InQueue(uiQueue', d, b)
    BY <2>1, AppendTold
  <2> QED BY <1>2, <2>2, NothingLost DEF Post, Told, InQueue
<1>3. ASSUME NEW c \in SelfChecks \cup Progresses, ConsumerUpdate(c)
      PROVE  CardsFresh'
  BY <1>3, UpdateFresh DEF ConsumerUpdate, Calls, Threads
<1>4. CASE ConsumerEmit
  <2>1. emitting["consumer"] \in Events
    BY <1>4 DEF ConsumerEmit, Threads, Events
  <2>2. ASSUME home, NEW d \in cards, NEW b \in Bindings, Told(d, b)
        PROVE  Told(d, b)'
    <3>1. uiQueue' = Append(uiQueue, emitting["consumer"])
      BY <1>4, <2>2 DEF ConsumerEmit
    <3>2. CASE Concerns(emitting["consumer"], d, b) \/ InQueue(uiQueue, d, b)
      BY <2>1, <3>1, <3>2, AppendTold DEF Told, InQueue
    <3>3. ASSUME NEW u \in Threads, u # "consumer", Concerns(emitting[u], d, b)
          PROVE  Concerns(emitting'[u], d, b)
      BY <1>4, <3>3 DEF ConsumerEmit
    <3> QED BY <1>4, <2>2, <3>2, <3>3 DEF ConsumerEmit, Told, InQueue
  <2> QED BY <1>4, <2>2, NothingLost DEF ConsumerEmit
<1>5. CASE EvaluateBinding
  <2>1. PICK e \in reread :
          IF e[2] = "statusText" /\ rows[e[1]].text = ""
          THEN UNCHANGED <<card, reread>>
          ELSE /\ card' = [card EXCEPT ![e[1]][e[2]] = Value(e[2], rows[e[1]])]
               /\ reread' = reread \ {e}
    BY <1>5 DEF EvaluateBinding
  <2>2. e[1] \in Devices /\ e[2] \in Bindings /\ e = <<e[1], e[2]>>
    OBVIOUS
  <2>3. CASE UNCHANGED <<card, reread>>
    BY <1>5, <2>3, NothingLost DEF EvaluateBinding, Told
  <2>4. CASE /\ card' = [card EXCEPT ![e[1]][e[2]] = Value(e[2], rows[e[1]])]
             /\ reread' = reread \ {e}
    <3>1. ASSUME home, NEW d \in cards, NEW b \in Bindings PROVE Fresh(d, b)'
      <4>1. CASE d = e[1] /\ b = e[2]
        <5>1. card'[d][b] = Value(b, rows[d])
          BY <2>2, <2>4, <4>1 DEF TypeInv
        <5> QED BY <1>5, <5>1 DEF EvaluateBinding, Fresh
      <4>2. CASE ~(d = e[1] /\ b = e[2])
        <5>1. card'[d][b] = card[d][b]
          BY <2>2, <2>4, <4>2 DEF TypeInv
        <5>2. <<d, b>> \in reread => <<d, b>> \in reread'
          BY <2>2, <2>4, <4>2
        <5>3. Told(d, b) => Told(d, b)'
          BY <1>5, <5>2 DEF EvaluateBinding, Told
        <5> QED BY <1>5, <3>1, <5>1, <5>3
                DEF EvaluateBinding, CardsFresh, Fresh
      <4> QED BY <4>1, <4>2
    <3> QED BY <1>5, <3>1 DEF EvaluateBinding, CardsFresh
  <2> QED BY <2>1, <2>3, <2>4
<1>15. CASE EvaluateFallback
  <2>1. PICK x \in midway :
          /\ card' = [card EXCEPT ![x]["statusText"] = Fallback(rows[x])]
          /\ reread' = reread \ {<<x, "statusText">>}
    BY <1>15 DEF EvaluateFallback
  <2>2. rows[x].text = "" \/ Signalled(x)
    BY <2>1 DEF MidwayInv
  <2>3. ASSUME home, NEW d \in cards, NEW b \in Bindings PROVE Fresh(d, b)'
    <3>1. CASE d = x /\ b = "statusText"
      <4>1. card'[d][b] = Fallback(rows[d])
        BY <2>1, <3>1 DEF TypeInv
      <4>2. CASE rows[x].text = ""
        BY <1>15, <3>1, <4>1, <4>2 DEF EvaluateFallback, Fresh, Value
      <4>3. CASE Signalled(x)
        BY <1>15, <3>1, <4>3
           DEF EvaluateFallback, Fresh, Told, Signalled, InQueue
      <4> QED BY <2>2, <4>2, <4>3
    <3>2. CASE ~(d = x /\ b = "statusText")
      <4>1. card'[d][b] = card[d][b]
        BY <2>1, <3>2 DEF TypeInv
      <4>2. <<d, b>> \in reread => <<d, b>> \in reread'
        BY <2>1, <3>2
      <4>3. Told(d, b) => Told(d, b)'
        BY <1>15, <4>2 DEF EvaluateFallback, Told
      <4> QED BY <1>15, <2>3, <4>1, <4>3 DEF EvaluateFallback, CardsFresh, Fresh
    <3> QED BY <3>1, <3>2
  <2> QED BY <1>15, <2>3 DEF EvaluateFallback, CardsFresh
<1>6. CASE UiEmit
  <2>1. ASSUME home, NEW d \in cards, NEW b \in Bindings, Told(d, b)
        PROVE  Told(d, b)'
    <3>1. CASE Concerns(emitting["ui"], d, b)
      BY <1>6, <2>1, <3>1, ConcernedIsReread DEF UiEmit, Told
    <3>2. ASSUME NEW u \in Threads, u # "ui", Concerns(emitting[u], d, b)
          PROVE  Concerns(emitting'[u], d, b)
      BY <1>6, <3>2 DEF UiEmit
    <3> QED BY <1>6, <2>1, <3>1, <3>2 DEF UiEmit, Told
  <2> QED BY <1>6, <2>1, NothingLost DEF UiEmit
<1>7. CASE AddNewDevice
  <2> SUFFICES ASSUME home, NEW d \in cards', NEW b \in Bindings
               PROVE  Fresh(d, b)'
    BY <1>7 DEF AddNewDevice, CardsFresh
  <2> DEFINE h == Head(toAdd)
  <2>1. h \in Devices
    BY <1>7 DEF AddNewDevice
  <2>2. /\ cards' = cards \cup {h} /\ reread' = {h} \X Bindings
        /\ reread = {} /\ rows' = [rows EXCEPT ![h] = FreshRow]
        /\ UNCHANGED <<emitting, uiQueue, card>>
    BY <1>7 DEF AddNewDevice, addDevice
  <2>3. CASE d = h
    BY <2>2, <2>3 DEF Fresh, Told
  <2>4. CASE d # h
    <3>1. d \in cards /\ rows'[d] = rows[d] /\ <<d, b>> \notin reread
      BY <2>2, <2>4
    <3>2. Told(d, b) => Told(d, b)'
      BY <2>2, <3>1 DEF Told
    <3> QED BY <2>2, <3>1, <3>2 DEF CardsFresh, Fresh
  <2> QED BY <2>3, <2>4
<1>8. CASE ReplaceDevice
  <2> SUFFICES ASSUME home, NEW d \in cards, NEW b \in Bindings
               PROVE  Fresh(d, b)'
    BY <1>8 DEF ReplaceDevice, CardsFresh
  <2> DEFINE h == Head(toAdd)
  <2>1. "ui" \in Threads /\ "consumer" \in Threads
    BY DEF Threads
  <2>2. /\ emitting' = [emitting EXCEPT !["ui"] = Notice(h, Roles)]
        /\ emitting["ui"] = Silence /\ rows' = [rows EXCEPT ![h] = FreshRow]
        /\ UNCHANGED <<reread, uiQueue, card>>
    BY <1>8 DEF ReplaceDevice, addDevice
  <2>3. CASE d = h
    <3>1. Concerns(emitting'["ui"], d, b)
      BY <2>1, <2>2, <2>3, BindingsRead DEF Concerns, Notice, IsNotice
    <3> QED BY <2>1, <3>1 DEF Fresh, Told
  <2>4. CASE d # h
    <3>1. rows'[d] = rows[d]
      BY <2>2, <2>4
    <3>2. ASSUME NEW u \in Threads, Concerns(emitting[u], d, b)
          PROVE  Concerns(emitting'[u], d, b)
      <4>1. u # "ui"
        BY <2>2, <3>2, OthersDoNotConcern
      <4> QED BY <2>2, <3>2, <4>1
    <3>3. Told(d, b) => Told(d, b)'
      BY <2>2, <3>2 DEF Told
    <3> QED BY <2>2, <3>1, <3>3 DEF CardsFresh, Fresh
  <2> QED BY <2>3, <2>4
<1>9. CASE RunAddDevices
  <2>1. \A d, b : InQueue(uiQueue, d, b) => InQueue(uiQueue', d, b)
    BY <1>9, TailTold, OthersDoNotConcern DEF RunAddDevices
  <2> QED BY <1>9, <2>1, NothingLost DEF RunAddDevices, Told, InQueue
<1>10. CASE RunCall
  <2>1. \A d, b : InQueue(uiQueue, d, b) => InQueue(uiQueue', d, b)
    BY <1>10, TailTold, OthersDoNotConcern DEF RunCall
  <2>2. /\ Head(uiQueue) \in Calls /\ Update("ui", Head(uiQueue))
        /\ emitting["ui"] = Silence /\ UNCHANGED <<home, cards, card, reread>>
    BY <1>10 DEF RunCall, UiIdle
  <2> QED BY <2>1, <2>2, UpdateFresh DEF Threads
<1>11. CASE DeliverNotice
  <2>1. ASSUME home, NEW d \in cards, NEW b \in Bindings, Told(d, b)
        PROVE  Told(d, b)'
    <3>1. CASE InQueue(uiQueue, d, b)
      <4>1. CASE Concerns(Head(uiQueue), d, b)
        BY <1>11, <2>1, <4>1, ConcernedIsReread DEF DeliverNotice, Told
      <4>2. CASE InQueue(Tail(uiQueue), d, b)
        BY <1>11, <4>2 DEF DeliverNotice, Told, InQueue
      <4> QED BY <1>11, <3>1, <4>1, <4>2, TailTold DEF DeliverNotice
    <3>2. <<d, b>> \notin reread
      BY <1>11 DEF DeliverNotice, UiIdle
    <3> QED BY <1>11, <2>1, <3>1, <3>2 DEF DeliverNotice, Told, InQueue
  <2> QED BY <1>11, <2>1, NothingLost DEF DeliverNotice
<1>12. CASE LeaveHome
  BY <1>12 DEF LeaveHome, CardsFresh
<1>13. CASE OpenHome
  BY <1>13 DEF OpenHome, CardsFresh, Fresh, Told
<1>14. CASE UNCHANGED vars
  BY <1>14 DEF vars, CardsFresh, Fresh, Told
<1> QED BY <1>1, <1>2, <1>3, <1>4, <1>5, <1>6, <1>7, <1>8, <1>9, <1>10, <1>11,
           <1>12, <1>13, <1>14, <1>15 DEF Next, UiThread

(* A card shows what its row says, or its binding is about to be evaluated,  *)
(* or a signal that will make it so is with its thread or in the queue: in   *)
(* every state in which the home page is there, for every set of devices and *)
(* every table, also one that names a device twice.                          *)
THEOREM SpecCardIsCurrentOrTold == Spec => []CardIsCurrentOrTold
<1>1. Init => CardsFresh /\ MidwayInv
  BY DEF Init, CardsFresh, MidwayInv
<1>2. TypeInv /\ CardsFresh => CardIsCurrentOrTold
  BY DEF TypeInv, CardsOfRows, CardsFresh, Fresh, CardIsCurrentOrTold
<1> QED BY InitTypeInv, NextTypeInv, NextMidwayInv, NextCardsFresh, <1>1, <1>2, PTL DEF Spec
=============================================================================
