-------------------------------- MODULE Cards --------------------------------
(***************************************************************************)
(* DeviceModel as the list model of the home page, and the cards the page  *)
(* shows.  A row is changed under the model's mutex, but the card hears of *)
(* it in steps: the thread that changed the row leaves the mutex, takes it *)
(* again to make an index (which asks rowCount), and emits dataChanged;    *)
(* from the UI thread the signal runs the bindings of the card at once,    *)
(* from any other it is queued for the UI thread; and each binding then    *)
(* reads the row again, one role after the other, each in a critical       *)
(* section of its own.                                                     *)
(*                                                                         *)
(* Who calls what, and why, is in SelfCheck and OnlineWatcher: here the    *)
(* consumer thread calls the two updates of recvMsg at any time, and the   *)
(* other threads queue calls for the UI thread.  A row never moves in the  *)
(* list and is never taken out of it, so a device stands for its index.    *)
(***************************************************************************)
EXTENDS DeviceRows, Sequences

CONSTANTS
  Devices,    (* Device numbers.                                           *)
  Tables,     (* The EquipNo columns equipment_info may hold, in order.    *)
  Texts,      (* The texts of a progress, "" for none among them.          *)
  MaxCalls,   (* Bounds the updates of rows.                               *)
  MaxVisits   (* Bounds the visits to other pages.                         *)

ASSUME CardsAssumption ==
  /\ Tables \subseteq Seq(Devices)
  /\ "" \in Texts
  /\ MaxCalls \in Nat
  /\ MaxVisits \in Nat

VARIABLES
  rows,      (* device_map_ and device_list_.                              *)
  holder,    (* Who keeps mutex_ over several steps: "ui", or "none".      *)
  emitting,  (* The dataChanged each thread has still to emit.             *)
  uiQueue,   (* The events posted to the UI thread.                        *)
  toAdd,     (* What the lambda of AsyncLoadDevices has still to add.      *)
  home,      (* The home page is on the stack.                             *)
  cards,     (* The devices that have a card.                              *)
  card,      (* What the card of each of them shows.                       *)
  reread,    (* The bindings the UI thread has still to evaluate.          *)
  midway,    (* The device whose statusText binding found no text and has  *)
             (* still to ask for isOnline.                                 *)
  loaded,    (* The lambda of AsyncLoadDevices has been queued.            *)
  calls,     (* Updates called so far.                                     *)
  visits     (* Visits to other pages so far.                              *)

vars == <<rows, holder, emitting, uiQueue, toAdd, home, cards, card, reread,
          midway, loaded, calls, visits>>

-----------------------------------------------------------------------------
(* The updates of a row.                                                    *)

Threads == {"ui", "consumer"}
Roles   == {"IsOnline", "StatusText", "IsChecking", "LastCheckTime"}

SelfChecks == [name : {"updateSelfCheck"}, dev : Devices, result : {1}]
Progresses == [name : {"updateSelfCheckProgress"}, dev : Devices,
               desc : Texts, isChecking : BOOLEAN]
Onlines    == [name : {"updateOnlineStatus"}, dev : Devices, isOnline : BOOLEAN]

Calls   == SelfChecks \cup Progresses \cup Onlines
Notices == [name : {"dataChanged"}, dev : Devices, roles : SUBSET Roles]
Silence == [name |-> "none"]
AddDevices == [name : {"addDevices"}, table : Tables]
Events  == Calls \cup Notices \cup AddDevices

Updated(c) ==
  CASE c.name = "updateSelfCheck" ->
         updateSelfCheck(rows, c.dev, c.result)
    [] c.name = "updateSelfCheckProgress" ->
         updateSelfCheckProgress(rows, c.dev, c.desc, c.isChecking)
    [] c.name = "updateOnlineStatus" ->
         updateOnlineStatus(rows, c.dev, c.isOnline)

\* Mutant of ChangedRoles: a progress announces its text only.
ChangedRolesTextOnly(c) ==
  CASE c.name = "updateSelfCheck"         -> {"LastCheckTime", "StatusText"}
    [] c.name = "updateSelfCheckProgress" -> {"StatusText"}
    [] c.name = "updateOnlineStatus"      -> {"IsOnline", "StatusText"}

ChangedRoles(c) ==
  CASE c.name = "updateSelfCheck"         -> {"LastCheckTime", "StatusText"}
    [] c.name = "updateSelfCheckProgress" -> {"StatusText", "IsChecking"}
    [] c.name = "updateOnlineStatus"      -> {"IsOnline", "StatusText"}

\* An unknown device, and a status the row has already, are announced to
\* nobody.
Announces(c) ==
  /\ rows[c.dev].present
  /\ c.name = "updateOnlineStatus" => Updated(c) # rows

Notice(d, roles) == [name |-> "dataChanged", dev |-> d, roles |-> roles]

\* One of the three updates, up to the signal, on thread t.
Update(t, c) ==
  /\ holder = "none"
  /\ rows' = Updated(c)
  /\ emitting' = IF Announces(c)
                 THEN [emitting EXCEPT ![t] = Notice(c.dev, ChangedRoles(c))]
                 ELSE emitting

-----------------------------------------------------------------------------
(* The card of a device: the properties Home.qml binds, with those of       *)
(* DeviceCard.qml before a binding was evaluated.  statusLevel goes with    *)
(* online.                                                                  *)

Bindings == {"online", "statusText", "checking", "lastCheck"}

Rows == [present  : BOOLEAN,
         online   : {"Unknown", "Online", "Offline"},
         checking : BOOLEAN,
         text     : Texts,
         last     : {0, 1}]

\* The roles a binding reads.
Reads(b) ==
  CASE b = "online"     -> {"IsOnline"}
    [] b = "statusText" -> {"StatusText", "IsOnline"}
    [] b = "checking"   -> {"IsChecking"}
    [] b = "lastCheck"  -> {"LastCheckTime"}

\* What statusText shows of a row without a text.
Fallback(row) == IF IsOnline(row) THEN "normal" ELSE "offline"

Value(b, row) ==
  CASE b = "online"     -> IsOnline(row)
    [] b = "statusText" -> IF row.text # "" THEN row.text ELSE Fallback(row)
    [] b = "checking"   -> row.checking
    [] b = "lastCheck"  -> row.last

NewCard == [b \in Bindings |-> CASE b = "online"     -> TRUE
                                 [] b = "statusText" -> ""
                                 [] b = "checking"   -> FALSE
                                 [] b = "lastCheck"  -> 0]

\* The delegate model re-evaluates what reads a changed role, if the page is
\* there at all.
Reevaluate(n) ==
  IF home THEN {n.dev} \X {b \in Bindings : Reads(b) \cap n.roles # {}} ELSE {}

Init ==
  /\ rows = [d \in Devices |-> NoRow]
  /\ holder = "none"
  /\ emitting = [t \in Threads |-> Silence]
  /\ uiQueue = <<>> /\ toAdd = <<>>
  /\ home = TRUE
  /\ cards = {} /\ card = [d \in Devices |-> NewCard] /\ reread = {}
  /\ midway = {}
  /\ loaded = FALSE /\ calls = 0 /\ visits = 0

-----------------------------------------------------------------------------
(* Other threads.                                                           *)

\* The startup thread queues the lambda of AsyncLoadDevices.
LoadDevices ==
  /\ ~loaded
  /\ loaded' = TRUE
  /\ \E event \in AddDevices : uiQueue' = Append(uiQueue, event)
  /\ UNCHANGED <<rows, holder, emitting, toAdd, home, cards, card, reread,
                 midway, calls, visits>>

\* The startup thread and the polls queue a call for the UI thread.
Post(c) ==
  /\ loaded
  /\ calls < MaxCalls
  /\ calls' = calls + 1
  /\ uiQueue' = Append(uiQueue, c)
  /\ UNCHANGED <<rows, holder, emitting, toAdd, home, cards, card, reread,
                 midway, loaded, visits>>

\* recvMsg calls one of its updates.
ConsumerUpdate(c) ==
  /\ calls < MaxCalls
  /\ calls' = calls + 1
  /\ emitting["consumer"] = Silence
  /\ Update("consumer", c)
  /\ UNCHANGED <<holder, uiQueue, toAdd, home, cards, card, reread, midway,
                 loaded, visits>>

\* Mutant of ConsumerEmit: a signal is saved while others are waiting.
ConsumerEmitIfIdle ==
  /\ emitting["consumer"] # Silence
  /\ holder = "none"
  /\ emitting' = [emitting EXCEPT !["consumer"] = Silence]
  /\ uiQueue' = IF home /\ uiQueue = <<>>
                THEN Append(uiQueue, emitting["consumer"]) ELSE uiQueue
  /\ UNCHANGED <<rows, holder, toAdd, home, cards, card, reread, midway,
                 loaded, calls, visits>>

\* index() takes the mutex; the signal is queued if there is a page to hear
\* it.
ConsumerEmit ==
  /\ emitting["consumer"] # Silence
  /\ holder = "none"
  /\ emitting' = [emitting EXCEPT !["consumer"] = Silence]
  /\ uiQueue' = IF home THEN Append(uiQueue, emitting["consumer"]) ELSE uiQueue
  /\ UNCHANGED <<rows, holder, toAdd, home, cards, card, reread, midway,
                 loaded, calls, visits>>

-----------------------------------------------------------------------------
(* The UI thread.                                                           *)

\* It has finished with an event.
UiIdle == toAdd = <<>> /\ reread = {} /\ emitting["ui"] = Silence

\* A binding is evaluated: data() under the mutex.  The one of statusText
\* asks again, for isOnline, when it got no text.
EvaluateBinding ==
  /\ holder = "none"
  /\ midway = {}
  /\ \E e \in reread :
       IF e[2] = "statusText" /\ rows[e[1]].text = ""
       THEN /\ midway' = {e[1]}
            /\ UNCHANGED <<card, reread>>
       ELSE /\ card' = [card EXCEPT ![e[1]][e[2]] = Value(e[2], rows[e[1]])]
            /\ reread' = reread \ {e}
            /\ UNCHANGED midway
  /\ UNCHANGED <<rows, holder, emitting, uiQueue, toAdd, home, cards, loaded,
                 calls, visits>>

\* The second data() of statusText: the row may have a text by now.
EvaluateFallback ==
  /\ holder = "none"
  /\ \E d \in midway :
       /\ card' = [card EXCEPT ![d]["statusText"] = Fallback(rows[d])]
       /\ reread' = reread \ {<<d, "statusText">>}
  /\ midway' = {}
  /\ UNCHANGED <<rows, holder, emitting, uiQueue, toAdd, home, cards, loaded,
                 calls, visits>>

\* A signal of the UI thread is heard at once.
UiEmit ==
  /\ emitting["ui"] # Silence
  /\ holder = "none"
  /\ emitting' = [emitting EXCEPT !["ui"] = Silence]
  /\ reread' = reread \cup Reevaluate(emitting["ui"])
  /\ UNCHANGED <<rows, holder, uiQueue, toAdd, home, cards, card, midway,
                 loaded, calls, visits>>

\* addDevice of a new number: the insertion makes a card, whose bindings are
\* then evaluated.
AddNewDevice ==
  /\ toAdd # <<>> /\ reread = {} /\ emitting["ui"] = Silence
  /\ holder = "none"
  /\ LET d == Head(toAdd) IN
       /\ ~rows[d].present
       /\ rows' = addDevice(rows, d)
       /\ IF home THEN cards' = cards \cup {d} /\ reread' = {d} \X Bindings
                  ELSE UNCHANGED <<cards, reread>>
  /\ toAdd' = Tail(toAdd)
  /\ UNCHANGED <<holder, emitting, uiQueue, home, card, midway, loaded, calls,
                 visits>>

\* addDevice of a known number: the new object takes its place, and the
\* mutex is still held when index() and the signal come.
ReplaceDevice ==
  /\ toAdd # <<>> /\ reread = {} /\ emitting["ui"] = Silence
  /\ holder = "none"
  /\ LET d == Head(toAdd) IN
       /\ rows[d].present
       /\ rows' = addDevice(rows, d)
       /\ emitting' = [emitting EXCEPT !["ui"] = Notice(d, Roles)]
  /\ holder' = "ui"
  /\ toAdd' = Tail(toAdd)
  /\ UNCHANGED <<uiQueue, home, cards, card, reread, midway, loaded, calls,
                 visits>>

\* The lambda of AsyncLoadDevices begins.
RunAddDevices ==
  /\ UiIdle /\ uiQueue # <<>>
  /\ Head(uiQueue) \in AddDevices
  /\ toAdd' = Head(uiQueue).table
  /\ uiQueue' = Tail(uiQueue)
  /\ UNCHANGED <<rows, holder, emitting, home, cards, card, reread, midway,
                 loaded, calls, visits>>

RunCall ==
  /\ UiIdle /\ uiQueue # <<>>
  /\ Head(uiQueue) \in Calls
  /\ Update("ui", Head(uiQueue))
  /\ uiQueue' = Tail(uiQueue)
  /\ UNCHANGED <<holder, toAdd, home, cards, card, reread, midway, loaded,
                 calls, visits>>

DeliverNotice ==
  /\ UiIdle /\ uiQueue # <<>>
  /\ Head(uiQueue) \in Notices
  /\ reread' = Reevaluate(Head(uiQueue))
  /\ uiQueue' = Tail(uiQueue)
  /\ UNCHANGED <<rows, holder, emitting, toAdd, home, cards, card, midway,
                 loaded, calls, visits>>

IsNotice(event) == event.name = "dataChanged"

\* Mutant of LeaveHome: what was queued for the page that goes away is kept.
LeaveHomeKeepsNotices ==
  /\ UiIdle /\ home
  /\ visits < MaxVisits
  /\ visits' = visits + 1
  /\ home' = FALSE
  /\ cards' = {} /\ card' = [d \in Devices |-> NewCard]
  /\ UNCHANGED <<rows, holder, emitting, uiQueue, toAdd, reread, midway,
                 loaded, calls>>

\* A signal queued for a page that is gone reaches nobody.
Unheard(event) == IF IsNotice(event) THEN [event EXCEPT !.roles = {}] ELSE event

\* Another page replaces the home page.
LeaveHome ==
  /\ UiIdle /\ home
  /\ visits < MaxVisits
  /\ visits' = visits + 1
  /\ home' = FALSE
  /\ cards' = {} /\ card' = [d \in Devices |-> NewCard]
  /\ uiQueue' = [i \in DOMAIN uiQueue |-> Unheard(uiQueue[i])]
  /\ UNCHANGED <<rows, holder, emitting, toAdd, reread, midway, loaded, calls>>

\* A new home page makes a card of every row.
OpenHome ==
  /\ UiIdle /\ ~home
  /\ holder = "none"
  /\ home' = TRUE
  /\ cards' = {d \in Devices : rows[d].present}
  /\ reread' = cards' \X Bindings
  /\ UNCHANGED <<rows, holder, emitting, uiQueue, toAdd, card, midway, loaded,
                 calls, visits>>

UiThread ==
  \/ EvaluateBinding \/ EvaluateFallback \/ UiEmit
  \/ AddNewDevice \/ ReplaceDevice
  \/ RunAddDevices \/ RunCall \/ DeliverNotice

Next ==
  \/ LoadDevices
  \/ \E c \in SelfChecks \cup Onlines : Post(c)
  \/ \E c \in SelfChecks \cup Progresses : ConsumerUpdate(c)
  \/ ConsumerEmit
  \/ UiThread \/ LeaveHome \/ OpenHome

Spec == Init /\ [][Next]_vars

(* The UI thread has its event loop and the consumer thread runs; nobody    *)
(* has to open a page.                                                      *)
FairSpec == Spec /\ WF_vars(UiThread) /\ WF_vars(ConsumerEmit)

-----------------------------------------------------------------------------
(* Properties.                                                              *)

(* Type invariant of the whole state: no binding of a page that is gone is   *)
(* left to evaluate, and no signal that would make one.                     *)
TypeOK ==
  /\ rows \in [Devices -> Rows]
  /\ holder \in {"none", "ui"}
  /\ emitting \in [Threads -> Notices \cup {Silence}]
  /\ uiQueue \in Seq(Events)
  /\ \A i \in DOMAIN uiQueue :
       IsNotice(uiQueue[i]) => home \/ uiQueue[i].roles = {}
  /\ toAdd \in Seq(Devices)
  /\ home \in BOOLEAN
  /\ cards \subseteq Devices
  /\ reread \subseteq cards \X Bindings
  /\ midway \subseteq Devices
  /\ loaded \in BOOLEAN
  /\ calls \in 0..MaxCalls /\ visits \in 0..MaxVisits

\* A binding will hear of a change: it is about to be evaluated, or a signal
\* it reads a role of is on its way.
Concerns(n, d, b) == IsNotice(n) /\ n.dev = d /\ Reads(b) \cap n.roles # {}

Told(d, b) ==
  \/ <<d, b>> \in reread
  \/ \E t \in Threads : Concerns(emitting[t], d, b)
  \/ \E i \in DOMAIN uiQueue : Concerns(uiQueue[i], d, b)

(* Whenever the home page is there, every device has a card, and what a     *)
(* card shows is what the row says now or will be read again: whichever     *)
(* thread changes the row, between the unlock and the signal, while the     *)
(* signal waits, while the card reads the other roles, and while pages come *)
(* and go.                                                                  *)
CardIsCurrentOrTold ==
  home =>
    /\ cards = {d \in Devices : rows[d].present}
    /\ \A d \in cards, b \in Bindings :
         card[d][b] = Value(b, rows[d]) \/ Told(d, b)

CardsAreCurrent ==
  home => /\ cards = {d \in Devices : rows[d].present}
          /\ \A d \in cards, b \in Bindings : card[d][b] = Value(b, rows[d])

(* When the rows stop changing the cards come to show them for good, unless *)
(* the UI thread never gives the mutex back.                                *)
CardsCatchUp == <>[](holder = "none" => CardsAreCurrent)

(* The comment in addDevice (device_model.cpp): sending the signal with the *)
(* lock held calls no foreign code and is safe.  The UI thread never needs  *)
(* the mutex, which is not recursive, while it holds it.                    *)
SignalUnderLockIsSafe == ~(holder = "ui" /\ emitting["ui"] # Silence)
=============================================================================
