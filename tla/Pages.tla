-------------------------------- MODULE Pages --------------------------------
(***************************************************************************)
(* The pages and the two models that load for them: PileModel, the modules *)
(* of one check, shown by the detail page; and HistoryModel, the list of   *)
(* the checks of a device, shown by the history page.  A load runs its     *)
(* query on a thread of the pool and ends on the UI thread; a load asked   *)
(* for while another one of the model runs is dropped.  The models outlive *)
(* the pages, which are replaced while their loads run.                    *)
(*                                                                         *)
(* The r-th record of a device has number r; its modules never change.     *)
(***************************************************************************)
EXTENDS Naturals

CONSTANTS
  Devices,      (* The devices that have a card.                           *)
  LongIds,      (* Those whose id has the 16 characters loadData wants.    *)
  MaxRecords,   (* Bounds the records of any two devices together.         *)
  Limit         (* The number of records the history page asks for.        *)

ASSUME PagesAssumption ==
  /\ LongIds \subseteq Devices
  /\ {"none", "demo"} \cap Devices = {}
  /\ MaxRecords \in Nat
  /\ Limit \in Nat \ {0}

VARIABLES
  page,        (* The page on the stack, which always holds one.           *)
  pageDevice,  (* The deviceId of that page, "none" when it is empty.      *)
  pile,        (* PileModel.                                               *)
  history,     (* HistoryModel.                                            *)
  saved        (* How many records MySQL holds of each device that a page  *)
               (* can ask about.                                           *)

vars == <<page, pageDevice, pile, history, saved>>

(* What a model shows, and what it is asked for: record rec of device dev;  *)
(* or, with rec the newest one, the list of records of dev.  A request for  *)
(* record 0 means the newest.                                               *)
Item(d, r) == [dev |-> d, rec |-> r]
Nothing    == Item("none", 0)
Demo       == Item("demo", 0)
Items      == [dev : LongIds, rec : 1..MaxRecords] \cup {Nothing, Demo}
Requests   == [dev : LongIds, rec : 0..MaxRecords] \cup {Nothing}

\* The states of a query: not yet read, failed, or read.
Pending == Item("pending", 0)
Failed  == Item("failed", 0)

Models == [items   : Items,
           request : Requests,                 \* loading_ when not Nothing
           result  : Items \cup {Pending, Failed},
           error   : BOOLEAN,                  \* lastError is not empty
           (* History: *)
           asked   : Requests,                 \* the last load asked for,
                                               \* Nothing if it was dropped
           least   : 0..MaxRecords]            \* the newest record then

EmptyModel == [items |-> Nothing, request |-> Nothing, result |-> Pending,
               error |-> FALSE, asked |-> Nothing, least |-> 0]

Loading(m) == m.request # Nothing

Init ==
  /\ page = "home" /\ pageDevice = "none"
  /\ pile = EmptyModel /\ history = EmptyModel
  /\ saved = [d \in LongIds |-> 0]

-----------------------------------------------------------------------------
(* The models.                                                              *)

\* load, loadAsyncByRecordId, loadAsyncByDeviceId: the UI thread's half.
Load(m, request) ==
  IF Loading(m)
  THEN [m EXCEPT !.asked = IF request = m.request THEN request ELSE Nothing]
  ELSE [m EXCEPT !.request = request, !.result = Pending, !.error = FALSE,
                 !.asked = request,
                 !.least = IF request.rec = 0 THEN saved[request.dev] ELSE 0]

\* Mutant of Finished: a failed load leaves no message.
FinishedSilently(m) ==
  IF m.result = Failed
  THEN [m EXCEPT !.request = Nothing]
  ELSE [m EXCEPT !.items = m.result, !.request = Nothing]

\* Mutant of Finished: a failed load does not reset loading_.
FinishedStillLoading(m) ==
  IF m.result = Failed
  THEN [m EXCEPT !.error = TRUE]
  ELSE [m EXCEPT !.items = m.result, !.request = Nothing]

\* The slot connected to finished.  A failed load leaves the old items.
Finished(m) ==
  IF m.result = Failed
  THEN [m EXCEPT !.error = TRUE, !.request = Nothing]
  ELSE [m EXCEPT !.items = m.result, !.request = Nothing]

\* GetPileItems, GetLatestPileItems: a device without records has no items.
PileItems(request) ==
  IF request.rec # 0 THEN request
  ELSE IF saved[request.dev] = 0 THEN Nothing
  ELSE Item(request.dev, saved[request.dev])

\* GetHistoryItems: the list, named by its newest record.
HistoryItems(request) ==
  IF saved[request.dev] = 0 THEN Nothing
                            ELSE Item(request.dev, saved[request.dev])

PileQuery ==
  /\ Loading(pile) /\ pile.result = Pending
  /\ pile' \in {[pile EXCEPT !.result = r] :
                  r \in {PileItems(pile.request), Failed}}
  /\ UNCHANGED <<page, pageDevice, history, saved>>

HistoryQuery ==
  /\ Loading(history) /\ history.result = Pending
  /\ history' \in {[history EXCEPT !.result = r] :
                     r \in {HistoryItems(history.request), Failed}}
  /\ UNCHANGED <<page, pageDevice, pile, saved>>

PileFinished ==
  /\ Loading(pile) /\ pile.result # Pending
  /\ pile' = Finished(pile)
  /\ UNCHANGED <<page, pageDevice, history, saved>>

HistoryFinished ==
  /\ Loading(history) /\ history.result # Pending
  /\ history' = Finished(history)
  /\ UNCHANGED <<page, pageDevice, pile, saved>>

-----------------------------------------------------------------------------
(* The pages.                                                               *)

\* PileDetail is completed as soon as the detail page is created; an empty
\* PileModel gets the demo modules, whatever load is running.
PileDetailCompleted(m) ==
  IF m.items = Nothing THEN [m EXCEPT !.items = Demo] ELSE m

\* loadData of the detail page, on the model it was created with: an id that
\* is not 16 characters long is ignored.
loadData(d, m) ==
  IF d \in LongIds
  THEN pageDevice' = d /\ pile' = Load(m, Item(d, 0))
  ELSE pageDevice' = "none" /\ pile' = m

\* A long press of a card.
ToItemDetailPage(d) ==
  /\ page = "home"
  /\ page' = "detail"
  /\ loadData(d, PileDetailCompleted(pile))
  /\ UNCHANGED <<history, saved>>

\* Back on the detail page, and the two entries of the bar on every page.
Leave ==
  /\ \/ page' = "home"
     \/ page' = "settings"
  /\ pageDevice' = "none"
  /\ UNCHANGED <<pile, history, saved>>

\* Mutant of HistoryRequested: a list that is there already is not loaded.
HistoryRequestedIfEmpty ==
  /\ page = "detail"
  /\ pageDevice # "none"
  /\ page' = "history"
  /\ history' = IF history.items = Nothing
                THEN Load(history, Item(pageDevice, 0)) ELSE history
  /\ UNCHANGED <<pageDevice, pile, saved>>

\* Mutant of HistoryRequested: the button also works without a device.
HistoryRequestedUnchecked ==
  /\ page = "detail"
  /\ page' = "history"
  /\ history' = IF pageDevice = "none" THEN history
                                       ELSE Load(history, Item(pageDevice, 0))
  /\ UNCHANGED <<pageDevice, pile, saved>>

\* The history page loads when deviceId is set and again when it is
\* completed; the second load is dropped for the same request.
HistoryPageCreated(d) ==
  history' = Load(Load(history, Item(d, 0)), Item(d, 0))

\* The history button.
HistoryRequested ==
  /\ page = "detail"
  /\ pageDevice # "none"
  /\ page' = "history"
  /\ HistoryPageCreated(pageDevice)
  /\ UNCHANGED <<pageDevice, pile, saved>>

Refresh ==
  /\ page = "history"
  /\ history' = Load(history, Item(pageDevice, 0))
  /\ UNCHANGED <<page, pageDevice, pile, saved>>

\* The list of the history page: the newest records of its model.
Listed(items) ==
  {r \in 1..items.rec : r + Limit > items.rec}

\* A click on a record of the list, which is in HistoryModel's items; the
\* detail page gets the deviceId of the history page.
RecordRequested(r) ==
  /\ page = "history"
  /\ r \in Listed(history.items)
  /\ page' = "detail"
  /\ pile' = PileDetailCompleted(Load(pile, Item(history.items.dev, r)))
  /\ UNCHANGED <<pageDevice, history, saved>>

\* The back button of the history page pops the only page of the stack, and
\* a StackView keeps its last page.
HistoryBack ==
  /\ page = "history"
  /\ UNCHANGED vars

-----------------------------------------------------------------------------
\* saveResultToMysql, as a query sees it.
RecordSaved(d) ==
  /\ saved[d] < MaxRecords
  /\ \A e \in LongIds \ {d} : saved[d] + saved[e] < MaxRecords
  /\ saved' = [saved EXCEPT ![d] = @ + 1]
  /\ UNCHANGED <<page, pageDevice, pile, history>>

Next ==
  \/ PileQuery \/ PileFinished
  \/ HistoryQuery \/ HistoryFinished
  \/ \E d \in Devices : ToItemDetailPage(d)
  \/ \E d \in LongIds : RecordSaved(d)
  \/ Leave
  \/ HistoryRequested \/ Refresh \/ HistoryBack
  \/ \E r \in 1..MaxRecords : RecordRequested(r)

Spec == Init /\ [][Next]_vars

\* The pool runs its tasks and the event loop runs the slots; the client of
\* MySQL returns from every query.
FairSpec ==
  /\ Spec
  /\ WF_vars(PileQuery \/ PileFinished)
  /\ WF_vars(HistoryQuery \/ HistoryFinished)

-----------------------------------------------------------------------------
(* Properties.                                                              *)

(* Type invariant of the whole state.                                       *)
TypeOK ==
  /\ page \in {"home", "settings", "detail", "history"}
  /\ pageDevice \in LongIds \cup {"none"}
  /\ page = "history" => pageDevice \in LongIds
  /\ pile \in Models /\ history \in Models
  /\ history.items # Demo
  /\ saved \in [LongIds -> 0..MaxRecords]

\* The last load asked of a model was run, and it succeeded.
Settled(m) == ~Loading(m) /\ ~m.error /\ m.asked # Nothing

\* The items are those the last load asked for, or newer ones if it asked for
\* the newest.
Serves(m) ==
  IF m.asked.rec # 0 THEN m.items = m.asked
  ELSE IF m.items = Nothing THEN m.least = 0
  ELSE m.items.dev = m.asked.dev /\ m.items.rec >= m.least

(* A detail page whose load was neither dropped for another one nor failed  *)
(* shows what it asked for, although the model is shared with every page    *)
(* before; and no demo modules, which the load always replaces.             *)
DetailServed ==
  (page = "detail" /\ pageDevice # "none" /\ Settled(pile)) => Serves(pile)

(* The same of a history page; and what it asked for is its own device.     *)
HistoryServed ==
  (page = "history" /\ Settled(history))
    => Serves(history) /\ history.asked.dev = pageDevice

(* Every load ends, so that no model stays loading and drops every later    *)
(* load.                                                                    *)
LoadsEnd ==
  /\ Loading(pile) ~> ~Loading(pile)
  /\ Loading(history) ~> ~Loading(history)
=============================================================================
