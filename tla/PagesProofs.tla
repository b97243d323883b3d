----------------------------- MODULE PagesProofs -----------------------------
(***************************************************************************)
(* Proofs about Pages, for every set of devices, any number of records and *)
(* any limit of the history page.                                          *)
(***************************************************************************)
EXTENDS Pages, TLAPS

\* What a query found is what a load of the request has to show.
Answers(m) ==
  IF m.request.rec # 0 THEN m.result = m.request
  ELSE IF m.result = Nothing THEN m.least = 0
  ELSE m.result.dev = m.request.dev /\ m.result.rec >= m.least

\* A load that was not dropped is the one that runs; the records it must at
\* least show are there to be read; and what it has read it may show.
ModelInv(m) ==
  /\ m \in Models
  /\ m.result # Demo
  /\ Loading(m) =>
       /\ m.asked \in {m.request, Nothing}
       /\ m.request.rec = 0 => m.least <= saved[m.request.dev]
       /\ m.result \notin {Pending, Failed} => Answers(m)

\* The history page only asks for the newest list, and of its own device.
HistoryInv ==
  /\ Loading(history) => history.request.rec = 0
  /\ (page = "history" /\ history.asked # Nothing)
       => history.asked.dev = pageDevice

PagesInv ==
  /\ TypeOK
  /\ ModelInv(pile) /\ ModelInv(history)
  /\ HistoryInv
  /\ DetailServed /\ HistoryServed

-----------------------------------------------------------------------------
(* The models.                                                              *)

LEMMA ItemFacts ==
  /\ MaxRecords \in Nat /\ Limit \in Nat \ {0} /\ LongIds \subseteq Devices
  /\ "none" \notin LongIds /\ "demo" \notin LongIds
  /\ Nothing \in Items /\ Nothing \in Requests /\ Demo \in Items
  /\ Nothing # Demo /\ Nothing # Pending /\ Nothing # Failed
  /\ Pending # Failed /\ Demo # Pending /\ Demo # Failed
  /\ Nothing.dev = "none" /\ Nothing.rec = 0 /\ Demo.rec = 0
  /\ Pending.rec = 0 /\ Failed.rec = 0
BY PagesAssumption
   DEF PagesAssumption, Items, Requests, Nothing, Demo, Pending, Failed, Item

LEMMA RequestFacts ==
  ASSUME NEW d \in LongIds, NEW r \in 0..MaxRecords
  PROVE  /\ Item(d, r) \in Requests /\ Item(d, r) # Nothing
         /\ Item(d, r).dev = d /\ Item(d, r).rec = r
         /\ r # 0 => Item(d, r) \in Items /\ Item(d, r) # Demo
                     /\ Item(d, r) # Pending /\ Item(d, r) # Failed
<1>1. /\ Item(d, r) \in Requests /\ Item(d, r).dev = d /\ Item(d, r).rec = r
      /\ r # 0 => Item(d, r) \in Items
  BY PagesAssumption DEF PagesAssumption, Item, Requests, Items
<1> QED BY <1>1, ItemFacts

\* The items that are no records, and the requests that are no loads.
LEMMA Parts ==
  /\ \A i \in Items : i.rec \in 0..MaxRecords /\ (i.rec # 0 => i.dev \in LongIds)
  /\ \A q \in Requests : q # Nothing => q.dev \in LongIds /\ q.rec \in 0..MaxRecords
  /\ \A q \in Requests : q.rec # 0 => q = Item(q.dev, q.rec)
BY ItemFacts DEF Items, Requests, Nothing, Demo, Item

\* A model with the fields it is given.
Model(i, q, r, e, a, l) ==
  [items |-> i, request |-> q, result |-> r, error |-> e, asked |-> a,
   least |-> l]

LEMMA ModelFields ==
  ASSUME NEW i \in Items, NEW q \in Requests,
         NEW r \in Items \cup {Pending, Failed}, NEW e \in BOOLEAN,
         NEW a \in Requests, NEW l \in 0..MaxRecords
  PROVE  /\ Model(i, q, r, e, a, l) \in Models
         /\ Model(i, q, r, e, a, l).items = i
         /\ Model(i, q, r, e, a, l).request = q
         /\ Model(i, q, r, e, a, l).result = r
         /\ Model(i, q, r, e, a, l).error = e
         /\ Model(i, q, r, e, a, l).asked = a
         /\ Model(i, q, r, e, a, l).least = l
BY DEF Model, Models

LEMMA ModelParts ==
  ASSUME NEW m \in Models
  PROVE  /\ m = Model(m.items, m.request, m.result, m.error, m.asked, m.least)
         /\ m.items \in Items /\ m.request \in Requests
         /\ m.result \in Items \cup {Pending, Failed}
         /\ m.error \in BOOLEAN /\ m.asked \in Requests
         /\ m.least \in 0..MaxRecords
BY DEF Model, Models

\* The models the steps make of a model.
LEMMA WithResult ==
  ASSUME NEW m \in Models, NEW r
  PROVE  [m EXCEPT !.result = r]
           = Model(m.items, m.request, r, m.error, m.asked, m.least)
BY DEF Model, Models

LEMMA WithItems ==
  ASSUME NEW m \in Models, NEW i
  PROVE  [m EXCEPT !.items = i]
           = Model(i, m.request, m.result, m.error, m.asked, m.least)
BY DEF Model, Models

LEMMA WithAsked ==
  ASSUME NEW m \in Models, NEW a
  PROVE  [m EXCEPT !.asked = a]
           = Model(m.items, m.request, m.result, m.error, a, m.least)
BY DEF Model, Models

LEMMA WithFailure ==
  ASSUME NEW m \in Models
  PROVE  [m EXCEPT !.error = TRUE, !.request = Nothing]
           = Model(m.items, Nothing, m.result, TRUE, m.asked, m.least)
<1> DEFINE t == TRUE
           n == [m EXCEPT !.error = t]
<1>2. [m EXCEPT !.error = t, !.request = Nothing]
        = [n EXCEPT !.request = Nothing]
  OBVIOUS
<1> HIDE DEF t
<1>1. n = Model(m.items, m.request, m.result, t, m.asked, m.least)
  BY DEF Model, Models
<1> HIDE DEF n
<1>3. [n EXCEPT !.request = Nothing]
        = Model(m.items, Nothing, m.result, t, m.asked, m.least)
  BY <1>1 DEF Model
<1> USE DEF t
<1> QED BY <1>2, <1>3

LEMMA WithNewItems ==
  ASSUME NEW m \in Models
  PROVE  [m EXCEPT !.items = m.result, !.request = Nothing]
           = Model(m.result, Nothing, m.result, m.error, m.asked, m.least)
<1> DEFINE n == [m EXCEPT !.items = m.result]
<1>1. n = Model(m.result, m.request, m.result, m.error, m.asked, m.least)
  BY DEF Model, Models
<1>2. [m EXCEPT !.items = m.result, !.request = Nothing]
        = [n EXCEPT !.request = Nothing]
  OBVIOUS
<1> HIDE DEF n
<1>3. [n EXCEPT !.request = Nothing]
        = Model(m.result, Nothing, m.result, m.error, m.asked, m.least)
  BY <1>1 DEF Model
<1> QED BY <1>2, <1>3

LEMMA WithLoad ==
  ASSUME NEW m \in Models, NEW q, NEW l
  PROVE  [m EXCEPT !.request = q, !.result = Pending, !.error = FALSE,
                   !.asked = q, !.least = l]
           = Model(m.items, q, Pending, FALSE, q, l)
<1> DEFINE f  == FALSE
           n1 == [m  EXCEPT !.request = q]
           n2 == [n1 EXCEPT !.result = Pending]
           n3 == [n2 EXCEPT !.error = f]
           n4 == [n3 EXCEPT !.asked = q]
           n5 == [n4 EXCEPT !.least = l]
<1>0. [m EXCEPT !.request = q, !.result = Pending, !.error = f,
                !.asked = q, !.least = l] = n5
  OBVIOUS
<1> HIDE DEF f
<1>1. n1 = Model(m.items, q, m.result, m.error, m.asked, m.least)
  BY DEF Model, Models
<1> HIDE DEF n1
<1>2. n2 = Model(m.items, q, Pending, m.error, m.asked, m.least)
  BY <1>1 DEF Model
<1> HIDE DEF n2
<1>3. n3 = Model(m.items, q, Pending, f, m.asked, m.least)
  BY <1>2 DEF Model
<1> HIDE DEF n3
<1>4. n4 = Model(m.items, q, Pending, f, q, m.least)
  BY <1>3 DEF Model
<1> HIDE DEF n4
<1>5. n5 = Model(m.items, q, Pending, f, q, l)
  BY <1>4 DEF Model
<1> QED BY <1>0, <1>5 DEF f

\* What the invariant says of a model it is true of.
LEMMA InvParts ==
  ASSUME NEW m, ModelInv(m)
  PROVE  /\ m \in Models /\ m.items \in Items /\ m.request \in Requests
         /\ m.result \in Items \cup {Pending, Failed} /\ m.result # Demo
         /\ m.asked \in Requests /\ m.least \in 0..MaxRecords
BY ModelParts DEF ModelInv

LEMMA LoadFacts ==
  ASSUME saved \in [LongIds -> 0..MaxRecords], NEW m, ModelInv(m),
         NEW q \in Requests, q # Nothing
  PROVE  /\ ModelInv(Load(m, q)) /\ Loading(Load(m, q))
         /\ Load(m, q).items = m.items
         /\ Load(m, q).asked \in {q, Nothing}
         /\ Load(m, q).request = IF Loading(m) THEN m.request ELSE q
<1> USE InvParts, ItemFacts
<1>1. CASE Loading(m)
  <2> DEFINE a == IF q = m.request THEN q ELSE Nothing
             n == Model(m.items, m.request, m.result, m.error, a, m.least)
  <2>1. Load(m, q) = n
    BY <1>1, WithAsked DEF Load
  <2>2. a \in Requests /\ a \in {q, Nothing} /\ a \in {m.request, Nothing}
    OBVIOUS
  <2> HIDE DEF a
  <2>3. /\ n \in Models /\ n.items = m.items /\ n.request = m.request
        /\ n.result = m.result /\ n.asked = a /\ n.least = m.least
    BY <2>2, ModelParts DEF Model, Models
  <2> HIDE DEF n
  <2>4. Loading(n)
    BY <1>1, <2>3 DEF Loading
  <2>5. ModelInv(n)
    BY <1>1, <2>2, <2>3 DEF ModelInv, Answers
  <2> QED BY <1>1, <2>1, <2>2, <2>3, <2>4, <2>5
<1>2. CASE ~Loading(m)
  <2> DEFINE l == IF q.rec = 0 THEN saved[q.dev] ELSE 0
             n == Model(m.items, q, Pending, FALSE, q, l)
  <2>1. m \in Models
    BY InvParts
  <2>2. Load(m, q) = [m EXCEPT !.request = q, !.result = Pending,
                               !.error = FALSE, !.asked = q, !.least = l]
    BY <1>2, Zenon DEF Load
  <2>3. l \in 0..MaxRecords /\ (q.rec = 0 => l <= saved[q.dev])
    BY Parts
  <2> HIDE DEF l
  <2>4. Load(m, q) = n
    BY <2>1, <2>2, WithLoad, Zenon
  <2>5. /\ n \in Models /\ n.items = m.items /\ n.request = q
        /\ n.result = Pending /\ n.asked = q /\ n.least = l
    BY <2>3, ModelParts DEF Model, Models
  <2> HIDE DEF n
  <2>6. Loading(n)
    BY <2>5 DEF Loading
  <2>7. ModelInv(n)
    BY <2>3, <2>5 DEF ModelInv
  <2> QED BY <1>2, <2>4, <2>5, <2>6, <2>7
<1> QED BY <1>1, <1>2

LEMMA FinishedFacts ==
  ASSUME NEW m, ModelInv(m), Loading(m), m.result # Pending
  PROVE  /\ ModelInv(Finished(m)) /\ ~Loading(Finished(m))
         /\ Finished(m).asked = m.asked
         /\ Finished(m).items = m.items \/ Finished(m).items = m.result
         /\ m.result \in Items => Finished(m).items = m.result
         /\ Settled(Finished(m)) => Serves(Finished(m))
<1> USE InvParts, ItemFacts
<1>1. CASE m.result = Failed
  <2> DEFINE n == Model(m.items, Nothing, m.result, TRUE, m.asked, m.least)
  <2>1. Finished(m) = n
    BY <1>1, WithFailure DEF Finished
  <2>2. /\ n \in Models /\ n.items = m.items /\ n.request = Nothing
        /\ n.result = m.result /\ n.error /\ n.asked = m.asked
    BY ModelParts DEF Model, Models
  <2> HIDE DEF n
  <2>3. ~Loading(n) /\ ~Settled(n)
    BY <2>2 DEF Loading, Settled
  <2>4. m.result \notin Items
    <3>1. \A i \in Items : i.rec = 0 => i \in {Nothing, Demo}
      BY DEF Items
    <3> QED BY <1>1, <3>1
  <2> QED BY <2>1, <2>2, <2>3, <2>4 DEF ModelInv
<1>2. CASE m.result # Failed
  <2> DEFINE n == Model(m.result, Nothing, m.result, m.error, m.asked, m.least)
  <2>1. Finished(m) = n
    BY <1>2, WithNewItems DEF Finished
  <2>2. m.result \in Items /\ m.error \in BOOLEAN
    BY <1>2, ModelParts
  <2>3. /\ n \in Models /\ n.items = m.result /\ n.request = Nothing
        /\ n.result = m.result /\ n.asked = m.asked /\ n.least = m.least
    BY <2>2, ModelParts DEF Model, Models
  <2> HIDE DEF n
  <2>4. ~Loading(n)
    BY <2>3 DEF Loading
  <2>5. ModelInv(n)
    BY <2>3, <2>4 DEF ModelInv
  <2>6. ASSUME n.asked # Nothing PROVE Serves(n)
    <3>1. m.asked = m.request /\ Answers(m)
      BY <1>2, <2>3, <2>6 DEF ModelInv
    <3> QED BY <2>3, <3>1 DEF Answers, Serves
  <2> QED BY <2>1, <2>2, <2>3, <2>4, <2>5, <2>6 DEF Settled
<1> QED BY <1>1, <1>2

\* What a query finds at the moment it reads.
LEMMA QueryFacts ==
  ASSUME saved \in [LongIds -> 0..MaxRecords],
         NEW m, ModelInv(m), Loading(m), NEW r,
         \/ r \in {PileItems(m.request), Failed}
         \/ r \in {HistoryItems(m.request), Failed} /\ m.request.rec = 0
  PROVE  /\ ModelInv([m EXCEPT !.result = r])
         /\ Loading([m EXCEPT !.result = r])
         /\ [m EXCEPT !.result = r].asked = m.asked
         /\ [m EXCEPT !.result = r].request = m.request
         /\ [m EXCEPT !.result = r].items = m.items
<1> USE InvParts, ItemFacts
<1> DEFINE n == Model(m.items, m.request, r, m.error, m.asked, m.least)
<1>1. [m EXCEPT !.result = r] = n
  BY WithResult
<1>2. m.request \in Requests /\ m.request # Nothing
      /\ m.request.dev \in LongIds /\ m.request.rec \in 0..MaxRecords
      /\ saved[m.request.dev] \in 0..MaxRecords
  BY Parts DEF Loading
<1>3. \/ r = Failed
      \/ r = Nothing /\ m.request.rec = 0 /\ saved[m.request.dev] = 0
      \/ r = m.request /\ m.request.rec # 0
      \/ /\ m.request.rec = 0 /\ saved[m.request.dev] # 0
         /\ r = Item(m.request.dev, saved[m.request.dev])
  BY DEF PileItems, HistoryItems
<1>4. /\ r \in Items \cup {Pending, Failed} /\ r # Demo /\ r # Pending
      /\ r # Failed =>
           IF m.request.rec # 0 THEN r = m.request
           ELSE IF r = Nothing THEN m.least = 0
           ELSE r.dev = m.request.dev /\ r.rec >= m.least
  <2>1. CASE r = Failed
    BY <2>1
  <2>2. CASE r = Nothing /\ m.request.rec = 0 /\ saved[m.request.dev] = 0
    <3>1. m.least <= 0
      BY <2>2 DEF ModelInv
    <3> QED BY <2>2, <3>1
  <2>3. CASE r = m.request /\ m.request.rec # 0
    BY <1>2, <2>3, Parts, RequestFacts
  <2>4. CASE /\ m.request.rec = 0 /\ saved[m.request.dev] # 0
             /\ r = Item(m.request.dev, saved[m.request.dev])
    <3>1. m.least <= saved[m.request.dev]
      BY <2>4 DEF ModelInv
    <3> QED BY <1>2, <2>4, <3>1, RequestFacts
  <2> QED BY <1>3, <2>1, <2>2, <2>3, <2>4
<1>5. /\ n \in Models /\ n.items = m.items /\ n.request = m.request
      /\ n.result = r /\ n.asked = m.asked /\ n.least = m.least
  BY <1>4, ModelParts DEF Model, Models
<1> HIDE DEF n
<1>6. Loading(n)
  BY <1>5 DEF Loading
<1>7. ModelInv(n)
  BY <1>4, <1>5 DEF ModelInv, Answers
<1> QED BY <1>1, <1>5, <1>6, <1>7

LEMMA CompletedFacts ==
  ASSUME NEW m, ModelInv(m)
  PROVE  /\ ModelInv(PileDetailCompleted(m))
         /\ PileDetailCompleted(m).request = m.request
         /\ PileDetailCompleted(m).asked = m.asked
<1> USE InvParts, ItemFacts
<1>1. CASE m.items = Nothing
  <2> DEFINE n == Model(Demo, m.request, m.result, m.error, m.asked, m.least)
  <2>1. PileDetailCompleted(m) = n
    BY <1>1, WithItems DEF PileDetailCompleted
  <2>2. /\ n \in Models /\ n.request = m.request
        /\ n.result = m.result /\ n.asked = m.asked /\ n.least = m.least
    BY ModelParts DEF Model, Models
  <2> HIDE DEF n
  <2>3. ModelInv(n)
    BY <2>2 DEF ModelInv, Answers, Loading
  <2> QED BY <2>1, <2>2, <2>3
<1>2. CASE m.items # Nothing
  BY <1>2 DEF PileDetailCompleted
<1> QED BY <1>1, <1>2

-----------------------------------------------------------------------------
(* The pages.                                                               *)

\* A model that satisfies its invariant keeps it while more is saved.
LEMMA MoreSaved ==
  ASSUME saved \in [LongIds -> 0..MaxRecords],
         saved' \in [LongIds -> 0..MaxRecords],
         \A d \in LongIds : saved[d] <= saved'[d],
         NEW m, ModelInv(m)
  PROVE  /\ m \in Models /\ m.result # Demo
         /\ Loading(m) =>
              /\ m.asked \in {m.request, Nothing}
              /\ m.request.rec = 0 => m.least <= saved'[m.request.dev]
              /\ m.result \notin {Pending, Failed} => Answers(m)
<1>1. ASSUME Loading(m), m.request.rec = 0
      PROVE  m.least <= saved'[m.request.dev]
  <2>1. m.request.dev \in LongIds /\ m.least \in 0..MaxRecords
        /\ m.least <= saved[m.request.dev]
    BY <1>1, InvParts, Parts DEF Loading, ModelInv
  <2> QED BY <2>1, ItemFacts
<1> QED BY <1>1 DEF ModelInv

LEMMA InitPagesInv == Init => PagesInv
<1> SUFFICES ASSUME Init PROVE PagesInv
  OBVIOUS
<1> USE ItemFacts
<1>1. /\ page = "home" /\ pageDevice = "none"
      /\ pile = EmptyModel /\ history = EmptyModel
      /\ saved = [d \in LongIds |-> 0]
  BY DEF Init
<1>2. /\ EmptyModel \in Models /\ EmptyModel.items = Nothing
      /\ EmptyModel.request = Nothing /\ EmptyModel.result = Pending
      /\ EmptyModel.asked = Nothing
  BY DEF EmptyModel, Models
<1>3. ModelInv(EmptyModel) /\ ~Loading(EmptyModel)
  BY <1>2 DEF ModelInv, Loading
<1>4. saved \in [LongIds -> 0..MaxRecords]
  BY <1>1
<1> QED BY <1>1, <1>2, <1>3, <1>4
        DEF PagesInv, TypeOK, HistoryInv, DetailServed, HistoryServed

\* What the proof of every step begins with.
LEMMA PagesParts ==
  ASSUME PagesInv
  PROVE  /\ saved \in [LongIds -> 0..MaxRecords]
         /\ ModelInv(pile) /\ ModelInv(history)
         /\ pageDevice \in LongIds \cup {"none"}
         /\ page = "history" => pageDevice \in LongIds
         /\ history.items # Demo
BY DEF PagesInv, TypeOK

\* A load of a page by the history page, once or twice.
LEMMA HistoryLoads ==
  ASSUME PagesInv, pageDevice \in LongIds, page' = "history",
         pageDevice' = pageDevice, pile' = pile, saved' = saved,
         LET q == Item(pageDevice, 0)
         IN  history' \in {Load(history, q), Load(Load(history, q), q)}
  PROVE  PagesInv'
<1> USE ItemFacts, PagesParts
<1> DEFINE q == Item(pageDevice, 0)
           m1 == Load(history, q)
           m2 == Load(m1, q)
<1>1. q \in Requests /\ q # Nothing /\ q.dev = pageDevice /\ q.rec = 0
  BY RequestFacts
<1>2. history' = m1 \/ history' = m2
  OBVIOUS
<1> HIDE DEF q
<1>3. /\ ModelInv(m1) /\ Loading(m1) /\ m1.items = history.items
      /\ m1.asked \in {q, Nothing}
      /\ m1.request = IF Loading(history) THEN history.request ELSE q
  BY <1>1, LoadFacts
<1> HIDE DEF m1
<1>4. /\ ModelInv(m2) /\ Loading(m2) /\ m2.items = m1.items
      /\ m2.asked \in {q, Nothing} /\ m2.request = m1.request
  BY <1>1, <1>3, LoadFacts
<1> HIDE DEF m2
<1>5. /\ ModelInv(history') /\ Loading(history')
      /\ history'.items = history.items /\ history'.asked \in {q, Nothing}
      /\ history'.request.rec = 0
  <2>1. m1.request.rec = 0
    BY <1>1, <1>3 DEF PagesInv, HistoryInv
  <2> QED BY <1>2, <1>3, <1>4, <2>1
<1>6. ModelInv(history)' /\ ModelInv(pile)'
  BY <1>5 DEF ModelInv, Loading, Answers
<1>7. HistoryInv' /\ HistoryServed' /\ DetailServed'
  BY <1>1, <1>5 DEF HistoryInv, HistoryServed, DetailServed, Settled, Loading
<1>8. TypeOK'
  BY <1>5, <1>6 DEF TypeOK, PagesInv, ModelInv
<1> QED BY <1>6, <1>7, <1>8 DEF PagesInv

\* A detail page of a device, or of none.
LEMMA DetailOpens ==
  ASSUME PagesInv, page' = "detail", history' = history, saved' = saved,
         pageDevice' \in LongIds \cup {"none"}, ModelInv(pile'),
         pageDevice' # "none" => Loading(pile')
  PROVE  PagesInv'
<1> USE ItemFacts, PagesParts
<1>1. ModelInv(history)' /\ ModelInv(pile)'
  BY DEF ModelInv, Loading, Answers
<1>2. HistoryInv' /\ HistoryServed'
  BY DEF PagesInv, HistoryInv, HistoryServed, Loading
<1>3. DetailServed'
  BY DEF DetailServed, Settled, Loading
<1>4. TypeOK'
  BY <1>1 DEF TypeOK, PagesInv, ModelInv
<1> QED BY <1>1, <1>2, <1>3, <1>4 DEF PagesInv

LEMMA NextPagesInv == PagesInv /\ [Next]_vars => PagesInv'
<1> SUFFICES ASSUME PagesInv, [Next]_vars PROVE PagesInv'
  OBVIOUS
<1> USE ItemFacts, PagesParts
<1>1. CASE PileQuery
  <2>1. PICK r \in {PileItems(pile.request), Failed} :
          pile' = [pile EXCEPT !.result = r]
    BY <1>1 DEF PileQuery
  <2>2. Loading(pile) /\ UNCHANGED <<page, pageDevice, history, saved>>
    BY <1>1 DEF PileQuery
  <2>3. ModelInv(pile') /\ Loading(pile')
    BY <2>1, <2>2, QueryFacts
  <2>4. ModelInv(pile)' /\ ModelInv(history)'
    BY <2>2, <2>3 DEF ModelInv, Loading, Answers
  <2>5. TypeOK' /\ HistoryInv' /\ HistoryServed'
    BY <2>2, <2>3
       DEF PagesInv, TypeOK, ModelInv, HistoryInv, HistoryServed, Loading,
           Settled, Serves
  <2>6. DetailServed'
    BY <2>3 DEF DetailServed, Settled, Loading
  <2> QED BY <2>4, <2>5, <2>6 DEF PagesInv
<1>2. CASE HistoryQuery
  <2>1. PICK r \in {HistoryItems(history.request), Failed} :
          history' = [history EXCEPT !.result = r]
    BY <1>2 DEF HistoryQuery
  <2>2. Loading(history) /\ UNCHANGED <<page, pageDevice, pile, saved>>
    BY <1>2 DEF HistoryQuery
  <2>3. history.request.rec = 0
    BY <2>2 DEF PagesInv, HistoryInv
  <2>4. /\ ModelInv(history') /\ Loading(history')
        /\ history'.asked = history.asked /\ history'.items = history.items
        /\ history'.request = history.request
    BY <2>1, <2>2, <2>3, QueryFacts
  <2>5. ModelInv(pile)' /\ ModelInv(history)'
    BY <2>2, <2>4 DEF ModelInv, Loading, Answers
  <2>6. TypeOK' /\ DetailServed'
    BY <2>2, <2>4
       DEF PagesInv, TypeOK, ModelInv, DetailServed, Loading, Settled, Serves
  <2>7. HistoryInv' /\ HistoryServed'
    BY <2>2, <2>3, <2>4
       DEF PagesInv, HistoryInv, HistoryServed, Settled, Loading
  <2> QED BY <2>5, <2>6, <2>7 DEF PagesInv
<1>3. CASE PileFinished
  <2>1. /\ pile' = Finished(pile)
        /\ Loading(pile) /\ pile.result # Pending
        /\ UNCHANGED <<page, pageDevice, history, saved>>
    BY <1>3 DEF PileFinished
  <2>2. /\ ModelInv(pile') /\ ~Loading(pile')
        /\ Settled(pile') => Serves(pile')
    BY <2>1, FinishedFacts
  <2>3. ModelInv(pile)' /\ ModelInv(history)'
    BY <2>1, <2>2 DEF ModelInv, Loading, Answers
  <2>4. TypeOK' /\ HistoryInv' /\ HistoryServed'
    BY <2>1, <2>2
       DEF PagesInv, TypeOK, ModelInv, HistoryInv, HistoryServed, Loading,
           Settled, Serves
  <2>5. DetailServed'
    BY <2>2 DEF DetailServed, Settled, Serves, Loading
  <2> QED BY <2>3, <2>4, <2>5 DEF PagesInv
<1>4. CASE HistoryFinished
  <2>1. /\ history' = Finished(history)
        /\ Loading(history) /\ history.result # Pending
        /\ UNCHANGED <<page, pageDevice, pile, saved>>
    BY <1>4 DEF HistoryFinished
  <2>2. /\ ModelInv(history') /\ ~Loading(history')
        /\ history'.asked = history.asked
        /\ history'.items \in {history.items, history.result}
        /\ Settled(history') => Serves(history')
    BY <2>1, FinishedFacts
  <2>3. ModelInv(pile)' /\ ModelInv(history)'
    BY <2>1, <2>2 DEF ModelInv, Loading, Answers
  <2>4. history'.items # Demo
    BY <2>2, InvParts
  <2>5. TypeOK' /\ DetailServed'
    BY <2>1, <2>2, <2>4
       DEF PagesInv, TypeOK, ModelInv, DetailServed, Loading, Settled, Serves
  <2>6. (page' = "history" /\ history'.asked # Nothing)
          => history'.asked.dev = pageDevice'
    BY <2>1, <2>2 DEF PagesInv, HistoryInv
  <2>7. HistoryInv' /\ HistoryServed'
    BY <2>2, <2>6 DEF HistoryInv, HistoryServed, Settled, Serves, Loading
  <2> QED BY <2>3, <2>5, <2>7 DEF PagesInv
<1>5. ASSUME NEW d \in Devices, ToItemDetailPage(d) PROVE PagesInv'
  <2> DEFINE m == PileDetailCompleted(pile)
  <2>1. /\ page' = "detail" /\ history' = history /\ saved' = saved
        /\ IF d \in LongIds
           THEN pageDevice' = d /\ pile' = Load(m, Item(d, 0))
           ELSE pageDevice' = "none" /\ pile' = m
    BY <1>5 DEF ToItemDetailPage, loadData
  <2>2. ModelInv(m)
    BY CompletedFacts
  <2> HIDE DEF m
  <2>3. CASE d \in LongIds
    <3>1. Item(d, 0) \in Requests /\ Item(d, 0) # Nothing
      BY <2>3, RequestFacts
    <3>2. ModelInv(pile') /\ Loading(pile')
      BY <2>1, <2>2, <2>3, <3>1, LoadFacts
    <3> QED BY <2>1, <2>3, <3>2, DetailOpens
  <2>4. CASE d \notin LongIds
    BY <2>1, <2>2, <2>4, DetailOpens
  <2> QED BY <2>3, <2>4
<1>6. ASSUME NEW r \in 1..MaxRecords, RecordRequested(r) PROVE PagesInv'
  <2> DEFINE q == Item(history.items.dev, r)
             m == Load(pile, q)
  <2>1. /\ page = "history" /\ page' = "detail"
        /\ r \in Listed(history.items)
        /\ pile' = PileDetailCompleted(m)
        /\ UNCHANGED <<pageDevice, history, saved>>
    BY <1>6 DEF RecordRequested
  <2>2. history.items \in Items /\ history.items.rec # 0
    <3>1. history.items \in Items /\ r <= history.items.rec
      BY <2>1, InvParts DEF Listed
    <3> QED BY <3>1
  <2>3. q \in Requests /\ q # Nothing
    BY <2>2, Parts, RequestFacts
  <2> HIDE DEF q
  <2>4. ModelInv(m) /\ Loading(m)
    BY <2>3, LoadFacts
  <2> HIDE DEF m
  <2>5. ModelInv(pile') /\ Loading(pile')
    BY <2>1, <2>4, CompletedFacts DEF Loading
  <2> QED BY <2>1, <2>5, DetailOpens
<1>7. CASE HistoryRequested \/ Refresh
  BY <1>7, HistoryLoads
     DEF HistoryRequested, HistoryPageCreated, Refresh
<1>8. CASE Leave
  <2>1. /\ page' \in {"home", "settings"} /\ pageDevice' = "none"
        /\ UNCHANGED <<pile, history, saved>>
    BY <1>8 DEF Leave
  <2>2. ModelInv(pile)' /\ ModelInv(history)'
    BY <2>1 DEF ModelInv, Loading, Answers
  <2> QED BY <2>1, <2>2
          DEF PagesInv, TypeOK, HistoryInv, DetailServed, HistoryServed, Loading
<1>9. ASSUME NEW d \in LongIds, RecordSaved(d) PROVE PagesInv'
  <2>1. /\ saved[d] < MaxRecords /\ saved' = [saved EXCEPT ![d] = @ + 1]
        /\ UNCHANGED <<page, pageDevice, pile, history>>
    BY <1>9 DEF RecordSaved
  <2>2. /\ saved' \in [LongIds -> 0..MaxRecords]
        /\ \A e \in LongIds : saved[e] <= saved'[e]
    BY <2>1
  <2>3. ModelInv(pile)' /\ ModelInv(history)'
    BY <2>1, <2>2, MoreSaved DEF ModelInv, Loading, Answers
  <2> QED BY <2>1, <2>2, <2>3
          DEF PagesInv, TypeOK, HistoryInv, DetailServed, HistoryServed,
              Settled, Serves, Loading
<1>10. CASE HistoryBack \/ UNCHANGED vars
  BY <1>10 DEF HistoryBack, vars, PagesInv, TypeOK, ModelInv, HistoryInv,
               DetailServed, HistoryServed, Settled, Serves, Loading, Answers
<1> QED BY <1>1, <1>2, <1>3, <1>4, <1>5, <1>6, <1>7, <1>8, <1>9, <1>10 DEF Next

LEMMA SpecPagesInv == Spec => []PagesInv
BY InitPagesInv, NextPagesInv, PTL DEF Spec

(* Every variable keeps its type; no demo modules in the history page.      *)
THEOREM SpecTypeOK == Spec => []TypeOK
<1>1. PagesInv => TypeOK
  BY DEF PagesInv
<1> QED BY <1>1, SpecPagesInv, PTL

(* A detail page whose load was neither dropped nor failed shows what it    *)
(* asked for: a query that began for an earlier page can only end as that   *)
(* page's load, because another load of the model is dropped meanwhile, and *)
(* what it reads is at least as new as the request.                         *)
THEOREM SpecDetailServed == Spec => []DetailServed
<1>1. PagesInv => DetailServed
  BY DEF PagesInv
<1> QED BY <1>1, SpecPagesInv, PTL

(* The same of a history page, which asks for the records of its own        *)
(* device, twice when it is created.                                        *)
THEOREM SpecHistoryServed == Spec => []HistoryServed
<1>1. PagesInv => HistoryServed
  BY DEF PagesInv
<1> QED BY <1>1, SpecPagesInv, PTL
=============================================================================
