------------------------------ MODULE CcuResult ------------------------------
(***************************************************************************)
(* The measurements of one pile, from the hashes DataServer writes into    *)
(* Redis, one for each CCU module, to the record in MySQL, and what the    *)
(* program makes of a record: the status the history page lists, the items *)
(* the detail page counts as abnormal, and the result the startup thread   *)
(* hands to the card.  SelfCheck reads the hashes of a pile in one step;   *)
(* here KEYS and each HGETALL is a step of its own, between which          *)
(* DataServer may measure again.                                           *)
(*                                                                         *)
(* A hash maps the number in front of the ';' of a field to its value.     *)
(* The attributes of a module are the set of the flags that are true.      *)
(***************************************************************************)
EXTENDS Naturals, Sequences, FiniteSets

CONSTANTS
  Modules,    (* The CCU modules of the pile.                              *)
  Hashes,     (* The hashes DataServer may write for a module.             *)
  MaxChecks   (* Bounds the self-checks of the pile.                       *)

\* A value is 1, 2, or nothing the program can use.
Values == {"1", "2", "other"}

ASSUME CcuResultAssumption ==
  /\ IsFiniteSet(Modules)
  /\ MaxChecks \in Nat
  /\ \A h \in Hashes : /\ DOMAIN h \subseteq Nat
                       /\ \A f \in DOMAIN h : h[f] \in Values

VARIABLES
  (* DataServer and Redis.                                                 *)
  check,      (* The check the pile runs, or ran last.                     *)
  toMeasure,  (* The modules it has still to measure.                      *)
  answered,   (* The checks answered, in their order.                      *)
  hashes,     (* The hash of each module, and the check that wrote it.     *)
  gone,       (* Modules whose hash was once removed.                      *)
  measured,   (* History: the hash each check wrote for each module.       *)
  (* recvMsg on the consumer thread.                                       *)
  handled,    (* The answers whose handler has returned.                   *)
  pc,         (* Where the handler of the next one is.                     *)
  todo,       (* The keys it has still to read.                            *)
  got,        (* The attributes it has read, and the check they are of.    *)
  records,    (* self_check_record, oldest first.                          *)
  loaded      (* What LoadLatestCheckInfo found, and in which record.      *)

serverVars  == <<check, toMeasure, answered, hashes, gone, measured>>
handlerVars == <<handled, pc, todo, got>>
vars == <<serverVars, handlerVars, records, loaded>>

Flags == 0..31

NoHash    == [n |-> 0, hash |-> <<>>]
NoReading == [n |-> 0, flags |-> {}]
Readings  == [n : 0..MaxChecks, flags : SUBSET Flags]
Records   == [n : 1..MaxChecks, modules : [Modules -> Readings],
              status : {"OK", "WARN"}, issues : Nat]

Read(modules) == {m \in Modules : modules[m].n # 0}
NothingRead   == [m \in Modules |-> NoReading]
NotMeasured   == [m \in Modules |-> [n \in 1..MaxChecks |-> <<>>]]

Init ==
  /\ check = 0 /\ toMeasure = {} /\ answered = 0
  /\ hashes = [m \in Modules |-> NoHash] /\ gone = {}
  /\ measured = NotMeasured
  /\ handled = 0 /\ pc = "idle" /\ todo = {} /\ got = NothingRead
  /\ records = <<>>
  /\ loaded = [rec |-> 0, status |-> "Passed"]

-----------------------------------------------------------------------------
(* DataServer and Redis.                                                    *)

PileStart ==
  /\ check < MaxChecks /\ toMeasure = {}
  /\ check' = check + 1
  /\ toMeasure' = Modules
  /\ UNCHANGED <<answered, hashes, gone, measured>>
  /\ UNCHANGED <<handlerVars, records, loaded>>

Measure(m, h) ==
  /\ m \in toMeasure
  /\ toMeasure' = toMeasure \ {m}
  /\ hashes' = [hashes EXCEPT ![m] = [n |-> check, hash |-> h]]
  /\ measured' = [measured EXCEPT ![m][check] = h]
  /\ UNCHANGED <<check, answered, gone, handlerVars, records, loaded>>

\* A check is answered once every module is measured; the next may have begun.
ServerRespond ==
  /\ answered < check
  /\ answered + 1 = check => toMeasure = {}
  /\ answered' = answered + 1
  /\ UNCHANGED <<check, toMeasure, hashes, gone, measured>>
  /\ UNCHANGED <<handlerVars, records, loaded>>

Expire(m) ==
  /\ hashes[m].n # 0
  /\ hashes' = [hashes EXCEPT ![m] = NoHash]
  /\ gone' = gone \cup {m}
  /\ UNCHANGED <<check, toMeasure, answered, measured>>
  /\ UNCHANGED <<handlerVars, records, loaded>>

-----------------------------------------------------------------------------
(* recvMsg, for a result.                                                   *)

\* Mutant of ToCCUAttr: the number of a field is not compared with 32.
ToCCUAttrUnchecked(h) == {f \in DOMAIN h : h[f] = "1"}

\* Mutant of ToCCUAttr: whatever is not the value 2 makes the flag true.
ToCCUAttrNotTwo(h) == {f \in DOMAIN h \cap Flags : h[f] # "2"}

\* Whatever is not the value 1 of a flag leaves the flag false.
ToCCUAttr(h) == {f \in DOMAIN h \cap Flags : h[f] = "1"}

\* The flags add_issue_if_true is called with: those of the contactors, the
\* stopped fans and the contactors of the two guns.
IssueFlags == 0..7 \cup {8, 10, 12, 14} \cup 16..19 \cup 24..27

issue_count(modules) ==
  Cardinality({p \in Modules \X IssueFlags : p[2] \in modules[p[1]].flags})

\* Mutant of RecvResult: the handler saves on the notice of the start.
RecvResultOnStart ==
  /\ pc = "idle" /\ handled < check
  /\ pc' = "keys"
  /\ UNCHANGED <<serverVars, handled, todo, got, records, loaded>>

RecvResult ==
  /\ pc = "idle" /\ handled < answered
  /\ pc' = "keys"
  /\ UNCHANGED <<serverVars, handled, todo, got, records, loaded>>

\* Mutant of Return: what was read for one result is kept for the next.
ReturnKeepsReadings ==
  /\ pc' = "idle" /\ todo' = {} /\ UNCHANGED got
  /\ handled' = handled + 1

\* recvMsg returns; the message is acknowledged all the same.
Return ==
  /\ pc' = "idle" /\ todo' = {} /\ got' = NothingRead
  /\ handled' = handled + 1

\* KEYS: the modules with a hash, or none when the client is not connected or
\* the call fails.
Keys == {{m \in Modules : hashes[m].n # 0}, {}}

\* HGETALL, which answers nothing when the call fails and an empty hash when
\* there is none.
HGetAll(m) == {hashes[m], NoHash}

\* A result without modules is none.
getRedisKey ==
  /\ pc = "keys"
  /\ \E keys \in Keys :
       IF keys = {}
       THEN Return
       ELSE pc' = "hashes" /\ todo' = keys /\ UNCHANGED <<handled, got>>
  /\ UNCHANGED <<serverVars, records, loaded>>

Reading(value) == [n |-> value.n, flags |-> ToCCUAttr(value.hash)]

\* Mutant of getResultFromRedis: a hash that cannot be read is passed over.
getResultFromRedisSkips(m) ==
  /\ pc = "hashes" /\ m \in todo
  /\ todo' = todo \ {m}
  /\ \E value \in HGetAll(m) :
       got' = IF value.n = 0 THEN got ELSE [got EXCEPT ![m] = Reading(value)]
  /\ pc' = IF todo' = {} THEN "save" ELSE "hashes"
  /\ UNCHANGED <<serverVars, handled, records, loaded>>

\* The next key, in the order of KEYS, which is any.
getResultFromRedis(m) ==
  /\ pc = "hashes" /\ m \in todo
  /\ \E value \in HGetAll(m) :
       IF value.n = 0
       THEN Return
       ELSE /\ got' = [got EXCEPT ![m] = Reading(value)]
            /\ todo' = todo \ {m}
            /\ pc' = IF todo = {m} THEN "save" ELSE "hashes"
            /\ UNCHANGED handled
  /\ UNCHANGED <<serverVars, records, loaded>>

saveResultToMysql ==
  /\ pc = "save"
  /\ LET issues == issue_count(got)
         row == [n |-> handled + 1, modules |-> got, issues |-> issues,
                 status |-> IF issues > 0 THEN "WARN" ELSE "OK"]
     IN  records' \in {Append(records, row), records}
  /\ Return
  /\ UNCHANGED <<serverVars, loaded>>

-----------------------------------------------------------------------------
(* What is made of a record.                                                *)

\* GetPileItems: one item for each module of the record.
PileItems(row) == Read(row.modules)

\* abnormalCount of the page: the flags it adds up for one item.
PageFlags == {0, 1, 2, 3} \cup {4, 5, 6, 7} \cup {8, 10, 12, 14}
               \cup {16, 17, 18, 19} \cup {24, 25, 26, 27}

abnormalCount(row, m) == Cardinality(row.modules[m].flags \cap PageFlags)

\* The rows under the count, one for each flag but those of the locks and the
\* auxiliary power: a fan that does not turn is grey, every other flag red.
TurningFlags == {9, 11, 13, 15}
ShownFlags   == 0..19 \cup 24..27
RedRows(row, m) == {f \in ShownFlags \ TurningFlags : f \in row.modules[m].flags}

\* LoadLatestCheckInfo looks at the contactors of a module only.
CardFlags == 0..7

fail_count(row) ==
  Cardinality({m \in PileItems(row) : row.modules[m].flags \cap CardFlags # {}})

\* The startup thread, once; it leaves the card alone if there is no record.
LoadLatestCheckInfo ==
  /\ loaded.rec = 0 /\ records # <<>>
  /\ LET row == records[Len(records)] IN
       loaded' = [rec    |-> Len(records),
                  status |-> IF fail_count(row) > 0 THEN "Failed" ELSE "Passed"]
  /\ UNCHANGED <<serverVars, handlerVars, records>>

-----------------------------------------------------------------------------
Next ==
  \/ PileStart \/ ServerRespond
  \/ \E m \in Modules, h \in Hashes : Measure(m, h)
  \/ \E m \in Modules : Expire(m)
  \/ RecvResult \/ getRedisKey
  \/ \E m \in Modules : getResultFromRedis(m)
  \/ saveResultToMysql
  \/ LoadLatestCheckInfo

Spec == Init /\ [][Next]_vars

-----------------------------------------------------------------------------
(* Properties.                                                              *)

(* Type invariant of the whole state.                                       *)
TypeOK ==
  /\ check \in 0..MaxChecks /\ answered \in 0..check
  /\ handled \in 0..answered
  /\ toMeasure \subseteq Modules /\ gone \subseteq Modules
  /\ hashes \in [Modules -> [n : 0..MaxChecks, hash : Hashes \cup {<<>>}]]
  /\ measured \in [Modules -> [1..MaxChecks -> Hashes \cup {<<>>}]]
  /\ pc \in {"idle", "keys", "hashes", "save"}
  /\ todo \subseteq Modules
  /\ got \in [Modules -> Readings]
  /\ records \in Seq(Records)
  /\ loaded \in [rec : 0..Len(records), status : {"Passed", "Failed"}]

(* The table definition (doc/db.md): the details hold the results of all    *)
(* modules.  Whatever call to Redis fails, the program records all modules  *)
(* or gives up the result; only a module whose hash was removed is missing. *)
RecordIsComplete ==
  \A i \in DOMAIN records : Modules \ gone \subseteq Read(records[i].modules)

(* Each module of a record was measured by the check of the result or by a  *)
(* later one, though the hashes are read one by one while DataServer        *)
(* writes: getResultFromRedis mixes checks only when the pile was asked     *)
(* again before its result was handled.                                     *)
ModulesNotOlderThanResult ==
  \A i \in DOMAIN records : \A m \in Read(records[i].modules) :
    records[i].modules[m].n >= records[i].n

\* What the check wrote for the module has the value 1 in a field that counts.
WrittenAbnormal(m, n) ==
  \E f \in PageFlags \cap DOMAIN measured[m][n] : measured[m][n][f] = "1"

(* The status the history page lists is WARN exactly when the detail page   *)
(* counts an item of the same record as abnormal, exactly when it shows a   *)
(* red row, and exactly when DataServer wrote the value 1 of such a flag in *)
(* the check the module of the record is of, whatever was written, removed  *)
(* or read since: saveResultToMysql, the count and the rows of PileDetail   *)
(* are three lists of the flags that matter, and ToCCUAttr passes over the  *)
(* field numbers and the values that are none.                              *)
StatusAgreesWithPage ==
  \A i \in DOMAIN records : LET row == records[i] IN
    /\ row.status = "WARN"
         <=> \E m \in PileItems(row) : abnormalCount(row, m) > 0
    /\ row.status = "WARN"
         <=> \E m \in PileItems(row) : RedRows(row, m) # {}
    /\ row.status = "WARN"
         <=> \E m \in PileItems(row) : WrittenAbnormal(m, row.modules[m].n)

\* A record without its flags: of which check each module is.
Measured(row) == [n |-> row.n, of |-> [m \in Modules |-> row.modules[m].n]]

PileLog == INSTANCE PileRecords WITH
  Numbers  <- 1..MaxChecks,
  begun    <- check,
  answered <- 1..answered,
  removed  <- gone,
  records  <- {Measured(records[i]) : i \in DOMAIN records}

(* The handler, with its reads of the hashes one by one between which       *)
(* DataServer measures again and hashes go away, is one step of PileRecords *)
(* or none: a record is of an answered check, each of its modules is of a   *)
(* check between that one and the newest begun, each for itself, and what   *)
(* is recorded is never changed.                                            *)
ImplementsPileRecords == PileLog!Spec

(* The comment of LoadLatestCheckInfo: any abnormal state counts as failed. *)
(* The result it hands to the card is Failed exactly when the record it     *)
(* read has the status WARN.                                                *)
AnyAbnormalIsFailed ==
  loaded.rec # 0 =>
    (loaded.status = "Failed" <=> records[loaded.rec].status = "WARN")
=============================================================================
