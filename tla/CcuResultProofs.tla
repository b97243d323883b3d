--------------------------- MODULE CcuResultProofs ---------------------------
(***************************************************************************)
(* Theorems about CcuResult: whatever the modules of the pile, the hashes  *)
(* DataServer writes, the order of the reads and the reads that fail, a    *)
(* record is complete, its modules are not older than its result, and its  *)
(* status agrees with what the detail page counts.                         *)
(***************************************************************************)
EXTENDS CcuResult, FiniteSetTheorems, TLAPS

(***************************************************************************)
(* The flags and their counts.                                             *)
(***************************************************************************)

LEMMA ReadingType ==
  ASSUME NEW n \in 0..MaxChecks, NEW h
  PROVE  Reading([n |-> n, hash |-> h]) \in Readings
BY DEF ToCCUAttr, Reading, Readings

LEMMA NothingReadType == NothingRead \in [Modules -> Readings]
<1>1. NoReading \in Readings
  BY CcuResultAssumption DEF NoReading, Readings, CcuResultAssumption
<1> QED
  BY <1>1 DEF NothingRead

LEMMA FlagsFinite ==
  ASSUME NEW S, S \subseteq Flags
  PROVE  IsFiniteSet(S)
<1>1. 0 \in Int /\ 31 \in Int
  OBVIOUS
<1>2. IsFiniteSet(0..31)
  BY <1>1, FS_Interval, Zenon
<1> QED
  BY <1>2, FS_Subset DEF Flags

\* The three lists name the same flags.
LEMMA SameFlags == /\ IssueFlags = PageFlags /\ PageFlags \subseteq Flags
                   /\ ShownFlags \ TurningFlags = PageFlags
BY DEF IssueFlags, PageFlags, Flags, ShownFlags, TurningFlags

\* A count of issues is above zero when some module has some such flag.
LEMMA IssueCount ==
  ASSUME NEW modules
  PROVE  /\ issue_count(modules) \in Nat
         /\ issue_count(modules) > 0
              <=> \E m \in Modules : modules[m].flags \cap IssueFlags # {}
<1> DEFINE issues == {p \in Modules \X IssueFlags : p[2] \in modules[p[1]].flags}
<1>1. IsFiniteSet(issues)
  <2>1. IsFiniteSet(IssueFlags)
    BY SameFlags, FlagsFinite
  <2>2. IsFiniteSet(Modules \X IssueFlags)
    BY <2>1, CcuResultAssumption, FS_Product DEF CcuResultAssumption
  <2> QED
    BY <2>2, FS_Subset
<1>2. issues # {} <=> \E m \in Modules : modules[m].flags \cap IssueFlags # {}
  <2>1. ASSUME NEW m \in Modules, NEW f \in modules[m].flags \cap IssueFlags
        PROVE  <<m, f>> \in issues
    OBVIOUS
  <2>2. ASSUME NEW p \in issues
        PROVE  p[1] \in Modules /\ p[2] \in modules[p[1]].flags \cap IssueFlags
    OBVIOUS
  <2> QED
    BY <2>1, <2>2
<1>3. Cardinality(issues) \in Nat /\ (Cardinality(issues) = 0 <=> issues = {})
  BY <1>1, FS_CardinalityType, FS_EmptySet
<1> QED
  BY <1>2, <1>3 DEF issue_count

LEMMA AbnormalCount ==
  ASSUME NEW row, NEW m
  PROVE  abnormalCount(row, m) > 0 <=> row.modules[m].flags \cap PageFlags # {}
<1> DEFINE items == row.modules[m].flags \cap PageFlags
<1>1. IsFiniteSet(items)
  BY SameFlags, FlagsFinite
<1>2. Cardinality(items) \in Nat /\ (Cardinality(items) = 0 <=> items = {})
  BY <1>1, FS_CardinalityType, FS_EmptySet
<1> QED
  BY <1>2 DEF abnormalCount

LEMMA RedRowsCounted ==
  ASSUME NEW row, NEW m
  PROVE  RedRows(row, m) # {} <=> row.modules[m].flags \cap PageFlags # {}
BY SameFlags DEF RedRows

(***************************************************************************)
(* The inductive invariant: what has been measured, what the handler has   *)
(* read, and what the records say.                                         *)
(***************************************************************************)

\* Every module but a removed one has a hash once it was measured, and the
\* hash is that of the present check, or of the one before until the module
\* is measured again.
MeasuredInv ==
  /\ toMeasure # {} => answered < check
  /\ \A m \in Modules :
       hashes[m].n # 0 =>
         check <= IF m \in toMeasure THEN hashes[m].n + 1 ELSE hashes[m].n
  /\ \A m \in Modules \ gone :
       hashes[m].n = 0 => check = 0 \/ (check = 1 /\ m \in toMeasure)

\* What the handler has read is not older than its result, and nothing but a
\* removed module is neither read nor to be read.
HandlerInv ==
  /\ pc # "idle" => handled < answered
  /\ pc = "save" => todo = {}
  /\ pc \in {"hashes", "save"} => Modules \ gone \subseteq todo \cup Read(got)
  /\ \A m \in Modules : /\ got[m].n # 0 => got[m].n > handled
                        /\ got[m].n = 0 => got[m].flags = {}

RecordOK(row) ==
  /\ Modules \ gone \subseteq Read(row.modules)
  /\ \A m \in Read(row.modules) : row.modules[m].n >= row.n
  /\ row.status = "WARN" <=> \E m \in PileItems(row) : abnormalCount(row, m) > 0
  /\ row.status = "WARN" <=> \E m \in PileItems(row) : RedRows(row, m) # {}

RecordsInv == \A i \in DOMAIN records : RecordOK(records[i])

Inv == TypeOK /\ MeasuredInv /\ HandlerInv /\ RecordsInv

LEMMA InitInv == Init => Inv
<1> SUFFICES ASSUME Init PROVE Inv
  OBVIOUS
<1> USE CcuResultAssumption DEF CcuResultAssumption
<1>1. TypeOK
  <2>1. hashes \in [Modules -> [n : 0..MaxChecks, hash : Hashes \cup {<<>>}]]
    BY DEF Init, NoHash
  <2>2. got \in [Modules -> Readings]
    BY NothingReadType DEF Init
  <2>3. measured \in [Modules -> [1..MaxChecks -> Hashes \cup {<<>>}]]
    BY DEF Init, NotMeasured
  <2> QED
    BY <2>1, <2>2, <2>3 DEF TypeOK, Init
<1>2. MeasuredInv
  BY DEF Init, MeasuredInv, NoHash
<1>3. HandlerInv
  BY DEF Init, HandlerInv, NothingRead, NoReading
<1>4. RecordsInv
  BY DEF Init, RecordsInv
<1> QED
  BY <1>1, <1>2, <1>3, <1>4 DEF Inv

\* A record stays as it should be: only gone can change under it.
LEMMA RecordsStay ==
  ASSUME Inv, gone \subseteq gone', UNCHANGED records
  PROVE  RecordsInv'
<1> SUFFICES ASSUME NEW i \in DOMAIN records
             PROVE  RecordOK(records[i])'
  BY DEF RecordsInv
<1>1. RecordOK(records[i])
  BY DEF Inv, RecordsInv
<1> QED
  BY <1>1 DEF RecordOK, Read, PileItems, abnormalCount, RedRows
(***************************************************************************)
(* Steps of DataServer and Redis.                                          *)
(***************************************************************************)

LEMMA PileStartInv ==
  ASSUME Inv, PileStart
  PROVE  Inv'
<1> USE CcuResultAssumption DEF CcuResultAssumption
<1>1. TypeOK'
  BY DEF Inv, TypeOK, PileStart, handlerVars
<1>2. MeasuredInv'
  BY DEF Inv, TypeOK, MeasuredInv, PileStart
<1>3. HandlerInv'
  BY DEF Inv, HandlerInv, PileStart, handlerVars, Read
<1>4. RecordsInv'
  BY RecordsStay DEF PileStart
<1> QED
  BY <1>1, <1>2, <1>3, <1>4 DEF Inv

LEMMA MeasureInv ==
  ASSUME Inv, NEW m \in Modules, NEW h \in Hashes, Measure(m, h)
  PROVE  Inv'
<1> USE CcuResultAssumption DEF CcuResultAssumption
<1>1. TypeOK'
  <2>1. [n |-> check, hash |-> h] \in [n : 0..MaxChecks, hash : Hashes \cup {<<>>}]
    BY DEF Inv, TypeOK
  <2>2. hashes' \in [Modules -> [n : 0..MaxChecks, hash : Hashes \cup {<<>>}]]
    BY <2>1 DEF Inv, TypeOK, Measure
  <2> QED
    BY <2>2 DEF Inv, TypeOK, Measure, handlerVars
<1>2. MeasuredInv'
  BY DEF Inv, TypeOK, MeasuredInv, Measure
<1>3. HandlerInv'
  BY DEF Inv, HandlerInv, Measure, handlerVars, Read
<1>4. RecordsInv'
  BY RecordsStay DEF Measure
<1> QED
  BY <1>1, <1>2, <1>3, <1>4 DEF Inv

LEMMA ServerRespondInv ==
  ASSUME Inv, ServerRespond
  PROVE  Inv'
<1> USE CcuResultAssumption DEF CcuResultAssumption
<1>1. TypeOK'
  BY DEF Inv, TypeOK, ServerRespond, handlerVars
<1>2. MeasuredInv'
  BY DEF Inv, TypeOK, MeasuredInv, ServerRespond
<1>3. HandlerInv'
  BY DEF Inv, TypeOK, HandlerInv, ServerRespond, handlerVars, Read
<1>4. RecordsInv'
  BY RecordsStay DEF ServerRespond
<1> QED
  BY <1>1, <1>2, <1>3, <1>4 DEF Inv

LEMMA ExpireInv ==
  ASSUME Inv, NEW m \in Modules, Expire(m)
  PROVE  Inv'
<1> USE CcuResultAssumption DEF CcuResultAssumption
<1>1. TypeOK'
  <2>1. NoHash \in [n : 0..MaxChecks, hash : Hashes \cup {<<>>}]
    BY DEF NoHash
  <2>2. hashes' \in [Modules -> [n : 0..MaxChecks, hash : Hashes \cup {<<>>}]]
    BY <2>1 DEF Inv, TypeOK, Expire
  <2> QED
    BY <2>2 DEF Inv, TypeOK, Expire, handlerVars
<1>2. MeasuredInv'
  BY DEF Inv, TypeOK, MeasuredInv, Expire, NoHash
<1>3. HandlerInv'
  BY DEF Inv, HandlerInv, Expire, handlerVars, Read
<1>4. RecordsInv'
  BY RecordsStay DEF Expire
<1> QED
  BY <1>1, <1>2, <1>3, <1>4 DEF Inv

(***************************************************************************)
(* Steps of the handler.                                                   *)
(***************************************************************************)

LEMMA RecvResultInv ==
  ASSUME Inv, RecvResult
  PROVE  Inv'
<1>1. TypeOK'
  BY DEF Inv, TypeOK, RecvResult, serverVars
<1>2. MeasuredInv'
  BY DEF Inv, MeasuredInv, RecvResult, serverVars
<1>3. HandlerInv'
  BY DEF Inv, HandlerInv, RecvResult, serverVars, Read
<1>4. RecordsInv'
  BY RecordsStay DEF RecvResult, serverVars
<1> QED
  BY <1>1, <1>2, <1>3, <1>4 DEF Inv

\* Wherever the handler returns, it has the next answer before it, or none.
LEMMA ReturnInv ==
  ASSUME Inv, pc # "idle", Return, UNCHANGED serverVars
  PROVE  /\ MeasuredInv' /\ HandlerInv'
         /\ handled' \in 0..answered' /\ pc' = "idle" /\ todo' = {}
         /\ got' \in [Modules -> Readings]
<1>1. MeasuredInv'
  BY DEF Inv, MeasuredInv, serverVars
<1>2. HandlerInv'
  BY DEF HandlerInv, Return, NothingRead, NoReading
<1>3. handled < answered /\ handled' \in 0..answered'
  BY CcuResultAssumption DEF CcuResultAssumption, Inv, TypeOK, HandlerInv, Return, serverVars
<1>4. got' \in [Modules -> Readings]
  BY NothingReadType DEF Return
<1> QED
  BY <1>1, <1>2, <1>3, <1>4 DEF Return

LEMMA GiveUpInv ==
  ASSUME Inv, pc # "idle", Return, UNCHANGED <<serverVars, records, loaded>>
  PROVE  Inv'
<1>1. TypeOK'
  BY ReturnInv DEF Inv, TypeOK, serverVars
<1>2. RecordsInv'
  BY RecordsStay DEF serverVars
<1> QED
  BY <1>1, <1>2, ReturnInv DEF Inv

LEMMA getRedisKeyInv ==
  ASSUME Inv, getRedisKey
  PROVE  Inv'
<1> DEFINE present == {m \in Modules : hashes[m].n # 0}
<1>1. CASE Return
  BY <1>1, GiveUpInv DEF getRedisKey
<1>2. CASE pc' = "hashes" /\ todo' = present /\ UNCHANGED <<handled, got>>
  <2>1. TypeOK'
    BY <1>2 DEF Inv, TypeOK, getRedisKey, serverVars
  <2>2. MeasuredInv'
    BY DEF Inv, MeasuredInv, getRedisKey, serverVars
  <2>3. Modules \ gone \subseteq present
    <3>1. check # 0 /\ (check = 1 => toMeasure = {})
      BY CcuResultAssumption DEF CcuResultAssumption, Inv, TypeOK, HandlerInv,
         MeasuredInv, getRedisKey
    <3> QED
      BY <3>1 DEF Inv, MeasuredInv
  <2>4. HandlerInv'
    BY <1>2, <2>3 DEF Inv, HandlerInv, getRedisKey, serverVars, Read
  <2>5. RecordsInv'
    BY RecordsStay DEF getRedisKey, serverVars
  <2> QED
    BY <2>1, <2>2, <2>4, <2>5 DEF Inv
<1> QED
  BY <1>1, <1>2 DEF getRedisKey, Keys

LEMMA getResultFromRedisInv ==
  ASSUME Inv, NEW m \in Modules, getResultFromRedis(m)
  PROVE  Inv'
<1> DEFINE reading == Reading(hashes[m])
           one     == /\ hashes[m].n # 0
                      /\ got' = [got EXCEPT ![m] = reading]
                      /\ todo' = todo \ {m}
                      /\ pc' = IF todo = {m} THEN "save" ELSE "hashes"
                      /\ UNCHANGED handled
<1>1. CASE Return
  BY <1>1, GiveUpInv DEF getResultFromRedis
<1>2. CASE one
  <2>1. pc = "hashes" /\ m \in todo /\ UNCHANGED <<serverVars, records, loaded>>
    BY DEF getResultFromRedis
  <2>2. reading \in Readings
    <3>1. hashes[m].n \in 0..MaxChecks
      BY DEF Inv, TypeOK
    <3>2. Reading([n |-> hashes[m].n, hash |-> hashes[m].hash]) \in Readings
      BY <3>1, ReadingType
    <3> QED
      BY <3>2 DEF Reading
  <2>3. got' \in [Modules -> Readings]
    BY <1>2, <2>2 DEF Inv, TypeOK
  <2>4. TypeOK'
    BY <1>2, <2>1, <2>3 DEF Inv, TypeOK, serverVars
  <2>5. MeasuredInv'
    BY <2>1 DEF Inv, MeasuredInv, serverVars
  <2>6. hashes[m].n > handled
    <3>1. handled < answered /\ (m \in toMeasure => answered < check)
      BY <2>1 DEF Inv, MeasuredInv, HandlerInv
    <3>2. check <= IF m \in toMeasure THEN hashes[m].n + 1 ELSE hashes[m].n
      BY <1>2 DEF Inv, MeasuredInv
    <3>3. hashes[m].n \in 0..MaxChecks
      BY DEF Inv, TypeOK
    <3> HIDE DEF one
    <3> QED
      BY <3>1, <3>2, <3>3, CcuResultAssumption DEF CcuResultAssumption, Inv, TypeOK
  <2>7. HandlerInv'
    <3>1. got'[m].n # 0 /\ got'[m].n > handled'
      BY <1>2, <2>6 DEF Inv, TypeOK, Reading
    <3>2. \A k \in Modules \ {m} : got'[k] = got[k]
      BY <1>2 DEF Inv, TypeOK
    <3>3. todo \cup Read(got) \subseteq todo' \cup Read(got')
      BY <1>2, <3>1, <3>2 DEF Read
    <3>4. pc' = "save" => todo' = {}
      BY <1>2
    <3>5. Modules \ gone' \subseteq todo' \cup Read(got')
      BY <2>1, <3>3 DEF Inv, HandlerInv, serverVars
    <3>6. \A k \in Modules : /\ got'[k].n # 0 => got'[k].n > handled'
                             /\ got'[k].n = 0 => got'[k].flags = {}
      BY <1>2, <3>1, <3>2 DEF Inv, HandlerInv
    <3>7. handled' < answered'
      BY <1>2, <2>1 DEF Inv, HandlerInv, serverVars
    <3> QED
      BY <3>4, <3>5, <3>6, <3>7 DEF HandlerInv
  <2>8. RecordsInv'
    BY <2>1, RecordsStay DEF serverVars
  <2> QED
    BY <2>4, <2>5, <2>7, <2>8 DEF Inv
<1>3. NoHash.n = 0
  BY DEF NoHash
<1> QED
  BY <1>1, <1>2, <1>3 DEF getResultFromRedis, HGetAll

LEMMA saveResultToMysqlInv ==
  ASSUME Inv, saveResultToMysql
  PROVE  Inv'
<1> DEFINE issues == issue_count(got)
           row == [n |-> handled + 1, modules |-> got, issues |-> issues,
                   status |-> IF issues > 0 THEN "WARN" ELSE "OK"]
<1>1. /\ pc = "save" /\ Return /\ UNCHANGED <<serverVars, loaded>>
      /\ records' \in {Append(records, row), records}
  BY DEF saveResultToMysql
<1>2. MeasuredInv' /\ HandlerInv'
  BY <1>1, ReturnInv
<1>3. row \in Records
  <2>1. handled + 1 \in 1..MaxChecks
    BY <1>1, CcuResultAssumption DEF CcuResultAssumption, Inv, TypeOK, HandlerInv
  <2>2. issues \in Nat
    BY IssueCount
  <2> QED
    BY <2>1, <2>2 DEF Records, Inv, TypeOK
<1>4. RecordOK(row)
  <2>1. Modules \ gone \subseteq Read(got)
    BY <1>1 DEF Inv, HandlerInv
  <2>2. \A m \in Read(got) : got[m].n >= handled + 1
    BY <1>1, CcuResultAssumption
    DEF CcuResultAssumption, Inv, TypeOK, HandlerInv, Read, Readings
  <2>3. row.status = "WARN" <=> issues > 0
    OBVIOUS
  <2>4. issues > 0 <=> \E m \in Modules : got[m].flags \cap IssueFlags # {}
    BY IssueCount
  <2>5. \A m \in Modules : got[m].flags \cap IssueFlags # {} => m \in Read(got)
    BY DEF Inv, HandlerInv, Read
  <2>6. \A m : abnormalCount(row, m) > 0 <=> got[m].flags \cap IssueFlags # {}
    BY AbnormalCount, SameFlags
  <2>7. PileItems(row) = Read(got) /\ Read(got) \subseteq Modules
    BY DEF PileItems, Read
  <2>8. row.status = "WARN" <=> \E m \in PileItems(row) : abnormalCount(row, m) > 0
    <3> HIDE DEF row, issues
    <3> QED
      BY <2>3, <2>4, <2>5, <2>6, <2>7
  <2>9. row.status = "WARN" <=> \E m \in PileItems(row) : RedRows(row, m) # {}
    <3>1. \A m : RedRows(row, m) # {} <=> got[m].flags \cap IssueFlags # {}
      BY RedRowsCounted, SameFlags
    <3> HIDE DEF row, issues
    <3> QED
      BY <2>3, <2>4, <2>5, <3>1, <2>7
  <2> QED
    BY <2>1, <2>2, <2>8, <2>9 DEF RecordOK
<1>5. RecordsInv' /\ records' \in Seq(Records) /\ Len(records) <= Len(records')
  <2>1. CASE records' = records
    <3>1. RecordsInv'
      BY <2>1, <1>1, RecordsStay DEF serverVars
    <3> QED
      BY <2>1, <3>1 DEF Inv, TypeOK
  <2>2. CASE records' = Append(records, row)
    <3> HIDE DEF row
    <3>1. records' \in Seq(Records) /\ Len(records') = Len(records) + 1
      BY <2>2, <1>3 DEF Inv, TypeOK
    <3>2. ASSUME NEW i \in DOMAIN records'
          PROVE  RecordOK(records'[i])
      BY <2>2, <1>3, <1>4 DEF Inv, TypeOK, RecordsInv
    <3>3. gone' = gone
      BY <1>1 DEF serverVars
    <3>4. RecordsInv'
      BY <3>2, <3>3 DEF RecordsInv, RecordOK, Read, PileItems, abnormalCount,
         RedRows
    <3> QED
      BY <3>1, <3>4 DEF Inv, TypeOK
  <2> QED
    BY <1>1, <2>1, <2>2
<1>6. TypeOK'
  <2>1. loaded' \in [rec : 0..Len(records'), status : {"Passed", "Failed"}]
    <3>1. loaded \in [rec : 0..Len(records), status : {"Passed", "Failed"}]
      BY DEF Inv, TypeOK
    <3>2. 0..Len(records) \subseteq 0..Len(records')
      BY <1>5 DEF Inv, TypeOK
    <3> QED
      BY <3>1, <3>2, <1>1
  <2> QED
    BY <1>1, <1>5, <2>1, ReturnInv DEF Inv, TypeOK, serverVars
<1> QED
  BY <1>2, <1>5, <1>6 DEF Inv

LEMMA LoadLatestInv ==
  ASSUME Inv, LoadLatestCheckInfo
  PROVE  Inv'
<1>1. TypeOK'
  <2>1. loaded'.rec = Len(records) /\ Len(records) \in Nat
    BY DEF Inv, TypeOK, LoadLatestCheckInfo
  <2>2. loaded' \in [rec : 0..Len(records'), status : {"Passed", "Failed"}]
    BY <2>1 DEF LoadLatestCheckInfo
  <2> QED
    BY <2>2 DEF Inv, TypeOK, LoadLatestCheckInfo, serverVars, handlerVars
<1>2. MeasuredInv'
  BY DEF Inv, MeasuredInv, LoadLatestCheckInfo, serverVars
<1>3. HandlerInv'
  BY DEF Inv, HandlerInv, LoadLatestCheckInfo, serverVars, handlerVars, Read
<1>4. RecordsInv'
  BY RecordsStay DEF LoadLatestCheckInfo, serverVars
<1> QED
  BY <1>1, <1>2, <1>3, <1>4 DEF Inv

(***************************************************************************)
(* The theorems.                                                           *)
(***************************************************************************)

LEMMA NextInv == Inv /\ [Next]_vars => Inv'
<1> SUFFICES ASSUME Inv, [Next]_vars PROVE Inv'
  OBVIOUS
<1>1. CASE PileStart
  BY <1>1, PileStartInv
<1>2. CASE ServerRespond
  BY <1>2, ServerRespondInv
<1>3. CASE \E m \in Modules, h \in Hashes : Measure(m, h)
  BY <1>3, MeasureInv
<1>4. CASE \E m \in Modules : Expire(m)
  BY <1>4, ExpireInv
<1>5. CASE RecvResult
  BY <1>5, RecvResultInv
<1>6. CASE getRedisKey
  BY <1>6, getRedisKeyInv
<1>7. CASE \E m \in Modules : getResultFromRedis(m)
  BY <1>7, getResultFromRedisInv
<1>8. CASE saveResultToMysql
  BY <1>8, saveResultToMysqlInv
<1>9. CASE LoadLatestCheckInfo
  BY <1>9, LoadLatestInv
<1>10. CASE UNCHANGED vars
  <2>1. TypeOK' /\ MeasuredInv' /\ HandlerInv'
    BY <1>10 DEF Inv, TypeOK, MeasuredInv, HandlerInv, Read, vars, serverVars,
       handlerVars
  <2>2. RecordsInv'
    BY <1>10, RecordsStay DEF vars, serverVars
  <2> QED
    BY <2>1, <2>2 DEF Inv
<1> QED
  BY <1>1, <1>2, <1>3, <1>4, <1>5, <1>6, <1>7, <1>8, <1>9, <1>10 DEF Next

LEMMA SpecInv == Spec => []Inv
BY InitInv, NextInv, PTL DEF Spec

(* Every variable keeps its type, for every pile and every hash: no field   *)
(* number of a hash reaches the attributes unless it is one of the flags.   *)
THEOREM SpecTypeOK == Spec => []TypeOK
<1>1. Inv => TypeOK
  BY DEF Inv
<1> QED
  BY <1>1, SpecInv, PTL

(* A record has every module of the pile whose hash was never removed,      *)
(* whichever of the reads fail: getResultFromRedis gives up the result.     *)
THEOREM SpecRecordIsComplete == Spec => []RecordIsComplete
<1>1. Inv => RecordIsComplete
  BY DEF Inv, RecordsInv, RecordOK, RecordIsComplete
<1> QED
  BY <1>1, SpecInv, PTL

(* No module of a record was measured before the check of its result, in    *)
(* whatever order the hashes are read and written.                          *)
THEOREM SpecModulesNotOlder == Spec => []ModulesNotOlderThanResult
<1>1. Inv => ModulesNotOlderThanResult
  BY DEF Inv, RecordsInv, RecordOK, ModulesNotOlderThanResult
<1> QED
  BY <1>1, SpecInv, PTL

(***************************************************************************)
(* The status of a record and what DataServer has written.                 *)
(***************************************************************************)

\* A reading of module m is of what the check in question wrote, which that
\* check will not write again.
ReadingOK(m, reading) ==
  reading.n # 0 =>
    /\ reading.flags = ToCCUAttr(measured[m][reading.n])
    /\ IF m \in toMeasure THEN reading.n < check ELSE reading.n <= check

WrittenInv ==
  \A m \in Modules :
    /\ ReadingOK(m, Reading(hashes[m]))
    /\ ReadingOK(m, got[m])
    /\ \A i \in DOMAIN records : ReadingOK(m, records[i].modules[m])

LEMMA InitWrittenInv == Init => WrittenInv
BY DEF Init, WrittenInv, ReadingOK, Reading, NoHash, NothingRead, NoReading

\* What is read, or was recorded, stays what was written.
LEMMA ReadingStays ==
  ASSUME TypeOK, NEW m \in Modules, NEW reading, reading.n \in 0..MaxChecks,
         \/ UNCHANGED <<check, toMeasure, measured>>
         \/ PileStart
         \/ \E k \in Modules, h \in Hashes : Measure(k, h),
         ReadingOK(m, reading)
  PROVE  reading.n # 0 =>
           /\ reading.flags = ToCCUAttr(measured'[m][reading.n])
           /\ IF m \in toMeasure' THEN reading.n < check' ELSE reading.n <= check'
<1> SUFFICES ASSUME reading.n # 0
             PROVE  /\ measured'[m][reading.n] = measured[m][reading.n]
                    /\ IF m \in toMeasure' THEN reading.n < check'
                                           ELSE reading.n <= check'
  BY DEF ReadingOK
<1> USE CcuResultAssumption DEF CcuResultAssumption
<1>1. /\ IF m \in toMeasure THEN reading.n < check ELSE reading.n <= check
      /\ check \in 0..MaxChecks
      /\ measured \in [Modules -> [1..MaxChecks -> Hashes \cup {<<>>}]]
  BY DEF ReadingOK, TypeOK
<1>2. CASE UNCHANGED <<check, toMeasure, measured>>
  BY <1>1, <1>2
<1>3. CASE PileStart
  BY <1>1, <1>3 DEF PileStart
<1>4. ASSUME NEW k \in Modules, NEW h \in Hashes, Measure(k, h)
      PROVE  /\ measured'[m][reading.n] = measured[m][reading.n]
             /\ IF m \in toMeasure' THEN reading.n < check'
                                    ELSE reading.n <= check'
  BY <1>1, <1>4 DEF Measure
<1> QED
  BY <1>2, <1>3, <1>4

\* A step of which every reading was there before keeps the invariant.
LEMMA WrittenStays ==
  ASSUME TypeOK, WrittenInv,
         \/ UNCHANGED <<check, toMeasure, measured>>
         \/ PileStart
         \/ \E k \in Modules, h \in Hashes : Measure(k, h),
         NEW m \in Modules
  PROVE  /\ hashes'[m] = hashes[m] => ReadingOK(m, Reading(hashes[m]))'
         /\ got'[m] = got[m] => ReadingOK(m, got[m])'
         /\ UNCHANGED records
              => \A i \in DOMAIN records' : ReadingOK(m, records[i].modules[m])'
<1>1. hashes'[m] = hashes[m] => ReadingOK(m, Reading(hashes[m]))'
  <2>1. /\ Reading(hashes[m]).n \in 0..MaxChecks
        /\ ReadingOK(m, Reading(hashes[m]))
    BY DEF TypeOK, WrittenInv, Reading
  <2>2. PICK reading : reading = Reading(hashes[m])
    OBVIOUS
  <2>3. reading.n # 0 =>
          /\ reading.flags = ToCCUAttr(measured'[m][reading.n])
          /\ IF m \in toMeasure' THEN reading.n < check' ELSE reading.n <= check'
    BY <2>1, <2>2, ReadingStays
  <2> QED
    BY <2>2, <2>3 DEF ReadingOK, Reading, ToCCUAttr
<1>2. got'[m] = got[m] => ReadingOK(m, got[m])'
  <2>1. got[m].n \in 0..MaxChecks /\ ReadingOK(m, got[m])
    BY DEF TypeOK, WrittenInv, Readings
  <2>2. PICK reading : reading = got[m]
    OBVIOUS
  <2>3. reading.n # 0 =>
          /\ reading.flags = ToCCUAttr(measured'[m][reading.n])
          /\ IF m \in toMeasure' THEN reading.n < check' ELSE reading.n <= check'
    BY <2>1, <2>2, ReadingStays
  <2> QED
    BY <2>2, <2>3 DEF ReadingOK, ToCCUAttr
<1>3. ASSUME UNCHANGED records, NEW i \in DOMAIN records
      PROVE  ReadingOK(m, records[i].modules[m])'
  <2>1. records[i].modules[m].n \in 0..MaxChecks
    <3>1. records[i] \in Records
      BY DEF TypeOK
    <3>2. records[i].modules[m] \in Readings
      BY <3>1 DEF Records
    <3> QED
      BY <3>2 DEF Readings
  <2>2. ReadingOK(m, records[i].modules[m])
    BY DEF WrittenInv
  <2>3. PICK reading : reading = records[i].modules[m]
    OBVIOUS
  <2>4. reading.n # 0 =>
          /\ reading.flags = ToCCUAttr(measured'[m][reading.n])
          /\ IF m \in toMeasure' THEN reading.n < check' ELSE reading.n <= check'
    BY <2>1, <2>2, <2>3, ReadingStays
  <2> QED
    BY <1>3, <2>3, <2>4 DEF ReadingOK, ToCCUAttr
<1> QED
  BY <1>1, <1>2, <1>3

\* Each module is measured once in a check, and nothing read before is of it.
LEMMA MeasureWritten ==
  ASSUME Inv, WrittenInv, NEW k \in Modules, NEW h \in Hashes, Measure(k, h)
  PROVE  WrittenInv'
<1> SUFFICES ASSUME NEW m \in Modules
             PROVE  /\ ReadingOK(m, Reading(hashes[m]))'
                    /\ ReadingOK(m, got[m])'
                    /\ \A i \in DOMAIN records' :
                         ReadingOK(m, records[i].modules[m])'
  BY DEF WrittenInv
<1>1. ReadingOK(m, got[m])' /\ \A i \in DOMAIN records' :
                                ReadingOK(m, records[i].modules[m])'
  BY WrittenStays DEF Inv, Measure, handlerVars
<1>2. CASE m # k
  <2>1. hashes'[m] = hashes[m]
    BY <1>2 DEF Measure, Inv, TypeOK
  <2> QED
    BY <1>1, <2>1, WrittenStays DEF Inv
<1>3. CASE m = k
  <2>1. /\ hashes'[m] = [n |-> check, hash |-> h] /\ measured'[m][check] = h
        /\ check' = check /\ m \notin toMeasure' /\ check \in Nat
    <3>1. check \in 1..MaxChecks
      BY CcuResultAssumption
      DEF CcuResultAssumption, Measure, Inv, TypeOK, MeasuredInv
    <3>2. /\ hashes' = [hashes EXCEPT ![m] = [n |-> check, hash |-> h]]
          /\ measured' = [measured EXCEPT ![m][check] = h]
          /\ check' = check /\ toMeasure' = toMeasure \ {m}
      BY <1>3 DEF Measure
    <3>3. /\ m \in DOMAIN hashes /\ m \in DOMAIN measured
          /\ check \in DOMAIN measured[m]
      BY <3>1 DEF Inv, TypeOK
    <3>4. hashes'[m] = [n |-> check, hash |-> h]
      BY <3>2, <3>3
    <3>5. measured'[m][check] = h
      BY <3>2, <3>3
    <3>6. check \in Nat
      BY <3>1
    <3> QED
      BY <3>2, <3>4, <3>5, <3>6
  <2> QED
    BY <1>1, <2>1 DEF ReadingOK, Reading, ToCCUAttr
<1> QED
  BY <1>2, <1>3

LEMMA NextWrittenInv == Inv /\ WrittenInv /\ [Next]_vars => WrittenInv'
<1> SUFFICES ASSUME Inv, WrittenInv, [Next]_vars PROVE WrittenInv'
  OBVIOUS
<1> USE DEF Inv
<1>1. CASE PileStart \/ ServerRespond \/ RecvResult \/ LoadLatestCheckInfo
             \/ UNCHANGED vars
  <2>1. /\ UNCHANGED <<hashes, got, records>>
        /\ UNCHANGED <<check, toMeasure, measured>> \/ PileStart
    BY <1>1 DEF PileStart, ServerRespond, RecvResult, LoadLatestCheckInfo, vars,
       serverVars, handlerVars
  <2>2. ASSUME NEW m \in Modules
        PROVE  /\ ReadingOK(m, Reading(hashes[m]))'
               /\ ReadingOK(m, got[m])'
               /\ \A i \in DOMAIN records' : ReadingOK(m, records[i].modules[m])'
    BY <2>1, WrittenStays
  <2> QED
    BY <2>2 DEF WrittenInv
<1>2. ASSUME NEW k \in Modules, NEW h \in Hashes, Measure(k, h)
      PROVE  WrittenInv'
  BY <1>2, MeasureWritten
<1>3. ASSUME NEW k \in Modules, Expire(k)
      PROVE  WrittenInv'
  <2>1. UNCHANGED <<check, toMeasure, measured, got, records>>
    BY <1>3 DEF Expire, handlerVars
  <2>2. ASSUME NEW m \in Modules
        PROVE  /\ ReadingOK(m, Reading(hashes[m]))'
               /\ ReadingOK(m, got[m])'
               /\ \A i \in DOMAIN records' : ReadingOK(m, records[i].modules[m])'
    <3>1. hashes'[m] = hashes[m] \/ hashes'[m].n = 0
      BY <1>3 DEF Expire, TypeOK, NoHash
    <3>2. hashes'[m].n = 0 => ReadingOK(m, Reading(hashes[m]))'
      BY DEF ReadingOK, Reading
    <3> QED
      BY <2>1, <3>1, <3>2, WrittenStays
  <2> QED
    BY <2>2 DEF WrittenInv
<1>4. CASE Return /\ UNCHANGED <<serverVars, records>>
  <2>1. ASSUME NEW m \in Modules
        PROVE  /\ ReadingOK(m, Reading(hashes[m]))'
               /\ ReadingOK(m, got[m])'
               /\ \A i \in DOMAIN records' : ReadingOK(m, records[i].modules[m])'
    <3>1. got'[m].n = 0
      BY <1>4 DEF Return, NothingRead, NoReading
    <3>2. ReadingOK(m, got[m])'
      BY <3>1 DEF ReadingOK
    <3> QED
      BY <1>4, <3>2, WrittenStays DEF serverVars
  <2> QED
    BY <2>1 DEF WrittenInv
<1>5. CASE getRedisKey /\ ~Return
  <2>1. UNCHANGED <<serverVars, got, records>>
    BY <1>5 DEF getRedisKey
  <2>2. ASSUME NEW m \in Modules
        PROVE  /\ ReadingOK(m, Reading(hashes[m]))'
               /\ ReadingOK(m, got[m])'
               /\ \A i \in DOMAIN records' : ReadingOK(m, records[i].modules[m])'
    BY <2>1, WrittenStays DEF serverVars
  <2> QED
    BY <2>2 DEF WrittenInv
<1>6. ASSUME NEW k \in Modules, getResultFromRedis(k), ~Return
      PROVE  WrittenInv'
  <2>1. /\ UNCHANGED <<serverVars, records>>
        /\ got' = [got EXCEPT ![k] = Reading(hashes[k])]
    <3>1. NoHash.n = 0
      BY DEF NoHash
    <3> QED
      BY <1>6, <3>1 DEF getResultFromRedis, HGetAll
  <2>2. ASSUME NEW m \in Modules
        PROVE  /\ ReadingOK(m, Reading(hashes[m]))'
               /\ ReadingOK(m, got[m])'
               /\ \A i \in DOMAIN records' : ReadingOK(m, records[i].modules[m])'
    <3>1. /\ ReadingOK(m, Reading(hashes[m]))'
          /\ \A i \in DOMAIN records' : ReadingOK(m, records[i].modules[m])'
      BY <2>1, WrittenStays DEF serverVars
    <3>2. got'[m] = got[m] \/ got'[m] = Reading(hashes'[m])
      BY <2>1 DEF TypeOK, serverVars
    <3>3. CASE got'[m] = Reading(hashes'[m])
      BY <3>1, <3>3 DEF ReadingOK
    <3>4. CASE got'[m] = got[m]
      BY <2>1, <3>4, WrittenStays DEF serverVars
    <3> QED
      BY <3>1, <3>2, <3>3, <3>4
  <2> QED
    BY <2>2 DEF WrittenInv
<1>7. CASE saveResultToMysql
  <2>1. PICK row : row.modules = got /\ records' \in {Append(records, row), records}
    BY <1>7 DEF saveResultToMysql
  <2>2. Return /\ UNCHANGED serverVars /\ records \in Seq(Records)
    BY <1>7 DEF saveResultToMysql, TypeOK
  <2>3. ASSUME NEW m \in Modules
        PROVE  /\ ReadingOK(m, Reading(hashes[m]))'
               /\ ReadingOK(m, got[m])'
               /\ \A i \in DOMAIN records' : ReadingOK(m, records[i].modules[m])'
    <3>1. ReadingOK(m, Reading(hashes[m]))'
      BY <2>2, WrittenStays DEF serverVars
    <3>2. got'[m].n = 0
      BY <2>2 DEF Return, NothingRead, NoReading
    <3>3. ReadingOK(m, got[m])'
      BY <3>2 DEF ReadingOK
    <3>4. ASSUME NEW i \in DOMAIN records'
          PROVE  ReadingOK(m, records[i].modules[m])'
      <4>1. \/ i \in DOMAIN records /\ records'[i] = records[i]
            \/ records'[i] = row
        BY <2>1, <2>2, <3>4
      <4>2. CASE i \in DOMAIN records /\ records'[i] = records[i]
        BY <2>2, <4>2 DEF WrittenInv, ReadingOK, serverVars, ToCCUAttr
      <4>3. CASE records'[i] = row
        BY <2>1, <2>2, <4>3 DEF WrittenInv, ReadingOK, serverVars, ToCCUAttr
      <4> QED
        BY <4>1, <4>2, <4>3
    <3> QED
      BY <3>1, <3>3, <3>4
  <2> QED
    BY <2>3 DEF WrittenInv
<1> QED
  BY <1>1, <1>2, <1>3, <1>4, <1>5, <1>6, <1>7
  DEF Next, getRedisKey, getResultFromRedis

LEMMA WrittenStatus == Inv /\ WrittenInv => StatusAgreesWithPage
<1> SUFFICES ASSUME Inv, WrittenInv, NEW i \in DOMAIN records
             PROVE  LET row == records[i] IN
                    row.status = "WARN"
                      <=> \E m \in PileItems(row) :
                            WrittenAbnormal(m, row.modules[m].n)
  BY DEF Inv, RecordsInv, RecordOK, StatusAgreesWithPage
<1> DEFINE row == records[i]
<1>1. row.status = "WARN" <=> \E m \in PileItems(row) : RedRows(row, m) # {}
  BY DEF Inv, RecordsInv, RecordOK
<1>2. ASSUME NEW m \in PileItems(row)
      PROVE  RedRows(row, m) # {} <=> WrittenAbnormal(m, row.modules[m].n)
  <2>1. m \in Modules /\ row.modules[m].n # 0
    BY <1>2 DEF PileItems, Read
  <2>2. row.modules[m].flags = ToCCUAttr(measured[m][row.modules[m].n])
    BY <2>1 DEF WrittenInv, ReadingOK
  <2>3. RedRows(row, m) # {} <=> row.modules[m].flags \cap PageFlags # {}
    BY RedRowsCounted
  <2> QED
    BY <2>2, <2>3, SameFlags DEF ToCCUAttr, WrittenAbnormal
<1> QED
  BY <1>1, <1>2

(* The status of a record is WARN exactly when the detail page counts an    *)
(* abnormal item of it and shows a red row, and exactly when DataServer     *)
(* wrote the value 1 of such a flag in the check the module is of, for      *)
(* every hash and any number of modules.                                    *)
THEOREM SpecStatusAgreesWithPage == Spec => []StatusAgreesWithPage
<1>1. Init => WrittenInv
  BY InitWrittenInv
<1>2. Inv /\ WrittenInv /\ [Next]_vars => WrittenInv'
  BY NextWrittenInv
<1> QED
  BY <1>1, <1>2, SpecInv, WrittenStatus, PTL DEF Spec

(***************************************************************************)
(* The refinement of PileRecords.                                          *)
(***************************************************************************)

\* Nothing is of a check that has not begun.
NewestInv == \A m \in Modules : hashes[m].n <= check /\ got[m].n <= check

LEMMA NextNewestInv == TypeOK /\ NewestInv /\ [Next]_vars => NewestInv'
<1> SUFFICES ASSUME TypeOK, NewestInv, [Next]_vars, NEW k \in Modules
             PROVE  (hashes[k].n <= check /\ got[k].n <= check)'
  BY DEF NewestInv
<1> USE CcuResultAssumption DEF CcuResultAssumption
<1>1. /\ hashes[k].n <= check /\ got[k].n <= check
      /\ hashes[k].n \in 0..MaxChecks /\ got[k].n \in 0..MaxChecks
      /\ check \in 0..MaxChecks
      /\ hashes \in [Modules -> [n : 0..MaxChecks, hash : Hashes \cup {<<>>}]]
      /\ got \in [Modules -> Readings]
  BY DEF NewestInv, TypeOK, Readings
<1>2. CASE PileStart
  BY <1>1, <1>2 DEF PileStart, handlerVars
<1>3. ASSUME NEW m \in Modules, NEW h \in Hashes, Measure(m, h)
      PROVE  (hashes[k].n <= check /\ got[k].n <= check)'
  BY <1>1, <1>3 DEF Measure, handlerVars
<1>4. ASSUME NEW m \in Modules, Expire(m)
      PROVE  (hashes[k].n <= check /\ got[k].n <= check)'
  BY <1>1, <1>4 DEF Expire, NoHash, handlerVars
<1>5. CASE Return /\ UNCHANGED serverVars
  BY <1>1, <1>5 DEF Return, NothingRead, NoReading, serverVars
<1>6. CASE ServerRespond \/ RecvResult \/ LoadLatestCheckInfo \/ UNCHANGED vars
  BY <1>1, <1>6 DEF ServerRespond, RecvResult, LoadLatestCheckInfo, vars,
     serverVars, handlerVars
<1>7. CASE getRedisKey /\ ~Return
  BY <1>1, <1>7 DEF getRedisKey, serverVars
<1>8. ASSUME NEW m \in Modules, getResultFromRedis(m), ~Return
      PROVE  (hashes[k].n <= check /\ got[k].n <= check)'
  <2>1. /\ UNCHANGED serverVars
        /\ \E value \in HGetAll(m) :
             /\ value.n # 0
             /\ got' = [got EXCEPT ![m] = Reading(value)]
    BY <1>8 DEF getResultFromRedis
  <2>2. got' = [got EXCEPT ![m] = Reading(hashes[m])]
    <3>1. NoHash.n = 0
      BY DEF NoHash
    <3> QED
      BY <2>1, <3>1 DEF HGetAll
  <2>3. got'[k].n = got[k].n \/ (k = m /\ got'[k].n = hashes[k].n)
    BY <1>1, <2>2 DEF Reading
  <2> QED
    BY <1>1, <2>1, <2>3 DEF serverVars
<1> QED
  BY <1>2, <1>3, <1>4, <1>5, <1>6, <1>7, <1>8
  DEF Next, saveResultToMysql, getRedisKey, getResultFromRedis

LEMMA SpecNewestInv == Spec => [](Inv /\ NewestInv)
<1>1. Init => NewestInv
  BY DEF Init, NewestInv, NoHash, NothingRead, NoReading
<1>2. Inv /\ NewestInv /\ [Next]_vars => NewestInv'
  BY NextNewestInv DEF Inv
<1> QED
  BY <1>1, <1>2, SpecInv, PTL DEF Spec

\* What PileRecords sees of the records.
Log == {Measured(records[i]) : i \in DOMAIN records}

LEMMA ServerLog ==
  ASSUME TypeOK, PileStart \/ ServerRespond
  PROVE  PileLog!Next
<1> USE CcuResultAssumption DEF CcuResultAssumption
<1>1. check \in 0..MaxChecks /\ answered \in 0..check
  BY DEF TypeOK
<1>2. UNCHANGED <<gone, records>> /\ Log' = Log
  BY DEF PileStart, ServerRespond, Log, Measured
<1>3. CASE PileStart
  <2>1. check + 1 \in 1..MaxChecks /\ check' = check + 1 /\ answered' = answered
    BY <1>1, <1>3 DEF PileStart
  <2>2. PileLog!Begin(check + 1)
    BY <1>1, <1>2, <2>1 DEF PileLog!Begin, Log
  <2> QED
    BY <2>1, <2>2 DEF PileLog!Next
<1>4. CASE ServerRespond
  <2>1. /\ answered + 1 \in 1..MaxChecks /\ answered + 1 <= check
        /\ check' = check /\ answered' = answered + 1
    BY <1>1, <1>4 DEF ServerRespond
  <2>2. 1..answered' = (1..answered) \cup {answered + 1}
    BY <1>1, <2>1
  <2>3. PileLog!Answer(answered + 1)
    BY <1>2, <2>1, <2>2 DEF PileLog!Answer, Log
  <2> QED
    BY <2>1, <2>3 DEF PileLog!Next
<1> QED
  BY <1>3, <1>4

LEMMA ExpireLog ==
  ASSUME NEW m \in Modules, Expire(m)
  PROVE  PileLog!Next
<1>1. PileLog!Remove(m)
  BY DEF Expire, PileLog!Remove, Measured
<1> QED
  BY <1>1 DEF PileLog!Next

LEMMA SaveLog ==
  ASSUME Inv, NewestInv, saveResultToMysql
  PROVE  PileLog!Next \/ UNCHANGED PileLog!vars
<1> USE CcuResultAssumption DEF CcuResultAssumption
<1>1. PICK row : /\ row.n = handled + 1 /\ row.modules = got
                 /\ records' \in {Append(records, row), records}
  BY DEF saveResultToMysql
<1>2. /\ pc = "save" /\ UNCHANGED <<check, answered, gone>>
      /\ check \in 0..MaxChecks /\ answered \in 0..check /\ handled \in 0..answered
      /\ got \in [Modules -> Readings] /\ records \in Seq(Records)
      /\ handled < answered
      /\ Modules \ gone \subseteq Read(got)
      /\ \A m \in Modules : got[m].n # 0 => got[m].n > handled
      /\ \A m \in Modules : got[m].n <= check
  BY DEF saveResultToMysql, serverVars, Inv, TypeOK, HandlerInv, NewestInv
<1>3. CASE records' = records
  BY <1>2, <1>3 DEF PileLog!vars, Measured
<1>4. CASE records' = Append(records, row)
  <2>1. PICK n, of : n = handled + 1 /\ of = [m \in Modules |-> got[m].n]
    OBVIOUS
  <2>2. n \in 1..MaxChecks /\ n \in 1..answered
    BY <1>2, <2>1
  <2>3. \A m \in Modules : got[m].n \in 0..MaxChecks
    BY <1>2 DEF Readings
  <2>4. of \in [Modules -> 1..MaxChecks \cup {0}]
    BY <2>1, <2>3
  <2>5. \A m \in Modules : \/ n <= of[m] /\ of[m] <= check
                           \/ of[m] = 0 /\ m \in gone
    BY <1>2, <2>1, <2>3 DEF Read
  <2>6. Measured(row) = [n |-> n, of |-> of]
    BY <1>1, <2>1 DEF Measured
  <2>7. Log' = Log \cup {[n |-> n, of |-> of]}
    <3>1. /\ DOMAIN records' = DOMAIN records \cup {Len(records) + 1}
          /\ \A i \in DOMAIN records : records'[i] = records[i]
          /\ records'[Len(records) + 1] = row
      BY <1>2, <1>4
    <3> QED
      BY <2>6, <3>1 DEF Log, Measured
  <2>8. PileLog!Record(n, of)
    BY <1>2, <2>2, <2>5, <2>7 DEF PileLog!Record, Log
  <2> QED
    BY <2>2, <2>4, <2>8 DEF PileLog!Next
<1> QED
  BY <1>1, <1>3, <1>4

(* Though the handler reads the hashes one by one, while DataServer         *)
(* measures again and hashes go away, each module of a record is of a check *)
(* between that of the result and the newest, and what is recorded is never *)
(* changed: the promise of PileRecords, which SelfCheck keeps as well.      *)
THEOREM SpecImplementsPileRecords == Spec => ImplementsPileRecords
<1>1. Init => PileLog!Init
  BY DEF Init, PileLog!Init
<1>2. Inv /\ NewestInv /\ [Next]_vars => [PileLog!Next]_(PileLog!vars)
  <2> SUFFICES ASSUME Inv, NewestInv, [Next]_vars
               PROVE  PileLog!Next \/ UNCHANGED PileLog!vars
    OBVIOUS
  <2>1. CASE PileStart \/ ServerRespond
    BY <2>1, ServerLog DEF Inv
  <2>2. ASSUME NEW m \in Modules, Expire(m) PROVE PileLog!Next
    BY <2>2, ExpireLog
  <2>3. CASE saveResultToMysql
    BY <2>3, SaveLog
  <2>4. CASE UNCHANGED <<check, answered, gone, records>>
    BY <2>4 DEF PileLog!vars, Measured
  <2>5. ASSUME NEW m \in Modules, NEW h \in Hashes, Measure(m, h)
        PROVE  UNCHANGED <<check, answered, gone, records>>
    BY <2>5 DEF Measure
  <2>6. CASE RecvResult \/ getRedisKey \/ LoadLatestCheckInfo \/ UNCHANGED vars
    BY <2>4, <2>6 DEF RecvResult, getRedisKey, LoadLatestCheckInfo, vars, serverVars
  <2>7. ASSUME NEW m \in Modules, getResultFromRedis(m)
        PROVE  UNCHANGED <<check, answered, gone, records>>
    BY <2>7 DEF getResultFromRedis, serverVars
  <2> QED
    BY <2>1, <2>2, <2>3, <2>4, <2>5, <2>6, <2>7 DEF Next
<1> QED
  BY <1>1, <1>2, SpecNewestInv, PTL DEF Spec, PileLog!Spec, ImplementsPileRecords

(***************************************************************************)
(* The result LoadLatestCheckInfo hands to the card.                       *)
(***************************************************************************)

\* One half of AnyAbnormalIsFailed, which TLC refutes as a whole.
FailedIsAbnormal ==
  loaded.rec # 0 /\ loaded.status = "Failed" => records[loaded.rec].status = "WARN"

\* What fails for the card is counted by the page.
LEMMA FailCount ==
  ASSUME TypeOK, RecordsInv, NEW i \in DOMAIN records, fail_count(records[i]) > 0
  PROVE  records[i].status = "WARN"
<1> DEFINE row == records[i]
           failed == {m \in PileItems(row) : row.modules[m].flags \cap CardFlags # {}}
<1>1. failed # {}
  <2>1. CASE failed = {}
    <3>1. Cardinality(failed) = 0
      BY <2>1, FS_EmptySet
    <3> QED
      BY <3>1 DEF fail_count
  <2> QED
    BY <2>1
<1>2. PICK m \in PileItems(row) : row.modules[m].flags \cap CardFlags # {}
  BY <1>1
<1>3. row.modules[m].flags \cap PageFlags # {}
  BY <1>2 DEF CardFlags, PageFlags
<1>4. abnormalCount(row, m) > 0
  BY <1>3, AbnormalCount
<1> QED
  BY <1>2, <1>4 DEF RecordsInv, RecordOK

(* The card errs on one side only: it says Failed only of a record whose    *)
(* status is WARN; the records TLC finds it wrong about are those it says   *)
(* Passed of because LoadLatestCheckInfo looks at the contactors alone.     *)
THEOREM SpecFailedIsAbnormal == Spec => []FailedIsAbnormal
<1>1. Init => FailedIsAbnormal
  BY DEF Init, FailedIsAbnormal
<1>2. Inv /\ FailedIsAbnormal /\ [Next]_vars => FailedIsAbnormal'
  <2> SUFFICES ASSUME Inv, FailedIsAbnormal, [Next]_vars PROVE FailedIsAbnormal'
    OBVIOUS
  <2>1. CASE LoadLatestCheckInfo
    <3>1. /\ Len(records) \in DOMAIN records /\ records' = records
          /\ loaded' = [rec    |-> Len(records),
                        status |-> IF fail_count(records[Len(records)]) > 0
                                   THEN "Failed" ELSE "Passed"]
      BY <2>1 DEF LoadLatestCheckInfo, Inv, TypeOK
    <3>2. CASE fail_count(records[Len(records)]) > 0
      BY <3>1, <3>2, FailCount DEF Inv, FailedIsAbnormal
    <3>3. CASE ~(fail_count(records[Len(records)]) > 0)
      BY <3>1, <3>3 DEF FailedIsAbnormal
    <3> QED
      BY <3>2, <3>3
  <2>2. CASE loaded' = loaded /\ records' = records
    BY <2>2 DEF FailedIsAbnormal
  <2>3. CASE saveResultToMysql
    <3>1. PICK row : records' \in {Append(records, row), records}
      BY <2>3 DEF saveResultToMysql
    <3>2. /\ loaded' = loaded /\ loaded.rec \in 0..Len(records)
          /\ records \in Seq(Records)
      BY <2>3 DEF saveResultToMysql, Inv, TypeOK
    <3>3. loaded.rec # 0 => records'[loaded.rec] = records[loaded.rec]
      BY <3>1, <3>2
    <3> QED
      BY <3>2, <3>3 DEF FailedIsAbnormal
  <2> QED
    BY <2>1, <2>2, <2>3
    DEF Next, PileStart, ServerRespond, Measure, Expire, RecvResult, getRedisKey,
        getResultFromRedis, vars
<1> QED
  BY <1>1, <1>2, SpecInv, PTL DEF Spec
=============================================================================
