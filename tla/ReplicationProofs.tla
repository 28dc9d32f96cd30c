------------------------- MODULE ReplicationProofs -------------------------
(***************************************************************************)
(* The slave's unique index and its promise to be a copy of the master's   *)
(* past, for any master, slave, requests and failures.                     *)
(*                                                                         *)
(* SlaveKeysUnique is not inductive alone.  It rests on the master's index *)
(* at the moment one query read all the rrsets, which has to be carried    *)
(* through the rest of the export, and through imports that wait, as the   *)
(* rows of the master move on.                                             *)
(***************************************************************************)
EXTENDS ReplicationHistory, ZoneStoreProofs

OneOfEachKey(sets) ==
    \A s, u \in sets : HasKey(s, u.zone, u.name, u.type) => s = u

DataOK(data) ==
    /\ OneOfEachKey(data.sets)
    /\ \A s \in data.sets : s.zone \in data.zones

(* The rrsets as the second query returned them.                           *)
ColumnsOK(data) ==
    /\ \A s, u \in data.sets :
          HasKey(s.columns, u.columns.zone, u.columns.name, u.columns.type) => s = u
    /\ \A s \in data.sets : s.columns.zone \in data.zones

IsData(data) ==
    data = [zones |-> data.zones, sets |-> data.sets, templates |-> data.templates]

SyncOK ==
    /\ IsData(sync.data)
    /\ sync.pc = "readData" => ColumnsOK(sync.data)
    /\ sync.pc \in {"readTemplates", "readTemplateRecords", "import"} => DataOK(sync.data)

PostedOK == \A data \in posted : DataOK(data)

SlaveInv == SyncOK /\ PostedOK /\ SlaveKeysUnique

-----------------------------------------------------------------------------
LEMMA IdleOK == sync' = SyncIdle => SyncOK'
  BY DEF SyncIdle, NoData, SyncOK, IsData

(* One query reads rows that the master's index keeps apart.               *)
LEMMA ReadSetsStep ==
    ASSUME SyncOK, KeysUnique, ReadSets
    PROVE  SyncOK'
<1> DEFINE rows == {i \in DOMAIN rrsets : rrsets[i].live /\ rrsets[i].zone \in sync.data.zones}
           sets == {[id |-> s, columns |-> Columns(s)] : s \in rows}
<1>1. /\ sync'.pc = "readData"
      /\ sync'.data = [zones |-> sync.data.zones, sets |-> sets,
                       templates |-> sync.data.templates]
  <2>1. SyncTo("readData", [sync.data EXCEPT !.sets = sets])
    BY DEF ReadSets
  <2> HIDE DEF sets
  <2> QED BY <2>1 DEF SyncOK, SyncTo, IsData
<1>2. ASSUME NEW s \in sets, NEW u \in sets,
             HasKey(s.columns, u.columns.zone, u.columns.name, u.columns.type)
      PROVE  s = u
  <2>1. PICK i \in rows : s = [id |-> i, columns |-> Columns(i)]
    OBVIOUS
  <2>2. PICK j \in rows : u = [id |-> j, columns |-> Columns(j)]
    OBVIOUS
  <2>3. HasKey(rrsets[i], rrsets[j].zone, rrsets[j].name, rrsets[j].type)
    BY <1>2, <2>1, <2>2 DEF HasKey, Columns
  <2> QED BY <2>1, <2>2, <2>3 DEF KeysUnique
<1>3. \A s \in sets : s.columns.zone \in sync.data.zones
  BY DEF Columns
<1> HIDE DEF sets
<1> QED BY <1>1, <1>2, <1>3 DEF SyncOK, IsData, ColumnsOK

(* The records, read later, come with the columns of their rrset.          *)
LEMMA ReadDataStep ==
    ASSUME SyncOK, ReadData
    PROVE  SyncOK'
<1> DEFINE sets == {WithRecords(s.id, s.columns) : s \in sync.data.sets}
<1>1. /\ sync'.pc = "readTemplates"
      /\ sync'.data = [zones |-> sync.data.zones, sets |-> sets,
                       templates |-> sync.data.templates]
  <2>1. [sync.data EXCEPT !.sets = {WithRecords(s.id, s.columns) : s \in @}]
           = [sync.data EXCEPT !.sets = sets]
    OBVIOUS
  <2> HIDE DEF sets
  <2> QED BY <2>1 DEF ReadData, SyncOK, SyncTo, IsData
<1>2. ColumnsOK(sync.data)
  BY DEF SyncOK, ReadData
<1>3. ASSUME NEW s \in sets, NEW u \in sets, HasKey(s, u.zone, u.name, u.type)
      PROVE  s = u
  <2>1. PICK r \in sync.data.sets : s = WithRecords(r.id, r.columns)
    OBVIOUS
  <2>2. PICK q \in sync.data.sets : u = WithRecords(q.id, q.columns)
    OBVIOUS
  <2>3. HasKey(r.columns, q.columns.zone, q.columns.name, q.columns.type)
    BY <1>3, <2>1, <2>2 DEF HasKey, WithRecords
  <2> QED BY <1>2, <2>1, <2>2, <2>3 DEF ColumnsOK
<1>4. \A s \in sets : s.zone \in sync.data.zones
  BY <1>2 DEF ColumnsOK, WithRecords
<1> HIDE DEF sets
<1> QED BY <1>1, <1>3, <1>4 DEF SyncOK, IsData, DataOK, OneOfEachKey

(* An import removes the zones it brings, so that old and new rows are of  *)
(* different zones; or it changes nothing.                                 *)
LEMMA ImportKeepsIndex ==
    SlaveKeysUnique => \A data : DataOK(data) /\ SyncImport(data) => SlaveKeysUnique'
<1> SUFFICES ASSUME SlaveKeysUnique, NEW data, DataOK(data), SyncImport(data)
             PROVE  SlaveKeysUnique'
  OBVIOUS
<1>1. CASE UNCHANGED slave
  BY <1>1 DEF slave, SlaveKeysUnique
<1>2. CASE Apply(data)
  BY <1>2 DEF Apply, SlaveKeysUnique, DataOK, OneOfEachKey, HasKey
<1> QED BY <1>1, <1>2 DEF SyncImport

-----------------------------------------------------------------------------
LEMMA SlaveInvInit == ReplicationInit => SlaveInv
<1> SUFFICES ASSUME ReplicationInit PROVE SlaveInv
  OBVIOUS
<1>1. SyncOK
  BY DEF ReplicationInit, SyncIdle, NoData, SyncOK, IsData
<1>2. PostedOK /\ SlaveKeysUnique
  BY ReplicationAssumption DEF ReplicationInit, PostedOK, SlaveKeysUnique
<1> QED BY <1>1, <1>2 DEF SlaveInv

LEMMA SyncSteps ==
    ASSUME SlaveInv, KeysUnique, SyncNext
    PROVE  SlaveInv'
<1> USE DEF SlaveInv
<1>1. CASE Tick
  <2>1. SyncOK'
    BY <1>1 DEF Tick, SyncTo, NoData, SyncOK, IsData
  <2> QED BY <1>1, <2>1 DEF Tick, slave, PostedOK, SlaveKeysUnique
<1>2. CASE ReadZones
  <2> DEFINE zs == {z \in Zones : zones[z] = "live"}
  <2>1. /\ sync'.pc = "readSets"
        /\ sync'.data = [zones |-> zs, sets |-> sync.data.sets,
                         templates |-> sync.data.templates]
    BY <1>2 DEF ReadZones, SyncOK, SyncTo, IsData
  <2> HIDE DEF zs
  <2>2. SyncOK'
    BY <2>1 DEF SyncOK, IsData
  <2> QED BY <1>2, <2>2 DEF ReadZones, slave, PostedOK, SlaveKeysUnique
<1>3. CASE ReadSets
  <2>1. SyncOK'
    BY <1>3, ReadSetsStep
  <2> QED BY <1>3, <2>1 DEF ReadSets, slave, PostedOK, SlaveKeysUnique
<1>4. CASE ReadData
  <2>1. SyncOK'
    BY <1>4, ReadDataStep
  <2> QED BY <1>4, <2>1 DEF ReadData, slave, PostedOK, SlaveKeysUnique
<1>5. CASE ReadTemplates \/ ReadTemplateRecords
  <2>1. /\ sync'.pc \in {"readTemplateRecords", "import"}
        /\ sync'.data = [zones |-> sync.data.zones, sets |-> sync.data.sets,
                         templates |-> sync'.data.templates]
    <3>1. CASE ReadTemplates
      <4> DEFINE ts == {[id |-> t, name |-> templates[t].name,
                         description |-> templates[t].description] : t \in LiveTemplates}
      <4>1. SyncTo("readTemplateRecords", [sync.data EXCEPT !.templates = ts])
        BY <3>1 DEF ReadTemplates
      <4> HIDE DEF ts
      <4> QED BY <4>1 DEF SyncOK, SyncTo, IsData
    <3>2. CASE ReadTemplateRecords
      <4> DEFINE ts == {[name |-> t.name, description |-> t.description,
                         records |-> RecordsOf(t.id)] : t \in LastOfName(sync.data.templates)}
      <4>1. SyncTo("import", [sync.data EXCEPT !.templates = ts])
        BY <3>2 DEF ReadTemplateRecords
      <4> HIDE DEF ts
      <4> QED BY <4>1 DEF SyncOK, SyncTo, IsData
    <3> QED BY <1>5, <3>1, <3>2
  <2>2. UNCHANGED <<slave, posted>>
    BY <1>5 DEF ReadTemplates, ReadTemplateRecords
  <2>3. DataOK(sync.data)
    BY <1>5 DEF ReadTemplates, ReadTemplateRecords, SyncOK
  <2>4. SyncOK'
    BY <2>1, <2>3 DEF SyncOK, IsData, DataOK, OneOfEachKey
  <2> QED BY <2>2, <2>4 DEF slave, PostedOK, SlaveKeysUnique
<1>6. CASE Import
  <2>1. SyncOK' /\ PostedOK'
    BY <1>6, IdleOK DEF Import, PostedOK
  <2>2. SlaveKeysUnique'
    BY <1>6, ImportKeepsIndex DEF Import, SyncOK
  <2> QED BY <2>1, <2>2
<1>7. CASE LateImport
  <2>1. PICK data \in posted : SyncImport(data) /\ posted' = posted \ {data}
    BY <1>7 DEF LateImport
  <2>2. SyncOK' /\ PostedOK'
    BY <1>7, <2>1 DEF LateImport, SyncOK, PostedOK
  <2>3. SlaveKeysUnique'
    BY <2>1, ImportKeepsIndex DEF PostedOK
  <2> QED BY <2>2, <2>3
<1> QED BY <1>1, <1>2, <1>3, <1>4, <1>5, <1>6, <1>7 DEF SyncNext

LEMMA FailureSteps ==
    ASSUME SlaveInv, SyncFails \/ ImportTimesOut \/ SlaveRestart
    PROVE  SlaveInv'
<1>1. SyncOK'
  BY IdleOK DEF SyncFails, ImportTimesOut, SlaveRestart
<1>2. PostedOK'
  BY DEF SlaveInv, SyncOK, PostedOK, SyncFails, ImportTimesOut, SlaveRestart
<1>3. SlaveKeysUnique'
  BY DEF SlaveInv, SlaveKeysUnique, SyncFails, ImportTimesOut, SlaveRestart, slave
<1> QED BY <1>1, <1>2, <1>3 DEF SlaveInv

LEMMA ReplicationInvStep ==
    StoreInv /\ SlaveInv /\ [ReplicationNext]_replicationVars => StoreInv' /\ SlaveInv'
<1> SUFFICES ASSUME StoreInv, SlaveInv, [ReplicationNext]_replicationVars
             PROVE  StoreInv' /\ SlaveInv'
  OBVIOUS
<1>1. CASE MasterNext \/ UNCHANGED replicationVars
  <2>1. [StoreNext]_storeVars /\ UNCHANGED syncVars
    BY <1>1 DEF MasterNext, replicationVars
  <2>2. SlaveInv'
    BY <2>1 DEF syncVars, SlaveInv, SyncOK, PostedOK, SlaveKeysUnique
  <2> QED BY <2>1, <2>2, StoreInvStep
<1>2. CASE SyncNext \/ SyncFails \/ ImportTimesOut \/ SlaveRestart
  <2>1. UNCHANGED storeVars
    BY <1>2 DEF SyncNext, Tick, ReadZones, ReadSets, ReadData, ReadTemplates,
                ReadTemplateRecords, Import, LateImport, SyncFails, ImportTimesOut,
                SlaveRestart, master
  <2>2. StoreInv'
    BY <2>1, StoreInvStep
  <2>3. SlaveInv'
    BY <1>2, SyncSteps, FailureSteps DEF StoreInv
  <2> QED BY <2>2, <2>3
<1> QED BY <1>1, <1>2 DEF ReplicationNext

(* No import ever meets the unique index of the slave's rr_sets, whatever  *)
(* the master does while it exports and however late an import comes.      *)
THEOREM SlaveKeysUniqueAlways == ReplicationSpec => []SlaveKeysUnique
<1>1. ReplicationInit => StoreInv /\ SlaveInv
  BY StoreInvInit, SlaveInvInit DEF ReplicationInit
<1>2. SlaveInv => SlaveKeysUnique
  BY DEF SlaveInv
<1> QED BY <1>1, <1>2, ReplicationInvStep, PTL DEF ReplicationSpec

-----------------------------------------------------------------------------
(***************************************************************************)
(* The records of the slave's rrsets.  The columns of an rrset are read    *)
(* before its records; the rows stay, and whatever the records have become *)
(* in between, they are good ones: A has the texts an rrset of the master  *)
(* may have.                                                               *)
(***************************************************************************)
SetsFrom(A, sets) == \A s \in sets : {p.data : p \in s.records} \in A

SyncFrom(A) ==
    /\ sync.pc = "readData" => \A s \in sync.data.sets : s.id \in DOMAIN rrsets
    /\ sync.pc \in {"readTemplates", "readTemplateRecords", "import"}
          => SetsFrom(A, sync.data.sets)

PostedFrom(A) == \A data \in posted : SetsFrom(A, data.sets)

SlaveFrom(A) == SyncFrom(A) /\ PostedFrom(A) /\ SetsFrom(A, slaveSets)

MasterFrom(A) == \A s \in DOMAIN rrsets : Texts(s) \in A

LEMMA SlaveFromInit ==
    ASSUME NEW A, ReplicationInit, SetsFrom(A, InitSlaveSets)
    PROVE  SlaveFrom(A)
  BY DEF ReplicationInit, SyncIdle, NoData, SlaveFrom, SyncFrom, PostedFrom, SetsFrom

LEMMA ImportFrom ==
    ASSUME NEW A, SetsFrom(A, slaveSets), NEW data, SetsFrom(A, data.sets), SyncImport(data)
    PROVE  SetsFrom(A, slaveSets)'
<1>1. CASE UNCHANGED slave
  BY <1>1 DEF slave, SetsFrom
<1>2. CASE Apply(data)
  BY <1>2 DEF Apply, SetsFrom
<1> QED BY <1>1, <1>2 DEF SyncImport

LEMMA SyncFromStep ==
    ASSUME NEW A, SlaveInv, SlaveFrom(A), MasterFrom(A),
           SyncNext \/ SyncFails \/ ImportTimesOut \/ SlaveRestart
    PROVE  SlaveFrom(A)'
<1> USE DEF SlaveFrom
<1>1. ASSUME sync'.pc \in {"idle", "readZones", "readSets"} PROVE SyncFrom(A)'
  BY <1>1 DEF SyncFrom
<1>2. ASSUME UNCHANGED <<slave, posted>> PROVE PostedFrom(A)' /\ SetsFrom(A, slaveSets)'
  BY <1>2 DEF slave, PostedFrom, SetsFrom
<1>3. CASE Tick \/ ReadZones \/ SyncFails
  BY <1>1, <1>2, <1>3 DEF Tick, ReadZones, SyncFails, SyncTo, SyncIdle
<1>4. CASE ReadSets
  <2> DEFINE sets == {[id |-> s, columns |-> Columns(s)] :
                        s \in {i \in DOMAIN rrsets :
                                 rrsets[i].live /\ rrsets[i].zone \in sync.data.zones}}
  <2>1. /\ sync'.pc = "readData" /\ sync'.data.sets = sets /\ UNCHANGED <<slave, posted>>
        /\ rrsets' = rrsets
    <3>1. SyncTo("readData", [sync.data EXCEPT !.sets = sets])
      BY <1>4 DEF ReadSets
    <3> HIDE DEF sets
    <3>2. sync'.pc = "readData" /\ sync'.data.sets = sets
      BY <3>1 DEF SlaveInv, SyncOK, SyncTo, IsData
    <3> QED BY <1>4, <3>2 DEF ReadSets, master, storeVars
  <2>2. \A s \in sets : s.id \in DOMAIN rrsets
    OBVIOUS
  <2> HIDE DEF sets
  <2> QED BY <1>2, <2>1, <2>2 DEF SyncFrom
<1>5. CASE ReadData
  <2> DEFINE sets == {WithRecords(s.id, s.columns) : s \in sync.data.sets}
  <2>1. sync'.pc = "readTemplates" /\ sync'.data.sets = sets /\ UNCHANGED <<slave, posted>>
    <3>1. [sync.data EXCEPT !.sets = {WithRecords(s.id, s.columns) : s \in @}]
             = [sync.data EXCEPT !.sets = sets]
      OBVIOUS
    <3> HIDE DEF sets
    <3> QED BY <1>5, <3>1 DEF ReadData, SlaveInv, SyncOK, SyncTo, IsData
  <2>2. ASSUME NEW s \in sets PROVE {p.data : p \in s.records} \in A
    <3>1. PICK u \in sync.data.sets : s = WithRecords(u.id, u.columns)
      OBVIOUS
    <3>2. u.id \in DOMAIN rrsets
      BY <1>5 DEF SyncFrom, ReadData
    <3>3. s.records = {rdata[d].payload : d \in LiveData(u.id)}
      BY <3>1 DEF WithRecords
    <3>4. {p.data : p \in s.records} = Texts(u.id)
      BY <3>3 DEF Texts
    <3> QED BY <3>2, <3>4 DEF MasterFrom
  <2> HIDE DEF sets
  <2> QED BY <1>2, <2>1, <2>2 DEF SyncFrom, SetsFrom
<1>6. CASE ReadTemplates \/ ReadTemplateRecords
  <2>1. /\ sync.pc \in {"readTemplates", "readTemplateRecords"}
        /\ sync'.pc \in {"readTemplateRecords", "import"}
        /\ UNCHANGED <<slave, posted>>
    BY <1>6 DEF ReadTemplates, ReadTemplateRecords, SyncTo
  <2>2. sync'.data.sets = sync.data.sets
    <3>1. \E ts, step : SyncTo(step, [sync.data EXCEPT !.templates = ts])
      BY <1>6 DEF ReadTemplates, ReadTemplateRecords
    <3> QED BY <3>1 DEF SyncTo, SlaveInv, SyncOK, IsData
  <2> QED BY <1>2, <2>1, <2>2 DEF SyncFrom, SetsFrom
<1>7. CASE Import
  BY <1>1, <1>7, ImportFrom DEF Import, SyncIdle, SyncFrom, PostedFrom
<1>8. CASE LateImport
  <2>1. PICK data \in posted : SyncImport(data) /\ posted' = posted \ {data}
    BY <1>8 DEF LateImport
  <2>2. SetsFrom(A, slaveSets)'
    BY <2>1, ImportFrom DEF PostedFrom
  <2> QED BY <1>8, <2>1, <2>2 DEF LateImport, SyncFrom, SetsFrom, PostedFrom, master, storeVars
<1>9. CASE ImportTimesOut
  BY <1>1, <1>9 DEF ImportTimesOut, SyncIdle, slave, SyncFrom, SetsFrom, PostedFrom
<1>10. CASE SlaveRestart
  BY <1>1, <1>10 DEF SlaveRestart, SyncIdle, slave, SetsFrom, PostedFrom
<1> QED BY <1>3, <1>4, <1>5, <1>6, <1>7, <1>8, <1>9, <1>10 DEF SyncNext

LEMMA SlaveFromStep ==
    ASSUME NEW A, StoreInv, RowsFound, SlaveInv, SlaveFrom(A), MasterFrom(A),
           [ReplicationNext]_replicationVars
    PROVE  SlaveFrom(A)'
<1>1. CASE MasterNext \/ UNCHANGED replicationVars
  <2>1. [StoreNext]_storeVars /\ UNCHANGED syncVars
    BY <1>1 DEF MasterNext, replicationVars
  <2>2. RowsKept
    BY <2>1, RowsKeptStep
  <2> QED BY <2>1, <2>2 DEF syncVars, RowsKept, SlaveFrom, SyncFrom, PostedFrom, SetsFrom
<1> QED BY <1>1, SyncFromStep DEF ReplicationNext

(* Steps of a sync leave the master's tables alone.                        *)
LEMMA StoreSteps == [ReplicationNext]_replicationVars => [StoreNext]_storeVars
  BY DEF ReplicationNext, replicationVars, MasterNext, SyncNext, Tick, ReadZones, ReadSets,
         ReadData, ReadTemplates, ReadTemplateRecords, Import, LateImport, SyncFails,
         ImportTimesOut, SlaveRestart, master

(* The queries of an export see the master at different moments, imports   *)
(* come late, and still an rrset on the slave has all the records of one   *)
(* request to the master and no other: for the requests that keep the      *)
(* master's rrsets so.                                                     *)
THEOREM SlaveRecordsAreWhole ==
    ASSUME PlainRequests, SetsFrom(TextsOfOneRequest, InitSlaveSets)
    PROVE  ReplicationSpec => []SlaveRecordsOfOneRequest
<1> DEFINE A == TextsOfOneRequest
           Inv == StoreInv /\ RowsFound /\ PlainInv /\ SlaveInv /\ SlaveFrom(A)
<1>1. ReplicationInit => Inv
  BY StoreInvInit, RowsFoundInit, PlainInvInit, SlaveInvInit, SlaveFromInit
     DEF ReplicationInit
<1>2. Inv /\ [ReplicationNext]_replicationVars => Inv'
  <2> SUFFICES ASSUME Inv, [ReplicationNext]_replicationVars PROVE Inv'
    OBVIOUS
  <2>1. [StoreNext]_storeVars
    BY StoreSteps
  <2>2. MasterFrom(A)
    BY DEF PlainInv, AllExact, MasterFrom
  <2>3. SlaveFrom(A)'
    BY <2>2, SlaveFromStep
  <2>4. StoreInv' /\ RowsFound' /\ PlainInv' /\ SlaveInv'
    BY <2>1, RowsFoundStep, PlainInvStep, ReplicationInvStep
  <2> QED BY <2>3, <2>4
<1>3. Inv => SlaveRecordsOfOneRequest
  BY DEF SlaveFrom, SetsFrom, SlaveRecordsOfOneRequest
<1> QED BY <1>1, <1>2, <1>3, PTL DEF ReplicationSpec

\* As SlaveRecordsOfOneRequest, what the web admin writes excepted.
SlaveFromOneRequest ==
    \A s \in slaveSets : FromOneRequest({p.data : p \in s.records})

LEMMA TextsAreData ==
    ASSUME TablesOK, NEW s
    PROVE  Texts(s) \subseteq Data
<1>1. \A d \in DOMAIN rdata : rdata[d].payload.data \in Data
  <2>1. \A d \in DOMAIN rdata : rdata[d] \in DataRow
    BY ElementOfSeq, LenProperties DEF TablesOK
  <2> QED BY <2>1 DEF DataRow, Payload
<1> QED BY <1>1 DEF Texts, LiveData

(* With any requests, under the conditions of RecordsStayTogether, what the *)
(* web admin writes excepted: the records of an rrset on the slave are     *)
(* those of one request to the master (rest/server.go, export and import). *)
THEOREM SlaveRecordsStayTogether ==
    ASSUME \A s \in InitSlaveSets : FromOneRequest({p.data : p \in s.records})
    PROVE  ReplicationSpec /\ []NumbersOwn /\ []EditsApart => []SlaveFromOneRequest
<1> DEFINE A == {D \in SUBSET Data : FromOneRequest(D)}
           Inv == StoreInv /\ RowsFound /\ RecordsInv /\ SlaveInv /\ SlaveFrom(A)
<1>1. ReplicationInit => Inv
  <2>1. SetsFrom(A, InitSlaveSets)
    BY ReplicationAssumption DEF SetsFrom, SlaveSet, Payload
  <2> HIDE DEF A
  <2> QED BY <2>1, StoreInvInit, RowsFoundInit, RecordsInvInit, SlaveInvInit, SlaveFromInit
          DEF ReplicationInit
<1>2. Inv /\ NumbersOwn /\ EditsApart /\ [ReplicationNext]_replicationVars => Inv'
  <2> SUFFICES ASSUME Inv, NumbersOwn, EditsApart, [ReplicationNext]_replicationVars
               PROVE  Inv'
    OBVIOUS
  <2>1. [StoreNext]_storeVars
    BY StoreSteps
  <2>2. MasterFrom(A)
    BY TextsAreData DEF StoreInv, RecordsInv, AllOfOneRequest, MasterFrom
  <2>3. StoreInv' /\ RowsFound' /\ RecordsInv' /\ SlaveInv'
    BY <2>1, RowsFoundStep, RecordsInvStep, ReplicationInvStep
  <2>5. A' = A
    BY DEF FromOneRequest, TextsOfOneRequest, RequestTexts, ImportedTexts, InitialTexts,
           WebTexts, ImportTexts
  <2> HIDE DEF A
  <2>4. SlaveFrom(A)'
    BY <2>2, SlaveFromStep
  <2> QED BY <2>3, <2>4
<1>3. Inv => SlaveFromOneRequest
  BY DEF SlaveFrom, SetsFrom, SlaveFromOneRequest
<1> QED BY <1>1, <1>2, <1>3, PTL DEF ReplicationSpec

-----------------------------------------------------------------------------
(***************************************************************************)
(* Types: of the templates, of what a sync has read, and of the slave.     *)
(***************************************************************************)
LEMMA TemplateTypeStep ==
    ASSUME TemplateTypeOK, [TemplateNext]_templateVars
    PROVE  TemplateTypeOK'
<1>1. CASE UNCHANGED templateVars
  BY <1>1 DEF templateVars, TemplateTypeOK
<1>2. ASSUME Change PROVE templateChanges' \in 0 .. MaxTemplateChanges
  BY <1>2, TemplateAssumption DEF Change, TemplateTypeOK
<1>3. /\ \A t \in DOMAIN templates : templates[t] \in TemplateRow /\ t \in Nat
      /\ \A q \in DOMAIN templateRecords : templateRecords[q] \in RecordRow
  BY ElementOfSeq, LenProperties DEF TemplateTypeOK
<1>4. ASSUME NEW t, NEW row \in TemplateRow, templates' = [templates EXCEPT ![t] = row]
      PROVE  templates' \in Seq(TemplateRow)
  <2>1. CASE t \in DOMAIN templates
    BY <1>4, <2>1, ExceptSeq, LenProperties DEF TemplateTypeOK
  <2>2. CASE t \notin DOMAIN templates
    <3>1. DOMAIN templates' = DOMAIN templates /\ \A i \in DOMAIN templates : templates'[i] = templates[i]
      BY <1>4, <2>2
    <3>2. templates' = [i \in DOMAIN templates |-> templates[i]]
      BY <1>4, <3>1
    <3>3. templates = [i \in DOMAIN templates |-> templates[i]]
      BY LenProperties DEF TemplateTypeOK
    <3> QED BY <3>2, <3>3 DEF TemplateTypeOK
  <2> QED BY <2>1, <2>2
<1>5. ASSUME NEW n \in TemplateNames, NEW d \in Contents, CreateTemplate(n, d)
      PROVE  TemplateTypeOK'
  BY <1>2, <1>5, AppendProperties DEF CreateTemplate, TemplateTypeOK, TemplateRow
<1>6. ASSUME NEW n \in TemplateNames, NEW d \in Contents, NEW e \in Editors,
             SaveTemplate(e, n, d)
      PROVE  TemplateTypeOK'
  <2>1. [name |-> n, description |-> d, live |-> TRUE] \in TemplateRow
    BY DEF TemplateRow
  <2>2. templates' \in Seq(TemplateRow)
    BY <1>4, <1>6, <2>1 DEF SaveTemplate
  <2> QED BY <1>2, <1>6, <2>2 DEF SaveTemplate, TemplateTypeOK
<1>7. ASSUME NEW e \in Editors, FindTemplate(e) PROVE TemplateTypeOK'
  BY <1>3, <1>7 DEF FindTemplate, TemplateTypeOK
<1>8. ASSUME NEW t \in DOMAIN templates, DeleteTemplate(t) PROVE TemplateTypeOK'
  <2> DEFINE row == [templates[t] EXCEPT !.live = FALSE]
  <2>1. row \in TemplateRow
    BY <1>3 DEF TemplateRow
  <2>2. templates' = [templates EXCEPT ![t] = row]
    BY <1>8 DEF DeleteTemplate
  <2> HIDE DEF row
  <2>3. templates' \in Seq(TemplateRow)
    BY <1>4, <2>1, <2>2
  <2> QED BY <1>2, <1>8, <2>3 DEF DeleteTemplate, TemplateTypeOK
<1>9. ASSUME NEW t \in DOMAIN templates, NEW x \in Contents, CreateTemplateRecord(t, x)
      PROVE  TemplateTypeOK'
  BY <1>2, <1>3, <1>9, AppendProperties DEF CreateTemplateRecord, TemplateTypeOK, RecordRow
<1>10. ASSUME NEW q \in DOMAIN templateRecords, DeleteTemplateRecord(q) PROVE TemplateTypeOK'
  <2> DEFINE row == [templateRecords[q] EXCEPT !.live = FALSE]
  <2>1. row \in RecordRow
    BY <1>3 DEF RecordRow
  <2>2. templateRecords' = [templateRecords EXCEPT ![q] = row]
    BY <1>10 DEF DeleteTemplateRecord
  <2> HIDE DEF row
  <2>3. templateRecords' \in Seq(RecordRow)
    BY <2>1, <2>2, ExceptSeq DEF TemplateTypeOK
  <2> QED BY <1>2, <1>10, <2>3 DEF DeleteTemplateRecord, TemplateTypeOK
<1> QED BY <1>1, <1>5, <1>6, <1>7, <1>8, <1>9, <1>10 DEF TemplateNext

ColumnsType == [zone : Zones, name : Owners, type : Types, ttl : Nat]

SyncTyped ==
    /\ sync.pc \in SyncPC
    /\ sync.data.zones \subseteq Zones
    /\ sync.pc = "readData" => \A s \in sync.data.sets : s.columns \in ColumnsType
    /\ sync.pc \in {"readTemplates", "readTemplateRecords", "import"}
          => sync.data.sets \subseteq SlaveSet
    /\ sync.pc = "readTemplateRecords" =>
          \A t \in sync.data.templates : t.name \in TemplateNames /\ t.description \in Contents
    /\ sync.pc = "import" => sync.data.templates \subseteq SlaveTemplate

DataTyped(data) ==
    /\ data.zones \subseteq Zones /\ data.sets \subseteq SlaveSet
    /\ data.templates \subseteq SlaveTemplate

TypeInv ==
    /\ ReplicationTypeOK /\ TemplateTypeOK /\ SyncTyped
    /\ \A data \in posted : DataTyped(data)

LEMMA ImportTyped ==
    ASSUME ReplicationTypeOK, NEW data, DataTyped(data), DataOK(data), SyncImport(data)
    PROVE  /\ slaveZones' \in [Zones -> ZoneState]
           /\ \A s \in slaveSets' : s \in SlaveSet /\ slaveZones'[s.zone] # "absent"
           /\ \A t \in slaveTemplates' : t \in SlaveTemplate
<1> USE DEF ReplicationTypeOK
<1>1. CASE UNCHANGED slave
  BY <1>1 DEF slave
<1>2. CASE Apply(data)
  <2>1. slaveZones' \in [Zones -> ZoneState]
    BY <1>2 DEF Apply, ImportedZones, ZoneState
  <2>2. ASSUME NEW s \in slaveSets' PROVE s \in SlaveSet /\ slaveZones'[s.zone] # "absent"
    <3>1. s \in slaveSets \/ (s \in data.sets /\ s.zone \in data.zones)
      BY <1>2, <2>2 DEF Apply, DataOK
    <3>2. s \in SlaveSet
      BY <3>1 DEF DataTyped
    <3>3. s.zone \in Zones
      BY <3>2 DEF SlaveSet
    <3> QED BY <1>2, <3>1, <3>2, <3>3 DEF Apply, ImportedZones
  <2>3. \A t \in slaveTemplates' : t \in SlaveTemplate
    BY <1>2 DEF Apply, ImportedTemplates, DataTyped
  <2> QED BY <2>1, <2>2, <2>3
<1> QED BY <1>1, <1>2 DEF SyncImport

(* The rows as the queries return them.                                    *)
LEMMA ReadTypes ==
    ASSUME TablesOK, TemplateTypeOK
    PROVE  /\ \A s \in DOMAIN rrsets : Columns(s) \in ColumnsType
           /\ \A s : \A c \in ColumnsType : WithRecords(s, c) \in SlaveSet
           /\ \A t \in LiveTemplates : /\ templates[t].name \in TemplateNames
                                       /\ templates[t].description \in Contents
           /\ \A t : RecordsOf(t) \subseteq Contents
<1>1. \A s \in DOMAIN rrsets : rrsets[s] \in SetRow
  BY ElementOfSeq, LenProperties DEF TablesOK
<1>2. \A s \in DOMAIN rrsets : Columns(s) \in ColumnsType
  BY <1>1 DEF Columns, ColumnsType, SetRow
<1>3. \A d \in DOMAIN rdata : rdata[d] \in DataRow
  BY ElementOfSeq, LenProperties DEF TablesOK
<1>4. ASSUME NEW s, NEW c \in ColumnsType PROVE WithRecords(s, c) \in SlaveSet
  <2> DEFINE ps == {rdata[d].payload : d \in LiveData(s)}
  <2>1. ps \subseteq Payload
    BY <1>3 DEF LiveData, DataRow
  <2>2. WithRecords(s, c) = [zone |-> c.zone, name |-> c.name, type |-> c.type,
                             ttl |-> c.ttl, live |-> TRUE, records |-> ps]
    BY DEF WithRecords
  <2> HIDE DEF ps
  <2> QED BY <2>1, <2>2 DEF ColumnsType, SlaveSet
<1>5. /\ \A t \in DOMAIN templates : templates[t] \in TemplateRow
      /\ \A q \in DOMAIN templateRecords : templateRecords[q] \in RecordRow
  BY ElementOfSeq, LenProperties DEF TemplateTypeOK
<1> QED BY <1>2, <1>4, <1>5 DEF LiveTemplates, TemplateRow, RecordsOf, RecordRow

LEMMA TypeInvInit == ReplicationInit => TypeInv
<1> SUFFICES ASSUME ReplicationInit PROVE TypeInv
  OBVIOUS
<1>1. ReplicationTypeOK
  BY ReplicationAssumption DEF ReplicationInit, ReplicationTypeOK, SyncIdle, SyncPC
<1>2. TemplateTypeOK
  BY TemplateAssumption DEF ReplicationInit, TemplateInit, TemplateTypeOK
<1>3. SyncTyped
  BY DEF ReplicationInit, SyncTyped, SyncIdle, NoData, SyncPC
<1> QED BY <1>1, <1>2, <1>3 DEF TypeInv, ReplicationInit

(* A step of the export, from what it makes of sync.                       *)
LEMMA ExportTyped ==
    ASSUME TypeInv, UNCHANGED <<master, slave, posted, outages>>, SyncTyped'
    PROVE  TypeInv'
  BY DEF TypeInv, ReplicationTypeOK, TemplateTypeOK, SyncTyped, DataTyped, master, slave,
         templateVars

LEMMA SyncTypedSteps ==
    ASSUME TypeInv, TablesOK, SlaveInv, SyncNext
    PROVE  TypeInv'
<1> USE DEF TypeInv
<1>0. IsData(sync.data)
  BY DEF SlaveInv, SyncOK
<1>1. CASE Tick
  <2>1. SyncTyped'
    BY <1>1 DEF Tick, SyncTo, NoData, SyncTyped, SyncPC
  <2> QED BY <1>1, <2>1, ExportTyped DEF Tick
<1>2. CASE ReadZones
  <2>1. /\ sync'.pc = "readSets" /\ sync'.data.zones = {z \in Zones : zones[z] = "live"}
    BY <1>0, <1>2 DEF ReadZones, SyncTo, IsData
  <2>2. SyncTyped'
    BY <2>1 DEF SyncTyped, SyncPC
  <2> QED BY <1>2, <2>2, ExportTyped DEF ReadZones
<1>3. CASE ReadSets
  <2> DEFINE sets == {[id |-> s, columns |-> Columns(s)] :
                        s \in {i \in DOMAIN rrsets :
                                 rrsets[i].live /\ rrsets[i].zone \in sync.data.zones}}
  <2>1. \A s \in sets : s.columns \in ColumnsType
    BY ReadTypes
  <2>2. SyncTo("readData", [sync.data EXCEPT !.sets = sets])
    BY <1>3 DEF ReadSets
  <2> HIDE DEF sets
  <2>3. sync'.pc = "readData" /\ sync'.data.sets = sets /\ sync'.data.zones = sync.data.zones
    BY <1>0, <2>2 DEF SyncTo, IsData
  <2>4. SyncTyped'
    BY <2>1, <2>3 DEF SyncTyped, SyncPC
  <2> QED BY <1>3, <2>4, ExportTyped DEF ReadSets
<1>4. CASE ReadData
  <2> DEFINE sets == {WithRecords(s.id, s.columns) : s \in sync.data.sets}
  <2>1. sets \subseteq SlaveSet
    BY <1>4, ReadTypes DEF SyncTyped, ReadData
  <2>2. SyncTo("readTemplates", [sync.data EXCEPT !.sets = sets])
    BY <1>4 DEF ReadData
  <2> HIDE DEF sets
  <2>3. /\ sync'.pc = "readTemplates" /\ sync'.data.sets = sets
        /\ sync'.data.zones = sync.data.zones
    BY <1>0, <2>2 DEF SyncTo, IsData
  <2>4. SyncTyped'
    BY <2>1, <2>3 DEF SyncTyped, SyncPC
  <2> QED BY <1>4, <2>4, ExportTyped DEF ReadData
<1>5. CASE ReadTemplates
  <2> DEFINE ts == {[id |-> t, name |-> templates[t].name,
                     description |-> templates[t].description] : t \in LiveTemplates}
  <2>1. \A t \in ts : t.name \in TemplateNames /\ t.description \in Contents
    BY ReadTypes
  <2>2. SyncTo("readTemplateRecords", [sync.data EXCEPT !.templates = ts])
    BY <1>5 DEF ReadTemplates
  <2> HIDE DEF ts
  <2>3. /\ sync.pc = "readTemplates" /\ sync'.pc = "readTemplateRecords"
        /\ sync'.data.sets = sync.data.sets
        /\ sync'.data.zones = sync.data.zones /\ sync'.data.templates = ts
    BY <1>0, <1>5, <2>2 DEF SyncTo, IsData, ReadTemplates
  <2>4. SyncTyped'
    BY <2>1, <2>3 DEF SyncTyped, SyncPC
  <2> QED BY <1>5, <2>4, ExportTyped DEF ReadTemplates
<1>6. CASE ReadTemplateRecords
  <2> DEFINE last == LastOfName(sync.data.templates)
             ts   == {[name |-> t.name, description |-> t.description,
                       records |-> RecordsOf(t.id)] : t \in last}
  <2>0. last \subseteq sync.data.templates
    BY DEF LastOfName
  <2>1. ts \subseteq SlaveTemplate
    BY <1>6, <2>0, ReadTypes DEF SyncTyped, ReadTemplateRecords, SlaveTemplate
  <2>2. SyncTo("import", [sync.data EXCEPT !.templates = ts])
    BY <1>6 DEF ReadTemplateRecords
  <2> HIDE DEF ts
  <2>3. /\ sync.pc = "readTemplateRecords" /\ sync'.pc = "import"
        /\ sync'.data.sets = sync.data.sets
        /\ sync'.data.zones = sync.data.zones /\ sync'.data.templates = ts
    BY <1>0, <1>6, <2>2 DEF SyncTo, IsData, ReadTemplateRecords
  <2>4. SyncTyped'
    BY <2>1, <2>3 DEF SyncTyped, SyncPC
  <2> QED BY <1>6, <2>4, ExportTyped DEF ReadTemplateRecords
<1>7. CASE Import
  <2>1. DataTyped(sync.data) /\ DataOK(sync.data)
    BY <1>7 DEF Import, SyncTyped, DataTyped, SlaveInv, SyncOK
  <2>2. SyncTyped' /\ sync'.pc \in SyncPC
    BY <1>7 DEF Import, SyncIdle, NoData, SyncTyped, SyncPC
  <2>3. TemplateTypeOK' /\ \A data \in posted' : DataTyped(data)
    BY <1>7 DEF Import, master, templateVars, TemplateTypeOK
  <2> QED BY <1>7, <2>1, <2>2, <2>3, ImportTyped DEF Import, ReplicationTypeOK
<1>8. CASE LateImport
  <2>1. PICK data \in posted : SyncImport(data) /\ posted' = posted \ {data}
    BY <1>8 DEF LateImport
  <2>2. DataTyped(data) /\ DataOK(data)
    BY DEF SlaveInv, PostedOK
  <2>3. SyncTyped' /\ sync'.pc \in SyncPC
    BY <1>8 DEF LateImport, SyncTyped
  <2>4. TemplateTypeOK' /\ \A d \in posted' : DataTyped(d)
    BY <1>8, <2>1 DEF LateImport, master, templateVars, TemplateTypeOK
  <2> QED BY <1>8, <2>1, <2>2, <2>3, <2>4, ImportTyped DEF LateImport, ReplicationTypeOK
<1> QED BY <1>1, <1>2, <1>3, <1>4, <1>5, <1>6, <1>7, <1>8 DEF SyncNext

LEMMA TypeInvStep ==
    ASSUME TypeInv, StoreInv, SlaveInv, [ReplicationNext]_replicationVars
    PROVE  TypeInv'
<1>1. CASE MasterNext \/ UNCHANGED replicationVars
  <2>1. [TemplateNext]_templateVars /\ UNCHANGED syncVars
    BY <1>1 DEF MasterNext, replicationVars
  <2>2. TemplateTypeOK'
    BY <2>1, TemplateTypeStep DEF TypeInv
  <2> QED BY <2>1, <2>2 DEF syncVars, TypeInv, ReplicationTypeOK, SyncTyped, DataTyped
<1>2. CASE SyncNext
  BY <1>2, SyncTypedSteps DEF StoreInv
<1>3. CASE SyncFails \/ ImportTimesOut \/ SlaveRestart
  <2>1. UNCHANGED <<master, slave>> /\ sync' = SyncIdle /\ outages' \in 0 .. MaxOutages
    BY <1>3, ReplicationAssumption
       DEF SyncFails, ImportTimesOut, SlaveRestart, Outage, TypeInv, ReplicationTypeOK
  <2>2. SyncTyped'
    BY <2>1 DEF SyncIdle, NoData, SyncTyped, SyncPC
  <2>3. TemplateTypeOK'
    BY <2>1 DEF master, templateVars, TypeInv, TemplateTypeOK
  <2>4. ReplicationTypeOK'
    BY <2>1, <2>2 DEF slave, TypeInv, ReplicationTypeOK, SyncTyped
  <2>5. \A data \in posted' : DataTyped(data)
    BY <1>3 DEF SyncFails, ImportTimesOut, SlaveRestart, TypeInv, SyncTyped, DataTyped
  <2> QED BY <2>2, <2>3, <2>4, <2>5 DEF TypeInv
<1> QED BY <1>1, <1>2, <1>3 DEF ReplicationNext

(* The slave's rows have their types, and the zone of an rrset is there,   *)
(* as its foreign key asks.                                                *)
THEOREM ReplicationTyped == ReplicationSpec => []ReplicationTypeOK
<1>1. ReplicationInit => StoreInv /\ SlaveInv /\ TypeInv
  BY StoreInvInit, SlaveInvInit, TypeInvInit DEF ReplicationInit
<1>2. StoreInv /\ SlaveInv /\ TypeInv /\ [ReplicationNext]_replicationVars
      => (StoreInv /\ SlaveInv /\ TypeInv)'
  BY ReplicationInvStep, TypeInvStep
<1>3. TypeInv => ReplicationTypeOK
  BY DEF TypeInv
<1> QED BY <1>1, <1>2, <1>3, PTL DEF ReplicationSpec

-----------------------------------------------------------------------------
(***************************************************************************)
(* A slave that replicates keeps AbstractSlave's promise, for any master,  *)
(* requests, failures and times.                                           *)
(*                                                                         *)
(* Every step but an import leaves the copy as it is.  An import takes its *)
(* zones to the moment at which syncExport's second query read the rrsets: *)
(* the invariant carries that moment from the query to the import, through *)
(* the queries after it and through the waiting of an import given up on.  *)
(***************************************************************************)

(* Some moment of the past shows, for the zones of the data, its rrsets:   *)
(* as columns while their records are not read, then with them.            *)
ColumnsIn(sets, z) == {ColumnsOf(s.columns) : s \in {u \in sets : u.columns.zone = z}}

ReadAtAMoment(data) ==
    \E moment \in past : \A z \in data.zones : ColumnsIn(data.sets, z) = moment[z]

OfAMoment(data) ==
    \E moment \in past : \A z \in data.zones : ShapeIn(data.sets, z) = moment[z]

SyncOfAMoment ==
    /\ sync.data.zones \subseteq Zones
    /\ sync.pc = "readData" => ReadAtAMoment(sync.data)
    /\ sync.pc \in {"readTemplates", "readTemplateRecords", "import"} => OfAMoment(sync.data)

PostedOfAMoment == \A data \in posted : data.zones \subseteq Zones /\ OfAMoment(data)

CopyInv == Moment \in past /\ SyncOfAMoment /\ PostedOfAMoment

Inv == StoreInv /\ SlaveInv /\ CopyInv

-----------------------------------------------------------------------------
(* The past only grows, and holds what it held.                            *)
LEMMA PastGrows ==
    ASSUME HNext, NEW data
    PROVE  /\ OfAMoment(data) => OfAMoment(data)'
           /\ ReadAtAMoment(data) => ReadAtAMoment(data)'
  BY DEF HNext, OfAMoment, ReadAtAMoment

LEMMA MomentKept ==
    ASSUME Moment \in past, HNext, UNCHANGED storeVars
    PROVE  past' = past /\ Moment' = Moment
  BY DEF HNext, Moment, Shape, Columns, storeVars

(* What the second query reads is the present moment.                      *)
LEMMA ReadSetsAtAMoment ==
    ASSUME SlaveInv, CopyInv, ReadSets, past' = past
    PROVE  SyncOfAMoment'
<1> DEFINE rows == {i \in DOMAIN rrsets : rrsets[i].live /\ rrsets[i].zone \in sync.data.zones}
           sets == {[id |-> s, columns |-> Columns(s)] : s \in rows}
<1>1. /\ sync'.pc = "readData"
      /\ sync'.data = [zones |-> sync.data.zones, sets |-> sets,
                       templates |-> sync.data.templates]
  <2>1. SyncTo("readData", [sync.data EXCEPT !.sets = sets])
    BY DEF ReadSets
  <2> HIDE DEF sets
  <2> QED BY <2>1 DEF SlaveInv, SyncOK, SyncTo, IsData
<1>2. ASSUME NEW z \in sync.data.zones
      PROVE  ColumnsIn(sets, z) = Moment[z]
  <2>1. ColumnsIn(sets, z) = {Columns(s) : s \in {i \in rows : rrsets[i].zone = z}}
    <3>1. \A u \in sets : \E s \in rows : u.columns = Columns(s)
      OBVIOUS
    <3>2. \A s \in rows : \E u \in sets : u.columns = Columns(s)
      <4>1. \A s \in rows : [id |-> s, columns |-> Columns(s)] \in sets
        OBVIOUS
      <4>2. \A s : [id |-> s, columns |-> Columns(s)].columns = Columns(s)
        OBVIOUS
      <4> HIDE DEF rows, sets
      <4> QED BY <4>1, <4>2
    <3>3. \A s : ColumnsOf(Columns(s)) = Columns(s) /\ Columns(s).zone = rrsets[s].zone
      BY DEF ColumnsOf, Columns
    <3> HIDE DEF rows, sets
    <3> QED BY <3>1, <3>2, <3>3 DEF ColumnsIn
  <2>2. Moment[z] = Shape(z)
    BY DEF Moment, CopyInv, SyncOfAMoment
  <2> QED BY <2>1, <2>2 DEF Shape
<1> HIDE DEF sets
<1> QED BY <1>1, <1>2 DEF CopyInv, SyncOfAMoment, ReadAtAMoment

(* The records, read later, leave the columns as they were.                *)
LEMMA ReadDataOfAMoment ==
    ASSUME SlaveInv, CopyInv, ReadData, past' = past
    PROVE  SyncOfAMoment'
<1> DEFINE sets == {WithRecords(s.id, s.columns) : s \in sync.data.sets}
<1>1. /\ sync'.pc = "readTemplates"
      /\ sync'.data = [zones |-> sync.data.zones, sets |-> sets,
                       templates |-> sync.data.templates]
  <2>1. [sync.data EXCEPT !.sets = {WithRecords(s.id, s.columns) : s \in @}]
           = [sync.data EXCEPT !.sets = sets]
    OBVIOUS
  <2> HIDE DEF sets
  <2> QED BY <2>1 DEF ReadData, SlaveInv, SyncOK, SyncTo, IsData
<1>2. PICK moment \in past : \A z \in sync.data.zones : ColumnsIn(sync.data.sets, z) = moment[z]
  BY DEF CopyInv, SyncOfAMoment, ReadAtAMoment, ReadData
<1>3. ASSUME NEW z
      PROVE  ShapeIn(sets, z) = ColumnsIn(sync.data.sets, z)
  <2>1. \A s : LET w == WithRecords(s.id, s.columns)
               IN  w.live /\ w.zone = s.columns.zone /\ ColumnsOf(w) = ColumnsOf(s.columns)
    BY DEF WithRecords, ColumnsOf
  <2>2. /\ \A w \in sets : \E s \in sync.data.sets : w = WithRecords(s.id, s.columns)
        /\ \A s \in sync.data.sets : WithRecords(s.id, s.columns) \in sets
    OBVIOUS
  <2> HIDE DEF sets
  <2> QED BY <2>1, <2>2 DEF ShapeIn, ColumnsIn
<1> HIDE DEF sets
<1> QED BY <1>1, <1>2, <1>3 DEF CopyInv, SyncOfAMoment, OfAMoment

(* The other queries, and the ends of a sync, leave its rrsets alone.      *)
LEMMA OtherSyncSteps ==
    ASSUME SlaveInv, CopyInv, past' = past,
           \/ Tick \/ ReadZones \/ ReadTemplates \/ ReadTemplateRecords
           \/ sync' = SyncIdle \/ UNCHANGED sync
    PROVE  SyncOfAMoment'
<1> USE DEF SlaveInv, CopyInv
<1>1. CASE Tick \/ sync' = SyncIdle
  BY <1>1 DEF Tick, SyncTo, SyncIdle, NoData, SyncOfAMoment
<1>2. CASE ReadZones
  <2> DEFINE zs == {z \in Zones : zones[z] = "live"}
  <2>1. /\ sync'.pc = "readSets"
        /\ sync'.data = [zones |-> zs, sets |-> sync.data.sets,
                         templates |-> sync.data.templates]
    BY <1>2 DEF ReadZones, SyncOK, SyncTo, IsData
  <2>2. zs \subseteq Zones
    OBVIOUS
  <2> HIDE DEF zs
  <2> QED BY <2>1, <2>2 DEF SyncOfAMoment
<1>3. CASE ReadTemplates \/ ReadTemplateRecords
  <2>1. /\ sync'.pc \in {"readTemplateRecords", "import"}
        /\ sync'.data.zones = sync.data.zones
        /\ sync'.data.sets = sync.data.sets
    BY <1>3 DEF ReadTemplates, ReadTemplateRecords, SyncOK, SyncTo, IsData
  <2>2. OfAMoment(sync.data)
    BY <1>3 DEF ReadTemplates, ReadTemplateRecords, SyncOfAMoment
  <2> QED BY <2>1, <2>2 DEF SyncOfAMoment, OfAMoment
<1>4. CASE UNCHANGED sync
  BY <1>4 DEF SyncOfAMoment, ReadAtAMoment, OfAMoment
<1> QED BY <1>1, <1>2, <1>3, <1>4

(* Clients of the master change it: the moment after is one of the past.   *)
LEMMA MasterSteps ==
    ASSUME CopyInv, HNext, UNCHANGED syncVars
    PROVE  CopyInv'
<1>1. /\ \A data : OfAMoment(data) => OfAMoment(data)'
      /\ \A data : ReadAtAMoment(data) => ReadAtAMoment(data)'
  BY PastGrows
<1>2. SyncOfAMoment'
  BY <1>1 DEF CopyInv, SyncOfAMoment, syncVars
<1>3. PostedOfAMoment'
  BY <1>1 DEF CopyInv, PostedOfAMoment, syncVars
<1>4. Moment' \in past'
  BY DEF HNext
<1> QED BY <1>2, <1>3, <1>4 DEF CopyInv

LEMMA PostedSteps ==
    ASSUME CopyInv, past' = past,
           \/ posted' \subseteq posted
           \/ sync.pc = "import" /\ posted' = posted \cup {sync.data}
    PROVE  PostedOfAMoment'
  BY DEF CopyInv, PostedOfAMoment, SyncOfAMoment, OfAMoment

LEMMA SlaveSteps ==
    ASSUME SlaveInv, CopyInv, HNext,
           SyncNext \/ SyncFails \/ ImportTimesOut \/ SlaveRestart
    PROVE  CopyInv' /\ past' = past
<1>1. UNCHANGED storeVars
  BY DEF SyncNext, Tick, ReadZones, ReadSets, ReadData, ReadTemplates,
         ReadTemplateRecords, Import, LateImport, SyncFails, ImportTimesOut,
         SlaveRestart, master
<1>2. past' = past /\ Moment' \in past'
  BY <1>1, MomentKept DEF CopyInv
<1>3. SyncOfAMoment'
  BY <1>2, ReadSetsAtAMoment, ReadDataOfAMoment, OtherSyncSteps
     DEF SyncNext, Import, LateImport, SyncFails, ImportTimesOut, SlaveRestart
<1>4. PostedOfAMoment'
  BY <1>2, PostedSteps
     DEF SyncNext, Tick, ReadZones, ReadSets, ReadData, ReadTemplates,
         ReadTemplateRecords, Import, LateImport, SyncFails, ImportTimesOut, SlaveRestart
<1> QED BY <1>2, <1>3, <1>4 DEF CopyInv

LEMMA CopyInvStep ==
    Inv /\ [HNext]_historyVars => Inv'
<1> SUFFICES ASSUME Inv, [HNext]_historyVars PROVE Inv'
  OBVIOUS
<1>1. CASE UNCHANGED historyVars
  <2>1. StoreInv' /\ SlaveInv'
    BY <1>1, ReplicationInvStep DEF historyVars, Inv
  <2>2. CopyInv'
    BY <1>1 DEF Inv, historyVars, replicationVars, storeVars, syncVars, CopyInv, Moment,
                Shape, Columns, SyncOfAMoment, PostedOfAMoment, OfAMoment, ReadAtAMoment
  <2> QED BY <2>1, <2>2 DEF Inv
<1>2. CASE HNext
  <2>1. StoreInv' /\ SlaveInv'
    BY <1>2, ReplicationInvStep DEF HNext, Inv
  <2>2. CopyInv'
    BY <1>2, MasterSteps, SlaveSteps DEF Inv, HNext, ReplicationNext, MasterNext
  <2> QED BY <2>1, <2>2 DEF Inv
<1> QED BY <1>1, <1>2

-----------------------------------------------------------------------------
(* An import takes the zones it brings to its moment, or does nothing.     *)
LEMMA ImportIsSync ==
    ASSUME NEW data, data.zones \subseteq Zones, OfAMoment(data), DataOK(data),
           SyncImport(data), past' = past
    PROVE  Slave!Sync
<1>1. CASE Apply(data)
  <2>1. PICK moment \in past : \A z \in data.zones : ShapeIn(data.sets, z) = moment[z]
    BY DEF OfAMoment
  <2>2. slaveSets' = {s \in slaveSets : s.zone \notin data.zones} \cup data.sets
    BY <1>1 DEF Apply
  <2>3. ASSUME NEW z \in Zones
        PROVE  ShapeIn(slaveSets', z) = IF z \in data.zones THEN moment[z]
                                                            ELSE ShapeIn(slaveSets, z)
    <3>1. CASE z \in data.zones
      BY <2>1, <2>2, <3>1 DEF ShapeIn
    <3>2. CASE z \notin data.zones
      BY <2>2, <3>2 DEF ShapeIn, DataOK
    <3> QED BY <3>1, <3>2
  <2>4. Slave!Take(moment, data.zones)
    BY <2>3 DEF Slave!Take
  <2> QED BY <2>4 DEF Slave!Sync
<1>2. CASE UNCHANGED slave
  <2>1. slaveSets' = slaveSets
    BY <1>2 DEF slave
  <2>2. PICK moment \in past : TRUE
    BY DEF OfAMoment
  <2>3. Slave!Take(moment, {})
    BY <2>1 DEF Slave!Take
  <2> QED BY <2>3 DEF Slave!Sync
<1> QED BY <1>1, <1>2 DEF SyncImport

LEMMA StepIsAbstract ==
    Inv /\ [HNext]_historyVars => [Slave!Next]_<<past, [z \in Zones |-> ShapeIn(slaveSets, z)]>>
<1> SUFFICES ASSUME Inv, [HNext]_historyVars
             PROVE  Slave!Next \/ (past' = past /\ slaveSets' = slaveSets)
  OBVIOUS
<1>1. CASE UNCHANGED historyVars
  BY <1>1 DEF historyVars, replicationVars, syncVars
<1>2. CASE HNext /\ MasterNext
  <2>1. past \subseteq past' /\ slaveSets' = slaveSets
    BY <1>2 DEF HNext, MasterNext, syncVars
  <2> QED BY <2>1 DEF Slave!MasterChanges, Slave!Next
<1>3. CASE HNext /\ (SyncNext \/ SyncFails \/ ImportTimesOut \/ SlaveRestart)
  <2>1. past' = past
    BY <1>3, SlaveSteps DEF Inv
  <2>2. CASE Import
    <3>1. Slave!Sync
      BY <2>1, <2>2, ImportIsSync DEF Import, Inv, SlaveInv, SyncOK, CopyInv, SyncOfAMoment
    <3> QED BY <3>1 DEF Slave!Next
  <2>3. CASE LateImport
    <3>1. PICK data \in posted : SyncImport(data)
      BY <2>3 DEF LateImport
    <3>2. Slave!Sync
      BY <2>1, <3>1, ImportIsSync DEF Inv, SlaveInv, PostedOK, CopyInv, PostedOfAMoment
    <3> QED BY <3>2 DEF Slave!Next
  <2>4. CASE ~Import /\ ~LateImport
    BY <1>3, <2>1, <2>4 DEF SyncNext, Tick, ReadZones, ReadSets, ReadData, ReadTemplates,
          ReadTemplateRecords, SyncFails, ImportTimesOut, SlaveRestart, slave
  <2> QED BY <2>2, <2>3, <2>4
<1> QED BY <1>1, <1>2, <1>3 DEF HNext, ReplicationNext

(* What a slave shows is, zone by zone, a copy of one moment of the        *)
(* master's past, whatever is read between the export's queries, and       *)
(* however late an import comes.                                           *)
THEOREM SlaveImplementsAbstract == HSpec => SlaveCopiesMaster
<1>1. HInit => Inv
  <2>1. HInit => StoreInv /\ SlaveInv
    BY StoreInvInit, SlaveInvInit DEF HInit, ReplicationInit
  <2>2. HInit => CopyInv
    BY DEF HInit, ReplicationInit, SyncIdle, NoData, CopyInv, SyncOfAMoment, PostedOfAMoment
  <2> QED BY <2>1, <2>2 DEF Inv
<1>2. HInit => Slave!Init
  BY DEF HInit, ReplicationInit, Slave!Init
<1> QED BY <1>1, <1>2, CopyInvStep, StepIsAbstract, PTL DEF HSpec, SlaveCopiesMaster, Slave!Spec
=============================================================================
