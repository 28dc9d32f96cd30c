---------------------------- MODULE BackupProofs ----------------------------
(***************************************************************************)
(* Backups beside any requests, of any database.                           *)
(*                                                                         *)
(* The export takes its rrsets in one query, so that the backup has one of *)
(* a key; its records in another, when the rows it read are still there,   *)
(* for no import runs beside an export.  An import adds the backup's rows  *)
(* to tables that it has emptied or rid of the backup's zones.             *)
(***************************************************************************)
EXTENDS Backup, ZoneStoreProofs

(* The rrsets b.sets of a backup: numbered, typed, one of a key.           *)
SetsOK(b) ==
    /\ b.zones \subseteq Zones
    /\ \E n \in Nat : DOMAIN b.sets \subseteq 1 .. n
    /\ \A s \in DOMAIN b.sets : b.sets[s] \in BackupRow
    /\ \A s \in DOMAIN b.sets : b.sets[s].zone \in b.zones
    /\ \A s, u \in DOMAIN b.sets :
          HasKey(b.sets[s], b.sets[u].zone, b.sets[u].name, b.sets[u].type) => s = u

(* And its records.                                                        *)
FileOK(b) ==
    /\ SetsOK(b)
    /\ \E n \in Nat : DOMAIN b.data \subseteq 1 .. n
    /\ \A d \in DOMAIN b.data : b.data[d] \in FileRow /\ b.data[d].set \in DOMAIN b.sets

IsBackup(b) == b = [zones |-> b.zones, sets |-> b.sets, data |-> b.data]

Loading ==
    /\ IsBackup(loaded)
    /\ command \in {"exportSets", "exportData"} => loaded.zones \subseteq Zones
    /\ command = "exportData" => SetsOK(loaded) /\ DOMAIN loaded.sets \subseteq DOMAIN rrsets

BackupInv ==
    /\ StoreInv /\ RowsFound /\ DataRefs /\ InsertsKnown
    /\ FileOK(file) /\ Loading

-----------------------------------------------------------------------------
(***************************************************************************)
(* Exports.                                                                *)
(***************************************************************************)
LEMMA ReadSetsOK ==
    ASSUME TablesOK, KeysUnique, NEW zs \in SUBSET Zones, NEW d
    PROVE  /\ SetsOK([zones |-> zs, sets |-> BackupSets(zs), data |-> d])
           /\ DOMAIN BackupSets(zs) \subseteq DOMAIN rrsets
<1> DEFINE sets == BackupSets(zs)
<1>1. /\ Len(rrsets) \in Nat /\ DOMAIN rrsets = 1 .. Len(rrsets)
      /\ \A i \in DOMAIN rrsets : rrsets[i] \in SetRow
  BY ElementOfSeq, LenProperties DEF TablesOK
<1>2. DOMAIN sets = {i \in DOMAIN rrsets : rrsets[i].live /\ rrsets[i].zone \in zs}
  BY DEF BackupSets
<1>3. \A s \in DOMAIN sets : sets[s] = SetColumns(rrsets[s])
  BY DEF BackupSets
<1> HIDE DEF sets
<1>4. ASSUME NEW s \in DOMAIN sets
      PROVE  /\ sets[s] \in BackupRow /\ sets[s].zone \in zs
             /\ sets[s].zone = rrsets[s].zone /\ sets[s].name = rrsets[s].name
             /\ sets[s].type = rrsets[s].type
  <2>1. sets[s] = SetColumns(rrsets[s]) /\ rrsets[s].zone \in zs
    BY <1>2, <1>3
  <2>2. rrsets[s] \in [zone : Zones, name : Owners, type : Types, ttl : Nat, live : BOOLEAN]
    BY <1>1, <1>2 DEF SetRow
  <2> QED BY <2>1, <2>2 DEF SetColumns, BackupRow
<1>5. ASSUME NEW s \in DOMAIN sets, NEW u \in DOMAIN sets,
             HasKey(sets[s], sets[u].zone, sets[u].name, sets[u].type)
      PROVE  s = u
  BY <1>2, <1>4, <1>5 DEF HasKey, KeysUnique
<1>6. \E n \in Nat : DOMAIN sets \subseteq 1 .. n
  BY <1>1, <1>2
<1>7. SetsOK([zones |-> zs, sets |-> sets, data |-> d])
  BY <1>4, <1>5, <1>6 DEF SetsOK
<1> QED BY <1>2, <1>7 DEF sets

LEMMA ReadDataOK ==
    ASSUME TablesOK, NEW b, SetsOK(b), DOMAIN b.sets \subseteq DOMAIN rrsets,
           NEW f, f = [zones |-> b.zones, sets |-> b.sets, data |-> BackupData(DOMAIN b.sets)]
    PROVE  FileOK(f)
<1> DEFINE data == BackupData(DOMAIN b.sets)
<1>1. /\ Len(rdata) \in Nat /\ DOMAIN rdata = 1 .. Len(rdata)
      /\ \A d \in DOMAIN rdata : rdata[d] \in DataRow
  BY ElementOfSeq, LenProperties DEF TablesOK
<1>2. DOMAIN data = UNION {LiveData(s) : s \in DOMAIN b.sets}
      /\ \A d \in DOMAIN data : data[d] = [set |-> rdata[d].set, payload |-> rdata[d].payload]
  BY DEF BackupData
<1> HIDE DEF data
<1>3. ASSUME NEW d \in DOMAIN data
      PROVE  d \in DOMAIN rdata /\ data[d] \in FileRow /\ data[d].set \in DOMAIN b.sets
  <2>1. PICK s \in DOMAIN b.sets : d \in LiveData(s)
    BY <1>2
  <2>2. d \in DOMAIN rdata /\ rdata[d].set = s
    BY <2>1 DEF LiveData
  <2>3. rdata[d] \in [set : Nat, payload : Payload, live : BOOLEAN]
    BY <1>1, <2>2 DEF DataRow
  <2>4. data[d] = [set |-> rdata[d].set, payload |-> rdata[d].payload]
    BY <1>2
  <2> QED BY <2>2, <2>3, <2>4 DEF FileRow
<1>4. \E n \in Nat : DOMAIN data \subseteq 1 .. n
  BY <1>1, <1>3
<1>5. SetsOK(f)
  BY DEF SetsOK
<1>6. f.data = data /\ f.sets = b.sets
  BY DEF data
<1> QED BY <1>3, <1>4, <1>5, <1>6 DEF FileOK

LEMMA EmptyFileOK == FileOK(NoBackup)
<1>1. DOMAIN NoBackup.sets = {} /\ DOMAIN NoBackup.data = {} /\ NoBackup.zones = {}
  BY DEF NoBackup
<1>2. {} \subseteq 1 .. 0 /\ 0 \in Nat
  OBVIOUS
<1> QED BY <1>1, <1>2 DEF FileOK, SetsOK

LEMMA ExportSteps ==
    ASSUME BackupInv, ExportStep, UNCHANGED storeVars
    PROVE  FileOK(file)' /\ Loading'
<1> USE DEF BackupInv, Loading
<1>1. ASSUME command' = "none", loaded' = NoBackup PROVE Loading'
  BY <1>1 DEF NoBackup, IsBackup
<1>2. ASSUME file' = file PROVE FileOK(file)'
  BY <1>2 DEF FileOK, SetsOK, HasKey
<1>3. CASE StartExport
  BY <1>2, <1>3 DEF StartExport, IsBackup
<1>4. CASE ExportZones
  BY <1>2, <1>4 DEF ExportZones, IsBackup
<1>5. CASE ExportSets
  <2>1. loaded' = [zones |-> loaded.zones, sets |-> BackupSets(loaded.zones),
                   data |-> loaded.data]
    BY <1>5 DEF ExportSets, IsBackup
  <2>2. SetsOK(loaded') /\ DOMAIN BackupSets(loaded.zones) \subseteq DOMAIN rrsets
    BY <1>5, <2>1, ReadSetsOK DEF StoreInv, ExportSets
  <2>3. SetsOK(loaded)'
    BY <2>2 DEF SetsOK, HasKey
  <2>4. FileOK(file)'
    BY <1>2, <1>5 DEF ExportSets
  <2>5. loaded'.sets = BackupSets(loaded.zones) /\ IsBackup(loaded)'
    BY <2>1 DEF IsBackup
  <2>6. rrsets' = rrsets /\ command' = "exportData"
    BY <1>5 DEF ExportSets, storeVars
  <2>7. loaded'.zones \subseteq Zones
    BY <2>3 DEF SetsOK
  <2> QED BY <2>2, <2>3, <2>4, <2>5, <2>6, <2>7
<1>6. CASE ExportData
  <2>1. file' = [zones |-> loaded.zones, sets |-> loaded.sets,
                 data |-> BackupData(DOMAIN loaded.sets)]
    BY <1>6 DEF ExportData, IsBackup
  <2>2. FileOK(file')
    BY <1>6, <2>1, ReadDataOK DEF StoreInv, ExportData
  <2>3. FileOK(file)'
    BY <2>2 DEF FileOK, SetsOK, HasKey
  <2> QED BY <1>1, <1>6, <2>3 DEF ExportData
<1>7. CASE ExportFails
  BY <1>1, <1>2, <1>7 DEF ExportFails
<1>8. CASE WriteFails
  BY <1>1, <1>8, EmptyFileOK DEF WriteFails, FileOK, SetsOK, HasKey
<1> QED BY <1>3, <1>4, <1>5, <1>6, <1>7, <1>8 DEF ExportStep

-----------------------------------------------------------------------------
(***************************************************************************)
(* Imports.  Rows are added to tables t, an rrset s of the backup gets the *)
(* number num[s].                                                          *)
(***************************************************************************)
Prepared(t) ==
    /\ t.zones \in [Zones -> ZoneState]
    /\ t.sets \in Seq(SetRow)
    /\ t.data \in Seq(DataRow)
    /\ \A i, j \in DOMAIN t.sets :
          HasKey(t.sets[i], t.sets[j].zone, t.sets[j].name, t.sets[j].type) => i = j
    /\ \A d \in DOMAIN t.data : t.data[d].set \in DOMAIN t.sets

SetAdded(s) ==
    LET c == file.sets[s] IN NewSet(c.zone, c.name, c.type, c.ttl)

DataAdded(num, d) ==
    [set |-> num[file.data[d].set], payload |-> file.data[d].payload, live |-> TRUE]

SetsAdded(t, num) ==
    /\ \A i \in DOMAIN t.sets : i \in DOMAIN rrsets' /\ rrsets'[i] = t.sets[i]
    /\ \A s \in DOMAIN file.sets :
          num[s] \in DOMAIN rrsets' \ DOMAIN t.sets /\ rrsets'[num[s]] = SetAdded(s)
    /\ \A i \in DOMAIN rrsets' \ DOMAIN t.sets : \E s \in DOMAIN file.sets : i = num[s]
    /\ \A s, u \in DOMAIN file.sets : num[s] = num[u] => s = u

RecordsAdded(t, num) ==
    /\ \A d \in DOMAIN t.data : d \in DOMAIN rdata' /\ rdata'[d] = t.data[d]
    /\ \A d \in DOMAIN file.data :
          \E e \in DOMAIN rdata' \ DOMAIN t.data : rdata'[e] = DataAdded(num, d)
    /\ \A e \in DOMAIN rdata' \ DOMAIN t.data :
          \E d \in DOMAIN file.data : rdata'[e] = DataAdded(num, d)

Added(t, num) == SetsAdded(t, num) /\ RecordsAdded(t, num)

\* Where the elements of a sequence followed by another are.
Followed(a, b, c) ==
    /\ \A i \in DOMAIN a : i \in DOMAIN c /\ c[i] = a[i]
    /\ \A i \in DOMAIN b : Len(a) + i \in DOMAIN c \ DOMAIN a /\ c[Len(a) + i] = b[i]
    /\ \A i \in DOMAIN c \ DOMAIN a : \E k \in DOMAIN b : i = Len(a) + k

LEMMA FollowedRows ==
    ASSUME NEW S, NEW a \in Seq(S), NEW b \in Seq(S)
    PROVE  a \o b \in Seq(S) /\ Followed(a, b, a \o b)
<1> DEFINE c == a \o b
<1>1. /\ Len(a) \in Nat /\ DOMAIN a = 1 .. Len(a)
      /\ Len(b) \in Nat /\ DOMAIN b = 1 .. Len(b)
  BY LenProperties
<1>2. /\ c \in Seq(S) /\ Len(c) = Len(a) + Len(b)
      /\ \A i \in 1 .. Len(a) + Len(b) : c[i] = IF i <= Len(a) THEN a[i] ELSE b[i - Len(a)]
  BY ConcatProperties
<1>3. DOMAIN c = 1 .. Len(a) + Len(b)
  BY <1>2, LenProperties
<1> HIDE DEF c
<1>4. \A i \in DOMAIN a : i \in DOMAIN c /\ c[i] = a[i]
  BY <1>1, <1>2, <1>3
<1>5. ASSUME NEW i \in DOMAIN b
      PROVE  Len(a) + i \in DOMAIN c \ DOMAIN a /\ c[Len(a) + i] = b[i]
  <2>1. Len(a) + i \in DOMAIN c /\ ~(Len(a) + i <= Len(a)) /\ Len(a) + i - Len(a) = i
    BY <1>1, <1>3
  <2> QED BY <1>1, <1>2, <1>3, <2>1
<1>6. ASSUME NEW i \in DOMAIN c \ DOMAIN a PROVE \E k \in DOMAIN b : i = Len(a) + k
  <2>1. i - Len(a) \in DOMAIN b /\ i = Len(a) + (i - Len(a))
    BY <1>1, <1>3
  <2> QED BY <2>1
<1>7. c \in Seq(S) /\ Followed(a, b, c)
  BY <1>2, <1>4, <1>5, <1>6 DEF Followed
<1> QED BY <1>7 DEF c

LEMMA SetsAreAdded ==
    ASSUME SetsOK(file), NEW t, Prepared(t), NEW sets \in Numberings(DOMAIN file.sets),
           NEW num, num = [s \in DOMAIN file.sets |-> NumberOf(t, sets, s)],
           rrsets' = RestoredSets(t, sets)
    PROVE  SetsAdded(t, num) /\ rrsets' \in Seq(SetRow)
<1> DEFINE new == [i \in DOMAIN sets |-> SetAdded(sets[i])]
           m   == Cardinality(DOMAIN file.sets)
           place(s) == CHOOSE i \in DOMAIN sets : sets[i] = s
<1>1. /\ m \in Nat /\ sets \in [1 .. m -> DOMAIN file.sets]
      /\ \A s \in DOMAIN file.sets : \E i \in DOMAIN sets : sets[i] = s
      /\ \A i, j \in DOMAIN sets : sets[i] = sets[j] => i = j
  <2>1. PICK last \in Nat : DOMAIN file.sets \subseteq 1 .. last
    BY DEF SetsOK
  <2>2. last \in Nat /\ DOMAIN file.sets \in SUBSET (1 .. last)
    BY <2>1
  <2>3. /\ m \in Nat /\ sets \in [1 .. m -> DOMAIN file.sets]
        /\ \A i, j \in DOMAIN sets : sets[i] = sets[j] => i = j
    BY <2>2, NumberingsType
  <2>4. \A s \in DOMAIN file.sets : \E i \in DOMAIN sets : sets[i] = s
    BY DEF Numberings
  <2> QED BY <2>3, <2>4
<1>2. \A s \in DOMAIN file.sets : SetAdded(s) \in SetRow
  BY NewSetType DEF SetsOK, BackupRow, SetAdded
<1>3. new \in Seq(SetRow) /\ DOMAIN new = DOMAIN sets
  <2>1. new \in [1 .. m -> SetRow]
    BY <1>1, <1>2
  <2> HIDE DEF new, m
  <2>2. new \in Seq(SetRow)
    BY <1>1, <2>1, FunctionIsSeq
  <2> QED BY <2>2 DEF new
<1>4. \A i \in DOMAIN sets : new[i] = SetAdded(sets[i])
  OBVIOUS
<1>5. rrsets' = t.sets \o new
  BY DEF RestoredSets, SetAdded
<1>6. \A s \in DOMAIN file.sets : place(s) \in DOMAIN sets /\ sets[place(s)] = s
  BY <1>1
<1>7. \A s \in DOMAIN file.sets : num[s] = Len(t.sets) + place(s)
  BY DEF NumberOf
<1>8. t.sets \in Seq(SetRow) /\ Len(t.sets) \in Nat
  BY LenProperties DEF Prepared
<1> HIDE DEF new, m, place
<1>9. Followed(t.sets, new, rrsets') /\ rrsets' \in Seq(SetRow)
  BY <1>3, <1>5, <1>8, FollowedRows
<1>10. \A i \in DOMAIN t.sets : i \in DOMAIN rrsets' /\ rrsets'[i] = t.sets[i]
  BY <1>9 DEF Followed
<1>11. ASSUME NEW s \in DOMAIN file.sets
       PROVE  num[s] \in DOMAIN rrsets' \ DOMAIN t.sets /\ rrsets'[num[s]] = SetAdded(s)
  <2>1. place(s) \in DOMAIN new /\ new[place(s)] = SetAdded(s)
    BY <1>3, <1>4, <1>6
  <2> QED BY <1>7, <1>9, <2>1 DEF Followed
<1>12. ASSUME NEW i \in DOMAIN rrsets' \ DOMAIN t.sets
       PROVE  \E s \in DOMAIN file.sets : i = num[s]
  <2>1. PICK k \in DOMAIN new : i = Len(t.sets) + k
    BY <1>9 DEF Followed
  <2>2. sets[k] \in DOMAIN file.sets /\ k \in DOMAIN sets
    BY <1>1, <1>3, <2>1
  <2>3. place(sets[k]) = k
    BY <1>1, <1>6, <2>2
  <2> QED BY <1>7, <2>1, <2>2, <2>3
<1>13. ASSUME NEW s \in DOMAIN file.sets, NEW u \in DOMAIN file.sets, num[s] = num[u]
       PROVE  s = u
  <2>1. place(s) \in Nat /\ place(u) \in Nat
    BY <1>1, <1>6
  <2>2. Len(t.sets) + place(s) = Len(t.sets) + place(u)
    BY <1>7, <1>13
  <2>3. place(s) = place(u)
    BY <1>8, <2>1, <2>2
  <2> QED BY <1>6, <2>3
<1> QED BY <1>9, <1>10, <1>11, <1>12, <1>13 DEF SetsAdded

LEMMA RecordsAreAdded ==
    ASSUME FileOK(file), NEW t, Prepared(t), NEW sets, NEW num,
           num = [s \in DOMAIN file.sets |-> NumberOf(t, sets, s)],
           SetsAdded(t, num), rrsets' \in Seq(SetRow),
           NEW data \in Numberings(DOMAIN file.data),
           rdata' = RestoredData(t, sets, data)
    PROVE  RecordsAdded(t, num) /\ rdata' \in Seq(DataRow)
<1> DEFINE new == [i \in DOMAIN data |-> DataAdded(num, data[i])]
           m   == Cardinality(DOMAIN file.data)
<1>1. /\ m \in Nat /\ data \in [1 .. m -> DOMAIN file.data]
      /\ \A d \in DOMAIN file.data : \E i \in DOMAIN data : data[i] = d
  <2>1. PICK last \in Nat : DOMAIN file.data \subseteq 1 .. last
    BY DEF FileOK
  <2>2. last \in Nat /\ DOMAIN file.data \in SUBSET (1 .. last)
    BY <2>1
  <2>3. /\ m \in Nat /\ data \in [1 .. m -> DOMAIN file.data]
    BY <2>2, NumberingsType
  <2>4. \A d \in DOMAIN file.data : \E i \in DOMAIN data : data[i] = d
    BY DEF Numberings
  <2> QED BY <2>3, <2>4
<1>2. \A d \in DOMAIN file.data :
          file.data[d] \in [set : Nat, payload : Payload] /\ file.data[d].set \in DOMAIN file.sets
  BY DEF FileOK, FileRow
<1>3. ASSUME NEW d \in DOMAIN file.data PROVE DataAdded(num, d) \in DataRow
  <2>1. num[file.data[d].set] \in DOMAIN rrsets' /\ DOMAIN rrsets' = 1 .. Len(rrsets')
        /\ Len(rrsets') \in Nat
    BY <1>2, LenProperties DEF SetsAdded
  <2>2. num[file.data[d].set] \in Nat
    BY <2>1
  <2> QED BY <1>2, <2>2 DEF DataAdded, DataRow
<1>4. new \in Seq(DataRow) /\ DOMAIN new = DOMAIN data
  <2>1. new \in [1 .. m -> DataRow]
    BY <1>1, <1>3
  <2> HIDE DEF new, m
  <2>2. new \in Seq(DataRow)
    BY <1>1, <2>1, FunctionIsSeq
  <2> QED BY <2>2 DEF new
<1>5. \A i \in DOMAIN data : new[i] = DataAdded(num, data[i])
  OBVIOUS
<1>6. rdata' = t.data \o new
  <2>1. ASSUME NEW i \in DOMAIN data
        PROVE  [set |-> NumberOf(t, sets, file.data[data[i]].set),
                payload |-> file.data[data[i]].payload, live |-> TRUE] = new[i]
    <3>1. data[i] \in DOMAIN file.data
      BY <1>1
    <3>2. num[file.data[data[i]].set] = NumberOf(t, sets, file.data[data[i]].set)
      BY <1>2, <3>1
    <3> QED BY <3>2 DEF DataAdded
  <2>2. [i \in DOMAIN data |-> [set |-> NumberOf(t, sets, file.data[data[i]].set),
                                payload |-> file.data[data[i]].payload, live |-> TRUE]] = new
    BY <2>1
  <2> HIDE DEF new
  <2> QED BY <2>2 DEF RestoredData
<1> HIDE DEF new, m
<1>7. Followed(t.data, new, rdata') /\ rdata' \in Seq(DataRow)
  BY <1>4, <1>6, FollowedRows DEF Prepared
<1>8. ASSUME NEW d \in DOMAIN file.data
      PROVE  \E e \in DOMAIN rdata' \ DOMAIN t.data : rdata'[e] = DataAdded(num, d)
  <2>1. PICK i \in DOMAIN new : new[i] = DataAdded(num, d)
    BY <1>1, <1>4, <1>5
  <2> QED BY <1>7, <2>1 DEF Followed
<1>9. ASSUME NEW e \in DOMAIN rdata' \ DOMAIN t.data
      PROVE  \E d \in DOMAIN file.data : rdata'[e] = DataAdded(num, d)
  <2>1. PICK i \in DOMAIN new : rdata'[e] = new[i]
    BY <1>7 DEF Followed
  <2>2. data[i] \in DOMAIN file.data /\ new[i] = DataAdded(num, data[i])
    BY <1>1, <1>4, <1>5
  <2> QED BY <2>1, <2>2
<1>10. \A d \in DOMAIN t.data : d \in DOMAIN rdata' /\ rdata'[d] = t.data[d]
  BY <1>7 DEF Followed
<1> QED BY <1>7, <1>8, <1>9, <1>10 DEF RecordsAdded

(* An import adds the rows, numbered in the order of the backup.           *)
LEMMA RestoredAdds ==
    ASSUME FileOK(file), NEW t, Prepared(t), Restored(t)
    PROVE  /\ rrsets' \in Seq(SetRow) /\ rdata' \in Seq(DataRow)
           /\ \E num : Added(t, num)
<1>1. PICK sets \in Numberings(DOMAIN file.sets), data \in Numberings(DOMAIN file.data) :
          rrsets' = RestoredSets(t, sets) /\ rdata' = RestoredData(t, sets, data)
  <2>1. PICK n \in Nat : DOMAIN file.sets \in SUBSET (1 .. n)
    BY DEF FileOK, SetsOK
  <2>2. PICK k \in Nat : DOMAIN file.data \in SUBSET (1 .. k)
    BY DEF FileOK
  <2>3. /\ InOrder(DOMAIN file.sets) \in Numberings(DOMAIN file.sets)
        /\ InOrder(DOMAIN file.data) \in Numberings(DOMAIN file.data)
    BY <2>1, <2>2, InOrderNumbers
  <2> QED BY <2>3 DEF Restored
<1> DEFINE num == [s \in DOMAIN file.sets |-> NumberOf(t, sets, s)]
<1>2. num = [s \in DOMAIN file.sets |-> NumberOf(t, sets, s)]
  OBVIOUS
<1> HIDE DEF num
<1>3. SetsAdded(t, num) /\ rrsets' \in Seq(SetRow)
  BY <1>1, <1>2, SetsAreAdded DEF FileOK
<1>4. RecordsAdded(t, num) /\ rdata' \in Seq(DataRow)
  BY <1>1, <1>2, <1>3, RecordsAreAdded
<1> QED BY <1>3, <1>4 DEF Added

LEMMA PreparedTables ==
    ASSUME TablesOK, KeysUnique, DataRefs
    PROVE  Prepared(Emptied) /\ Prepared(Merged)
<1>1. Prepared(Emptied)
  <2>1. <<>> \in Seq(SetRow) /\ <<>> \in Seq(DataRow) /\ DOMAIN <<>> = {}
    BY EmptySeq
  <2>2. [z \in Zones |-> "absent"] \in [Zones -> ZoneState]
    BY DEF ZoneState
  <2> QED BY <2>1, <2>2 DEF Prepared, Emptied
<1>2. /\ Len(rrsets) \in Nat /\ DOMAIN rrsets = 1 .. Len(rrsets)
      /\ \A i \in DOMAIN rrsets : rrsets[i] \in SetRow
      /\ Len(rdata) \in Nat /\ DOMAIN rdata = 1 .. Len(rdata)
      /\ \A d \in DOMAIN rdata : rdata[d] \in DataRow
  BY ElementOfSeq, LenProperties DEF TablesOK
<1> DEFINE gone == {s \in DOMAIN rrsets : rrsets[s].live /\ rrsets[s].zone \in file.zones}
           sets == [s \in DOMAIN rrsets |-> [rrsets[s] EXCEPT !.live = @ /\ s \notin gone]]
           data == [d \in DOMAIN rdata |->
                      [rdata[d] EXCEPT !.live = @ /\ rdata[d].set \notin gone]]
<1>3. Merged = [zones |-> zones, sets |-> sets, data |-> data]
  BY DEF Merged
<1> HIDE DEF gone
<1>4. ASSUME NEW i \in DOMAIN rrsets
      PROVE  /\ sets[i] \in SetRow /\ sets[i].zone = rrsets[i].zone
             /\ sets[i].name = rrsets[i].name /\ sets[i].type = rrsets[i].type
  BY <1>2 DEF SetRow
<1>5. sets \in Seq(SetRow) /\ DOMAIN sets = DOMAIN rrsets
  <2>1. sets \in [1 .. Len(rrsets) -> SetRow]
    BY <1>2, <1>4
  <2> HIDE DEF sets
  <2> QED BY <1>2, <2>1, FunctionIsSeq
<1>6. ASSUME NEW d \in DOMAIN rdata
      PROVE  data[d] \in DataRow /\ data[d].set = rdata[d].set
  <2>1. rdata[d] \in [set : Nat, payload : Payload, live : BOOLEAN]
    BY <1>2 DEF DataRow
  <2> QED BY <2>1 DEF DataRow
<1>7. data \in Seq(DataRow) /\ DOMAIN data = DOMAIN rdata
  <2>1. data \in [1 .. Len(rdata) -> DataRow]
    BY <1>2, <1>6
  <2> HIDE DEF data
  <2> QED BY <1>2, <2>1, FunctionIsSeq
<1> HIDE DEF sets, data
<1>8. \A i, j \in DOMAIN sets :
          HasKey(sets[i], sets[j].zone, sets[j].name, sets[j].type) => i = j
  BY <1>4, <1>5 DEF KeysUnique, HasKey
<1>9. \A d \in DOMAIN data : data[d].set \in DOMAIN sets
  BY <1>5, <1>6, <1>7 DEF DataRefs
<1>10. Prepared([zones |-> zones, sets |-> sets, data |-> data])
  BY <1>5, <1>7, <1>8, <1>9 DEF Prepared, TablesOK
<1> QED BY <1>1, <1>3, <1>10

(* The tables that an import leaves are tables as handlers leave them.     *)
LEMMA AddedTables ==
    ASSUME FileOK(file), NEW t, Prepared(t), Creatable(t), Restored(t)
    PROVE  TablesOK' /\ KeysUnique' /\ DataRefs'
<1>1. PICK num : Added(t, num)
  BY RestoredAdds
<1>2. rrsets' \in Seq(SetRow) /\ rdata' \in Seq(DataRow)
  BY RestoredAdds
<1>3. zones' \in [Zones -> ZoneState]
  BY DEF Restored, Prepared, ZoneState
<1>4. SetsAdded(t, num) /\ RecordsAdded(t, num) /\ SetsOK(file)
  BY <1>1 DEF Added, FileOK
<1>5. \A s \in DOMAIN file.sets :
          /\ SetAdded(s).zone = file.sets[s].zone
          /\ SetAdded(s).name = file.sets[s].name
          /\ SetAdded(s).type = file.sets[s].type
  BY DEF SetAdded, NewSet
<1>6. ASSUME NEW i \in DOMAIN rrsets', NEW j \in DOMAIN rrsets',
             HasKey(rrsets'[i], rrsets'[j].zone, rrsets'[j].name, rrsets'[j].type)
      PROVE  i = j
  <2>1. CASE i \in DOMAIN t.sets /\ j \in DOMAIN t.sets
    BY <1>4, <1>6, <2>1 DEF SetsAdded, Prepared
  <2>2. ASSUME NEW k \in DOMAIN rrsets' \ DOMAIN t.sets
        PROVE  \E s \in DOMAIN file.sets :
                  /\ k = num[s] /\ rrsets'[k].zone = file.sets[s].zone
                  /\ rrsets'[k].name = file.sets[s].name /\ rrsets'[k].type = file.sets[s].type
    <3>1. PICK s \in DOMAIN file.sets : k = num[s]
      BY <1>4 DEF SetsAdded
    <3>2. rrsets'[k] = SetAdded(s)
      BY <1>4, <3>1 DEF SetsAdded
    <3> QED BY <1>5, <3>1, <3>2
  <2>3. ASSUME NEW a \in DOMAIN t.sets, NEW b \in DOMAIN rrsets' \ DOMAIN t.sets,
               rrsets'[a].zone = rrsets'[b].zone, rrsets'[a].name = rrsets'[b].name,
               rrsets'[a].type = rrsets'[b].type
        PROVE  FALSE
    <3>1. PICK s \in DOMAIN file.sets :
              /\ rrsets'[b].zone = file.sets[s].zone
              /\ rrsets'[b].name = file.sets[s].name /\ rrsets'[b].type = file.sets[s].type
      BY <2>2
    <3>2. rrsets'[a] = t.sets[a]
      BY <1>4 DEF SetsAdded
    <3> QED BY <2>3, <3>1, <3>2 DEF Creatable, HasKey
  <2>4. CASE i \notin DOMAIN t.sets /\ j \notin DOMAIN t.sets
    <3>1. PICK s \in DOMAIN file.sets :
              /\ i = num[s] /\ rrsets'[i].zone = file.sets[s].zone
              /\ rrsets'[i].name = file.sets[s].name /\ rrsets'[i].type = file.sets[s].type
      BY <2>2, <2>4
    <3>2. PICK u \in DOMAIN file.sets :
              /\ j = num[u] /\ rrsets'[j].zone = file.sets[u].zone
              /\ rrsets'[j].name = file.sets[u].name /\ rrsets'[j].type = file.sets[u].type
      BY <2>2, <2>4
    <3>3. HasKey(file.sets[s], file.sets[u].zone, file.sets[u].name, file.sets[u].type)
      BY <1>6, <3>1, <3>2 DEF HasKey
    <3> QED BY <1>4, <3>1, <3>2, <3>3 DEF SetsOK
  <2> QED BY <1>6, <2>1, <2>3, <2>4 DEF HasKey
<1>7. ASSUME NEW d \in DOMAIN rdata' PROVE rdata'[d].set \in DOMAIN rrsets'
  <2>1. CASE d \in DOMAIN t.data
    BY <1>4, <2>1 DEF SetsAdded, RecordsAdded, Prepared
  <2>2. CASE d \notin DOMAIN t.data
    <3>1. PICK e \in DOMAIN file.data : rdata'[d] = DataAdded(num, e)
      BY <1>4, <2>2 DEF RecordsAdded
    <3>2. rdata'[d].set = num[file.data[e].set] /\ file.data[e].set \in DOMAIN file.sets
      BY <3>1 DEF DataAdded, FileOK
    <3> QED BY <1>4, <3>2 DEF SetsAdded
  <2> QED BY <2>1, <2>2
<1>8. KeysUnique'
  BY <1>6 DEF KeysUnique, HasKey
<1> QED BY <1>2, <1>3, <1>7, <1>8 DEF TablesOK, DataRefs

LEMMA ImportTables ==
    ASSUME BackupInv, NEW mode, ImportBackup(mode)
    PROVE  TablesOK' /\ KeysUnique' /\ DataRefs'
<1> DEFINE t == IF mode = "replace" THEN Emptied ELSE Merged
<1>1. TablesOK /\ KeysUnique /\ DataRefs /\ FileOK(file)
  BY DEF BackupInv, StoreInv
<1>2. Prepared(t)
  BY <1>1, PreparedTables
<1>3. \/ Creatable(t) /\ Restored(t)
      \/ UNCHANGED <<zones, rrsets, rdata>>
  BY DEF ImportBackup, tables
<1> HIDE DEF t
<1>4. CASE UNCHANGED <<zones, rrsets, rdata>>
  BY <1>1, <1>4 DEF TablesOK, KeysUnique, HasKey, DataRefs
<1> QED BY <1>1, <1>2, <1>3, <1>4, AddedTables

-----------------------------------------------------------------------------
(***************************************************************************)
(* The invariant.                                                          *)
(***************************************************************************)
(* The backups that the operator has.                                      *)
LEMMA WholeBackupOK == ASSUME TablesOK, KeysUnique PROVE FileOK(WholeBackup)
<1> DEFINE zs == {z \in Zones : zones[z] = "live"}
           b  == [zones |-> zs, sets |-> BackupSets(zs), data |-> <<>>]
<1>1. SetsOK(b) /\ DOMAIN BackupSets(zs) \subseteq DOMAIN rrsets
  BY ReadSetsOK
<1>2. b.zones = zs /\ b.sets = BackupSets(zs)
  OBVIOUS
<1>3. WholeBackup = [zones |-> zs, sets |-> BackupSets(zs),
                     data |-> BackupData(DOMAIN BackupSets(zs))]
  BY DEF WholeBackup
<1> HIDE DEF b, zs
<1> QED BY <1>1, <1>2, <1>3, ReadDataOK

LEMMA BackupsOK == ASSUME NEW b \in Backups PROVE FileOK(b)
<1>1. /\ b.zones \subseteq Zones /\ b.sets \in Seq(BackupRow) /\ b.data \in Seq(FileRow)
      /\ \A s \in DOMAIN b.sets : b.sets[s].zone \in b.zones
      /\ \A s, u \in DOMAIN b.sets :
            HasKey(b.sets[s], b.sets[u].zone, b.sets[u].name, b.sets[u].type) => s = u
      /\ \A d \in DOMAIN b.data : b.data[d].set \in DOMAIN b.sets
  BY BackupAssumption
<1>2. /\ Len(b.sets) \in Nat /\ DOMAIN b.sets = 1 .. Len(b.sets)
      /\ Len(b.data) \in Nat /\ DOMAIN b.data = 1 .. Len(b.data)
  BY <1>1, LenProperties
<1>3. /\ \A s \in DOMAIN b.sets : b.sets[s] \in BackupRow
      /\ \A d \in DOMAIN b.data : b.data[d] \in FileRow
  BY <1>1, <1>2, ElementOfSeq
<1>4. /\ \E n \in Nat : DOMAIN b.sets \subseteq 1 .. n
      /\ \E n \in Nat : DOMAIN b.data \subseteq 1 .. n
  BY <1>2
<1>5. SetsOK(b)
  BY <1>1, <1>3, <1>4 DEF SetsOK
<1> QED BY <1>1, <1>3, <1>4, <1>5 DEF FileOK

LEMMA BackupInvInit == BackupInit => BackupInv
<1> SUFFICES ASSUME BackupInit PROVE BackupInv
  OBVIOUS
<1>1. StoreInit /\ file \in Backups \cup {WholeBackup}
  BY DEF BackupInit
<1>2. StoreInv /\ RowsFound /\ DataRefs /\ InsertsKnown
  BY <1>1, StoreInvInit, RowsFoundInit, RecordsInvInit DEF RecordsInv
<1>3. Loading
  BY DEF BackupInit, Loading, IsBackup, NoBackup
<1>4. FileOK(file)
  BY <1>1, <1>2, WholeBackupOK, BackupsOK DEF StoreInv
<1> QED BY <1>2, <1>3, <1>4 DEF BackupInv

LEMMA BackupInvStep == BackupInv /\ [BackupNext]_<<storeVars, backupVars>> => BackupInv'
<1> SUFFICES ASSUME BackupInv, [BackupNext]_<<storeVars, backupVars>> PROVE BackupInv'
  OBVIOUS
<1> USE DEF BackupInv
<1>1. ASSUME UNCHANGED <<file, loaded, command>>, RowsKept \/ command = "none"
      PROVE  FileOK(file)' /\ Loading'
  <2>1. FileOK(file)'
    BY <1>1 DEF FileOK, SetsOK, HasKey
  <2>2. command = "exportData" => DOMAIN loaded.sets \subseteq DOMAIN rrsets'
    BY <1>1 DEF Loading, RowsKept
  <2>3. SetsOK(loaded) => SetsOK(loaded)'
    BY <1>1 DEF SetsOK, HasKey
  <2> QED BY <1>1, <2>1, <2>2, <2>3 DEF Loading, IsBackup
<1>2. ASSUME [StoreNext]_storeVars
      PROVE  StoreInv' /\ RowsFound' /\ DataRefs' /\ InsertsKnown' /\ RowsKept
  BY <1>2, StoreInvStep, RowsFoundStep, DataRefsStep, InsertsKnownStep, RowsKeptStep
<1>3. CASE UNCHANGED <<storeVars, backupVars>>
  <2>1. UNCHANGED storeVars /\ UNCHANGED <<file, loaded, command>>
    BY <1>3 DEF backupVars
  <2> QED BY <1>1, <1>2, <2>1
<1>4. CASE StoreNext /\ UNCHANGED backupVars
  BY <1>1, <1>2, <1>4 DEF backupVars
<1>5. CASE ExportStep /\ UNCHANGED storeVars
  BY <1>2, <1>5, ExportSteps
<1>6. ASSUME NEW mode, ImportBackup(mode) PROVE BackupInv'
  <2>1. TablesOK' /\ KeysUnique' /\ DataRefs'
    BY <1>6, ImportTables
  <2>2. UNCHANGED handlers /\ UNCHANGED <<issued, faults>> /\ UNCHANGED <<file, loaded, command>>
    BY <1>6 DEF ImportBackup
  <2>3. HandlersOK' /\ CountersOK'
    BY <2>2 DEF StoreInv, HandlersOK, CountersOK, handlers
  <2>4. \A h \in Handlers : pc'[h] = "idle"
    BY <1>6, <2>2 DEF ImportBackup, handlers
  <2>5. RowsFound' /\ InsertsKnown'
    BY <2>4 DEF RowsFound, InsertsKnown
  <2>6. FileOK(file)' /\ Loading'
    BY <1>1, <1>6, <2>2 DEF ImportBackup
  <2> QED BY <2>1, <2>3, <2>5, <2>6 DEF StoreInv
<1> QED BY <1>3, <1>4, <1>5, <1>6 DEF BackupNext

LEMMA BackupInvAlways == BackupSpec => []BackupInv
  BY BackupInvInit, BackupInvStep, PTL DEF BackupSpec

-----------------------------------------------------------------------------
(***************************************************************************)
(* What an import makes of each zone.                                      *)
(***************************************************************************)
PayloadsOf(s)   == {rdata[d].payload : d \in LiveData(s)}
FilePayloads(s) == {file.data[d].payload : d \in {e \in DOMAIN file.data : file.data[e].set = s}}

\* The tables t have no live rrset of zone z.
Vacant(t, z) == \A i \in DOMAIN t.sets : t.sets[i].live => t.sets[i].zone # z

\* An rrset of the backup, where it has been added.
LEMMA AddedContent ==
    ASSUME FileOK(file), NEW t, Prepared(t), NEW num, Added(t, num), NEW s \in DOMAIN file.sets
    PROVE  /\ rrsets'[num[s]].live /\ rrsets'[num[s]].zone = file.sets[s].zone
           /\ num[s] \in DOMAIN rrsets' /\ num[s] \notin DOMAIN t.sets
           /\ SetColumns(rrsets'[num[s]]) = file.sets[s]
           /\ PayloadsOf(num[s])' = FilePayloads(s)
<1>1. num[s] \in DOMAIN rrsets' \ DOMAIN t.sets /\ rrsets'[num[s]] = SetAdded(s)
  BY DEF Added, SetsAdded
<1>2. file.sets[s] \in [zone : Zones, name : Owners, type : Types, ttl : Nat]
  BY DEF FileOK, SetsOK, BackupRow
<1>3. /\ rrsets'[num[s]].live /\ rrsets'[num[s]].zone = file.sets[s].zone
      /\ SetColumns(rrsets'[num[s]]) = file.sets[s]
  BY <1>1, <1>2 DEF SetAdded, NewSet, SetColumns
<1> DEFINE n == num[s]
<1>4. n = num[s]
  OBVIOUS
<1> HIDE DEF n
<1>5. ASSUME NEW p
      PROVE  (\E d \in DOMAIN rdata' : rdata'[d].live /\ rdata'[d].set = n /\ rdata'[d].payload = p)
             <=> \E d \in DOMAIN file.data : file.data[d].set = s /\ file.data[d].payload = p
  <2>1. ASSUME NEW d \in DOMAIN rdata', rdata'[d].set = n, rdata'[d].payload = p
        PROVE  \E e \in DOMAIN file.data : file.data[e].set = s /\ file.data[e].payload = p
    <3>1. d \notin DOMAIN t.data
      BY <1>1, <1>4, <2>1 DEF Added, RecordsAdded, Prepared
    <3>2. PICK e \in DOMAIN file.data : rdata'[d] = DataAdded(num, e)
      BY <3>1 DEF Added, RecordsAdded
    <3>3. num[file.data[e].set] = num[s] /\ file.data[e].payload = p
          /\ file.data[e].set \in DOMAIN file.sets
      BY <1>4, <2>1, <3>2 DEF DataAdded, FileOK
    <3>4. file.data[e].set = s
      BY <3>3 DEF Added, SetsAdded
    <3> QED BY <3>3, <3>4
  <2>2. ASSUME NEW d \in DOMAIN file.data, file.data[d].set = s, file.data[d].payload = p
        PROVE  \E e \in DOMAIN rdata' : rdata'[e].live /\ rdata'[e].set = n /\ rdata'[e].payload = p
    <3>1. PICK e \in DOMAIN rdata' \ DOMAIN t.data : rdata'[e] = DataAdded(num, d)
      BY DEF Added, RecordsAdded
    <3>2. rdata'[e].live /\ rdata'[e].set = n /\ rdata'[e].payload = p
      BY <1>4, <2>2, <3>1 DEF DataAdded
    <3> QED BY <3>2
  <2> QED BY <2>1, <2>2
<1>6. PayloadsOf(n)' = FilePayloads(s)
  BY <1>5 DEF PayloadsOf, LiveData, FilePayloads
<1> QED BY <1>1, <1>3, <1>4, <1>6

LEMMA InContent ==
    ASSUME NEW z, NEW c
    PROVE  /\ c \in FileContent(z) <=>
                \E s \in DOMAIN file.sets :
                    file.sets[s].zone = z /\ c = <<file.sets[s], FilePayloads(s)>>
           /\ c \in ZoneContent(z) <=>
                \E i \in DOMAIN rrsets :
                    /\ rrsets[i].live /\ rrsets[i].zone = z
                    /\ c = <<SetColumns(rrsets[i]), PayloadsOf(i)>>
           /\ c \in ZoneContent(z)' <=>
                \E i \in DOMAIN rrsets' :
                    /\ rrsets'[i].live /\ rrsets'[i].zone = z
                    /\ c = <<SetColumns(rrsets'[i]), PayloadsOf(i)'>>
  BY Zenon DEF FileContent, ZoneContent, FilePayloads, PayloadsOf

(* A zone with no other live rrset has what the backup has.                *)
LEMMA VacantContent ==
    ASSUME FileOK(file), NEW t, Prepared(t), NEW num, Added(t, num), NEW z, Vacant(t, z)
    PROVE  ZoneContent(z)' = FileContent(z)
<1>1. ASSUME NEW c, c \in ZoneContent(z)' PROVE c \in FileContent(z)
  <2>1. PICK i \in DOMAIN rrsets' :
            /\ rrsets'[i].live /\ rrsets'[i].zone = z
            /\ c = <<SetColumns(rrsets'[i]), PayloadsOf(i)'>>
    BY <1>1, InContent
  <2>2. i \notin DOMAIN t.sets
    BY <2>1 DEF Vacant, Added, SetsAdded
  <2>3. PICK s \in DOMAIN file.sets : i = num[s]
    BY <2>2 DEF Added, SetsAdded
  <2>4. /\ file.sets[s].zone = z /\ SetColumns(rrsets'[num[s]]) = file.sets[s]
        /\ PayloadsOf(num[s])' = FilePayloads(s)
    BY <2>1, <2>3, AddedContent
  <2>5. PayloadsOf(i)' = PayloadsOf(num[s])'
    BY <2>3
  <2>6. c = <<file.sets[s], FilePayloads(s)>>
    BY <2>1, <2>3, <2>4, <2>5
  <2> QED BY <2>4, <2>6, InContent
<1>2. ASSUME NEW c, c \in FileContent(z) PROVE c \in ZoneContent(z)'
  <2>1. PICK s \in DOMAIN file.sets :
            file.sets[s].zone = z /\ c = <<file.sets[s], FilePayloads(s)>>
    BY <1>2, InContent
  <2>2. /\ rrsets'[num[s]].live /\ rrsets'[num[s]].zone = z /\ num[s] \in DOMAIN rrsets'
        /\ SetColumns(rrsets'[num[s]]) = file.sets[s]
        /\ PayloadsOf(num[s])' = FilePayloads(s)
    BY <2>1, AddedContent
  <2> DEFINE i == num[s]
  <2>3. /\ i \in DOMAIN rrsets' /\ rrsets'[i].live /\ rrsets'[i].zone = z
        /\ c = <<SetColumns(rrsets'[i]), PayloadsOf(i)'>>
    BY <2>1, <2>2
  <2> HIDE DEF i
  <2> QED BY <2>3, InContent
<1> QED BY <1>1, <1>2

(* A merge leaves nothing of the backup's zones, and all of the others.    *)
LEMMA MergedVacant ==
    ASSUME TablesOK, NEW z \in file.zones
    PROVE  Vacant(Merged, z)
<1> DEFINE gone == {s \in DOMAIN rrsets : rrsets[s].live /\ rrsets[s].zone \in file.zones}
<1>1. \A i \in DOMAIN rrsets :
          rrsets[i] \in [zone : Zones, name : Owners, type : Types, ttl : Nat, live : BOOLEAN]
  BY ElementOfSeq, LenProperties DEF TablesOK, SetRow
<1>2. Merged.sets = [s \in DOMAIN rrsets |-> [rrsets[s] EXCEPT !.live = @ /\ s \notin gone]]
  BY DEF Merged
<1>3. ASSUME NEW i \in DOMAIN rrsets, Merged.sets[i].live PROVE Merged.sets[i].zone # z
  <2>1. Merged.sets[i] = [rrsets[i] EXCEPT !.live = @ /\ i \notin gone]
    BY <1>2
  <2> HIDE DEF gone
  <2>2. Merged.sets[i].zone = rrsets[i].zone /\ rrsets[i].live /\ i \notin gone
    BY <1>1, <1>3, <2>1
  <2> QED BY <2>2 DEF gone
<1> QED BY <1>2, <1>3 DEF Vacant

LEMMA OtherContent ==
    ASSUME TablesOK, DataRefs, FileOK(file), Prepared(Merged), NEW num, Added(Merged, num),
           NEW z, z \notin file.zones
    PROVE  ZoneContent(z)' = ZoneContent(z)
<1> DEFINE gone == {s \in DOMAIN rrsets : rrsets[s].live /\ rrsets[s].zone \in file.zones}
<1>1. /\ \A i \in DOMAIN rrsets : rrsets[i] \in SetRow
      /\ \A d \in DOMAIN rdata : rdata[d] \in [set : Nat, payload : Payload, live : BOOLEAN]
  BY ElementOfSeq, LenProperties DEF TablesOK, DataRow
<1>2. /\ Merged.sets = [s \in DOMAIN rrsets |-> [rrsets[s] EXCEPT !.live = @ /\ s \notin gone]]
      /\ Merged.data = [d \in DOMAIN rdata |->
                           [rdata[d] EXCEPT !.live = @ /\ rdata[d].set \notin gone]]
  BY DEF Merged
<1>3. ASSUME NEW i \in DOMAIN rrsets
      PROVE  /\ i \in DOMAIN rrsets' /\ rrsets'[i].zone = rrsets[i].zone
             /\ SetColumns(rrsets'[i]) = SetColumns(rrsets[i])
             /\ rrsets'[i].live <=> rrsets[i].live /\ i \notin gone
  <2>1. rrsets'[i] = [rrsets[i] EXCEPT !.live = @ /\ i \notin gone] /\ i \in DOMAIN rrsets'
    BY <1>2 DEF Added, SetsAdded
  <2> HIDE DEF gone
  <2>2. rrsets[i] \in [zone : Zones, name : Owners, type : Types, ttl : Nat, live : BOOLEAN]
    BY <1>1 DEF SetRow
  <2> QED BY <2>1, <2>2 DEF SetColumns
<1>4. ASSUME NEW d \in DOMAIN rdata
      PROVE  /\ d \in DOMAIN rdata' /\ rdata'[d].set = rdata[d].set
             /\ rdata'[d].payload = rdata[d].payload
             /\ rdata'[d].live <=> rdata[d].live /\ rdata[d].set \notin gone
  <2>1. /\ rdata'[d] = [rdata[d] EXCEPT !.live = @ /\ rdata[d].set \notin gone]
        /\ d \in DOMAIN rdata'
    BY <1>2 DEF Added, RecordsAdded
  <2> HIDE DEF gone
  <2> QED BY <1>1, <2>1
<1>5. ASSUME NEW i \in DOMAIN rrsets' \ DOMAIN rrsets PROVE rrsets'[i].zone # z
  <2>1. PICK s \in DOMAIN file.sets : i = num[s] /\ rrsets'[num[s]] = SetAdded(s)
    BY <1>2 DEF Added, SetsAdded
  <2>2. rrsets'[i].zone = file.sets[s].zone /\ file.sets[s].zone \in file.zones
    BY <2>1 DEF SetAdded, NewSet, FileOK, SetsOK
  <2> QED BY <2>2
<1>6. ASSUME NEW d \in DOMAIN rdata' \ DOMAIN rdata PROVE rdata'[d].set \notin DOMAIN rrsets
  <2>1. PICK e \in DOMAIN file.data : rdata'[d] = DataAdded(num, e)
    BY <1>2 DEF Added, RecordsAdded
  <2>2. rdata'[d].set = num[file.data[e].set] /\ file.data[e].set \in DOMAIN file.sets
    BY <2>1 DEF DataAdded, FileOK
  <2> QED BY <1>2, <2>2 DEF Added, SetsAdded
<1>7. ASSUME NEW i \in DOMAIN rrsets, i \notin gone PROVE PayloadsOf(i)' = PayloadsOf(i)
  <2> HIDE DEF gone
  <2>1. ASSUME NEW p
        PROVE  (\E d \in DOMAIN rdata' :
                    rdata'[d].live /\ rdata'[d].set = i /\ rdata'[d].payload = p)
               <=> \E d \in DOMAIN rdata :
                    rdata[d].live /\ rdata[d].set = i /\ rdata[d].payload = p
    BY <1>4, <1>6, <1>7
  <2> QED BY <2>1 DEF PayloadsOf, LiveData
<1>8. \A i \in DOMAIN rrsets : rrsets[i].zone = z => i \notin gone
  OBVIOUS
<1> HIDE DEF gone
<1>9. ASSUME NEW c PROVE c \in ZoneContent(z)' <=> c \in ZoneContent(z)
  <2>1. ASSUME c \in ZoneContent(z) PROVE c \in ZoneContent(z)'
    <3>1. PICK i \in DOMAIN rrsets : /\ rrsets[i].live /\ rrsets[i].zone = z
                                     /\ c = <<SetColumns(rrsets[i]), PayloadsOf(i)>>
      BY <2>1, InContent
    <3>2. /\ i \in DOMAIN rrsets' /\ rrsets'[i].live /\ rrsets'[i].zone = z
          /\ c = <<SetColumns(rrsets'[i]), PayloadsOf(i)'>>
      BY <1>3, <1>7, <1>8, <3>1
    <3> QED BY <3>2, InContent
  <2>2. ASSUME c \in ZoneContent(z)' PROVE c \in ZoneContent(z)
    <3>1. PICK i \in DOMAIN rrsets' : /\ rrsets'[i].live /\ rrsets'[i].zone = z
                                      /\ c = <<SetColumns(rrsets'[i]), PayloadsOf(i)'>>
      BY <2>2, InContent
    <3>2. i \in DOMAIN rrsets
      BY <1>5, <3>1
    <3>3. /\ rrsets[i].live /\ rrsets[i].zone = z
          /\ c = <<SetColumns(rrsets[i]), PayloadsOf(i)>>
      BY <1>3, <1>7, <1>8, <3>1, <3>2
    <3> QED BY <3>2, <3>3, InContent
  <2> QED BY <2>1, <2>2
<1> QED BY <1>9

LEMMA ReplaceStep ==
    ASSUME BackupInv, ImportBackup("replace"), readable, NEW z \in Zones
    PROVE  /\ zones'[z] = (IF z \in file.zones THEN "live" ELSE "absent")
           /\ ZoneContent(z)' = FileContent(z)
<1>1. TablesOK /\ KeysUnique /\ DataRefs /\ FileOK(file)
  BY DEF BackupInv, StoreInv
<1>2. /\ Emptied.zones = [y \in Zones |-> "absent"]
      /\ DOMAIN Emptied.sets = {}
  BY DEF Emptied
<1>3. Creatable(Emptied) /\ Vacant(Emptied, z)
  BY <1>1, <1>2 DEF Creatable, Vacant, FileOK, SetsOK
<1>4. Restored(Emptied)
  BY <1>3 DEF ImportBackup
<1>5. zones' = [y \in Zones |-> IF y \in file.zones THEN "live" ELSE Emptied.zones[y]]
  BY <1>4 DEF Restored
<1>6. Prepared(Emptied)
  BY <1>1, PreparedTables
<1>7. PICK num : Added(Emptied, num)
  BY <1>1, <1>4, <1>6, RestoredAdds
<1> QED BY <1>1, <1>2, <1>3, <1>5, <1>6, <1>7, VacantContent

(* A merge finds in its way what was there before it.                      *)
LEMMA MergeCreates ==
    ASSUME TablesOK, FileOK(file)
    PROVE  Creatable(Merged) <=> ~InTheWay
<1> DEFINE gone == {s \in DOMAIN rrsets : rrsets[s].live /\ rrsets[s].zone \in file.zones}
<1>1. \A i \in DOMAIN rrsets :
          rrsets[i] \in [zone : Zones, name : Owners, type : Types, ttl : Nat, live : BOOLEAN]
  BY ElementOfSeq, LenProperties DEF TablesOK, SetRow
<1>2. /\ Merged.sets = [s \in DOMAIN rrsets |-> [rrsets[s] EXCEPT !.live = @ /\ s \notin gone]]
      /\ Merged.zones = zones
  BY DEF Merged
<1> HIDE DEF gone
<1>3. DOMAIN Merged.sets = DOMAIN rrsets
  BY <1>2
<1>4. ASSUME NEW i \in DOMAIN rrsets, NEW s \in DOMAIN file.sets
      PROVE  HasKey(Merged.sets[i], file.sets[s].zone, file.sets[s].name, file.sets[s].type)
             <=> HasKey(rrsets[i], file.sets[s].zone, file.sets[s].name, file.sets[s].type)
  <2>1. Merged.sets[i] = [rrsets[i] EXCEPT !.live = @ /\ i \notin gone]
    BY <1>2
  <2>2. /\ Merged.sets[i].zone = rrsets[i].zone /\ Merged.sets[i].name = rrsets[i].name
        /\ Merged.sets[i].type = rrsets[i].type
    BY <1>1, <2>1
  <2> QED BY <2>2 DEF HasKey
<1>5. (\A z \in file.zones : Merged.zones[z] # "deleted")
      <=> ~\E z \in file.zones : zones[z] = "deleted"
  BY <1>2
<1>6. (\A s \in DOMAIN file.sets, i \in DOMAIN Merged.sets :
          ~HasKey(Merged.sets[i], file.sets[s].zone, file.sets[s].name, file.sets[s].type))
      <=> ~\E s \in DOMAIN file.sets :
              KeyTaken(file.sets[s].zone, file.sets[s].name, file.sets[s].type)
  BY <1>3, <1>4 DEF KeyTaken
<1> QED BY <1>5, <1>6 DEF Creatable, InTheWay

LEMMA MergeStep ==
    ASSUME BackupInv, ImportBackup("merge"), readable
    PROVE  IF InTheWay
           THEN UNCHANGED tables
           ELSE \A z \in Zones :
                   IF z \in file.zones
                   THEN zones'[z] = "live" /\ ZoneContent(z)' = FileContent(z)
                   ELSE zones'[z] = zones[z] /\ ZoneContent(z)' = ZoneContent(z)
<1>1. TablesOK /\ KeysUnique /\ DataRefs /\ FileOK(file)
  BY DEF BackupInv, StoreInv
<1>2. Creatable(Merged) <=> ~InTheWay
  BY <1>1, MergeCreates
<1>3. CASE InTheWay
  BY <1>2, <1>3 DEF ImportBackup
<1>4. ASSUME ~InTheWay, NEW z \in Zones
      PROVE  IF z \in file.zones
             THEN zones'[z] = "live" /\ ZoneContent(z)' = FileContent(z)
             ELSE zones'[z] = zones[z] /\ ZoneContent(z)' = ZoneContent(z)
  <2>1. Restored(Merged)
    BY <1>2, <1>4 DEF ImportBackup
  <2>2. zones' = [y \in Zones |-> IF y \in file.zones THEN "live" ELSE zones[y]]
    BY <2>1 DEF Restored, Merged
  <2>3. Prepared(Merged)
    BY <1>1, PreparedTables
  <2>4. PICK num : Added(Merged, num)
    BY <1>1, <2>1, <2>3, RestoredAdds
  <2>5. CASE z \in file.zones
    BY <1>1, <2>2, <2>3, <2>4, <2>5, MergedVacant, VacantContent
  <2>6. CASE z \notin file.zones
    BY <1>1, <2>2, <2>3, <2>4, <2>6, OtherContent
  <2> QED BY <2>5, <2>6
<1> QED BY <1>3, <1>4

(* A replace leaves the zones of the backup with what the backup has for   *)
(* them, and nothing else, whatever the database had become and however    *)
(* the export overlapped requests.                                         *)
THEOREM ReplaceAlwaysRestores == BackupSpec => ReplaceRestores
<1>1. BackupInv => (ImportBackup("replace") /\ readable =>
          /\ \A z \in Zones : zones'[z] = (IF z \in file.zones THEN "live" ELSE "absent")
          /\ \A z \in Zones : ZoneContent(z)' = FileContent(z))
  BY ReplaceStep
<1> QED BY <1>1, BackupInvAlways, PTL DEF ReplaceRestores

(* docs/BACKUP.md:99 has a merge replace the records of a zone that        *)
(* exists.  It brings nothing at all when one rrset of the backup has the  *)
(* key of any row, be it deleted, even by the merge itself, or one of its  *)
(* zones is deleted; and else all that the backup has for its zones, with  *)
(* the other zones left as they are.                                       *)
THEOREM MergesBringOnlyNew == BackupSpec => MergeBringsOnlyNew
<1>1. BackupInv => (ImportBackup("merge") /\ readable =>
          IF InTheWay
          THEN UNCHANGED tables
          ELSE \A z \in Zones :
                  IF z \in file.zones
                  THEN zones'[z] = "live" /\ ZoneContent(z)' = FileContent(z)
                  ELSE zones'[z] = zones[z] /\ ZoneContent(z)' = ZoneContent(z))
  BY MergeStep
<1> QED BY <1>1, BackupInvAlways, PTL DEF MergeBringsOnlyNew

(* Beside exports and imports too, rows have their types; and an export in *)
(* three queries that others' changes come between still writes a file in  *)
(* which each record has its rrset and each rrset its zone.                *)
THEOREM BackupTyped == BackupSpec => [](StoreTypeOK /\ FileOK(file))
<1>1. BackupInv => StoreTypeOK /\ FileOK(file)
  BY DEF BackupInv, StoreInv, TablesOK, HandlersOK, CountersOK, StoreTypeOK
<1> QED BY <1>1, BackupInvAlways, PTL

-----------------------------------------------------------------------------
(***************************************************************************)
(* The records of an rrset, in the database and in the file, under the     *)
(* conditions of RecordsStayTogether.                                      *)
(***************************************************************************)
FileTexts(s) == {file.data[d].payload.data : d \in {e \in DOMAIN file.data : file.data[e].set = s}}

\* The rows of t are rows of the tables, with no record more.
Within(t) ==
    /\ DOMAIN t.sets \subseteq DOMAIN rrsets
    /\ \A d \in DOMAIN t.data :
          /\ d \in DOMAIN rdata /\ t.data[d].set = rdata[d].set
          /\ t.data[d].payload = rdata[d].payload
          /\ t.data[d].live => rdata[d].live

LEMMA PreparedWithin == ASSUME TablesOK PROVE Within(Emptied) /\ Within(Merged)
<1>1. Within(Emptied)
  BY DEF Within, Emptied
<1> DEFINE gone == {s \in DOMAIN rrsets : rrsets[s].live /\ rrsets[s].zone \in file.zones}
<1>2. \A d \in DOMAIN rdata : rdata[d] \in [set : Nat, payload : Payload, live : BOOLEAN]
  BY ElementOfSeq, LenProperties DEF TablesOK, DataRow
<1>3. /\ DOMAIN Merged.sets = DOMAIN rrsets
      /\ Merged.data = [d \in DOMAIN rdata |->
                           [rdata[d] EXCEPT !.live = @ /\ rdata[d].set \notin gone]]
  BY DEF Merged
<1> HIDE DEF gone
<1>4. ASSUME NEW d \in DOMAIN rdata
      PROVE  /\ Merged.data[d].set = rdata[d].set
             /\ Merged.data[d].payload = rdata[d].payload
             /\ Merged.data[d].live => rdata[d].live
  BY <1>2, <1>3
<1> QED BY <1>1, <1>3, <1>4 DEF Within

LEMMA AddedTexts ==
    ASSUME FileOK(file), NEW t, Prepared(t), Within(t), NEW num, Added(t, num),
           AllOfOneRequest, BackupOfOneRequest, NEW i \in DOMAIN rrsets'
    PROVE  FromOneRequest(Texts(i)')
<1>1. CASE i \in DOMAIN t.sets
  <2>1. ASSUME NEW x, x \in Texts(i)' PROVE x \in Texts(i)
    <3>1. PICK d \in DOMAIN rdata' :
              rdata'[d].live /\ rdata'[d].set = i /\ rdata'[d].payload.data = x
      BY <2>1, InTexts
    <3>2. d \in DOMAIN t.data
      <4>1. SUFFICES ASSUME d \notin DOMAIN t.data PROVE FALSE
        OBVIOUS
      <4>2. PICK e \in DOMAIN file.data : rdata'[d] = DataAdded(num, e)
        BY <4>1 DEF Added, RecordsAdded
      <4>3. i = num[file.data[e].set] /\ file.data[e].set \in DOMAIN file.sets
        BY <3>1, <4>2 DEF DataAdded, FileOK
      <4> QED BY <1>1, <4>3 DEF Added, SetsAdded
    <3>3. d \in DOMAIN rdata /\ rdata[d].live /\ rdata[d].set = i /\ rdata[d].payload.data = x
      BY <3>1, <3>2 DEF Within, Added, RecordsAdded
    <3> QED BY <3>3, InTexts
  <2>2. i \in DOMAIN rrsets
    BY <1>1 DEF Within
  <2>3. PICK T \in TextsOfOneRequest : Texts(i) \ WebTexts \subseteq T
    BY <2>2 DEF AllOfOneRequest, FromOneRequest
  <2>4. Texts(i)' \ WebTexts \subseteq T
    BY <2>1, <2>3
  <2> QED BY <2>4 DEF FromOneRequest
<1>2. CASE i \notin DOMAIN t.sets
  <2>1. PICK s \in DOMAIN file.sets : i = num[s]
    BY <1>2 DEF Added, SetsAdded
  <2>2. PayloadsOf(num[s])' = FilePayloads(s)
    BY AddedContent
  <2>3. PayloadsOf(i)' = PayloadsOf(num[s])'
    BY <2>1
  <2>4. PayloadsOf(i)' = FilePayloads(s)
    BY <2>2, <2>3
  <2>5. Texts(i)' = {p.data : p \in PayloadsOf(i)'}
    BY DEF Texts, PayloadsOf
  <2>6. FileTexts(s) = {p.data : p \in FilePayloads(s)}
    BY DEF FileTexts, FilePayloads
  <2>7. FromOneRequest(FileTexts(s))
    BY DEF BackupOfOneRequest, BackupTexts, FileTexts
  <2> QED BY <2>4, <2>5, <2>6, <2>7
<1> QED BY <1>1, <1>2

(* What an export writes is what the tables have as it reads the records.  *)
LEMMA ExportTexts ==
    ASSUME BackupInv, AllOfOneRequest, ExportData, NEW s \in DOMAIN file'.sets
    PROVE  FromOneRequest(FileTexts(s)')
<1>1. /\ file'.sets = loaded.sets
      /\ file'.data = BackupData(DOMAIN loaded.sets)
      /\ DOMAIN loaded.sets \subseteq DOMAIN rrsets
  <2>1. /\ loaded = [zones |-> loaded.zones, sets |-> loaded.sets, data |-> loaded.data]
        /\ command = "exportData"
        /\ file' = [loaded EXCEPT !.data = BackupData(DOMAIN loaded.sets)]
        /\ DOMAIN loaded.sets \subseteq DOMAIN rrsets
    BY DEF ExportData, BackupInv, Loading, IsBackup
  <2> QED BY <2>1
<1> DEFINE data == file'.data
<1>2. /\ DOMAIN data = UNION {LiveData(u) : u \in DOMAIN loaded.sets}
      /\ \A d \in DOMAIN data : /\ data[d].set = rdata[d].set
                                /\ data[d].payload = rdata[d].payload
  BY <1>1 DEF BackupData
<1>3. data = file'.data
  OBVIOUS
<1> HIDE DEF data
<1>4. ASSUME NEW x, x \in FileTexts(s)' PROVE x \in Texts(s)
  <2>1. PICK d \in DOMAIN data : data[d].set = s /\ x = data[d].payload.data
    BY <1>3, <1>4 DEF FileTexts
  <2>2. PICK u : d \in LiveData(u)
    BY <1>2, <2>1
  <2>3. d \in DOMAIN rdata /\ rdata[d].live /\ rdata[d].set = s /\ rdata[d].payload.data = x
    BY <1>2, <2>1, <2>2 DEF LiveData
  <2> QED BY <2>3, InTexts
<1>5. PICK T \in TextsOfOneRequest : Texts(s) \ WebTexts \subseteq T
  BY <1>1 DEF AllOfOneRequest, FromOneRequest
<1>6. FileTexts(s)' \ WebTexts \subseteq T
  BY <1>4, <1>5
<1> QED BY <1>6 DEF FromOneRequest

TogetherInv == BackupInv /\ RecordsInv /\ BackupOfOneRequest

LEMMA WholeBackupTexts ==
    ASSUME AllOfOneRequest, file = WholeBackup, NEW s \in DOMAIN file.sets
    PROVE  FromOneRequest(FileTexts(s))
<1> DEFINE sets == BackupSets({z \in Zones : zones[z] = "live"})
           data == BackupData(DOMAIN sets)
<1>1. file.sets = sets /\ file.data = data
  BY DEF WholeBackup
<1>2. DOMAIN sets \subseteq DOMAIN rrsets
  BY DEF BackupSets
<1> HIDE DEF sets
<1>3. /\ DOMAIN data = UNION {LiveData(u) : u \in DOMAIN sets}
      /\ \A d \in DOMAIN data : /\ data[d].set = rdata[d].set
                                /\ data[d].payload = rdata[d].payload
  BY DEF BackupData
<1> HIDE DEF data
<1>4. ASSUME NEW x, x \in FileTexts(s) PROVE x \in Texts(s)
  <2>1. PICK d \in DOMAIN data : data[d].set = s /\ x = data[d].payload.data
    BY <1>1, <1>4 DEF FileTexts
  <2>2. PICK u : d \in LiveData(u)
    BY <1>3, <2>1
  <2>3. d \in DOMAIN rdata /\ rdata[d].live /\ rdata[d].set = s /\ rdata[d].payload.data = x
    BY <1>3, <2>1, <2>2 DEF LiveData
  <2> QED BY <2>3, InTexts
<1>5. PICK T \in TextsOfOneRequest : Texts(s) \ WebTexts \subseteq T
  BY <1>1, <1>2 DEF AllOfOneRequest, FromOneRequest
<1>6. FileTexts(s) \ WebTexts \subseteq T
  BY <1>4, <1>5
<1> QED BY <1>6 DEF FromOneRequest

LEMMA TogetherInit == BackupInit => TogetherInv
<1> SUFFICES ASSUME BackupInit PROVE TogetherInv
  OBVIOUS
<1>1. BackupInv /\ RecordsInv /\ file \in Backups \cup {WholeBackup}
  BY BackupInvInit, RecordsInvInit DEF BackupInit
<1>2. CASE file = WholeBackup
  <2>1. \A s \in DOMAIN file.sets : FromOneRequest(FileTexts(s))
    BY <1>1, <1>2, WholeBackupTexts DEF RecordsInv
  <2> QED BY <1>1, <2>1 DEF TogetherInv, BackupOfOneRequest, BackupTexts, FileTexts
<1>3. CASE file \in Backups
  <2>1. BackupOfOneRequest
    BY <1>3, BackupAssumption DEF BackupOfOneRequest
  <2> QED BY <1>1, <2>1 DEF TogetherInv
<1> QED BY <1>1, <1>2, <1>3

LEMMA RecordsPrimed ==
    ASSUME \A i \in DOMAIN rrsets' : FromOneRequest(Texts(i)')
    PROVE  AllOfOneRequest'
  BY DEF AllOfOneRequest, FromOneRequest, TextsOfOneRequest, RequestTexts, ImportedTexts,
         ImportTexts, InitialTexts, WebTexts

LEMMA BackupPrimed ==
    ASSUME \A s \in DOMAIN file'.sets : FromOneRequest(FileTexts(s)')
    PROVE  BackupOfOneRequest'
  BY DEF BackupOfOneRequest, BackupTexts, FileTexts, FromOneRequest, TextsOfOneRequest, RequestTexts,
         ImportedTexts, ImportTexts, InitialTexts, WebTexts

LEMMA TogetherStep ==
    TogetherInv /\ NumbersOwn /\ EditsApart /\ [BackupNext]_<<storeVars, backupVars>>
    => TogetherInv'
<1> SUFFICES ASSUME TogetherInv, NumbersOwn, EditsApart, [BackupNext]_<<storeVars, backupVars>>
             PROVE  TogetherInv'
  OBVIOUS
<1>1. BackupInv /\ RecordsInv /\ BackupOfOneRequest /\ BackupInv'
  BY BackupInvStep DEF TogetherInv
<1>2. ASSUME file' = file PROVE BackupOfOneRequest'
  <2>1. ASSUME NEW s \in DOMAIN file'.sets PROVE FromOneRequest(FileTexts(s)')
    <3>1. FileTexts(s)' = FileTexts(s)
      BY <1>2 DEF FileTexts
    <3>2. FromOneRequest(FileTexts(s))
      BY <1>1, <1>2 DEF BackupOfOneRequest, BackupTexts, FileTexts
    <3> QED BY <3>1, <3>2
  <2> QED BY <2>1, BackupPrimed
<1>3. ASSUME [StoreNext]_storeVars PROVE RecordsInv'
  BY <1>1, <1>3, RecordsInvStep DEF BackupInv
<1>4. CASE UNCHANGED <<storeVars, backupVars>>
  <2>1. UNCHANGED storeVars /\ file' = file
    BY <1>4 DEF backupVars
  <2> QED BY <1>1, <1>2, <1>3, <2>1 DEF TogetherInv
<1>5. CASE StoreNext /\ UNCHANGED backupVars
  BY <1>1, <1>2, <1>3, <1>5 DEF TogetherInv, backupVars
<1>6. CASE ExportStep /\ UNCHANGED storeVars
  <2>1. RecordsInv'
    BY <1>3, <1>6
  <2>2. CASE ExportData
    <3>1. \A s \in DOMAIN file'.sets : FromOneRequest(FileTexts(s)')
      BY <1>1, <2>2, ExportTexts DEF RecordsInv
    <3> QED BY <1>1, <2>1, <3>1, BackupPrimed DEF TogetherInv
  <2>3. CASE WriteFails
    <3>1. DOMAIN file'.sets = {}
      BY <2>3 DEF WriteFails, NoBackup
    <3> QED BY <1>1, <2>1, <3>1 DEF TogetherInv, BackupOfOneRequest
  <2>4. CASE file' = file
    BY <1>1, <1>2, <2>1, <2>4 DEF TogetherInv
  <2> QED BY <1>6, <2>2, <2>3, <2>4
          DEF ExportStep, StartExport, ExportZones, ExportSets, ExportFails
<1>7. ASSUME NEW mode, ImportBackup(mode) PROVE TogetherInv'
  <2> DEFINE t == IF mode = "replace" THEN Emptied ELSE Merged
  <2>1. TablesOK /\ KeysUnique /\ DataRefs /\ FileOK(file)
    BY <1>1 DEF BackupInv, StoreInv
  <2>2. Prepared(t) /\ Within(t)
    BY <2>1, PreparedTables, PreparedWithin
  <2>3. \/ Restored(t)
        \/ UNCHANGED <<zones, rrsets, rdata>>
    BY <1>7 DEF ImportBackup, tables
  <2> HIDE DEF t
  <2>4. file' = file /\ \A h \in Handlers : pc'[h] = "idle"
    BY <1>7 DEF ImportBackup, handlers
  <2>5. SOAAsRead' /\ InsertsKnown' /\ DataRefs'
    BY <1>1, <2>4 DEF SOAAsRead, InsertsKnown, BackupInv
  <2>6. AllOfOneRequest'
    <3>1. CASE Restored(t)
      <4>1. PICK num : Added(t, num)
        BY <2>1, <2>2, <3>1, RestoredAdds
      <4>2. \A i \in DOMAIN rrsets' : FromOneRequest(Texts(i)')
        BY <1>1, <2>1, <2>2, <4>1, AddedTexts DEF RecordsInv
      <4> QED BY <4>2, RecordsPrimed
    <3>2. CASE UNCHANGED <<zones, rrsets, rdata>>
      <4>1. ASSUME NEW i \in DOMAIN rrsets' PROVE FromOneRequest(Texts(i)')
        <5>1. Texts(i)' = Texts(i)
          BY <3>2 DEF Texts, LiveData
        <5> QED BY <1>1, <3>2, <5>1 DEF RecordsInv, AllOfOneRequest
      <4> QED BY <4>1, RecordsPrimed
    <3> QED BY <2>3, <3>1, <3>2
  <2> QED BY <1>1, <1>2, <2>4, <2>5, <2>6 DEF TogetherInv, RecordsInv
<1> QED BY <1>4, <1>5, <1>6, <1>7 DEF BackupNext

(* Backups keep to it: an rrset has the records of one request in the      *)
(* database and in any backup, though an export reads rrsets and records   *)
(* in two queries and requests go on between them.                         *)
THEOREM BackupsStayTogether ==
    BackupSpec /\ []NumbersOwn /\ []EditsApart
    => [](RecordsOfOneRequest /\ BackupOfOneRequest)
<1>1. TogetherInv => RecordsOfOneRequest /\ BackupOfOneRequest
  BY DEF TogetherInv, RecordsInv, AllOfOneRequest, RecordsOfOneRequest
<1> QED BY <1>1, TogetherInit, TogetherStep, PTL DEF BackupSpec

(* The conditions hold of themselves where no form edits a record and      *)
(* imports leave the numbers of their records to the database: what a      *)
(* backup reads query by query (backup.go:20), beside any other requests,  *)
(* gives every rrset records of one request, and so does bringing it back. *)
THEOREM UneditedBackupsStayTogether ==
    ASSUME UneditedRequests
    PROVE  BackupSpec => [](RecordsOfOneRequest /\ BackupOfOneRequest)
<1>1. BackupInv => NumbersOwn /\ EditsApart
  BY UneditedConditions DEF BackupInv
<1>2. BackupSpec => []NumbersOwn /\ []EditsApart
  BY <1>1, BackupInvAlways, PTL
<1> QED BY <1>2, BackupsStayTogether, PTL
=============================================================================
