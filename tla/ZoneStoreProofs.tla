-------------------------- MODULE ZoneStoreProofs --------------------------
(***************************************************************************)
(* Invariants of ZoneStore, for any database, requests and handlers.       *)
(*                                                                         *)
(* The type invariant is not inductive alone: a statement uses columns of  *)
(* the request, and rows read by earlier statements, that exist only for   *)
(* the operations that reach it.  Ready says which those are.              *)
(***************************************************************************)
EXTENDS Deletions, SequenceTheorems, FiniteSetTheorems, TLAPS

SetOps  == {"createRRSet", "updateRRSet", "deleteRRSet", "importZone"}
WebOps  == {"webCreateRecord", "webApplyTemplate"}
ZoneOps == SetOps \cup WebOps \cup {"deleteZone"}

(* The request r and the local variables l allow statement s.              *)
Ready(s, r, l) ==
    /\ s # "idle" => r \in Requests
    /\ s \in {"idle", "findZone"} => l.at = 1
    /\ s = "findZone" => r.op \in ZoneOps
    /\ s \in {"createZone", "deleteZone", "webCreateZone", "webDeleteZone",
              "webDeleteRecord"} => r.op = s
    /\ s \in {"checkSet", "insertSet"} => r.op = "createRRSet"
    /\ s \in {"findSet", "putSet"} => r.op = "updateRRSet"
    /\ s = "deleteSet" => r.op = "deleteRRSet"
    /\ s = "importSets" => r.op = "importZone"
    /\ s \in {"readSOA", "readSOAData", "createSOA", "writeSOA"} => r.op \in SetOps
    /\ s = "writeSOA" => l.text \in Payload
    /\ s \in {"webFindSet", "webInsertSet", "webInsertData"} =>
          /\ r.op \in WebOps
          /\ r.op = "webApplyTemplate" => l.at \in DOMAIN r.records
    /\ s \in {"webFindRecord", "webSaveRecord", "webReadSet", "webSaveTTL"}
          => r.op = "webUpdateRecord"
    /\ s = "webSaveTTL" => l.row \in SetRow

TablesOK ==
    /\ zones \in [Zones -> ZoneState]
    /\ rrsets \in Seq(SetRow)
    /\ rdata \in Seq(DataRow)

HandlersOK ==
    /\ pc \in [Handlers -> PC]
    /\ req \in [Handlers -> Requests \cup {NoReq}]
    /\ local \in [Handlers -> Local]
    /\ \A h \in Handlers : Ready(pc[h], req[h], local[h])

(* The unique index of rr_sets: no two rows, deleted ones included, have   *)
(* the same zone, owner and type.                                          *)
KeysUnique ==
    \A i, j \in DOMAIN rrsets :
        HasKey(rrsets[i], rrsets[j].zone, rrsets[j].name, rrsets[j].type) => i = j

CountersOK == issued \in 0 .. MaxRequests /\ faults \in 0 .. MaxFaults

StoreInv == TablesOK /\ HandlersOK /\ CountersOK /\ KeysUnique

-----------------------------------------------------------------------------
(***************************************************************************)
(* Requests and rows.                                                      *)
(***************************************************************************)

(* The columns of a request, by its operation.                             *)
LEMMA RequestColumns ==
    ASSUME NEW r \in Requests
    PROVE  /\ r.op \in {"createZone", "deleteZone", "createRRSet", "updateRRSet",
                        "deleteRRSet", "importZone", "webCreateZone", "webDeleteZone",
                        "webCreateRecord", "webApplyTemplate", "webDeleteRecord",
                        "webUpdateRecord"}
           /\ r.op \in ZoneOps \cup {"createZone", "webCreateZone", "webDeleteZone"}
                 => r.zone \in Zones
           /\ r.op \in {"createRRSet", "updateRRSet"} =>
                 /\ r.name \in Owners /\ r.type \in Types /\ r.ttl \in Nat
                 /\ r.records \in Seq(Payload)
           /\ r.op = "updateRRSet" => r.set \in Nat
           /\ r.op = "webCreateRecord" =>
                 /\ r.name \in Owners /\ r.type \in Types /\ r.ttl \in Nat
                 /\ r.payload \in Payload
           /\ r.op = "importZone" =>
                 /\ r.sets \in Seq(ImportSet) /\ r.records \in Seq(ImportRecord)
           /\ r.op = "webApplyTemplate" => r.records \in Seq(TemplateRecord) \ {<<>>}
           /\ r.op = "webUpdateRecord" =>
                 /\ r.rec \in Nat /\ r.set \in Nat /\ r.ttl \in Nat
                 /\ r.payload \in Payload
<1>1. r \in RestRequest \cup WebRequest
  BY StoreAssumption
<1>2. CASE r \in RestRequest
  BY <1>2 DEF RestRequest, ZoneOps, SetOps, WebOps
<1>3. CASE r \in WebRequest
  BY <1>3 DEF WebRequest, ZoneOps, SetOps, WebOps
<1> QED BY <1>1, <1>2, <1>3

(* What a web request wants created.                                       *)
LEMMA WantedType ==
    ASSUME NEW r \in Requests, NEW l, r.op \in WebOps,
           r.op = "webApplyTemplate" => l.at \in DOMAIN r.records
    PROVE  /\ r.zone \in Zones
           /\ Wanted(r, l).name \in Owners /\ Wanted(r, l).type \in Types
           /\ Wanted(r, l).ttl \in Nat /\ Wanted(r, l).payload \in Payload
<1>1. r.zone \in Zones
  BY RequestColumns DEF ZoneOps
<1>2. CASE r.op = "webApplyTemplate"
  <2>1. r.records[l.at] \in TemplateRecord
    BY <1>2, RequestColumns, ElementOfSeq, LenProperties
  <2> QED BY <1>1, <1>2, <2>1 DEF Wanted, TemplateRecord
<1>3. CASE r.op = "webCreateRecord"
  <2>1. WebTTLOf(r.ttl) \in Nat
    BY <1>3, RequestColumns, StoreAssumption DEF WebTTLOf
  <2> QED BY <1>1, <1>3, <2>1, RequestColumns DEF Wanted
<1> QED BY <1>2, <1>3 DEF WebOps

(* A function on 1 .. n is a sequence.                                     *)
LEMMA FunctionIsSeq ==
    ASSUME NEW S, NEW n \in Nat, NEW f \in [1 .. n -> S]
    PROVE  f \in Seq(S) /\ Len(f) = n /\ DOMAIN f = 1 .. n
<1>1. f \in Seq(S)
  BY SeqDef
<1>2. DOMAIN f = 1 .. n
  OBVIOUS
<1>3. Len(f) = n
  BY <1>1, <1>2, LenProperties
<1> QED BY <1>1, <1>2, <1>3

LEMMA NewSetType ==
    ASSUME NEW z \in Zones, NEW n \in Owners, NEW t \in Types, NEW ttl \in Nat
    PROVE  /\ NewSet(z, n, t, ttl) \in SetRow
           /\ NewSet(z, n, t, ttl).zone = z
           /\ NewSet(z, n, t, ttl).name = n
           /\ NewSet(z, n, t, ttl).type = t
  BY DEF NewSet, SetRow

LEMMA NewDataType ==
    ASSUME NEW s \in Nat, NEW records \in Seq(Payload)
    PROVE  NewData(s, records) \in Seq(DataRow)
<1>1. DOMAIN records = 1 .. Len(records) /\ Len(records) \in Nat
  BY LenProperties
<1>2. \A i \in 1 .. Len(records) : records[i] \in Payload
  BY ElementOfSeq
<1>3. NewData(s, records) \in [1 .. Len(records) -> DataRow]
  BY <1>1, <1>2 DEF NewData, DataRow
<1> QED BY <1>1, <1>3, FunctionIsSeq

LEMMA EffectiveTTLType ==
    ASSUME NEW ttl \in Nat
    PROVE  EffectiveTTL(ttl) \in Nat /\ WebTTLOf(ttl) \in Nat
  BY StoreAssumption DEF EffectiveTTL, WebTTLOf

LEMMA WithoutDataType ==
    ASSUME NEW s, rdata \in Seq(DataRow)
    PROVE  WithoutData(s) \in Seq(DataRow)
<1>1. DOMAIN rdata = 1 .. Len(rdata) /\ Len(rdata) \in Nat
  BY LenProperties
<1>2. \A i \in 1 .. Len(rdata) : rdata[i] \in DataRow
  BY ElementOfSeq
<1>3. WithoutData(s) \in [1 .. Len(rdata) -> DataRow]
  BY <1>1, <1>2 DEF WithoutData, DataRow
<1> QED BY <1>1, <1>3, FunctionIsSeq

-----------------------------------------------------------------------------
(***************************************************************************)
(* The three ways the rr_sets table changes, and what each needs for the   *)
(* unique index: rows change nothing in their keys, a row is added, a row  *)
(* is rewritten.                                                           *)
(***************************************************************************)

LEMMA KeepKeys ==
    ASSUME TablesOK, KeysUnique, NEW f \in [DOMAIN rrsets -> SetRow],
           \A i \in DOMAIN rrsets : /\ f[i].zone = rrsets[i].zone
                                    /\ f[i].name = rrsets[i].name
                                    /\ f[i].type = rrsets[i].type,
           rrsets' = f
    PROVE  rrsets' \in Seq(SetRow) /\ KeysUnique'
<1>1. DOMAIN rrsets = 1 .. Len(rrsets) /\ Len(rrsets) \in Nat
  BY LenProperties DEF TablesOK
<1>2. rrsets' \in Seq(SetRow) /\ DOMAIN rrsets' = DOMAIN rrsets
  BY <1>1, FunctionIsSeq
<1>3. KeysUnique'
  BY <1>2 DEF KeysUnique, HasKey
<1> QED BY <1>2, <1>3

LEMMA AddKey ==
    ASSUME TablesOK, KeysUnique,
           NEW z \in Zones, NEW n \in Owners, NEW t \in Types, NEW ttl \in Nat,
           ~KeyTaken(z, n, t),
           rrsets' = Append(rrsets, NewSet(z, n, t, ttl))
    PROVE  rrsets' \in Seq(SetRow) /\ KeysUnique'
<1> DEFINE row == NewSet(z, n, t, ttl)
<1>1. row \in SetRow /\ row.zone = z /\ row.name = n /\ row.type = t
  BY NewSetType
<1> HIDE DEF row
<1>2. rrsets \in Seq(SetRow) /\ rrsets' = Append(rrsets, row)
  BY DEF TablesOK, row
<1>3. DOMAIN rrsets = 1 .. Len(rrsets) /\ Len(rrsets) \in Nat
  BY <1>2, LenProperties
<1>4. /\ rrsets' \in Seq(SetRow)
      /\ DOMAIN rrsets' = 1 .. Len(rrsets) + 1
      /\ \A i \in 1 .. Len(rrsets) : rrsets'[i] = rrsets[i]
      /\ rrsets'[Len(rrsets) + 1] = row
  BY <1>1, <1>2, <1>3, AppendProperties, LenProperties
<1>5. \A i \in 1 .. Len(rrsets) : ~HasKey(rrsets[i], z, n, t)
  BY <1>3 DEF KeyTaken
<1>6. ASSUME NEW i \in DOMAIN rrsets', NEW j \in DOMAIN rrsets',
             HasKey(rrsets'[i], rrsets'[j].zone, rrsets'[j].name, rrsets'[j].type)
      PROVE  i = j
  <2>1. CASE i \in 1 .. Len(rrsets) /\ j \in 1 .. Len(rrsets)
    BY <1>3, <1>4, <1>6, <2>1 DEF KeysUnique
  <2>2. CASE i = Len(rrsets) + 1 /\ j \in 1 .. Len(rrsets)
    <3>1. HasKey(rrsets[j], z, n, t)
      BY <1>1, <1>4, <1>6, <2>2 DEF HasKey
    <3> QED BY <1>5, <2>2, <3>1
  <2>3. CASE j = Len(rrsets) + 1 /\ i \in 1 .. Len(rrsets)
    <3>1. HasKey(rrsets[i], z, n, t)
      BY <1>1, <1>4, <1>6, <2>3 DEF HasKey
    <3> QED BY <1>5, <2>3, <3>1
  <2> QED BY <1>3, <1>4, <2>1, <2>2, <2>3
<1>7. KeysUnique'
  BY <1>6 DEF KeysUnique
<1> QED BY <1>4, <1>7

LEMMA RewriteKey ==
    ASSUME TablesOK, KeysUnique, NEW s,
           NEW z \in Zones, NEW n \in Owners, NEW t \in Types, NEW ttl \in Nat,
           \A i \in DOMAIN rrsets \ {s} : ~HasKey(rrsets[i], z, n, t),
           rrsets' = [rrsets EXCEPT ![s] = NewSet(z, n, t, ttl)]
    PROVE  rrsets' \in Seq(SetRow) /\ KeysUnique'
<1> DEFINE row == NewSet(z, n, t, ttl)
<1>1. row \in SetRow /\ row.zone = z /\ row.name = n /\ row.type = t
  BY NewSetType
<1> HIDE DEF row
<1>2. DOMAIN rrsets = 1 .. Len(rrsets) /\ Len(rrsets) \in Nat
  BY LenProperties DEF TablesOK
<1>3. rrsets \in [1 .. Len(rrsets) -> SetRow]
  BY LenProperties DEF TablesOK
<1>4. rrsets' = [rrsets EXCEPT ![s] = row]
  BY DEF row
<1>5. rrsets' \in [1 .. Len(rrsets) -> SetRow]
  BY <1>1, <1>3, <1>4
<1>6. rrsets' \in Seq(SetRow) /\ DOMAIN rrsets' = DOMAIN rrsets
  BY <1>2, <1>5, FunctionIsSeq
<1>7. ASSUME NEW i \in DOMAIN rrsets, NEW j \in DOMAIN rrsets,
             HasKey(rrsets'[i], rrsets'[j].zone, rrsets'[j].name, rrsets'[j].type)
      PROVE  i = j
  <2>1. \A k \in DOMAIN rrsets : rrsets'[k] = IF k = s THEN row ELSE rrsets[k]
    BY <1>3, <1>4
  <2>2. CASE i # s /\ j # s
    BY <1>7, <2>1, <2>2 DEF KeysUnique
  <2>3. CASE i = s /\ j # s
    <3>1. HasKey(rrsets[j], z, n, t)
      BY <1>1, <1>7, <2>1, <2>3 DEF HasKey
    <3> QED BY <2>3, <3>1
  <2>4. CASE i # s /\ j = s
    <3>1. HasKey(rrsets[i], z, n, t)
      BY <1>1, <1>7, <2>1, <2>4 DEF HasKey
    <3> QED BY <2>4, <3>1
  <2> QED BY <2>2, <2>3, <2>4
<1>8. KeysUnique'
  BY <1>6, <1>7 DEF KeysUnique
<1> QED BY <1>6, <1>8

LEMMA AppendData ==
    ASSUME NEW old \in Seq(DataRow), NEW s \in Nat, NEW records \in Seq(Payload)
    PROVE  old \o NewData(s, records) \in Seq(DataRow)
  BY NewDataType, ConcatProperties

LEMMA RewriteData ==
    ASSUME rdata \in Seq(DataRow), NEW f \in [DOMAIN rdata -> DataRow]
    PROVE  f \in Seq(DataRow)
  BY LenProperties, FunctionIsSeq

-----------------------------------------------------------------------------
(***************************************************************************)
(* The three ways a handler goes on.                                       *)
(***************************************************************************)

LEMMA Moves ==
    ASSUME HandlersOK, NEW h \in Handlers, NEW s \in PC,
           NEW r \in Requests \cup {NoReq}, NEW l \in Local, Ready(s, r, l),
           pc' = [pc EXCEPT ![h] = s],
           req' = [req EXCEPT ![h] = r],
           local' = [local EXCEPT ![h] = l]
    PROVE  HandlersOK'
<1>1. pc' \in [Handlers -> PC] /\ req' \in [Handlers -> Requests \cup {NoReq}]
      /\ local' \in [Handlers -> Local]
  BY DEF HandlersOK
<1>2. ASSUME NEW g \in Handlers PROVE Ready(pc'[g], req'[g], local'[g])
  <2>1. CASE g = h
    <3>1. pc'[g] = s /\ req'[g] = r /\ local'[g] = l
      BY <2>1 DEF HandlersOK
    <3> QED BY <3>1
  <2>2. CASE g # h
    <3>1. pc'[g] = pc[g] /\ req'[g] = req[g] /\ local'[g] = local[g]
      BY <2>2 DEF HandlersOK
    <3> QED BY <3>1 DEF HandlersOK
  <2> QED BY <2>1, <2>2
<1> QED BY <1>1, <1>2 DEF HandlersOK

LEMMA Responds ==
    ASSUME HandlersOK, NEW h \in Handlers, Respond(h)
    PROVE  HandlersOK'
<1>1. "idle" \in PC /\ NoLocal \in Local
  BY DEF PC, NoLocal, Local
<1>2. Ready("idle", NoReq, NoLocal)
  BY DEF Ready, NoLocal
<1> QED BY <1>1, <1>2, Moves DEF Respond

LEMMA Continues ==
    ASSUME HandlersOK, NEW h \in Handlers, NEW s \in PC,
           Ready(s, req[h], local[h]), Continue(h, s)
    PROVE  HandlersOK'
<1>1. req' = [req EXCEPT ![h] = req[h]] /\ local' = [local EXCEPT ![h] = local[h]]
  BY DEF HandlersOK, Continue
<1>2. req[h] \in Requests \cup {NoReq} /\ local[h] \in Local
  BY DEF HandlersOK
<1>3. pc' = [pc EXCEPT ![h] = s]
  BY DEF Continue, Goto
<1> QED BY <1>1, <1>2, <1>3, Moves

LEMMA Reads ==
    ASSUME HandlersOK, NEW h \in Handlers, NEW s \in PC, NEW l \in Local,
           Ready(s, req[h], l),
           Goto(h, s), local' = [local EXCEPT ![h] = l], UNCHANGED req
    PROVE  HandlersOK'
<1>1. req' = [req EXCEPT ![h] = req[h]] /\ req[h] \in Requests \cup {NoReq}
  BY DEF HandlersOK
<1> QED BY <1>1, Moves DEF Goto

LEMMA NextRecordMoves ==
    ASSUME HandlersOK, NEW h \in Handlers, pc[h] \in {"webInsertSet", "webInsertData"},
           NextRecord(h)
    PROVE  HandlersOK'
<1> DEFINE l == [local[h] EXCEPT !.at = @ + 1]
<1>1. Ready(pc[h], req[h], local[h]) /\ local[h] \in Local
  BY DEF HandlersOK
<1>2. CASE /\ req[h].op = "webApplyTemplate" /\ local[h].at < Len(req[h].records)
           /\ local' = [local EXCEPT ![h].at = @ + 1]
           /\ Goto(h, "webFindSet")
           /\ UNCHANGED req
  <2>1. req[h] \in Requests /\ local[h].at \in DOMAIN req[h].records
    BY <1>1, <1>2 DEF Ready
  <2>2. Len(req[h].records) \in Nat /\ DOMAIN req[h].records = 1 .. Len(req[h].records)
    BY <1>2, <2>1, RequestColumns, LenProperties
  <2>3. l \in Local
    BY <1>1 DEF Local
  <2>6. local' = [local EXCEPT ![h] = l]
    BY <1>2
  <2>4. l.at \in DOMAIN req[h].records
    BY <1>1, <1>2, <2>1, <2>2 DEF Local
  <2>5. "webFindSet" \in PC /\ Ready("webFindSet", req[h], l)
    BY <1>2, <2>1, <2>4 DEF PC, Ready, WebOps
  <2> HIDE DEF l
  <2> QED BY <1>2, <2>3, <2>5, <2>6, Reads
<1> QED BY <1>2, Responds DEF NextRecord

-----------------------------------------------------------------------------
(***************************************************************************)
(* One lemma per group of actions.                                         *)
(***************************************************************************)

(* What the invariant says of a handler about to take a step.              *)
LEMMA AtStep ==
    ASSUME HandlersOK, NEW h \in Handlers
    PROVE  /\ Ready(pc[h], req[h], local[h])
           /\ pc[h] \in PC /\ local[h] \in Local
           /\ req[h] \in Requests \cup {NoReq}
  BY DEF HandlersOK

(* A template has a first record.                                          *)
LEMMA TemplateStarts ==
    ASSUME NEW r \in Requests, r.op = "webApplyTemplate"
    PROVE  1 \in DOMAIN r.records
<1>1. r.records \in Seq(TemplateRecord) /\ r.records # <<>>
  BY RequestColumns
<1>2. Len(r.records) \in Nat \ {0} /\ DOMAIN r.records = 1 .. Len(r.records)
  BY <1>1, EmptySeq, LenProperties
<1> QED BY <1>2

(* Steps that only look: the tables stay as they are.                      *)
LEMMA LookSteps ==
    ASSUME StoreInv, NEW h \in Handlers,
           FindZone(h) \/ CheckSet(h) \/ FindSet(h) \/ Invalidate(h)
    PROVE  StoreInv'
<1>1. HandlersOK /\ Ready(pc[h], req[h], local[h])
  BY AtStep DEF StoreInv
<1>2. UNCHANGED <<tables, issued, faults>>
  BY DEF FindZone, CheckSet, FindSet, Invalidate
<1>3. (TablesOK /\ CountersOK /\ KeysUnique)'
  BY <1>2 DEF StoreInv, TablesOK, CountersOK, KeysUnique, tables
<1>4. ASSUME FindZone(h) PROVE HandlersOK'
  <2>1. req[h] \in Requests /\ req[h].op \in ZoneOps
    BY <1>1, <1>4 DEF FindZone, Ready
  <2>2. CASE Continue(h, AfterFindZone(req[h].op))
    <3>1. /\ AfterFindZone(req[h].op) \in PC
          /\ Ready(AfterFindZone(req[h].op), req[h], local[h])
      BY <1>1, <1>4, <2>1, TemplateStarts DEF FindZone, AfterFindZone, ZoneOps, SetOps, WebOps, PC, Ready
    <3> QED BY <1>1, <2>2, <3>1, Continues
  <2> QED BY <1>1, <1>4, <2>2, Responds DEF FindZone
<1>5. ASSUME CheckSet(h) PROVE HandlersOK'
  <2>1. "insertSet" \in PC /\ Ready("insertSet", req[h], local[h])
    BY <1>1, <1>5 DEF CheckSet, Ready, PC
  <2> QED BY <1>1, <1>5, <2>1, Continues, Responds DEF CheckSet
<1>6. ASSUME FindSet(h) PROVE HandlersOK'
  <2>1. "putSet" \in PC /\ Ready("putSet", req[h], local[h])
    BY <1>1, <1>6 DEF FindSet, Ready, PC
  <2> QED BY <1>1, <1>6, <2>1, Continues, Responds DEF FindSet
<1>7. ASSUME Invalidate(h) PROVE HandlersOK'
  BY <1>1, <1>7, Responds DEF Invalidate
<1> QED BY <1>3, <1>4, <1>5, <1>6, <1>7 DEF StoreInv

(* Steps that read a row into the handler's variables.                     *)
LEMMA ReadSteps ==
    ASSUME StoreInv, NEW h \in Handlers,
           ReadSOA(h) \/ ReadSOAData(h) \/ WebFindSet(h) \/ WebFindRecord(h) \/ WebReadSet(h)
    PROVE  StoreInv'
<1>1. HandlersOK /\ Ready(pc[h], req[h], local[h]) /\ local[h] \in Local
  BY AtStep DEF StoreInv
<1>2. UNCHANGED <<tables, issued, faults>>
  BY DEF ReadSOA, ReadSOAData, WebFindSet, WebFindRecord, WebReadSet
<1>3. (TablesOK /\ CountersOK /\ KeysUnique)'
  BY <1>2 DEF StoreInv, TablesOK, CountersOK, KeysUnique, tables
<1>4. /\ \A i \in DOMAIN rrsets : i \in Nat /\ rrsets[i] \in SetRow
      /\ \A i \in DOMAIN rdata : i \in Nat /\ rdata[i] \in DataRow
  BY LenProperties, ElementOfSeq DEF StoreInv, TablesOK
<1>5. ASSUME pc[h] \in {"readSOA", "readSOAData"}
      PROVE  /\ WithoutSOA(h) \in PC /\ Ready(WithoutSOA(h), req[h], local[h])
             /\ Ready("invalidate", req[h], local[h])
  BY <1>1, <1>5 DEF WithoutSOA, PC, Ready
<1>6. ASSUME ReadSOA(h) PROVE HandlersOK'
  <2>1. CASE Continue(h, WithoutSOA(h))
    BY <1>1, <1>5, <1>6, <2>1, Continues DEF ReadSOA
  <2>2. ASSUME NEW s \in SOASets(req[h].zone), local' = [local EXCEPT ![h].set = s],
               Goto(h, "readSOAData"), UNCHANGED req
        PROVE  HandlersOK'
    <3> DEFINE l == [local[h] EXCEPT !.set = s]
    <3>1. l \in Local /\ local' = [local EXCEPT ![h] = l]
      BY <1>1, <1>4, <2>2 DEF SOASets, Local
    <3>2. "readSOAData" \in PC /\ Ready("readSOAData", req[h], l)
      BY <1>1, <1>6 DEF ReadSOA, Ready, PC
    <3> HIDE DEF l
    <3> QED BY <1>1, <2>2, <3>1, <3>2, Reads
  <2> QED BY <1>6, <2>1, <2>2 DEF ReadSOA
<1>7. ASSUME ReadSOAData(h) PROVE HandlersOK'
  <2>1. CASE Continue(h, WithoutSOA(h)) \/ Continue(h, "invalidate")
    <3>1. "invalidate" \in PC
      BY DEF PC
    <3> QED BY <1>1, <1>5, <1>7, <2>1, <3>1, Continues DEF ReadSOAData
  <2>2. ASSUME NEW d \in LiveData(local[h].set),
               local' = [local EXCEPT ![h].soa = d, ![h].text = rdata[d].payload],
               Goto(h, "writeSOA"), UNCHANGED req
        PROVE  HandlersOK'
    <3> DEFINE l == [local[h] EXCEPT !.soa = d, !.text = rdata[d].payload]
    <3>1. d \in Nat /\ rdata[d].payload \in Payload
      BY <1>4 DEF LiveData, DataRow
    <3>2. l \in Local /\ local' = [local EXCEPT ![h] = l] /\ l.text \in Payload
      BY <1>1, <2>2, <3>1 DEF Local, HandlersOK
    <3>3. "writeSOA" \in PC /\ Ready("writeSOA", req[h], l)
      BY <1>1, <1>7, <3>2 DEF ReadSOAData, Ready, PC
    <3> HIDE DEF l
    <3> QED BY <1>1, <2>2, <3>2, <3>3, Reads
  <2> QED BY <1>7, <2>1, <2>2 DEF ReadSOAData
<1>8. ASSUME WebFindSet(h) PROVE HandlersOK'
  <2> DEFINE w == Wanted(req[h], local[h])
  <2>1. CASE Continue(h, "webInsertSet")
    <3>1. "webInsertSet" \in PC /\ Ready("webInsertSet", req[h], local[h])
      BY <1>1, <1>8 DEF WebFindSet, Ready, PC
    <3> QED BY <1>1, <2>1, <3>1, Continues
  <2>2. ASSUME NEW s \in LiveSets(req[h].zone, w.name, w.type),
               local' = [local EXCEPT ![h].set = s],
               Goto(h, "webInsertData"), UNCHANGED req
        PROVE  HandlersOK'
    <3> DEFINE l == [local[h] EXCEPT !.set = s]
    <3>1. l \in Local /\ local' = [local EXCEPT ![h] = l] /\ l.at = local[h].at
      BY <1>1, <1>4, <2>2 DEF LiveSets, Local
    <3>2. "webInsertData" \in PC /\ Ready("webInsertData", req[h], l)
      BY <1>1, <1>8, <3>1 DEF WebFindSet, Ready, PC
    <3> HIDE DEF l
    <3> QED BY <1>1, <2>2, <3>1, <3>2, Reads
  <2> QED BY <1>8, <2>1, <2>2 DEF WebFindSet
<1>9. ASSUME WebReadSet(h) PROVE HandlersOK'
  <2> DEFINE s == req[h].set
             l == [local[h] EXCEPT !.set = s, !.row = rrsets[s]]
  <2>1. CASE /\ s \in DOMAIN rrsets
             /\ local' = [local EXCEPT ![h].set = s, ![h].row = rrsets[s]]
             /\ Goto(h, "webSaveTTL") /\ UNCHANGED req
    <3>1. s \in Nat /\ rrsets[s] \in SetRow
      BY <1>4, <2>1
    <3>2. l \in Local /\ local' = [local EXCEPT ![h] = l] /\ l.row \in SetRow
      BY <1>1, <2>1, <3>1 DEF Local, HandlersOK
    <3>3. "webSaveTTL" \in PC /\ Ready("webSaveTTL", req[h], l)
      BY <1>1, <1>9, <3>2 DEF WebReadSet, Ready, PC
    <3> HIDE DEF l
    <3> QED BY <1>1, <2>1, <3>2, <3>3, Reads
  <2> QED BY <1>1, <1>9, <2>1, Responds DEF WebReadSet
<1>10. ASSUME WebFindRecord(h) PROVE HandlersOK'
  <2> DEFINE n == req[h].rec
             l == [local[h] EXCEPT !.set = rdata[n].set]
  <2>1. CASE /\ n \in DOMAIN rdata
             /\ local' = [local EXCEPT ![h].set = rdata[n].set]
             /\ Goto(h, "webSaveRecord") /\ UNCHANGED req
    <3>1. rdata[n].set \in Nat
      BY <1>4, <2>1 DEF DataRow
    <3>2. l \in Local /\ local' = [local EXCEPT ![h] = l]
      BY <1>1, <2>1, <3>1 DEF Local, HandlersOK
    <3>3. "webSaveRecord" \in PC /\ Ready("webSaveRecord", req[h], l)
      BY <1>1, <1>10, <3>2 DEF WebFindRecord, Ready, PC
    <3> HIDE DEF l
    <3> QED BY <1>1, <2>1, <3>2, <3>3, Reads
  <2> QED BY <1>1, <1>10, <2>1, Responds DEF WebFindRecord
<1> QED BY <1>3, <1>6, <1>7, <1>8, <1>9, <1>10 DEF StoreInv

(* Steps on the zones table; deleteZone also deletes rrsets.               *)
LEMMA ZoneSteps ==
    ASSUME StoreInv, NEW h \in Handlers,
           CreateZone(h) \/ DeleteZone(h) \/ WebCreateZone(h) \/ WebDeleteZone(h)
    PROVE  StoreInv'
<1>1. HandlersOK /\ Ready(pc[h], req[h], local[h]) /\ TablesOK /\ KeysUnique
  BY AtStep DEF StoreInv
<1>2. zones' \in [Zones -> ZoneState]
  BY <1>1 DEF CreateZone, DeleteZone, WebCreateZone, WebDeleteZone, DeletedZone,
              TablesOK, ZoneState
<1>3. rdata' = rdata /\ CountersOK'
  BY DEF CreateZone, DeleteZone, WebCreateZone, WebDeleteZone, StoreInv, CountersOK
<1>4. rrsets' \in Seq(SetRow) /\ KeysUnique'
  <2>1. CASE DeleteZone(h)
    <3> DEFINE f == [i \in DOMAIN rrsets |->
                       IF rrsets[i].zone = req[h].zone
                       THEN [rrsets[i] EXCEPT !.live = FALSE] ELSE rrsets[i]]
    <3>1. \A i \in DOMAIN rrsets : rrsets[i] \in SetRow
      BY <1>1, ElementOfSeq, LenProperties DEF TablesOK
    <3>2. f \in [DOMAIN rrsets -> SetRow]
      BY <3>1 DEF SetRow
    <3>3. \A i \in DOMAIN rrsets : /\ f[i].zone = rrsets[i].zone
                                   /\ f[i].name = rrsets[i].name
                                   /\ f[i].type = rrsets[i].type
      BY <3>1 DEF SetRow
    <3>4. rrsets' = f
      BY <2>1 DEF DeleteZone
    <3> QED BY <1>1, <3>2, <3>3, <3>4, KeepKeys
  <2>2. CASE rrsets' = rrsets
    BY <1>1, <2>2 DEF TablesOK, KeysUnique
  <2> QED BY <2>1, <2>2 DEF CreateZone, WebCreateZone, WebDeleteZone
<1>5. HandlersOK'
  <2>1. CASE Continue(h, "invalidate") /\ pc[h] # "idle"
    <3>1. "invalidate" \in PC /\ Ready("invalidate", req[h], local[h])
      BY <1>1, <2>1 DEF Ready, PC
    <3> QED BY <1>1, <2>1, <3>1, Continues
  <2>2. CASE Respond(h)
    BY <1>1, <2>2, Responds
  <2> QED BY <2>1, <2>2 DEF CreateZone, DeleteZone, WebCreateZone, WebDeleteZone
<1> QED BY <1>1, <1>2, <1>3, <1>4, <1>5 DEF StoreInv, TablesOK

(* Where the steps on rrsets go next.                                      *)
LEMMA NextOfChange ==
    ASSUME HandlersOK, NEW h \in Handlers,
           \/ Respond(h)
           \/ pc[h] \in {"insertSet", "putSet", "deleteSet", "importSets"}
                 /\ Continue(h, "readSOA")
           \/ pc[h] \in {"createSOA", "writeSOA"} /\ Continue(h, "invalidate")
           \/ pc[h] = "webSaveRecord" /\ Continue(h, "webReadSet")
    PROVE  HandlersOK'
<1>1. Ready(pc[h], req[h], local[h])
  BY AtStep
<1>2. CASE pc[h] \in {"insertSet", "putSet", "deleteSet", "importSets"}
             /\ Continue(h, "readSOA")
  <2>1. "readSOA" \in PC /\ Ready("readSOA", req[h], local[h])
    BY <1>1, <1>2 DEF Ready, PC, SetOps
  <2> QED BY <1>2, <2>1, Continues
<1>3. CASE pc[h] \in {"createSOA", "writeSOA"} /\ Continue(h, "invalidate")
  <2>1. "invalidate" \in PC /\ Ready("invalidate", req[h], local[h])
    BY <1>1, <1>3 DEF Ready, PC
  <2> QED BY <1>3, <2>1, Continues
<1>4. CASE pc[h] = "webSaveRecord" /\ Continue(h, "webReadSet")
  <2>1. "webReadSet" \in PC /\ Ready("webReadSet", req[h], local[h])
    BY <1>1, <1>4 DEF Ready, PC
  <2> QED BY <1>4, <2>1, Continues
<1> QED BY <1>2, <1>3, <1>4, Responds

LEMMA InsertSetStep ==
    ASSUME StoreInv, NEW h \in Handlers, InsertSet(h)
    PROVE  StoreInv'
<1> DEFINE r == req[h]
<1>1. HandlersOK /\ TablesOK /\ KeysUnique /\ Ready(pc[h], r, local[h])
  BY AtStep DEF StoreInv
<1>2. r \in Requests /\ r.op = "createRRSet"
  BY <1>1 DEF InsertSet, Ready
<1>3. /\ r.zone \in Zones /\ r.name \in Owners /\ r.type \in Types
      /\ r.ttl \in Nat /\ r.records \in Seq(Payload)
  BY <1>2, RequestColumns DEF ZoneOps, SetOps
<1>4. EffectiveTTL(r.ttl) \in Nat /\ Len(rrsets) + 1 \in Nat
  <2>1. Len(rrsets) \in Nat
    BY <1>1, LenProperties DEF TablesOK
  <2>2. EffectiveTTL(r.ttl) \in Nat
    BY <1>3, EffectiveTTLType
  <2> QED BY <2>1, <2>2
<1>5. zones' = zones /\ CountersOK'
  BY DEF InsertSet, StoreInv, CountersOK
<1>6. HandlersOK'
  BY <1>1, NextOfChange DEF InsertSet
<1>7. CASE UNCHANGED <<rrsets, rdata>>
  BY <1>1, <1>5, <1>6, <1>7 DEF StoreInv, TablesOK, KeysUnique
<1>8. CASE /\ ~KeyTaken(r.zone, r.name, r.type)
           /\ rrsets' = Append(rrsets, NewSet(r.zone, r.name, r.type, EffectiveTTL(r.ttl)))
           /\ rdata' = rdata \o NewData(Len(rrsets) + 1, r.records)
  <2>1. rrsets' \in Seq(SetRow) /\ KeysUnique'
    BY <1>1, <1>3, <1>4, <1>8, AddKey
  <2>2. rdata' \in Seq(DataRow)
    BY <1>1, <1>3, <1>4, <1>8, AppendData DEF TablesOK
  <2> QED BY <1>1, <1>5, <1>6, <2>1, <2>2 DEF StoreInv, TablesOK
<1> QED BY <1>7, <1>8 DEF InsertSet

LEMMA PutSetStep ==
    ASSUME StoreInv, NEW h \in Handlers, PutSet(h)
    PROVE  StoreInv'
<1> DEFINE r == req[h]
<1>1. HandlersOK /\ TablesOK /\ KeysUnique /\ Ready(pc[h], r, local[h])
  BY AtStep DEF StoreInv
<1>2. r \in Requests /\ r.op = "updateRRSet"
  BY <1>1 DEF PutSet, Ready
<1>3. /\ r.zone \in Zones /\ r.name \in Owners /\ r.type \in Types
      /\ r.ttl \in Nat /\ r.records \in Seq(Payload) /\ r.set \in Nat
  BY <1>2, RequestColumns DEF ZoneOps, SetOps
<1>4. EffectiveTTL(r.ttl) \in Nat
  BY <1>3, EffectiveTTLType
<1>5. zones' = zones /\ CountersOK'
  BY DEF PutSet, StoreInv, CountersOK
<1>6. HandlersOK'
  BY <1>1, NextOfChange DEF PutSet
<1>7. CASE UNCHANGED <<rrsets, rdata>>
  BY <1>1, <1>5, <1>6, <1>7 DEF StoreInv, TablesOK, KeysUnique
<1>8. CASE /\ \A i \in DOMAIN rrsets \ {r.set} : ~HasKey(rrsets[i], r.zone, r.name, r.type)
           /\ rrsets' = [rrsets EXCEPT ![r.set] =
                           NewSet(r.zone, r.name, r.type, EffectiveTTL(r.ttl))]
           /\ rdata' = WithoutData(r.set) \o NewData(r.set, r.records)
  <2>1. rrsets' \in Seq(SetRow) /\ KeysUnique'
    BY <1>1, <1>3, <1>4, <1>8, RewriteKey
  <2>2. WithoutData(r.set) \in Seq(DataRow)
    BY <1>1, WithoutDataType DEF TablesOK
  <2>3. rdata' \in Seq(DataRow)
    BY <1>3, <1>8, <2>2, AppendData
  <2> QED BY <1>1, <1>5, <1>6, <2>1, <2>3 DEF StoreInv, TablesOK
<1> QED BY <1>7, <1>8 DEF PutSet

LEMMA DeleteSetStep ==
    ASSUME StoreInv, NEW h \in Handlers, DeleteSet(h)
    PROVE  StoreInv'
<1> DEFINE f == [i \in DOMAIN rrsets |->
                   IF i = req[h].set /\ rrsets[i].zone = req[h].zone
                   THEN [rrsets[i] EXCEPT !.live = FALSE] ELSE rrsets[i]]
<1>1. HandlersOK /\ TablesOK /\ KeysUnique
  BY DEF StoreInv
<1>2. \A i \in DOMAIN rrsets : rrsets[i] \in SetRow
  BY <1>1, ElementOfSeq, LenProperties DEF TablesOK
<1>3. f \in [DOMAIN rrsets -> SetRow]
  BY <1>2 DEF SetRow
<1>4. \A i \in DOMAIN rrsets : /\ f[i].zone = rrsets[i].zone
                               /\ f[i].name = rrsets[i].name
                               /\ f[i].type = rrsets[i].type
  BY <1>2 DEF SetRow
<1>5. rrsets' = f
  BY DEF DeleteSet
<1>6. rrsets' \in Seq(SetRow) /\ KeysUnique'
  BY <1>1, <1>3, <1>4, <1>5, KeepKeys
<1>7. zones' = zones /\ rdata' = rdata /\ CountersOK'
  BY DEF DeleteSet, StoreInv, CountersOK
<1>8. HandlersOK'
  BY <1>1, NextOfChange DEF DeleteSet
<1> QED BY <1>1, <1>6, <1>7, <1>8 DEF StoreInv, TablesOK

-----------------------------------------------------------------------------
(***************************************************************************)
(* Imports: any number of rows are rewritten and any number added.         *)
(***************************************************************************)

LEMMA AddKeys ==
    ASSUME TablesOK, KeysUnique, NEW f \in [DOMAIN rrsets -> SetRow],
           \A i \in DOMAIN rrsets : /\ f[i].zone = rrsets[i].zone
                                    /\ f[i].name = rrsets[i].name
                                    /\ f[i].type = rrsets[i].type,
           NEW new \in Seq(SetRow),
           \A j \in DOMAIN new, i \in DOMAIN rrsets :
               ~HasKey(rrsets[i], new[j].zone, new[j].name, new[j].type),
           \A i, j \in DOMAIN new :
               HasKey(new[i], new[j].zone, new[j].name, new[j].type) => i = j,
           rrsets' = f \o new
    PROVE  /\ rrsets' \in Seq(SetRow) /\ KeysUnique'
           /\ \A i \in DOMAIN rrsets : i \in DOMAIN rrsets' /\ rrsets'[i] = f[i]
<1> DEFINE n == Len(rrsets)
           m == Len(new)
<1>1. DOMAIN rrsets = 1 .. n /\ n \in Nat
  BY LenProperties DEF TablesOK
<1>2. f \in Seq(SetRow) /\ Len(f) = n
  BY <1>1, FunctionIsSeq
<1>3. DOMAIN new = 1 .. m /\ m \in Nat
  BY LenProperties
<1>4. /\ rrsets' \in Seq(SetRow) /\ Len(rrsets') = n + m
      /\ \A i \in 1 .. n + m : rrsets'[i] = IF i <= n THEN f[i] ELSE new[i - n]
  <2> DEFINE c == f \o new
  <2>1. /\ c \in Seq(SetRow) /\ Len(c) = Len(f) + m
        /\ \A i \in 1 .. Len(f) + m : c[i] = IF i <= Len(f) THEN f[i] ELSE new[i - Len(f)]
    BY <1>2, ConcatProperties
  <2> HIDE DEF c
  <2> QED BY <1>2, <2>1 DEF c
<1>5. DOMAIN rrsets' = 1 .. n + m
  BY <1>4, LenProperties
<1> HIDE DEF n, m
<1>6. \A i \in 1 .. n : i \in DOMAIN rrsets' /\ rrsets'[i] = f[i]
  BY <1>1, <1>3, <1>4, <1>5
<1>7. ASSUME NEW i \in DOMAIN rrsets', NEW j \in DOMAIN rrsets',
             HasKey(rrsets'[i], rrsets'[j].zone, rrsets'[j].name, rrsets'[j].type)
      PROVE  i = j
  <2>1. CASE i \in 1 .. n /\ j \in 1 .. n
    BY <1>1, <1>6, <1>7, <2>1 DEF KeysUnique, HasKey
  <2>2. ASSUME NEW a \in 1 .. n, NEW b \in (1 .. n + m) \ (1 .. n)
        PROVE  /\ b - n \in DOMAIN new /\ rrsets'[b] = new[b - n]
               /\ ~HasKey(rrsets'[a], rrsets'[b].zone, rrsets'[b].name, rrsets'[b].type)
               /\ ~HasKey(rrsets'[b], rrsets'[a].zone, rrsets'[a].name, rrsets'[a].type)
    <3>1. b - n \in DOMAIN new /\ rrsets'[b] = new[b - n]
      BY <1>1, <1>3, <1>4, <2>2
    <3>2. ~HasKey(rrsets[a], rrsets'[b].zone, rrsets'[b].name, rrsets'[b].type)
      BY <1>1, <3>1
    <3> QED BY <1>1, <1>6, <3>1, <3>2 DEF HasKey
  <2>3. CASE i \in 1 .. n /\ j \notin 1 .. n
    BY <1>5, <1>7, <2>2, <2>3
  <2>4. CASE i \notin 1 .. n /\ j \in 1 .. n
    BY <1>5, <1>7, <2>2, <2>4
  <2>5. CASE i \notin 1 .. n /\ j \notin 1 .. n
    <3>1. i - n \in DOMAIN new /\ j - n \in DOMAIN new
          /\ rrsets'[i] = new[i - n] /\ rrsets'[j] = new[j - n]
      BY <1>1, <1>3, <1>4, <1>5, <2>5
    <3>2. i - n = j - n
      BY <1>7, <3>1
    <3> QED BY <1>1, <1>3, <1>5, <3>2
  <2> QED BY <2>1, <2>3, <2>4, <2>5
<1> QED BY <1>1, <1>4, <1>6, <1>7 DEF KeysUnique

(* A numbering of S lists it in ascending order, each number once.         *)
Numberings(S) ==
    {f \in [1 .. Cardinality(S) -> S] :
        /\ \A k \in S : \E i \in DOMAIN f : f[i] = k
        /\ \A i, j \in DOMAIN f : i < j => f[i] < f[j]}

(* InOrder is one: ranks differ, so they are all of 1 .. Cardinality(S).   *)
LEMMA InOrderNumbers ==
    ASSUME NEW n \in Nat, NEW S \in SUBSET (1 .. n)
    PROVE  InOrder(S) \in Numberings(S)
<1> DEFINE m       == Cardinality(S)
           UpTo(k) == {j \in S : j <= k}
           rank    == [k \in S |-> Cardinality(UpTo(k))]
           f       == InOrder(S)
<1>1. IsFiniteSet(S) /\ m \in Nat
  <2>1. IsFiniteSet(1 .. n)
    BY FS_Interval
  <2> QED BY <2>1, FS_Subset, FS_CardinalityType
<1>2. \A k \in S : k \in Int
  OBVIOUS
<1>3. ASSUME NEW k \in S
      PROVE  /\ IsFiniteSet(UpTo(k)) /\ Cardinality(UpTo(k)) \in 1 .. m
             /\ rank[k] = Cardinality(UpTo(k)) /\ rank[k] \in Int
  <2>1. UpTo(k) \in SUBSET S /\ k \in UpTo(k)
    BY <1>2
  <2>2. IsFiniteSet(UpTo(k)) /\ Cardinality(UpTo(k)) <= m
    BY <1>1, <2>1, FS_Subset
  <2>3. Cardinality(UpTo(k)) \in Nat /\ Cardinality(UpTo(k)) # 0
    BY <2>1, <2>2, FS_CardinalityType, FS_EmptySet
  <2> QED BY <1>1, <2>2, <2>3
<1>4. ASSUME NEW j \in S, NEW k \in S, j < k PROVE rank[j] < rank[k]
  <2>1. UpTo(j) \in SUBSET UpTo(k) /\ k \in UpTo(k) /\ k \notin UpTo(j)
    <3>1. j \in Int /\ k \in Int
      BY <1>2
    <3>2. \A i \in UpTo(j) : i \in UpTo(k)
      BY <1>2, <1>4, <3>1
    <3>3. k \in UpTo(k) /\ k \notin UpTo(j)
      BY <1>4, <3>1
    <3> QED BY <3>2, <3>3
  <2>2. /\ Cardinality(UpTo(j)) <= Cardinality(UpTo(k))
        /\ Cardinality(UpTo(j)) # Cardinality(UpTo(k))
    BY <1>3, <2>1, FS_Subset
  <2> QED BY <1>1, <1>3, <2>2
<1>5. \A i \in 1 .. m : \E k \in S : rank[k] = i
  <2>1. rank \in [S -> 1 .. m]
    BY <1>3
  <2>2. \A j, k \in S : rank[j] = rank[k] => j = k
    <3>1. \A k \in S : rank[k] \in Int
      BY <1>1, <1>3
    <3> HIDE DEF rank
    <3> QED BY <1>2, <1>4, <3>1
  <2> HIDE DEF rank
  <2>3. rank \in Injection(S, 1 .. m)
    BY <2>1, <2>2 DEF Injection, IsInjective
  <2>4. IsFiniteSet(1 .. m) /\ Cardinality(1 .. m) = m
    BY <1>1, FS_Interval
  <2>5. rank \in Surjection(S, 1 .. m)
    BY <2>3, <2>4, FS_Injection
  <2> QED BY <2>5 DEF Surjection
<1>6. DOMAIN f = 1 .. m /\ \A i \in 1 .. m : f[i] \in S /\ rank[f[i]] = i
  <2>1. DOMAIN f = 1 .. m
    BY DEF InOrder
  <2>2. ASSUME NEW i \in 1 .. m PROVE f[i] \in S /\ rank[f[i]] = i
    <3>1. \E k \in S : Cardinality(UpTo(k)) = i
      BY <1>3, <1>5
    <3>2. f[i] \in S /\ Cardinality(UpTo(f[i])) = i
      BY <3>1 DEF InOrder
    <3> QED BY <1>3, <3>2
  <2> QED BY <2>1, <2>2
<1>7. f \in [1 .. m -> S]
  BY <1>6 DEF InOrder
<1> HIDE DEF f, rank
<1>8. \A j, k \in S : rank[j] = rank[k] => j = k
  <2>1. \A k \in S : rank[k] \in Int
    BY <1>3
  <2> QED BY <1>2, <1>4, <2>1
<1>9. \A k \in S : \E i \in DOMAIN f : f[i] = k
  <2>1. ASSUME NEW k \in S PROVE \E i \in DOMAIN f : f[i] = k
    <3>1. rank[k] \in 1 .. m
      BY <1>3
    <3> QED BY <1>6, <1>8, <3>1
  <2> QED BY <2>1
<1>10. ASSUME NEW i \in DOMAIN f, NEW j \in DOMAIN f, i < j PROVE f[i] < f[j]
  <2>1. f[i] \in S /\ f[j] \in S /\ rank[f[i]] = i /\ rank[f[j]] = j /\ i \in Int /\ j \in Int
    BY <1>1, <1>6
  <2>2. f[i] \in Int /\ f[j] \in Int
    BY <1>2, <2>1
  <2>3. ASSUME f[j] < f[i] PROVE FALSE
    <3>1. rank[f[j]] < rank[f[i]]
      BY <1>4, <2>1, <2>3
    <3> QED BY <1>10, <2>1, <3>1
  <2>4. f[i] # f[j]
    BY <1>10, <2>1
  <2> QED BY <2>2, <2>3, <2>4
<1>11. InOrder(S) \in [1 .. Cardinality(S) -> S]
  BY <1>7 DEF f
<1> QED BY <1>9, <1>10, <1>11 DEF Numberings, f

(* Hence each row of an import gets a number of its own, from 1.           *)
LEMMA NumberingsType ==
    ASSUME NEW n \in Nat, NEW S \in SUBSET (1 .. n), NEW f \in Numberings(S)
    PROVE  /\ Cardinality(S) \in Nat
           /\ f \in [1 .. Cardinality(S) -> S]
           /\ \A k \in S : \E i \in DOMAIN f : f[i] = k
           /\ \A i, j \in DOMAIN f : f[i] = f[j] => i = j
<1>1. IsFiniteSet(S)
  <2>1. IsFiniteSet(1 .. n)
    BY FS_Interval
  <2> QED BY <2>1, FS_Subset
<1>2. Cardinality(S) \in Nat
  BY <1>1, FS_CardinalityType
<1>3. /\ f \in [1 .. Cardinality(S) -> S]
      /\ \A k \in S : \E i \in DOMAIN f : f[i] = k
      /\ \A i, j \in DOMAIN f : i < j => f[i] < f[j]
  BY DEF Numberings
<1>4. ASSUME NEW i \in DOMAIN f, NEW j \in DOMAIN f, f[i] = f[j] PROVE i = j
  <2>1. i \in Int /\ j \in Int
    BY <1>2, <1>3
  <2>2. f[i] \in Int /\ f[j] \in Int
    <3>1. \A k \in 1 .. n : k \in Int
      OBVIOUS
    <3> QED BY <1>3, <3>1
  <2>3. ~(i < j) /\ ~(j < i)
    BY <1>3, <1>4, <2>2
  <2> QED BY <2>1, <2>3
<1> QED BY <1>2, <1>3, <1>4

(* Where the rows of an import are.                                        *)
LEMMA ImportRows ==
    ASSUME TablesOK, NEW r \in Requests, r.op = "importZone"
    PROVE  /\ r.zone \in Zones /\ WellFormedImport(r)
           /\ Len(r.sets) \in Nat /\ DOMAIN r.sets = 1 .. Len(r.sets)
           /\ Len(r.records) \in Nat /\ DOMAIN r.records = 1 .. Len(r.records)
           /\ \A k \in DOMAIN r.sets :
                 /\ r.sets[k] \in ImportSet
                 /\ EffectiveTTL(r.sets[k].ttl) \in Nat
           /\ \A k \in DOMAIN r.records : r.records[k] \in ImportRecord
           /\ Created(r) \in SUBSET DOMAIN r.sets
           /\ Inserted(r) \in SUBSET DOMAIN r.records
           /\ Len(rrsets) \in Nat /\ DOMAIN rrsets = 1 .. Len(rrsets)
           /\ Len(rdata) \in Nat /\ DOMAIN rdata = 1 .. Len(rdata)
           /\ \A i \in DOMAIN rrsets : rrsets[i] \in SetRow
           /\ \A d \in DOMAIN rdata : rdata[d] \in DataRow
<1>1. r.sets \in Seq(ImportSet) /\ r.records \in Seq(ImportRecord) /\ r.zone \in Zones
  BY RequestColumns DEF ZoneOps, SetOps
<1>2. WellFormedImport(r)
  BY StoreAssumption
<1>3. /\ \A k \in DOMAIN r.sets : r.sets[k] \in ImportSet
      /\ \A k \in DOMAIN r.records : r.records[k] \in ImportRecord
      /\ Len(r.sets) \in Nat /\ DOMAIN r.sets = 1 .. Len(r.sets)
      /\ Len(r.records) \in Nat /\ DOMAIN r.records = 1 .. Len(r.records)
  BY <1>1, ElementOfSeq, LenProperties
<1>4. \A k \in DOMAIN r.sets : EffectiveTTL(r.sets[k].ttl) \in Nat
  BY <1>3, EffectiveTTLType DEF ImportSet
<1>5. /\ Len(rrsets) \in Nat /\ DOMAIN rrsets = 1 .. Len(rrsets)
      /\ Len(rdata) \in Nat /\ DOMAIN rdata = 1 .. Len(rdata)
      /\ \A i \in DOMAIN rrsets : rrsets[i] \in SetRow
      /\ \A d \in DOMAIN rdata : rdata[d] \in DataRow
  BY ElementOfSeq, LenProperties DEF TablesOK
<1> QED BY <1>1, <1>2, <1>3, <1>4, <1>5 DEF Created, Inserted

LEMMA SetNumberType ==
    ASSUME TablesOK, NEW r \in Requests, r.op = "importZone",
           NEW f \in Numberings(Created(r)), NEW k \in DOMAIN r.sets
    PROVE  SetNumber(r, f, k) \in Nat
<1>1. CASE k \in Created(r)
  <2>1. /\ Cardinality(Created(r)) \in Nat
        /\ f \in [1 .. Cardinality(Created(r)) -> Created(r)]
        /\ \E i \in DOMAIN f : f[i] = k
    <3>1. Len(r.sets) \in Nat /\ Created(r) \in SUBSET (1 .. Len(r.sets))
      BY ImportRows
    <3>2. /\ Cardinality(Created(r)) \in Nat
          /\ f \in [1 .. Cardinality(Created(r)) -> Created(r)]
          /\ \A j \in Created(r) : \E i \in DOMAIN f : f[i] = j
      BY <3>1, NumberingsType
    <3> QED BY <1>1, <3>2
  <2>2. (CHOOSE i \in DOMAIN f : f[i] = k) \in DOMAIN f
    BY <2>1
  <2>3. (CHOOSE i \in DOMAIN f : f[i] = k) \in Nat
    BY <2>1, <2>2
  <2> QED BY <1>1, <2>3, ImportRows DEF SetNumber
<1>2. CASE k \notin Created(r)
  <2>1. Updated(r, k) # {} /\ Updated(r, k) \subseteq DOMAIN rrsets
    BY <1>2 DEF Created, Updated, LiveSets
  <2>2. (CHOOSE s \in Updated(r, k) : TRUE) \in DOMAIN rrsets
    BY <2>1
  <2> QED BY <1>2, <2>2, ImportRows DEF SetNumber
<1> QED BY <1>1, <1>2

\* A row an import updates or deletes keeps its key.
LEMMA ImportedRowType ==
    ASSUME TablesOK, NEW r \in Requests, r.op = "importZone", NEW i \in DOMAIN rrsets
    PROVE  /\ ImportedRow(r, i) \in SetRow
           /\ ImportedRow(r, i).zone = rrsets[i].zone
           /\ ImportedRow(r, i).name = rrsets[i].name
           /\ ImportedRow(r, i).type = rrsets[i].type
<1>1. rrsets[i] \in SetRow
  BY ImportRows
<1>2. CASE r.mode = "replace" /\ rrsets[i].zone = r.zone
  <2>1. ImportedRow(r, i) = [rrsets[i] EXCEPT !.live = FALSE]
    BY <1>2 DEF ImportedRow, Updated
  <2> QED BY <1>1, <2>1 DEF SetRow
<1>3. CASE /\ ~(r.mode = "replace" /\ rrsets[i].zone = r.zone)
           /\ \E k \in DOMAIN r.sets : i \in Updated(r, k)
  <2>1. PICK k \in DOMAIN r.sets :
            ImportedRow(r, i) = [rrsets[i] EXCEPT !.ttl = EffectiveTTL(r.sets[k].ttl)]
    BY <1>3 DEF ImportedRow
  <2>2. EffectiveTTL(r.sets[k].ttl) \in Nat
    BY ImportRows
  <2> QED BY <1>1, <2>1, <2>2 DEF SetRow
<1>4. CASE /\ ~(r.mode = "replace" /\ rrsets[i].zone = r.zone)
           /\ ~\E k \in DOMAIN r.sets : i \in Updated(r, k)
  BY <1>1, <1>4 DEF ImportedRow
<1> QED BY <1>2, <1>3, <1>4

(* The two parts of ImportedSets: rows that are there, and new ones.        *)
OldSets(r) == [i \in DOMAIN rrsets |-> ImportedRow(r, i)]

NewSets(r, f) ==
    [i \in DOMAIN f |-> NewSet(r.zone, r.sets[f[i]].name, r.sets[f[i]].type,
                               EffectiveTTL(r.sets[f[i]].ttl))]

\* Row i of the new ones is made for an rrset the import has to create.
NewFor(r, f, i) ==
    /\ f[i] \in Created(r) /\ f[i] \in DOMAIN r.sets
    /\ NewSets(r, f)[i] \in SetRow /\ NewSets(r, f)[i].zone = r.zone
    /\ NewSets(r, f)[i].name = r.sets[f[i]].name /\ NewSets(r, f)[i].type = r.sets[f[i]].type

LEMMA ImportedSetsParts ==
    ASSUME TablesOK, NEW r \in Requests, r.op = "importZone",
           NEW f \in Numberings(Created(r))
    PROVE  /\ OldSets(r) \in Seq(SetRow) /\ DOMAIN OldSets(r) = DOMAIN rrsets
           /\ NewSets(r, f) \in Seq(SetRow) /\ DOMAIN NewSets(r, f) = DOMAIN f
           /\ \A i \in DOMAIN f : NewFor(r, f, i)
           /\ \A i, j \in DOMAIN f : f[i] = f[j] => i = j
           /\ ImportedSets(r, f) = OldSets(r) \o NewSets(r, f)
<1> DEFINE N   == Cardinality(Created(r))
           old == OldSets(r)
           new == NewSets(r, f)
<1>1. /\ N \in Nat /\ f \in [1 .. N -> Created(r)]
      /\ \A i, j \in DOMAIN f : f[i] = f[j] => i = j
  <2>1. Len(r.sets) \in Nat /\ Created(r) \in SUBSET (1 .. Len(r.sets))
    BY ImportRows
  <2> QED BY <2>1, NumberingsType
<1>2. old \in [DOMAIN rrsets -> SetRow] /\ DOMAIN rrsets = 1 .. Len(rrsets)
      /\ Len(rrsets) \in Nat
  <2>1. DOMAIN rrsets = 1 .. Len(rrsets) /\ Len(rrsets) \in Nat
    BY LenProperties DEF TablesOK
  <2> QED BY <2>1, ImportedRowType DEF OldSets
<1>3. old \in Seq(SetRow)
  BY <1>2, FunctionIsSeq
<1>4. ASSUME NEW i \in DOMAIN f PROVE NewFor(r, f, i)
  <2>1. f[i] \in Created(r) /\ f[i] \in DOMAIN r.sets
    BY <1>1, ImportRows
  <2>2. /\ r.sets[f[i]].name \in Owners /\ r.sets[f[i]].type \in Types
        /\ EffectiveTTL(r.sets[f[i]].ttl) \in Nat /\ r.zone \in Zones
    BY <2>1, ImportRows DEF ImportSet
  <2>3. new[i] = NewSet(r.zone, r.sets[f[i]].name, r.sets[f[i]].type,
                        EffectiveTTL(r.sets[f[i]].ttl))
    BY DEF NewSets
  <2> HIDE DEF new
  <2> QED BY <2>1, <2>2, <2>3, NewSetType DEF NewFor, new
<1>5. new \in Seq(SetRow) /\ DOMAIN new = DOMAIN f
  <2>1. new \in [1 .. N -> SetRow]
    BY <1>1, <1>4 DEF NewFor, NewSets
  <2> HIDE DEF new
  <2> QED BY <1>1, <2>1, FunctionIsSeq
<1>6. ImportedSets(r, f) = old \o new
  BY DEF ImportedSets, OldSets, NewSets
<1> QED BY <1>1, <1>2, <1>3, <1>4, <1>5, <1>6

(* The rrsets of an import: types, the unique index and the old rows.      *)
LEMMA ImportedSetsKeys ==
    ASSUME TablesOK, KeysUnique, NEW r \in Requests, r.op = "importZone", Importable(r),
           NEW f \in Numberings(Created(r)), rrsets' = ImportedSets(r, f)
    PROVE  /\ rrsets' \in Seq(SetRow) /\ KeysUnique'
           /\ \A i \in DOMAIN rrsets :
                 i \in DOMAIN rrsets' /\ rrsets'[i].zone = rrsets[i].zone
<1> DEFINE old == OldSets(r)
           new == NewSets(r, f)
<1>1. \A i, j \in DOMAIN f : f[i] = f[j] => i = j
  BY ImportedSetsParts
<1>3. old \in [DOMAIN rrsets -> SetRow]
  BY ImportedRowType DEF OldSets
<1>4. ASSUME NEW i \in DOMAIN f PROVE NewFor(r, f, i)
  BY ImportedSetsParts
<1>5. new \in Seq(SetRow) /\ DOMAIN new = DOMAIN f
  BY ImportedSetsParts
<1>6. \A i \in DOMAIN rrsets : /\ old[i].zone = rrsets[i].zone
                               /\ old[i].name = rrsets[i].name
                               /\ old[i].type = rrsets[i].type
  BY ImportedRowType DEF OldSets
<1>7. rrsets' = old \o new
  BY ImportedSetsParts
<1> HIDE DEF old, new
<1>8. ASSUME NEW j \in DOMAIN new, NEW i \in DOMAIN rrsets
      PROVE  ~HasKey(rrsets[i], new[j].zone, new[j].name, new[j].type)
  BY <1>4, <1>5 DEF Importable, KeyTaken, NewFor, new
<1>9. ASSUME NEW i \in DOMAIN new, NEW j \in DOMAIN new,
             HasKey(new[i], new[j].zone, new[j].name, new[j].type)
      PROVE  i = j
  <2>1. r.sets[f[i]].name = r.sets[f[j]].name /\ r.sets[f[i]].type = r.sets[f[j]].type
    BY <1>4, <1>5, <1>9 DEF HasKey, NewFor, new
  <2>2. f[i] = f[j]
    BY <1>4, <1>5, <2>1, ImportRows DEF WellFormedImport, NewFor
  <2> QED BY <1>1, <1>5, <2>2
<1>10. /\ rrsets' \in Seq(SetRow) /\ KeysUnique'
       /\ \A i \in DOMAIN rrsets : i \in DOMAIN rrsets' /\ rrsets'[i] = old[i]
  BY <1>3, <1>5, <1>6, <1>7, <1>8, <1>9, AddKeys
<1> QED BY <1>6, <1>10

(* The two parts of ImportedData: rows that are there, and new ones.        *)
RowsMoved(r, f) ==
    [d \in DOMAIN rdata |->
        [rdata[d] EXCEPT
            !.live = @ /\ ~Dropped(r, d),
            !.set  = IF Naming(r, d) = {} THEN @
                     ELSE SetNumber(r, f, r.records[CHOOSE n \in Naming(r, d) : TRUE].of)]]

RowsAdded(r, f, g) ==
    [i \in DOMAIN g |-> [set |-> SetNumber(r, f, r.records[g[i]].of),
                         payload |-> r.records[g[i]].payload, live |-> TRUE]]

LEMMA ImportedDataType ==
    ASSUME TablesOK, NEW r \in Requests, r.op = "importZone",
           NEW f \in Numberings(Created(r)), NEW g \in Numberings(Inserted(r))
    PROVE  /\ RowsMoved(r, f) \in Seq(DataRow) /\ RowsAdded(r, f, g) \in Seq(DataRow)
           /\ ImportedData(r, f, g) = RowsMoved(r, f) \o RowsAdded(r, f, g)
           /\ ImportedData(r, f, g) \in Seq(DataRow)
<1> DEFINE name(d) == r.records[CHOOSE n \in Naming(r, d) : TRUE].of
           old == RowsMoved(r, f)
           N   == Cardinality(Inserted(r))
           new == RowsAdded(r, f, g)
<1>1. N \in Nat /\ g \in [1 .. N -> Inserted(r)]
  <2>1. Len(r.records) \in Nat /\ Inserted(r) \in SUBSET (1 .. Len(r.records))
    BY ImportRows
  <2> QED BY <2>1, NumberingsType
<1>2. ASSUME NEW n \in DOMAIN r.records
      PROVE  SetNumber(r, f, r.records[n].of) \in Nat /\ r.records[n].payload \in Payload
  <2>1. r.records[n].of \in DOMAIN r.sets
    BY ImportRows DEF WellFormedImport
  <2> QED BY <2>1, SetNumberType, ImportRows DEF ImportRecord
<1>3. ASSUME NEW d \in DOMAIN rdata PROVE old[d] \in DataRow
  <2> DEFINE s == IF Naming(r, d) = {} THEN rdata[d].set ELSE SetNumber(r, f, name(d))
             b == rdata[d].live /\ ~Dropped(r, d)
  <2>1. rdata[d] \in DataRow
    BY ImportRows
  <2>2. s \in Nat
    <3>1. CASE Naming(r, d) = {}
      BY <2>1, <3>1 DEF DataRow
    <3>2. CASE Naming(r, d) # {}
      <4>1. (CHOOSE n \in Naming(r, d) : TRUE) \in DOMAIN r.records
        BY <3>2 DEF Naming
      <4> QED BY <1>2, <3>2, <4>1
    <3> QED BY <3>1, <3>2
  <2>3. b \in BOOLEAN
    OBVIOUS
  <2>4. old[d] = [rdata[d] EXCEPT !.live = b, !.set = s]
    BY <2>1 DEF RowsMoved, DataRow
  <2> HIDE DEF s, b, old
  <2> QED BY <2>1, <2>2, <2>3, <2>4 DEF DataRow
<1>4. old \in [DOMAIN rdata -> DataRow]
  <2>1. old = [d \in DOMAIN rdata |-> old[d]]
    BY DEF RowsMoved
  <2> HIDE DEF old
  <2> QED BY <1>3, <2>1
<1>5. ASSUME NEW i \in DOMAIN g PROVE new[i] \in DataRow
  <2>1. g[i] \in DOMAIN r.records
    BY <1>1, ImportRows
  <2> QED BY <1>2, <2>1 DEF RowsAdded, DataRow
<1>6. new \in [1 .. N -> DataRow]
  BY <1>1, <1>5 DEF RowsAdded
<1>7. ImportedData(r, f, g) = old \o new
  BY DEF ImportedData, RowsMoved, RowsAdded
<1> HIDE DEF old, new
<1>8. old \in Seq(DataRow) /\ new \in Seq(DataRow)
  BY <1>1, <1>4, <1>6, FunctionIsSeq, RewriteData DEF TablesOK
<1>9. ImportedData(r, f, g) \in Seq(DataRow)
  BY <1>7, <1>8, ConcatProperties
<1> QED BY <1>7, <1>8, <1>9 DEF old, new

(* An import that is not refused adds its rows in a numbering.             *)
LEMMA ImportedInOrder ==
    ASSUME StoreInv, NEW h \in Handlers, ImportSets(h)
    PROVE  \/ UNCHANGED <<rrsets, rdata>>
           \/ /\ Importable(req[h])
              /\ \E f \in Numberings(Created(req[h])), g \in Numberings(Inserted(req[h])) :
                    /\ rrsets' = ImportedSets(req[h], f)
                    /\ rdata' = ImportedData(req[h], f, g)
<1>1. TablesOK /\ Ready(pc[h], req[h], local[h])
  BY AtStep DEF StoreInv
<1>2. PICK r \in Requests : r = req[h] /\ r.op = "importZone"
  BY <1>1 DEF ImportSets, Ready
<1>3. /\ Len(r.sets) \in Nat /\ Created(r) \in SUBSET (1 .. Len(r.sets))
      /\ Len(r.records) \in Nat /\ Inserted(r) \in SUBSET (1 .. Len(r.records))
  BY <1>1, <1>2, ImportRows
<1>4. /\ InOrder(Created(r)) \in Numberings(Created(r))
      /\ InOrder(Inserted(r)) \in Numberings(Inserted(r))
  BY <1>3, InOrderNumbers
<1> QED BY <1>2, <1>4 DEF ImportSets

LEMMA ImportSetsStep ==
    ASSUME StoreInv, NEW h \in Handlers, ImportSets(h)
    PROVE  StoreInv'
<1> DEFINE r == req[h]
<1>1. HandlersOK /\ TablesOK /\ KeysUnique /\ Ready(pc[h], r, local[h])
  BY AtStep DEF StoreInv
<1>2. r \in Requests /\ r.op = "importZone"
  BY <1>1 DEF ImportSets, Ready
<1>3. zones' = zones /\ CountersOK'
  BY DEF ImportSets, StoreInv, CountersOK
<1>4. HandlersOK'
  BY <1>1, NextOfChange DEF ImportSets
<1>5. CASE UNCHANGED <<rrsets, rdata>>
  BY <1>1, <1>3, <1>4, <1>5 DEF StoreInv, TablesOK, KeysUnique
<1>6. ASSUME Importable(r), NEW f \in Numberings(Created(r)),
             NEW g \in Numberings(Inserted(r)),
             rrsets' = ImportedSets(r, f), rdata' = ImportedData(r, f, g)
      PROVE  StoreInv'
  <2>1. rrsets' \in Seq(SetRow) /\ KeysUnique'
    BY <1>1, <1>2, <1>6, ImportedSetsKeys
  <2>2. rdata' \in Seq(DataRow)
    BY <1>1, <1>2, <1>6, ImportedDataType
  <2> QED BY <1>1, <1>3, <1>4, <2>1, <2>2 DEF StoreInv, TablesOK
<1> QED BY <1>5, <1>6, ImportedInOrder

-----------------------------------------------------------------------------
LEMMA CreateSOAStep ==
    ASSUME StoreInv, NEW h \in Handlers, CreateSOA(h)
    PROVE  StoreInv'
<1> DEFINE z == req[h].zone
<1>1. HandlersOK /\ TablesOK /\ KeysUnique /\ Ready(pc[h], req[h], local[h])
  BY AtStep DEF StoreInv
<1>2. req[h] \in Requests /\ req[h].op \in SetOps
  BY <1>1 DEF CreateSOA, Ready
<1>3. z \in Zones /\ Apex[z] \in Owners /\ "SOA" \in Types /\ SOATTL \in Nat
      /\ DefaultSOA \in Payload
  BY <1>2, RequestColumns, StoreAssumption DEF ZoneOps
<1>4. Len(rrsets) + 1 \in Nat
  BY <1>1, LenProperties DEF TablesOK
<1>5. zones' = zones /\ CountersOK'
  BY DEF CreateSOA, StoreInv, CountersOK
<1>6. HandlersOK'
  BY <1>1, NextOfChange DEF CreateSOA
<1>7. CASE UNCHANGED <<rrsets, rdata>>
  BY <1>1, <1>5, <1>6, <1>7 DEF StoreInv, TablesOK, KeysUnique
<1>8. CASE /\ ~KeyTaken(z, Apex[z], "SOA")
           /\ rrsets' = Append(rrsets, NewSet(z, Apex[z], "SOA", SOATTL))
           /\ rdata' = rdata \o NewData(Len(rrsets) + 1, <<DefaultSOA>>)
  <2>1. rrsets' \in Seq(SetRow) /\ KeysUnique'
    BY <1>1, <1>3, <1>8, AddKey
  <2>2. <<DefaultSOA>> \in Seq(Payload)
    BY <1>3
  <2>3. rdata' \in Seq(DataRow)
    BY <1>1, <1>4, <1>8, <2>2, AppendData DEF TablesOK
  <2> QED BY <1>1, <1>5, <1>6, <2>1, <2>3 DEF StoreInv, TablesOK
<1> QED BY <1>7, <1>8 DEF CreateSOA

(* Steps that write rows of r_data and no other table.                     *)
LEMMA DataSteps ==
    ASSUME StoreInv, NEW h \in Handlers,
           WriteSOA(h) \/ WebInsertData(h) \/ WebDeleteRecord(h) \/ WebSaveRecord(h)
    PROVE  StoreInv'
<1>1. HandlersOK /\ TablesOK /\ KeysUnique /\ Ready(pc[h], req[h], local[h])
      /\ local[h] \in Local
  BY AtStep DEF StoreInv
<1>2. zones' = zones /\ rrsets' = rrsets /\ CountersOK'
  BY DEF WriteSOA, WebInsertData, WebDeleteRecord, WebSaveRecord, StoreInv, CountersOK
<1>3. HandlersOK'
  BY <1>1, NextOfChange, Responds, NextRecordMoves
     DEF WriteSOA, WebInsertData, WebDeleteRecord, WebSaveRecord
<1>4. rdata \in Seq(DataRow) /\ \A i \in DOMAIN rdata : rdata[i] \in DataRow
  BY <1>1, ElementOfSeq, LenProperties DEF TablesOK
<1>5. \A i \in DOMAIN rdata : /\ rdata[i].set \in Nat /\ rdata[i].live \in BOOLEAN
                              /\ rdata[i].payload \in Payload
  BY <1>4 DEF DataRow
<1>6. rdata = [i \in DOMAIN rdata |-> rdata[i]]
  BY <1>4, LenProperties
<1>7. ASSUME WriteSOA(h) PROVE rdata' \in Seq(DataRow)
  <2> DEFINE t == local[h].text
  <2>1. t.data \in Data /\ Bumped(t.serial) \in Int
    BY <1>1, <1>7, StoreAssumption DEF WriteSOA, Ready, Payload, Bumped
  <2>2. ASSUME NEW i \in DOMAIN rdata
        PROVE  [rdata[i] EXCEPT !.payload.data = t.data,
                                !.payload.serial = Bumped(t.serial)] \in DataRow
    BY <1>4, <1>5, <2>1 DEF DataRow, Payload
  <2>3. rdata' \in [DOMAIN rdata -> DataRow]
    BY <1>4, <1>6, <1>7, <2>2 DEF WriteSOA
  <2> QED BY <1>4, <2>3, RewriteData
<1>8. ASSUME WebInsertData(h) PROVE rdata' \in Seq(DataRow)
  <2> DEFINE w == Wanted(req[h], local[h])
  <2>1. w.payload \in Payload
    BY <1>1, <1>8, WantedType DEF WebInsertData, Ready
  <2> HIDE DEF w
  <2>2. <<w.payload>> \in Seq(Payload) /\ local[h].set \in Nat
    BY <1>1, <2>1 DEF Local
  <2>3. rdata' = rdata \o NewData(local[h].set, <<w.payload>>)
    BY <1>8 DEF WebInsertData, w
  <2> QED BY <1>4, <2>2, <2>3, AppendData
<1>9. ASSUME WebDeleteRecord(h) PROVE rdata' \in Seq(DataRow)
  <2>1. rdata' \in [DOMAIN rdata -> DataRow]
    BY <1>4, <1>9 DEF WebDeleteRecord, DataRow
  <2> QED BY <1>4, <2>1, RewriteData
<1>10. ASSUME WebSaveRecord(h) PROVE rdata' \in Seq(DataRow)
  <2>1. req[h] \in Requests /\ req[h].op = "webUpdateRecord"
    BY <1>1, <1>10 DEF WebSaveRecord, Ready
  <2>2. req[h].payload \in Payload
    BY <2>1, RequestColumns
  <2>3. [set |-> local[h].set, payload |-> req[h].payload, live |-> TRUE] \in DataRow
    BY <1>1, <2>2 DEF DataRow, Local
  <2>4. rdata' \in [DOMAIN rdata -> DataRow]
    BY <1>4, <1>6, <1>10, <2>3 DEF WebSaveRecord
  <2> QED BY <1>4, <2>4, RewriteData
<1> QED BY <1>1, <1>2, <1>3, <1>7, <1>8, <1>9, <1>10 DEF StoreInv, TablesOK, KeysUnique

LEMMA WebInsertSetStep ==
    ASSUME StoreInv, NEW h \in Handlers, WebInsertSet(h)
    PROVE  StoreInv'
<1> DEFINE z == req[h].zone
           w == Wanted(req[h], local[h])
           l == [local[h] EXCEPT !.set = Len(rrsets) + 1]
<1>1. HandlersOK /\ TablesOK /\ KeysUnique /\ Ready(pc[h], req[h], local[h])
      /\ local[h] \in Local
  BY AtStep DEF StoreInv
<1>2. /\ req[h] \in Requests /\ req[h].op \in WebOps
      /\ req[h].op = "webApplyTemplate" => local[h].at \in DOMAIN req[h].records
  BY <1>1 DEF WebInsertSet, Ready
<1>3. z \in Zones /\ w.name \in Owners /\ w.type \in Types /\ w.ttl \in Nat
  BY <1>2, WantedType
<1>4. zones' = zones /\ rdata' = rdata /\ CountersOK' /\ pc[h] = "webInsertSet"
  BY DEF WebInsertSet, StoreInv, CountersOK
<1>5. \/ NextRecord(h) /\ UNCHANGED rrsets
      \/ /\ ~KeyTaken(z, w.name, w.type)
         /\ rrsets' = Append(rrsets, NewSet(z, w.name, w.type, w.ttl))
         /\ local' = [local EXCEPT ![h].set = Len(rrsets) + 1]
         /\ Goto(h, "webInsertData")
         /\ UNCHANGED req
  BY DEF WebInsertSet
<1> HIDE DEF w
<1>6. CASE NextRecord(h) /\ UNCHANGED rrsets
  <2>1. HandlersOK'
    BY <1>1, <1>4, <1>6, NextRecordMoves
  <2> QED BY <1>1, <1>4, <1>6, <2>1 DEF StoreInv, TablesOK, KeysUnique
<1>7. CASE /\ ~KeyTaken(z, w.name, w.type)
           /\ rrsets' = Append(rrsets, NewSet(z, w.name, w.type, w.ttl))
           /\ local' = [local EXCEPT ![h].set = Len(rrsets) + 1]
           /\ Goto(h, "webInsertData")
           /\ UNCHANGED req
  <2>1. rrsets' \in Seq(SetRow) /\ KeysUnique'
    BY <1>1, <1>3, <1>7, AddKey
  <2>2. Len(rrsets) + 1 \in Nat
    BY <1>1, LenProperties DEF TablesOK
  <2>3. l \in Local /\ local' = [local EXCEPT ![h] = l] /\ l.at = local[h].at
    BY <1>1, <1>7, <2>2 DEF Local
  <2>4. "webInsertData" \in PC /\ Ready("webInsertData", req[h], l)
    BY <1>2, <2>3 DEF Ready, PC
  <2> HIDE DEF l
  <2>5. HandlersOK'
    BY <1>1, <1>7, <2>3, <2>4, Reads
  <2> QED BY <1>1, <1>4, <2>1, <2>5 DEF StoreInv, TablesOK
<1> QED BY <1>5, <1>6, <1>7

LEMMA WebSaveTTLStep ==
    ASSUME StoreInv, NEW h \in Handlers, WebSaveTTL(h)
    PROVE  StoreInv'
<1> DEFINE s   == local[h].set
           row == local[h].row
<1>1. HandlersOK /\ TablesOK /\ KeysUnique /\ Ready(pc[h], req[h], local[h])
  BY AtStep DEF StoreInv
<1>2. req[h] \in Requests /\ req[h].op = "webUpdateRecord" /\ row \in SetRow
  BY <1>1 DEF WebSaveTTL, Ready
<1>3. row.zone \in Zones /\ row.name \in Owners /\ row.type \in Types
      /\ WebTTLOf(req[h].ttl) \in Nat
  BY <1>2, RequestColumns, EffectiveTTLType DEF SetRow
<1>4. zones' = zones /\ rdata' = rdata /\ CountersOK'
  BY DEF WebSaveTTL, StoreInv, CountersOK
<1>5. HandlersOK'
  BY <1>1, Responds DEF WebSaveTTL
<1>6. CASE UNCHANGED rrsets
  BY <1>1, <1>4, <1>5, <1>6 DEF StoreInv, TablesOK, KeysUnique
<1>7. CASE /\ \A i \in DOMAIN rrsets \ {s} : ~HasKey(rrsets[i], row.zone, row.name, row.type)
           /\ rrsets' = [rrsets EXCEPT ![s] =
                           NewSet(row.zone, row.name, row.type, WebTTLOf(req[h].ttl))]
  <2>1. rrsets' \in Seq(SetRow) /\ KeysUnique'
    BY <1>1, <1>3, <1>7, RewriteKey
  <2> QED BY <1>1, <1>4, <1>5, <2>1 DEF StoreInv, TablesOK
<1> QED BY <1>6, <1>7 DEF WebSaveTTL

(* Requests arrive, statements fail, the process restarts.                 *)
LEMMA OtherSteps ==
    ASSUME StoreInv,
           (\E h \in Handlers : Begin(h) \/ StatementFails(h)) \/ RestartHandlers
    PROVE  StoreInv'
<1>1. HandlersOK /\ TablesOK /\ KeysUnique /\ CountersOK
  BY DEF StoreInv
<1>2. UNCHANGED tables
  BY DEF Begin, StatementFails, RestartHandlers
<1>3. TablesOK' /\ KeysUnique'
  BY <1>1, <1>2 DEF TablesOK, KeysUnique, tables
<1>4. CountersOK'
  BY <1>1, StoreAssumption DEF CountersOK, Begin, StatementFails, RestartHandlers
<1>5. ASSUME NEW h \in Handlers, Begin(h) PROVE HandlersOK'
  <2>1. PICK r \in Requests : /\ req' = [req EXCEPT ![h] = r]
                              /\ Goto(h, FirstStep(r.op))
    BY <1>5 DEF Begin
  <2>2. FirstStep(r.op) \in PC /\ Ready(FirstStep(r.op), r, local[h])
    BY <1>1, <1>5, RequestColumns DEF Begin, HandlersOK, FirstStep, PC, Ready, ZoneOps, SetOps, WebOps
  <2>3. local[h] \in Local /\ local' = [local EXCEPT ![h] = local[h]]
    BY <1>1, <1>5 DEF Begin, HandlersOK
  <2> QED BY <1>1, <2>1, <2>2, <2>3, Moves DEF Goto
<1>6. ASSUME NEW h \in Handlers, StatementFails(h) PROVE HandlersOK'
  <2>1. Ready(pc[h], req[h], local[h]) /\ pc[h] \in PC
    BY <1>1, AtStep
  <2>2. CASE /\ AfterFault(pc[h]) \notin {"idle", "nextRecord"}
             /\ Continue(h, AfterFault(pc[h]))
    <3>1. AfterFault(pc[h]) \in PC /\ Ready(AfterFault(pc[h]), req[h], local[h])
      BY <2>1, <2>2 DEF AfterFault, PC, Ready
    <3> QED BY <1>1, <2>2, <3>1, Continues
  <2>3. CASE AfterFault(pc[h]) = "nextRecord" /\ NextRecord(h)
    <3>1. pc[h] \in {"webInsertSet", "webInsertData"}
      BY <2>3 DEF AfterFault
    <3> QED BY <1>1, <2>3, <3>1, NextRecordMoves
  <2> QED BY <1>1, <1>6, <2>2, <2>3, Responds DEF StatementFails
<1>7. ASSUME RestartHandlers PROVE HandlersOK'
  BY <1>7 DEF RestartHandlers, HandlersOK, PC, Local, NoLocal, Ready
<1> QED BY <1>3, <1>4, <1>5, <1>6, <1>7 DEF StoreInv

-----------------------------------------------------------------------------
(***************************************************************************)
(* The invariant and its consequences.                                     *)
(***************************************************************************)

LEMMA StoreInvInit == StoreInit => StoreInv
<1> SUFFICES ASSUME StoreInit PROVE StoreInv
  OBVIOUS
<1>1. TablesOK /\ CountersOK
  BY StoreAssumption DEF StoreInit, TablesOK, CountersOK
<1>2. KeysUnique
  BY StoreAssumption DEF StoreInit, KeysUnique, HasKey
<1>3. HandlersOK
  BY DEF StoreInit, HandlersOK, PC, Local, NoLocal, Ready
<1> QED BY <1>1, <1>2, <1>3 DEF StoreInv

LEMMA StoreInvStep == StoreInv /\ [StoreNext]_storeVars => StoreInv'
<1> SUFFICES ASSUME StoreInv, [StoreNext]_storeVars PROVE StoreInv'
  OBVIOUS
<1>1. CASE UNCHANGED storeVars
  BY <1>1 DEF StoreInv, TablesOK, HandlersOK, CountersOK, KeysUnique, storeVars
<1>2. ASSUME NEW h \in Handlers, RestStep(h) PROVE StoreInv'
  BY <1>2, LookSteps, ReadSteps, ZoneSteps, InsertSetStep, PutSetStep, DeleteSetStep,
     ImportSetsStep, CreateSOAStep, DataSteps DEF RestStep
<1>3. ASSUME NEW h \in Handlers, WebStep(h) PROVE StoreInv'
  BY <1>3, LookSteps, ReadSteps, ZoneSteps, DataSteps, WebInsertSetStep, WebSaveTTLStep
     DEF WebStep
<1>4. ASSUME NEW h \in Handlers, Invalidate(h) PROVE StoreInv'
  BY <1>4, LookSteps
<1> QED BY <1>1, <1>2, <1>3, <1>4, OtherSteps DEF StoreNext

THEOREM StoreInvAlways == StoreSpec => []StoreInv
  BY StoreInvInit, StoreInvStep, PTL DEF StoreSpec

(* Rows, requests and local variables always have their types, whatever    *)
(* requests overlap, fail or die half way.                                 *)
THEOREM StoreTyped == StoreSpec => []StoreTypeOK
<1>1. StoreInv => StoreTypeOK
  BY DEF StoreInv, TablesOK, HandlersOK, CountersOK, StoreTypeOK
<1> QED BY <1>1, StoreInvAlways, PTL

-----------------------------------------------------------------------------
(***************************************************************************)
(* Rows of rr_sets are never removed and never change zone.  Two saves     *)
(* write every column of a row: what they write back agrees with the row   *)
(* because they found it in the zone they write.                           *)
(***************************************************************************)
RowsFound ==
    \A h \in Handlers :
        /\ pc[h] = "putSet" =>
              req[h].set \in DOMAIN rrsets /\ rrsets[req[h].set].zone = req[h].zone
        /\ pc[h] = "webSaveTTL" =>
              /\ local[h].set \in DOMAIN rrsets
              /\ rrsets[local[h].set].zone = local[h].row.zone

RowsKept ==
    \A i \in DOMAIN rrsets : i \in DOMAIN rrsets' /\ rrsets'[i].zone = rrsets[i].zone

LEMMA AppendKeepsRows ==
    ASSUME TablesOK, NEW row \in SetRow, rrsets' = Append(rrsets, row)
    PROVE  RowsKept
<1>1. DOMAIN rrsets = 1 .. Len(rrsets) /\ Len(rrsets) \in Nat
  BY LenProperties DEF TablesOK
<1>2. /\ rrsets' \in Seq(SetRow) /\ Len(rrsets') = Len(rrsets) + 1
      /\ \A i \in 1 .. Len(rrsets) : rrsets'[i] = rrsets[i]
  BY AppendProperties DEF TablesOK
<1>3. DOMAIN rrsets' = 1 .. Len(rrsets')
  BY <1>2, LenProperties
<1> QED BY <1>1, <1>2, <1>3 DEF RowsKept

LEMMA RewriteKeepsRows ==
    ASSUME TablesOK, NEW s, NEW row, rrsets' = [rrsets EXCEPT ![s] = row],
           s \in DOMAIN rrsets => row.zone = rrsets[s].zone
    PROVE  RowsKept
<1>1. rrsets \in [1 .. Len(rrsets) -> SetRow] /\ DOMAIN rrsets = 1 .. Len(rrsets)
  BY LenProperties DEF TablesOK
<1> QED BY <1>1 DEF RowsKept

LEMMA DeleteKeepsRows ==
    ASSUME TablesOK, NEW h, DeleteZone(h) \/ DeleteSet(h)
    PROVE  RowsKept
<1>1. \A i \in DOMAIN rrsets : rrsets[i] \in SetRow
  BY ElementOfSeq, LenProperties DEF TablesOK
<1> QED BY <1>1 DEF RowsKept, DeleteZone, DeleteSet, SetRow

LEMMA ImportKeepsRows ==
    ASSUME StoreInv, NEW h \in Handlers, ImportSets(h)
    PROVE  RowsKept
<1>1. TablesOK /\ KeysUnique /\ Ready(pc[h], req[h], local[h])
  BY AtStep DEF StoreInv
<1>2. req[h] \in Requests /\ req[h].op = "importZone"
  BY <1>1 DEF ImportSets, Ready
<1>3. \/ UNCHANGED rrsets
      \/ Importable(req[h]) /\ \E f \in Numberings(Created(req[h])) :
                                    rrsets' = ImportedSets(req[h], f)
  BY ImportedInOrder
<1> QED BY <1>1, <1>2, <1>3, ImportedSetsKeys DEF RowsKept

(* The row an insert appends is one of the request's zone.                 *)
InsertsRow(h) ==
    UNCHANGED rrsets \/ \E row \in SetRow : /\ rrsets' = Append(rrsets, row)
                                          /\ row.zone = req[h].zone

LEMMA InsertedRow ==
    ASSUME HandlersOK, NEW h \in Handlers, InsertSet(h) \/ CreateSOA(h) \/ WebInsertSet(h)
    PROVE  InsertsRow(h)
<1>1. Ready(pc[h], req[h], local[h])
  BY AtStep
<1>2. /\ req[h] \in Requests
      /\ pc[h] = "insertSet"    => req[h].op = "createRRSet"
      /\ pc[h] = "createSOA"    => req[h].op \in SetOps
      /\ pc[h] = "webInsertSet" =>
            /\ req[h].op \in WebOps
            /\ req[h].op = "webApplyTemplate" => local[h].at \in DOMAIN req[h].records
  BY <1>1 DEF InsertSet, CreateSOA, WebInsertSet, Ready
<1>3. CASE UNCHANGED rrsets
  BY <1>3 DEF InsertsRow
<1>4. ASSUME NEW n, NEW t, NEW ttl,
             rrsets' = Append(rrsets, NewSet(req[h].zone, n, t, ttl)),
             n \in Owners, t \in Types, ttl \in Nat, req[h].zone \in Zones
      PROVE  InsertsRow(h)
  BY <1>4, NewSetType DEF InsertsRow, NewSet
<1>5. CASE InsertSet(h)
  <2>1. /\ req[h].zone \in Zones /\ req[h].name \in Owners /\ req[h].type \in Types
        /\ req[h].ttl \in Nat
    BY <1>2, <1>5, RequestColumns DEF InsertSet, ZoneOps, SetOps
  <2>2. EffectiveTTL(req[h].ttl) \in Nat
    BY <2>1, EffectiveTTLType
  <2> QED BY <1>3, <1>4, <1>5, <2>1, <2>2 DEF InsertSet
<1>6. CASE CreateSOA(h)
  <2>1. /\ req[h].zone \in Zones /\ Apex[req[h].zone] \in Owners /\ "SOA" \in Types
        /\ SOATTL \in Nat
    BY <1>2, <1>6, RequestColumns, StoreAssumption DEF CreateSOA, ZoneOps
  <2> QED BY <1>3, <1>4, <1>6, <2>1 DEF CreateSOA
<1>7. CASE WebInsertSet(h)
  <2> DEFINE w == Wanted(req[h], local[h])
  <2>1. /\ req[h].zone \in Zones /\ w.name \in Owners /\ w.type \in Types
        /\ w.ttl \in Nat
    BY <1>2, <1>7, WantedType DEF WebInsertSet
  <2> QED BY <1>3, <1>4, <1>7, <2>1 DEF WebInsertSet
<1> QED BY <1>5, <1>6, <1>7

LEMMA RowsKeptStep ==
    ASSUME StoreInv, RowsFound, [StoreNext]_storeVars
    PROVE  RowsKept
<1>1. TablesOK /\ HandlersOK
  BY DEF StoreInv
<1>2. CASE UNCHANGED rrsets
  BY <1>2 DEF RowsKept
<1>3. ASSUME NEW h \in Handlers, DeleteZone(h) \/ DeleteSet(h) PROVE RowsKept
  BY <1>1, <1>3, DeleteKeepsRows
<1>4. ASSUME NEW h \in Handlers, PutSet(h) PROVE RowsKept
  <2> DEFINE r == req[h]
             row == NewSet(r.zone, r.name, r.type, EffectiveTTL(r.ttl))
  <2>1. row.zone = r.zone /\ rrsets[r.set].zone = r.zone
    BY <1>4 DEF PutSet, RowsFound, NewSet
  <2>2. UNCHANGED rrsets \/ rrsets' = [rrsets EXCEPT ![r.set] = row]
    BY <1>4 DEF PutSet
  <2> HIDE DEF row
  <2> QED BY <1>1, <1>2, <2>1, <2>2, RewriteKeepsRows
<1>5. ASSUME NEW h \in Handlers, WebSaveTTL(h) PROVE RowsKept
  <2> DEFINE s == local[h].set
             old == local[h].row
             row == NewSet(old.zone, old.name, old.type, WebTTLOf(req[h].ttl))
  <2>1. row.zone = old.zone /\ rrsets[s].zone = old.zone
    BY <1>5 DEF WebSaveTTL, RowsFound, NewSet
  <2>2. UNCHANGED rrsets \/ rrsets' = [rrsets EXCEPT ![s] = row]
    BY <1>5 DEF WebSaveTTL
  <2> HIDE DEF row
  <2> QED BY <1>1, <1>2, <2>1, <2>2, RewriteKeepsRows
<1>6. ASSUME NEW h \in Handlers, InsertSet(h) \/ CreateSOA(h) \/ WebInsertSet(h)
      PROVE  RowsKept
  <2>1. InsertsRow(h)
    BY <1>1, <1>6, InsertedRow
  <2> QED BY <1>1, <1>2, <2>1, AppendKeepsRows DEF InsertsRow
<1>7. ASSUME NEW h \in Handlers, RestStep(h) PROVE RowsKept
  BY <1>1, <1>2, <1>3, <1>4, <1>6, <1>7, ImportKeepsRows
     DEF RestStep, FindZone, CreateZone, CheckSet, FindSet, ReadSOA, ReadSOAData,
         WriteSOA, tables
<1>8. ASSUME NEW h \in Handlers, WebStep(h) PROVE RowsKept
  BY <1>2, <1>5, <1>6, <1>8
     DEF WebStep, WebCreateZone, WebDeleteZone, WebFindSet, WebInsertData,
         WebDeleteRecord, WebFindRecord, WebSaveRecord, WebReadSet, tables
<1> QED BY <1>2, <1>7, <1>8
        DEF StoreNext, Begin, Invalidate, StatementFails, RestartHandlers, storeVars, tables

(* A step of one handler leaves the others where they are.                 *)
Moved(h) ==
    \A g \in Handlers \ {h} : pc'[g] = pc[g] /\ req'[g] = req[g] /\ local'[g] = local[g]

LEMMA OneHandlerMoves ==
    ASSUME HandlersOK, NEW h \in Handlers,
           Begin(h) \/ RestStep(h) \/ WebStep(h) \/ Invalidate(h) \/ StatementFails(h)
    PROVE  Moved(h)
<1> USE DEF HandlersOK
<1>1. ASSUME Respond(h) PROVE Moved(h)
  BY <1>1 DEF Respond, Moved
<1>2. ASSUME NEW s, Continue(h, s) PROVE Moved(h)
  BY <1>2 DEF Continue, Goto, Moved
<1>3. ASSUME NEW s, NEW l, Goto(h, s), local' = [local EXCEPT ![h] = l], UNCHANGED req
      PROVE  Moved(h)
  BY <1>3 DEF Goto, Moved
<1>4. ASSUME Begin(h) PROVE Moved(h)
  BY <1>4 DEF Begin, Goto, Moved
<1>7. ASSUME NextRecord(h) PROVE Moved(h)
  BY <1>1, <1>7 DEF NextRecord, Goto, Moved
<1>5. ASSUME RestStep(h) PROVE Moved(h)
  <2>1. ASSUME ReadSOA(h) PROVE Moved(h)
    BY <1>2, <1>3, <2>1 DEF ReadSOA
  <2>2. ASSUME ReadSOAData(h) PROVE Moved(h)
    BY <1>2, <2>2 DEF ReadSOAData, Goto, Moved
  <2> QED BY <1>1, <1>2, <1>5, <2>1, <2>2
          DEF RestStep, FindZone, CreateZone, DeleteZone, CheckSet, InsertSet, FindSet,
              PutSet, DeleteSet, ImportSets, CreateSOA, WriteSOA
<1>6. ASSUME WebStep(h) PROVE Moved(h)
  <2>1. ASSUME WebReadSet(h) \/ WebFindRecord(h) PROVE Moved(h)
    BY <1>1, <2>1 DEF WebReadSet, WebFindRecord, Goto, Moved
  <2>2. ASSUME WebFindSet(h) PROVE Moved(h)
    BY <1>2, <1>3, <2>2 DEF WebFindSet, Goto, Moved
  <2>3. ASSUME WebInsertSet(h) PROVE Moved(h)
    BY <1>7, <2>3 DEF WebInsertSet, Goto, Moved
  <2> QED BY <1>1, <1>2, <1>6, <1>7, <2>1, <2>2, <2>3
          DEF WebStep, WebCreateZone, WebDeleteZone, WebInsertData, WebDeleteRecord,
              WebSaveRecord, WebSaveTTL
<1> QED BY <1>1, <1>2, <1>4, <1>5, <1>6, <1>7 DEF Invalidate, StatementFails

(* A handler reaches a statement that uses what it has read only from the  *)
(* statement that reads it.                                                *)
LEMMA UsesFollowReads ==
    ASSUME HandlersOK, NEW h \in Handlers,
           Begin(h) \/ RestStep(h) \/ WebStep(h) \/ Invalidate(h) \/ StatementFails(h)
    PROVE  /\ pc'[h] = "putSet" => FindSet(h)
           /\ pc'[h] = "webSaveTTL" => WebReadSet(h)
           /\ pc'[h] = "webInsertData" => WebFindSet(h) \/ WebInsertSet(h)
           /\ pc'[h] = "webSaveRecord" => WebFindRecord(h)
           /\ pc'[h] = "readSOAData" => ReadSOA(h)
           /\ pc'[h] = "writeSOA" => ReadSOAData(h)
<1> USE DEF HandlersOK
<1> DEFINE Uses  == {"putSet", "webSaveTTL", "webInsertData", "webSaveRecord", "readSOAData",
                     "writeSOA"}
           Early == pc'[h] \notin Uses
<1>1. ASSUME Respond(h) PROVE Early
  BY <1>1 DEF Respond
<1>2. ASSUME NEW s, Goto(h, s), s \notin Uses PROVE Early
  BY <1>2 DEF Goto
<1>15. ASSUME NEW s, Continue(h, s), s \notin Uses PROVE Early
  BY <1>2, <1>15 DEF Continue
<1>9. ASSUME NextRecord(h) PROVE Early
  BY <1>1, <1>2, <1>9 DEF NextRecord
<1>3. ASSUME Begin(h) PROVE Early
  <2>1. PICK r \in Requests : Goto(h, FirstStep(r.op))
    BY <1>3 DEF Begin
  <2>2. FirstStep(r.op) \notin Uses
    BY RequestColumns DEF FirstStep
  <2> QED BY <1>2, <2>1, <2>2
<1>4. ASSUME FindZone(h) PROVE Early
  <2>1. req[h].op \in ZoneOps
    BY <1>4, AtStep DEF FindZone, Ready
  <2>2. AfterFindZone(req[h].op) \notin Uses
    BY <2>1 DEF AfterFindZone, ZoneOps, SetOps, WebOps
  <2> QED BY <1>1, <1>2, <1>4, <2>2 DEF FindZone, Continue
<1>5. ASSUME StatementFails(h) PROVE Early
  <2>1. AfterFault(pc[h]) \notin Uses
    BY DEF AfterFault
  <2> QED BY <1>1, <1>2, <1>5, <1>9, <2>1 DEF StatementFails, Continue
<1>6. ASSUME ReadSOA(h) PROVE pc'[h] \notin Uses \ {"readSOAData"}
  <2>1. WithoutSOA(h) \notin Uses
    BY DEF WithoutSOA
  <2> QED BY <1>6, <2>1 DEF ReadSOA, Continue, Goto
<1>7. ASSUME RestStep(h), ~FindSet(h), ~ReadSOA(h), ~ReadSOAData(h) PROVE Early
  <2>1. \/ Respond(h) \/ FindZone(h)
        \/ \E s \in {"invalidate", "insertSet", "readSOA"} : Continue(h, s)
    BY <1>7 DEF RestStep, CreateZone, DeleteZone, CheckSet, InsertSet, PutSet, DeleteSet,
                ImportSets, CreateSOA, WriteSOA
  <2>2. \A s \in {"invalidate", "insertSet", "readSOA"} : s \notin Uses
    OBVIOUS
  <2> HIDE DEF Early, Uses
  <2> QED BY <1>1, <1>15, <1>4, <2>1, <2>2
<1>8. ASSUME WebStep(h), ~WebReadSet(h), ~WebFindSet(h), ~WebInsertSet(h), ~WebFindRecord(h)
      PROVE  Early
  BY <1>1, <1>2, <1>8, <1>9
     DEF WebStep, WebCreateZone, WebDeleteZone, WebInsertData, WebDeleteRecord,
         WebSaveRecord, WebSaveTTL, Continue
<1>10. ASSUME FindSet(h) PROVE pc'[h] \notin Uses \ {"putSet"}
  BY <1>1, <1>10 DEF FindSet, Continue, Goto
<1>11. ASSUME WebReadSet(h) PROVE pc'[h] \notin Uses \ {"webSaveTTL"}
  BY <1>1, <1>11 DEF WebReadSet, Goto
<1>12. ASSUME WebFindSet(h) \/ WebInsertSet(h) PROVE pc'[h] \notin Uses \ {"webInsertData"}
  BY <1>1, <1>9, <1>12 DEF WebFindSet, WebInsertSet, Continue, Goto
<1>13. ASSUME ReadSOAData(h) PROVE pc'[h] \notin Uses \ {"writeSOA"}
  BY <1>13 DEF ReadSOAData, WithoutSOA, Continue, Goto
<1>14. CASE Early
  BY <1>14
<1>16. ASSUME WebFindRecord(h) PROVE pc'[h] \notin Uses \ {"webSaveRecord"}
  BY <1>1, <1>16 DEF WebFindRecord, Goto
<1> QED BY <1>1, <1>3, <1>5, <1>6, <1>7, <1>8, <1>10, <1>11, <1>12, <1>13, <1>14, <1>16
        DEF Invalidate

LEMMA RowsFoundStep ==
    ASSUME StoreInv, RowsFound, [StoreNext]_storeVars
    PROVE  RowsFound'
<1> SUFFICES ASSUME NEW g \in Handlers
             PROVE  /\ pc'[g] = "putSet" =>
                          /\ req'[g].set \in DOMAIN rrsets'
                          /\ rrsets'[req'[g].set].zone = req'[g].zone
                    /\ pc'[g] = "webSaveTTL" =>
                          /\ local'[g].set \in DOMAIN rrsets'
                          /\ rrsets'[local'[g].set].zone = local'[g].row.zone
  BY DEF RowsFound
<1>1. RowsKept /\ HandlersOK
  BY RowsKeptStep DEF StoreInv
<1>2. CASE pc'[g] = pc[g] /\ req'[g] = req[g] /\ local'[g] = local[g]
  BY <1>1, <1>2 DEF RowsFound, RowsKept
<1>3. CASE pc'[g] \notin {"putSet", "webSaveTTL"}
  BY <1>3
<1>4. CASE FindSet(g)
  BY <1>1, <1>3, <1>4 DEF FindSet, Continue, Goto, Respond, HandlersOK, tables
<1>5. CASE WebReadSet(g)
  BY <1>1, <1>3, <1>5 DEF WebReadSet, Goto, Respond, HandlersOK, tables, Local
<1>6. CASE RestartHandlers
  BY <1>3, <1>6 DEF RestartHandlers
<1>7. CASE UNCHANGED storeVars
  BY <1>2, <1>7 DEF storeVars
<1>8. ASSUME NEW h \in Handlers,
             Begin(h) \/ RestStep(h) \/ WebStep(h) \/ Invalidate(h) \/ StatementFails(h)
      PROVE  \/ pc'[g] = pc[g] /\ req'[g] = req[g] /\ local'[g] = local[g]
             \/ FindSet(g) \/ WebReadSet(g)
             \/ pc'[g] \notin {"putSet", "webSaveTTL"}
  <2>1. CASE h = g
    BY <1>1, <1>8, <2>1, UsesFollowReads
  <2>2. CASE h # g
    BY <1>1, <1>8, <2>2, OneHandlerMoves DEF Moved
  <2> QED BY <2>1, <2>2
<1> QED BY <1>2, <1>3, <1>4, <1>5, <1>6, <1>7, <1>8 DEF StoreNext

LEMMA RowsFoundInit == StoreInit => RowsFound
  BY DEF StoreInit, RowsFound

(* No row of rr_sets is removed or moved to another zone, though PUT and   *)
(* the web admin save rows that may have been deleted or changed since     *)
(* they were read.                                                         *)
THEOREM RowsKeptAlways == StoreSpec => [][RowsKept]_storeVars
<1>1. StoreInv /\ RowsFound /\ [StoreNext]_storeVars => (StoreInv /\ RowsFound)'
  BY StoreInvStep, RowsFoundStep
<1>2. StoreInv /\ RowsFound /\ [StoreNext]_storeVars => [RowsKept]_storeVars
  BY RowsKeptStep
<1>3. StoreInit => StoreInv /\ RowsFound
  BY StoreInvInit, RowsFoundInit
<1> QED BY <1>1, <1>2, <1>3, PTL DEF StoreSpec

-----------------------------------------------------------------------------
(***************************************************************************)
(* The records of an rrset.  Two conditions on the clients are needed.     *)
(*                                                                         *)
(* NumbersOwn: an import that numbers its records is an export of this     *)
(* database.  A record of another server's export takes away the row that  *)
(* has its number here, whatever rrset that belongs to.                    *)
(*                                                                         *)
(* EditsApart: the web form saves no record that a bump has read and is    *)
(* about to write back.  With three handlers a record that a PUT deletes   *)
(* meanwhile is brought back by the form, and gets its old text again.     *)
(***************************************************************************)
NamesOwn(r, W) ==
    \A n \in DOMAIN r.records :
        r.records[n].id \in DOMAIN rdata /\ rdata[r.records[n].id].live
            => rdata[r.records[n].id].payload.data \in {r.records[n].payload.data} \cup W

NumbersOwn == \A h \in Handlers : pc[h] = "importSets" => NamesOwn(req[h], WebTexts)

EditsApart ==
    \A g, h \in Handlers :
        pc[g] = "webSaveRecord" /\ pc[h] = "writeSOA" => req[g].rec # local[h].soa

(* Records refer to rrsets, those about to be inserted do too, and a bump  *)
(* writes back the text that is there.                                     *)
DataRefs == \A d \in DOMAIN rdata : rdata[d].set \in DOMAIN rrsets

InsertsKnown ==
    \A h \in Handlers :
        pc[h] \in {"webInsertData", "webSaveRecord"} => local[h].set \in DOMAIN rrsets

SOAAsRead ==
    \A h \in Handlers : pc[h] = "writeSOA" =>
        /\ local[h].soa \in DOMAIN rdata
        /\ local[h].text.data = rdata[local[h].soa].payload.data

\* Of deleted rrsets too: a save may bring them back.
AllOfOneRequest == \A s \in DOMAIN rrsets : FromOneRequest(Texts(s))

RecordsInv == DataRefs /\ InsertsKnown /\ SOAAsRead /\ AllOfOneRequest

(* What a step makes of the texts of rrset s.                              *)
Alike(s)   == s \in DOMAIN rrsets /\ Texts(s)' = Texts(s)
Fresh(s)   == Texts(s)' \in TextsOfOneRequest
Fewer(s)   == s \in DOMAIN rrsets /\ Texts(s)' \subseteq Texts(s) \cup WebTexts
Touched(s) == \E T \in TextsOfOneRequest : Texts(s)' \subseteq T \cup WebTexts

-----------------------------------------------------------------------------
LEMMA InTexts ==
    ASSUME NEW s, NEW t
    PROVE  /\ t \in Texts(s) <=>
                \E d \in DOMAIN rdata :
                    rdata[d].live /\ rdata[d].set = s /\ rdata[d].payload.data = t
           /\ t \in Texts(s)' <=>
                \E d \in DOMAIN rdata' :
                    rdata'[d].live /\ rdata'[d].set = s /\ rdata'[d].payload.data = t
<1>1. t \in Texts(s) <=>
          \E d \in DOMAIN rdata :
              rdata[d].live /\ rdata[d].set = s /\ rdata[d].payload.data = t
  BY DEF Texts, LiveData
<1>2. t \in Texts(s)' <=>
          \E d \in DOMAIN rdata' :
              rdata'[d].live /\ rdata'[d].set = s /\ rdata'[d].payload.data = t
  BY DEF Texts, LiveData
<1> QED BY <1>1, <1>2

(* The rows of one sequence followed by those of another.                  *)
Joined(a, b, c) ==
    /\ \A d \in DOMAIN a : d \in DOMAIN c /\ c[d] = a[d]
    /\ \A d \in DOMAIN c \ DOMAIN a : \E i \in DOMAIN b : c[d] = b[i]
    /\ \A i \in DOMAIN b : \E d \in DOMAIN c \ DOMAIN a : c[d] = b[i]

LEMMA JoinedRows ==
    ASSUME NEW S, NEW a \in Seq(S), NEW b \in Seq(S)
    PROVE  Joined(a, b, a \o b)
<1> DEFINE c == a \o b
<1>1. /\ Len(a) \in Nat /\ DOMAIN a = 1 .. Len(a)
      /\ Len(b) \in Nat /\ DOMAIN b = 1 .. Len(b)
  BY LenProperties
<1>2. /\ c \in Seq(S) /\ Len(c) = Len(a) + Len(b)
      /\ \A i \in 1 .. Len(c) : c[i] = IF i <= Len(a) THEN a[i] ELSE b[i - Len(a)]
  BY ConcatProperties
<1>3. DOMAIN c = 1 .. Len(a) + Len(b)
  BY <1>2, LenProperties
<1> HIDE DEF c
<1>4. ASSUME NEW d \in DOMAIN c \ DOMAIN a PROVE \E i \in DOMAIN b : c[d] = b[i]
  <2>1. d - Len(a) \in DOMAIN b /\ c[d] = b[d - Len(a)]
    BY <1>1, <1>2, <1>3
  <2> QED BY <2>1
<1>5. ASSUME NEW i \in DOMAIN b PROVE \E d \in DOMAIN c \ DOMAIN a : c[d] = b[i]
  <2>1. /\ i + Len(a) \in DOMAIN c \ DOMAIN a /\ i + Len(a) - Len(a) = i
        /\ c[i + Len(a)] = b[i + Len(a) - Len(a)]
    BY <1>1, <1>2, <1>3
  <2> QED BY <2>1
<1>6. \A d \in DOMAIN a : d \in DOMAIN c /\ c[d] = a[d]
  BY <1>1, <1>2, <1>3
<1>7. Joined(a, b, c)
  BY <1>4, <1>5, <1>6 DEF Joined
<1> QED BY <1>7 DEF c

(* The sequence c has the rows of old, and live ones of rrset s with these *)
(* records.                                                                *)
Extended(old, c, s, records) ==
    /\ \A d \in DOMAIN old : d \in DOMAIN c /\ c[d] = old[d]
    /\ \A d \in DOMAIN c \ DOMAIN old :
          /\ c[d].set = s /\ c[d].live
          /\ \E k \in DOMAIN records : c[d].payload = records[k]
    /\ \A k \in DOMAIN records :
          \E d \in DOMAIN c : c[d].set = s /\ c[d].live /\ c[d].payload = records[k]

LEMMA NewRows ==
    ASSUME NEW old \in Seq(DataRow), NEW s \in Nat, NEW records \in Seq(Payload)
    PROVE  Extended(old, old \o NewData(s, records), s, records)
<1> DEFINE new == NewData(s, records)
           c == old \o new
<1>1. /\ new \in Seq(DataRow) /\ DOMAIN new = DOMAIN records
      /\ \A k \in DOMAIN records :
            new[k].set = s /\ new[k].live /\ new[k].payload = records[k]
  BY NewDataType DEF NewData
<1> HIDE DEF new
<1>2. c = old \o new
  OBVIOUS
<1> HIDE DEF c
<1>3. /\ \A d \in DOMAIN old : d \in DOMAIN c /\ c[d] = old[d]
      /\ \A d \in DOMAIN c \ DOMAIN old : \E i \in DOMAIN new : c[d] = new[i]
      /\ \A i \in DOMAIN new : \E d \in DOMAIN c \ DOMAIN old : c[d] = new[i]
  <2>1. Joined(old, new, c)
    BY <1>1, <1>2, JoinedRows
  <2> QED BY <2>1 DEF Joined
<1>4. ASSUME NEW d \in DOMAIN c \ DOMAIN old
      PROVE  /\ c[d].set = s /\ c[d].live
             /\ \E k \in DOMAIN records : c[d].payload = records[k]
  <2>1. PICK k \in DOMAIN new : c[d] = new[k]
    BY <1>3
  <2> QED BY <1>1, <2>1
<1>5. ASSUME NEW k \in DOMAIN records
      PROVE  \E d \in DOMAIN c : c[d].set = s /\ c[d].live /\ c[d].payload = records[k]
  <2>1. PICK d \in DOMAIN c \ DOMAIN old : c[d] = new[k]
    BY <1>1, <1>3
  <2>2. c[d].set = s /\ c[d].live /\ c[d].payload = records[k]
    BY <1>1, <2>1
  <2> QED BY <2>2
<1>6. Extended(old, c, s, records)
  BY <1>3, <1>4, <1>5 DEF Extended
<1> QED BY <1>6 DEF c, new

(* The records of rrset s are deleted, or there are none, and others are   *)
(* created: rrset s has just those, the other rrsets what they had.        *)
Cleared(old, s) ==
    \A d \in DOMAIN rdata : /\ old[d].set = rdata[d].set
                            /\ old[d].payload = rdata[d].payload
                            /\ old[d].live <=> rdata[d].live /\ rdata[d].set # s

Replaced(s, records) ==
    /\ Texts(s)' = {records[k].data : k \in DOMAIN records}
    /\ \A u : u # s => Texts(u)' = Texts(u)
    /\ \A d \in DOMAIN rdata' : rdata'[d].set = s \/ \E e \in DOMAIN rdata :
                                    rdata'[d].set = rdata[e].set
    /\ \A d \in DOMAIN rdata : d \in DOMAIN rdata' /\ rdata'[d].payload = rdata[d].payload

LEMMA ReplacedTexts ==
    ASSUME NEW old \in Seq(DataRow), NEW s \in Nat, NEW records \in Seq(Payload),
           DOMAIN old = DOMAIN rdata, Cleared(old, s), rdata' = old \o NewData(s, records)
    PROVE  Replaced(s, records)
<1> USE DEF Cleared
<1>1. /\ \A d \in DOMAIN old : d \in DOMAIN rdata' /\ rdata'[d] = old[d]
      /\ \A d \in DOMAIN rdata' \ DOMAIN old :
            /\ rdata'[d].set = s /\ rdata'[d].live
            /\ \E k \in DOMAIN records : rdata'[d].payload = records[k]
      /\ \A k \in DOMAIN records :
            \E d \in DOMAIN rdata' :
                rdata'[d].set = s /\ rdata'[d].live /\ rdata'[d].payload = records[k]
  <2>1. Extended(old, rdata', s, records)
    BY NewRows
  <2> QED BY <2>1 DEF Extended
<1>2. ASSUME NEW t
      PROVE  t \in Texts(s)' <=> t \in {records[k].data : k \in DOMAIN records}
  <2>1. ASSUME t \in Texts(s)' PROVE t \in {records[k].data : k \in DOMAIN records}
    <3>1. PICK d \in DOMAIN rdata' :
              rdata'[d].live /\ rdata'[d].set = s /\ rdata'[d].payload.data = t
      BY <2>1, InTexts
    <3>2. d \notin DOMAIN old
      BY <1>1, <3>1
    <3> QED BY <1>1, <3>1, <3>2
  <2>2. ASSUME NEW k \in DOMAIN records, t = records[k].data PROVE t \in Texts(s)'
    <3>1. PICK d \in DOMAIN rdata' :
              rdata'[d].set = s /\ rdata'[d].live /\ rdata'[d].payload = records[k]
      BY <1>1
    <3>2. rdata'[d].payload.data = t
      BY <2>2, <3>1
    <3> QED BY <3>1, <3>2, InTexts
  <2> QED BY <2>1, <2>2
<1>3. ASSUME NEW u, u # s, NEW t PROVE t \in Texts(u)' <=> t \in Texts(u)
  <2>1. ASSUME t \in Texts(u)' PROVE t \in Texts(u)
    <3>1. PICK d \in DOMAIN rdata' :
              rdata'[d].live /\ rdata'[d].set = u /\ rdata'[d].payload.data = t
      BY <2>1, InTexts
    <3>2. d \in DOMAIN old
      BY <1>1, <1>3, <3>1
    <3>3. rdata[d].live /\ rdata[d].set = u /\ rdata[d].payload.data = t
      BY <1>1, <1>3, <3>1, <3>2
    <3> QED BY <3>2, <3>3, InTexts
  <2>2. ASSUME t \in Texts(u) PROVE t \in Texts(u)'
    <3>1. PICK d \in DOMAIN rdata :
              rdata[d].live /\ rdata[d].set = u /\ rdata[d].payload.data = t
      BY <2>2, InTexts
    <3>2. /\ d \in DOMAIN rdata'
          /\ rdata'[d].live /\ rdata'[d].set = u /\ rdata'[d].payload.data = t
      BY <1>1, <1>3, <3>1
    <3> QED BY <3>2, InTexts
  <2> QED BY <2>1, <2>2
<1>4. ASSUME NEW d \in DOMAIN rdata'
      PROVE  rdata'[d].set = s \/ \E e \in DOMAIN rdata : rdata'[d].set = rdata[e].set
  BY <1>1
<1>5. Texts(s)' = {records[k].data : k \in DOMAIN records}
  BY <1>2
<1>6. ASSUME NEW u, u # s PROVE Texts(u)' = Texts(u)
  <2>1. \A t : t \in Texts(u)' <=> t \in Texts(u)
    BY <1>3, <1>6
  <2> QED BY <2>1 DEF Texts
<1> QED BY <1>1, <1>4, <1>5, <1>6 DEF Replaced

-----------------------------------------------------------------------------
(***************************************************************************)
(* Imports.                                                                *)
(***************************************************************************)

(* The rrsets of an import have numbers of their own: that of the row they *)
(* update, or one after all rows there are.                                *)
Numbered(r, f) ==
    /\ \A k \in DOMAIN r.sets :
          IF k \in Created(r)
          THEN /\ SetNumber(r, f, k) \notin DOMAIN rrsets
               /\ SetNumber(r, f, k) \in DOMAIN ImportedSets(r, f)
          ELSE SetNumber(r, f, k) \in Updated(r, k)
    /\ \A j, k \in DOMAIN r.sets : SetNumber(r, f, j) = SetNumber(r, f, k) => j = k
    /\ \A s \in DOMAIN ImportedSets(r, f) \ DOMAIN rrsets :
          \E k \in DOMAIN r.sets : s = SetNumber(r, f, k)

LEMMA ImportNumbers ==
    ASSUME TablesOK, NEW r \in Requests, r.op = "importZone",
           NEW f \in Numberings(Created(r))
    PROVE  Numbered(r, f)
<1> DEFINE N      == Cardinality(Created(r))
           new    == [i \in DOMAIN f |-> NewSet(r.zone, r.sets[f[i]].name, r.sets[f[i]].type,
                                               EffectiveTTL(r.sets[f[i]].ttl))]
           old    == [i \in DOMAIN rrsets |-> ImportedRow(r, i)]
           at(k)  == CHOOSE i \in DOMAIN f : f[i] = k
<1>1. /\ N \in Nat /\ f \in [1 .. N -> Created(r)] /\ DOMAIN f = 1 .. N
      /\ \A k \in Created(r) : \E i \in DOMAIN f : f[i] = k
      /\ \A i, j \in DOMAIN f : f[i] = f[j] => i = j
  <2>1. Len(r.sets) \in Nat /\ Created(r) \in SUBSET (1 .. Len(r.sets))
    BY ImportRows
  <2> QED BY <2>1, NumberingsType
<1>2. Len(rrsets) \in Nat /\ DOMAIN rrsets = 1 .. Len(rrsets)
      /\ Created(r) \in SUBSET DOMAIN r.sets
  BY ImportRows
<1>3. DOMAIN ImportedSets(r, f) = 1 .. Len(rrsets) + N
  <2>1. DOMAIN old = 1 .. Len(rrsets) /\ DOMAIN new = 1 .. N
    BY <1>1, <1>2
  <2>2. old \in Seq({old[i] : i \in DOMAIN old}) /\ Len(old) = Len(rrsets)
    <3>1. old \in [1 .. Len(rrsets) -> {old[i] : i \in DOMAIN old}]
      BY <2>1
    <3> HIDE DEF old
    <3> QED BY <1>2, <3>1, FunctionIsSeq
  <2>3. new \in Seq({new[i] : i \in DOMAIN new}) /\ Len(new) = N
    <3>1. new \in [1 .. N -> {new[i] : i \in DOMAIN new}]
      BY <2>1
    <3> HIDE DEF new
    <3> QED BY <1>1, <3>1, FunctionIsSeq
  <2>4. ImportedSets(r, f) = old \o new
    BY DEF ImportedSets
  <2> HIDE DEF old, new
  <2> QED BY <1>1, <1>2, <2>2, <2>3, <2>4
<1>4. ASSUME NEW k \in Created(r)
      PROVE  /\ at(k) \in 1 .. N /\ f[at(k)] = k
             /\ SetNumber(r, f, k) = Len(rrsets) + at(k)
  <2>1. at(k) \in DOMAIN f /\ f[at(k)] = k
    BY <1>1
  <2> QED BY <1>1, <2>1 DEF SetNumber
<1>5. ASSUME NEW k \in DOMAIN r.sets, k \notin Created(r)
      PROVE  SetNumber(r, f, k) \in Updated(r, k)
  BY <1>5 DEF Created, SetNumber
<1>6. \A k \in DOMAIN r.sets : Updated(r, k) \subseteq DOMAIN rrsets
  BY DEF Updated, LiveSets
<1> HIDE DEF at
<1>7. ASSUME NEW k \in Created(r)
      PROVE  /\ SetNumber(r, f, k) \notin DOMAIN rrsets
             /\ SetNumber(r, f, k) \in DOMAIN ImportedSets(r, f)
  BY <1>1, <1>2, <1>3, <1>4
<1>8. ASSUME NEW j \in DOMAIN r.sets, NEW k \in DOMAIN r.sets,
             SetNumber(r, f, j) = SetNumber(r, f, k)
      PROVE  j = k
  <2>1. CASE j \in Created(r) /\ k \in Created(r)
    <3>1. at(j) = at(k)
      BY <1>1, <1>2, <1>4, <1>8, <2>1
    <3> QED BY <1>4, <2>1, <3>1
  <2>2. CASE j \notin Created(r) /\ k \notin Created(r)
    <3>1. /\ r.sets[j].name = r.sets[k].name /\ r.sets[j].type = r.sets[k].type
      BY <1>5, <1>8, <2>2 DEF Updated, LiveSets, HasKey
    <3> QED BY <3>1, ImportRows DEF WellFormedImport
  <2>3. CASE j \in Created(r) /\ k \notin Created(r)
    BY <1>5, <1>6, <1>7, <1>8, <2>3
  <2>4. CASE j \notin Created(r) /\ k \in Created(r)
    BY <1>5, <1>6, <1>7, <1>8, <2>4
  <2> QED BY <2>1, <2>2, <2>3, <2>4
<1>9. ASSUME NEW s \in DOMAIN ImportedSets(r, f) \ DOMAIN rrsets
      PROVE  \E k \in DOMAIN r.sets : s = SetNumber(r, f, k)
  <2> DEFINE i == s - Len(rrsets)
  <2>1. i \in 1 .. N /\ s = Len(rrsets) + i
    BY <1>1, <1>2, <1>3
  <2>2. f[i] \in Created(r)
    BY <1>1, <2>1
  <2>3. at(f[i]) = i
    BY <1>1, <1>4, <2>1, <2>2
  <2> HIDE DEF i
  <2>4. s = SetNumber(r, f, f[i]) /\ f[i] \in DOMAIN r.sets
    BY <1>2, <1>4, <2>1, <2>2, <2>3
  <2> QED BY <2>4
<1> QED BY <1>5, <1>7, <1>8, <1>9 DEF Numbered

(* What an import makes of the rows of r_data.                             *)
Arranged(r, f) ==
    /\ \A d \in DOMAIN rdata :
          /\ d \in DOMAIN rdata' /\ rdata'[d].payload = rdata[d].payload
          /\ rdata'[d].live <=> rdata[d].live /\ ~Dropped(r, d)
          /\ IF Naming(r, d) = {}
             THEN rdata'[d].set = rdata[d].set
             ELSE \E n \in Naming(r, d) : rdata'[d].set = SetNumber(r, f, r.records[n].of)
    /\ \A d \in DOMAIN rdata' \ DOMAIN rdata :
          /\ rdata'[d].live
          /\ \E n \in DOMAIN r.records : /\ rdata'[d].set = SetNumber(r, f, r.records[n].of)
                                        /\ rdata'[d].payload = r.records[n].payload
    /\ \A n \in Inserted(r) :
          \E d \in DOMAIN rdata' : /\ rdata'[d].live
                                  /\ rdata'[d].set = SetNumber(r, f, r.records[n].of)
                                  /\ rdata'[d].payload = r.records[n].payload

LEMMA ImportArranges ==
    ASSUME TablesOK, NEW r \in Requests, r.op = "importZone",
           NEW f \in Numberings(Created(r)), NEW g \in Numberings(Inserted(r)),
           rdata' = ImportedData(r, f, g)
    PROVE  Arranged(r, f)
<1> DEFINE old == RowsMoved(r, f)
           new == RowsAdded(r, f, g)
<1>1. /\ g \in [1 .. Cardinality(Inserted(r)) -> Inserted(r)]
      /\ \A n \in Inserted(r) : \E i \in DOMAIN g : g[i] = n
      /\ Inserted(r) \in SUBSET DOMAIN r.records
  <2>1. Len(r.records) \in Nat /\ Inserted(r) \in SUBSET (1 .. Len(r.records))
    BY ImportRows
  <2> QED BY <2>1, NumberingsType, ImportRows
<1>2. Joined(old, new, rdata')
  <2>1. /\ old \in Seq(DataRow) /\ new \in Seq(DataRow)
        /\ rdata' = old \o new
    BY ImportedDataType
  <2> QED BY <2>1, JoinedRows
<1>3. DOMAIN old = DOMAIN rdata /\ DOMAIN new = DOMAIN g
  BY DEF RowsMoved, RowsAdded
<1>4. ASSUME NEW d \in DOMAIN rdata
      PROVE  /\ old[d].payload = rdata[d].payload
             /\ old[d].live <=> rdata[d].live /\ ~Dropped(r, d)
             /\ IF Naming(r, d) = {}
                THEN old[d].set = rdata[d].set
                ELSE \E n \in Naming(r, d) : old[d].set = SetNumber(r, f, r.records[n].of)
  <2> DEFINE n == CHOOSE n \in Naming(r, d) : TRUE
             b == rdata[d].live /\ ~Dropped(r, d)
             s == IF Naming(r, d) = {} THEN rdata[d].set
                  ELSE SetNumber(r, f, r.records[n].of)
  <2>1. rdata[d] \in [set : Nat, payload : Payload, live : BOOLEAN]
    BY ImportRows DEF DataRow
  <2>2. old[d] = [rdata[d] EXCEPT !.live = b, !.set = s]
    BY <2>1 DEF RowsMoved
  <2>3. Naming(r, d) # {} => n \in Naming(r, d)
    OBVIOUS
  <2> HIDE DEF b, old, n
  <2>4. old[d].payload = rdata[d].payload /\ (old[d].live <=> b) /\ old[d].set = s
    BY <2>1, <2>2
  <2> QED BY <2>3, <2>4 DEF b
<1>5. ASSUME NEW i \in DOMAIN g
      PROVE  /\ new[i].live /\ new[i].payload = r.records[g[i]].payload
             /\ new[i].set = SetNumber(r, f, r.records[g[i]].of)
  BY DEF RowsAdded
<1> HIDE DEF old, new
<1>6. /\ \A d \in DOMAIN rdata : d \in DOMAIN rdata' /\ rdata'[d] = old[d]
      /\ \A d \in DOMAIN rdata' \ DOMAIN rdata : \E i \in DOMAIN g : rdata'[d] = new[i]
      /\ \A i \in DOMAIN g : \E d \in DOMAIN rdata' \ DOMAIN rdata : rdata'[d] = new[i]
  BY <1>2, <1>3 DEF Joined
<1>7. ASSUME NEW d \in DOMAIN rdata
      PROVE  /\ d \in DOMAIN rdata' /\ rdata'[d].payload = rdata[d].payload
             /\ rdata'[d].live <=> rdata[d].live /\ ~Dropped(r, d)
             /\ IF Naming(r, d) = {}
                THEN rdata'[d].set = rdata[d].set
                ELSE \E n \in Naming(r, d) : rdata'[d].set = SetNumber(r, f, r.records[n].of)
  <2>1. d \in DOMAIN rdata' /\ rdata'[d] = old[d]
    BY <1>6
  <2> QED BY <1>4, <2>1
<1>8. ASSUME NEW d \in DOMAIN rdata' \ DOMAIN rdata
      PROVE  /\ rdata'[d].live
             /\ \E n \in DOMAIN r.records : /\ rdata'[d].set = SetNumber(r, f, r.records[n].of)
                                           /\ rdata'[d].payload = r.records[n].payload
  <2>1. PICK i \in DOMAIN g : rdata'[d] = new[i]
    BY <1>6
  <2>2. g[i] \in DOMAIN r.records
    BY <1>1
  <2> QED BY <1>5, <2>1, <2>2
<1>9. ASSUME NEW n \in Inserted(r)
      PROVE  \E d \in DOMAIN rdata' : /\ rdata'[d].live
                                     /\ rdata'[d].set = SetNumber(r, f, r.records[n].of)
                                     /\ rdata'[d].payload = r.records[n].payload
  <2>1. PICK i \in DOMAIN g : g[i] = n
    BY <1>1
  <2>2. PICK d \in DOMAIN rdata' : rdata'[d] = new[i]
    BY <1>6
  <2>3. /\ rdata'[d].live /\ rdata'[d].set = SetNumber(r, f, r.records[n].of)
        /\ rdata'[d].payload = r.records[n].payload
    BY <1>5, <2>1, <2>2
  <2> QED BY <2>3
<1> QED BY <1>7, <1>8, <1>9 DEF Arranged

(* An rrset the import brings has only records it brings, but for W.       *)
LEMMA BroughtTexts ==
    ASSUME TablesOK, DataRefs, NEW r \in Requests, r.op = "importZone", NEW f,
           Numbered(r, f), Arranged(r, f), NEW k \in DOMAIN r.sets,
           NEW s, s = SetNumber(r, f, k),
           NEW W, NamesOwn(r, W)
    PROVE  Texts(s)' \subseteq ImportTexts(r, k) \cup W
<1> SUFFICES ASSUME NEW t \in Texts(s)' PROVE t \in ImportTexts(r, k) \cup W
  OBVIOUS
<1>1. PICK d \in DOMAIN rdata' :
          rdata'[d].live /\ rdata'[d].set = s /\ rdata'[d].payload.data = t
  BY InTexts
<1>2. ASSUME NEW n \in DOMAIN r.records, s = SetNumber(r, f, r.records[n].of)
      PROVE  r.records[n].payload.data \in ImportTexts(r, k)
  <2>1. r.records[n].of \in DOMAIN r.sets
    BY ImportRows DEF WellFormedImport
  <2>2. r.records[n].of = k
    BY <1>2, <2>1 DEF Numbered
  <2> QED BY <2>2 DEF ImportTexts
<1>3. CASE d \notin DOMAIN rdata
  <2>1. PICK n \in DOMAIN r.records :
            rdata'[d].set = SetNumber(r, f, r.records[n].of)
            /\ rdata'[d].payload = r.records[n].payload
    BY <1>3 DEF Arranged
  <2> QED BY <1>1, <1>2, <2>1
<1>4. CASE d \in DOMAIN rdata /\ Naming(r, d) # {}
  <2>1. /\ rdata[d].live /\ rdata'[d].payload = rdata[d].payload
    BY <1>1, <1>4 DEF Arranged
  <2>2. PICK n \in Naming(r, d) : rdata'[d].set = SetNumber(r, f, r.records[n].of)
    BY <1>4 DEF Arranged
  <2>3. n \in DOMAIN r.records /\ r.records[n].id = d
    BY DEF Naming
  <2>4. t \in {r.records[n].payload.data} \cup W
    BY <1>1, <1>4, <2>1, <2>3 DEF NamesOwn
  <2> QED BY <1>1, <1>2, <2>2, <2>3, <2>4
<1>5. CASE d \in DOMAIN rdata /\ Naming(r, d) = {}
  <2>1. rdata[d].set = s /\ ~Dropped(r, d) /\ s \in DOMAIN rrsets
    BY <1>1, <1>5 DEF Arranged, DataRefs
  <2>2. s \in Updated(r, k)
    BY <2>1 DEF Numbered
  <2> QED BY <1>5, <2>1, <2>2 DEF Dropped
<1> QED BY <1>3, <1>4, <1>5

(* Another rrset keeps its records, but for those the import names.        *)
LEMMA LeftTexts ==
    ASSUME DataRefs, NEW r \in Requests, r.op = "importZone", NEW f, TablesOK,
           Numbered(r, f), Arranged(r, f), NEW s,
           \A k \in DOMAIN r.sets : s # SetNumber(r, f, k)
    PROVE  /\ Texts(s)' \subseteq Texts(s)
           /\ s \in DOMAIN ImportedSets(r, f) => s \in DOMAIN rrsets
<1>1. ASSUME NEW n \in DOMAIN r.records PROVE s # SetNumber(r, f, r.records[n].of)
  BY ImportRows DEF WellFormedImport
<1>2. ASSUME NEW t \in Texts(s)' PROVE t \in Texts(s)
  <2>1. PICK d \in DOMAIN rdata' :
            rdata'[d].live /\ rdata'[d].set = s /\ rdata'[d].payload.data = t
    BY InTexts
  <2>2. d \in DOMAIN rdata
    BY <1>1, <2>1 DEF Arranged
  <2>3. Naming(r, d) = {}
    <3>1. ASSUME NEW n \in Naming(r, d) PROVE rdata'[d].set # SetNumber(r, f, r.records[n].of)
      BY <1>1, <2>1 DEF Naming
    <3> QED BY <2>2, <3>1 DEF Arranged
  <2>4. rdata[d].live /\ rdata[d].set = s /\ rdata[d].payload.data = t
    BY <2>1, <2>2, <2>3 DEF Arranged
  <2> QED BY <2>2, <2>4, InTexts
<1> QED BY <1>2 DEF Numbered

(* Without numbers of rows an rrset it brings has all records it brings,   *)
(* and the others keep theirs.                                             *)
NoNumbers(r) == \A n \in DOMAIN r.records : r.records[n].id = 0

LEMMA PlainImportTexts ==
    ASSUME TablesOK, DataRefs, KeysUnique, NEW r \in Requests, r.op = "importZone",
           NoNumbers(r), NEW f,
           Numbered(r, f), Arranged(r, f), NEW s
    PROVE  /\ \A k \in DOMAIN r.sets : s = SetNumber(r, f, k) => ImportTexts(r, k) \subseteq Texts(s)'
           /\ (\A k \in DOMAIN r.sets : s # SetNumber(r, f, k)) => Texts(s) \subseteq Texts(s)'
<1>1. Inserted(r) = DOMAIN r.records /\ \A d \in DOMAIN rdata : Naming(r, d) = {}
  <2>1. \A d \in DOMAIN rdata : d # 0
    BY ImportRows
  <2> QED BY <2>1 DEF NoNumbers, Inserted, Naming
<1>2. ASSUME NEW k \in DOMAIN r.sets, s = SetNumber(r, f, k), NEW t \in ImportTexts(r, k)
      PROVE  t \in Texts(s)'
  <2>1. PICK n \in DOMAIN r.records : r.records[n].of = k /\ r.records[n].payload.data = t
    BY <1>2 DEF ImportTexts
  <2>2. PICK d \in DOMAIN rdata' : /\ rdata'[d].live
                                   /\ rdata'[d].set = SetNumber(r, f, r.records[n].of)
                                   /\ rdata'[d].payload = r.records[n].payload
    BY <1>1 DEF Arranged
  <2>3. rdata'[d].set = s /\ rdata'[d].payload.data = t
    BY <1>2, <2>1, <2>2
  <2> QED BY <2>2, <2>3, InTexts
<1>3. ASSUME \A k \in DOMAIN r.sets : s # SetNumber(r, f, k), NEW t \in Texts(s)
      PROVE  t \in Texts(s)'
  <2>1. PICK d \in DOMAIN rdata :
            rdata[d].live /\ rdata[d].set = s /\ rdata[d].payload.data = t
    BY InTexts
  <2>2. ~Dropped(r, d)
    <3>1. ASSUME NEW k \in DOMAIN r.sets, s \in Updated(r, k) PROVE FALSE
      <4>1. k \notin Created(r)
        BY <3>1 DEF Created
      <4>2. SetNumber(r, f, k) \in Updated(r, k)
        BY <4>1 DEF Numbered
      <4>3. s = SetNumber(r, f, k)
        BY <3>1, <4>2 DEF KeysUnique, HasKey, Updated, LiveSets
      <4> QED BY <1>3, <4>3
    <3> QED BY <2>1, <3>1 DEF Dropped
  <2>3. d \in DOMAIN rdata' /\ rdata'[d].live /\ rdata'[d].set = s /\ rdata'[d].payload.data = t
    BY <1>1, <2>1, <2>2 DEF Arranged
  <2> QED BY <2>3, InTexts
<1> QED BY <1>2, <1>3

-----------------------------------------------------------------------------
(***************************************************************************)
(* What a statement does to the rows of r_data.                            *)
(***************************************************************************)
DataKept == \A d \in DOMAIN rdata :
                d \in DOMAIN rdata' /\ rdata'[d].payload.data = rdata[d].payload.data

ExactStep == DataKept /\ DataRefs' /\ \A s \in DOMAIN rrsets' : Alike(s) \/ Fresh(s)
LooseStep == DataRefs' /\ \A s \in DOMAIN rrsets' : Fewer(s) \/ Touched(s)

LEMMA ExactIsLoose == ExactStep => LooseStep
<1>1. ASSUME NEW s, Alike(s) PROVE Fewer(s)
  BY <1>1 DEF Alike, Fewer
<1>2. ASSUME NEW s, Fresh(s) PROVE Touched(s)
  BY <1>2 DEF Fresh, Touched
<1> QED BY <1>1, <1>2 DEF ExactStep, LooseStep

Unaltered == /\ DOMAIN rdata' = DOMAIN rdata
             /\ DOMAIN rrsets' = DOMAIN rrsets
             /\ \A d \in DOMAIN rdata : /\ rdata'[d].set = rdata[d].set
                                        /\ rdata'[d].live <=> rdata[d].live
                                        /\ rdata'[d].payload.data = rdata[d].payload.data

LEMMA SameRows ==
    ASSUME Unaltered, DataRefs
    PROVE  ExactStep
<1> USE DEF Unaltered
<1>1. ASSUME NEW s PROVE Texts(s)' = Texts(s)
  <2>1. ASSUME NEW t PROVE t \in Texts(s)' <=> t \in Texts(s)
    BY InTexts
  <2> QED BY <2>1 DEF Texts
<1>2. DataKept /\ DataRefs'
  BY DEF DataKept, DataRefs
<1> QED BY <1>1, <1>2 DEF ExactStep, Alike

LEMMA RowsInserted ==
    ASSUME TablesOK, DataRefs, NEW row \in SetRow, rrsets' = Append(rrsets, row),
           NEW records \in Seq(Payload), rdata' = rdata \o NewData(Len(rrsets) + 1, records),
           {records[k].data : k \in DOMAIN records} \in TextsOfOneRequest
    PROVE  ExactStep
<1>1. /\ Len(rrsets) \in Nat /\ DOMAIN rrsets = 1 .. Len(rrsets)
      /\ rdata \in Seq(DataRow)
  BY LenProperties DEF TablesOK
<1>0. PICK s \in Nat : s = Len(rrsets) + 1
  BY <1>1
<1>2. DOMAIN rrsets' = 1 .. s
  <2>1. rrsets' \in Seq(SetRow) /\ Len(rrsets') = s
    BY <1>0, AppendProperties DEF TablesOK
  <2> QED BY <2>1, LenProperties
<1>3. s \notin DOMAIN rrsets
  BY <1>0, <1>1
<1>4. \A d \in DOMAIN rdata : rdata[d].set # s
  BY <1>3 DEF DataRefs
<1>5. rdata' = rdata \o NewData(s, records)
  BY <1>0
<1>6. /\ Texts(s)' = {records[k].data : k \in DOMAIN records}
      /\ \A u : u # s => Texts(u)' = Texts(u)
      /\ \A d \in DOMAIN rdata' : rdata'[d].set = s \/ \E e \in DOMAIN rdata :
                                        rdata'[d].set = rdata[e].set
      /\ \A d \in DOMAIN rdata : d \in DOMAIN rdata' /\ rdata'[d].payload = rdata[d].payload
  <2>1. Cleared(rdata, s)
    BY <1>4 DEF Cleared
  <2> QED BY <1>1, <1>5, <2>1, ReplacedTexts DEF Replaced
<1>7. \A u \in DOMAIN rrsets' : u = s \/ u \in DOMAIN rrsets
  BY <1>0, <1>1, <1>2
<1>8. \A u \in DOMAIN rrsets \cup {s} : u \in DOMAIN rrsets'
  BY <1>0, <1>1, <1>2
<1>9. DataKept /\ DataRefs'
  BY <1>6, <1>8 DEF DataKept, DataRefs
<1>10. ASSUME NEW u \in DOMAIN rrsets' PROVE Alike(u) \/ Fresh(u)
  <2>1. CASE u = s
    BY <1>6, <2>1 DEF Fresh
  <2>2. CASE u # s
    BY <1>6, <1>7, <2>2 DEF Alike
  <2> QED BY <2>1, <2>2
<1> QED BY <1>9, <1>10 DEF ExactStep

LEMMA InsertSetTexts ==
    ASSUME StoreInv, DataRefs, NEW h \in Handlers, InsertSet(h) \/ CreateSOA(h)
    PROVE  ExactStep
<1>1. TablesOK /\ Ready(pc[h], req[h], local[h])
  BY AtStep DEF StoreInv
<1>2. CASE UNCHANGED <<rrsets, rdata>>
  BY <1>2, SameRows DEF Unaltered
<1>3. CASE InsertSet(h) /\ ~UNCHANGED <<rrsets, rdata>>
  <2> DEFINE r == req[h]
             row == NewSet(r.zone, r.name, r.type, EffectiveTTL(r.ttl))
  <2>1. r \in Requests /\ r.op = "createRRSet"
    BY <1>1, <1>3 DEF InsertSet, Ready
  <2>2. row \in SetRow /\ r.records \in Seq(Payload)
    BY <2>1, RequestColumns, EffectiveTTLType, NewSetType DEF ZoneOps, SetOps
  <2>3. {r.records[k].data : k \in DOMAIN r.records} \in TextsOfOneRequest
    BY <2>1 DEF TextsOfOneRequest, RequestTexts
  <2>4. rrsets' = Append(rrsets, row) /\ rdata' = rdata \o NewData(Len(rrsets) + 1, r.records)
    BY <1>3 DEF InsertSet
  <2> HIDE DEF row, r
  <2> QED BY <1>1, <2>2, <2>3, <2>4, RowsInserted
<1>4. CASE CreateSOA(h) /\ ~UNCHANGED <<rrsets, rdata>>
  <2> DEFINE z == req[h].zone
             row == NewSet(z, Apex[z], "SOA", SOATTL)
             records == <<DefaultSOA>>
  <2>1. row \in SetRow
    BY <1>1, <1>4, RequestColumns, NewSetType, StoreAssumption
       DEF CreateSOA, Ready, ZoneOps
  <2>2. records \in Seq(Payload) /\ DOMAIN records = {1} /\ records[1] = DefaultSOA
    BY StoreAssumption
  <2>3. rrsets' = Append(rrsets, row) /\ rdata' = rdata \o NewData(Len(rrsets) + 1, records)
    BY <1>4 DEF CreateSOA
  <2> HIDE DEF row, records
  <2>4. {records[k].data : k \in DOMAIN records} = {DefaultSOA.data}
    BY <2>2
  <2>5. {records[k].data : k \in DOMAIN records} \in TextsOfOneRequest
    BY <2>4 DEF TextsOfOneRequest
  <2> QED BY <1>1, <2>1, <2>2, <2>3, <2>5, RowsInserted
<1> QED BY <1>2, <1>3, <1>4 DEF InsertSet, CreateSOA

LEMMA PutSetTexts ==
    ASSUME StoreInv, RowsFound, DataRefs, NEW h \in Handlers, PutSet(h)
    PROVE  ExactStep
<1> DEFINE r == req[h]
<1>1. TablesOK /\ Ready(pc[h], r, local[h])
  BY AtStep DEF StoreInv
<1>2. r \in Requests /\ r.op = "updateRRSet" /\ r.set \in DOMAIN rrsets
  BY <1>1 DEF PutSet, Ready, RowsFound
<1>3. r.records \in Seq(Payload) /\ r.set \in Nat
  BY <1>2, RequestColumns
<1>4. {r.records[k].data : k \in DOMAIN r.records} \in TextsOfOneRequest
  BY <1>2 DEF TextsOfOneRequest, RequestTexts
<1>5. CASE UNCHANGED <<rrsets, rdata>>
  BY <1>5, SameRows DEF Unaltered
<1>7. PICK s \in Nat : s = r.set
  BY <1>3
<1>6. CASE /\ \E row : rrsets' = [rrsets EXCEPT ![r.set] = row]
           /\ rdata' = WithoutData(r.set) \o NewData(r.set, r.records)
  <2> DEFINE old == WithoutData(s)
  <2>1. old \in Seq(DataRow) /\ DOMAIN old = DOMAIN rdata
    BY <1>1, WithoutDataType DEF TablesOK, WithoutData
  <2>2. ASSUME NEW d \in DOMAIN rdata
        PROVE  /\ old[d].set = rdata[d].set /\ old[d].payload = rdata[d].payload
               /\ old[d].live <=> rdata[d].live /\ rdata[d].set # s
    <3>1. rdata[d] \in DataRow
      BY <1>1, ElementOfSeq, LenProperties DEF TablesOK
    <3> QED BY <3>1 DEF WithoutData, DataRow
  <2>3. DOMAIN rrsets' = DOMAIN rrsets
    BY <1>6
  <2> HIDE DEF old
  <2>4. rdata' = old \o NewData(s, r.records)
    BY <1>6, <1>7 DEF old
  <2>5. /\ Texts(s)' = {r.records[k].data : k \in DOMAIN r.records}
        /\ \A u : u # s => Texts(u)' = Texts(u)
        /\ \A d \in DOMAIN rdata' : rdata'[d].set = s \/ \E e \in DOMAIN rdata :
                                          rdata'[d].set = rdata[e].set
        /\ \A d \in DOMAIN rdata : d \in DOMAIN rdata' /\ rdata'[d].payload = rdata[d].payload
    <3>1. Cleared(old, s)
      BY <2>2 DEF Cleared
    <3> QED BY <1>3, <2>1, <2>4, <3>1, ReplacedTexts DEF Replaced
  <2>6. DataKept /\ DataRefs'
    BY <1>2, <1>7, <2>3, <2>5 DEF DataKept, DataRefs
  <2>7. ASSUME NEW u \in DOMAIN rrsets' PROVE Alike(u) \/ Fresh(u)
    BY <1>4, <2>3, <2>5 DEF Alike, Fresh
  <2> QED BY <2>6, <2>7 DEF ExactStep
<1> QED BY <1>5, <1>6 DEF PutSet

LEMMA WriteSOATexts ==
    ASSUME StoreInv, DataRefs, SOAAsRead, NEW h \in Handlers, WriteSOA(h)
    PROVE  ExactStep
<1> DEFINE s == local[h].soa
           new == [rdata[s].payload EXCEPT !.data = local[h].text.data,
                                           !.serial = Bumped(local[h].text.serial)]
<1>1. TablesOK /\ s \in DOMAIN rdata /\ local[h].text.data = rdata[s].payload.data
  BY DEF StoreInv, WriteSOA, SOAAsRead
<1>2. \A d \in DOMAIN rdata : rdata[d] \in [set : Nat, payload : Payload, live : BOOLEAN]
  BY <1>1, ElementOfSeq, LenProperties DEF TablesOK, DataRow
<1>3. new.data = rdata[s].payload.data
  BY <1>1, <1>2 DEF Payload
<1> HIDE DEF new
<1>4. rdata' = [rdata EXCEPT ![s] = IF rdata[s].live THEN [rdata[s] EXCEPT !.payload = new]
                                                    ELSE rdata[s]]
  BY <1>1, <1>2 DEF WriteSOA, new
<1>5. DOMAIN rdata' = DOMAIN rdata /\ DOMAIN rrsets' = DOMAIN rrsets
  BY <1>1, <1>2, <1>4 DEF WriteSOA
<1>6. ASSUME NEW d \in DOMAIN rdata
      PROVE  /\ rdata'[d].set = rdata[d].set
             /\ rdata'[d].live <=> rdata[d].live
             /\ rdata'[d].payload.data = rdata[d].payload.data
  BY <1>1, <1>2, <1>3, <1>4
<1>7. Unaltered
  BY <1>5, <1>6 DEF Unaltered
<1> QED BY <1>7, SameRows

LEMMA DeleteTexts ==
    ASSUME TablesOK, DataRefs, NEW h \in Handlers, DeleteZone(h) \/ DeleteSet(h)
    PROVE  ExactStep
<1>1. DOMAIN rrsets' = DOMAIN rrsets /\ rdata' = rdata
  BY DEF DeleteZone, DeleteSet
<1> QED BY <1>1, SameRows DEF Unaltered

(* Imports: the rrsets it brings, and the others.                          *)
LEMMA ImportEffect ==
    ASSUME StoreInv, DataRefs, NEW h \in Handlers, ImportSets(h)
    PROVE  \/ ExactStep
           \/ \E r \in Requests :
                 /\ r = req[h] /\ r.op = "importZone"
                 /\ \E f : /\ Numbered(r, f) /\ Arranged(r, f)
                          /\ DOMAIN rrsets' = DOMAIN ImportedSets(r, f)
                 /\ DataKept /\ DataRefs'
<1>1. TablesOK /\ Ready(pc[h], req[h], local[h])
  BY AtStep DEF StoreInv
<1>2. PICK r \in Requests : r = req[h] /\ r.op = "importZone"
  BY <1>1 DEF ImportSets, Ready
<1>3. CASE UNCHANGED <<rrsets, rdata>>
  BY <1>3, SameRows DEF Unaltered
<1>4. ASSUME NEW f \in Numberings(Created(r)), NEW g \in Numberings(Inserted(r)),
             rrsets' = ImportedSets(r, f), rdata' = ImportedData(r, f, g)
      PROVE  \E u : /\ Numbered(r, u) /\ Arranged(r, u)
                    /\ DOMAIN rrsets' = DOMAIN ImportedSets(r, u)
                    /\ DataKept /\ DataRefs'
  <2>1. Numbered(r, f) /\ Arranged(r, f)
    BY <1>1, <1>2, <1>4, ImportNumbers, ImportArranges
  <2>2. DataKept
    BY <2>1 DEF Arranged, DataKept
  <2>3. RowsKept
    BY ImportKeepsRows
  <2>4. ASSUME NEW n \in DOMAIN r.records
        PROVE  SetNumber(r, f, r.records[n].of) \in DOMAIN rrsets'
    <3>1. r.records[n].of \in DOMAIN r.sets
      BY <1>1, <1>2, ImportRows DEF WellFormedImport
    <3>2. \A k \in DOMAIN r.sets : Updated(r, k) \subseteq DOMAIN rrsets
      BY DEF Updated, LiveSets
    <3> QED BY <1>4, <2>1, <2>3, <3>1, <3>2 DEF Numbered, RowsKept
  <2>5. ASSUME NEW d \in DOMAIN rdata' PROVE rdata'[d].set \in DOMAIN rrsets'
    <3>1. CASE d \notin DOMAIN rdata
      BY <2>1, <2>4, <3>1 DEF Arranged
    <3>2. CASE d \in DOMAIN rdata /\ Naming(r, d) = {}
      BY <2>1, <2>3, <3>2 DEF Arranged, DataRefs, RowsKept
    <3>3. CASE d \in DOMAIN rdata /\ Naming(r, d) # {}
      <4>1. PICK n \in Naming(r, d) : rdata'[d].set = SetNumber(r, f, r.records[n].of)
        BY <2>1, <3>3 DEF Arranged
      <4> QED BY <2>4, <4>1 DEF Naming
    <3> QED BY <3>1, <3>2, <3>3
  <2>6. DataRefs'
    BY <2>5 DEF DataRefs
  <2> QED BY <1>4, <2>1, <2>2, <2>6
<1> QED BY <1>2, <1>3, <1>4, ImportedInOrder

LEMMA ImportedIsOne ==
    ASSUME NEW r \in Requests, r.op = "importZone", NEW k \in DOMAIN r.sets
    PROVE  ImportTexts(r, k) \in TextsOfOneRequest
  BY DEF TextsOfOneRequest, ImportedTexts

LEMMA ImportLoose ==
    ASSUME StoreInv, DataRefs, NumbersOwn, NEW h \in Handlers, ImportSets(h)
    PROVE  DataKept /\ LooseStep
<1>1. CASE ExactStep
  BY <1>1, ExactIsLoose DEF ExactStep
<1>2. ASSUME NEW r \in Requests, r = req[h], r.op = "importZone",
             NEW f, Numbered(r, f), Arranged(r, f),
             DOMAIN rrsets' = DOMAIN ImportedSets(r, f),
             NEW s \in DOMAIN rrsets'
      PROVE  Fewer(s) \/ Touched(s)
  <2>1. TablesOK
    BY DEF StoreInv
  <2>2. CASE \A k \in DOMAIN r.sets : s # SetNumber(r, f, k)
    <3>1. Texts(s)' \subseteq Texts(s) /\ s \in DOMAIN rrsets
      BY <1>2, <2>1, <2>2, LeftTexts
    <3> QED BY <3>1 DEF Fewer
  <2>3. ASSUME NEW k \in DOMAIN r.sets, s = SetNumber(r, f, k) PROVE Touched(s)
    <3>1. NamesOwn(r, WebTexts)
      BY <1>2 DEF NumbersOwn, ImportSets
    <3>2. Texts(s)' \subseteq ImportTexts(r, k) \cup WebTexts
      BY <1>2, <2>1, <2>3, <3>1, BroughtTexts
    <3> QED BY <1>2, <2>3, <3>2, ImportedIsOne DEF Touched
  <2> QED BY <2>2, <2>3
<1> QED BY <1>1, <1>2, ImportEffect DEF LooseStep

LEMMA ImportExact ==
    ASSUME StoreInv, DataRefs, NEW h \in Handlers, ImportSets(h), NoNumbers(req[h])
    PROVE  ExactStep
<1>1. ASSUME NEW r \in Requests, r = req[h], r.op = "importZone",
             NEW f, Numbered(r, f), Arranged(r, f),
             DOMAIN rrsets' = DOMAIN ImportedSets(r, f),
             NEW s \in DOMAIN rrsets'
      PROVE  Alike(s) \/ Fresh(s)
  <2>1. TablesOK /\ KeysUnique
    BY DEF StoreInv
  <2>2. CASE \A k \in DOMAIN r.sets : s # SetNumber(r, f, k)
    <3>1. Texts(s)' \subseteq Texts(s) /\ s \in DOMAIN rrsets
      BY <1>1, <2>1, <2>2, LeftTexts
    <3>2. Texts(s) \subseteq Texts(s)'
      BY <1>1, <2>1, <2>2, PlainImportTexts
    <3>3. Texts(s)' = Texts(s)
      BY <3>1, <3>2
    <3> QED BY <3>1, <3>3 DEF Alike
  <2>3. ASSUME NEW k \in DOMAIN r.sets, s = SetNumber(r, f, k) PROVE Fresh(s)
    <3>1. NamesOwn(r, {})
      BY <1>1, <2>1, ImportRows DEF NamesOwn, NoNumbers
    <3>2. Texts(s)' \subseteq ImportTexts(r, k) \cup {}
      BY <1>1, <2>1, <2>3, <3>1, BroughtTexts
    <3>3. ImportTexts(r, k) \subseteq Texts(s)'
      BY <1>1, <2>1, <2>3, PlainImportTexts
    <3>4. Texts(s)' = ImportTexts(r, k)
      BY <3>2, <3>3
    <3> QED BY <1>1, <2>3, <3>4, ImportedIsOne DEF Fresh
  <2> QED BY <2>2, <2>3
<1> QED BY <1>1, ImportEffect DEF ExactStep

(* The web admin adds records and changes or deletes some.                 *)
OnlyWebAdds ==
    /\ DOMAIN rrsets' = DOMAIN rrsets
    /\ \A d \in DOMAIN rdata' :
          \/ /\ d \in DOMAIN rdata
             /\ rdata'[d].set = rdata[d].set
             /\ \/ rdata'[d].payload.data \in WebTexts
                \/ /\ rdata'[d].live => rdata[d].live
                   /\ rdata'[d].payload.data = rdata[d].payload.data
          \/ /\ rdata'[d].set \in DOMAIN rrsets
             /\ rdata'[d].payload.data \in WebTexts

LEMMA WebAddsLoose ==
    ASSUME OnlyWebAdds, DataRefs
    PROVE  LooseStep
<1>1. ASSUME NEW s \in DOMAIN rrsets', NEW t \in Texts(s)' PROVE t \in Texts(s) \cup WebTexts
  <2>1. PICK d \in DOMAIN rdata' :
            rdata'[d].live /\ rdata'[d].set = s /\ rdata'[d].payload.data = t
    BY <1>1, InTexts
  <2>2. CASE t \in WebTexts
    BY <2>2
  <2>3. CASE t \notin WebTexts
    <3>1. d \in DOMAIN rdata /\ rdata[d].live /\ rdata[d].set = s /\ rdata[d].payload.data = t
      BY <2>1, <2>3 DEF OnlyWebAdds
    <3> QED BY <3>1, InTexts
  <2> QED BY <2>2, <2>3
<1>2. DataRefs'
  BY DEF OnlyWebAdds, DataRefs
<1>3. DOMAIN rrsets' = DOMAIN rrsets
  BY DEF OnlyWebAdds
<1> QED BY <1>1, <1>2, <1>3 DEF LooseStep, Fewer

LEMMA WantedText ==
    ASSUME NEW r \in Requests, NEW l, r.op \in WebOps,
           r.op = "webApplyTemplate" => l.at \in DOMAIN r.records
    PROVE  Wanted(r, l).payload.data \in WebTexts
<1>1. CASE r.op = "webApplyTemplate"
  <2>1. Wanted(r, l).payload = r.records[l.at].payload
    BY <1>1 DEF Wanted
  <2>2. Wanted(r, l).payload.data \in {r.records[k].payload.data : k \in DOMAIN r.records}
    BY <1>1, <2>1
  <2> QED BY <1>1, <2>2 DEF WebTexts
<1>2. CASE r.op = "webCreateRecord"
  <2>1. Wanted(r, l).payload = r.payload
    BY <1>2 DEF Wanted
  <2> QED BY <1>2, <2>1 DEF WebTexts
<1> QED BY <1>1, <1>2 DEF WebOps

LEMMA WebInsertSetTexts ==
    ASSUME StoreInv, RowsFound, DataRefs, NEW h \in Handlers, WebInsertSet(h)
    PROVE  DataKept /\ LooseStep
<1>1. RowsKept
  BY RowsKeptStep DEF StoreNext, WebStep
<1>2. rdata' = rdata
  BY DEF WebInsertSet
<1>3. DataKept /\ DataRefs'
  BY <1>1, <1>2 DEF DataKept, DataRefs, RowsKept
<1>4. ASSUME NEW s PROVE Texts(s)' = Texts(s)
  BY <1>2 DEF Texts, LiveData
<1>5. ASSUME NEW s \in DOMAIN rrsets', s \notin DOMAIN rrsets PROVE Touched(s)
  <2>1. Texts(s)' = {}
    BY <1>4, <1>5, InTexts DEF DataRefs
  <2>2. {DefaultSOA.data} \in TextsOfOneRequest
    BY DEF TextsOfOneRequest
  <2> QED BY <2>1, <2>2 DEF Touched
<1>6. ASSUME NEW s \in DOMAIN rrsets PROVE Fewer(s)
  BY <1>4 DEF Fewer
<1> QED BY <1>3, <1>5, <1>6 DEF LooseStep

LEMMA WebInsertDataTexts ==
    ASSUME StoreInv, DataRefs, InsertsKnown, NEW h \in Handlers, WebInsertData(h)
    PROVE  DataKept /\ LooseStep
<1>1. TablesOK /\ Ready(pc[h], req[h], local[h]) /\ local[h] \in Local
  BY AtStep DEF StoreInv
<1>2. PICK s \in Nat : s = local[h].set /\ s \in DOMAIN rrsets
  BY <1>1 DEF InsertsKnown, WebInsertData, Local
<1>3. PICK p \in Payload : p = Wanted(req[h], local[h]).payload /\ p.data \in WebTexts
  BY <1>1, WantedType, WantedText DEF Ready, WebInsertData
<1>4. PICK records \in Seq(Payload) :
          records = <<p>> /\ DOMAIN records = {1} /\ records[1] = p
  <2>1. <<p>> \in Seq(Payload) /\ DOMAIN <<p>> = {1} /\ <<p>>[1] = p
    OBVIOUS
  <2> QED BY <2>1
<1>5. rdata' = rdata \o NewData(s, records) /\ rrsets' = rrsets
  BY <1>2, <1>3, <1>4 DEF WebInsertData
<1>6. Extended(rdata, rdata', s, records)
  BY <1>1, <1>5, NewRows DEF TablesOK
<1>7. OnlyWebAdds
  <2>1. ASSUME NEW d \in DOMAIN rdata', d \notin DOMAIN rdata
        PROVE  rdata'[d].set \in DOMAIN rrsets /\ rdata'[d].payload.data \in WebTexts
    BY <1>2, <1>3, <1>4, <1>6, <2>1 DEF Extended
  <2>2. ASSUME NEW d \in DOMAIN rdata PROVE d \in DOMAIN rdata' /\ rdata'[d] = rdata[d]
    BY <1>6 DEF Extended
  <2> QED BY <1>5, <2>1, <2>2 DEF OnlyWebAdds
<1>8. DataKept
  BY <1>6 DEF DataKept, Extended
<1> QED BY <1>7, <1>8, WebAddsLoose

LEMMA WebRecordTexts ==
    ASSUME StoreInv, DataRefs, InsertsKnown, NEW h \in Handlers,
           WebDeleteRecord(h) \/ WebSaveRecord(h)
    PROVE  /\ LooseStep
           /\ \A d \in DOMAIN rdata :
                 /\ d \in DOMAIN rdata'
                 /\ \/ pc[h] = "webSaveRecord" /\ req[h].rec = d
                    \/ rdata'[d].payload.data = rdata[d].payload.data
<1>1. TablesOK /\ Ready(pc[h], req[h], local[h])
  BY AtStep DEF StoreInv
<1>2. \A d \in DOMAIN rdata : rdata[d] \in [set : Nat, payload : Payload, live : BOOLEAN]
  BY <1>1, ElementOfSeq, LenProperties DEF TablesOK, DataRow
<1>3. CASE WebDeleteRecord(h)
  <2>1. DOMAIN rdata' = DOMAIN rdata /\ rrsets' = rrsets
    BY <1>3 DEF WebDeleteRecord
  <2>2. ASSUME NEW d \in DOMAIN rdata
        PROVE  /\ rdata'[d].set = rdata[d].set
               /\ rdata'[d].live => rdata[d].live
               /\ rdata'[d].payload.data = rdata[d].payload.data
    BY <1>2, <1>3 DEF WebDeleteRecord
  <2>3. OnlyWebAdds
    BY <2>1, <2>2 DEF OnlyWebAdds
  <2> QED BY <2>1, <2>2, <2>3, WebAddsLoose
<1>4. CASE WebSaveRecord(h)
  <2>1. req[h].payload.data \in WebTexts
    BY <1>1, <1>4 DEF WebSaveRecord, Ready, WebTexts
  <2>2. DOMAIN rdata' = DOMAIN rdata /\ rrsets' = rrsets /\ pc[h] = "webSaveRecord"
    BY <1>1, <1>4 DEF WebSaveRecord
  <2>3. ASSUME NEW d \in DOMAIN rdata
        PROVE  IF d = req[h].rec
               THEN rdata'[d].set \in DOMAIN rrsets /\ rdata'[d].payload = req[h].payload
               ELSE rdata'[d] = rdata[d]
    <3>1. CASE d = req[h].rec
      <4>1. rdata'[d] = [set |-> local[h].set, payload |-> req[h].payload, live |-> TRUE]
        BY <1>4, <3>1 DEF WebSaveRecord
      <4> QED BY <2>2, <3>1, <4>1 DEF InsertsKnown
    <3>2. CASE d # req[h].rec
      BY <1>2, <1>4, <3>2 DEF WebSaveRecord
    <3> QED BY <3>1, <3>2
  <2>4. OnlyWebAdds
    BY <2>1, <2>2, <2>3 DEF OnlyWebAdds
  <2> QED BY <2>2, <2>3, <2>4, WebAddsLoose
<1> QED BY <1>3, <1>4

-----------------------------------------------------------------------------
(***************************************************************************)
(* Every step.                                                             *)
(***************************************************************************)
RestDataStep(h) ==
    \/ FindZone(h) \/ CreateZone(h) \/ DeleteZone(h)
    \/ CheckSet(h) \/ InsertSet(h) \/ FindSet(h) \/ PutSet(h) \/ DeleteSet(h)
    \/ ReadSOA(h) \/ ReadSOAData(h) \/ CreateSOA(h) \/ WriteSOA(h)

LEMMA RestTexts ==
    ASSUME StoreInv, RowsFound, DataRefs, SOAAsRead, NEW h \in Handlers, RestDataStep(h)
    PROVE  ExactStep
<1>1. CASE UNCHANGED <<rrsets, rdata>>
  BY <1>1, SameRows DEF Unaltered
<1>2. TablesOK
  BY DEF StoreInv
<1> QED BY <1>1, <1>2, InsertSetTexts, PutSetTexts, WriteSOATexts, DeleteTexts
        DEF RestDataStep, FindZone, CreateZone, CheckSet, FindSet, ReadSOA, ReadSOAData, tables

LEMMA SaveTTLTexts ==
    ASSUME DataRefs, NEW h, WebSaveTTL(h)
    PROVE  ExactStep
<1>1. Unaltered
  BY DEF WebSaveTTL, Unaltered
<1> QED BY <1>1, SameRows

(* Only the web form changes a text that is there.                         *)
StepKeeps ==
    \A d \in DOMAIN rdata :
        /\ d \in DOMAIN rdata'
        /\ \/ rdata'[d].payload.data = rdata[d].payload.data
           \/ \E h \in Handlers : pc[h] = "webSaveRecord" /\ req[h].rec = d

LEMMA StepTexts ==
    ASSUME StoreInv, RowsFound, DataRefs, InsertsKnown, SOAAsRead, NumbersOwn,
           [StoreNext]_storeVars
    PROVE  StepKeeps /\ LooseStep
<1>1. CASE DataKept /\ LooseStep
  BY <1>1 DEF DataKept, StepKeeps
<1>2. CASE ExactStep
  BY <1>1, <1>2, ExactIsLoose DEF ExactStep
<1>3. CASE UNCHANGED <<rrsets, rdata>>
  BY <1>2, <1>3, SameRows DEF Unaltered
<1>4. ASSUME NEW h \in Handlers, WebDeleteRecord(h) \/ WebSaveRecord(h)
      PROVE  StepKeeps /\ LooseStep
  BY <1>4, WebRecordTexts DEF StepKeeps
<1>5. ASSUME NEW h \in Handlers, RestStep(h) PROVE StepKeeps /\ LooseStep
  BY <1>1, <1>2, <1>5, RestTexts, ImportLoose DEF RestStep, RestDataStep
<1>6. ASSUME NEW h \in Handlers, WebStep(h) PROVE StepKeeps /\ LooseStep
  <2>1. \/ UNCHANGED <<rrsets, rdata>>
        \/ WebInsertSet(h) \/ WebInsertData(h) \/ WebSaveTTL(h)
        \/ WebDeleteRecord(h) \/ WebSaveRecord(h)
    BY <1>6 DEF WebStep, WebCreateZone, WebDeleteZone, WebFindSet, WebFindRecord,
                WebReadSet, tables
  <2> QED BY <1>1, <1>2, <1>3, <1>4, <2>1, WebInsertSetTexts, WebInsertDataTexts, SaveTTLTexts
<1> QED BY <1>3, <1>5, <1>6
        DEF StoreNext, Begin, Invalidate, StatementFails, RestartHandlers, storeVars, tables

(* What a handler has found stays true until it uses it.                   *)
LEMMA InsertsKnownStep ==
    ASSUME StoreInv, RowsFound, DataRefs, InsertsKnown, [StoreNext]_storeVars
    PROVE  InsertsKnown'
<1> SUFFICES ASSUME NEW g \in Handlers, pc'[g] \in {"webInsertData", "webSaveRecord"}
             PROVE  local'[g].set \in DOMAIN rrsets'
  BY DEF InsertsKnown
<1>1. RowsKept /\ HandlersOK /\ TablesOK
  BY RowsKeptStep DEF StoreInv
<1>2. CASE pc'[g] = pc[g] /\ req'[g] = req[g] /\ local'[g] = local[g]
  BY <1>1, <1>2 DEF InsertsKnown, RowsKept
<1>3. local[g] \in Local
  BY <1>1, AtStep
<1>4. CASE WebFindSet(g)
  BY <1>1, <1>3, <1>4 DEF WebFindSet, LiveSets, Continue, Goto, HandlersOK, Local, tables
<1>5. CASE WebInsertSet(g)
  <2> DEFINE w   == Wanted(req[g], local[g])
             row == NewSet(req[g].zone, w.name, w.type, w.ttl)
  <2>1. row \in SetRow
    BY <1>1, <1>5, AtStep, WantedType, NewSetType DEF Ready, WebInsertSet
  <2>2. ~NextRecord(g)
    BY <1>1 DEF NextRecord, Respond, Goto, HandlersOK
  <2>5. /\ rrsets' = Append(rrsets, row)
        /\ local' = [local EXCEPT ![g].set = Len(rrsets) + 1]
    BY <1>5, <2>2 DEF WebInsertSet
  <2> HIDE DEF row
  <2>3. local'[g].set = Len(rrsets) + 1
    BY <1>1, <1>3, <2>5 DEF HandlersOK, Local
  <2>4. rrsets' \in Seq(SetRow) /\ Len(rrsets') = Len(rrsets) + 1 /\ Len(rrsets) \in Nat
    BY <1>1, <2>1, <2>5, AppendProperties, LenProperties DEF TablesOK
  <2> QED BY <2>3, <2>4, LenProperties
<1>9. CASE WebFindRecord(g)
  BY <1>1, <1>3, <1>9 DEF WebFindRecord, DataRefs, Respond, Goto, HandlersOK, Local, tables
<1>6. CASE RestartHandlers
  BY <1>6 DEF RestartHandlers
<1>7. CASE UNCHANGED storeVars
  BY <1>2, <1>7 DEF storeVars
<1>8. ASSUME NEW h \in Handlers,
             Begin(h) \/ RestStep(h) \/ WebStep(h) \/ Invalidate(h) \/ StatementFails(h)
      PROVE  \/ pc'[g] = pc[g] /\ req'[g] = req[g] /\ local'[g] = local[g]
             \/ WebFindSet(g) \/ WebInsertSet(g) \/ WebFindRecord(g)
  <2>1. CASE h = g
    BY <1>1, <1>8, <2>1, UsesFollowReads
  <2>2. CASE h # g
    BY <1>1, <1>8, <2>2, OneHandlerMoves DEF Moved
  <2> QED BY <2>1, <2>2
<1> QED BY <1>2, <1>4, <1>5, <1>6, <1>7, <1>8, <1>9 DEF StoreNext

(* Records refer to rrsets whatever clients do.                            *)
LEMMA DataRefsStep ==
    ASSUME StoreInv, RowsFound, DataRefs, InsertsKnown, [StoreNext]_storeVars
    PROVE  DataRefs'
<1>1. CASE UNCHANGED <<rrsets, rdata>>
  BY <1>1 DEF DataRefs
<1>2. ASSUME NEW h \in Handlers, WriteSOA(h) PROVE DataRefs'
  <2>1. \A d \in DOMAIN rdata : rdata[d] \in [set : Nat, payload : Payload, live : BOOLEAN]
    BY ElementOfSeq, LenProperties DEF StoreInv, TablesOK, DataRow
  <2>2. DOMAIN rdata' = DOMAIN rdata /\ rrsets' = rrsets
    BY <1>2 DEF WriteSOA
  <2>3. ASSUME NEW d \in DOMAIN rdata PROVE rdata'[d].set = rdata[d].set
    BY <1>2, <2>1 DEF WriteSOA
  <2> QED BY <2>2, <2>3 DEF DataRefs
<1>3. ASSUME NEW h \in Handlers, RestStep(h) PROVE DataRefs'
  <2>1. \/ UNCHANGED <<rrsets, rdata>>
        \/ DeleteZone(h) \/ InsertSet(h) \/ PutSet(h) \/ DeleteSet(h) \/ ImportSets(h)
        \/ CreateSOA(h) \/ WriteSOA(h)
    BY <1>3 DEF RestStep, FindZone, CreateZone, CheckSet, FindSet, ReadSOA, ReadSOAData, tables
  <2>2. TablesOK
    BY DEF StoreInv
  <2> QED BY <1>1, <1>2, <2>1, <2>2, InsertSetTexts, PutSetTexts, DeleteTexts, ImportEffect
          DEF ExactStep
<1>4. ASSUME NEW h \in Handlers, WebStep(h) PROVE DataRefs'
  <2>1. \/ UNCHANGED <<rrsets, rdata>>
        \/ WebInsertSet(h) \/ WebInsertData(h) \/ WebSaveTTL(h)
        \/ WebDeleteRecord(h) \/ WebSaveRecord(h)
    BY <1>4 DEF WebStep, WebCreateZone, WebDeleteZone, WebFindSet, WebFindRecord,
                WebReadSet, tables
  <2> QED BY <1>1, <2>1, WebInsertSetTexts, WebInsertDataTexts, SaveTTLTexts, WebRecordTexts
          DEF ExactStep, LooseStep
<1> QED BY <1>1, <1>3, <1>4
        DEF StoreNext, Begin, Invalidate, StatementFails, RestartHandlers, storeVars, tables

LEMMA SOAAsReadStep ==
    ASSUME StoreInv, SOAAsRead, EditsApart, StepKeeps, [StoreNext]_storeVars
    PROVE  SOAAsRead'
<1> SUFFICES ASSUME NEW g \in Handlers, pc'[g] = "writeSOA"
             PROVE  /\ local'[g].soa \in DOMAIN rdata'
                    /\ local'[g].text.data = rdata'[local'[g].soa].payload.data
  BY DEF SOAAsRead
<1>1. HandlersOK
  BY DEF StoreInv
<1>2. CASE pc'[g] = pc[g] /\ req'[g] = req[g] /\ local'[g] = local[g]
  <2>1. /\ local[g].soa \in DOMAIN rdata
        /\ local[g].text.data = rdata[local[g].soa].payload.data
    BY <1>2 DEF SOAAsRead
  <2>2. ~\E h \in Handlers : pc[h] = "webSaveRecord" /\ req[h].rec = local[g].soa
    BY <1>2 DEF EditsApart
  <2>3. /\ local[g].soa \in DOMAIN rdata'
        /\ rdata'[local[g].soa].payload.data = rdata[local[g].soa].payload.data
    BY <2>1, <2>2 DEF StepKeeps
  <2> QED BY <1>2, <2>1, <2>3
<1>3. CASE ReadSOAData(g)
  <2>1. local[g] \in Local
    BY <1>1, AtStep
  <2>2. WithoutSOA(g) # "writeSOA" /\ pc[g] = "readSOAData" /\ rdata' = rdata
    BY <1>3 DEF ReadSOAData, WithoutSOA, tables
  <2>3. PICK d \in LiveData(local[g].set) :
            local' = [local EXCEPT ![g].soa = d, ![g].text = rdata[d].payload]
    BY <1>1, <1>3, <2>2 DEF ReadSOAData, Continue, Goto, HandlersOK
  <2>4. local'[g].soa = d /\ local'[g].text = rdata[d].payload
    BY <1>1, <2>1, <2>3 DEF HandlersOK, Local
  <2> QED BY <2>2, <2>4 DEF LiveData
<1>4. CASE RestartHandlers
  BY <1>4 DEF RestartHandlers
<1>5. CASE UNCHANGED storeVars
  BY <1>2, <1>5 DEF storeVars
<1>6. ASSUME NEW h \in Handlers,
             Begin(h) \/ RestStep(h) \/ WebStep(h) \/ Invalidate(h) \/ StatementFails(h)
      PROVE  \/ pc'[g] = pc[g] /\ req'[g] = req[g] /\ local'[g] = local[g]
             \/ ReadSOAData(g)
  <2>1. CASE h = g
    BY <1>1, <1>6, <2>1, UsesFollowReads
  <2>2. CASE h # g
    BY <1>1, <1>6, <2>2, OneHandlerMoves DEF Moved
  <2> QED BY <2>1, <2>2
<1> QED BY <1>2, <1>3, <1>4, <1>5, <1>6 DEF StoreNext

LEMMA RecordsInvStep ==
    ASSUME StoreInv, RowsFound, RecordsInv, NumbersOwn, EditsApart, [StoreNext]_storeVars
    PROVE  RecordsInv'
<1>1. StepKeeps /\ LooseStep
  BY StepTexts DEF RecordsInv
<1>2. DataRefs' /\ InsertsKnown' /\ SOAAsRead'
  BY <1>1, InsertsKnownStep, SOAAsReadStep DEF RecordsInv, LooseStep
<1>3. ASSUME NEW s \in DOMAIN rrsets' PROVE FromOneRequest(Texts(s)')
  <2>1. CASE Fewer(s)
    <3>1. PICK T \in TextsOfOneRequest : Texts(s) \ WebTexts \subseteq T
      BY <2>1 DEF Fewer, RecordsInv, AllOfOneRequest, FromOneRequest
    <3>2. Texts(s)' \ WebTexts \subseteq T
      BY <2>1, <3>1 DEF Fewer
    <3> QED BY <3>2 DEF FromOneRequest
  <2>2. CASE Touched(s)
    BY <2>2 DEF Touched, FromOneRequest
  <2> QED BY <1>1, <2>1, <2>2 DEF LooseStep
<1>4. AllOfOneRequest'
  BY <1>3 DEF AllOfOneRequest, FromOneRequest, TextsOfOneRequest, RequestTexts,
              ImportedTexts, InitialTexts, WebTexts, ImportTexts
<1> QED BY <1>2, <1>4 DEF RecordsInv

LEMMA RecordsInvInit == StoreInit => RecordsInv
<1> SUFFICES ASSUME StoreInit PROVE RecordsInv
  OBVIOUS
<1>1. DataRefs
  BY StoreAssumption DEF StoreInit, DataRefs
<1>2. InsertsKnown /\ SOAAsRead
  BY DEF StoreInit, InsertsKnown, SOAAsRead
<1>3. ASSUME NEW s \in DOMAIN rrsets PROVE Texts(s) \in TextsOfOneRequest
  BY DEF StoreInit, Texts, LiveData, TextsOfOneRequest, InitialTexts
<1>4. AllOfOneRequest
  BY <1>3 DEF AllOfOneRequest, FromOneRequest
<1> QED BY <1>1, <1>2, <1>4 DEF RecordsInv

(* Whatever POST, PUT, DELETE, imports and bumps overlap, fail or die half *)
(* way, an rrset has the records of one request, but for what the web      *)
(* admin writes, while imports that number their records come from this    *)
(* database and no form saves an SOA record between a bump's read and its  *)
(* write.                                                                  *)
THEOREM RecordsStayTogether ==
    StoreSpec /\ []NumbersOwn /\ []EditsApart => []RecordsOfOneRequest
<1>1. StoreInit => StoreInv /\ RowsFound /\ RecordsInv
  BY StoreInvInit, RowsFoundInit, RecordsInvInit
<1>2. /\ StoreInv /\ RowsFound /\ RecordsInv
      /\ NumbersOwn /\ EditsApart /\ [StoreNext]_storeVars
      => (StoreInv /\ RowsFound /\ RecordsInv)'
  BY StoreInvStep, RowsFoundStep, RecordsInvStep
<1>3. RecordsInv => RecordsOfOneRequest
  BY DEF RecordsInv, AllOfOneRequest, RecordsOfOneRequest
<1> QED BY <1>1, <1>2, <1>3, PTL DEF StoreSpec

(* Where both conditions hold of themselves: no form edits a record and    *)
(* imports leave the numbers of their records to the database.             *)
UneditedRequests ==
    \A r \in Requests :
        /\ r.op # "webUpdateRecord"
        /\ r.op = "importZone" => NoNumbers(r)

LEMMA UneditedConditions ==
    ASSUME UneditedRequests, StoreInv
    PROVE  NumbersOwn /\ EditsApart
<1>1. NumbersOwn
  <2> SUFFICES ASSUME NEW h \in Handlers, pc[h] = "importSets" PROVE NamesOwn(req[h], WebTexts)
    BY DEF NumbersOwn
  <2>1. req[h] \in Requests /\ req[h].op = "importZone"
    BY DEF StoreInv, HandlersOK, Ready
  <2>2. NoNumbers(req[h])
    BY <2>1 DEF UneditedRequests
  <2>3. 0 \notin DOMAIN rdata
    BY LenProperties DEF StoreInv, TablesOK
  <2> QED BY <2>2, <2>3 DEF NamesOwn, NoNumbers
<1>2. EditsApart
  BY DEF EditsApart, StoreInv, HandlersOK, Ready, UneditedRequests
<1> QED BY <1>1, <1>2

(* Every rrset holds records of one request, whatever REST, imports,       *)
(* templates and the web admin's other forms overlap, fail or die half     *)
(* way: the transactions of bind.go, json.go and rest/server.go suffice.   *)
THEOREM UneditedRecordsStayTogether ==
    ASSUME UneditedRequests
    PROVE  StoreSpec => []RecordsOfOneRequest
<1>1. StoreInv => NumbersOwn /\ EditsApart
  BY UneditedConditions
<1>2. StoreSpec => []NumbersOwn /\ []EditsApart
  BY <1>1, StoreInvAlways, PTL
<1> QED BY <1>2, RecordsStayTogether, PTL

-----------------------------------------------------------------------------
(***************************************************************************)
(* Without the web admin's record forms, and with imports that leave the   *)
(* numbers of their records to the database, the records are exactly those *)
(* of one request: none is missing either.                                 *)
(***************************************************************************)
PlainRequests ==
    \A r \in Requests :
        /\ r.op \notin WebOps \cup {"webDeleteRecord", "webUpdateRecord"}
        /\ r.op = "importZone" => NoNumbers(r)

AllExact == \A s \in DOMAIN rrsets : Texts(s) \in TextsOfOneRequest

PlainInv == DataRefs /\ SOAAsRead /\ AllExact

LEMMA PlainStep ==
    ASSUME PlainRequests, StoreInv, RowsFound, DataRefs, SOAAsRead, [StoreNext]_storeVars
    PROVE  ExactStep
<1>1. CASE UNCHANGED <<rrsets, rdata>>
  BY <1>1, SameRows DEF Unaltered
<1>2. ASSUME NEW h \in Handlers, RestStep(h) PROVE ExactStep
  <2>1. CASE ImportSets(h)
    <3>1. NoNumbers(req[h])
      BY <2>1, AtStep DEF ImportSets, Ready, StoreInv, PlainRequests
    <3> QED BY <2>1, <3>1, ImportExact
  <2>2. CASE RestDataStep(h)
    BY <2>2, RestTexts
  <2> QED BY <1>2, <2>1, <2>2 DEF RestStep, RestDataStep
<1>3. ASSUME NEW h \in Handlers, WebStep(h) PROVE UNCHANGED <<rrsets, rdata>>
  <2>1. Ready(pc[h], req[h], local[h])
    BY AtStep DEF StoreInv
  <2>2. pc[h] \notin {"webFindSet", "webInsertSet", "webInsertData", "webDeleteRecord",
                      "webFindRecord", "webSaveRecord", "webReadSet", "webSaveTTL"}
    BY <2>1 DEF Ready, PlainRequests, WebOps
  <2> QED BY <1>3, <2>2 DEF WebStep, WebCreateZone, WebDeleteZone, WebFindSet, WebInsertSet,
             WebInsertData, WebDeleteRecord, WebFindRecord, WebSaveRecord, WebReadSet,
             WebSaveTTL
<1> QED BY <1>1, <1>2, <1>3
        DEF StoreNext, Begin, Invalidate, StatementFails, RestartHandlers, storeVars, tables

LEMMA PlainInvStep ==
    ASSUME PlainRequests, StoreInv, RowsFound, PlainInv, [StoreNext]_storeVars
    PROVE  PlainInv'
<1>1. ExactStep
  BY PlainStep DEF PlainInv
<1>2. StepKeeps
  BY <1>1 DEF ExactStep, DataKept, StepKeeps
<1>3. EditsApart
  BY AtStep DEF StoreInv, Ready, PlainRequests, EditsApart
<1>4. SOAAsRead'
  BY <1>2, <1>3, SOAAsReadStep DEF PlainInv
<1>5. ASSUME NEW s \in DOMAIN rrsets' PROVE Texts(s)' \in TextsOfOneRequest
  BY <1>1 DEF ExactStep, Alike, Fresh, PlainInv, AllExact
<1>6. AllExact'
  BY <1>5 DEF AllExact, TextsOfOneRequest, RequestTexts, ImportedTexts, InitialTexts, ImportTexts
<1> QED BY <1>1, <1>4, <1>6 DEF PlainInv, ExactStep

LEMMA PlainInvInit == StoreInit => PlainInv
<1>1. StoreInit => AllExact
  BY DEF StoreInit, AllExact, Texts, LiveData, TextsOfOneRequest, InitialTexts
<1> QED BY <1>1, RecordsInvInit DEF RecordsInv, PlainInv

(* Then any rrset, deleted ones included, has all the records of one       *)
(* request and no other.                                                   *)
THEOREM RecordsAreWhole ==
    ASSUME PlainRequests
    PROVE  StoreSpec => []AllExact
<1>1. StoreInit => StoreInv /\ RowsFound /\ PlainInv
  BY StoreInvInit, RowsFoundInit, PlainInvInit
<1>2. StoreInv /\ RowsFound /\ PlainInv /\ [StoreNext]_storeVars
      => (StoreInv /\ RowsFound /\ PlainInv)'
  BY StoreInvStep, RowsFoundStep, PlainInvStep
<1>3. PlainInv => AllExact
  BY DEF PlainInv
<1> QED BY <1>1, <1>2, <1>3, PTL DEF StoreSpec

(* The foreign key of r_data: a record refers to a row of rr_sets, though  *)
(* the web admin looks for an rrset and creates its record in two          *)
(* statements, and imports point rows at other rrsets.                     *)
THEOREM DataRefsAlways == StoreSpec => []DataRefs
<1>1. StoreInit => StoreInv /\ RowsFound /\ DataRefs /\ InsertsKnown
  BY StoreInvInit, RowsFoundInit, RecordsInvInit DEF RecordsInv
<1>2. StoreInv /\ RowsFound /\ DataRefs /\ InsertsKnown /\ [StoreNext]_storeVars
      => (StoreInv /\ RowsFound /\ DataRefs /\ InsertsKnown)'
  BY StoreInvStep, RowsFoundStep, DataRefsStep, InsertsKnownStep
<1> QED BY <1>1, <1>2, PTL DEF StoreSpec
-----------------------------------------------------------------------------
(***************************************************************************)
(* What was deleted.  A handler looks at its zone, or at the row it saves, *)
(* and writes by a later statement.  One that writes into a deleted zone,  *)
(* or saves a deleted row, was late, or is about to save a leftover of     *)
(* another that was.                                                       *)
(***************************************************************************)
Remembered ==
    /\ deletedZones \subseteq Zones
    /\ \A z \in deletedZones : zones[z] = "deleted"
    /\ deletedSets \subseteq DOMAIN rrsets
    /\ \A i \in DOMAIN rrsets : rrsets[i].live /\ i \notin leftovers =>
          rrsets[i].zone \notin deletedZones /\ i \notin deletedSets

Latecomers ==
    \A h \in Handlers :
        /\ \A z \in deletedZones : Adds(h, z) =>
              h \in late \/ (pc[h] = "webSaveTTL" /\ local[h].set \in leftovers)
        /\ \A s \in deletedSets : Saves(h, s) => h \in late \/ s \in leftovers

\* deleteZone has found its zone, and zones are never removed.
Deleters == \A h \in Handlers : pc[h] = "deleteZone" => zones[req[h].zone] # "absent"

DeletionsInv == Remembered /\ Latecomers /\ Deleters

(* A live row was live before, in its zone, or handler h writes it.        *)
LiveOrAdded(h) ==
    \A i \in DOMAIN rrsets' : rrsets'[i].live =>
        \/ /\ i \in DOMAIN rrsets /\ rrsets[i].live
           /\ rrsets'[i].zone = rrsets[i].zone
           /\ DeleteZone(h) => rrsets[i].zone # req[h].zone
        \/ /\ Adds(h, rrsets'[i].zone)
           /\ rrsets'[i].zone \in Zones
           /\ \/ i \notin DOMAIN rrsets /\ pc[h] # "webSaveTTL"
              \/ Saves(h, i)

LEMMA AppendedLive ==
    ASSUME TablesOK, NEW h \in Handlers, NEW row \in SetRow, rrsets' = Append(rrsets, row),
           Adds(h, row.zone), ~DeleteZone(h), pc[h] # "webSaveTTL"
    PROVE  LiveOrAdded(h)
<1>1. DOMAIN rrsets = 1 .. Len(rrsets) /\ Len(rrsets) \in Nat
  BY LenProperties DEF TablesOK
<1>2. /\ rrsets' \in Seq(SetRow) /\ Len(rrsets') = Len(rrsets) + 1
      /\ \A i \in 1 .. Len(rrsets) : rrsets'[i] = rrsets[i]
      /\ rrsets'[Len(rrsets) + 1] = row
  BY AppendProperties DEF TablesOK
<1>3. DOMAIN rrsets' = 1 .. Len(rrsets) + 1
  BY <1>2, LenProperties
<1>4. row.zone \in Zones
  BY DEF SetRow
<1>5. ASSUME NEW i \in DOMAIN rrsets', i \notin DOMAIN rrsets PROVE rrsets'[i] = row
  BY <1>1, <1>2, <1>3, <1>5
<1> QED BY <1>1, <1>2, <1>4, <1>5 DEF LiveOrAdded

LEMMA RewrittenLive ==
    ASSUME TablesOK, NEW h \in Handlers, NEW s \in DOMAIN rrsets, NEW row \in SetRow,
           rrsets' = [rrsets EXCEPT ![s] = row], Adds(h, row.zone), Saves(h, s), ~DeleteZone(h)
    PROVE  LiveOrAdded(h)
<1>1. rrsets \in [1 .. Len(rrsets) -> SetRow] /\ DOMAIN rrsets = 1 .. Len(rrsets)
  BY LenProperties DEF TablesOK
<1>2. row.zone \in Zones
  BY DEF SetRow
<1> QED BY <1>1, <1>2 DEF LiveOrAdded

LEMMA DeletedLive ==
    ASSUME TablesOK, NEW h \in Handlers, DeleteZone(h) \/ DeleteSet(h)
    PROVE  LiveOrAdded(h)
<1>1. \A i \in DOMAIN rrsets : rrsets[i] \in SetRow
  BY ElementOfSeq, LenProperties DEF TablesOK
<1> QED BY <1>1 DEF LiveOrAdded, DeleteZone, DeleteSet, SetRow

LEMMA ImportedLive ==
    ASSUME StoreInv, NEW h \in Handlers, ImportSets(h)
    PROVE  LiveOrAdded(h)
<1> DEFINE r == req[h]
<1>1. TablesOK /\ KeysUnique /\ Ready(pc[h], req[h], local[h]) /\ pc[h] = "importSets"
  BY AtStep DEF StoreInv, ImportSets
<1>2. r \in Requests /\ r.op = "importZone"
  BY <1>1 DEF Ready
<1>3. CASE UNCHANGED rrsets
  BY <1>1, <1>3 DEF LiveOrAdded, DeleteZone
<1>4. ASSUME Importable(r), NEW f \in Numberings(Created(r)), rrsets' = ImportedSets(r, f)
      PROVE  LiveOrAdded(h)
  <2> DEFINE old == OldSets(r)
             new == NewSets(r, f)
  <2>1. Joined(old, new, rrsets') /\ DOMAIN old = DOMAIN rrsets /\ DOMAIN new = DOMAIN f
    <3>1. /\ old \in Seq(SetRow) /\ new \in Seq(SetRow) /\ DOMAIN old = DOMAIN rrsets
          /\ DOMAIN new = DOMAIN f /\ rrsets' = old \o new
      BY <1>1, <1>2, <1>4, ImportedSetsParts
    <3> HIDE DEF old, new
    <3> QED BY <3>1, JoinedRows
  <2>2. /\ DOMAIN rrsets = 1 .. Len(rrsets) /\ Len(rrsets) \in Nat
        /\ \A i \in DOMAIN rrsets : rrsets[i] \in SetRow
        /\ r.zone \in Zones
    BY <1>1, <1>2, ImportRows, ElementOfSeq, LenProperties DEF TablesOK
  <2>3. ASSUME NEW i \in DOMAIN rrsets
        PROVE  /\ ImportedRow(r, i) \in SetRow
               /\ ImportedRow(r, i).zone = rrsets[i].zone
               /\ ImportedRow(r, i).live => rrsets[i].live
    <3>1. ImportedRow(r, i) \in SetRow
      BY <1>1, <1>2, ImportedRowType
    <3> QED BY <2>2, <3>1 DEF ImportedRow, SetRow
  <2>4. \A i \in DOMAIN f : new[i].zone = r.zone
    BY <1>1, <1>2, ImportedSetsParts DEF NewFor
  <2>5. \A i \in DOMAIN rrsets : old[i] = ImportedRow(r, i)
    BY DEF OldSets
  <2> HIDE DEF old, new
  <2>6. ASSUME NEW i \in DOMAIN rrsets'
        PROVE  \/ i \in DOMAIN rrsets /\ rrsets'[i] = ImportedRow(r, i)
               \/ i \notin DOMAIN rrsets /\ \E j \in DOMAIN f : rrsets'[i] = new[j]
    BY <2>1, <2>5 DEF Joined
  <2>7. Adds(h, r.zone) /\ pc[h] # "webSaveTTL"
    BY <1>1 DEF Adds, AddSteps
  <2>8. ASSUME NEW i \in DOMAIN rrsets', rrsets'[i].live
        PROVE  \/ /\ i \in DOMAIN rrsets /\ rrsets[i].live
                  /\ rrsets'[i].zone = rrsets[i].zone
               \/ i \notin DOMAIN rrsets /\ rrsets'[i].zone = r.zone
    BY <2>3, <2>4, <2>6, <2>8
  <2> QED BY <1>1, <2>2, <2>7, <2>8 DEF LiveOrAdded, DeleteZone
<1> QED BY <1>3, <1>4, ImportedInOrder

(* A handler that may write rows keeps its request, and has found its zone *)
(* live first.                                                             *)
LEMMA AddsFollow ==
    ASSUME HandlersOK, NEW h \in Handlers,
           Begin(h) \/ RestStep(h) \/ WebStep(h) \/ Invalidate(h) \/ StatementFails(h),
           pc'[h] \in AddSteps
    PROVE  /\ req'[h] = req[h]
           /\ \/ pc[h] \in AddSteps
              \/ FindZone(h) /\ zones[req[h].zone] = "live"
<1> USE DEF HandlersOK
<1>1. ~Respond(h)
  BY DEF Respond, AddSteps
<1>2. ASSUME NEW s, Goto(h, s) PROVE s \in AddSteps
  BY <1>2 DEF Goto
<1>3. ~Begin(h)
  <2>1. ASSUME Begin(h) PROVE FALSE
    <3>1. PICK r \in Requests : Goto(h, FirstStep(r.op))
      BY <2>1 DEF Begin
    <3>2. FirstStep(r.op) \notin AddSteps
      BY RequestColumns DEF FirstStep, AddSteps
    <3> QED BY <1>2, <3>1, <3>2
  <2> QED BY <2>1
<1>4. NextRecord(h) => UNCHANGED req
  BY <1>1 DEF NextRecord
<1>5. UNCHANGED req
  <2>1. ASSUME RestStep(h) PROVE UNCHANGED req
    BY <1>1, <2>1 DEF RestStep, FindZone, CreateZone, DeleteZone, CheckSet, InsertSet, FindSet,
                      PutSet, DeleteSet, ImportSets, ReadSOA, ReadSOAData, CreateSOA, WriteSOA,
                      Continue
  <2>2. ASSUME WebStep(h) PROVE UNCHANGED req
    BY <1>1, <1>4, <2>2
       DEF WebStep, WebCreateZone, WebDeleteZone, WebFindSet, WebInsertSet, WebInsertData,
           WebDeleteRecord, WebFindRecord, WebSaveRecord, WebReadSet, WebSaveTTL, Continue
  <2>3. ASSUME StatementFails(h) PROVE UNCHANGED req
    BY <1>1, <1>4, <2>3 DEF StatementFails, Continue
  <2> QED BY <1>1, <1>3, <2>1, <2>2, <2>3 DEF Invalidate
<1>6. ASSUME pc[h] \notin AddSteps PROVE FindZone(h) /\ zones[req[h].zone] = "live"
  <2>1. FindZone(h) => zones[req[h].zone] = "live"
    BY <1>1 DEF FindZone
  <2>2. ~StatementFails(h)
    BY <1>1, <1>2, <1>6 DEF StatementFails, AfterFault, AddSteps, Continue
  <2>3. ASSUME RestStep(h) PROVE FindZone(h)
    <3>1. FindZone(h) \/ CreateZone(h) \/ DeleteZone(h) \/ WriteSOA(h)
      BY <1>6, <2>3 DEF RestStep, CheckSet, InsertSet, FindSet, PutSet, DeleteSet, ImportSets,
                        ReadSOA, ReadSOAData, CreateSOA, AddSteps
    <3>2. "invalidate" \notin AddSteps
      BY DEF AddSteps
    <3> QED BY <1>1, <1>2, <3>1, <3>2 DEF CreateZone, DeleteZone, WriteSOA, Continue
  <2>4. ~WebStep(h)
    <3>1. \A s \in {"webSaveRecord", "webReadSet", "webSaveTTL"} : s \notin AddSteps
      BY DEF AddSteps
    <3>2. ~WebFindSet(h) /\ ~WebInsertSet(h) /\ ~WebInsertData(h)
      BY <1>6 DEF WebFindSet, WebInsertSet, WebInsertData, AddSteps
    <3> QED BY <1>1, <1>2, <3>1, <3>2
            DEF WebStep, WebCreateZone, WebDeleteZone, WebDeleteRecord, WebFindRecord,
                WebSaveRecord, WebReadSet, WebSaveTTL, Continue
  <2> QED BY <1>1, <1>3, <2>1, <2>2, <2>3, <2>4 DEF Invalidate
<1> QED BY <1>5, <1>6

(* What a step of handler h does to the rows of rr_sets.                   *)
LEMMA LiveStep ==
    ASSUME StoreInv, RowsFound, NEW h \in Handlers,
           Begin(h) \/ RestStep(h) \/ WebStep(h) \/ Invalidate(h) \/ StatementFails(h)
    PROVE  LiveOrAdded(h)
<1>1. TablesOK /\ HandlersOK
  BY DEF StoreInv
<1>2. UNCHANGED rrsets /\ ~DeleteZone(h) => LiveOrAdded(h)
  BY DEF LiveOrAdded
<1>3. CASE DeleteZone(h) \/ DeleteSet(h)
  BY <1>1, <1>3, DeletedLive
<1>4. CASE PutSet(h)
  <2> DEFINE r == req[h]
             row == NewSet(r.zone, r.name, r.type, EffectiveTTL(r.ttl))
  <2>1. pc[h] = "putSet" /\ r.set \in DOMAIN rrsets /\ Ready(pc[h], r, local[h])
    BY <1>1, <1>4, AtStep DEF PutSet, RowsFound
  <2>2. r \in Requests /\ r.op = "updateRRSet"
    BY <2>1 DEF Ready
  <2>3. /\ r.zone \in Zones /\ r.name \in Owners /\ r.type \in Types
        /\ EffectiveTTL(r.ttl) \in Nat
    BY <2>2, RequestColumns, EffectiveTTLType DEF ZoneOps, SetOps
  <2>4. row \in SetRow /\ row.zone = r.zone
    BY <2>3, NewSetType DEF NewSet
  <2>5. UNCHANGED rrsets \/ rrsets' = [rrsets EXCEPT ![r.set] = row]
    BY <1>4 DEF PutSet
  <2> HIDE DEF row
  <2>6. Adds(h, row.zone) /\ Saves(h, r.set) /\ ~DeleteZone(h)
    BY <2>1, <2>4 DEF Adds, AddSteps, Saves, DeleteZone
  <2> QED BY <1>1, <1>2, <2>1, <2>4, <2>5, <2>6, RewrittenLive
<1>5. CASE WebSaveTTL(h)
  <2> DEFINE s == local[h].set
             old == local[h].row
             row == NewSet(old.zone, old.name, old.type, WebTTLOf(req[h].ttl))
  <2>1. pc[h] = "webSaveTTL" /\ s \in DOMAIN rrsets /\ Ready(pc[h], req[h], local[h])
    BY <1>1, <1>5, AtStep DEF WebSaveTTL, RowsFound
  <2>2. req[h] \in Requests /\ req[h].op = "webUpdateRecord" /\ old \in SetRow
    BY <2>1 DEF Ready
  <2>3. req[h].ttl \in Nat /\ WebTTL \in Nat
    BY <2>2, RequestColumns, StoreAssumption
  <2>4. WebTTLOf(req[h].ttl) \in Nat
    BY <2>3 DEF WebTTLOf
  <2>5. row \in SetRow /\ row.zone = old.zone
    BY <2>2, <2>4, NewSetType DEF NewSet, SetRow
  <2>6. UNCHANGED rrsets \/ rrsets' = [rrsets EXCEPT ![s] = row]
    BY <1>5 DEF WebSaveTTL
  <2> HIDE DEF row
  <2>7. Adds(h, row.zone) /\ Saves(h, s) /\ ~DeleteZone(h)
    BY <2>1, <2>5 DEF Adds, Saves, DeleteZone
  <2> QED BY <1>1, <1>2, <2>1, <2>5, <2>6, <2>7, RewrittenLive
<1>6. CASE InsertSet(h) \/ CreateSOA(h) \/ WebInsertSet(h)
  <2>1. /\ Ready(pc[h], req[h], local[h]) /\ pc[h] \in AddSteps /\ ~DeleteZone(h)
        /\ pc[h] # "webSaveTTL"
    BY <1>1, <1>6, AtStep DEF InsertSet, CreateSOA, WebInsertSet, AddSteps, DeleteZone
  <2>2. InsertsRow(h)
    BY <1>1, <1>6, InsertedRow
  <2> QED BY <1>1, <1>2, <2>1, <2>2, AppendedLive DEF Adds, InsertsRow
<1>7. CASE ImportSets(h)
  BY <1>7, ImportedLive
<1>8. CASE RestStep(h)
  BY <1>2, <1>3, <1>4, <1>6, <1>7, <1>8
     DEF RestStep, FindZone, CreateZone, CheckSet, FindSet, ReadSOA, ReadSOAData,
         WriteSOA, DeleteZone, tables
<1>9. CASE WebStep(h)
  BY <1>2, <1>5, <1>6, <1>9
     DEF WebStep, WebCreateZone, WebDeleteZone, WebFindSet, WebInsertData,
         WebDeleteRecord, WebFindRecord, WebSaveRecord, WebReadSet, DeleteZone, tables
<1>10. CASE Begin(h) \/ Invalidate(h)
  BY <1>2, <1>10 DEF Begin, Invalidate, DeleteZone, tables
<1>11. CASE StatementFails(h)
  <2>1. UNCHANGED rrsets /\ (DeleteZone(h) => UNCHANGED faults /\ faults' = faults + 1)
    BY <1>11 DEF StatementFails, tables, DeleteZone
  <2>2. faults \in Nat
    BY StoreAssumption DEF StoreInv, CountersOK
  <2> QED BY <1>2, <2>1, <2>2
<1> QED BY <1>8, <1>9, <1>10, <1>11

(* Rows are written by statements that lead on to others.                  *)
LEMMA WritesMoveOn ==
    ASSUME HandlersOK, NEW h \in Handlers,
           Begin(h) \/ RestStep(h) \/ WebStep(h) \/ Invalidate(h) \/ StatementFails(h),
           rrsets' # rrsets
    PROVE  pc'[h] # pc[h]
<1> USE DEF HandlersOK
<1>1. ASSUME Respond(h), pc[h] # "idle" PROVE pc'[h] # pc[h]
  BY <1>1 DEF Respond
<1>2. ASSUME NEW s, Goto(h, s), pc[h] # s PROVE pc'[h] # pc[h]
  BY <1>2 DEF Goto
<1>3. CASE RestStep(h)
  BY <1>1, <1>2, <1>3
     DEF RestStep, FindZone, CreateZone, DeleteZone, CheckSet, InsertSet, FindSet, PutSet,
         DeleteSet, ImportSets, ReadSOA, ReadSOAData, CreateSOA, WriteSOA, Continue, tables
<1>4. CASE WebStep(h)
  BY <1>1, <1>2, <1>4
     DEF WebStep, WebCreateZone, WebDeleteZone, WebFindSet, WebInsertSet, WebInsertData,
         WebDeleteRecord, WebFindRecord, WebSaveRecord, WebReadSet, WebSaveTTL, tables
<1> QED BY <1>3, <1>4 DEF Begin, Invalidate, StatementFails, tables

(* A deletion of a zone begins when it has been found.                     *)
LEMMA DeletersFollow ==
    ASSUME HandlersOK, NEW h \in Handlers,
           Begin(h) \/ RestStep(h) \/ WebStep(h) \/ Invalidate(h) \/ StatementFails(h),
           pc'[h] = "deleteZone"
    PROVE  FindZone(h) /\ zones[req[h].zone] = "live" /\ req'[h] = req[h]
<1> USE DEF HandlersOK
<1>1. ~Respond(h)
  BY DEF Respond
<1>2. ASSUME NEW s, Goto(h, s) PROVE s = "deleteZone"
  BY <1>2 DEF Goto
<1>3. ~Begin(h)
  <2>1. ASSUME Begin(h) PROVE FALSE
    <3>1. PICK r \in Requests : Goto(h, FirstStep(r.op))
      BY <2>1 DEF Begin
    <3>2. FirstStep(r.op) # "deleteZone"
      BY RequestColumns DEF FirstStep
    <3> QED BY <1>2, <3>1, <3>2
  <2> QED BY <2>1
<1>4. ~NextRecord(h)
  BY <1>1, <1>2 DEF NextRecord
<1>5. ~StatementFails(h)
  <2>1. AfterFault(pc[h]) # "deleteZone"
    BY DEF AfterFault
  <2> QED BY <1>1, <1>2, <1>4, <2>1 DEF StatementFails, Continue
<1>6. ~WebStep(h)
  BY <1>1, <1>2, <1>4
     DEF WebStep, WebCreateZone, WebDeleteZone, WebFindSet, WebInsertSet, WebInsertData,
         WebDeleteRecord, WebFindRecord, WebSaveRecord, WebReadSet, WebSaveTTL, Continue
<1>7. ASSUME RestStep(h) PROVE FindZone(h)
  <2>1. WithoutSOA(h) # "deleteZone"
    BY DEF WithoutSOA
  <2> QED BY <1>1, <1>2, <1>7, <2>1
          DEF RestStep, CreateZone, DeleteZone, CheckSet, InsertSet, FindSet, PutSet,
              DeleteSet, ImportSets, ReadSOA, ReadSOAData, CreateSOA, WriteSOA, Continue
<1> QED BY <1>1, <1>3, <1>5, <1>6, <1>7 DEF Invalidate, FindZone, Continue

(* Zones are never removed, and a deleted one stays so.                    *)
ZonesStay ==
    \A z \in Zones : /\ zones[z] = "deleted" => zones'[z] = "deleted"
                     /\ zones[z] # "absent" => zones'[z] # "absent"

LEMMA ZonesStep ==
    ASSUME zones \in [Zones -> ZoneState], NEW h \in Handlers,
           Begin(h) \/ RestStep(h) \/ WebStep(h) \/ Invalidate(h) \/ StatementFails(h)
    PROVE  ZonesStay
<1>1. CASE UNCHANGED zones
  BY <1>1 DEF ZonesStay
<1>2. CASE CreateZone(h) \/ WebCreateZone(h)
  BY <1>2 DEF CreateZone, WebCreateZone, ZonesStay
<1>3. CASE DeleteZone(h) \/ WebDeleteZone(h)
  BY <1>3 DEF DeleteZone, WebDeleteZone, DeletedZone, ZonesStay
<1>4. CASE RestStep(h)
  BY <1>1, <1>2, <1>3, <1>4
     DEF RestStep, FindZone, CheckSet, InsertSet, FindSet, PutSet, DeleteSet, ImportSets,
         ReadSOA, ReadSOAData, CreateSOA, WriteSOA, tables
<1>5. CASE WebStep(h)
  BY <1>1, <1>2, <1>3, <1>5
     DEF WebStep, WebFindSet, WebInsertSet, WebInsertData, WebDeleteRecord, WebFindRecord,
         WebSaveRecord, WebReadSet, WebSaveTTL, tables
<1> QED BY <1>1, <1>4, <1>5 DEF Begin, Invalidate, StatementFails, tables

(* The zone that a step of handler h deletes is the one it was to delete.  *)
LEMMA ZoneOfDelete ==
    ASSUME HandlersOK, NEW h \in Handlers, Moved(h),
           Begin(h) \/ RestStep(h) \/ WebStep(h) \/ Invalidate(h) \/ StatementFails(h),
           NEW z \in ZonesDeleted
    PROVE  DeleteZone(h) /\ req[h].zone = z
<1> USE DEF HandlersOK
<1>1. PICK g \in Handlers : pc[g] = "deleteZone" /\ pc'[g] = "invalidate" /\ req[g].zone = z
  BY DEF ZonesDeleted, DeletesZone
<1>2. g = h
  BY <1>1 DEF Moved
<1>3. ~StatementFails(h)
  BY <1>1, <1>2 DEF StatementFails, AfterFault, Respond
<1> QED BY <1>1, <1>2, <1>3
        DEF Begin, RestStep, FindZone, CreateZone, CheckSet, InsertSet, FindSet, PutSet,
            DeleteSet, ImportSets, ReadSOA, ReadSOAData, CreateSOA, WriteSOA, WebStep,
            WebCreateZone, WebDeleteZone, WebFindSet, WebInsertSet, WebInsertData,
            WebDeleteRecord, WebFindRecord, WebSaveRecord, WebReadSet, WebSaveTTL, Invalidate

(* Who is late stays so until the response, and a leftover is one until it *)
(* is deleted.                                                             *)
LEMMA StaysRemembered ==
    ASSUME RememberDeletions
    PROVE  /\ \A h \in Handlers : h \in late /\ pc'[h] # "idle" => h \in late'
           /\ \A h \in Handlers : \A z \in ZonesDeleted : Adds(h, z)' => h \in late'
           /\ \A h \in Handlers : \A s \in SetsDeleted : Saves(h, s)' => h \in late'
           /\ \A i \in leftovers : i \in leftovers' \/ i \in SetsDeleted
<1>1. \A h \in Handlers, z \in ZonesDeleted : Adds(h, z)' => pc'[h] # "idle"
  BY DEF Adds, AddSteps
<1>2. \A h \in Handlers, s \in SetsDeleted : Saves(h, s)' => pc'[h] # "idle"
  BY DEF Saves
<1> QED BY <1>1, <1>2 DEF RememberDeletions

(* Nothing happens to the tables: a step of others, a restart.             *)
LEMMA QuietDeletions ==
    ASSUME DeletionsInv, UNCHANGED tables, RememberDeletions,
           UNCHANGED handlers \/ \A h \in Handlers : pc'[h] = "idle"
    PROVE  DeletionsInv'
<1>1. ZonesDeleted = {} /\ SetsDeleted = {}
  BY DEF ZonesDeleted, DeletesZone, SetsDeleted, tables, handlers
<1>2. leftovers \subseteq leftovers'
  BY <1>1, StaysRemembered
<1>3. deletedZones' = deletedZones /\ deletedSets' = deletedSets
  BY <1>1 DEF RememberDeletions
<1>4. Remembered'
  BY <1>2, <1>3 DEF DeletionsInv, Remembered, tables
<1>5. CASE UNCHANGED handlers
  <2>1. ASSUME NEW h \in Handlers, NEW z
        PROVE  /\ Adds(h, z)' <=> Adds(h, z)
               /\ Adds(h, z) => pc'[h] # "idle"
               /\ Saves(h, z)' <=> Saves(h, z)
               /\ Saves(h, z) => pc'[h] # "idle"
    BY <1>5 DEF handlers, Adds, AddSteps, Saves
  <2>2. Latecomers'
    BY <1>2, <1>3, <1>5, <2>1, StaysRemembered DEF DeletionsInv, Latecomers, handlers
  <2>3. Deleters'
    BY <1>5 DEF DeletionsInv, Deleters, handlers, tables
  <2> QED BY <1>4, <2>2, <2>3 DEF DeletionsInv
<1>6. CASE \A h \in Handlers : pc'[h] = "idle"
  BY <1>4, <1>6 DEF DeletionsInv, Latecomers, Deleters, Adds, AddSteps, Saves
<1> QED BY <1>5, <1>6

LEMMA RememberedStep ==
    ASSUME StoreInv, RowsFound, DeletionsInv, RememberDeletions, NEW h \in Handlers,
           Begin(h) \/ RestStep(h) \/ WebStep(h) \/ Invalidate(h) \/ StatementFails(h)
    PROVE  Remembered'
<1>1. /\ TablesOK /\ HandlersOK /\ Remembered /\ Latecomers /\ Deleters
  BY DEF StoreInv, DeletionsInv
<1>2. ZonesStay /\ LiveOrAdded(h) /\ Moved(h) /\ RowsKept
  BY <1>1, ZonesStep, LiveStep, OneHandlerMoves, RowsKeptStep DEF TablesOK, StoreNext
<1>3. ASSUME NEW z \in ZonesDeleted PROVE z \in Zones /\ zones'[z] = "deleted"
  <2>1. DeleteZone(h) /\ req[h].zone = z /\ z \in Zones
    BY <1>1, <1>2, <1>3, ZoneOfDelete DEF ZonesDeleted
  <2>2. zones[z] \in {"live", "deleted"}
    BY <1>1, <2>1 DEF DeleteZone, Deleters, TablesOK, ZoneState
  <2> QED BY <1>1, <2>1, <2>2 DEF DeleteZone, DeletedZone, TablesOK
<1>4. deletedZones' \subseteq Zones /\ \A z \in deletedZones' : zones'[z] = "deleted"
  BY <1>1, <1>2, <1>3 DEF RememberDeletions, Remembered, ZonesStay
<1>5. deletedSets' \subseteq DOMAIN rrsets'
  BY <1>1, <1>2 DEF RememberDeletions, Remembered, SetsDeleted, RowsKept
<1>6. ASSUME NEW i \in DOMAIN rrsets', rrsets'[i].live, i \notin leftovers'
      PROVE  rrsets'[i].zone \notin deletedZones' /\ i \notin deletedSets'
  <2> DEFINE y == rrsets'[i].zone
  <2>1. i \notin SetsDeleted /\ i \notin leftovers
    BY <1>6, StaysRemembered DEF SetsDeleted
  <2>2. CASE /\ i \in DOMAIN rrsets /\ rrsets[i].live /\ y = rrsets[i].zone
             /\ DeleteZone(h) => rrsets[i].zone # req[h].zone
    <3>1. y \notin deletedZones /\ i \notin deletedSets
      BY <1>1, <2>1, <2>2 DEF Remembered
    <3>2. y \notin ZonesDeleted
      BY <1>1, <1>2, <2>2, ZoneOfDelete
    <3> QED BY <2>1, <3>1, <3>2 DEF RememberDeletions
  <2>3. CASE /\ Adds(h, y)
             /\ (i \notin DOMAIN rrsets /\ pc[h] # "webSaveTTL") \/ Saves(h, i)
             /\ ~(i \in DOMAIN rrsets /\ rrsets[i].live /\ y = rrsets[i].zone)
    <3>1. ZonesDeleted = {}
      BY <1>1, <1>2, <2>3, ZoneOfDelete DEF DeleteZone, Adds, AddSteps
    <3>2. i \in SetsWritten /\ rrsets' # rrsets
      BY <1>6, <2>3 DEF SetsWritten
    <3>3. h \notin late
      BY <1>1, <1>6, <3>2, WritesMoveOn DEF RememberDeletions
    <3>4. i \notin deletedSets
      BY <1>1, <2>1, <2>3, <3>3 DEF Remembered, Latecomers
    <3>5. y \notin deletedZones
      BY <1>1, <2>1, <2>3, <3>3 DEF Latecomers, Saves
    <3> QED BY <2>1, <3>1, <3>4, <3>5 DEF RememberDeletions
  <2>4. \/ /\ i \in DOMAIN rrsets /\ rrsets[i].live /\ y = rrsets[i].zone
           /\ DeleteZone(h) => rrsets[i].zone # req[h].zone
        \/ /\ Adds(h, y)
           /\ (i \notin DOMAIN rrsets /\ pc[h] # "webSaveTTL") \/ Saves(h, i)
    BY <1>2, <1>6 DEF LiveOrAdded
  <2>5. Adds(h, y) => ~DeleteZone(h)
    BY DEF Adds, AddSteps, DeleteZone
  <2> HIDE DEF y
  <2> QED BY <2>2, <2>3, <2>4, <2>5
<1> QED BY <1>4, <1>5, <1>6 DEF Remembered

LEMMA LatecomersStep ==
    ASSUME StoreInv, DeletionsInv, RememberDeletions, NEW h \in Handlers,
           Begin(h) \/ RestStep(h) \/ WebStep(h) \/ Invalidate(h) \/ StatementFails(h)
    PROVE  Latecomers'
<1>1. /\ TablesOK /\ HandlersOK /\ Remembered /\ Latecomers /\ Moved(h)
  BY OneHandlerMoves DEF StoreInv, DeletionsInv
<1>2. ASSUME NEW s \in DOMAIN rrsets, rrsets[s].live, UNCHANGED tables,
             s \in deletedSets \/ rrsets[s].zone \in deletedZones
      PROVE  s \in leftovers'
  <2>1. SetsDeleted = {}
    BY <1>2 DEF SetsDeleted, tables
  <2> QED BY <1>1, <1>2, <2>1, StaysRemembered DEF Remembered
<1>3. ASSUME pc'[h] = "webSaveTTL"
      PROVE  /\ UNCHANGED tables /\ local'[h].set \in DOMAIN rrsets
             /\ rrsets[local'[h].set].live
             /\ local'[h].row = rrsets[local'[h].set]
  <2>1. WebReadSet(h) /\ ~Respond(h) /\ local[h] \in Local
    BY <1>1, <1>3, UsesFollowReads, AtStep DEF Respond, HandlersOK
  <2> QED BY <1>1, <2>1 DEF WebReadSet, HandlersOK, Local
<1>4. ASSUME pc'[h] = "putSet"
      PROVE  /\ UNCHANGED tables /\ req'[h].set \in DOMAIN rrsets
             /\ rrsets[req'[h].set].live
  <2>1. FindSet(h) /\ ~Respond(h)
    BY <1>1, <1>4, UsesFollowReads DEF Respond, HandlersOK
  <2> QED BY <2>1 DEF FindSet, Continue
<1>5. ASSUME NEW g \in Handlers, NEW z \in deletedZones', Adds(g, z)'
      PROVE  g \in late' \/ (pc'[g] = "webSaveTTL" /\ local'[g].set \in leftovers')
  <2>1. CASE z \in ZonesDeleted
    BY <1>5, <2>1, StaysRemembered
  <2>2. CASE z \in deletedZones /\ g # h
    <3>1. pc'[g] = pc[g] /\ req'[g] = req[g] /\ local'[g] = local[g]
      BY <1>1, <2>2 DEF Moved
    <3>2. Adds(g, z) /\ pc'[g] # "idle"
      BY <1>5, <3>1 DEF Adds, AddSteps
    <3>3. CASE g \in late
      BY <3>2, <3>3, StaysRemembered
    <3>4. CASE pc[g] = "webSaveTTL" /\ local[g].set \in leftovers
      <4>1. Saves(g, local[g].set)'
        BY <3>1, <3>4 DEF Saves
      <4> QED BY <3>1, <3>4, <4>1, StaysRemembered
    <3> QED BY <1>1, <2>2, <3>2, <3>3, <3>4 DEF Latecomers
  <2>3. CASE z \in deletedZones /\ g = h /\ pc'[h] \in AddSteps
    <3>1. req'[h].zone = z
      BY <1>5, <2>3 DEF Adds, AddSteps
    <3>2. /\ req'[h] = req[h]
          /\ pc[h] \in AddSteps \/ zones[req[h].zone] = "live"
      BY <1>1, <2>3, AddsFollow
    <3>3. pc[h] \in AddSteps /\ Adds(h, z)
      BY <1>1, <2>3, <3>1, <3>2 DEF Remembered, Adds
    <3>4. h \in late /\ pc'[h] # "idle"
      BY <1>1, <2>3, <3>3 DEF Latecomers, AddSteps
    <3> QED BY <2>3, <3>4, StaysRemembered
  <2>4. CASE z \in deletedZones /\ g = h /\ pc'[h] = "webSaveTTL"
    <3>1. local'[h].row.zone = z
      BY <1>5, <2>4 DEF Adds, AddSteps
    <3> QED BY <1>2, <1>3, <2>4, <3>1
  <2>5. pc'[g] \in AddSteps \/ pc'[g] = "webSaveTTL"
    BY <1>5 DEF Adds
  <2>6. z \in deletedZones \/ z \in ZonesDeleted
    BY <1>5 DEF RememberDeletions
  <2> QED BY <2>1, <2>2, <2>3, <2>4, <2>5, <2>6
<1>6. ASSUME NEW g \in Handlers, NEW s \in deletedSets', Saves(g, s)'
      PROVE  g \in late' \/ s \in leftovers'
  <2>1. CASE s \in SetsDeleted
    BY <1>6, <2>1, StaysRemembered
  <2>2. CASE s \in deletedSets /\ s \notin SetsDeleted /\ g # h
    <3>1. Saves(g, s) /\ pc'[g] # "idle"
      BY <1>1, <1>6, <2>2 DEF Moved, Saves
    <3>2. g \in late \/ s \in leftovers
      BY <1>1, <2>2, <3>1 DEF Latecomers
    <3> QED BY <2>2, <3>1, <3>2, StaysRemembered
  <2>3. CASE s \in deletedSets /\ g = h /\ pc'[h] = "putSet"
    <3>1. s = req'[h].set
      BY <1>6, <2>3 DEF Saves
    <3> QED BY <1>2, <1>4, <2>3, <3>1
  <2>4. CASE s \in deletedSets /\ g = h /\ pc'[h] = "webSaveTTL"
    <3>1. s = local'[h].set
      BY <1>6, <2>4 DEF Saves
    <3> QED BY <1>2, <1>3, <2>4, <3>1
  <2>5. pc'[g] \in {"putSet", "webSaveTTL"}
    BY <1>6 DEF Saves
  <2>6. s \in deletedSets \/ s \in SetsDeleted
    BY <1>6 DEF RememberDeletions
  <2> QED BY <2>1, <2>2, <2>3, <2>4, <2>5, <2>6
<1> QED BY <1>5, <1>6 DEF Latecomers

LEMMA DeletersStep ==
    ASSUME StoreInv, Deleters, NEW h \in Handlers,
           Begin(h) \/ RestStep(h) \/ WebStep(h) \/ Invalidate(h) \/ StatementFails(h)
    PROVE  Deleters'
<1>1. TablesOK /\ HandlersOK /\ HandlersOK' /\ Moved(h) /\ ZonesStay
  BY OneHandlerMoves, ZonesStep, StoreInvStep DEF StoreInv, TablesOK, StoreNext
<1>2. ASSUME NEW g \in Handlers, pc'[g] = "deleteZone" PROVE zones'[req'[g].zone] # "absent"
  <2>1. req'[g].zone \in Zones
    <3>1. req'[g] \in Requests /\ req'[g].op = "deleteZone"
      BY <1>1, <1>2 DEF HandlersOK, Ready
    <3> QED BY <3>1, RequestColumns DEF ZoneOps
  <2>2. CASE g # h
    BY <1>1, <1>2, <2>1, <2>2 DEF Moved, Deleters, ZonesStay
  <2>3. CASE g = h
    BY <1>1, <1>2, <2>1, <2>3, DeletersFollow DEF ZonesStay
  <2> QED BY <2>2, <2>3
<1> QED BY <1>2 DEF Deleters

LEMMA DeletionsStep ==
    ASSUME StoreInv, RowsFound, DeletionsInv, StoreNext, RememberDeletions
    PROVE  DeletionsInv'
<1>1. CASE RestartHandlers
  BY <1>1, QuietDeletions DEF RestartHandlers
<1>2. ASSUME NEW h \in Handlers,
             Begin(h) \/ RestStep(h) \/ WebStep(h) \/ Invalidate(h) \/ StatementFails(h)
      PROVE  DeletionsInv'
  <2>1. Remembered' /\ Latecomers'
    BY <1>2, RememberedStep, LatecomersStep
  <2>2. Deleters'
    BY <1>2, DeletersStep DEF DeletionsInv
  <2> QED BY <2>1, <2>2 DEF DeletionsInv
<1> QED BY <1>1, <1>2 DEF StoreNext

LEMMA DeletionsInvInit == DeletionsInit => DeletionsInv
  BY DEF DeletionsInit, StoreInit, DeletionsInv, Remembered, Latecomers, Deleters, Adds,
         AddSteps, Saves

LEMMA UnchangedDeletions ==
    ASSUME DeletionsInv, UNCHANGED <<tables, handlers, deletions>>
    PROVE  DeletionsInv'
  BY DEF DeletionsInv, Remembered, Latecomers, Deleters, Adds, Saves, tables, handlers,
         deletions

LEMMA DeletedUnlessLate ==
    ASSUME KeysUnique, Remembered
    PROVE  DeletedStaysDeleted
  BY DEF KeysUnique, HasKey, Remembered, DeletedStaysDeleted

(* A zone deleted by REST stays deleted with its rrsets, and no rrset gets *)
(* the key of a deleted one, but for what requests write that had found    *)
(* the zone or the rrset before: whatever requests overlap, the web        *)
(* admin's among them, fail or die half way.                               *)
THEOREM DeletedForGood == DeletionsSpec => []DeletedStaysDeleted
<1>1. DeletionsInit => StoreInv /\ RowsFound /\ DeletionsInv
  BY StoreInvInit, RowsFoundInit, DeletionsInvInit DEF DeletionsInit
<1>2. StoreInv /\ RowsFound /\ DeletionsInv /\ [DeletionsNext]_deletionVars
      => (StoreInv /\ RowsFound /\ DeletionsInv)'
  <2> SUFFICES ASSUME StoreInv, RowsFound, DeletionsInv, [DeletionsNext]_deletionVars
               PROVE  (StoreInv /\ RowsFound /\ DeletionsInv)'
    OBVIOUS
  <2>1. [StoreNext]_storeVars
    BY DEF DeletionsNext, deletionVars
  <2>2. CASE DeletionsNext
    BY <2>1, <2>2, StoreInvStep, RowsFoundStep, DeletionsStep DEF DeletionsNext
  <2>3. CASE UNCHANGED deletionVars
    <3>1. UNCHANGED <<tables, handlers, deletions>>
      BY <2>3 DEF deletionVars, storeVars, tables, handlers
    <3> QED BY <2>1, <3>1, StoreInvStep, RowsFoundStep, UnchangedDeletions
  <2> QED BY <2>2, <2>3
<1>3. StoreInv /\ DeletionsInv => DeletedStaysDeleted
  BY DeletedUnlessLate DEF StoreInv, DeletionsInv
<1> QED BY <1>1, <1>2, <1>3, PTL DEF DeletionsSpec
=============================================================================
