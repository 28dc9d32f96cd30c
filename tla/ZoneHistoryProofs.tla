------------------------- MODULE ZoneHistoryProofs -------------------------
(***************************************************************************)
(* What is seen of a zone: no serial stands for two contents, and none is  *)
(* below one seen before, for any number of handlers, databases, faults    *)
(* and restarts.                                                           *)
(*                                                                         *)
(* The bump gives no such promise of itself: it takes any SOA record of    *)
(* the zone, and writes a serial it read before others were written.  The  *)
(* argument is that each zone has one SOA rrset ever, which none but the   *)
(* bump writes; that the serial of a bump in progress was read when        *)
(* nothing it could contradict had been seen; and that a change which a    *)
(* seen content does not show is followed by a bump, or the zone is known  *)
(* to be without one.                                                      *)
(***************************************************************************)
EXTENDS ZoneHistory, ZoneStoreProofs

\* The web admin changes records without a bump.
ChangesAreBumped ==
    \A r \in Requests :
        r.op \notin {"webCreateRecord", "webDeleteRecord", "webUpdateRecord",
                     "webApplyTemplate"}

\* Serials a bump raises.
SerialNumbers == (Nat \cup {NonNumeric}) \ {TooShort}

\* Record n is the only one of rrset k of an import.
AloneIn(r, k) ==
    \A m, n \in DOMAIN r.records : r.records[m].of = k /\ r.records[n].of = k => m = n

(* An SOA is brought by POST or an import, at the apex, with one record at *)
(* most.  Imports do not number their records, which would point rows of   *)
(* other rrsets, SOA records among them, elsewhere.                        *)
SOAsAtApex ==
    \A r \in Requests :
        /\ r.op = "updateRRSet" => r.type # "SOA"
        /\ r.op = "createRRSet" /\ r.type = "SOA" =>
              /\ r.name = Apex[r.zone] /\ Len(r.records) <= 1
              /\ \A k \in DOMAIN r.records : r.records[k].serial \in SerialNumbers
        /\ r.op = "importZone" =>
              /\ NoNumbers(r)
              /\ \A k \in DOMAIN r.sets : r.sets[k].type = "SOA" =>
                    /\ r.sets[k].name = Apex[r.zone] /\ AloneIn(r, k)
                    /\ \A n \in DOMAIN r.records :
                          r.records[n].of = k
                             => r.records[n].payload.serial \in SerialNumbers

\* At the start likewise.
SOAsAtApexAtStart ==
    \A s \in DOMAIN InitSets : InitSets[s].type = "SOA" =>
        /\ InitSets[s].name = Apex[InitSets[s].zone]
        /\ \A d, e \in DOMAIN InitData :
              /\ InitData[d].live /\ InitData[d].set = s
              /\ InitData[e].live /\ InitData[e].set = s
              => d = e
        /\ \A d \in DOMAIN InitData :
              InitData[d].live /\ InitData[d].set = s
                 => InitData[d].payload.serial \in SerialNumbers

(* Only the bump rewrites an SOA: no PUT finds one, no import updates one. *)
SOALeftToBump ==
    \A h \in Handlers :
        /\ pc[h] = "putSet" => rrsets[req[h].set].type # "SOA"
        /\ pc[h] = "importSets" =>
              \A k \in DOMAIN req[h].sets : req[h].sets[k].type = "SOA"
                                               => k \in Created(req[h])

(* Requests for which it is so whatever happens: PUT of rrsets that were   *)
(* there at the start and were none of an SOA, imports without SOAs.       *)
SOAsNotRewritten ==
    \A r \in Requests :
        /\ r.op = "updateRRSet" => r.set \in DOMAIN InitSets /\ InitSets[r.set].type # "SOA"
        /\ r.op = "importZone" => \A k \in DOMAIN r.sets : r.sets[k].type # "SOA"

\* The rrsets of the start stay, and none becomes an SOA.
NoNewSOAs ==
    \A s \in DOMAIN InitSets :
        s \in DOMAIN rrsets /\ (rrsets[s].type = "SOA" => InitSets[s].type = "SOA")

-----------------------------------------------------------------------------
(***************************************************************************)
(* What a change does to the rows of its zone and of others.               *)
(***************************************************************************)

SOARow(s, z) == s \in DOMAIN rrsets /\ rrsets[s].zone = z /\ rrsets[s].type = "SOA"

SameRecords(s) ==
    /\ \A d \in DOMAIN rdata : d \in DOMAIN rdata' /\ rdata'[d].payload = rdata[d].payload
    /\ LiveData(s)' = LiveData(s)

\* An SOA rrset is at the apex and has one record at most, with a serial.
Singular(s) ==
    /\ rrsets[s].name = Apex[rrsets[s].zone]
    /\ \A d, e \in LiveData(s) : d = e
    /\ \A d \in LiveData(s) : rdata[d].payload.serial \in SerialNumbers

\* Rows are rewritten in zone z, none of them an SOA's.
Rewritten(z) ==
    \A s \in DOMAIN rrsets :
        /\ s \in DOMAIN rrsets' /\ rrsets'[s].zone = rrsets[s].zone
        /\ rrsets[s].zone # z => rrsets'[s] = rrsets[s]
        /\ rrsets[s].type = "SOA" => /\ rrsets'[s].name = rrsets[s].name
                                     /\ rrsets'[s].live => rrsets[s].live
        /\ rrsets'[s].type = "SOA" <=> rrsets[s].type = "SOA"
        /\ rrsets[s].zone # z \/ rrsets[s].type = "SOA" => SameRecords(s)

\* Rows are added to zone z, an SOA only where there never was one.
Added(z) ==
    \A s \in DOMAIN rrsets' \ DOMAIN rrsets :
        /\ rrsets'[s].zone = z
        /\ rrsets'[s].type = "SOA" => Singular(s)' /\ ~KeyTaken(z, Apex[z], "SOA")

ChangedIn(z) == Rewritten(z) /\ Added(z)

-----------------------------------------------------------------------------
(* The rows of a sequence followed by others.                              *)
LEMMA JoinedAt ==
    ASSUME NEW S, NEW a \in Seq(S), NEW b \in Seq(S)
    PROVE  /\ \A d \in DOMAIN a : d \in DOMAIN (a \o b) /\ (a \o b)[d] = a[d]
           /\ \A d \in DOMAIN (a \o b) \ DOMAIN a :
                 d - Len(a) \in DOMAIN b /\ (a \o b)[d] = b[d - Len(a)] /\ d \in Nat
           /\ Len(a) \in Nat
<1> DEFINE c == a \o b
<1>1. /\ Len(a) \in Nat /\ DOMAIN a = 1 .. Len(a)
      /\ Len(b) \in Nat /\ DOMAIN b = 1 .. Len(b)
  BY LenProperties
<1>2. /\ c \in Seq(S) /\ Len(c) = Len(a) + Len(b)
      /\ \A i \in 1 .. Len(c) : c[i] = IF i <= Len(a) THEN a[i] ELSE b[i - Len(a)]
  BY ConcatProperties
<1>3. DOMAIN c = 1 .. Len(a) + Len(b)
  BY <1>2, LenProperties
<1> HIDE DEF c
<1>4. /\ \A d \in DOMAIN a : d \in DOMAIN c /\ c[d] = a[d]
      /\ \A d \in DOMAIN c \ DOMAIN a :
            d - Len(a) \in DOMAIN b /\ c[d] = b[d - Len(a)] /\ d \in Nat
  BY <1>1, <1>2, <1>3
<1> QED BY <1>1, <1>4 DEF c

(* Records of rrset s are cleared, or there are none, and others created.  *)
LEMMA RecordsReplaced ==
    ASSUME NEW old \in Seq(DataRow), NEW s \in Nat, NEW records \in Seq(Payload),
           DOMAIN old = DOMAIN rdata, Cleared(old, s), rdata' = old \o NewData(s, records)
    PROVE  /\ \A u : u # s => SameRecords(u)
           /\ \A d \in LiveData(s)' : \E k \in DOMAIN records :
                 rdata'[d].payload = records[k] /\ d = Len(old) + k
           /\ Len(old) \in Nat
<1>1. /\ NewData(s, records) \in Seq(DataRow) /\ DOMAIN NewData(s, records) = DOMAIN records
      /\ \A k \in DOMAIN records : /\ NewData(s, records)[k].set = s
                                   /\ NewData(s, records)[k].payload = records[k]
  BY NewDataType DEF NewData
<1>2. /\ \A d \in DOMAIN rdata : d \in DOMAIN rdata' /\ rdata'[d] = old[d]
      /\ \A d \in DOMAIN rdata' \ DOMAIN rdata :
            /\ d - Len(old) \in DOMAIN records /\ d \in Nat
            /\ rdata'[d] = NewData(s, records)[d - Len(old)]
      /\ Len(old) \in Nat
  BY <1>1, JoinedAt
<1>3. \A d \in DOMAIN rdata' \ DOMAIN rdata :
          /\ d - Len(old) \in DOMAIN records /\ d \in Nat
          /\ rdata'[d].set = s /\ rdata'[d].payload = records[d - Len(old)]
  BY <1>1, <1>2
<1>4. ASSUME NEW u, u # s PROVE LiveData(u)' = LiveData(u)
  BY <1>2, <1>3, <1>4 DEF LiveData, Cleared
<1>5. \A d \in DOMAIN rdata : d \in DOMAIN rdata' /\ rdata'[d].payload = rdata[d].payload
  BY <1>2 DEF Cleared
<1>6. ASSUME NEW d \in LiveData(s)'
      PROVE  \E k \in DOMAIN records : rdata'[d].payload = records[k] /\ d = Len(old) + k
  <2>1. d \in DOMAIN rdata' /\ rdata'[d].live /\ rdata'[d].set = s
    BY DEF LiveData
  <2>2. d \notin DOMAIN rdata
    BY <1>2, <2>1 DEF Cleared
  <2>3. d - Len(old) \in DOMAIN records /\ d = Len(old) + (d - Len(old))
        /\ rdata'[d].payload = records[d - Len(old)]
    BY <1>2, <1>3, <2>1, <2>2
  <2> QED BY <2>3
<1> QED BY <1>2, <1>4, <1>5, <1>6 DEF SameRecords

-----------------------------------------------------------------------------
(***************************************************************************)
(* Statements that change rows.                                            *)
(***************************************************************************)

LEMMA RowTypes ==
    ASSUME TablesOK
    PROVE  /\ \A i \in DOMAIN rrsets : rrsets[i] \in SetRow
           /\ \A d \in DOMAIN rdata : rdata[d] \in DataRow
           /\ rdata \in Seq(DataRow) /\ rrsets \in Seq(SetRow)
           /\ Len(rrsets) \in Nat /\ DOMAIN rrsets = 1 .. Len(rrsets)
  BY ElementOfSeq, LenProperties DEF TablesOK

(* A row is added with its records.                                        *)
LEMMA RowAdded ==
    ASSUME TablesOK, DataRefs, NEW row \in SetRow, rrsets' = Append(rrsets, row),
           NEW records \in Seq(Payload), rdata' = rdata \o NewData(Len(rrsets) + 1, records),
           row.type = "SOA" =>
              /\ row.name = Apex[row.zone] /\ Len(records) <= 1
              /\ \A k \in DOMAIN records : records[k].serial \in SerialNumbers
              /\ ~KeyTaken(row.zone, Apex[row.zone], "SOA")
    PROVE  ChangedIn(row.zone)
<1>1. /\ rdata \in Seq(DataRow) /\ rrsets \in Seq(SetRow)
      /\ Len(rrsets) \in Nat /\ DOMAIN rrsets = 1 .. Len(rrsets)
      /\ \A i \in DOMAIN rrsets : rrsets[i] \in SetRow
  BY RowTypes
<1>2. PICK s \in Nat : s = Len(rrsets) + 1
  BY <1>1
<1>3. /\ DOMAIN rrsets' = 1 .. s /\ rrsets'[s] = row
      /\ \A i \in DOMAIN rrsets : rrsets'[i] = rrsets[i]
  <2>1. /\ rrsets' \in Seq(SetRow) /\ Len(rrsets') = s
        /\ rrsets'[Len(rrsets) + 1] = row
        /\ \A i \in 1 .. Len(rrsets) : rrsets'[i] = rrsets[i]
    BY <1>1, <1>2, AppendProperties
  <2> QED BY <1>1, <1>2, <2>1, LenProperties
<1>4. /\ s \notin DOMAIN rrsets
      /\ \A i \in DOMAIN rrsets : i \in DOMAIN rrsets'
      /\ \A i \in DOMAIN rrsets' \ DOMAIN rrsets : i = s
  BY <1>1, <1>2, <1>3
<1>5. Cleared(rdata, s)
  BY <1>4 DEF Cleared, DataRefs
<1>6. /\ \A u : u # s => SameRecords(u)
      /\ \A d \in LiveData(s)' : \E k \in DOMAIN records :
            rdata'[d].payload = records[k] /\ d = Len(rdata) + k
      /\ Len(rdata) \in Nat
  BY <1>1, <1>2, <1>5, RecordsReplaced
<1>7. Rewritten(row.zone)
  BY <1>3, <1>4, <1>6 DEF Rewritten
<1>8. ASSUME row.type = "SOA" PROVE Singular(s)'
  <2>1. DOMAIN records = 1 .. Len(records) /\ Len(records) \in Nat
    BY LenProperties
  <2>2. \A j, k \in DOMAIN records : j = k
    BY <1>8, <2>1
  <2>3. \A d, e \in LiveData(s)' : d = e
    BY <1>6, <2>2
  <2>4. \A d \in LiveData(s)' : rdata'[d].payload.serial \in SerialNumbers
    BY <1>6, <1>8
  <2> QED BY <1>3, <1>8, <2>3, <2>4 DEF Singular
<1>9. Added(row.zone)
  BY <1>3, <1>4, <1>8 DEF Added
<1> QED BY <1>7, <1>9 DEF ChangedIn

LEMMA InsertSetChanges ==
    ASSUME StoreInv, DataRefs, SOAsAtApex, NEW h \in Handlers, InsertSet(h)
    PROVE  \/ UNCHANGED <<rrsets, rdata>>
           \/ ChangedIn(req[h].zone) /\ pc'[h] = "readSOA" /\ req' = req
<1>1. TablesOK /\ Ready(pc[h], req[h], local[h]) /\ pc \in [Handlers -> PC]
  BY AtStep DEF StoreInv, HandlersOK
<1>2. PICK r \in Requests : r = req[h] /\ r.op = "createRRSet"
  BY <1>1 DEF InsertSet, Ready
<1>3. PICK row : row = NewSet(r.zone, r.name, r.type, EffectiveTTL(r.ttl))
  OBVIOUS
<1>4. /\ row \in SetRow /\ row.zone = r.zone /\ row.name = r.name /\ row.type = r.type
      /\ r.records \in Seq(Payload)
  <2>1. /\ r.zone \in Zones /\ r.name \in Owners /\ r.type \in Types /\ r.ttl \in Nat
        /\ r.records \in Seq(Payload)
    BY <1>2, RequestColumns DEF ZoneOps, SetOps
  <2>2. EffectiveTTL(r.ttl) \in Nat
    BY <2>1, EffectiveTTLType
  <2> QED BY <1>3, <2>1, <2>2, NewSetType
<1>5. ASSUME ~UNCHANGED <<rrsets, rdata>>
      PROVE  /\ ~KeyTaken(r.zone, r.name, r.type)
             /\ rrsets' = Append(rrsets, row)
             /\ rdata' = rdata \o NewData(Len(rrsets) + 1, r.records)
             /\ pc'[h] = "readSOA" /\ req' = req
  BY <1>1, <1>2, <1>3, <1>5 DEF InsertSet, Continue, Goto
<1>6. row.type = "SOA" =>
         /\ row.name = Apex[row.zone] /\ Len(r.records) <= 1
         /\ \A k \in DOMAIN r.records : r.records[k].serial \in SerialNumbers
  BY <1>2, <1>4 DEF SOAsAtApex
<1>7. ASSUME ~UNCHANGED <<rrsets, rdata>> PROVE ChangedIn(row.zone)
  BY <1>1, <1>4, <1>5, <1>6, <1>7, RowAdded
<1> QED BY <1>2, <1>4, <1>5, <1>7

LEMMA CreateSOAChanges ==
    ASSUME StoreInv, DataRefs, NEW h \in Handlers, CreateSOA(h)
    PROVE  \/ UNCHANGED <<rrsets, rdata>>
           \/ /\ ChangedIn(req[h].zone)
              /\ ~KeyTaken(req[h].zone, Apex[req[h].zone], "SOA")
<1>1. TablesOK /\ Ready(pc[h], req[h], local[h])
  BY AtStep DEF StoreInv
<1>2. PICK z \in Zones : z = req[h].zone
  BY <1>1, RequestColumns DEF CreateSOA, Ready, ZoneOps
<1>3. PICK row : row = NewSet(z, Apex[z], "SOA", SOATTL)
  OBVIOUS
<1>4. PICK records : records = <<DefaultSOA>>
  OBVIOUS
<1>5. /\ row \in SetRow /\ row.zone = z /\ row.name = Apex[z] /\ row.type = "SOA"
  BY <1>3, NewSetType, StoreAssumption
<1>6. /\ records \in Seq(Payload) /\ Len(records) <= 1
      /\ \A k \in DOMAIN records : records[k].serial \in SerialNumbers
  <2>1. DefaultSOA.serial \in SerialNumbers
    BY StoreAssumption DEF SerialNumbers
  <2>2. records \in Seq(Payload) /\ Len(records) = 1 /\ DOMAIN records = {1}
        /\ records[1] = DefaultSOA
    BY <1>4, StoreAssumption
  <2> QED BY <2>1, <2>2
<1>7. ASSUME ~UNCHANGED <<rrsets, rdata>>
      PROVE  /\ ~KeyTaken(z, Apex[z], "SOA")
             /\ rrsets' = Append(rrsets, row)
             /\ rdata' = rdata \o NewData(Len(rrsets) + 1, records)
  BY <1>2, <1>3, <1>4, <1>7 DEF CreateSOA
<1>8. ASSUME ~UNCHANGED <<rrsets, rdata>> PROVE ChangedIn(row.zone)
  BY <1>1, <1>5, <1>6, <1>7, <1>8, RowAdded
<1> QED BY <1>2, <1>5, <1>7, <1>8

LEMMA PutSetChanges ==
    ASSUME StoreInv, RowsFound, SOAsAtApex, SOALeftToBump, NEW h \in Handlers, PutSet(h)
    PROVE  \/ UNCHANGED <<rrsets, rdata>>
           \/ ChangedIn(req[h].zone) /\ pc'[h] = "readSOA" /\ req' = req
<1>1. TablesOK /\ Ready(pc[h], req[h], local[h]) /\ pc \in [Handlers -> PC]
  BY AtStep DEF StoreInv, HandlersOK
<1>2. PICK r \in Requests : r = req[h] /\ r.op = "updateRRSet"
  BY <1>1 DEF PutSet, Ready
<1>3. PICK s \in Nat : s = r.set
  BY <1>2, RequestColumns
<1>4. PICK row : row = NewSet(r.zone, r.name, r.type, EffectiveTTL(r.ttl))
  OBVIOUS
<1>5. /\ r.records \in Seq(Payload) /\ row.zone = r.zone /\ row.type = r.type
      /\ row.type # "SOA"
  BY <1>2, <1>4, RequestColumns DEF NewSet, SOAsAtApex
<1>6. /\ s \in DOMAIN rrsets /\ rrsets[s].zone = r.zone /\ rrsets[s].type # "SOA"
  BY <1>2, <1>3 DEF PutSet, RowsFound, SOALeftToBump
<1>7. ASSUME ~UNCHANGED <<rrsets, rdata>>
      PROVE  /\ rrsets' = [rrsets EXCEPT ![s] = row]
             /\ rdata' = WithoutData(s) \o NewData(s, r.records)
             /\ pc'[h] = "readSOA" /\ req' = req
  BY <1>1, <1>2, <1>3, <1>4, <1>7 DEF PutSet, Continue, Goto
<1>8. PICK old : old = WithoutData(s)
  OBVIOUS
<1>9. old \in Seq(DataRow) /\ DOMAIN old = DOMAIN rdata
  BY <1>1, <1>8, WithoutDataType DEF TablesOK, WithoutData
<1>10. Cleared(old, s)
  <2>1. ASSUME NEW d \in DOMAIN rdata
        PROVE  /\ old[d].set = rdata[d].set /\ old[d].payload = rdata[d].payload
               /\ old[d].live <=> rdata[d].live /\ rdata[d].set # s
    <3>1. rdata[d] \in DataRow
      BY <1>1, RowTypes
    <3> QED BY <1>8, <3>1 DEF WithoutData, DataRow
  <2> QED BY <2>1 DEF Cleared
<1>11. ASSUME ~UNCHANGED <<rrsets, rdata>> PROVE ChangedIn(r.zone)
  <2>1. \A u : u # s => SameRecords(u)
    BY <1>5, <1>7, <1>8, <1>9, <1>10, <1>11, RecordsReplaced
  <2>2. /\ DOMAIN rrsets' = DOMAIN rrsets
        /\ \A i \in DOMAIN rrsets : rrsets'[i] = IF i = s THEN row ELSE rrsets[i]
    BY <1>7, <1>11
  <2>3. Rewritten(r.zone)
    BY <1>5, <1>6, <2>1, <2>2 DEF Rewritten
  <2>4. Added(r.zone)
    BY <2>2 DEF Added
  <2> QED BY <2>3, <2>4 DEF ChangedIn
<1> QED BY <1>2, <1>7, <1>11

LEMMA DeleteChanges ==
    ASSUME StoreInv, NEW h \in Handlers, DeleteSet(h) \/ DeleteZone(h)
    PROVE  /\ ChangedIn(req[h].zone)
           /\ DeleteSet(h) => pc'[h] = "readSOA" /\ req' = req
           /\ DeleteZone(h) => \A s \in DOMAIN rrsets' :
                                  rrsets'[s].zone = req[h].zone => ~rrsets'[s].live
<1>1. pc \in [Handlers -> PC] /\ TablesOK
  BY DEF StoreInv, HandlersOK
<1>2. \A i \in DOMAIN rrsets : rrsets[i] \in SetRow
  BY <1>1, RowTypes
<1>3. /\ rdata' = rdata /\ DOMAIN rrsets' = DOMAIN rrsets
      /\ \A i \in DOMAIN rrsets :
            \/ rrsets'[i] = rrsets[i]
            \/ rrsets[i].zone = req[h].zone /\ rrsets'[i] = [rrsets[i] EXCEPT !.live = FALSE]
  BY DEF DeleteSet, DeleteZone
<1>4. \A i \in DOMAIN rrsets :
          /\ rrsets'[i].zone = rrsets[i].zone /\ rrsets'[i].name = rrsets[i].name
          /\ rrsets'[i].type = rrsets[i].type
          /\ rrsets'[i].live => rrsets[i].live
          /\ rrsets[i].zone # req[h].zone => rrsets'[i] = rrsets[i]
  BY <1>2, <1>3 DEF SetRow
<1>5. \A s : SameRecords(s)
  BY <1>3 DEF SameRecords, LiveData
<1>6. ChangedIn(req[h].zone)
  <2>1. Rewritten(req[h].zone)
    BY <1>3, <1>4, <1>5 DEF Rewritten
  <2>2. Added(req[h].zone)
    BY <1>3 DEF Added
  <2> QED BY <2>1, <2>2 DEF ChangedIn
<1>7. DeleteSet(h) => pc'[h] = "readSOA" /\ req' = req
  BY <1>1 DEF DeleteSet, Continue, Goto
<1>8. ASSUME DeleteZone(h), NEW s \in DOMAIN rrsets', rrsets'[s].zone = req[h].zone
      PROVE  ~rrsets'[s].live
  <2>1. s \in DOMAIN rrsets /\ rrsets[s].zone = req[h].zone
    BY <1>3, <1>4, <1>8
  <2>2. rrsets'[s] = [rrsets[s] EXCEPT !.live = FALSE]
    BY <1>8, <2>1 DEF DeleteZone
  <2> QED BY <1>2, <2>1, <2>2 DEF SetRow
<1> QED BY <1>6, <1>7, <1>8

(* A row of an import keeps its place, in another zone everything.         *)
LEMMA ImportedRowLeft ==
    ASSUME TablesOK, NEW r \in Requests, r.op = "importZone", NEW i \in DOMAIN rrsets
    PROVE  /\ rrsets[i].zone # r.zone => ImportedRow(r, i) = rrsets[i]
           /\ ImportedRow(r, i).live => rrsets[i].live
<1>1. rrsets[i] \in SetRow
  BY RowTypes
<1>2. \A k \in DOMAIN r.sets : i \in Updated(r, k) => rrsets[i].zone = r.zone
  BY DEF Updated, LiveSets, HasKey
<1>3. CASE r.mode = "replace" /\ rrsets[i].zone = r.zone
  <2>1. ImportedRow(r, i) = [rrsets[i] EXCEPT !.live = FALSE]
    BY <1>3 DEF ImportedRow, Updated
  <2> QED BY <1>1, <1>3, <2>1 DEF SetRow
<1>4. CASE /\ ~(r.mode = "replace" /\ rrsets[i].zone = r.zone)
           /\ \E k \in DOMAIN r.sets : i \in Updated(r, k)
  <2>1. rrsets[i].zone = r.zone
    BY <1>2, <1>4
  <2>2. PICK ttl : ImportedRow(r, i) = [rrsets[i] EXCEPT !.ttl = ttl]
    BY <1>4 DEF ImportedRow
  <2>3. ImportedRow(r, i).live = rrsets[i].live
    BY <1>1, <2>2 DEF SetRow
  <2> QED BY <2>1, <2>3
<1>5. CASE /\ ~(r.mode = "replace" /\ rrsets[i].zone = r.zone)
           /\ ~\E k \in DOMAIN r.sets : i \in Updated(r, k)
  BY <1>5 DEF ImportedRow
<1> QED BY <1>3, <1>4, <1>5

(* An rrset the import does not touch keeps its records.                   *)
LEMMA ImportLeavesRecords ==
    ASSUME TablesOK, DataRefs, NEW r \in Requests, r.op = "importZone", NoNumbers(r),
           NEW f, Numbered(r, f), Arranged(r, f), NEW s \in DOMAIN rrsets,
           \A k \in DOMAIN r.sets : s \notin Updated(r, k)
    PROVE  SameRecords(s)
<1>1. \A d \in DOMAIN rdata : Naming(r, d) = {}
  <2>1. \A d \in DOMAIN rdata : d # 0
    BY ImportRows
  <2> QED BY <2>1 DEF NoNumbers, Naming
<1>2. \A k \in DOMAIN r.sets : SetNumber(r, f, k) # s
  BY DEF Numbered
<1>3. \A d \in DOMAIN rdata' \ DOMAIN rdata : rdata'[d].set # s
  BY <1>2, ImportRows DEF Arranged, WellFormedImport
<1>4. ASSUME NEW d \in DOMAIN rdata
      PROVE  /\ d \in DOMAIN rdata' /\ rdata'[d].payload = rdata[d].payload
             /\ rdata'[d].set = rdata[d].set
             /\ rdata[d].set = s => (rdata'[d].live <=> rdata[d].live)
  BY <1>1 DEF Arranged, Dropped
<1>5. LiveData(s)' = LiveData(s)
  BY <1>3, <1>4 DEF LiveData
<1> QED BY <1>4, <1>5 DEF SameRecords

(* A record of an rrset the import creates is one it brings for it, and    *)
(* no other record comes from the same place in the import.                *)
LEMMA CreatedRecords ==
    ASSUME TablesOK, DataRefs, NEW r \in Requests, r.op = "importZone",
           NEW f \in Numberings(Created(r)), NEW g \in Numberings(Inserted(r)),
           rdata' = ImportedData(r, f, g), NoNumbers(r),
           NEW k \in Created(r), NEW s, s = SetNumber(r, f, k)
    PROVE  /\ \A d \in LiveData(s)' : \E n \in DOMAIN r.records :
                  r.records[n].of = k /\ rdata'[d].payload = r.records[n].payload
           /\ AloneIn(r, k) => \A d, e \in LiveData(s)' : d = e
<1> DEFINE old == RowsMoved(r, f)
           new == RowsAdded(r, f, g)
<1>1. /\ g \in [1 .. Cardinality(Inserted(r)) -> Inserted(r)]
      /\ \A i, j \in DOMAIN g : g[i] = g[j] => i = j
      /\ Inserted(r) \in SUBSET DOMAIN r.records
  <2>1. Len(r.records) \in Nat /\ Inserted(r) \in SUBSET (1 .. Len(r.records))
    BY ImportRows
  <2> QED BY <2>1, NumberingsType, ImportRows
<1>2. Numbered(r, f) /\ Arranged(r, f)
  BY ImportNumbers, ImportArranges
<1>3. s \notin DOMAIN rrsets /\ k \in DOMAIN r.sets
  BY <1>2 DEF Numbered, Created
<1>4. \A d \in DOMAIN rdata : rdata'[d].set # s
  <2>1. \A d \in DOMAIN rdata : Naming(r, d) = {}
    <3>1. \A d \in DOMAIN rdata : d # 0
      BY ImportRows
    <3> QED BY <3>1 DEF NoNumbers, Naming
  <2> QED BY <1>2, <1>3, <2>1 DEF Arranged, DataRefs
<1>5. /\ old \in Seq(DataRow) /\ new \in Seq(DataRow) /\ rdata' = old \o new
      /\ DOMAIN old = DOMAIN rdata /\ DOMAIN new = DOMAIN g
  BY ImportedDataType DEF RowsMoved, RowsAdded
<1>6. \A i \in DOMAIN g : /\ new[i].payload = r.records[g[i]].payload
                          /\ new[i].set = SetNumber(r, f, r.records[g[i]].of)
  BY DEF RowsAdded
<1> HIDE DEF old, new
<1>7. /\ Len(old) \in Nat
      /\ \A d \in DOMAIN rdata' \ DOMAIN rdata :
            d - Len(old) \in DOMAIN g /\ rdata'[d] = new[d - Len(old)] /\ d \in Nat
  BY <1>5, JoinedAt
<1>8. \A n \in DOMAIN r.records : SetNumber(r, f, r.records[n].of) = s => r.records[n].of = k
  BY <1>2, <1>3, ImportRows DEF Numbered, WellFormedImport
<1>9. ASSUME NEW d \in LiveData(s)'
      PROVE  \E i \in DOMAIN g : /\ d = Len(old) + i /\ g[i] \in DOMAIN r.records
                                 /\ r.records[g[i]].of = k
                                 /\ rdata'[d].payload = r.records[g[i]].payload
  <2>1. d \in DOMAIN rdata' /\ rdata'[d].set = s
    BY DEF LiveData
  <2>2. d \in DOMAIN rdata' \ DOMAIN rdata
    BY <1>4, <2>1
  <2>3. PICK i : i = d - Len(old)
    OBVIOUS
  <2>4. i \in DOMAIN g /\ rdata'[d] = new[i] /\ d = Len(old) + i
    BY <1>7, <2>2, <2>3
  <2>5. g[i] \in DOMAIN r.records
    BY <1>1, <2>4
  <2>6. r.records[g[i]].of = k /\ rdata'[d].payload = r.records[g[i]].payload
    BY <1>6, <1>8, <2>1, <2>4, <2>5
  <2> QED BY <2>4, <2>5, <2>6
<1>10. ASSUME AloneIn(r, k), NEW d \in LiveData(s)', NEW e \in LiveData(s)' PROVE d = e
  <2>1. PICK i \in DOMAIN g :
            /\ d = Len(old) + i /\ g[i] \in DOMAIN r.records /\ r.records[g[i]].of = k
    BY <1>9
  <2>2. PICK j \in DOMAIN g :
            /\ e = Len(old) + j /\ g[j] \in DOMAIN r.records /\ r.records[g[j]].of = k
    BY <1>9
  <2>3. g[i] = g[j]
    BY <1>10, <2>1, <2>2 DEF AloneIn
  <2> QED BY <1>1, <2>1, <2>2, <2>3
<1>11. ASSUME NEW d \in LiveData(s)'
       PROVE  \E n \in DOMAIN r.records :
                  r.records[n].of = k /\ rdata'[d].payload = r.records[n].payload
  BY <1>9
<1> QED BY <1>10, <1>11

LEMMA ImportChanges ==
    ASSUME StoreInv, DataRefs, SOAsAtApex, SOALeftToBump, NEW h \in Handlers, ImportSets(h)
    PROVE  \/ UNCHANGED <<rrsets, rdata>>
           \/ ChangedIn(req[h].zone) /\ pc'[h] = "readSOA" /\ req' = req
<1>1. TablesOK /\ Ready(pc[h], req[h], local[h]) /\ pc \in [Handlers -> PC]
      /\ pc[h] = "importSets"
  BY AtStep DEF StoreInv, HandlersOK, ImportSets
<1>2. PICK r \in Requests : r = req[h] /\ r.op = "importZone"
  BY <1>1 DEF Ready
<1>3. NoNumbers(r) /\ r.zone \in Zones
  BY <1>1, <1>2, ImportRows DEF SOAsAtApex
<1>4. \A k \in DOMAIN r.sets : r.sets[k].type = "SOA" => Updated(r, k) = {}
  BY <1>1, <1>2 DEF SOALeftToBump, Created
<1>5. ~UNCHANGED <<rrsets, rdata>> => pc'[h] = "readSOA" /\ req' = req
  BY <1>1 DEF ImportSets, Continue, Goto
<1>6. ASSUME NEW f \in Numberings(Created(r)), NEW g \in Numberings(Inserted(r)), Importable(r),
             rrsets' = ImportedSets(r, f), rdata' = ImportedData(r, f, g)
      PROVE  ChangedIn(r.zone)
  <2>1. Numbered(r, f) /\ Arranged(r, f)
    BY <1>1, <1>2, <1>6, ImportNumbers, ImportArranges
  <2> DEFINE old == OldSets(r)
             new == NewSets(r, f)
  <2>2. /\ old \in Seq(SetRow) /\ DOMAIN old = DOMAIN rrsets
        /\ new \in Seq(SetRow) /\ DOMAIN new = DOMAIN f
        /\ \A i \in DOMAIN f : NewFor(r, f, i)
        /\ \A i, j \in DOMAIN f : f[i] = f[j] => i = j
        /\ rrsets' = old \o new
    BY <1>1, <1>2, <1>6, ImportedSetsParts
  <2>3. \A i \in DOMAIN rrsets :
           /\ old[i].zone = rrsets[i].zone /\ old[i].name = rrsets[i].name
           /\ old[i].type = rrsets[i].type
           /\ old[i].live => rrsets[i].live
           /\ rrsets[i].zone # r.zone => old[i] = rrsets[i]
    BY <1>1, <1>2, ImportedRowType, ImportedRowLeft DEF OldSets
  <2>4. \A i \in DOMAIN f :
           /\ f[i] \in Created(r) /\ f[i] \in DOMAIN r.sets /\ new[i].zone = r.zone
           /\ new[i].name = r.sets[f[i]].name /\ new[i].type = r.sets[f[i]].type
    BY <2>2 DEF NewFor
  <2> HIDE DEF old, new
  <2>5. /\ \A i \in DOMAIN rrsets : i \in DOMAIN rrsets' /\ rrsets'[i] = old[i]
        /\ \A i \in DOMAIN rrsets' \ DOMAIN rrsets :
              i - Len(old) \in DOMAIN f /\ rrsets'[i] = new[i - Len(old)] /\ i \in Nat
        /\ Len(old) \in Nat
    BY <2>2, JoinedAt
  <2>6. Len(old) = Len(rrsets)
    BY <1>1, <2>2, LenProperties, RowTypes
  <2>7. ASSUME NEW s \in DOMAIN rrsets, rrsets[s].zone # r.zone \/ rrsets[s].type = "SOA"
        PROVE  SameRecords(s)
    <3>1. \A k \in DOMAIN r.sets : s \notin Updated(r, k)
      BY <1>4, <2>7 DEF Updated, LiveSets, HasKey
    <3> QED BY <1>1, <1>2, <1>3, <2>1, <3>1, ImportLeavesRecords
  <2>8. Rewritten(r.zone)
    BY <2>3, <2>5, <2>7 DEF Rewritten
  <2>9. ASSUME NEW s \in DOMAIN rrsets' \ DOMAIN rrsets
        PROVE  /\ rrsets'[s].zone = r.zone
               /\ rrsets'[s].type = "SOA" => Singular(s)' /\ ~KeyTaken(r.zone, Apex[r.zone], "SOA")
    <3>1. PICK i : i = s - Len(old)
      OBVIOUS
    <3>2. i \in DOMAIN f /\ rrsets'[s] = new[i] /\ s = Len(rrsets) + i /\ s \in Nat
      BY <2>5, <2>6, <2>9, <3>1
    <3>3. PICK k \in Created(r) : k = f[i]
      BY <2>4, <3>2
    <3>4. /\ rrsets'[s].zone = r.zone /\ rrsets'[s].name = r.sets[k].name
          /\ rrsets'[s].type = r.sets[k].type /\ k \in DOMAIN r.sets
      BY <2>4, <3>2, <3>3
    <3>5. s = SetNumber(r, f, k)
      <4> DEFINE at == CHOOSE j \in DOMAIN f : f[j] = k
      <4>1. at \in DOMAIN f /\ f[at] = k
        BY <3>2, <3>3
      <4>2. SetNumber(r, f, k) = Len(rrsets) + at
        BY DEF SetNumber
      <4> HIDE DEF at
      <4>3. at = i
        BY <2>2, <3>2, <3>3, <4>1
      <4> QED BY <3>2, <4>2, <4>3
    <3>6. /\ \A d \in LiveData(s)' : \E n \in DOMAIN r.records :
                r.records[n].of = k /\ rdata'[d].payload = r.records[n].payload
          /\ AloneIn(r, k) => \A d, e \in LiveData(s)' : d = e
      BY <1>1, <1>2, <1>3, <1>6, <3>5, CreatedRecords
    <3>7. ASSUME r.sets[k].type = "SOA"
          PROVE  /\ r.sets[k].name = Apex[r.zone] /\ AloneIn(r, k)
                 /\ \A n \in DOMAIN r.records :
                       r.records[n].of = k => r.records[n].payload.serial \in SerialNumbers
                 /\ ~KeyTaken(r.zone, r.sets[k].name, r.sets[k].type)
      BY <1>2, <1>6, <3>4, <3>7 DEF SOAsAtApex, Importable
    <3>8. ASSUME r.sets[k].type = "SOA" PROVE Singular(s)'
      <4>1. \A d \in LiveData(s)' : rdata'[d].payload.serial \in SerialNumbers
        BY <3>6, <3>7, <3>8
      <4>2. \A d, e \in LiveData(s)' : d = e
        BY <3>6, <3>7, <3>8
      <4>3. rrsets'[s].name = Apex[rrsets'[s].zone]
        BY <3>4, <3>7, <3>8
      <4> QED BY <4>1, <4>2, <4>3 DEF Singular
    <3> QED BY <3>4, <3>7, <3>8
  <2>10. Added(r.zone)
    BY <2>9 DEF Added
  <2> QED BY <2>8, <2>10 DEF ChangedIn
<1>7. UNCHANGED <<rrsets, rdata>> \/ ChangedIn(r.zone)
  BY <1>2, <1>6, ImportedInOrder
<1> QED BY <1>2, <1>5, <1>7

-----------------------------------------------------------------------------
(***************************************************************************)
(* The invariant.  A zone has one SOA rrset ever, deleted or not, and a    *)
(* bump of the zone in progress has found it.                              *)
(***************************************************************************)
OneSOA == \A s \in DOMAIN rrsets : rrsets[s].type = "SOA" => Singular(s)

BumpsOfSOA ==
    \A h \in Handlers :
        /\ pc[h] = "readSOAData" => SOARow(local[h].set, req[h].zone)
        /\ pc[h] = "writeSOA" =>
              /\ \E s \in DOMAIN rrsets :
                    SOARow(s, req[h].zone) /\ local[h].soa \in LiveData(s)
              /\ local[h].text.serial \in SerialNumbers

(* Nothing is below the serial of p: neither the record, whether its rrset *)
(* is live or not, nor what a bump has read and is about to write.         *)
SerialSeen(p) ==
    /\ p.zone \in Zones /\ p.serial \in SerialNumbers
    /\ \E s \in DOMAIN rrsets : SOARow(s, p.zone)
    /\ \A s \in DOMAIN rrsets : SOARow(s, p.zone) =>
          \A d \in LiveData(s) : rdata[d].payload.serial >= p.serial
    /\ \A h \in Handlers : pc[h] = "writeSOA" /\ req[h].zone = p.zone =>
          local[h].text.serial >= p.serial

\* The bump of the last change of zone z is still to come.
Owed(z) == z \in unbumped \/ Bumping(z)

\* Under the serial of p its zone has the content of p, or a bump to come.
ContentSeen(p) ==
    \A n \in Serials(p.zone) : \/ n > p.serial
                               \/ p.content = Content(p.zone)
                               \/ Owed(p.zone)

SeenInv ==
    /\ OneSOA /\ BumpsOfSOA
    /\ \A p \in published : SerialSeen(p) /\ ContentSeen(p)
    /\ SerialIdentifiesContent

-----------------------------------------------------------------------------
LEMMA OneRow ==
    ASSUME KeysUnique, OneSOA, NEW z, NEW s, NEW t, SOARow(s, z), SOARow(t, z)
    PROVE  s = t
  BY DEF KeysUnique, HasKey, OneSOA, Singular, SOARow

LEMMA InSerials ==
    ASSUME NEW z, NEW n
    PROVE  n \in Serials(z) <=>
              \E s \in DOMAIN rrsets : /\ SOARow(s, z) /\ rrsets[s].live
                                       /\ \E d \in LiveData(s) : rdata[d].payload.serial = n
<1>1. n \in Serials(z) <=>
          \E s \in SOASets(z) : \E d \in LiveData(s) : rdata[d].payload.serial = n
  BY DEF Serials
<1> QED BY <1>1 DEF SOASets, SOARow

LEMMA InSerialsNext ==
    ASSUME NEW z, NEW n
    PROVE  n \in Serials(z)' <=>
              \E s \in DOMAIN rrsets' :
                  /\ SOARow(s, z)' /\ rrsets'[s].live
                  /\ \E d \in LiveData(s)' : rdata'[d].payload.serial = n
<1>1. n \in Serials(z)' <=>
          \E s \in SOASets(z)' : \E d \in LiveData(s)' : rdata'[d].payload.serial = n
  BY DEF Serials
<1> QED BY <1>1 DEF SOASets, SOARow

LEMMA SerialsAreInt == SerialNumbers \subseteq Int
  BY StoreAssumption DEF SerialNumbers

(* What is seen for the first time.                                        *)
LEMMA NewlySeen ==
    ASSUME KeysUnique, OneSOA, NEW p \in Publication
    PROVE  SerialSeen(p) /\ ContentSeen(p)
<1>1. PICK z \in Zones \ unbumped :
          ~Bumping(z) /\ \E n \in Serials(z) : p = [zone |-> z, serial |-> n, content |-> Content(z)]
  BY DEF Publication
<1>2. PICK n \in Serials(z) : p = [zone |-> z, serial |-> n, content |-> Content(z)]
  BY <1>1
<1>3. PICK s \in DOMAIN rrsets :
          SOARow(s, z) /\ \E d \in LiveData(s) : rdata[d].payload.serial = n
  BY InSerials
<1>4. PICK d \in LiveData(s) : rdata[d].payload.serial = n
  BY <1>3
<1>5. n \in SerialNumbers /\ \A e \in LiveData(s) : e = d
  BY <1>3, <1>4 DEF OneSOA, SOARow, Singular
<1>6. n >= n
  BY <1>5, SerialsAreInt
<1>7. \A t \in DOMAIN rrsets : SOARow(t, z) =>
          \A e \in LiveData(t) : rdata[e].payload.serial >= n
  BY <1>3, <1>4, <1>5, <1>6, OneRow
<1>8. \A h \in Handlers : ~(pc[h] = "writeSOA" /\ req[h].zone = z)
  BY <1>1 DEF Bumping
<1>9. p.zone = z /\ p.serial = n /\ p.content = Content(z)
  BY <1>2
<1>10. SerialSeen(p)
  BY <1>3, <1>5, <1>7, <1>8, <1>9 DEF SerialSeen
<1>11. ContentSeen(p)
  BY <1>9 DEF ContentSeen
<1> QED BY <1>10, <1>11

-----------------------------------------------------------------------------
(***************************************************************************)
(* A step leaves the rows of SOAs alone, or changes other rows, or is the  *)
(* write of a bump.                                                        *)
(***************************************************************************)
Changes(h) ==
    /\ ChangedIn(req[h].zone)
    /\ pc[h] \notin {"readSOA", "readSOAData", "writeSOA"}
    /\ \/ pc'[h] = "readSOA" /\ req' = req
       \/ \A s \in DOMAIN rrsets' : rrsets'[s].zone = req[h].zone => ~rrsets'[s].live
       \/ ~KeyTaken(req[h].zone, Apex[req[h].zone], "SOA")

LEMMA StepChanges ==
    ASSUME StoreInv, RowsFound, DataRefs, ChangesAreBumped, SOAsAtApex, SOALeftToBump,
           [StoreNext]_storeVars
    PROVE  \/ UNCHANGED <<rrsets, rdata>>
           \/ \E h \in Handlers : Changes(h)
           \/ \E h \in Handlers : WriteSOA(h)
<1>1. ASSUME NEW h \in Handlers, RestStep(h)
      PROVE  UNCHANGED <<rrsets, rdata>> \/ Changes(h) \/ WriteSOA(h)
  <2>1. CASE InsertSet(h)
    BY <2>1, InsertSetChanges DEF Changes, InsertSet
  <2>2. CASE PutSet(h)
    BY <2>2, PutSetChanges DEF Changes, PutSet
  <2>3. CASE DeleteSet(h)
    BY <2>3, DeleteChanges DEF Changes, DeleteSet
  <2>4. CASE DeleteZone(h)
    BY <2>4, DeleteChanges DEF Changes, DeleteZone
  <2>5. CASE ImportSets(h)
    BY <2>5, ImportChanges DEF Changes, ImportSets
  <2>6. CASE CreateSOA(h)
    BY <2>6, CreateSOAChanges DEF Changes, CreateSOA
  <2> QED BY <1>1, <2>1, <2>2, <2>3, <2>4, <2>5, <2>6
          DEF RestStep, FindZone, CreateZone, CheckSet, FindSet, ReadSOA, ReadSOAData, tables
<1>2. ASSUME NEW h \in Handlers, WebStep(h) PROVE UNCHANGED <<rrsets, rdata>>
  <2>1. Ready(pc[h], req[h], local[h])
    BY AtStep DEF StoreInv
  <2>2. pc[h] \notin {"webFindSet", "webInsertSet", "webInsertData", "webDeleteRecord",
                      "webFindRecord", "webSaveRecord", "webReadSet", "webSaveTTL"}
    BY <2>1 DEF Ready, ChangesAreBumped, WebOps
  <2> QED BY <1>2, <2>2
          DEF WebStep, WebCreateZone, WebDeleteZone, WebFindSet, WebInsertSet, WebInsertData,
              WebDeleteRecord, WebFindRecord, WebSaveRecord, WebReadSet, WebSaveTTL
<1> QED BY <1>1, <1>2
        DEF StoreNext, Begin, Invalidate, StatementFails, RestartHandlers, storeVars, tables

(* The write of a bump: one record, one that SOASets may find, gets a      *)
(* serial above the one that was read.                                     *)
Bumps(h, s, d, n) ==
    /\ s \in DOMAIN rrsets /\ SOARow(s, req[h].zone) /\ d \in LiveData(s)
    /\ n \in SerialNumbers /\ n > local[h].text.serial
    /\ rrsets' = rrsets /\ DOMAIN rdata' = DOMAIN rdata
    /\ \A t : LiveData(t)' = LiveData(t)
    /\ \A e \in DOMAIN rdata : e # d => rdata'[e].payload = rdata[e].payload
    /\ rdata'[d].payload.serial = n

LEMMA WriteBumps ==
    ASSUME StoreInv, BumpsOfSOA, NEW h \in Handlers, WriteSOA(h)
    PROVE  \E s, d, n : Bumps(h, s, d, n)
<1>1. pc[h] = "writeSOA" /\ rrsets' = rrsets
  BY DEF WriteSOA
<1>2. PICK n : n = Bumped(local[h].text.serial)
  OBVIOUS
<1>3. local[h].text.serial \in SerialNumbers
  BY <1>1 DEF BumpsOfSOA
<1>4. n \in SerialNumbers /\ n > local[h].text.serial
  BY <1>2, <1>3, StoreAssumption DEF SerialNumbers, Bumped
<1>5. PICK d : d = local[h].soa
  OBVIOUS
<1>6. PICK s \in DOMAIN rrsets : SOARow(s, req[h].zone) /\ d \in LiveData(s)
  BY <1>1, <1>5 DEF BumpsOfSOA
<1>7. \A e \in DOMAIN rdata : rdata[e] \in [set : Nat, payload : Payload, live : BOOLEAN]
  BY RowTypes DEF StoreInv, DataRow
<1>8. d \in DOMAIN rdata /\ rdata[d].live
  BY <1>6 DEF LiveData
<1>9. rdata[d].payload \in [data : Data, serial : Int, country : Country \cup {Nil},
                            continent : Continent \cup {Nil}, asn : ASN \cup {Nil},
                            subnet : Subnet \cup {Nil}]
  BY <1>7, <1>8 DEF Payload
<1> DEFINE new == [rdata[d].payload EXCEPT !.data = local[h].text.data, !.serial = n]
<1>10. rdata' = [rdata EXCEPT ![d] = [rdata[d] EXCEPT !.payload = new]]
  BY <1>2, <1>5, <1>7, <1>8 DEF WriteSOA
<1>11. new.serial = n
  BY <1>9
<1> HIDE DEF new
<1>12. /\ DOMAIN rdata' = DOMAIN rdata
       /\ \A e \in DOMAIN rdata : e # d => rdata'[e] = rdata[e]
       /\ rdata'[d].payload.serial = n /\ rdata'[d].live /\ rdata'[d].set = rdata[d].set
  BY <1>7, <1>8, <1>10, <1>11
<1>13. ASSUME NEW t PROVE LiveData(t)' = LiveData(t)
  BY <1>8, <1>12 DEF LiveData
<1>14. Bumps(h, s, d, n)
  BY <1>1, <1>4, <1>6, <1>12, <1>13 DEF Bumps
<1> QED BY <1>14

(* SOA rows stay, with their records.                                      *)
SOAsKept ==
    \A s \in DOMAIN rrsets : \A z :
        SOARow(s, z) => s \in DOMAIN rrsets' /\ SOARow(s, z)' /\ LiveData(s)' = LiveData(s)

LEMMA SOAsStay ==
    ASSUME StoreInv, BumpsOfSOA,
           \/ UNCHANGED <<rrsets, rdata>>
           \/ \E h \in Handlers : Changes(h)
           \/ \E h \in Handlers : WriteSOA(h)
    PROVE  SOAsKept
<1>1. CASE UNCHANGED <<rrsets, rdata>>
  BY <1>1 DEF SOAsKept, SOARow, LiveData
<1>2. ASSUME NEW z, ChangedIn(z) PROVE SOAsKept
  BY <1>2 DEF ChangedIn, Rewritten, SameRecords, SOAsKept, SOARow
<1>3. ASSUME NEW h \in Handlers, WriteSOA(h) PROVE SOAsKept
  <2>1. rrsets' = rrsets /\ \A t : LiveData(t)' = LiveData(t)
    BY <1>3, WriteBumps DEF Bumps
  <2> QED BY <2>1 DEF SOAsKept, SOARow
<1> QED BY <1>1, <1>2, <1>3 DEF Changes

LEMMA OneSOAStep ==
    ASSUME StoreInv, OneSOA, BumpsOfSOA,
           \/ UNCHANGED <<rrsets, rdata>>
           \/ \E h \in Handlers : Changes(h)
           \/ \E h \in Handlers : WriteSOA(h)
    PROVE  OneSOA'
<1> SUFFICES ASSUME NEW s \in DOMAIN rrsets', rrsets'[s].type = "SOA"
             PROVE  Singular(s)'
  BY DEF OneSOA
<1>1. CASE UNCHANGED <<rrsets, rdata>>
  BY <1>1 DEF OneSOA, Singular, LiveData
<1>2. ASSUME NEW z, ChangedIn(z) PROVE Singular(s)'
  <2>1. CASE s \notin DOMAIN rrsets
    BY <1>2, <2>1 DEF ChangedIn, Added
  <2>2. CASE s \in DOMAIN rrsets
    <3>1. /\ rrsets[s].type = "SOA" /\ rrsets'[s].name = rrsets[s].name
          /\ rrsets'[s].zone = rrsets[s].zone /\ SameRecords(s)
      BY <1>2, <2>2 DEF ChangedIn, Rewritten
    <3>2. Singular(s)
      BY <2>2, <3>1 DEF OneSOA
    <3>3. \A d \in LiveData(s) : d \in DOMAIN rdata
      BY DEF LiveData
    <3>4. LiveData(s)' = LiveData(s) /\ \A d \in LiveData(s) : rdata'[d].payload = rdata[d].payload
      BY <3>1, <3>3 DEF SameRecords
    <3> QED BY <3>1, <3>2, <3>4 DEF Singular
  <2> QED BY <2>1, <2>2
<1>3. ASSUME NEW h \in Handlers, WriteSOA(h) PROVE Singular(s)'
  <2>1. PICK t, d, n : Bumps(h, t, d, n)
    BY <1>3, WriteBumps
  <2>2. Singular(s)
    BY <2>1 DEF Bumps, OneSOA
  <2>3. \A e \in LiveData(s) : e \in DOMAIN rdata
    BY DEF LiveData
  <2>4. \A e \in LiveData(s) : rdata'[e].payload.serial \in SerialNumbers
    BY <2>1, <2>2, <2>3 DEF Bumps, Singular
  <2> QED BY <2>1, <2>2, <2>4 DEF Bumps, Singular
<1> QED BY <1>1, <1>2, <1>3 DEF Changes

\* Handler g is where it was.
Still(g) == pc'[g] = pc[g] /\ req'[g] = req[g] /\ local'[g] = local[g]

(* A bump in progress has just read its SOA, or has it since before.       *)
LEMMA BumpReads ==
    ASSUME StoreInv, [StoreNext]_storeVars, NEW g \in Handlers
    PROVE  /\ pc'[g] = "readSOAData" => Still(g) \/ ReadSOA(g)
           /\ pc'[g] = "writeSOA" => Still(g) \/ ReadSOAData(g)
<1>1. HandlersOK
  BY DEF StoreInv
<1>2. CASE RestartHandlers
  BY <1>2 DEF RestartHandlers
<1>3. CASE UNCHANGED storeVars
  BY <1>3 DEF storeVars, Still
<1>4. ASSUME NEW h \in Handlers,
             Begin(h) \/ RestStep(h) \/ WebStep(h) \/ Invalidate(h) \/ StatementFails(h)
      PROVE  /\ pc'[g] = "readSOAData" => Still(g) \/ ReadSOA(g)
             /\ pc'[g] = "writeSOA" => Still(g) \/ ReadSOAData(g)
  <2>1. CASE h = g
    BY <1>1, <1>4, <2>1, UsesFollowReads
  <2>2. CASE h # g
    BY <1>1, <1>4, <2>2, OneHandlerMoves DEF Moved, Still
  <2> QED BY <2>1, <2>2
<1> QED BY <1>2, <1>3, <1>4 DEF StoreNext

LEMMA SOARead ==
    ASSUME StoreInv, NEW g \in Handlers, ReadSOA(g), pc'[g] = "readSOAData"
    PROVE  /\ local'[g].set \in SOASets(req[g].zone) /\ req'[g] = req[g]
           /\ UNCHANGED <<rrsets, rdata>>
<1>1. /\ pc \in [Handlers -> PC] /\ local \in [Handlers -> Local] /\ local[g] \in Local
  BY AtStep DEF StoreInv, HandlersOK
<1>2. WithoutSOA(g) # "readSOAData"
  BY DEF WithoutSOA
<1>3. UNCHANGED <<rrsets, rdata>> /\ ~Continue(g, WithoutSOA(g))
  BY <1>1, <1>2 DEF ReadSOA, Continue, Goto, tables
<1>4. PICK s \in SOASets(req[g].zone) : local' = [local EXCEPT ![g].set = s] /\ UNCHANGED req
  BY <1>3 DEF ReadSOA
<1>5. local'[g].set = s
  BY <1>1, <1>4 DEF Local
<1> QED BY <1>3, <1>4, <1>5

LEMMA SOADataRead ==
    ASSUME StoreInv, NEW g \in Handlers, ReadSOAData(g), pc'[g] = "writeSOA"
    PROVE  /\ local'[g].soa \in LiveData(local[g].set)
           /\ local'[g].text = rdata[local'[g].soa].payload
           /\ req'[g] = req[g] /\ UNCHANGED <<rrsets, rdata>> /\ pc[g] = "readSOAData"
<1>1. /\ pc \in [Handlers -> PC] /\ local \in [Handlers -> Local] /\ local[g] \in Local
  BY AtStep DEF StoreInv, HandlersOK
<1>2. WithoutSOA(g) # "writeSOA"
  BY DEF WithoutSOA
<1>3. /\ UNCHANGED <<rrsets, rdata>> /\ pc[g] = "readSOAData"
      /\ ~Continue(g, WithoutSOA(g)) /\ ~Continue(g, "invalidate")
  BY <1>1, <1>2 DEF ReadSOAData, Continue, Goto, tables
<1>4. PICK d \in LiveData(local[g].set) :
          local' = [local EXCEPT ![g].soa = d, ![g].text = rdata[d].payload] /\ UNCHANGED req
  BY <1>3 DEF ReadSOAData
<1>5. local'[g].soa = d /\ local'[g].text = rdata[d].payload
  BY <1>1, <1>4 DEF Local
<1> QED BY <1>3, <1>4, <1>5

LEMMA BumpsOfSOAStep ==
    ASSUME StoreInv, OneSOA, BumpsOfSOA, SOAsKept, [StoreNext]_storeVars
    PROVE  BumpsOfSOA'
<1> SUFFICES ASSUME NEW g \in Handlers
             PROVE  /\ pc'[g] = "readSOAData" => SOARow(local[g].set, req[g].zone)'
                    /\ pc'[g] = "writeSOA" =>
                          /\ \E s \in DOMAIN rrsets' :
                                SOARow(s, req[g].zone)' /\ local'[g].soa \in LiveData(s)'
                          /\ local'[g].text.serial \in SerialNumbers
  BY DEF BumpsOfSOA
<1>1. ASSUME pc'[g] = "readSOAData" PROVE SOARow(local[g].set, req[g].zone)'
  <2>1. CASE Still(g)
    <3>1. SOARow(local[g].set, req[g].zone)
      BY <1>1, <2>1 DEF Still, BumpsOfSOA
    <3> QED BY <2>1, <3>1 DEF Still, SOAsKept, SOARow
  <2>2. CASE ReadSOA(g)
    BY <1>1, <2>2, SOARead DEF SOASets, SOARow
  <2> QED BY <1>1, <2>1, <2>2, BumpReads
<1>2. ASSUME pc'[g] = "writeSOA"
      PROVE  /\ \E s \in DOMAIN rrsets' :
                   SOARow(s, req[g].zone)' /\ local'[g].soa \in LiveData(s)'
             /\ local'[g].text.serial \in SerialNumbers
  <2>1. CASE Still(g)
    <3>1. PICK s \in DOMAIN rrsets : SOARow(s, req[g].zone) /\ local[g].soa \in LiveData(s)
      BY <1>2, <2>1 DEF Still, BumpsOfSOA
    <3>2. local[g].text.serial \in SerialNumbers
      BY <1>2, <2>1 DEF Still, BumpsOfSOA
    <3>3. s \in DOMAIN rrsets' /\ SOARow(s, req[g].zone)' /\ LiveData(s)' = LiveData(s)
      BY <2>1, <3>1 DEF Still, SOAsKept, SOARow
    <3> QED BY <2>1, <3>1, <3>2, <3>3 DEF Still
  <2>2. CASE ReadSOAData(g)
    <3>1. /\ local'[g].soa \in LiveData(local[g].set)
          /\ local'[g].text = rdata[local'[g].soa].payload
          /\ req'[g] = req[g] /\ UNCHANGED <<rrsets, rdata>> /\ pc[g] = "readSOAData"
      BY <1>2, <2>2, SOADataRead
    <3>2. PICK s : s = local[g].set
      OBVIOUS
    <3>3. SOARow(s, req[g].zone) /\ s \in DOMAIN rrsets
      BY <3>1, <3>2 DEF BumpsOfSOA, SOARow
    <3>4. local'[g].text.serial \in SerialNumbers
      BY <3>1, <3>2, <3>3 DEF OneSOA, SOARow, Singular
    <3>5. s \in DOMAIN rrsets' /\ SOARow(s, req[g].zone)' /\ local'[g].soa \in LiveData(s)'
      BY <3>1, <3>2, <3>3 DEF SOARow, LiveData
    <3> QED BY <3>4, <3>5
  <2> QED BY <1>2, <2>1, <2>2, BumpReads
<1> QED BY <1>1, <1>2

(* What has been seen stays seen.                                          *)
LEMMA SerialStaysSeen ==
    ASSUME StoreInv, OneSOA, BumpsOfSOA, SOAsKept, [StoreNext]_storeVars,
           \/ UNCHANGED <<rrsets, rdata>>
           \/ \E h \in Handlers : Changes(h)
           \/ \E h \in Handlers : WriteSOA(h),
           NEW p, SerialSeen(p)
    PROVE  SerialSeen(p)'
<1>1. KeysUnique /\ p.zone \in Zones /\ p.serial \in SerialNumbers
  BY DEF StoreInv, SerialSeen
<1>2. PICK s \in DOMAIN rrsets : SOARow(s, p.zone)
  BY DEF SerialSeen
<1>3. \A d \in LiveData(s) : d \in DOMAIN rdata /\ rdata[d].payload.serial >= p.serial
  BY <1>2 DEF SerialSeen, LiveData
<1>4. s \in DOMAIN rrsets' /\ SOARow(s, p.zone)' /\ LiveData(s)' = LiveData(s)
  BY <1>2 DEF SOAsKept
<1>5. \A t \in DOMAIN rrsets' : SOARow(t, p.zone)' => t = s
  <2> SUFFICES ASSUME NEW t \in DOMAIN rrsets', SOARow(t, p.zone)' PROVE t = s
    OBVIOUS
  <2>1. CASE rrsets' = rrsets
    BY <1>1, <1>2, <2>1, OneRow DEF SOARow
  <2>2. ASSUME NEW z, ChangedIn(z) PROVE t = s
    <3>1. CASE t \in DOMAIN rrsets
      <4>1. SOARow(t, p.zone)
        BY <2>2, <3>1 DEF ChangedIn, Rewritten, SOARow
      <4> QED BY <1>1, <1>2, <4>1, OneRow
    <3>2. CASE t \notin DOMAIN rrsets
      <4>1. ~KeyTaken(p.zone, Apex[p.zone], "SOA")
        BY <2>2, <3>2 DEF ChangedIn, Added, SOARow
      <4>2. HasKey(rrsets[s], p.zone, Apex[p.zone], "SOA")
        BY <1>2 DEF OneSOA, Singular, SOARow, HasKey
      <4> QED BY <4>1, <4>2 DEF KeyTaken
    <3> QED BY <3>1, <3>2
  <2> QED BY <2>1, <2>2 DEF Changes, WriteSOA
<1>6. \A d \in LiveData(s) : rdata'[d].payload.serial >= p.serial
  <2> SUFFICES ASSUME NEW d \in LiveData(s) PROVE rdata'[d].payload.serial >= p.serial
    OBVIOUS
  <2>1. CASE UNCHANGED <<rrsets, rdata>>
    BY <1>3, <2>1
  <2>2. ASSUME NEW z, ChangedIn(z) PROVE rdata'[d].payload.serial >= p.serial
    BY <1>2, <1>3, <2>2 DEF ChangedIn, Rewritten, SOARow, SameRecords
  <2>3. ASSUME NEW h \in Handlers, WriteSOA(h) PROVE rdata'[d].payload.serial >= p.serial
    <3>1. PICK t, e, n : Bumps(h, t, e, n)
      BY <2>3, WriteBumps
    <3>2. CASE d # e
      BY <1>3, <3>1, <3>2 DEF Bumps
    <3>3. CASE d = e
      <4>1. rdata[d].set = s /\ rdata[d].set = t
        BY <3>1, <3>3 DEF Bumps, LiveData
      <4>2. req[h].zone = p.zone
        BY <1>2, <3>1, <4>1 DEF Bumps, SOARow
      <4>3. pc[h] = "writeSOA"
        BY <2>3 DEF WriteSOA
      <4>4. local[h].text.serial >= p.serial /\ local[h].text.serial \in SerialNumbers
        BY <4>2, <4>3 DEF SerialSeen, BumpsOfSOA
      <4>5. /\ n \in SerialNumbers /\ n > local[h].text.serial
            /\ rdata'[d].payload.serial = n
        BY <3>1, <3>3 DEF Bumps
      <4>6. n \in Int /\ local[h].text.serial \in Int /\ p.serial \in Int
        BY <1>1, <4>4, <4>5, SerialsAreInt
      <4>7. n >= p.serial
        BY <4>4, <4>5, <4>6
      <4> QED BY <4>5, <4>7
    <3> QED BY <3>2, <3>3
  <2> QED BY <2>1, <2>2, <2>3 DEF Changes
<1>7. ASSUME NEW g \in Handlers, pc'[g] = "writeSOA", req'[g].zone = p.zone
      PROVE  local'[g].text.serial >= p.serial
  <2>1. CASE Still(g)
    BY <1>7, <2>1 DEF Still, SerialSeen
  <2>2. CASE ReadSOAData(g)
    <3>1. /\ local'[g].soa \in LiveData(local[g].set)
          /\ local'[g].text = rdata[local'[g].soa].payload
          /\ req'[g] = req[g] /\ pc[g] = "readSOAData"
      BY <1>7, <2>2, SOADataRead
    <3>2. SOARow(local[g].set, p.zone)
      BY <1>7, <3>1 DEF BumpsOfSOA
    <3>3. local[g].set = s
      BY <1>1, <1>2, <3>2, OneRow
    <3> QED BY <1>3, <3>1, <3>3
  <2> QED BY <1>7, <2>1, <2>2, BumpReads
<1>8. \A t \in DOMAIN rrsets' : SOARow(t, p.zone)' =>
          \A d \in LiveData(t)' : rdata'[d].payload.serial >= p.serial
  BY <1>4, <1>5, <1>6
<1> QED BY <1>1, <1>4, <1>7, <1>8 DEF SerialSeen

-----------------------------------------------------------------------------
(***************************************************************************)
(* The bump to come.                                                       *)
(***************************************************************************)

(* A step that is no failure passes a statement of the bump by that        *)
(* statement.                                                              *)
LEMMA BumpStatements ==
    ASSUME NEW h, Begin(h) \/ RestStep(h) \/ WebStep(h) \/ Invalidate(h)
    PROVE  /\ pc[h] = "readSOA" => ReadSOA(h)
           /\ pc[h] = "readSOAData" => ReadSOAData(h)
           /\ pc[h] = "writeSOA" => WriteSOA(h)
<1>1. RestStep(h) => \/ pc[h] \notin {"readSOA", "readSOAData", "writeSOA"}
                     \/ ReadSOA(h) \/ ReadSOAData(h) \/ WriteSOA(h)
  BY DEF RestStep, FindZone, CreateZone, DeleteZone, CheckSet, InsertSet, FindSet, PutSet,
         DeleteSet, ImportSets, CreateSOA
<1>2. WebStep(h) => pc[h] \notin {"readSOA", "readSOAData", "writeSOA"}
  BY DEF WebStep, WebCreateZone, WebDeleteZone, WebFindSet, WebInsertSet, WebInsertData,
         WebDeleteRecord, WebFindRecord, WebSaveRecord, WebReadSet, WebSaveTTL
<1>3. /\ Begin(h) => pc[h] = "idle"
      /\ Invalidate(h) => pc[h] = "invalidate"
      /\ ReadSOA(h) => pc[h] = "readSOA"
      /\ ReadSOAData(h) => pc[h] = "readSOAData"
      /\ WriteSOA(h) => pc[h] = "writeSOA"
  BY DEF Begin, Invalidate, ReadSOA, ReadSOAData, WriteSOA
<1> QED BY <1>1, <1>2, <1>3

(* A bump of a zone with a serial goes on until it is written, or a fault  *)
(* has taken it and the zone is known to be without.                       *)
LEMMA BumpGoesOn ==
    ASSUME StoreInv, OneSOA, BumpsOfSOA, StoreNext, unbumped' = Unbumped,
           NEW z \in Zones, NEW n \in Serials(z), Owed(z),
           \A h \in Handlers : WriteSOA(h) => req[h].zone # z
    PROVE  Owed(z)'
<1>1. HandlersOK /\ KeysUnique /\ faults \in Nat
  BY DEF StoreInv, CountersOK
<1>2. PICK s \in DOMAIN rrsets :
          /\ SOARow(s, z) /\ rrsets[s].live
          /\ \E d \in LiveData(s) : rdata[d].payload.serial = n
  BY InSerials
<1>3. CASE faults' > faults
  BY <1>3 DEF Owed, Unbumped
<1>4. CASE ~(faults' > faults)
  <2>1. PICK h \in Handlers : Begin(h) \/ RestStep(h) \/ WebStep(h) \/ Invalidate(h)
    BY <1>1, <1>4 DEF StoreNext, StatementFails, RestartHandlers
  <2>2. Moved(h)
    BY <1>1, <2>1, OneHandlerMoves
  <2>3. ~BumpWritten(z)
    <3> SUFFICES ASSUME NEW g \in Handlers, pc[g] = "writeSOA", pc'[g] = "invalidate",
                        req[g].zone = z
                 PROVE  FALSE
      BY DEF BumpWritten
    <3>1. g = h
      BY <2>2 DEF Moved
    <3>2. WriteSOA(g)
      BY <2>1, <3>1, BumpStatements
    <3> QED BY <3>2
  <2>4. CASE z \in unbumped
    BY <1>4, <2>3, <2>4 DEF Owed, Unbumped
  <2>5. ASSUME NEW g \in Handlers, pc[g] \in {"readSOA", "readSOAData", "writeSOA"},
               req[g].zone = z
        PROVE  pc'[g] \in {"readSOA", "readSOAData", "writeSOA"} /\ req'[g].zone = z
    <3>1. CASE g # h
      BY <2>2, <2>5, <3>1 DEF Moved
    <3>2. CASE g = h /\ pc[g] = "readSOA"
      <4>1. ReadSOA(g) /\ s \in SOASets(z)
        BY <1>2, <2>1, <3>2, BumpStatements DEF SOASets, SOARow
      <4>2. Goto(g, "readSOAData") /\ UNCHANGED req
        BY <2>5, <4>1 DEF ReadSOA
      <4> QED BY <1>1, <2>5, <4>2 DEF Goto, HandlersOK
    <3>3. CASE g = h /\ pc[g] = "readSOAData"
      <4>1. ReadSOAData(g) /\ SOARow(local[g].set, z)
        BY <2>1, <2>5, <3>3, BumpStatements DEF BumpsOfSOA
      <4>2. local[g].set = s
        BY <1>1, <1>2, <4>1, OneRow
      <4>3. \A d \in LiveData(s) : rdata[d].payload.serial # TooShort
        BY <1>2 DEF OneSOA, SOARow, Singular, SerialNumbers
      <4>4. Goto(g, "writeSOA") /\ UNCHANGED req
        BY <1>2, <4>1, <4>2, <4>3 DEF ReadSOAData
      <4> QED BY <1>1, <2>5, <4>4 DEF Goto, HandlersOK
    <3>4. CASE g = h /\ pc[g] = "writeSOA"
      BY <2>1, <2>5, <3>4, BumpStatements
    <3> QED BY <2>5, <3>1, <3>2, <3>3, <3>4
  <2>6. CASE Bumping(z)
    BY <2>5, <2>6 DEF Bumping, Owed
  <2> QED BY <2>4, <2>6 DEF Owed
<1> QED BY <1>3, <1>4

(* A zone whose rows and their records are as they were.                   *)
LEMMA SameContent ==
    ASSUME NEW y,
           \A s : /\ s \in DOMAIN rrsets' /\ rrsets'[s].zone = y /\ rrsets'[s].type # "SOA"
                        => s \in DOMAIN rrsets /\ rrsets'[s] = rrsets[s] /\ Texts(s)' = Texts(s)
                  /\ s \in DOMAIN rrsets /\ rrsets[s].zone = y /\ rrsets[s].type # "SOA"
                        => s \in DOMAIN rrsets' /\ rrsets'[s] = rrsets[s]
    PROVE  Content(y)' = Content(y)
<1> DEFINE rows == {i \in DOMAIN rrsets : /\ rrsets[i].live /\ rrsets[i].zone = y
                                          /\ rrsets[i].type # "SOA"}
           was(s) == <<rrsets[s].name, rrsets[s].type, rrsets[s].ttl, Texts(s)>>
           is(s)  == <<rrsets'[s].name, rrsets'[s].type, rrsets'[s].ttl, Texts(s)'>>
<1>1. Content(y) = {was(s) : s \in rows} /\ Content(y)' = {is(s) : s \in rows'}
  BY DEF Content
<1>2. rows' = rows
  OBVIOUS
<1>3. ASSUME NEW s \in rows' PROVE is(s) = was(s)
  <2>1. rrsets'[s] = rrsets[s] /\ Texts(s)' = Texts(s)
    OBVIOUS
  <2> QED BY <2>1
<1> HIDE DEF was, is, rows
<1> QED BY <1>1, <1>2, <1>3

(* A change in zone z leaves the other zones as they were seen.            *)
LEMMA ElsewhereSame ==
    ASSUME NEW z, ChangedIn(z), NEW y, y # z
    PROVE  Content(y)' = Content(y) /\ \A n : n \in Serials(y)' => n \in Serials(y)
<1>1. ASSUME NEW s \in DOMAIN rrsets, rrsets[s].zone = y
      PROVE  /\ s \in DOMAIN rrsets' /\ rrsets'[s] = rrsets[s] /\ LiveData(s)' = LiveData(s)
             /\ \A d \in LiveData(s) : rdata'[d].payload = rdata[d].payload
             /\ Texts(s)' = Texts(s)
  <2>1. s \in DOMAIN rrsets' /\ rrsets'[s] = rrsets[s] /\ SameRecords(s)
    BY <1>1 DEF ChangedIn, Rewritten
  <2>2. /\ LiveData(s)' = LiveData(s)
        /\ \A d \in LiveData(s) : rdata'[d].payload = rdata[d].payload
    BY <2>1 DEF SameRecords, LiveData
  <2>3. Texts(s)' = Texts(s)
    BY <2>2 DEF Texts
  <2> QED BY <2>1, <2>2, <2>3
<1>2. \A s \in DOMAIN rrsets' : rrsets'[s].zone = y => s \in DOMAIN rrsets /\ rrsets[s].zone = y
  BY DEF ChangedIn, Rewritten, Added
<1>3. Content(y)' = Content(y)
  BY <1>1, <1>2, SameContent
<1>4. ASSUME NEW n, n \in Serials(y)' PROVE n \in Serials(y)
  <2>1. PICK s \in DOMAIN rrsets' : /\ SOARow(s, y)' /\ rrsets'[s].live
                                    /\ \E d \in LiveData(s)' : rdata'[d].payload.serial = n
    BY <1>4, InSerialsNext
  <2>2. s \in DOMAIN rrsets /\ rrsets[s].zone = y
    BY <1>2, <2>1 DEF SOARow
  <2>3. SOARow(s, y) /\ rrsets[s].live /\ \E d \in LiveData(s) : rdata[d].payload.serial = n
    BY <1>1, <2>1, <2>2 DEF SOARow
  <2> QED BY <2>2, <2>3, InSerials
<1> QED BY <1>3, <1>4

(* The write of a bump leaves all but its zone's serial as seen.           *)
LEMMA BumpSame ==
    ASSUME NEW h, NEW t, NEW d, NEW m, Bumps(h, t, d, m), NEW y
    PROVE  /\ Content(y)' = Content(y)
           /\ y # req[h].zone => \A n : n \in Serials(y)' => n \in Serials(y)
<1>1. /\ rrsets' = rrsets /\ \A s : LiveData(s)' = LiveData(s)
      /\ d \in LiveData(t) /\ SOARow(t, req[h].zone)
  BY DEF Bumps
<1>2. ASSUME NEW s, s # t
      PROVE  \A e \in LiveData(s) : rdata'[e].payload = rdata[e].payload
  BY <1>1, <1>2 DEF Bumps, LiveData
<1>3. ASSUME NEW s, s # t PROVE Texts(s)' = Texts(s)
  BY <1>1, <1>2, <1>3 DEF Texts
<1>4. Content(y)' = Content(y)
  BY <1>1, <1>3, SameContent DEF SOARow
<1>5. ASSUME y # req[h].zone, NEW n, n \in Serials(y)' PROVE n \in Serials(y)
  <2>1. PICK s \in DOMAIN rrsets' : /\ SOARow(s, y)' /\ rrsets'[s].live
                                    /\ \E e \in LiveData(s)' : rdata'[e].payload.serial = n
    BY <1>5, InSerialsNext
  <2>2. s \in DOMAIN rrsets /\ SOARow(s, y) /\ rrsets[s].live /\ s # t
    BY <1>1, <1>5, <2>1 DEF SOARow
  <2>3. \E e \in LiveData(s) : rdata[e].payload.serial = n
    BY <1>1, <1>2, <2>1, <2>2
  <2> QED BY <2>2, <2>3, InSerials
<1> QED BY <1>4, <1>5

LEMMA ContentStaysSeen ==
    ASSUME StoreInv, OneSOA, BumpsOfSOA, StoreNext, unbumped' = Unbumped,
           \/ UNCHANGED <<rrsets, rdata>>
           \/ \E h \in Handlers : Changes(h)
           \/ \E h \in Handlers : WriteSOA(h),
           NEW p, SerialSeen(p), ContentSeen(p)
    PROVE  ContentSeen(p)'
<1> DEFINE y == p.zone
<1> SUFFICES ASSUME NEW n, n \in Serials(y)'
             PROVE  n > p.serial \/ p.content = Content(y)' \/ Owed(y)'
  BY DEF ContentSeen
<1>1. KeysUnique /\ pc \in [Handlers -> PC] /\ y \in Zones /\ p.serial \in SerialNumbers
  BY DEF StoreInv, HandlersOK, SerialSeen
<1>2. ASSUME n \in Serials(y), Content(y)' = Content(y),
             \A h \in Handlers : WriteSOA(h) => req[h].zone # y
      PROVE  n > p.serial \/ p.content = Content(y)' \/ Owed(y)'
  <2>1. n > p.serial \/ p.content = Content(y) \/ Owed(y)
    BY <1>2 DEF ContentSeen
  <2>2. Owed(y) => Owed(y)'
    BY <1>1, <1>2, BumpGoesOn
  <2> QED BY <1>2, <2>1, <2>2
<1>3. CASE UNCHANGED <<rrsets, rdata>> /\ \A h \in Handlers : ~WriteSOA(h)
  <2>1. n \in Serials(y) /\ Content(y)' = Content(y)
    BY <1>3 DEF Serials, Content, Texts, SOASets, LiveData
  <2> QED BY <1>2, <1>3, <2>1
<1>4. ASSUME NEW h \in Handlers, Changes(h), \A g \in Handlers : ~WriteSOA(g)
      PROVE  n > p.serial \/ p.content = Content(y)' \/ Owed(y)'
  <2>1. CASE req[h].zone # y
    <3>1. Content(y)' = Content(y) /\ n \in Serials(y)
      BY <1>4, <2>1, ElsewhereSame DEF Changes
    <3> QED BY <1>2, <1>4, <3>1
  <2>2. CASE req[h].zone = y /\ pc'[h] = "readSOA" /\ req' = req
    BY <2>2 DEF Owed, Bumping
  <2>3. CASE \A s \in DOMAIN rrsets' : rrsets'[s].zone = y => ~rrsets'[s].live
    BY <2>3, InSerialsNext DEF SOARow
  <2>4. CASE ~KeyTaken(y, Apex[y], "SOA")
    <3>1. PICK s \in DOMAIN rrsets : SOARow(s, y)
      BY DEF SerialSeen
    <3>2. HasKey(rrsets[s], y, Apex[y], "SOA")
      BY <3>1 DEF OneSOA, Singular, SOARow, HasKey
    <3> QED BY <2>4, <3>2 DEF KeyTaken
  <2> QED BY <1>4, <2>1, <2>2, <2>3, <2>4 DEF Changes
<1>5. ASSUME NEW h \in Handlers, WriteSOA(h)
      PROVE  n > p.serial \/ p.content = Content(y)' \/ Owed(y)'
  <2>1. PICK t, d, m : Bumps(h, t, d, m)
    BY <1>5, WriteBumps
  <2>2. CASE req[h].zone # y
    <3>1. Content(y)' = Content(y) /\ n \in Serials(y)
      BY <2>1, <2>2, BumpSame
    <3>2. ASSUME NEW g \in Handlers, WriteSOA(g) PROVE g = h
      <4>1. /\ pc[g] = "writeSOA" /\ pc' = [pc EXCEPT ![g] = "invalidate"]
            /\ pc' = [pc EXCEPT ![h] = "invalidate"]
        BY <1>5, <3>2 DEF WriteSOA, Continue, Goto
      <4> QED BY <1>1, <4>1
    <3> QED BY <1>2, <2>2, <3>1, <3>2
  <2>3. CASE req[h].zone = y
    <3>1. PICK s \in DOMAIN rrsets' : /\ SOARow(s, y)' /\ rrsets'[s].live
                                      /\ \E e \in LiveData(s)' : rdata'[e].payload.serial = n
      BY InSerialsNext
    <3>2. SOARow(s, y) /\ SOARow(t, y) /\ LiveData(s)' = LiveData(s)
      BY <2>1, <2>3, <3>1 DEF Bumps, SOARow
    <3>3. s = t
      BY <1>1, <3>2, OneRow
    <3>4. \A e \in LiveData(t) : e = d
      BY <2>1 DEF Bumps, OneSOA, SOARow, Singular
    <3>5. n = m /\ m > local[h].text.serial /\ m \in SerialNumbers
      BY <2>1, <3>1, <3>2, <3>3, <3>4 DEF Bumps
    <3>6. pc[h] = "writeSOA"
      BY <1>5 DEF WriteSOA
    <3>7. local[h].text.serial >= p.serial /\ local[h].text.serial \in SerialNumbers
      BY <2>3, <3>6 DEF SerialSeen, BumpsOfSOA
    <3>8. n \in Int /\ local[h].text.serial \in Int /\ p.serial \in Int
      BY <1>1, <3>5, <3>7, SerialsAreInt
    <3> QED BY <3>5, <3>7, <3>8
  <2> QED BY <2>2, <2>3
<1> QED BY <1>3, <1>4, <1>5

-----------------------------------------------------------------------------
LEMMA NewlySeenNext ==
    (KeysUnique /\ OneSOA)' => \A p \in Publication' : SerialSeen(p)' /\ ContentSeen(p)'
<1>1. KeysUnique /\ OneSOA => \A p \in Publication : SerialSeen(p) /\ ContentSeen(p)
  BY NewlySeen
<1>2. (KeysUnique /\ OneSOA => \A p \in Publication : SerialSeen(p) /\ ContentSeen(p))'
  BY <1>1, PTL
<1> QED BY <1>2

LEMMA SeenInvInit ==
    ASSUME SOAsAtApexAtStart
    PROVE  HistoryInit => SeenInv
<1> SUFFICES ASSUME HistoryInit PROVE SeenInv
  OBVIOUS
<1>1. StoreInv /\ published = Publication
  BY StoreInvInit DEF HistoryInit
<1>2. OneSOA /\ BumpsOfSOA
  BY DEF HistoryInit, StoreInit, SOAsAtApexAtStart, OneSOA, Singular, LiveData, BumpsOfSOA
<1>3. \A p \in published : SerialSeen(p) /\ ContentSeen(p)
  BY <1>1, <1>2, NewlySeen DEF StoreInv
<1>4. \A p \in Publication : p.content = Content(p.zone)
  BY DEF Publication
<1>5. SerialIdentifiesContent
  BY <1>1, <1>4 DEF SerialIdentifiesContent
<1> QED BY <1>2, <1>3, <1>5 DEF SeenInv

LEMMA SeenInvStep ==
    ASSUME ChangesAreBumped, SOAsAtApex, SOALeftToBump,
           StoreInv, RowsFound, DataRefs, SeenInv, [HistoryNext]_zoneHistoryVars
    PROVE  SeenInv'
<1>1. CASE UNCHANGED zoneHistoryVars
  BY <1>1 DEF zoneHistoryVars, storeVars, SeenInv, OneSOA, Singular, LiveData, BumpsOfSOA,
              SOARow, SerialSeen, ContentSeen, Serials, SOASets, Content, Texts, Owed, Bumping,
              SerialIdentifiesContent
<1>2. CASE HistoryNext
  <2>1. StoreNext /\ unbumped' = Unbumped /\ published' = published \cup Publication'
    BY <1>2 DEF HistoryNext
  <2>2. \/ UNCHANGED <<rrsets, rdata>>
        \/ \E h \in Handlers : Changes(h)
        \/ \E h \in Handlers : WriteSOA(h)
    BY <2>1, StepChanges
  <2>3. OneSOA /\ BumpsOfSOA
    BY DEF SeenInv
  <2>4. SOAsKept /\ OneSOA'
    BY <2>2, <2>3, SOAsStay, OneSOAStep
  <2>5. BumpsOfSOA'
    BY <2>1, <2>3, <2>4, BumpsOfSOAStep
  <2>6. KeysUnique'
    BY <2>1, StoreInvStep DEF StoreInv
  <2>7. ASSUME NEW p \in published PROVE SerialSeen(p)' /\ ContentSeen(p)'
    <3>1. SerialSeen(p) /\ ContentSeen(p)
      BY DEF SeenInv
    <3> QED BY <2>1, <2>2, <2>3, <2>4, <3>1, SerialStaysSeen, ContentStaysSeen
  <2>8. \A p \in published' : SerialSeen(p)' /\ ContentSeen(p)'
    BY <2>1, <2>4, <2>6, <2>7, NewlySeenNext
  <2>9. ASSUME NEW p \in Publication'
        PROVE  /\ p.serial \in Serials(p.zone)' /\ p.content = Content(p.zone)'
               /\ ~Owed(p.zone)' /\ p.serial \in SerialNumbers
    <3>1. /\ p.serial \in Serials(p.zone)' /\ p.content = Content(p.zone)'
          /\ ~Owed(p.zone)'
      BY DEF Publication, Owed
    <3>2. p.serial \in SerialNumbers
      BY <2>1, <2>8 DEF SerialSeen
    <3> QED BY <3>1, <3>2
  <2>10. ASSUME NEW p \in published', NEW q \in Publication',
                p.zone = q.zone, p.serial = q.serial
         PROVE  p.content = q.content
    <3>1. \/ q.serial > p.serial \/ p.content = Content(q.zone)' \/ Owed(q.zone)'
      BY <2>8, <2>9, <2>10 DEF ContentSeen
    <3>2. q.serial \in Int
      BY <2>9, <2>10, SerialsAreInt
    <3>3. ~(q.serial > p.serial)
      BY <2>10, <3>2
    <3> QED BY <2>9, <2>10, <3>1, <3>3
  <2>11. SerialIdentifiesContent'
    <3> SUFFICES ASSUME NEW p \in published', NEW q \in published',
                        p.zone = q.zone, p.serial = q.serial
                 PROVE  p.content = q.content
      BY DEF SerialIdentifiesContent
    <3>1. CASE q \in Publication'
      BY <2>10, <3>1
    <3>2. CASE p \in Publication'
      BY <2>10, <3>2
    <3>3. CASE p \in published /\ q \in published
      BY <3>3 DEF SeenInv, SerialIdentifiesContent
    <3> QED BY <2>1, <3>1, <3>2, <3>3
  <2> QED BY <2>4, <2>5, <2>8, <2>11 DEF SeenInv
<1> QED BY <1>1, <1>2

-----------------------------------------------------------------------------
LEMMA HistoryIsStore == HistorySpec => StoreSpec
<1>1. HistoryInit => StoreInit
  BY DEF HistoryInit
<1>2. [HistoryNext]_zoneHistoryVars => [StoreNext]_storeVars
  BY DEF HistoryNext, zoneHistoryVars
<1> QED BY <1>1, <1>2, PTL DEF HistorySpec, StoreSpec

LEMMA StoreFacts == StoreSpec => [](StoreInv /\ RowsFound /\ DataRefs)
<1>1. StoreInit => StoreInv /\ RowsFound
  BY StoreInvInit, RowsFoundInit
<1>2. StoreInv /\ RowsFound /\ [StoreNext]_storeVars => (StoreInv /\ RowsFound)'
  BY StoreInvStep, RowsFoundStep
<1>3. StoreSpec => [](StoreInv /\ RowsFound)
  BY <1>1, <1>2, PTL DEF StoreSpec
<1> QED BY <1>3, DataRefsAlways, PTL

THEOREM SeenInvAlways ==
    ASSUME ChangesAreBumped, SOAsAtApex, SOAsAtApexAtStart
    PROVE  HistorySpec /\ []SOALeftToBump => []SeenInv
<1>1. HistoryInit => SeenInv
  BY SeenInvInit
<1>2. /\ StoreInv /\ RowsFound /\ DataRefs /\ SeenInv /\ SOALeftToBump
      /\ [HistoryNext]_zoneHistoryVars
      => SeenInv'
  BY SeenInvStep
<1>3. HistorySpec => [](StoreInv /\ RowsFound /\ DataRefs)
  BY HistoryIsStore, StoreFacts, PTL
<1> QED BY <1>1, <1>2, <1>3, PTL DEF HistorySpec

(* Two contents of a zone are never seen under one serial, however many    *)
(* requests and bumps overlap, wherever statements fail or the process     *)
(* dies.                                                                   *)
THEOREM SerialsIdentifyContent ==
    ASSUME ChangesAreBumped, SOAsAtApex, SOAsAtApexAtStart
    PROVE  HistorySpec /\ []SOALeftToBump => []SerialIdentifiesContent
<1>1. SeenInv => SerialIdentifiesContent
  BY DEF SeenInv
<1> QED BY <1>1, SeenInvAlways, PTL

(* A zone never has a serial below one that was seen, though a bump writes *)
(* what it read before others wrote.                                       *)
THEOREM NoSerialFallsBelow ==
    ASSUME ChangesAreBumped, SOAsAtApex, SOAsAtApexAtStart
    PROVE  HistorySpec /\ []SOALeftToBump => []NoSerialBelowPublished
<1>1. SeenInv => NoSerialBelowPublished
  <2> SUFFICES ASSUME SeenInv, NEW p \in published, NEW n \in Serials(p.zone)
               PROVE  n >= p.serial
    BY DEF NoSerialBelowPublished
  <2>1. SerialSeen(p)
    BY DEF SeenInv
  <2> QED BY <2>1, InSerials DEF SerialSeen
<1> QED BY <1>1, SeenInvAlways, PTL

-----------------------------------------------------------------------------
(***************************************************************************)
(* Both without a condition on the behaviour, for requests that do not     *)
(* rewrite an SOA.                                                         *)
(***************************************************************************)

LEMMA SOAsAreLeft ==
    ASSUME StoreInv, SOAsNotRewritten, NoNewSOAs
    PROVE  SOALeftToBump
<1> SUFFICES ASSUME NEW h \in Handlers
             PROVE  /\ pc[h] = "putSet" => rrsets[req[h].set].type # "SOA"
                    /\ pc[h] = "importSets" =>
                          \A k \in DOMAIN req[h].sets : req[h].sets[k].type # "SOA"
  BY DEF SOALeftToBump
<1>1. Ready(pc[h], req[h], local[h])
  BY AtStep DEF StoreInv
<1>2. ASSUME pc[h] = "putSet" PROVE rrsets[req[h].set].type # "SOA"
  <2>1. req[h] \in Requests /\ req[h].op = "updateRRSet"
    BY <1>1, <1>2 DEF Ready
  <2> QED BY <2>1 DEF SOAsNotRewritten, NoNewSOAs
<1>3. ASSUME pc[h] = "importSets"
      PROVE  \A k \in DOMAIN req[h].sets : req[h].sets[k].type # "SOA"
  <2>1. req[h] \in Requests /\ req[h].op = "importZone"
    BY <1>1, <1>3 DEF Ready
  <2> QED BY <2>1 DEF SOAsNotRewritten
<1> QED BY <1>2, <1>3

LEMMA NoNewSOAsStep ==
    ASSUME ChangesAreBumped, SOAsAtApex, SOAsNotRewritten,
           StoreInv, RowsFound, DataRefs, NoNewSOAs, [StoreNext]_storeVars
    PROVE  NoNewSOAs'
<1>1. \/ UNCHANGED <<rrsets, rdata>>
      \/ \E h \in Handlers : Changes(h)
      \/ \E h \in Handlers : WriteSOA(h)
  BY SOAsAreLeft, StepChanges
<1>2. CASE rrsets' = rrsets
  BY <1>2 DEF NoNewSOAs
<1>3. ASSUME NEW h \in Handlers, Changes(h) PROVE NoNewSOAs'
  BY <1>3 DEF Changes, ChangedIn, Rewritten, NoNewSOAs
<1> QED BY <1>1, <1>2, <1>3 DEF WriteSOA

THEOREM SOAsStayLeft ==
    ASSUME ChangesAreBumped, SOAsAtApex, SOAsNotRewritten
    PROVE  HistorySpec => []SOALeftToBump
<1>1. StoreInit => NoNewSOAs
  BY DEF StoreInit, NoNewSOAs
<1>2. StoreInv /\ RowsFound /\ DataRefs /\ NoNewSOAs /\ [StoreNext]_storeVars => NoNewSOAs'
  BY NoNewSOAsStep
<1>3. StoreInv /\ NoNewSOAs => SOALeftToBump
  BY SOAsAreLeft
<1>4. StoreSpec => [](StoreInv /\ RowsFound /\ DataRefs)
  BY StoreFacts
<1>5. StoreSpec => []SOALeftToBump
  BY <1>1, <1>2, <1>3, <1>4, PTL DEF StoreSpec
<1> QED BY <1>5, HistoryIsStore, PTL

(* What is seen under one serial is one content, for requests that leave   *)
(* SOAs alone, whatever happens.                                           *)
THEOREM UneditedSOAsIdentifyContent ==
    ASSUME ChangesAreBumped, SOAsAtApex, SOAsAtApexAtStart, SOAsNotRewritten
    PROVE  HistorySpec => []SerialIdentifiesContent
<1> QED BY SOAsStayLeft, SerialsIdentifyContent, PTL

(* And no serial is below one seen before.                                 *)
THEOREM UneditedSOAsNeverFallBelow ==
    ASSUME ChangesAreBumped, SOAsAtApex, SOAsAtApexAtStart, SOAsNotRewritten
    PROVE  HistorySpec => []NoSerialBelowPublished
<1> QED BY SOAsStayLeft, NoSerialFallsBelow, PTL
=============================================================================
