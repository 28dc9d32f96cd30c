----------------------------- MODULE ZoneStore -----------------------------
(***************************************************************************)
(* The tables zones, rr_sets and r_data (internal/db/models.go) and the    *)
(* requests that change them: the zone and rrset handlers of the REST API  *)
(* (internal/server/rest/server.go), the zone and record handlers of the   *)
(* web admin (internal/web), and the SOA bump (internal/db/soa.go).        *)
(*                                                                         *)
(* Each request runs in a goroutine of its own, a Handler.  A step is one  *)
(* database statement, or one transaction: the database serialises those   *)
(* and nothing serialises the handlers.                                    *)
(*                                                                         *)
(* Every model has a soft delete: a deleted row stays, with deleted_at     *)
(* set, it still occupies its unique index, and gorm leaves it out of      *)
(* queries.  A zone's row is named by the zone's name, which is unique and *)
(* never updated; the rows of the other two tables are numbered in the     *)
(* order they were created in, and none is ever removed.                   *)
(***************************************************************************)
EXTENDS GeoSelect, Sequences, FiniteSets

CONSTANTS
    Zones,        \* zone names, as stored
    Owners,       \* fully qualified owner names
    Types,        \* rrset types
    Handlers,     \* goroutines that serve REST and web admin requests
    Requests,     \* the requests clients may send
    MaxRequests,  \* bound: requests sent in a behaviour
    MaxFaults,    \* bound: database statements that fail in a behaviour
    DefaultTTL,   \* cfg.DefaultTTL
    WebTTL,       \* the TTL of a web form without a positive one
    AutoSOA,      \* cfg.AutoSOAOnMissing
    Apex,         \* the owner name of a zone's apex
    DefaultSOA,   \* the payload of an SOA made by BumpSOASerialAuto
    SOATTL,       \* and its TTL
    UnixNow,      \* time.Now().Unix(): the serial a bump starts from
    NonNumeric,   \* serial field that is not a number
    TooShort,     \* data of less than seven fields has no serial field
    NoReq,        \* no request
    NoRow,        \* no row read
    InitZones, InitSets, InitData  \* contents of the database at start

ZoneState == {"absent", "live", "deleted"}
SetRow    == [zone : Zones, name : Owners, type : Types, ttl : Nat, live : BOOLEAN]
DataRow   == [set : Nat, payload : Payload, live : BOOLEAN]

(***************************************************************************)
(* What an import brings: rrsets, and the records of each in their order,  *)
(* "of" the rrset at that place.  A JSON export carries the numbers of its *)
(* rows, which the import sends to the database; a number that is not in   *)
(* use there is as good as 0, "the next".                                  *)
(***************************************************************************)
ImportSet    == [id : Nat, name : Owners, type : Types, ttl : Nat]
ImportRecord == [id : Nat, of : Nat, payload : Payload]

TemplateRecord == [name : Owners, type : Types, ttl : Nat, payload : Payload]

RestRequest ==
         [op : {"createZone", "deleteZone"}, zone : Zones]
    \cup [op : {"createRRSet"}, zone : Zones, name : Owners, type : Types,
          ttl : Nat, records : Seq(Payload)]
    \cup [op : {"updateRRSet"}, zone : Zones, set : Nat, name : Owners,
          type : Types, ttl : Nat, records : Seq(Payload)]
    \cup [op : {"deleteRRSet"}, zone : Zones, set : Nat]
    \cup [op : {"importZone"}, zone : Zones, mode : {"upsert", "replace"},
          sets : Seq(ImportSet), records : Seq(ImportRecord)]

WebRequest ==
         [op : {"webCreateZone", "webDeleteZone"}, zone : Zones]
    \cup [op : {"webCreateRecord"}, zone : Zones, name : Owners, type : Types,
          ttl : Nat, payload : Payload]
    \cup [op : {"webDeleteRecord"}, rec : Nat]
    \cup [op : {"webUpdateRecord"}, rec : Nat, set : Nat, ttl : Nat, payload : Payload]
    \cup [op : {"webApplyTemplate"}, zone : Zones, records : Seq(TemplateRecord) \ {<<>>}]

\* An import has one rrset of a key: exports do, and ImportBIND groups records.
WellFormedImport(r) ==
    /\ \A i, j \in DOMAIN r.sets :
          r.sets[i].name = r.sets[j].name /\ r.sets[i].type = r.sets[j].type => i = j
    /\ \A n \in DOMAIN r.records : r.records[n].of \in DOMAIN r.sets
    /\ \A m, n \in DOMAIN r.records :
          m < n => /\ r.records[m].of <= r.records[n].of
                   /\ r.records[m].id = r.records[n].id => r.records[m].id = 0

ASSUME StoreAssumption ==
    /\ {"SOA", "CNAME"} \subseteq Types
    /\ Requests \subseteq RestRequest \cup WebRequest
    /\ \A r \in Requests : r.op = "importZone" => WellFormedImport(r)
    /\ MaxRequests \in Nat /\ MaxFaults \in Nat
    /\ DefaultTTL \in Nat /\ SOATTL \in Nat /\ WebTTL \in Nat \ {0}
    /\ AutoSOA \in BOOLEAN
    /\ Apex \in [Zones -> Owners]
    /\ UnixNow \in Nat /\ NonNumeric \in Int \ Nat /\ TooShort \in Int \ Nat
    /\ DefaultSOA \in Payload /\ DefaultSOA.serial = UnixNow
    /\ NoReq \notin Requests /\ NoRow \notin SetRow \cup Payload
    /\ InitZones \in [Zones -> ZoneState]
    /\ InitSets \in Seq(SetRow)
    /\ InitData \in Seq(DataRow)
    /\ \A i \in DOMAIN InitSets : InitZones[InitSets[i].zone] # "absent"
    /\ \A i, j \in DOMAIN InitSets :
          /\ InitSets[i].zone = InitSets[j].zone
          /\ InitSets[i].name = InitSets[j].name
          /\ InitSets[i].type = InitSets[j].type
          => i = j
    /\ \A i \in DOMAIN InitData : InitData[i].set \in DOMAIN InitSets

VARIABLES
    zones,    \* table zones
    rrsets,   \* table rr_sets
    rdata,    \* table r_data
    pc,       \* handler -> its next statement
    req,      \* handler -> the request it serves
    local,    \* handler -> what it has read and not yet used
    issued,   \* requests sent so far
    faults    \* statements failed so far

tables   == <<zones, rrsets, rdata>>
handlers == <<pc, req, local>>
storeVars == <<zones, rrsets, rdata, pc, req, local, issued, faults>>

(***************************************************************************)
(* set and row: the rrset a bump or a web request found, or the one its    *)
(* record is in, and the columns the request read; soa and text: the SOA   *)
(* record a bump read; at: the record of a template being applied.         *)
(***************************************************************************)
Local   == [set : Nat, row : SetRow \cup {NoRow},
            soa : Nat, text : Payload \cup {NoRow}, at : Nat]
NoLocal == [set |-> 0, row |-> NoRow, soa |-> 0, text |-> NoRow, at |-> 1]

PC == {"idle", "findZone", "createZone", "deleteZone", "checkSet", "insertSet",
       "findSet", "putSet", "deleteSet", "importSets", "readSOA", "readSOAData",
       "createSOA", "writeSOA", "invalidate", "webCreateZone", "webDeleteZone",
       "webFindSet", "webInsertSet", "webInsertData", "webDeleteRecord", "webFindRecord",
       "webSaveRecord", "webReadSet", "webSaveTTL"}

StoreTypeOK ==
    /\ zones \in [Zones -> ZoneState]
    /\ rrsets \in Seq(SetRow)
    /\ rdata \in Seq(DataRow)
    /\ pc \in [Handlers -> PC]
    /\ req \in [Handlers -> Requests \cup {NoReq}]
    /\ local \in [Handlers -> Local]
    /\ issued \in 0 .. MaxRequests
    /\ faults \in 0 .. MaxFaults

StoreInit ==
    /\ zones = InitZones
    /\ rrsets = InitSets
    /\ rdata = InitData
    /\ pc = [h \in Handlers |-> "idle"]
    /\ req = [h \in Handlers |-> NoReq]
    /\ local = [h \in Handlers |-> NoLocal]
    /\ issued = 0
    /\ faults = 0

-----------------------------------------------------------------------------
(***************************************************************************)
(* Rows.                                                                   *)
(***************************************************************************)
HasKey(row, z, n, t) == row.zone = z /\ row.name = n /\ row.type = t

\* Rows the query "zone_id = ? AND name = ? AND type = ?" returns.
LiveSets(z, n, t) ==
    {i \in DOMAIN rrsets : rrsets[i].live /\ HasKey(rrsets[i], z, n, t)}

\* idx_rrset_unique covers deleted rows too.
KeyTaken(z, n, t) == \E i \in DOMAIN rrsets : HasKey(rrsets[i], z, n, t)

LiveData(s) == {i \in DOMAIN rdata : rdata[i].live /\ rdata[i].set = s}

NewSet(z, n, t, ttl) ==
    [zone |-> z, name |-> n, type |-> t, ttl |-> ttl, live |-> TRUE]

NewData(s, records) ==
    [i \in DOMAIN records |-> [set |-> s, payload |-> records[i], live |-> TRUE]]

\* Mutant: PUT adds its records to those that are there.
WithoutDataKept(s) == rdata

\* Soft delete of the records of rrset s.
WithoutData(s) ==
    [i \in DOMAIN rdata |->
        IF rdata[i].set = s THEN [rdata[i] EXCEPT !.live = FALSE] ELSE rdata[i]]

EffectiveTTL(ttl) == IF ttl = 0 THEN DefaultTTL ELSE ttl

Goto(h, next) == pc' = [pc EXCEPT ![h] = next]

\* The handler answers its request, whatever the status code.
Respond(h) ==
    /\ pc' = [pc EXCEPT ![h] = "idle"]
    /\ req' = [req EXCEPT ![h] = NoReq]
    /\ local' = [local EXCEPT ![h] = NoLocal]

Continue(h, next) == Goto(h, next) /\ UNCHANGED <<req, local>>

-----------------------------------------------------------------------------
(***************************************************************************)
(* Requests.                                                               *)
(***************************************************************************)
\* Mutant: a request goes straight to its change.
FirstStepDirect(op) == op

FirstStep(op) ==
    CASE op \in {"createZone", "webCreateZone", "webDeleteZone",
                 "webDeleteRecord"}   -> op
      [] op = "webUpdateRecord"       -> "webFindRecord"
      [] OTHER                        -> "findZone"

Begin(h) ==
    /\ pc[h] = "idle"
    /\ issued < MaxRequests
    /\ issued' = issued + 1
    /\ \E r \in Requests : /\ req' = [req EXCEPT ![h] = r]
                           /\ Goto(h, FirstStep(r.op))
    /\ UNCHANGED <<tables, local, faults>>

\* s.db.First(&z, id): 404 for a zone that is not there (any more).
AfterFindZone(op) ==
    CASE op = "deleteZone"      -> "deleteZone"
      [] op = "createRRSet"     -> "checkSet"
      [] op = "updateRRSet"     -> "findSet"
      [] op = "deleteRRSet"     -> "deleteSet"
      [] op = "importZone"      -> "importSets"
      [] op \in {"webCreateRecord", "webApplyTemplate"} -> "webFindSet"

FindZone(h) ==
    /\ pc[h] = "findZone"
    /\ IF zones[req[h].zone] = "live"
       THEN Continue(h, AfterFindZone(req[h].op))
       ELSE Respond(h)
    /\ UNCHANGED <<tables, issued, faults>>

CreateZone(h) ==
    /\ pc[h] = "createZone"
    /\ IF zones[req[h].zone] = "absent"
       THEN /\ zones' = [zones EXCEPT ![req[h].zone] = "live"]
            /\ Continue(h, "invalidate")
       ELSE Respond(h) /\ UNCHANGED zones
    /\ UNCHANGED <<rrsets, rdata, issued, faults>>

DeletedZone(z) ==
    [zones EXCEPT ![z] = IF @ = "live" THEN "deleted" ELSE @]

\* Mutant: only the zone's row is deleted.
DeleteZoneRowOnly(h) ==
    /\ pc[h] = "deleteZone"
    /\ zones' = DeletedZone(req[h].zone)
    /\ Continue(h, "invalidate")
    /\ UNCHANGED <<rrsets, rdata, issued, faults>>

\* One transaction: the zone's rrsets, then the zone.
DeleteZone(h) ==
    /\ pc[h] = "deleteZone"
    /\ zones' = DeletedZone(req[h].zone)
    /\ rrsets' = [i \in DOMAIN rrsets |->
                    IF rrsets[i].zone = req[h].zone
                    THEN [rrsets[i] EXCEPT !.live = FALSE] ELSE rrsets[i]]
    /\ Continue(h, "invalidate")
    /\ UNCHANGED <<rdata, issued, faults>>

CheckSet(h) ==
    /\ pc[h] = "checkSet"
    /\ IF LiveSets(req[h].zone, req[h].name, req[h].type) = {}
       THEN Continue(h, "insertSet")
       ELSE Respond(h)
    /\ UNCHANGED <<tables, issued, faults>>

\* The rrset and its records are created in one transaction.
InsertSet(h) ==
    /\ pc[h] = "insertSet"
    /\ LET r == req[h] IN
       IF KeyTaken(r.zone, r.name, r.type)
       THEN Respond(h) /\ UNCHANGED <<rrsets, rdata>>
       ELSE /\ rrsets' = Append(rrsets, NewSet(r.zone, r.name, r.type,
                                               EffectiveTTL(r.ttl)))
            /\ rdata' = rdata \o NewData(Len(rrsets) + 1, r.records)
            /\ Continue(h, "readSOA")
    /\ UNCHANGED <<zones, issued, faults>>

\* Mutant: a deleted rrset is found too.
FindSetDeleted(h) ==
    /\ pc[h] = "findSet"
    /\ IF /\ req[h].set \in DOMAIN rrsets
          /\ rrsets[req[h].set].zone = req[h].zone
       THEN Continue(h, "putSet")
       ELSE Respond(h)
    /\ UNCHANGED <<tables, issued, faults>>

FindSet(h) ==
    /\ pc[h] = "findSet"
    /\ IF /\ req[h].set \in DOMAIN rrsets
          /\ rrsets[req[h].set].live
          /\ rrsets[req[h].set].zone = req[h].zone
       THEN Continue(h, "putSet")
       ELSE Respond(h)
    /\ UNCHANGED <<tables, issued, faults>>

(***************************************************************************)
(* One transaction: the records are deleted, the row is saved with every   *)
(* column, the new records are created.  Save writes a row that was        *)
(* deleted since it was read back as a live one: the UPDATE, which skips   *)
(* deleted rows, touches none, and gorm then inserts the row with an ON    *)
(* CONFLICT clause that sets all columns, deleted_at among them.           *)
(***************************************************************************)
PutSet(h) ==
    /\ pc[h] = "putSet"
    /\ LET r == req[h] IN
       IF \E i \in DOMAIN rrsets \ {r.set} : HasKey(rrsets[i], r.zone, r.name, r.type)
       THEN Respond(h) /\ UNCHANGED <<rrsets, rdata>>
       ELSE /\ rrsets' = [rrsets EXCEPT ![r.set] =
                            NewSet(r.zone, r.name, r.type, EffectiveTTL(r.ttl))]
            /\ rdata' = WithoutData(r.set) \o NewData(r.set, r.records)
            /\ Continue(h, "readSOA")
    /\ UNCHANGED <<zones, issued, faults>>

\* Mutant: DELETE forgets the serial.
DeleteSetNoBump(h) ==
    /\ pc[h] = "deleteSet"
    /\ rrsets' = [i \in DOMAIN rrsets |->
                    IF i = req[h].set /\ rrsets[i].zone = req[h].zone
                    THEN [rrsets[i] EXCEPT !.live = FALSE] ELSE rrsets[i]]
    /\ Continue(h, "invalidate")
    /\ UNCHANGED <<zones, rdata, issued, faults>>

\* Only the rrset's row; deleting what is not there is no error.
DeleteSet(h) ==
    /\ pc[h] = "deleteSet"
    /\ rrsets' = [i \in DOMAIN rrsets |->
                    IF i = req[h].set /\ rrsets[i].zone = req[h].zone
                    THEN [rrsets[i] EXCEPT !.live = FALSE] ELSE rrsets[i]]
    /\ Continue(h, "readSOA")
    /\ UNCHANGED <<zones, rdata, issued, faults>>

-----------------------------------------------------------------------------
(***************************************************************************)
(* importZone: ImportJSON and ImportBIND, each one transaction.  Mode      *)
(* replace first deletes the zone's rrsets, and leaves their records.      *)
(* Then each rrset of the import updates the live one of its key, whose    *)
(* records it deletes, or is created.  A record is inserted, and where its *)
(* number is in use gorm only points that row at the rrset, whether the    *)
(* row is deleted or not and whatever the record says.                     *)
(***************************************************************************)
Updated(r, k) ==
    IF r.mode = "replace" THEN {} ELSE LiveSets(r.zone, r.sets[k].name, r.sets[k].type)

Created(r) == {k \in DOMAIN r.sets : Updated(r, k) = {}}

Inserted(r) == {n \in DOMAIN r.records : r.records[n].id \notin DOMAIN rdata}

\* A row that is deleted occupies its key, and any row its number.
Importable(r) ==
    \A k \in Created(r) : /\ ~KeyTaken(r.zone, r.sets[k].name, r.sets[k].type)
                          /\ r.sets[k].id \notin DOMAIN rrsets

\* New rows are numbered in the order of the import: the numbers of S, ascending.
InOrder(S) ==
    [i \in 1 .. Cardinality(S) |-> CHOOSE k \in S : Cardinality({j \in S : j <= k}) = i]

\* The rrset that set k of the import has become, the created ones numbered by f.
SetNumber(r, f, k) ==
    IF k \in Created(r)
    THEN Len(rrsets) + CHOOSE i \in DOMAIN f : f[i] = k
    ELSE CHOOSE s \in Updated(r, k) : TRUE

ImportedRow(r, i) ==
    CASE r.mode = "replace" /\ rrsets[i].zone = r.zone -> [rrsets[i] EXCEPT !.live = FALSE]
      [] \E k \in DOMAIN r.sets : i \in Updated(r, k)
            -> [rrsets[i] EXCEPT !.ttl =
                  EffectiveTTL(r.sets[CHOOSE k \in DOMAIN r.sets : i \in Updated(r, k)].ttl)]
      [] OTHER -> rrsets[i]

ImportedSets(r, f) ==
    [i \in DOMAIN rrsets |-> ImportedRow(r, i)]
    \o [i \in DOMAIN f |-> NewSet(r.zone, r.sets[f[i]].name, r.sets[f[i]].type,
                                  EffectiveTTL(r.sets[f[i]].ttl))]

\* Records of the import that name row d: one at most.
Naming(r, d) == {n \in DOMAIN r.records : r.records[n].id = d}

\* Mutant: records stay when their rrset is updated.
DroppedNever(r, d) == FALSE

\* Row d is deleted with the records of its rrset, unless an earlier rrset of
\* the import has taken it away.
Dropped(r, d) ==
    \E k \in DOMAIN r.sets : /\ rdata[d].set \in Updated(r, k)
                             /\ \A n \in Naming(r, d) : k <= r.records[n].of

ImportedData(r, f, g) ==
    [d \in DOMAIN rdata |->
        [rdata[d] EXCEPT
            !.live = @ /\ ~Dropped(r, d),
            !.set  = IF Naming(r, d) = {} THEN @
                     ELSE SetNumber(r, f, r.records[CHOOSE n \in Naming(r, d) : TRUE].of)]]
    \o [i \in DOMAIN g |-> [set |-> SetNumber(r, f, r.records[g[i]].of),
                            payload |-> r.records[g[i]].payload, live |-> TRUE]]

ImportSets(h) ==
    /\ pc[h] = "importSets"
    /\ LET r == req[h]
           f == InOrder(Created(r))
       IN
       IF Importable(r)
       THEN /\ rrsets' = ImportedSets(r, f)
            /\ rdata' = ImportedData(r, f, InOrder(Inserted(r)))
            /\ Continue(h, "readSOA")
       ELSE Respond(h) /\ UNCHANGED <<rrsets, rdata>>
    /\ UNCHANGED <<zones, issued, faults>>

-----------------------------------------------------------------------------
(***************************************************************************)
(* BumpSOASerialAuto, and BumpSOASerial for deleteRRSet: an SOA rrset is   *)
(* read, then its records, then one of them is written, in three           *)
(* statements.  Any of the zone's SOA rrsets and any of its records may be *)
(* the one the database puts first.                                        *)
(***************************************************************************)
SOASets(z) == {i \in DOMAIN rrsets : rrsets[i].live /\ rrsets[i].zone = z
                                        /\ rrsets[i].type = "SOA"}

\* Mutant: every bump starts from the clock.
BumpedFromClock(serial) == UnixNow

Bumped(serial) == IF serial = NonNumeric THEN UnixNow ELSE serial + 1

AutoCreates(op) == AutoSOA /\ op # "deleteRRSet"

WithoutSOA(h) == IF AutoCreates(req[h].op) THEN "createSOA" ELSE "invalidate"

ReadSOA(h) ==
    /\ pc[h] = "readSOA"
    /\ IF SOASets(req[h].zone) = {}
       THEN Continue(h, WithoutSOA(h))
       ELSE \E s \in SOASets(req[h].zone) : /\ local' = [local EXCEPT ![h].set = s]
                                            /\ Goto(h, "readSOAData")
                                            /\ UNCHANGED req
    /\ UNCHANGED <<tables, issued, faults>>

ReadSOAData(h) ==
    /\ pc[h] = "readSOAData"
    /\ IF LiveData(local[h].set) = {}
       THEN Continue(h, WithoutSOA(h))
       ELSE \E d \in LiveData(local[h].set) :
               IF rdata[d].payload.serial = TooShort
               THEN Continue(h, "invalidate")
               ELSE /\ local' = [local EXCEPT ![h].soa = d,
                                              ![h].text = rdata[d].payload]
                    /\ Goto(h, "writeSOA")
                    /\ UNCHANGED req
    /\ UNCHANGED <<tables, issued, faults>>

\* The error of a Create that meets the unique index is dropped.
CreateSOA(h) ==
    /\ pc[h] = "createSOA"
    /\ LET z == req[h].zone IN
       IF KeyTaken(z, Apex[z], "SOA")
       THEN UNCHANGED <<rrsets, rdata>>
       ELSE /\ rrsets' = Append(rrsets, NewSet(z, Apex[z], "SOA", SOATTL))
            /\ rdata' = rdata \o NewData(Len(rrsets) + 1, <<DefaultSOA>>)
    /\ Continue(h, "invalidate")
    /\ UNCHANGED <<zones, issued, faults>>

\* UPDATE ... WHERE id = ? skips a record deleted since it was read.
WriteSOA(h) ==
    /\ pc[h] = "writeSOA"
    /\ rdata' = [rdata EXCEPT ![local[h].soa] =
                   IF @.live
                   THEN [@ EXCEPT !.payload.data = local[h].text.data,
                                  !.payload.serial = Bumped(local[h].text.serial)]
                   ELSE @]
    /\ Continue(h, "invalidate")
    /\ UNCHANGED <<zones, rrsets, issued, faults>>

\* dnsServer.InvalidateZoneCache and the response.  The caches are the
\* resolver's; here the handler is done.
Invalidate(h) ==
    /\ pc[h] = "invalidate"
    /\ Respond(h)
    /\ UNCHANGED <<tables, issued, faults>>

-----------------------------------------------------------------------------
(***************************************************************************)
(* The web admin.  It neither bumps the SOA nor invalidates a cache.       *)
(***************************************************************************)
WebCreateZone(h) ==
    /\ pc[h] = "webCreateZone"
    /\ zones' = [zones EXCEPT ![req[h].zone] = IF @ = "absent" THEN "live" ELSE @]
    /\ Respond(h)
    /\ UNCHANGED <<rrsets, rdata, issued, faults>>

\* Only the zone's row: its rrsets stay live.
WebDeleteZone(h) ==
    /\ pc[h] = "webDeleteZone"
    /\ zones' = DeletedZone(req[h].zone)
    /\ Respond(h)
    /\ UNCHANGED <<rrsets, rdata, issued, faults>>

(***************************************************************************)
(* createRecord finds the rrset or creates it, then creates the record.    *)
(* applyTemplate does so for each record of a template, as it read them,   *)
(* and passes over what fails.                                             *)
(***************************************************************************)
WebTTLOf(ttl) == IF ttl = 0 THEN WebTTL ELSE ttl

Wanted(r, l) ==
    IF r.op = "webApplyTemplate"
    THEN r.records[l.at]
    ELSE [name |-> r.name, type |-> r.type, ttl |-> WebTTLOf(r.ttl), payload |-> r.payload]

NextRecord(h) ==
    IF req[h].op = "webApplyTemplate" /\ local[h].at < Len(req[h].records)
    THEN /\ local' = [local EXCEPT ![h].at = @ + 1]
         /\ Goto(h, "webFindSet")
         /\ UNCHANGED req
    ELSE Respond(h)

WebFindSet(h) ==
    /\ pc[h] = "webFindSet"
    /\ LET w     == Wanted(req[h], local[h])
           found == LiveSets(req[h].zone, w.name, w.type) IN
       IF found = {}
       THEN Continue(h, "webInsertSet")
       ELSE \E s \in found : /\ local' = [local EXCEPT ![h].set = s]
                             /\ Goto(h, "webInsertData")
                             /\ UNCHANGED req
    /\ UNCHANGED <<tables, issued, faults>>

WebInsertSet(h) ==
    /\ pc[h] = "webInsertSet"
    /\ LET z == req[h].zone
           w == Wanted(req[h], local[h]) IN
       IF KeyTaken(z, w.name, w.type)
       THEN NextRecord(h) /\ UNCHANGED rrsets
       ELSE /\ rrsets' = Append(rrsets, NewSet(z, w.name, w.type, w.ttl))
            /\ local' = [local EXCEPT ![h].set = Len(rrsets) + 1]
            /\ Goto(h, "webInsertData")
            /\ UNCHANGED req
    /\ UNCHANGED <<zones, rdata, issued, faults>>

WebInsertData(h) ==
    /\ pc[h] = "webInsertData"
    /\ rdata' = rdata \o NewData(local[h].set, <<Wanted(req[h], local[h]).payload>>)
    /\ NextRecord(h)
    /\ UNCHANGED <<zones, rrsets, issued, faults>>

WebDeleteRecord(h) ==
    /\ pc[h] = "webDeleteRecord"
    /\ rdata' = [i \in DOMAIN rdata |->
                    IF i = req[h].rec THEN [rdata[i] EXCEPT !.live = FALSE]
                                      ELSE rdata[i]]
    /\ Respond(h)
    /\ UNCHANGED <<zones, rrsets, issued, faults>>

\* updateRecord saves the record, then the TTL of the rrset the form names.
\* Both saves bring back a row deleted since it was read (see PutSet).
WebFindRecord(h) ==
    /\ pc[h] = "webFindRecord"
    /\ IF req[h].rec \in DOMAIN rdata /\ rdata[req[h].rec].live
       THEN /\ local' = [local EXCEPT ![h].set = rdata[req[h].rec].set]
            /\ Goto(h, "webSaveRecord")
            /\ UNCHANGED req
       ELSE Respond(h)
    /\ UNCHANGED <<tables, issued, faults>>

\* rr_set_id is written back as it was read.
WebSaveRecord(h) ==
    /\ pc[h] = "webSaveRecord"
    /\ rdata' = [rdata EXCEPT ![req[h].rec] =
                   [set |-> local[h].set, payload |-> req[h].payload, live |-> TRUE]]
    /\ Continue(h, "webReadSet")
    /\ UNCHANGED <<zones, rrsets, issued, faults>>

WebReadSet(h) ==
    /\ pc[h] = "webReadSet"
    /\ LET s == req[h].set IN
       IF s \in DOMAIN rrsets /\ rrsets[s].live
             /\ rrsets[s].ttl # WebTTLOf(req[h].ttl)
       THEN /\ local' = [local EXCEPT ![h].set = s, ![h].row = rrsets[s]]
            /\ Goto(h, "webSaveTTL")
            /\ UNCHANGED req
       ELSE Respond(h)
    /\ UNCHANGED <<tables, issued, faults>>

\* Every column is written back as it was read, the new TTL excepted.
WebSaveTTL(h) ==
    /\ pc[h] = "webSaveTTL"
    /\ LET s == local[h].set
           row == local[h].row IN
       IF \E i \in DOMAIN rrsets \ {s} : HasKey(rrsets[i], row.zone, row.name, row.type)
       THEN UNCHANGED rrsets
       ELSE rrsets' = [rrsets EXCEPT ![s] =
                         NewSet(row.zone, row.name, row.type, WebTTLOf(req[h].ttl))]
    /\ Respond(h)
    /\ UNCHANGED <<zones, rdata, issued, faults>>

-----------------------------------------------------------------------------
(***************************************************************************)
(* Failures.  A statement that fails changes nothing; the handler answers  *)
(* with an error, except that the bump ignores errors, that a search for   *)
(* an rrset takes any error for "not found", and that a template passes    *)
(* over what it cannot create.                                             *)
(***************************************************************************)
AfterFault(step) ==
    CASE step \in {"readSOA", "readSOAData", "createSOA", "writeSOA"} -> "invalidate"
      [] step = "webFindSet" -> "webInsertSet"
      [] step \in {"webInsertSet", "webInsertData"} -> "nextRecord"
      [] OTHER               -> "idle"

StatementFails(h) ==
    /\ pc[h] \notin {"idle", "invalidate"}
    /\ faults < MaxFaults
    /\ faults' = faults + 1
    /\ CASE AfterFault(pc[h]) = "idle"       -> Respond(h)
         [] AfterFault(pc[h]) = "nextRecord" -> NextRecord(h)
         [] OTHER                            -> Continue(h, AfterFault(pc[h]))
    /\ UNCHANGED <<tables, issued>>

\* The process dies and is started again: what was committed is kept, the
\* requests in progress are lost wherever they were.
RestartHandlers ==
    /\ faults < MaxFaults
    /\ faults' = faults + 1
    /\ pc' = [h \in Handlers |-> "idle"]
    /\ req' = [h \in Handlers |-> NoReq]
    /\ local' = [h \in Handlers |-> NoLocal]
    /\ UNCHANGED <<tables, issued>>

-----------------------------------------------------------------------------
RestStep(h) ==
    \/ FindZone(h) \/ CreateZone(h) \/ DeleteZone(h)
    \/ CheckSet(h) \/ InsertSet(h) \/ FindSet(h) \/ PutSet(h) \/ DeleteSet(h)
    \/ ImportSets(h)
    \/ ReadSOA(h) \/ ReadSOAData(h) \/ CreateSOA(h) \/ WriteSOA(h)

WebStep(h) ==
    \/ WebCreateZone(h) \/ WebDeleteZone(h)
    \/ WebFindSet(h) \/ WebInsertSet(h) \/ WebInsertData(h)
    \/ WebDeleteRecord(h)
    \/ WebFindRecord(h) \/ WebSaveRecord(h) \/ WebReadSet(h) \/ WebSaveTTL(h)

StoreNext ==
    \/ \E h \in Handlers : \/ Begin(h)
                           \/ RestStep(h)
                           \/ WebStep(h)
                           \/ Invalidate(h)
                           \/ StatementFails(h)
    \/ RestartHandlers

StoreSpec == StoreInit /\ [][StoreNext]_storeVars

-----------------------------------------------------------------------------
(***************************************************************************)
(* Properties.                                                             *)
(***************************************************************************)

\* The data of an rrset's records, and what the requests bring.
Texts(s) == {rdata[d].payload.data : d \in LiveData(s)}

RequestTexts ==
    {{r.records[k].data : k \in DOMAIN r.records} :
        r \in {q \in Requests : q.op \in {"createRRSet", "updateRRSet"}}}

ImportTexts(r, k) ==
    {r.records[n].payload.data : n \in {m \in DOMAIN r.records : r.records[m].of = k}}

ImportedTexts ==
    UNION {{ImportTexts(r, k) : k \in DOMAIN r.sets} :
             r \in {q \in Requests : q.op = "importZone"}}

WebTexts ==
    {r.payload.data : r \in {q \in Requests : q.op \in {"webCreateRecord", "webUpdateRecord"}}}
    \cup UNION {{r.records[k].payload.data : k \in DOMAIN r.records} :
                  r \in {q \in Requests : q.op = "webApplyTemplate"}}

InitialTexts ==
    {{InitData[d].payload.data : d \in {e \in DOMAIN InitData :
                                          InitData[e].live /\ InitData[e].set = s}} :
        s \in DOMAIN InitSets}

TextsOfOneRequest ==
    RequestTexts \cup ImportedTexts \cup InitialTexts \cup {{DefaultSOA.data}}

\* But for what the web admin adds, the texts D come from one request.
FromOneRequest(D) == \E T \in TextsOfOneRequest : D \ WebTexts \subseteq T

(* The records of an rrset are those of one request, however POST, PUT,    *)
(* DELETE and imports interleave: no two of them mix, though each finds    *)
(* the rrset before it replaces the records.  Besides, the web admin adds  *)
(* and changes records one by one.  (The serial, which the bump rewrites,  *)
(* is left out.)  ZoneStoreProofs names what clients must not do for it to *)
(* hold with any requests and any number of handlers.                      *)
RecordsOfOneRequest ==
    \A s \in DOMAIN rrsets : rrsets[s].live => FromOneRequest(Texts(s))

(* docs/BACKUP.md:25, upsert: "Add new records and update existing ones";  *)
(* docs/BACKUP.md:26, replace: "Delete all existing records and import new *)
(* ones".  When an import has been through its transaction, the rrsets it  *)
(* brings are there with the records it brings, and after a replacement    *)
(* there is nothing else in the zone.                                      *)
ImportedAsGiven(r) ==
    /\ \A k \in DOMAIN r.sets :
          \E s \in LiveSets(r.zone, r.sets[k].name, r.sets[k].type) :
              Texts(s) = ImportTexts(r, k)
    /\ r.mode = "replace" =>
          Cardinality({i \in DOMAIN rrsets : rrsets[i].live /\ rrsets[i].zone = r.zone})
              = Len(r.sets)

ImportsTakeEffect ==
    [][\A h \in Handlers, r \in Requests :
          pc[h] = "importSets" /\ req[h] = r /\ pc'[h] # "importSets"
              => ImportedAsGiven(r)']_storeVars
=============================================================================
