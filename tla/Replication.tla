---------------------------- MODULE Replication ----------------------------
(***************************************************************************)
(* A slave copies the zones and templates of a master                      *)
(* (internal/replication/sync.go; syncExport and syncImport of             *)
(* internal/server/rest/server.go).  The tables of ZoneStore and Templates *)
(* are the master's, and their handlers go on while it exports.            *)
(*                                                                         *)
(* Export: the zones, their rrsets, the records of those, the templates    *)
(* and their records are read by one query each, in no transaction.        *)
(* Import: the slave's client posts what it got to its own server, which   *)
(* applies it in one transaction.  The client waits 30 seconds for each of *)
(* the two; an import it no longer waits for goes on.                      *)
(*                                                                         *)
(* An rrset of the slave is held together with the records that refer to   *)
(* it: nothing on a slave changes them apart from each other.              *)
(***************************************************************************)
EXTENDS ZoneStore, Templates

CONSTANTS
    InitSlaveZones, InitSlaveSets,  \* the slave's tables before the first sync
    MaxOutages                      \* bound: failures of a sync

\* records: the payloads of all its r_data rows, the deleted ones included
\* when the rrset itself is deleted.
SlaveSet == [zone : Zones, name : Owners, type : Types, ttl : Nat, live : BOOLEAN,
             records : SUBSET Payload]

SlaveTemplate == [name : TemplateNames, description : Contents, records : SUBSET Contents]

ASSUME ReplicationAssumption ==
    /\ InitSlaveZones \in [Zones -> ZoneState]
    /\ \A s \in InitSlaveSets : s \in SlaveSet /\ InitSlaveZones[s.zone] # "absent"
    /\ \A s, u \in InitSlaveSets : HasKey(s, u.zone, u.name, u.type) => s = u
    /\ MaxOutages \in Nat

VARIABLES
    slaveZones,      \* the slave's table zones
    slaveSets,       \* its tables rr_sets and r_data
    slaveTemplates,  \* its templates: one of each name
    sync,            \* the slave's client: how far it is, and what it has got
    posted,          \* imports under way that the client has given up on
    outages          \* failures so far

slave    == <<slaveZones, slaveSets, slaveTemplates>>
master   == <<storeVars, templateVars>>
syncVars == <<slaveZones, slaveSets, slaveTemplates, sync, posted, outages>>
replicationVars == <<storeVars, templateVars, syncVars>>

(***************************************************************************)
(* The data of a sync.  While it is read, sets are known by their numbers  *)
(* (the columns as read, the records not yet).                             *)
(***************************************************************************)
NoData   == [zones |-> {}, sets |-> {}, templates |-> {}]
SyncIdle == [pc |-> "idle", data |-> NoData]

SyncPC == {"idle", "readZones", "readSets", "readData", "readTemplates",
           "readTemplateRecords", "import"}

ReplicationTypeOK ==
    /\ slaveZones \in [Zones -> ZoneState]
    /\ \A s \in slaveSets : s \in SlaveSet /\ slaveZones[s.zone] # "absent"
    /\ \A t \in slaveTemplates : t \in SlaveTemplate
    /\ sync.pc \in SyncPC
    /\ outages \in 0 .. MaxOutages

ReplicationInit ==
    /\ StoreInit
    /\ TemplateInit
    /\ slaveZones = InitSlaveZones
    /\ slaveSets = InitSlaveSets
    /\ slaveTemplates = {}
    /\ sync = SyncIdle
    /\ posted = {}
    /\ outages = 0

-----------------------------------------------------------------------------
(***************************************************************************)
(* Export.                                                                 *)
(***************************************************************************)
SyncTo(step, data) == sync' = [pc |-> step, data |-> data]

\* The initial sync, or the ticker's.
Tick ==
    /\ sync.pc = "idle"
    /\ SyncTo("readZones", NoData)
    /\ UNCHANGED <<master, slave, posted, outages>>

ReadZones ==
    /\ sync.pc = "readZones"
    /\ SyncTo("readSets", [sync.data EXCEPT !.zones = {z \in Zones : zones[z] = "live"}])
    /\ UNCHANGED <<master, slave, posted, outages>>

Columns(s) == [zone |-> rrsets[s].zone, name |-> rrsets[s].name, type |-> rrsets[s].type,
               ttl |-> rrsets[s].ttl]

ReadSets ==
    /\ sync.pc = "readSets"
    /\ SyncTo("readData",
              [sync.data EXCEPT !.sets =
                 {[id |-> s, columns |-> Columns(s)] :
                     s \in {i \in DOMAIN rrsets :
                              rrsets[i].live /\ rrsets[i].zone \in sync.data.zones}}])
    /\ UNCHANGED <<master, slave, posted, outages>>

\* Mutant: deleted records are exported too.
WithRecordsDeleted(s, c) ==
    [zone |-> c.zone, name |-> c.name, type |-> c.type, ttl |-> c.ttl, live |-> TRUE,
     records |-> {rdata[d].payload : d \in {e \in DOMAIN rdata : rdata[e].set = s}}]

WithRecords(s, c) ==
    [zone |-> c.zone, name |-> c.name, type |-> c.type, ttl |-> c.ttl, live |-> TRUE,
     records |-> {rdata[d].payload : d \in LiveData(s)}]

ReadData ==
    /\ sync.pc = "readData"
    /\ SyncTo("readTemplates",
              [sync.data EXCEPT !.sets = {WithRecords(s.id, s.columns) : s \in @}])
    /\ UNCHANGED <<master, slave, posted, outages>>

ReadTemplates ==
    /\ sync.pc = "readTemplates"
    /\ SyncTo("readTemplateRecords",
              [sync.data EXCEPT !.templates =
                 {[id |-> t, name |-> templates[t].name,
                   description |-> templates[t].description] : t \in LiveTemplates}])
    /\ UNCHANGED <<master, slave, posted, outages>>

(***************************************************************************)
(* syncImport takes the templates in the order of their numbers and keeps  *)
(* one of each name: what the last one says is what remains.               *)
(***************************************************************************)
LastOfName(ts) == {t \in ts : \A u \in ts : u.name = t.name => u.id <= t.id}

ReadTemplateRecords ==
    /\ sync.pc = "readTemplateRecords"
    /\ SyncTo("import",
              [sync.data EXCEPT !.templates =
                 {[name |-> t.name, description |-> t.description,
                   records |-> RecordsOf(t.id)] : t \in LastOfName(@)}])
    /\ UNCHANGED <<master, slave, posted, outages>>

-----------------------------------------------------------------------------
(***************************************************************************)
(* Import.                                                                 *)
(***************************************************************************)
(***************************************************************************)
(* A zone that is not found is created, and a deleted one still occupies   *)
(* the index of names.  The records of the zone's live rrsets are removed, *)
(* then all its rrsets, and the foreign key keeps a deleted one that still *)
(* has records.  Either error undoes the whole import.                     *)
(***************************************************************************)
Fits(data) ==
    /\ \A z \in data.zones : slaveZones[z] # "deleted"
    /\ \A s \in slaveSets : s.zone \in data.zones /\ ~s.live => s.records = {}

ImportedZones(data) == [z \in Zones |-> IF z \in data.zones THEN "live" ELSE slaveZones[z]]

ImportedTemplates(data) ==
    {t \in slaveTemplates : \A u \in data.templates : u.name # t.name} \cup data.templates

\* Mutant: zones are expected to be there.
ApplyNoZones(data) ==
    /\ UNCHANGED slaveZones
    /\ slaveSets' = {s \in slaveSets : s.zone \notin data.zones} \cup data.sets
    /\ slaveTemplates' = ImportedTemplates(data)

\* Mutant: the rrsets of the slave are left where they are.
ApplyAdding(data) ==
    /\ slaveZones' = ImportedZones(data)
    /\ slaveSets' = slaveSets \cup data.sets
    /\ slaveTemplates' = ImportedTemplates(data)

\* Mutant: only the rrsets that the data has are replaced.
ApplyUpserting(data) ==
    /\ slaveZones' = ImportedZones(data)
    /\ slaveSets' = {s \in slaveSets : \A u \in data.sets : ~HasKey(s, u.zone, u.name, u.type)}
                        \cup data.sets
    /\ slaveTemplates' = ImportedTemplates(data)

\* Mutant: a template that is there is left as it is.
ApplyNewTemplates(data) ==
    /\ slaveZones' = ImportedZones(data)
    /\ slaveSets' = {s \in slaveSets : s.zone \notin data.zones} \cup data.sets
    /\ slaveTemplates' = slaveTemplates \cup
          {u \in data.templates : \A t \in slaveTemplates : u.name # t.name}

\* Zones and templates the data does not name are left as they are.
Apply(data) ==
    /\ slaveZones' = ImportedZones(data)
    /\ slaveSets' = {s \in slaveSets : s.zone \notin data.zones} \cup data.sets
    /\ slaveTemplates' = ImportedTemplates(data)

SyncImport(data) == IF Fits(data) THEN Apply(data) ELSE UNCHANGED slave

\* The client gets an answer, 200 or 500, and waits for the next tick.
Import ==
    /\ sync.pc = "import"
    /\ SyncImport(sync.data)
    /\ sync' = SyncIdle
    /\ UNCHANGED <<master, posted, outages>>

\* An import the client no longer waits for.
LateImport ==
    /\ \E data \in posted : SyncImport(data) /\ posted' = posted \ {data}
    /\ UNCHANGED <<master, sync, outages>>

-----------------------------------------------------------------------------
(***************************************************************************)
(* Failures.                                                               *)
(***************************************************************************)
Outage == outages < MaxOutages /\ outages' = outages + 1

\* The master does not answer in time, or with an error; or the slave's own
\* server does not take the import.
SyncFails ==
    /\ sync.pc # "idle"
    /\ Outage
    /\ sync' = SyncIdle
    /\ UNCHANGED <<master, slave, posted>>

\* The slave's own server takes more than 30 seconds.
ImportTimesOut ==
    /\ sync.pc = "import"
    /\ Outage
    /\ posted' = posted \cup {sync.data}
    /\ sync' = SyncIdle
    /\ UNCHANGED <<master, slave>>

\* The slave is started again: imports in progress are rolled back.
SlaveRestart ==
    /\ sync.pc # "idle" \/ posted # {}
    /\ Outage
    /\ sync' = SyncIdle
    /\ posted' = {}
    /\ UNCHANGED <<master, slave>>

-----------------------------------------------------------------------------
MasterNext ==
    /\ \/ StoreNext /\ UNCHANGED templateVars
       \/ TemplateNext /\ UNCHANGED storeVars
    /\ UNCHANGED syncVars

SyncNext ==
    \/ Tick \/ ReadZones \/ ReadSets \/ ReadData \/ ReadTemplates \/ ReadTemplateRecords
    \/ Import \/ LateImport

ReplicationNext ==
    \/ MasterNext
    \/ SyncNext
    \/ SyncFails \/ ImportTimesOut \/ SlaveRestart

ReplicationSpec == ReplicationInit /\ [][ReplicationNext]_replicationVars

(***************************************************************************)
(* The ticker goes on ticking, a sync in progress is answered or times out,*)
(* and transactions end.  Nothing is asked of the master's clients.        *)
(***************************************************************************)
SyncFairness ==
    /\ WF_replicationVars(Tick \/ ReadZones \/ ReadSets \/ ReadData \/ ReadTemplates
                             \/ ReadTemplateRecords \/ Import)
    /\ WF_replicationVars(LateImport)

FairReplicationSpec == ReplicationSpec /\ SyncFairness

-----------------------------------------------------------------------------
(***************************************************************************)
(* Properties.                                                             *)
(***************************************************************************)
(* The unique index of the slave's rr_sets: an import never meets it,      *)
(* though rows move from key to key while the master exports, an import    *)
(* that was given up comes after a newer one, and rows of an earlier life  *)
(* as a master are there.                                                  *)
SlaveKeysUnique ==
    \A s, u \in slaveSets : HasKey(s, u.zone, u.name, u.type) => s = u

(* syncExport's queries see the master at different moments.  Still the    *)
(* records of an rrset on the slave are those of one request to the master.*)
SlaveRecordsOfOneRequest ==
    \A s \in slaveSets : {p.data : p \in s.records} \in TextsOfOneRequest

MasterSets(z) ==
    {WithRecords(s, Columns(s)) : s \in {i \in DOMAIN rrsets : rrsets[i].live /\ rrsets[i].zone = z}}

SlaveSets(z) == {s \in slaveSets : s.zone = z}

ZonesSynced ==
    \A z \in Zones : zones[z] = "live" =>
        slaveZones[z] = "live" /\ SlaveSets(z) = MasterSets(z)

TemplatesSynced ==
    \A t \in LiveTemplates :
        (\A u \in LiveTemplates : templates[u].name = templates[t].name => u <= t) =>
            [name |-> templates[t].name, description |-> templates[t].description,
             records |-> RecordsOf(t)] \in slaveTemplates

(* docs/REPLICATION.md:478, "slave always overwrites its data with         *)
(* master's data": when the master is left alone, the slave comes to hold  *)
(* all its zones, rrset for rrset, and its templates, and goes on holding  *)
(* them, though exports are torn, syncs fail, and imports of older data    *)
(* come late.  (A slave that never held data of its own.)                  *)
EventuallySynced == <>[](ZonesSynced /\ TemplatesSynced)
=============================================================================
