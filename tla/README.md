# namedot: models and proofs

namedot is an authoritative DNS server with a SQL database behind it, an
admin REST API, a web admin, geographic answers and master/slave replication.
This directory holds TLA+ models of it, the TLC configurations that check them
on small instances and TLAPS proofs for the general case. Every definition is
read off the Go source; `PROJECT.json` names the lines each one stands for.

## The system

| Component | Source | State | Operations | What is hard |
|---|---|---|---|---|
| DNS server | `internal/server/dns/server.go` | the two caches | `serveDNS`, `lookup`, `InvalidateZoneCache` | one goroutine per question; three to four statements per lookup while requests change the rows; errors and "no zone" are one case |
| Zone cache | `internal/server/dns/zone_cache.go` | list of zones, time it was set | `Get`, `Set`, `Invalidate` | fill after invalidation |
| Answer cache | `internal/cache/cache.go` | map with expiry | `Get`, `Set` | two critical sections in `Get`, arbitrary eviction, nobody invalidates it |
| Geographic selection | `server.go`, `selectGeoRecords` | none | five buckets with `continue` | order of tests, empty buckets |
| REST: zones, rrsets | `internal/server/rest/server.go` | database rows | create, delete, PUT/PATCH | statements of two handlers interleave; soft delete and unique index |
| REST: zone import/export | `rest/server.go`, `rest/zoneio` | database rows | JSON and BIND, upsert and replace | replace meets the keys of deleted rows; records come with the numbers of rows |
| SOA serials | `internal/db/soa.go` | SOA record | `BumpSOASerial`, `BumpSOASerialAuto` | read and write in separate statements, errors dropped |
| Database | `internal/db/models.go`, `open.go` | tables | soft delete, unique indexes, cascades | deleted rows occupy their keys |
| Web admin: zones, records | `internal/web/zones.go`, `records*.go` | database rows | find-or-create, save | writes back columns read earlier; no bump, no invalidation |
| Web admin: templates | `internal/web/templates_handlers.go` | database rows | templates, `applyTemplate` | one row at a time, no transaction |
| Web admin: sessions | `internal/web/admin.go` | map of sessions, CSRF tokens | login, logout, two middlewares | map shared without a lock |
| Replication | `internal/replication/sync.go`, `rest/server.go` sync handlers | slave's database | export, import, periodic sync | timeouts, overlapping imports, deletions |
| GeoIP databases | `internal/geoip/geoip.go` | readers | load, reload, download, `Lookup` | readers closed while a load fails |
| Backup | `internal/db/backup.go` | database rows | `ExportZones`, `ImportZones` | three queries beside a running server; merge and replace meet the keys of deleted rows |
| Process | `cmd/namedot/main.go`, `Start` and `Shutdown` of both servers | goroutines, listeners | start, shutdown | order of shutdown, a signal before the start is over, `log.Fatalf` in any goroutine |
| TLS certificate | `internal/server/rest/tls.go` | certificate in use | load, reload, stop | two files, replaced one after the other |
| Configuration, access list, translations | `internal/config`, `rest/ipacl.go`, `web/i18n.go` | settings read once | lookups | nothing that depends on order |

They interact through the database (all of them), through
`InvalidateZoneCache` (REST calls it after a change, the web admin does not)
and, master to slave, over HTTP.

### What makes each one correct

* Database: no row moves to another zone; a zone that REST deleted, and the key
  of a deleted rrset, stay deleted, but for what requests write that had found
  them before.
* Serials: two contents of a zone that are seen have two serials, and none is
  below one seen before, however bumps overlap.
* REST: the records of an rrset are those of one request.
* Answer cache: it stays within its capacity and no entry outlives its TTL.
* DNS server: an answer comes from a zone that covers the name; a lookup with
  an old list of zones passes over a zone deleted since; once changes stop,
  every message comes to agree with the database.
* Imports and templates: what they bring never mixes with the records of
  another request; an import does what it answers.
* Backup: an rrset in a backup has the records of one request; a replacement
  leaves exactly what the backup holds; a merge brings all of the backup and
  disturbs nothing else, or nothing.
* Replication: a slave shows at any time a copy of moments of the master's
  past (`AbstractSlave`), and rrsets with the records of one request; when the
  master is left alone the slave comes to hold what is live there.
* Sessions: a request that comes after its session was ended is not served.
* Process: it serves on all its addresses or ends; a signal ends it; a clean
  exit has waited for the requests in progress, for as long as it may; a
  certificate that has been installed comes into use.
* GeoIP databases: a closed reader is replaced by a load under way; in the end
  lookups find open readers of the newest files.
* Selection: the records of the best rank any record reaches, and all of them.

## Modules

| Module | Models | Notes |
|---|---|---|
| `GeoSelect` | `selectGeoRecords` | `Select` is the loop's buckets, `Targeted` the declarative reference |
| `ZoneStore` | tables `zones`, `rr_sets`, `r_data`; REST, import and web handlers, `applyTemplate`; SOA bump | base of `Deletions`, `ZoneHistory`, `Resolver`, `Replication` and `Backup` |
| `Deletions` | what was deleted, and what requests write that found it before | history variables beside `ZoneStore` |
| `ZoneHistory` | what others have seen of a zone: serials with the contents they stood for | history variables beside `ZoneStore` |
| `TTLCache` | `internal/cache` | operators on a function from keys to entries |
| `Resolver` | DNS server, both caches, over `ZoneStore` | composes `GeoSelect`, `ZoneStore` and `TTLCache` |
| `ResolverHistory` | the DNS server beside the deletions it must see | composes `Resolver` and `Deletions` |
| `Templates` | tables `templates`, `template_records`; their web handlers | |
| `Replication` | export, import and the slave's client | composes `ZoneStore` and `Templates` (the master) with a slave |
| `AbstractSlave`, `ReplicationHistory` | what a slave promises; `Replication` with the master's past, and the refinement mapping | |
| `Backup` | `ExportZones` and `ImportZones` | a process beside the handlers of `ZoneStore` |
| `GeoProvider` | `internal/geoip`: loads, downloads, lookups | independent of the others |
| `Sessions` | sessions of the web admin, its middlewares | |
| `Process`, `ProcessHistory` | start, listeners, shutdown, certificate, over `Sessions`; the sessions that were ended | |
| `MCGeoSelect`, `MCZoneStore`, `MCZoneHistory`, `MCBackup`, `MCResolver`, `MCReplication`, `MCGeoProvider`, `MCProcess` | instances for TLC | requests, payloads and initial rows of each run |
| `GeoSelectProofs`, `ZoneStoreProofs`, `ResolverProofs`, `ZoneHistoryProofs`, `ReplicationProofs`, `ProcessProofs`, `BackupProofs`, `GeoProviderProofs` | proofs | |

### ZoneStore

A *handler* is a goroutine serving one request. `pc[h]` names its next
database statement, `req[h]` its request, `local[h]` what it has read and not
yet used. A step is one statement, or one transaction where the code opens
one. That a transaction is one step assumes a database that serialises
transactions: SQLite does; PostgreSQL and MySQL at the isolation level
`open.go` leaves them at may let the statements of two overlap, which is not
modelled (two PUTs of one rrset might then both keep their records).
`FindZone`, `CheckSet`, `InsertSet`, ...
are the statements of `createRRSet`, `updateRRSet`, `deleteRRSet`,
`createZone`, `deleteZone` in the order of the code; `ReadSOA`, `ReadSOAData`,
`CreateSOA`, `WriteSOA` are the bump that POST, PUT and DELETE of an rrset end
with; `Invalidate` is the call into the DNS server and the response. `Web...`
are the statements of the web handlers. `StatementFails` is any statement
returning an error, with what the code does then (the bump ignores errors,
`createRecord` takes any error for "not found"); `RestartHandlers` is a crash
between any two statements.

Two saves write back a whole row that an earlier statement read: PUT the rrset
(`PutSet`), and the web form the rrset for its TTL (`WebSaveTTL`) and the
record (`WebSaveRecord`). `local[h]` holds what was read, so a save undoes what
others did in between: a key that changed, a deletion, and, by the record's
`set`, an import that moved the record to another rrset.

A zone import (`ImportSets`) is the one transaction of `ImportJSON` or
`ImportBIND`, and then the bump. Rrsets that exist are updated, others are
created, which fails as a whole on the key of a deleted row (`Importable`).
`InOrder` gives the records their row numbers: those of a JSON export come
with the request, and gorm's association insert then points the row of that
number at the rrset (ON CONFLICT DO UPDATE of the foreign key) and inserts
nothing. The template form (`NextRecord`) looks up, creates and saves record
by record, in no transaction, and passes over what it cannot create.

Soft delete follows gorm: a deleted row keeps its unique key; queries skip it;
`Save` of a row deleted since it was read brings it back (its UPDATE touches
no row and gorm then inserts with ON CONFLICT DO UPDATE of all columns). That
is behaviour of the library the code relies on, and the only thing in the
module not read off `src/`.

Abstracted: names are model values, as `fqdn`/`toFQDN` leave them (lower case,
trailing dot, relative names completed: the web form may name a record outside
its zone, hence `Owners` is not tied to the zone); an rrset's records are
payloads; the serial field of an SOA text is a number, `NonNumeric` or
`TooShort` (fewer than seven fields). `deleteRRSet` leaves the records live,
as the code does.

### Deletions

A request looks at its zone or rrset in one statement and writes in a later
one; `deleteZone` and the deletions of rrsets do not wait for it.
`deletedZones` and `deletedSets` remember what was deleted, `late` the handlers
that had found it then and are still to write (`Adds`, `Saves`), and
`leftovers` the live rrsets such handlers wrote. `DeletedStaysDeleted` says
that nothing else is ever live in a deleted zone or under a deleted key: not
by later requests, by failures or by the save of a row read earlier. So it
neither hides the rrsets that overlapping requests do leave behind nor asks
that requests keep apart. Zones deleted in the web admin are not in
`deletedZones`, since their rrsets are not deleted with them.

### ZoneHistory

`published` has, of each zone, the serial and the content (live rrsets but the
SOA's, with the texts of their records) whenever no request that changes the
zone is between its change and the end of its bump: what a secondary server
that asks then goes by. While a request is there it may see a change before
its serial, which is what three statements without a transaction mean. A
failed statement or a restart may leave a zone without the bump of its last
change; `unbumped` has such zones until another bump is written.

### Resolver

`query[p]` is a question: `Receive` (Get under the read lock), `Purge` (Get's
second critical section), `GetZones`/`FetchZones`/`FillZones` (zone cache and
its fill), `ReadSet`, `ReadRecords`, `CnameSet`, `CnameRecords` (the
statements of `lookup`), `Miss` (forwarder, NXDOMAIN) and `StoreAnswer`. Every
question carries the data read at earlier steps, so stale reads are explicit.
`InvalidateZoneCache` joins `Invalidate` of the store with the clearing of the
zone cache. Time is a `Tick` that ages both caches: an entry carries the ticks
it has left, so no absolute clock is needed and the state space stays finite
with unbounded time. Suffix matching is the constant `Under` with `NameLen`
for "longest first"; the matching of strings itself is not modelled.

`ResolverHistory` adds the variables of `Deletions`, so that
`LookupsPassOverDeleted` can tell a lookup that finds an rrset of a deleted
zone from one that finds what a late request left there.

### Templates and Replication

The master of `Replication` is the whole of `ZoneStore` and `Templates`, so
its handlers take their steps between the queries of an export: `ReadZones`,
`ReadSets`, `ReadData` are the three queries of `Preload("RRSets.Records")`,
`ReadTemplates` and `ReadTemplateRecords` the two of the templates. `sync` is
the slave's client: how far its sync is and the data it has got. `Import` is
the transaction of `syncImport`: `Fits` is the condition under which none of
its statements fails, `Apply` what it does then; otherwise all is rolled back.
`ImportTimesOut` lets the client go on after 30 seconds while the import stays
in `posted`, and `LateImport` applies it at any later moment. `SyncFails` is
any error of either request, `SlaveRestart` a crash of the slave.

`ReplicationHistory` adds `past`, what the master's zones have shown moment by
moment, and maps the slave's rows to `AbstractSlave`: what the slave shows of
a zone are its live rrsets with their TTLs. In the abstract slave a step takes
any of its zones to one moment of the past, together; that covers a partial
import, a late one that takes the slave back, and the rollback that changes
nothing. Records are left out of the mapping: they are read by a later query
than the rrsets, and `SlaveRecordsOfOneRequest` speaks of them.

The rows of the slave are sets of rrsets with their records: nothing on a
slave changes one without the other, ids are never carried over, and two
records alike are one. `data.zones` names the zones of an export, so that a
zone without rrsets is emptied as well.

### GeoProvider

A reader has a number, because two slots can share one; `reader[n]` is the
version of the file it has open, or `Closed`. `at[l]` is how far the loader
`l` is (the goroutine that calls `NewFromPath`, that of the reload timer, that
of the download timer), in the steps of `load`: `Copy` of the four slots,
`Close` of what they hold, `List`, then `Open` and `Store` file by file,
`Check`, `Take` and `Fill` of the fallbacks, `Loaded`. A lookup holds the
reader it reads from; if it is closed meanwhile its memory is unmapped, and
the process may die (`Crash`) and start again. Files are numbers with a
version that downloads raise; what a name and the metadata say of a file is
the constant `SlotsOf`. Both timers are taken to be on.

### Backup

`namedot -export` is three steps, one per query, and the handlers go on
between them; `ImportBackup(mode)` is the one transaction of `ImportZones`,
taken only while no handler is inside a request. With requests in progress it
would remove rows whose numbers handlers hold, and numbers are not used again
by the model: that case is left out, and the server should be stopped for it.
A replacement removes rows for good (plain SQL) and its new rows get new
numbers; a merge deletes softly what it is about to create again. At the start
the operator has a backup of the database as it is (`WholeBackup`) or one of
another database (`Backups`); `BackupAssumption` asks of those what an export
gives: rrsets of its zones with distinct keys, each with the records of one
request. Without one of another database a merge would never bring anything.
`InTheWay` is when it does not.

### Sessions and Process

`step[w]` is what a goroutine of the web admin does, `visit[w]` the request it
serves. An access to the map of sessions is two steps, because Go's runtime
ends the process when a read or write meets a write (`BeginAccess`), and a
read that a write overtakes may miss its entry (`EndWrite`). A CSRF token is
genuine or not; what its check compares is left out. `Expire` is the passing
of a session's day.

`main` is the main goroutine's next step, `rest` and `dns` how far each
listener is, `closing` whether `http.Server.Shutdown` has been called, `late`
whether the five seconds are over, `exit` how the process ended: `"clean"` is
a return from `main`, `"fatal"` is `log.Fatalf` or a runtime error anywhere.
`RESTReturns` is the goroutine of the REST server, whose listener returns
`ErrServerClosed` on an orderly shutdown and is taken for a failure.
`Signal` may come before any of the listeners has started. `Start` makes the
HTTP server (`MakeREST`) some statements before the reloader's channel
(`LoadCert`), and `Shutdown` stops the reloader (`StopReloader`) before the
server (`ShutdownREST`): a shutdown that falls between leaves a reloader
behind, until the process ends. The operator
replaces the certificate's two files one after the other (`RenewCert`,
`RenewKey`), the reloader reads them one after the other.

## Runs

| Run | Question |
|---|---|
| `GeoSelection` | do the buckets give the declarative answer, for all rrsets of up to 2 records over all attribute combinations, all clients |
| `StoreSerials` | two overlapping handlers, 4 REST requests and imports on two zones, a failed statement or a restart, and what is seen of the zones: no serial stands for two contents, none is below one seen before |
| `StoreMixed` | two overlapping handlers of REST, imports, templates and the web admin, a fault or restart, backups taken beside them, or of another database, and brought back: types, deleted zones and keys stay deleted but for late requests, records of two requests never mix in the store or in a backup, a replacement restores the backup, a merge brings only what is new |
| `ResolverCache` | two overlapping questions, two types, room for one entry, an admin change (a web delete of a zone among them), a zone that holds a name it does not cover: types, capacity, expiry (an entry of TTL 0 is never there), covering zone, lookups pass over zones REST deleted, everything eventually fresh |
| `ResolverFresh` | two REST or web changes, one fault, two clients, targeted records, a CNAME, a forwarder: everything eventually fresh, for each client |
| `GeoReload` | one database and its fallback, downloads of two versions, one unreadable file or failed download, a lookup: a closed reader is about to be replaced, and the newest version is served in the end |
| `Replication` | two master requests and one change of a template between any queries, one failure, timeout or restart: the slave's index and records, that the slave implements `AbstractSlave`, and that it catches up |
| `Process` | two web admin goroutines, two sessions, three requests, a renewed certificate, listeners that fail and a signal at any moment: how the process ends, who is still logged in, which certificate is in use |
| `StaleAnswer`, `GeoFallback`, `SlaveOverwrites`, `StoreImport` | divergences, see below |

Bounds. `MaxRequests` caps the requests sent, `MaxFaults` the failed
statements and restarts; both only bound the length of a behaviour, and every
property concerns at most three requests. Two handlers or two questions are
enough for every hazard listed, which are about pairs (a read of one, a write
of another). Requests are bounded, so `Exhausted` lets a behaviour stutter
when all have been answered and nowhere else, and deadlock is checked in all
runs but those of `GeoProvider`, where a first load that fails leaves a
provider without goroutines. An export is torn by one change between two of
its queries, and a late import needs one change before it: two requests and
one outage show both. `StoreMixed` and `Process` have, beside the bounds of
each kind of event, one on all of them (`MaxEvents`): four of requests, faults
and commands; three of requests, renewals and signals.
The handlers of `StoreSerials` and `StoreMixed` are interchangeable
(`SYMMETRY`): their properties are invariants and action properties. For two
contents under one serial it takes two changes and their bumps, or one whose
bump fails and another; the third and fourth request of `StoreSerials` create
the rrsets or zones those change. A session that is
missed, ended twice or used after its end takes a login, an end and a late
request; a torn export takes one request, and a restore an export before it.
The backup the operator has at the start lets a restore be the first command.
The largest runs, `StoreSerials` and `StoreMixed`, have two to three million
states and take two to three minutes.
`MaxVersion` of 2 is an old and a new version of a file;
ten numbers are as many as four slots, three loaders and a lookup refer to. TTLs of
0, 1 and 2 ticks include the uncached one, and `ZoneTTL`, `NegativeTTL` of 2
let entries age and expire between any two steps.

Fairness (`FairSpec`): weak fairness of the steps of a question and of a
request begun, since goroutines are scheduled and every statement and exchange
returns (the forwarder's client has a timeout), and of `Tick`. Sending
requests, questions, faults and restarts are never required. Each action
stays enabled until taken, so weak fairness is enough. `HFairSpec` of
`Replication`: the ticker ticks, each request of a sync is answered or times
out (an outage), and a transaction ends; nothing is asked of the master.
`FairSpec` of `GeoProvider`: loads and downloads return (the HTTP client has a
timeout), the reload timer ticks and lookups end; the download timer is never
required to tick, and a stop is never required either. `ProcessFairness`:
the goroutines that start listeners, `main` and the reloader go on when they
can, and the deadline of the shutdown comes. Nothing is asked of requests,
which may hang (`SignalEnds` must hold all the same), of signals, of the
operator, or of `RESTReturns`, which only ends the process sooner.

## Proofs

* `GeoSelectProofs`: `SelectIsTargetedAlways`, by cases on the first non-empty
  bucket; `SelectAnswers`: targeting never empties an answer nor adds to it.
* `ZoneStoreProofs`: `StoreInv` is inductive. It is `TablesOK` (types of the
  rows, records refer to rows), `HandlersOK` (`Ready`: what each statement has
  already read is there to be used, e.g. a row read is a row of the same zone),
  `CountersOK` and `KeysUnique` (rows, deleted ones included, have distinct
  keys: the database's index, which the other proofs use). `Ready` is what
  makes it inductive: the save statements write back what an earlier statement
  read, and meet no other row's key only because rows are never removed. From
  it: `StoreTyped` and `RowsKeptAlways` ([][RowsKept]: no row is removed or
  moved to another zone). Two more arguments rest on it:
  * *Records of one request.* `RecordsOfOneRequest` says nothing of deleted
    rrsets, which a save may bring back, nor of a record that a bump has read
    and will write back. `RecordsInv` says it of all rrsets and adds that
    records refer to rows (`DataRefs`, a theorem of its own:
    `DataRefsAlways`), that those about to be inserted do too
    (`InsertsKnown`), and that the text a bump will write back is the text that
    is there (`SOAAsRead`). Each step leaves an rrset its texts (`Alike`),
    gives it those of one request (`Fresh`), takes some away or adds what the
    web admin writes (`Fewer`, `Touched`). `RecordsStayTogether` needs two
    conditions of the clients, `NumbersOwn` and `EditsApart`; without them
    the code does mix records (see Divergences). `UneditedRecordsStayTogether`
    has neither, for request sets where they hold of themselves;
    `RecordsAreWhole` says that no record is missing either, for request sets
    without the web admin's record forms.
  * *What was deleted.* `DeletedForGood` is about `DeletionsSpec` and has no
    condition on requests, handlers or the behaviour. A handler looks first
    and writes later, so its invariant `DeletionsInv` says who may still
    write: `Latecomers`, that a handler about to add a row to a deleted zone,
    or to save a deleted row, is late; `Deleters`, that the zone a handler is
    about to delete is a row; and `Remembered`, that a
    deleted zone and a deleted row are so still, or the row is a leftover. A
    step writes one handler's rows (`LiveOrAdded`), and whoever writes a row
    live is among `Adds` or `Saves`. That no other row has the key of a
    deleted one is `KeysUnique`.
* `ZoneHistoryProofs`: `SerialsIdentifyContent` and `NoSerialFallsBelow`, for
  bumps that overlap as they like. The serial itself does fall then: of three
  bumps the slowest undoes what the others wrote. But nobody goes by a serial
  while a bump of its zone is to come, and `SeenInv` says why that is enough:
  * `OneSOA`: the SOA rrsets of a zone, deleted ones included, are one at the
    apex, with one live record at most (its key is never free again). So every
    bump of the zone is of the same record, though the code takes the first
    SOA record a query returns.
  * `BumpsOfSOA`: the record a bump has read is that one, and what it will
    write is a serial above the one it has read.
  * `SerialSeen`: the serial of the zone, and the one that a bump in progress
    has read, are no lower than any seen. Nothing is seen while a bump holds a
    serial, and so its write, though late, is above all that was seen before.
  * `ContentSeen`: under a seen serial that is still the zone's, the content
    is the one seen, or the zone is owed a bump (`Owed`): one that is to come
    or was lost to a fault.

  `StepChanges` says that a step changes rows of one zone (`ChangedIn`) and
  goes on to its bump, writes a bump, or changes nothing. What is seen after
  a step agrees with what was seen before by `ContentSeen`, and with the step
  itself because the zone is not owed a bump. `HistoryIsStore` brings the
  invariants of `ZoneStore`. The conditions are `ChangesAreBumped`,
  `SOAsAtApex`, `SOAsAtApexAtStart` of the requests and the database, and
  `SOALeftToBump` of the behaviour; `UneditedSOAsIdentifyContent` and
  `UneditedSOAsNeverFallBelow` replace the last by one of the requests,
  `SOAsNotRewritten`, which implies it (`SOAsStayLeft`).
* `ResolverProofs`: `ResolverInv` adds that a question has, at each step, the
  data that step uses (`QueryOK`), that cached messages come from covering
  zones and have a lifetime (`EntryOK`), and that the cache holds a finite set
  within capacity. `AnswersCovered`, `EntriesExpire`, `CacheStaysBounded`,
  `ResolverTyped` follow. They use `RowsKept`: the zone of an rrset read in
  one statement is still its zone when the answer is made. `EntryOK`
  also says that an entry with no ticks left is gone, so TTL 0 is never
  served. `LookupsPass` carries `DeletionsInv` along (`DeletionsKept`): only
  `ReadSet` and `CnameSet` find an rrset, a live one (`FoundIsLive`), and a
  live one in a deleted zone is a leftover. It has no condition on requests.
* `ReplicationProofs`: `ReplicationTyped`, and `SlaveKeysUniqueAlways`, an import never meets the
  slave's unique index. `SlaveKeysUnique` is not inductive alone: `SlaveInv`
  adds that the data of every sync under way or given up (`SyncOK`,
  `PostedOK`) has one rrset of each key, in zones it names. That comes from
  the master's index (`StoreInv`) at the one moment a single query read all
  rrsets, and has to be kept while the master's rows move on.
  `SlaveRecordsAreWhole` and `SlaveRecordsStayTogether` carry the master's
  invariant of records through an export: one query reads all records of an
  rrset, so `SlaveFrom` can say of the rows of an export, of an import that
  waits, and of the slave what `RecordsInv` or `PlainInv` says of the master.
* `BackupProofs`: `ReplaceAlwaysRestores`; `MergesBringOnlyNew`, where the
  point is that a merge can create its rows exactly when nothing was
  `InTheWay` before it deleted any (deleting softly frees no key), and that
  in a zone it brings nothing was live then; `BackupTyped`, of the tables
  and the file. `BackupInv` adds to `StoreInv` that a backup, while it is read
  query by query and afterwards, has typed rows and one rrset of a key: the
  rrsets come from one query, and no import runs beside an export, so the rows
  it numbered are still there when it reads the records. `TogetherInv` adds
  `RecordsInv`, which an import preserves because it brings whole rrsets
  (`BackupsStayTogether`, `UneditedBackupsStayTogether`).
* `GeoProviderProofs`: `ProviderTyped`; and `ClosedReadersAreReplaced`, from
  `ClosedInv`. That a closed reader will be replaced (`ClosedCovered`) is kept
  by `Close` because the files of the slots it empties are still there
  (`FilesThere`) and by `Store` because the reader stored is nobody else's
  (`StoresFresh`); a fallback, which shares a reader, only goes to slots
  without a file of their own (`FillsOthers`, `OwnSlotsHeld`). Failures of the
  file system suspend it, as they do in the property.
  The refinement is `SlaveImplementsAbstract`. Every step but an import leaves
  the copy alone. `CopyInv` carries the moment of the past at which the
  second query of an export read the rrsets, from there through the later
  queries and through the wait of an import given up on, to the import that
  shows it; `Moment \in past` is what puts that moment there.
* `ProcessProofs`: `CleanExitDrains`, from `DrainInv` (Shutdown is not called
  before `main` comes to it, and from then on the busy goroutines only get
  fewer); `EndedSessionsStayEnded`, from `HistoryInv`: ids are not generated
  twice, so a session that was logged out is not in the map again; what a read
  found was not logged out when the request came; and age is looked at after
  the read. `KindOK` says which request can be at which step.

All hold for any number of handlers, questions, zones, requests and faults and
assume the named ASSUMEs of the modules: types of the constants, initial rows
with unique keys. Where one assumes more, its statement says so, and each such
condition is one the code does not enforce and some requests do not meet:

| Condition | Says | Without it |
|---|---|---|
| `NumbersOwn` | an import that numbers its records meets rows of those texts | an export of another server, or from before `-import` replaced the database, takes away records of other rrsets |
| `EditsApart` | no form saves a record that a bump has read and not yet written | with three handlers the form brings back a record a PUT has deleted, and the bump gives it its old text |
| `UneditedRequests`, `PlainRequests`, `NoForms` | of the requests sent | see `NumbersOwn`, `EditsApart`; records added and deleted one by one are no request's |
| `ChangesAreBumped` | the web admin does not change records | it changes them under the serial they had |
| `SOAsAtApex`, `SOAsAtApexAtStart` | an SOA comes by POST, an import or from the start, at the apex of its zone, with one record and a serial that can be bumped; imports do not number their records | a bump raises one SOA of two, or one record of two, and another is served; a text of fewer than seven words is not bumped at all; a numbered import takes the SOA's record away |
| `SOALeftToBump`, `SOAsNotRewritten` | only the bump rewrites an SOA | a PUT, or an import that updates, sets a serial that was seen with another content, or a lower one |
| `OneSlotEach` | every file is stored in one slot | overlapping loads of a provider of one file, whose reader goes to two slots, can leave one with the closed reader |
| `WholeDirectory` | the files are there, or all downloaded, at the first load | a file that comes while the fallback is being filled leaves a slot with a reader that is closed by the next load |

The runs meet them: `StoreSerials` has REST requests that leave SOAs alone
and a database with one SOA at the apex; `StoreMixed` has two handlers and imports of this database's own
export; `GeoReload` has one file, stored in one slot and
downloaded before the first load.

The theorems of `ZoneStore` are about `StoreSpec`: REST, imports, templates and
web admin; `DeletedForGood` and `LookupsPass` are about the same with the history
of deletions. `BackupProofs` has the same types, keys and records beside
`Backup`, whose import replaces rows (so `RowsKept` does not hold there).

Every invariant of a passing run has its theorem. Only model-checked is
liveness: `EventuallyFresh`, `EventuallySynced`, `EventuallyNewest`,
`SignalEnds`, `NoHalfService`, `EventuallyRenewed`; fairness and ENABLED are
out of the prover's reach.

## Divergences

Four have a run, in which TLC finds the behaviour:

* `StaleAnswer`: a request invalidates the list of zones and leaves the answer
  cache; a finished PUT is contradicted until the TTL ends.
* `GeoFallback`: a slot filled as the fallback of its sibling is not empty at
  the next load, which closes the shared reader and replaces it only in the
  sibling. Lookups of that IP version find nothing from then on.
* `SlaveOverwrites`: a slave that once had an rrset deleted by REST (it was a
  master, or was written to directly: the REST API is not switched off in
  slave mode) cannot import that zone, and with it nothing at all.

* `StoreImport`: `docs/BACKUP.md:25` describes upsert as adding and updating
  records, and replace as deleting all and importing new ones. A zone's own
  JSON export brought back by upsert leaves its rrsets without records: the
  records carry the numbers of the rows the import has just deleted, and those
  rows, still deleted, are pointed at the rrset instead of new ones inserted.
  By replace it fails, since the rrsets deleted keep their keys.

Others the same models exhibit, without a run:

* three overlapping bumps lower a serial: the slowest writes back what it read
  (`soa.go:72`, "increments its serial" at 11);
* POST after DELETE of one rrset is refused for good, since the deleted row
  keeps the unique key (`rest/server.go:335`, against the hint at 307); so are
  a zone created after it was deleted, and the import of a zone that was
  deleted on the slave;
* a request that found its zone before another deleted it creates, imports or
  saves its rrset afterwards (`rest/server.go:335`, `:463`): a live rrset in a
  deleted zone, against `zones_test.go:370`, "Should cascade delete RRSets".
  These are the `leftovers` of `Deletions`; a lookup with an old list of zones
  serves them, a new list no longer has the zone;
* the web admin's delete of a zone leaves all its rrsets live (`web/zones.go:221`);
* the web form saves the record with the rrset number it read: an import that
  moved the record to its rrset in between is undone
  (`records_edit.go:163`, `:213`), and so is a key or deletion by the save for
  the TTL (`:222`);
* an import of numbered records (a JSON export of another server, or of this
  one from before `-import` replaced its database) points the rows that have
  those numbers at its own rrsets: records disappear from rrsets it does not
  name (`json.go:35`);
* with three handlers, the web form saves a record that a PUT has deleted since
  a bump read it; the record lives again and the bump writes its old text into
  it (`soa.go:72`, `records_edit.go`);
* a failed statement, or a forwarder that does not answer, is cached as
  NXDOMAIN for five minutes (`dns/server.go:191`, comment at 190);
* a zone or template deleted on the master stays on the slave
  (`docs/REPLICATION.md:415`: "should return same data"), and so does a
  template under its old name; templates of one name become one;
* `ClosedIsReplaced` needs a directory in which the files are there from the
  first load on (`WholeDirectory`, and `OneSlotEach`, of the theorem). A file that appears while the fallback is being filled, and
  overlapping loads of a provider of one file, whose reader goes to two slots,
  can leave a slot with a closed or an older reader until the next load;
* a zone list fetched before an invalidation is stored after it
  (`server.go:208` against the comment at 96); `EventuallyFresh` shows that it
  lasts no longer than the list's own time;
* once its SOA was deleted a zone never gets an automatic one: its key is
  taken and the error of `Create` dropped (`soa.go:57`);
* a bump that overlaps a PUT turning the SOA rrset into a text of seven words
  bumps a word of the text (`soa.go:72`);
* `-import` in merge mode fails as a whole wherever the backup has an rrset of
  a zone that exists: the rrsets it deletes keep their keys (`backup.go:116`),
  against `docs/BACKUP.md:99`, "If a zone exists, its records are replaced";
  `MergeBringsOnlyNew` states what it does;
* an orderly shutdown may end with status 1 before requests are answered:
  `Shutdown` makes the listener return `ErrServerClosed`, which the goroutine
  of the REST server passes to `log.Fatalf` (`main.go:215`, against "Graceful
  shutdown" at 234). A signal before `Start` has come to make the server finds
  nothing to shut down, and one that falls between `rest/server.go:123` and
  `:143` stops the server and leaves the certificate reloader;
* overlapping requests of the web admin may end the whole process, DNS
  included: the runtime does not allow a map to be read while it is written
  (`admin.go:115`, `:117`, `:157`);
* `docs/WEBADMIN.md:110` gives the priority Country > Continent > ASN >
  Subnet; the code tests subnet, ASN, country, continent (`server.go:315`).

Read in the source, without a property of their own:

* `ImportBIND` looks at the parser's error only while there is a next record
  (`bind.go:40`): a file with a syntax error is imported up to it;
* suffixes are compared without a label boundary (`dns/server.go:213`), so a
  zone may be taken for that of a name it does not cover; the suffix relation
  is a constant of `Resolver`, and `ResolverCache` gives it such a pair;
* an export whose write fails has already emptied the old backup file
  (`backup.go:34`); `Backup` has that as `WriteFails`, and such a file is
  refused by an import;
* the preview of a template puts the zone's name for "@", applying it leaves
  "@." (`templates_handlers.go:616`, `:680`).

## Plan

1. `GeoSelect`, `ZoneStore`, `TTLCache`, `Resolver` and their proofs (done).
2. `Replication` and `GeoProvider` (done).
3. Imports, templates and backups as operations on the store (done).
4. `Sessions` and `Process`, with their proofs (done).
5. `AbstractSlave` and the proof that `Replication` implements it (done).
6. Proofs about records, backups, loads of GeoIP databases, deleted zones and
   serials (done).
7. `ZoneHistory` with overlapping bumps and faults, and its proofs (done).
8. `Deletions` and `ResolverHistory`, with overlapping requests, and their
   proofs; merges of backups of other databases (done).

Not modelled, and why: configuration parsing, the IP access list (a pure check
before the handlers), pages and translations, command line helpers:
sequential, without state the rest depends on; `lastRule`, which is only
logged.
