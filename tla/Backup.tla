------------------------------- MODULE Backup -------------------------------
(***************************************************************************)
(* namedot -export and -import (internal/db/backup.go): a process of its   *)
(* own that copies the tables of ZoneStore to a file and back.             *)
(*                                                                         *)
(* An export reads the zones, their rrsets and the records of those by one *)
(* query each, in no transaction, and the server may go on beside it.  An  *)
(* import is one transaction.  It removes rows for good, or makes new ones *)
(* of keys that requests in progress hold by number: here it is run when   *)
(* no request is in progress.                                              *)
(***************************************************************************)
EXTENDS ZoneStore

CONSTANTS
    Backups,      \* backups of other databases that the operator may have
    MaxCommands   \* bound: commands run in a behaviour

VARIABLES
    command,   \* the command's next step
    loaded,    \* what an export has read so far
    file,      \* the backup file
    readable,  \* the file is whole
    commands   \* commands run so far

backupVars == <<command, loaded, file, readable, commands>>

BackupRow == [zone : Zones, name : Owners, type : Types, ttl : Nat]
FileRow   == [set : Nat, payload : Payload]

\* The texts of rrset s of backup b.
BackupTexts(b, s) ==
    {b.data[d].payload.data : d \in {e \in DOMAIN b.data : b.data[e].set = s}}

\* Exports as ours are, by servers that had the same clients.
ASSUME BackupAssumption ==
    /\ Backups \subseteq [zones : SUBSET Zones, sets : Seq(BackupRow), data : Seq(FileRow)]
    /\ \A b \in Backups :
          /\ \A s \in DOMAIN b.sets : b.sets[s].zone \in b.zones
          /\ \A s, u \in DOMAIN b.sets :
                HasKey(b.sets[s], b.sets[u].zone, b.sets[u].name, b.sets[u].type) => s = u
          /\ \A d \in DOMAIN b.data : b.data[d].set \in DOMAIN b.sets
          /\ \A s \in DOMAIN b.sets : FromOneRequest(BackupTexts(b, s))

(***************************************************************************)
(* A backup: zones, rrsets by number, and records by number.               *)
(***************************************************************************)
NoBackup == [zones |-> {}, sets |-> <<>>, data |-> <<>>]

SetColumns(row) == [zone |-> row.zone, name |-> row.name, type |-> row.type, ttl |-> row.ttl]

BackupSets(zs) ==
    [s \in {i \in DOMAIN rrsets : rrsets[i].live /\ rrsets[i].zone \in zs} |->
        SetColumns(rrsets[s])]

BackupData(ids) ==
    [d \in UNION {LiveData(s) : s \in ids} |->
        [set |-> rdata[d].set, payload |-> rdata[d].payload]]

WholeBackup ==
    LET zs   == {z \in Zones : zones[z] = "live"}
        sets == BackupSets(zs)
    IN  [zones |-> zs, sets |-> sets, data |-> BackupData(DOMAIN sets)]

\* The operator has a backup of the database as it was at the start, or one of
\* another database.
BackupInit ==
    /\ StoreInit
    /\ command = "none"
    /\ loaded = NoBackup
    /\ file \in Backups \cup {WholeBackup}
    /\ readable = TRUE
    /\ commands = 0

-----------------------------------------------------------------------------
(***************************************************************************)
(* ExportZones: Find, and two queries of Preload("RRSets.Records").        *)
(***************************************************************************)
StartExport ==
    /\ command = "none"
    /\ commands < MaxCommands
    /\ commands' = commands + 1
    /\ command' = "exportZones"
    /\ UNCHANGED <<loaded, file, readable>>

ExportZones ==
    /\ command = "exportZones"
    /\ command' = "exportSets"
    /\ loaded' = [loaded EXCEPT !.zones = {z \in Zones : zones[z] = "live"}]
    /\ UNCHANGED <<file, readable, commands>>

ExportSets ==
    /\ command = "exportSets"
    /\ command' = "exportData"
    /\ loaded' = [loaded EXCEPT !.sets = BackupSets(loaded.zones)]
    /\ UNCHANGED <<file, readable, commands>>

\* Mutant: records are exported whether deleted or not.
ExportDeletedData ==
    /\ command = "exportData"
    /\ command' = "none"
    /\ file' = [loaded EXCEPT !.data =
                  [d \in {e \in DOMAIN rdata : rdata[e].set \in DOMAIN loaded.sets} |->
                      [set |-> rdata[d].set, payload |-> rdata[d].payload]]]
    /\ readable' = TRUE
    /\ loaded' = NoBackup
    /\ UNCHANGED commands

\* The file is written when all has been read.
ExportData ==
    /\ command = "exportData"
    /\ command' = "none"
    /\ file' = [loaded EXCEPT !.data = BackupData(DOMAIN loaded.sets)]
    /\ readable' = TRUE
    /\ loaded' = NoBackup
    /\ UNCHANGED commands

\* A query fails, or the command is interrupted: the old file stays.
ExportFails ==
    /\ command # "none"
    /\ command' = "none"
    /\ loaded' = NoBackup
    /\ UNCHANGED <<file, readable, commands>>

\* os.WriteFile empties the old file before it writes, and that fails.
WriteFails ==
    /\ command = "exportData"
    /\ command' = "none"
    /\ file' = NoBackup
    /\ readable' = FALSE
    /\ loaded' = NoBackup
    /\ UNCHANGED commands

-----------------------------------------------------------------------------
(***************************************************************************)
(* ImportZones.  Replace empties the tables, deleted rows included.  Merge *)
(* deletes the live rrsets of the zones it brings, with their records, the *)
(* soft way.  A zone that is not found is created, and every rrset of the  *)
(* backup: a deleted row of the name or key, also one just deleted, fails  *)
(* it.  New rows take new numbers in the order of the backup.              *)
(***************************************************************************)
\* Mutant: the table of zones is left as it is.
EmptiedButZones == [zones |-> zones, sets |-> <<>>, data |-> <<>>]

Emptied == [zones |-> [z \in Zones |-> "absent"], sets |-> <<>>, data |-> <<>>]

\* Mutant: the zones keep what they have.
MergedKeeping == [zones |-> zones, sets |-> rrsets, data |-> rdata]

Merged ==
    LET gone == {s \in DOMAIN rrsets : rrsets[s].live /\ rrsets[s].zone \in file.zones} IN
    [zones |-> zones,
     sets  |-> [s \in DOMAIN rrsets |-> [rrsets[s] EXCEPT !.live = @ /\ s \notin gone]],
     data  |-> [d \in DOMAIN rdata |->
                  [rdata[d] EXCEPT !.live = @ /\ rdata[d].set \notin gone]]]

\* Creates meet no unique index, in tables prepared as t.
Creatable(t) ==
    /\ \A z \in file.zones : t.zones[z] # "deleted"
    /\ \A s \in DOMAIN file.sets, i \in DOMAIN t.sets :
          ~HasKey(t.sets[i], file.sets[s].zone, file.sets[s].name, file.sets[s].type)

\* The number that rrset s of the backup gets, where sets is their order.
NumberOf(t, sets, s) == Len(t.sets) + CHOOSE i \in DOMAIN sets : sets[i] = s

RestoredSets(t, sets) ==
    t.sets \o [i \in DOMAIN sets |->
                  LET c == file.sets[sets[i]] IN NewSet(c.zone, c.name, c.type, c.ttl)]

RestoredData(t, sets, data) ==
    t.data \o [i \in DOMAIN data |-> [set |-> NumberOf(t, sets, file.data[data[i]].set),
                                      payload |-> file.data[data[i]].payload, live |-> TRUE]]

Restored(t) ==
    LET sets == InOrder(DOMAIN file.sets) IN
    /\ zones' = [z \in Zones |-> IF z \in file.zones THEN "live" ELSE t.zones[z]]
    /\ rrsets' = RestoredSets(t, sets)
    /\ rdata' = RestoredData(t, sets, InOrder(DOMAIN file.data))

\* A file that is not whole is refused; an error, whatever statement meets it,
\* undoes the transaction.
ImportBackup(mode) ==
    /\ command = "none"
    /\ commands < MaxCommands
    /\ commands' = commands + 1
    /\ \A h \in Handlers : pc[h] = "idle"
    /\ LET t == IF mode = "replace" THEN Emptied ELSE Merged IN
       IF readable /\ Creatable(t) THEN Restored(t) ELSE UNCHANGED tables
    /\ UNCHANGED <<handlers, issued, faults, command, loaded, file, readable>>

-----------------------------------------------------------------------------
ExportStep == StartExport \/ ExportZones \/ ExportSets \/ ExportData \/ ExportFails \/ WriteFails

BackupNext ==
    \/ StoreNext /\ UNCHANGED backupVars
    \/ ExportStep /\ UNCHANGED storeVars
    \/ ImportBackup("replace")
    \/ ImportBackup("merge")

BackupSpec == BackupInit /\ [][BackupNext]_<<storeVars, backupVars>>

-----------------------------------------------------------------------------
(***************************************************************************)
(* Properties.                                                             *)
(***************************************************************************)
\* A zone's rrsets with their records, in the file and in the database.
FileContent(z) ==
    {<<file.sets[s], {file.data[d].payload : d \in {e \in DOMAIN file.data : file.data[e].set = s}}>> :
        s \in {i \in DOMAIN file.sets : file.sets[i].zone = z}}

ZoneContent(z) ==
    {<<SetColumns(rrsets[s]), {rdata[d].payload : d \in LiveData(s)}>> :
        s \in {i \in DOMAIN rrsets : rrsets[i].live /\ rrsets[i].zone = z}}

(* Changes go on between the queries of an export.  Still an rrset of the  *)
(* backup has the records of one request, as in RecordsOfOneRequest.       *)
BackupOfOneRequest ==
    \A s \in DOMAIN file.sets : FromOneRequest(BackupTexts(file, s))

(* docs/BACKUP.md, "replace: Delete all existing zones and import from     *)
(* backup (complete restore)": whatever became of the database since, the  *)
(* zones are those of the backup, and so is all they hold.                 *)
ReplaceRestores ==
    [][ImportBackup("replace") /\ readable =>
          /\ \A z \in Zones : zones'[z] = (IF z \in file.zones THEN "live" ELSE "absent")
          /\ \A z \in Zones : ZoneContent(z)' = FileContent(z)]_<<storeVars, backupVars>>

(* docs/BACKUP.md:99 says of mode merge, "If a zone exists, its records    *)
(* are replaced."  They are where the backup has other rrsets than the     *)
(* zone ever had.  A single row that has the key of an rrset of the        *)
(* backup, the rows that the merge has just deleted among them, or a zone  *)
(* deleted earlier, and the merge brings nothing, for any zone.            *)
InTheWay ==
    \/ \E z \in file.zones : zones[z] = "deleted"
    \/ \E s \in DOMAIN file.sets :
          KeyTaken(file.sets[s].zone, file.sets[s].name, file.sets[s].type)

MergeBringsOnlyNew ==
    [][ImportBackup("merge") /\ readable =>
          IF InTheWay
          THEN UNCHANGED tables
          ELSE \A z \in Zones :
                  IF z \in file.zones
                  THEN zones'[z] = "live" /\ ZoneContent(z)' = FileContent(z)
                  ELSE zones'[z] = zones[z] /\ ZoneContent(z)' = ZoneContent(z)]_<<storeVars, backupVars>>
=============================================================================
