------------------------------ MODULE MCBackup ------------------------------
(***************************************************************************)
(* Handlers and backups at one small database.  Requests, commands and     *)
(* faults share a bound beside their own: a behaviour has, say, three      *)
(* requests and a command, or two of each.                                 *)
(***************************************************************************)
EXTENDS MCZoneStore, Backup, Deletions

CONSTANT MaxEvents

WithinBound == issued + faults + commands <= MaxEvents

\* A backup of a server that has other rrsets in z1, and z2 too.
MCBackups ==
    {[zones |-> {z1, z2},
      sets  |-> << [zone |-> z1, name |-> api, type |-> "A", ttl |-> 1],
                   [zone |-> z2, name |-> www, type |-> "A", ttl |-> 1] >>,
      data  |-> << [set |-> 1, payload |-> Plain(db)], [set |-> 2, payload |-> Plain(da)] >>]}

-----------------------------------------------------------------------------
mcVars == <<deletionVars, backupVars>>

\* A replacement makes other rows of the same numbers: nothing is deleted yet.
History == IF ImportBackup("replace") /\ tables' # tables
           THEN ForgetDeletions
           ELSE RememberDeletions

Resting == Quiet /\ command = "none" /\ UNCHANGED mcVars

MCInit == BackupInit /\ DeletionsInit

MCBackupSpec ==
    /\ MCInit
    /\ [][(BackupNext /\ WithinBound' /\ History) \/ Resting]_mcVars
=============================================================================
