----------------------------- MODULE Deletions -----------------------------
(***************************************************************************)
(* ZoneStore with history variables for what was deleted.  No transaction  *)
(* spans a request: it looks at its zone or rrset in one statement and     *)
(* writes in a later one, and a deletion may come between.  Whoever was    *)
(* under way then is late, and what it writes afterwards is a leftover.    *)
(***************************************************************************)
EXTENDS ZoneStore

VARIABLES
    deletedZones,  \* zones that deleteZone of the REST API has deleted
    deletedSets,   \* rrsets that were deleted at some time
    late,          \* handlers whose zone or rrset was deleted after they found it
    leftovers      \* live rrsets that such handlers wrote

deletions    == <<deletedZones, deletedSets, late, leftovers>>
deletionVars == <<storeVars, deletions>>

AddSteps == {"checkSet", "insertSet", "findSet", "putSet", "deleteSet", "importSets",
             "readSOA", "readSOAData", "createSOA",
             "webFindSet", "webInsertSet", "webInsertData"}

\* Handler h has found zone z, or a row of it, and may yet write a live row there.
Adds(h, z) ==
    \/ pc[h] \in AddSteps /\ req[h].zone = z
    \/ pc[h] = "webSaveTTL" /\ local[h].row.zone = z

\* Handler h has found rrset s and is about to save it.
Saves(h, s) ==
    \/ pc[h] = "putSet" /\ req[h].set = s
    \/ pc[h] = "webSaveTTL" /\ local[h].set = s

ForgetDeletions ==
    /\ deletedZones' = {}
    /\ deletedSets' = {}
    /\ late' = {}
    /\ leftovers' = {}

DeletionsInit ==
    /\ StoreInit
    /\ deletedZones = {}
    /\ deletedSets = {}
    /\ late = {}
    /\ leftovers = {}

-----------------------------------------------------------------------------
\* The transaction of deleteZone went through in this step.
DeletesZone(z) ==
    \E h \in Handlers : pc[h] = "deleteZone" /\ pc'[h] = "invalidate" /\ req[h].zone = z

ZonesDeleted == {z \in Zones : DeletesZone(z)}
SetsDeleted  == {s \in DOMAIN rrsets : rrsets[s].live /\ ~rrsets'[s].live}

SetsWritten ==
    {i \in DOMAIN rrsets' : /\ rrsets'[i].live
                            /\ i \notin DOMAIN rrsets \/ rrsets[i] # rrsets'[i]}

RememberDeletions ==
    /\ deletedZones' = deletedZones \cup ZonesDeleted
    /\ deletedSets' = deletedSets \cup SetsDeleted
    /\ late' = {h \in Handlers :
                  /\ pc'[h] # "idle"
                  /\ \/ h \in late
                     \/ \E z \in ZonesDeleted : Adds(h, z)'
                     \/ \E s \in SetsDeleted : Saves(h, s)'}
    /\ leftovers' = (leftovers \ SetsDeleted)
                        \cup (IF \E h \in late : pc'[h] # pc[h] THEN SetsWritten ELSE {})

DeletionsNext == StoreNext /\ RememberDeletions

DeletionsSpec == DeletionsInit /\ [][DeletionsNext]_deletionVars

-----------------------------------------------------------------------------
(***************************************************************************)
(* Property.                                                               *)
(***************************************************************************)

(* A zone deleted by REST stays deleted with all its rrsets (zones_test.go *)
(* "Should cascade delete RRSets"), and a deleted rrset's key is never     *)
(* that of a live one again, whatever requests come later, overlap or      *)
(* fail: all that is live there was written by a request that had found    *)
(* the zone, or the rrset it saves, before that was deleted.               *)
DeletedStaysDeleted ==
    /\ \A z \in deletedZones : zones[z] = "deleted"
    /\ \A i \in DOMAIN rrsets : rrsets[i].live /\ i \notin leftovers =>
          /\ rrsets[i].zone \notin deletedZones
          /\ \A s \in deletedSets :
                ~HasKey(rrsets[s], rrsets[i].zone, rrsets[i].name, rrsets[i].type)
=============================================================================
