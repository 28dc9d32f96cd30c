--------------------------- MODULE MCZoneHistory ---------------------------
(***************************************************************************)
(* ZoneHistory on the databases and requests of MCZoneStore.               *)
(***************************************************************************)
EXTENDS MCZoneStore, ZoneHistory

MCHistoryNext == \/ HistoryNext
                 \/ Exhausted /\ UNCHANGED <<published, unbumped>>

MCHistorySpec == HistoryInit /\ [][MCHistoryNext]_zoneHistoryVars
=============================================================================
