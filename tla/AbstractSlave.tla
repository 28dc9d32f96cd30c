--------------------------- MODULE AbstractSlave ---------------------------
(***************************************************************************)
(* What a slave promises to those who ask it (docs/REPLICATION.md): it     *)
(* shows a copy of what the master has been.  A step of the slave takes    *)
(* some of its zones, together, to one moment of the master's past, and    *)
(* leaves the others as they are.  It need not be the last moment, nor one *)
(* after the last it showed.                                               *)
(***************************************************************************)
CONSTANTS
    Zones,   \* zone names
    Before   \* zone -> what the slave showed before the first sync

VARIABLES
    past,    \* what the master has been: contents of all zones, moment by moment
    copy     \* zone -> what the slave shows

Init ==
    /\ past # {}
    /\ copy = Before

\* The master's clients change it.
MasterChanges ==
    /\ past \subseteq past'
    /\ UNCHANGED copy

Take(moment, changed) ==
    copy' = [z \in Zones |-> IF z \in changed THEN moment[z] ELSE copy[z]]

Sync ==
    /\ \E moment \in past, changed \in SUBSET Zones : Take(moment, changed)
    /\ UNCHANGED past

Next == MasterChanges \/ Sync

Spec == Init /\ [][Next]_<<past, copy>>
=============================================================================
