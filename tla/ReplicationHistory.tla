------------------------ MODULE ReplicationHistory ------------------------
(***************************************************************************)
(* Replication with the master's past beside it, and the slave's promise:  *)
(* Replication implements AbstractSlave.                                   *)
(***************************************************************************)
EXTENDS Replication

VARIABLE past

historyVars == <<replicationVars, past>>

\* The rrsets of a zone with their TTLs, on the master and on the slave.
Shape(z) == {Columns(s) : s \in {i \in DOMAIN rrsets : rrsets[i].live /\ rrsets[i].zone = z}}

ColumnsOf(s) == [zone |-> s.zone, name |-> s.name, type |-> s.type, ttl |-> s.ttl]

ShapeIn(sets, z) == {ColumnsOf(s) : s \in {u \in sets : u.live /\ u.zone = z}}

Moment == [z \in Zones |-> Shape(z)]

HInit == ReplicationInit /\ past = {Moment}
HNext == ReplicationNext /\ past' = past \cup {Moment'}
HSpec == HInit /\ [][HNext]_historyVars
HFairSpec == HSpec /\ SyncFairness

Slave == INSTANCE AbstractSlave
            WITH Before <- [z \in Zones |-> ShapeIn(InitSlaveSets, z)],
                 copy   <- [z \in Zones |-> ShapeIn(slaveSets, z)]

(* The zones of a slave, their rrsets and TTLs, are at any time those of   *)
(* one moment of the master, zones changed together of the same moment,    *)
(* though not with the records of that moment: one query of syncExport     *)
(* reads the rrsets of all zones, an import replaces a zone's rrsets as a  *)
(* whole, and a late one brings an older moment back.                      *)
SlaveCopiesMaster == Slave!Spec
=============================================================================
