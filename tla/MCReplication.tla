--------------------------- MODULE MCReplication ---------------------------
(***************************************************************************)
(* Replication on small databases.                                         *)
(***************************************************************************)
EXTENDS ReplicationHistory, TLC

CONSTANTS z1, z2, www, api, apex1, apex2, da, db, dsoa, t1, x1, x2

Plain(d) == [data |-> d, serial |-> -2, country |-> Nil, continent |-> Nil,
             asn |-> Nil, subnet |-> Nil]

MCApex == z1 :> apex1 @@ z2 :> apex2
MCNonNumeric == -1
MCTooShort == -2
MCDefaultSOA == [Plain(dsoa) EXCEPT !.serial = 1]

MCInitZones == z1 :> "live" @@ z2 :> "absent"
MCInitSets  == << [zone |-> z1, name |-> www, type |-> "A", ttl |-> 1, live |-> TRUE] >>
MCInitData  == << [set |-> 1, payload |-> Plain(da), live |-> TRUE] >>

MCInitTemplates == << [name |-> t1, description |-> x1, live |-> TRUE] >>
MCInitRecords   == << [template |-> 1, text |-> x1, live |-> TRUE] >>

\* An rrset is moved, rewritten and deleted; zones come and go.
Put(name, ttl, records) == [op |-> "updateRRSet", zone |-> z1, set |-> 1, name |-> name,
                            type |-> "A", ttl |-> ttl, records |-> records]
MasterRequests ==
    {Put(api, 1, <<Plain(db)>>), Put(www, 2, <<Plain(db)>>),
     [op |-> "deleteRRSet", zone |-> z1, set |-> 1],
     [op |-> "createRRSet", zone |-> z1, name |-> api, type |-> "A", ttl |-> 1,
      records |-> <<Plain(db)>>],
     [op |-> "createZone", zone |-> z2], [op |-> "deleteZone", zone |-> z1]}

\* A slave without data, and one that was a master and had an rrset deleted.
FreshZones == [z \in Zones |-> "absent"]
FreshSets  == {}
UsedZones  == z1 :> "live" @@ z2 :> "absent"
UsedSets   == {[zone |-> z1, name |-> www, type |-> "A", ttl |-> 1, live |-> FALSE,
                records |-> {Plain(db)}]}
=============================================================================
