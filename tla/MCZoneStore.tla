---------------------------- MODULE MCZoneStore ----------------------------
(***************************************************************************)
(* ZoneStore on small databases.  Each set of requests below is the input  *)
(* of one run.  Requests are bounded, so a behaviour ends when all have    *)
(* been answered: Exhausted lets it stutter there and nowhere else.        *)
(***************************************************************************)
EXTENDS ZoneStore, TLC

CONSTANTS z1, z2, www, api, apex1, apex2, da, db, dw, dsoa, h1, h2

\* Payloads: plain data, and an SOA whose serial is n.
Plain(d) == [data |-> d, serial |-> -2, country |-> Nil, continent |-> Nil,
             asn |-> Nil, subnet |-> Nil]
SOA(n)   == [Plain(dsoa) EXCEPT !.serial = n]

MCApex == z1 :> apex1 @@ z2 :> apex2
MCNonNumeric == -1
MCTooShort == -2
MCDefaultSOA == SOA(1)

MCInitZones == z1 :> "live" @@ z2 :> "absent"

\* One zone with an SOA and one address.
MCInitSets == << [zone |-> z1, name |-> apex1, type |-> "SOA", ttl |-> 2, live |-> TRUE],
                 [zone |-> z1, name |-> www, type |-> "A", ttl |-> 1, live |-> TRUE] >>
MCInitData == << [set |-> 1, payload |-> SOA(3), live |-> TRUE],
                 [set |-> 2, payload |-> Plain(da), live |-> TRUE] >>

-----------------------------------------------------------------------------
Create(z, n, t, recs) == [op |-> "createRRSet", zone |-> z, name |-> n, type |-> t,
                          ttl |-> 0, records |-> recs]
Put(z, s, n, t, ttl, recs) == [op |-> "updateRRSet", zone |-> z, set |-> s, name |-> n,
                               type |-> t, ttl |-> ttl, records |-> recs]
Delete(z, s) == [op |-> "deleteRRSet", zone |-> z, set |-> s]
ZoneReq(o, z) == [op |-> o, zone |-> z]

\* Owner, type and data of an rrset with one record, as an import without
\* row numbers (BIND) has it.
Import(z, mode, sets) ==
    [op |-> "importZone", zone |-> z, mode |-> mode,
     sets |-> [k \in DOMAIN sets |-> [id |-> 0, name |-> sets[k][1], type |-> sets[k][2],
                                     ttl |-> 0]],
     records |-> [k \in DOMAIN sets |-> [id |-> 0, of |-> k, payload |-> sets[k][3]]]]

\* The JSON export of the zone as it is at the start.
ZoneExport(mode) ==
    [op |-> "importZone", zone |-> z1, mode |-> mode,
     sets |-> [k \in 1 .. 2 |-> [id |-> k, name |-> MCInitSets[k].name,
                                 type |-> MCInitSets[k].type, ttl |-> MCInitSets[k].ttl]],
     records |-> [k \in 1 .. 2 |-> [id |-> k, of |-> k, payload |-> MCInitData[k].payload]]]

WebCreate(n, ttl) == [op |-> "webCreateRecord", zone |-> z1, name |-> n, type |-> "A",
                      ttl |-> ttl, payload |-> Plain(dw)]
ApplyTemplate == [op |-> "webApplyTemplate", zone |-> z1,
                  records |-> << [name |-> api, type |-> "A", ttl |-> 1, payload |-> Plain(dw)],
                                 [name |-> www, type |-> "A", ttl |-> 1, payload |-> Plain(dw)] >>]

\* Everything REST does to zones and rrsets, the SOA left to the bump.
ChangeRequests ==
    {Create(z1, api, "A", <<Plain(da)>>), Create(z1, api, "A", <<Plain(db)>>),
     Put(z1, 2, www, "A", 1, <<Plain(db)>>), Put(z1, 2, api, "A", 0, <<Plain(da), Plain(db)>>),
     Delete(z1, 2), Delete(z1, 3),
     ZoneReq("createZone", z2), ZoneReq("deleteZone", z2), ZoneReq("deleteZone", z1),
     Create(z2, www, "A", <<Plain(da)>>),
     Import(z1, "upsert", << <<www, "A", Plain(db)>>, <<api, "TXT", Plain(da)>> >>),
     Import(z1, "replace", << <<api, "TXT", Plain(db)>> >>)}

\* REST, imports and the web admin at the same rows, a zone that comes and
\* goes, and an SOA that is edited and turned into something else.
MixedRequests ==
    {ZoneReq("deleteZone", z1), ZoneReq("webDeleteZone", z1),
     Create(z1, www, "A", <<Plain(da)>>), Create(z1, apex1, "SOA", <<SOA(5)>>),
     Put(z1, 2, www, "A", 1, <<Plain(db)>>), Put(z1, 2, api, "A", 1, <<Plain(da)>>),
     Put(z1, 1, apex1, "CNAME", 2, <<Plain(db)>>),
     Put(z1, 2, apex1, "SOA", 1, <<SOA(-2)>>),
     Delete(z1, 2),
     Import(z1, "replace", << <<api, "A", Plain(db)>> >>),
     ZoneExport("upsert"),
     WebCreate(www, 0), ApplyTemplate,
     ZoneReq("webCreateZone", z2),
     [op |-> "webDeleteRecord", rec |-> 2],
     [op |-> "webUpdateRecord", rec |-> 2, set |-> 2, ttl |-> 3, payload |-> Plain(dw)]}

\* A zone's backup brought back, and other changes.
ImportRequests ==
    {ZoneExport("upsert"), ZoneExport("replace"), Delete(z1, 2),
     Import(z1, "upsert", << <<api, "A", Plain(db)>> >>)}

-----------------------------------------------------------------------------
Quiet == \A h \in Handlers : pc[h] = "idle"

Exhausted == Quiet /\ issued = MaxRequests /\ UNCHANGED storeVars

MCSpec == StoreInit /\ [][StoreNext \/ Exhausted]_storeVars

\* Handlers are alike: for runs whose properties are of safety.
HandlerSymmetry == Permutations(Handlers)
=============================================================================
