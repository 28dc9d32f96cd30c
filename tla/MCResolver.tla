----------------------------- MODULE MCResolver -----------------------------
(***************************************************************************)
(* Resolver over a parent and a child zone that both cover the name www.   *)
(* Each run takes one set of requests, and the clients and capacities that *)
(* make its case happen.                                                   *)
(***************************************************************************)
EXTENDS ResolverHistory, TLC

CONSTANTS parent, child, www, apexp, apexc, da, db, dbad, dsoa, us,
          h1, h2, p1, p2

Plain(d) == [data |-> d, serial |-> -2, country |-> Nil, continent |-> Nil,
             asn |-> Nil, subnet |-> Nil]
ForUS(d) == [Plain(d) EXCEPT !.country = us]
SOA(n)   == [Plain(dsoa) EXCEPT !.serial = n]

MCApex       == parent :> apexp @@ child :> apexc
MCUnder      == parent :> {www, apexp, apexc} @@ child :> {www, apexc}
MCNameLen    == parent :> 1 @@ child :> 2
MCNonNumeric == -1
MCTooShort   == -2
MCDefaultSOA == SOA(1)

Nowhere   == [valid |-> FALSE, country |-> Nil, continent |-> Nil, asn |-> Nil, nets |-> {}]
American  == [Nowhere EXCEPT !.valid = TRUE, !.country = us]
OneClient  == {Nowhere}
TwoClients == {Nowhere, American}

ParentOnlyZones == parent :> "live" @@ child :> "absent"
BothLiveZones  == parent :> "live" @@ child :> "live"

Set(z, n, t, ttl) == [zone |-> z, name |-> n, type |-> t, ttl |-> ttl, live |-> TRUE]
Row(s, r)         == [set |-> s, payload |-> r, live |-> TRUE]

\* One address in the parent zone.
ParentSets == <<Set(parent, www, "A", 1)>>
ParentData == <<Row(1, Plain(da))>>
\* One in each.
BothSets == <<Set(parent, www, "A", 1), Set(child, www, "A", 1)>>
BothData == <<Row(1, Plain(da)), Row(2, Plain(db))>>
\* Targeted records, and a CNAME beside them.
GeoSets == <<Set(parent, www, "A", 1), Set(parent, www, "CNAME", 2)>>
GeoData == <<Row(1, Plain(da)), Row(1, ForUS(db)), Row(2, Plain(dbad)), Row(2, Plain(da))>>

Create(z, n, t, recs) == [op |-> "createRRSet", zone |-> z, name |-> n, type |-> t,
                          ttl |-> 1, records |-> recs]
Put(z, s, n, t, ttl, recs) == [op |-> "updateRRSet", zone |-> z, set |-> s, name |-> n,
                               type |-> t, ttl |-> ttl, records |-> recs]
Delete(z, s)  == [op |-> "deleteRRSet", zone |-> z, set |-> s]
ZoneReq(o, z) == [op |-> o, zone |-> z]

\* The child's name is no suffix of www, and the web admin, which takes a name
\* with a trailing dot as it is, has put www there.
ForeignUnder == parent :> {www, apexp, apexc} @@ child :> {apexc}

\* Records, their targeting and the choice between A and CNAME change through
\* REST, which invalidates the zone list, and a more specific zone takes the
\* name over through the web admin, which does not.
FreshRequests == {Put(parent, 1, www, "A", 1, <<ForUS(da)>>), Delete(parent, 1),
                  Put(parent, 2, www, "CNAME", 0, <<Plain(dbad)>>),
                  ZoneReq("webCreateZone", child),
                  [op |-> "webCreateRecord", zone |-> child, name |-> www, type |-> "A",
                   ttl |-> 1, payload |-> Plain(db)]}

\* Two zones hold the name, rrsets change keys under a lookup, and the web admin
\* deletes a zone without its rrsets.
MoveRequests == {Put(parent, 1, apexp, "A", 1, <<Plain(db)>>), Delete(parent, 1),
                 Put(child, 2, www, "CNAME", 1, <<Plain(da)>>),
                 ZoneReq("deleteZone", parent), ZoneReq("webDeleteZone", child),
                 [op |-> "webCreateRecord", zone |-> child, name |-> www, type |-> "CNAME",
                  ttl |-> 1, payload |-> Plain(db)]}

PutRequests == {Put(parent, 1, www, "A", 1, <<Plain(db)>>)}
=============================================================================
