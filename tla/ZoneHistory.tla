---------------------------- MODULE ZoneHistory ----------------------------
(***************************************************************************)
(* ZoneStore with what others have seen of its zones beside it: the serial *)
(* and the rrsets of a zone whenever no bump of its SOA is outstanding.    *)
(***************************************************************************)
EXTENDS ZoneStore

VARIABLES published, unbumped

zoneHistoryVars == <<storeVars, published, unbumped>>

Serials(z) ==
    {rdata[d].payload.serial : d \in UNION {LiveData(s) : s \in SOASets(z)}}

Content(z) ==
    {<<rrsets[s].name, rrsets[s].type, rrsets[s].ttl, Texts(s)>> :
        s \in {i \in DOMAIN rrsets : rrsets[i].live /\ rrsets[i].zone = z
                                        /\ rrsets[i].type # "SOA"}}

\* A request has changed zone z, or was about to, and not yet bumped its SOA.
Bumping(z) ==
    \E h \in Handlers : pc[h] \in {"readSOA", "readSOAData", "writeSOA"} /\ req[h].zone = z

BumpWritten(z) ==
    \E h \in Handlers : pc[h] = "writeSOA" /\ pc'[h] = "invalidate" /\ req[h].zone = z

\* Zones a fault may have left without the bump of their last change, until
\* another bump is written.
Unbumped ==
    IF faults' > faults
    THEN unbumped \cup {z \in Zones : Bumping(z)}
    ELSE unbumped \ {z \in Zones : BumpWritten(z)}

Publication ==
    UNION {{[zone |-> z, serial |-> n, content |-> Content(z)] : n \in Serials(z)} :
             z \in {y \in Zones \ unbumped : ~Bumping(y)}}

HistoryInit == StoreInit /\ unbumped = {} /\ published = Publication
HistoryNext == /\ StoreNext
               /\ unbumped' = Unbumped
               /\ published' = published \cup Publication'
HistorySpec == HistoryInit /\ [][HistoryNext]_zoneHistoryVars

(* What a secondary server relies on: two contents of a zone have two      *)
(* serials, since POST, PUT and DELETE of an rrset and imports each end    *)
(* with a bump, however requests and their bumps overlap.  When a          *)
(* statement fails or the process dies between a change and its bump, the  *)
(* next bump makes up for both.                                            *)
SerialIdentifiesContent ==
    \A p, q \in published :
        p.zone = q.zone /\ p.serial = q.serial => p.content = q.content

(* soa.go:11 "increments its serial": a zone never has a serial below one  *)
(* it has had.  A bump that writes late may undo the bump of another, but  *)
(* none that anyone has seen.                                              *)
NoSerialBelowPublished ==
    \A p \in published : \A n \in Serials(p.zone) : n >= p.serial
=============================================================================
