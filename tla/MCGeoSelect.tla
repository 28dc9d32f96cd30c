---------------------------- MODULE MCGeoSelect ----------------------------
(***************************************************************************)
(* A server that answers questions about one rrset: any set of at most     *)
(* MaxRecords records of Pool, any client of Clients.  The rrset and the   *)
(* client of a question are chosen freely, so the reachable states are all *)
(* the inputs of Select within the bound.                                  *)
(***************************************************************************)
EXTENDS GeoSelect, FiniteSets, FiniteSetsExt

CONSTANTS MaxRecords

VARIABLES recs, client, answer

vars == <<recs, client, answer>>

Datum == CHOOSE d \in Data : TRUE

Pool == {r \in [data : {Datum}, serial : {0}, country : Country \cup {Nil},
                continent : Continent \cup {Nil}, asn : ASN \cup {Nil},
                subnet : Subnet \cup {Nil}] : TRUE}

(* A code or number no record carries is the same to Select as Nil. *)
Clients == {c \in Client : c.valid \/ c.nets = {}}

Init ==
    /\ recs \in UNION {kSubset(k, Pool) : k \in 0 .. MaxRecords}
    /\ client \in Clients
    /\ answer = {}

Ask == /\ client' \in Clients
       /\ answer' = Select(recs, client')
       /\ recs' = recs

Spec == Init /\ [][Ask]_vars

TypeOK == recs \subseteq Pool /\ client \in Clients /\ answer \subseteq recs

-----------------------------------------------------------------------------
(* The buckets of the loop give the answer of the declarative definition:  *)
(* every record of the best rank any record reaches.                       *)
SelectIsTargeted == Select(recs, client) = Targeted(recs, client)
=============================================================================
