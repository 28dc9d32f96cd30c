----------------------------- MODULE GeoSelect -----------------------------
(***************************************************************************)
(* Geographic choice among the records of one rrset, as selectGeoRecords   *)
(* of internal/server/dns/server.go makes it.  The module is purely        *)
(* functional: the resolver applies Select to the records it has read.     *)
(*                                                                         *)
(* A record is an RData row without its keys: its data, with the number in *)
(* the field where an SOA has its serial set apart, and its four optional  *)
(* targeting attributes, Nil when the column is NULL.  A client is what    *)
(* the server knows of the address a question came from: whether there is  *)
(* a valid one at all, what the GeoIP databases say of it (Nil for "" and  *)
(* 0) and which subnets contain it.                                        *)
(***************************************************************************)
EXTENDS Integers

CONSTANTS
    Data,       \* what the data column of a record may hold
    Country,    \* ISO country codes (compared without regard to case)
    Continent,  \* continent codes
    ASN,        \* autonomous system numbers
    Subnet,     \* texts of the subnet column
    Nil         \* a NULL column, an empty GeoIP answer

ASSUME NilAssumption == Nil \notin Country \cup Continent \cup ASN \cup Subnet

Payload == [data      : Data,
            serial    : Int,
            country   : Country \cup {Nil},
            continent : Continent \cup {Nil},
            asn       : ASN \cup {Nil},
            subnet    : Subnet \cup {Nil}]

Client == [valid     : BOOLEAN,
           country   : Country \cup {Nil},
           continent : Continent \cup {Nil},
           asn       : ASN \cup {Nil},
           nets      : SUBSET Subnet]

-----------------------------------------------------------------------------
(***************************************************************************)
(* The tests the loop makes on one record.                                 *)
(***************************************************************************)
BySubnet(r, c)    == r.subnet # Nil /\ r.subnet \in c.nets
ByASN(r, c)       == r.asn # Nil /\ c.asn # Nil /\ r.asn = c.asn
ByCountry(r, c)   == r.country # Nil /\ c.country # Nil /\ r.country = c.country
ByContinent(r, c) == r.continent # Nil /\ c.continent # Nil
                        /\ r.continent = c.continent
IsGeneric(r)      == r.country = Nil /\ r.continent = Nil
                        /\ r.asn = Nil /\ r.subnet = Nil

(***************************************************************************)
(* The buckets of the loop: "continue" puts a record in the first bucket   *)
(* whose test it passes and in no later one.                               *)
(***************************************************************************)
SubnetMatch(recs, c)  == {r \in recs : BySubnet(r, c)}
ASNMatch(recs, c)     == {r \in recs \ SubnetMatch(recs, c) : ByASN(r, c)}
\* Mutant: a record with an ASN is never looked at again for its country.
CountryMatchNoFallThrough(recs, c) == {r \in recs : r.asn = Nil /\ ByCountry(r, c)}

CountryMatch(recs, c) ==
    {r \in recs \ (SubnetMatch(recs, c) \cup ASNMatch(recs, c)) : ByCountry(r, c)}
ContinentMatch(recs, c) ==
    {r \in recs \ (SubnetMatch(recs, c) \cup ASNMatch(recs, c)
                      \cup CountryMatch(recs, c)) : ByContinent(r, c)}
GenericRecords(recs)  == {r \in recs : IsGeneric(r)}

(***************************************************************************)
(* The records of the answer.  A client without a valid address gets the   *)
(* generic records; whoever would get nothing gets every record.           *)
(***************************************************************************)
GenericOrAll(recs) == IF GenericRecords(recs) # {} THEN GenericRecords(recs) ELSE recs

Select(recs, c) ==
    IF ~c.valid                            THEN GenericOrAll(recs)
    ELSE IF SubnetMatch(recs, c) # {}      THEN SubnetMatch(recs, c)
    ELSE IF ASNMatch(recs, c) # {}         THEN ASNMatch(recs, c)
    ELSE IF CountryMatch(recs, c) # {}     THEN CountryMatch(recs, c)
    ELSE IF ContinentMatch(recs, c) # {}   THEN ContinentMatch(recs, c)
    ELSE GenericOrAll(recs)

-----------------------------------------------------------------------------
(***************************************************************************)
(* Reference definition: the rank of a record for a client is the most     *)
(* specific of its attributes the client matches, and the answer is every  *)
(* record of the best rank present, ranks 1 to 5; with none, all records.  *)
(***************************************************************************)
Matches(rank, r, c) ==
    \/ rank = 1 /\ c.valid /\ BySubnet(r, c)
    \/ rank = 2 /\ c.valid /\ ByASN(r, c)
    \/ rank = 3 /\ c.valid /\ ByCountry(r, c)
    \/ rank = 4 /\ c.valid /\ ByContinent(r, c)
    \/ rank = 5 /\ IsGeneric(r)

Best(rank, recs, c) ==
    /\ \E r \in recs : Matches(rank, r, c)
    /\ \A better \in 1 .. (rank - 1), r \in recs : ~Matches(better, r, c)

Targeted(recs, c) ==
    {r \in recs : \/ \E rank \in 1 .. 5 : Best(rank, recs, c) /\ Matches(rank, r, c)
                  \/ \A rank \in 1 .. 5, s \in recs : ~Matches(rank, s, c)}
=============================================================================
