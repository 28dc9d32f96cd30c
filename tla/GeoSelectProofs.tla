-------------------------- MODULE GeoSelectProofs --------------------------
(***************************************************************************)
(* The buckets of selectGeoRecords against the declarative definition, for *)
(* any records, clients and codes.                                         *)
(***************************************************************************)
EXTENDS MCGeoSelect, TLAPS

(* The five ranks, one by one.                                             *)
LEMMA Ranks ==
    ASSUME NEW rs, NEW c
    PROVE  /\ \A r \in rs : Matches(1, r, c) <=> c.valid /\ BySubnet(r, c)
           /\ \A r \in rs : Matches(2, r, c) <=> c.valid /\ ByASN(r, c)
           /\ \A r \in rs : Matches(3, r, c) <=> c.valid /\ ByCountry(r, c)
           /\ \A r \in rs : Matches(4, r, c) <=> c.valid /\ ByContinent(r, c)
           /\ \A r \in rs : Matches(5, r, c) <=> IsGeneric(r)
  BY DEF Matches

(* A best rank leaves exactly its own records.                             *)
LEMMA BestRankWins ==
    ASSUME NEW rs, NEW c, NEW k \in 1 .. 5, Best(k, rs, c)
    PROVE  Targeted(rs, c) = {r \in rs : Matches(k, r, c)}
<1>1. ASSUME NEW j \in 1 .. 5, Best(j, rs, c) PROVE j = k
  <2>1. ~(j < k)
    BY <1>1 DEF Best
  <2>2. ~(k < j)
    BY <1>1 DEF Best
  <2> QED BY <1>1, <2>1, <2>2
<1>2. \E r \in rs : Matches(k, r, c)
  BY DEF Best
<1> QED BY <1>1, <1>2 DEF Targeted

(* With no rank reached, the answer is every record.                       *)
LEMMA NoRank ==
    ASSUME NEW rs, NEW c, \A k \in 1 .. 5, r \in rs : ~Matches(k, r, c)
    PROVE  Targeted(rs, c) = rs
  BY DEF Targeted, Best

(* Every answer of selectGeoRecords is the records of the best rank.       *)
THEOREM SelectCorrect ==
    ASSUME NEW rs, NEW c
    PROVE  Select(rs, c) = Targeted(rs, c)
<1> USE Ranks
<1>1. ASSUME \A r \in rs, k \in 1 .. 4 : ~Matches(k, r, c)
      PROVE  GenericOrAll(rs) = Targeted(rs, c)
  <2>1. CASE GenericRecords(rs) # {}
    <3>1. Best(5, rs, c)
      BY <1>1, <2>1 DEF Best, GenericRecords
    <3> QED BY <2>1, <3>1, BestRankWins DEF GenericOrAll, GenericRecords
  <2>2. CASE GenericRecords(rs) = {}
    <3>1. \A k \in 1 .. 5, r \in rs : ~Matches(k, r, c)
      <4>1. \A r \in rs : ~Matches(5, r, c)
        BY <2>2 DEF GenericRecords
      <4>2. \A k \in 1 .. 5 : k \in 1 .. 4 \/ k = 5
        OBVIOUS
      <4> QED BY <1>1, <4>1, <4>2
    <3> QED BY <2>2, <3>1, NoRank DEF GenericOrAll
  <2> QED BY <2>1, <2>2
<1>2. CASE ~c.valid
  <2>1. \A r \in rs, k \in 1 .. 4 : ~Matches(k, r, c)
    BY <1>2 DEF Matches
  <2> QED BY <1>1, <1>2, <2>1 DEF Select
<1>3. CASE c.valid /\ SubnetMatch(rs, c) # {}
  <2>1. Best(1, rs, c)
    BY <1>3 DEF Best, SubnetMatch
  <2> QED BY <1>3, <2>1, BestRankWins DEF Select, SubnetMatch
<1>4. CASE c.valid /\ SubnetMatch(rs, c) = {} /\ ASNMatch(rs, c) # {}
  <2>1. \A r \in rs : ~BySubnet(r, c)
    BY <1>4 DEF SubnetMatch
  <2>2. Best(2, rs, c)
    BY <1>4, <2>1 DEF Best, ASNMatch
  <2>3. ASNMatch(rs, c) = {r \in rs : Matches(2, r, c)}
    BY <1>4 DEF ASNMatch
  <2> QED BY <1>4, <2>2, <2>3, BestRankWins DEF Select
<1>5. CASE /\ c.valid /\ SubnetMatch(rs, c) = {} /\ ASNMatch(rs, c) = {}
           /\ CountryMatch(rs, c) # {}
  <2>1. \A r \in rs : ~BySubnet(r, c) /\ ~ByASN(r, c)
    BY <1>5 DEF SubnetMatch, ASNMatch
  <2>2. CountryMatch(rs, c) = {r \in rs : Matches(3, r, c)}
    BY <1>5 DEF CountryMatch
  <2>3. Best(3, rs, c)
    BY <1>5, <2>1, <2>2 DEF Best
  <2> QED BY <1>5, <2>2, <2>3, BestRankWins DEF Select
<1>6. CASE /\ c.valid /\ SubnetMatch(rs, c) = {} /\ ASNMatch(rs, c) = {}
           /\ CountryMatch(rs, c) = {} /\ ContinentMatch(rs, c) # {}
  <2>1. \A r \in rs : ~BySubnet(r, c) /\ ~ByASN(r, c) /\ ~ByCountry(r, c)
    BY <1>6 DEF SubnetMatch, ASNMatch, CountryMatch
  <2>2. ContinentMatch(rs, c) = {r \in rs : Matches(4, r, c)}
    BY <1>6 DEF ContinentMatch
  <2>3. Best(4, rs, c)
    BY <1>6, <2>1, <2>2 DEF Best
  <2> QED BY <1>6, <2>2, <2>3, BestRankWins DEF Select
<1>7. CASE /\ c.valid /\ SubnetMatch(rs, c) = {} /\ ASNMatch(rs, c) = {}
           /\ CountryMatch(rs, c) = {} /\ ContinentMatch(rs, c) = {}
  <2>1. \A r \in rs : ~BySubnet(r, c) /\ ~ByASN(r, c) /\ ~ByCountry(r, c)
                        /\ ~ByContinent(r, c)
    BY <1>7 DEF SubnetMatch, ASNMatch, CountryMatch, ContinentMatch
  <2>2. \A r \in rs, k \in 1 .. 4 : ~Matches(k, r, c)
    BY <2>1 DEF Matches
  <2> QED BY <1>1, <1>7, <2>2 DEF Select
<1> QED BY <1>2, <1>3, <1>4, <1>5, <1>6, <1>7

(* The property the runs check on small rrsets.                            *)
THEOREM SelectIsTargetedAlways == Spec => []SelectIsTargeted
<1>1. SelectIsTargeted
  BY SelectCorrect DEF SelectIsTargeted
<1> QED BY <1>1, PTL

(* The server answers with records of the rrset, and with one at least     *)
(* when the rrset has one: targeting never makes a name disappear.         *)
THEOREM SelectAnswers ==
    ASSUME NEW rs, NEW c
    PROVE  /\ Select(rs, c) \subseteq rs
           /\ rs # {} => Select(rs, c) # {}
<1>1. Select(rs, c) \subseteq rs
  BY DEF Select, GenericOrAll, SubnetMatch, ASNMatch, CountryMatch, ContinentMatch,
         GenericRecords
<1>2. rs # {} => Select(rs, c) # {}
  BY DEF Select, GenericOrAll
<1> QED BY <1>1, <1>2
=============================================================================
