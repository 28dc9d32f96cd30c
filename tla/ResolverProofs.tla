--------------------------- MODULE ResolverProofs ---------------------------
(***************************************************************************)
(* Invariants of Resolver: types, the provenance and the lifetime of what  *)
(* is cached and sent, and the size of the answer cache, for any zones,    *)
(* requests, questions and capacities.                                     *)
(***************************************************************************)
EXTENDS ResolverHistory, ZoneStoreProofs, FiniteSetTheorems

ZoneCacheOK == zoneCache \in [zones : SUBSET Zones, left : 0 .. ZoneTTL]

(* An entry comes from a zone that covers its key, has time to live and is *)
(* not kept beyond that.                                                   *)
EntryOK(k, e) == e # NoEntry => /\ Covered(k, e.msg)
                                /\ Lifetime(e.msg) > 0
                                /\ e.left <= Lifetime(e.msg)

AnswersOK ==
    /\ answers \in [Key -> Entry \cup {NoEntry}]
    /\ \A k \in Key : EntryOK(k, answers[k])

(* What each step of a question relies on: a zone that covers the name, an *)
(* rrset of that zone, a message about the key.                            *)
Reading == {"readSet", "cnameSet", "readRecords", "cnameRecords"}

QueryOK(q) ==
    /\ q.pc # "idle" => q.key \in Key
    /\ q.pc \in Reading => q.zone \in Zones /\ q.key.name \in Under[q.zone]
    /\ q.pc \in {"readRecords", "cnameRecords"} =>
          q.set \in DOMAIN rrsets /\ rrsets[q.set].zone = q.zone
    /\ q.pc \in {"hit", "store"} => q.msg \in Answer \cup Negative
    /\ q.msg # NoMsg => q.key \in Key /\ Covered(q.key, q.msg)

QueriesOK ==
    /\ query \in [Queries -> Query]
    /\ \A p \in Queries : QueryOK(query[p])

StorePart == StoreInv /\ RowsFound

ResolverInv == StorePart /\ ZoneCacheOK /\ AnswersOK /\ QueriesOK

-----------------------------------------------------------------------------
(***************************************************************************)
(* Operators.                                                              *)
(***************************************************************************)
LEMMA KeysAreKeys ==
    ASSUME NEW k \in Key
    PROVE  CacheKey(k) = k
  BY DEF CacheKey, Key

LEMMA SelectSubset ==
    ASSUME NEW rs, NEW c
    PROVE  Select(rs, c) \subseteq rs
  BY DEF Select, GenericOrAll, SubnetMatch, ASNMatch, CountryMatch, ContinentMatch,
         GenericRecords

LEMMA RecordsType ==
    ASSUME TablesOK, NEW s
    PROVE  Records(s) \subseteq Payload
<1>1. \A i \in DOMAIN rdata : rdata[i] \in DataRow
  BY ElementOfSeq, LenProperties DEF TablesOK
<1> QED BY <1>1 DEF Records, LiveData, DataRow

LEMMA AnswerType ==
    ASSUME TablesOK, NEW s \in DOMAIN rrsets, NEW ttl \in Nat, NEW rs \in SUBSET Payload
    PROVE  /\ AnswerFrom(s, ttl, Rendered(rs)) \in Answer
           /\ AnswerFrom(s, ttl, Rendered(rs)).from = rrsets[s].zone
<1>1. rrsets[s] \in SetRow
  BY ElementOfSeq, LenProperties DEF TablesOK
<1>2. rrsets[s].zone \in Zones
  BY <1>1 DEF SetRow
<1> QED BY <1>2 DEF AnswerFrom, Rendered, Answer

LEMMA LifetimeType ==
    ASSUME NEW m \in Answer \cup Negative
    PROVE  Lifetime(m) \in Nat
  BY ResolverAssumption DEF Lifetime, Answer, Negative

(* A zone that lookup chooses covers the name.                             *)
LEMMA ChosenZoneCovers ==
    ASSUME NEW zs \in SUBSET Zones, NEW n, NEW z \in BestZones(zs, n)
    PROVE  z \in Zones /\ n \in Under[z]
  BY DEF BestZones

-----------------------------------------------------------------------------
(***************************************************************************)
(* The answer cache.                                                       *)
(***************************************************************************)
LEMMA EntryKept ==
    ASSUME AnswersOK, NEW k \in Key, NEW e \in Entry, EntryOK(k, e),
           answers' \in PutResults(answers, k, e)
    PROVE  AnswersOK'
<1>1. \A v : Removed(answers, v) \in [Key -> Entry \cup {NoEntry}]
  BY DEF AnswersOK, Removed
<1>2. \A v : \A j \in Key : EntryOK(j, Removed(answers, v)[j])
  BY DEF AnswersOK, Removed, EntryOK
<1>3. PICK c : /\ c \in [Key -> Entry \cup {NoEntry}]
               /\ \A j \in Key : EntryOK(j, c[j])
               /\ answers' = [c EXCEPT ![k] = e]
  BY <1>1, <1>2 DEF PutResults, AnswersOK
<1>4. answers' \in [Key -> Entry \cup {NoEntry}]
  BY <1>3
<1>5. \A j \in Key : EntryOK(j, answers'[j])
  BY <1>3
<1> QED BY <1>4, <1>5 DEF AnswersOK, EntryOK, Covered, Lifetime

LEMMA EntryRemoved ==
    ASSUME AnswersOK, NEW k, answers' = Removed(answers, k)
    PROVE  AnswersOK'
<1>1. answers' \in [Key -> Entry \cup {NoEntry}]
  BY DEF AnswersOK, Removed
<1>2. \A j \in Key : EntryOK(j, answers'[j])
  BY DEF AnswersOK, Removed, EntryOK
<1> QED BY <1>1, <1>2 DEF AnswersOK, EntryOK, Covered, Lifetime

LEMMA EntriesAged ==
    ASSUME AnswersOK, answers' = Aged(answers)
    PROVE  AnswersOK'
<1>1. ASSUME NEW e \in Entry
      PROVE  /\ AgedEntry(e) \in Entry \cup {NoEntry}
             /\ AgedEntry(e) # NoEntry =>
                   AgedEntry(e).msg = e.msg /\ AgedEntry(e).left <= e.left
  BY DEF AgedEntry, Entry
<1>2. AgedEntry(NoEntry) = NoEntry
  BY DEF AgedEntry
<1>3. answers' \in [Key -> Entry \cup {NoEntry}]
  BY <1>1, <1>2 DEF AnswersOK, Aged
<1>4. ASSUME NEW k \in Key PROVE EntryOK(k, answers'[k])
  <2>1. answers'[k] = AgedEntry(answers[k])
    BY DEF AnswersOK, Aged
  <2>2. CASE answers[k] = NoEntry
    BY <1>2, <2>1, <2>2 DEF EntryOK
  <2>3. CASE answers[k] # NoEntry
    <3>1. answers[k] \in Entry
      BY <2>3 DEF AnswersOK
    <3>2. Lifetime(answers[k].msg) \in Nat /\ answers[k].left \in Int
      BY <3>1, LifetimeType DEF Entry
    <3>3. answers'[k] # NoEntry => answers'[k] \in Entry
      BY <1>3
    <3>4. EntryOK(k, answers[k])
      BY DEF AnswersOK
    <3>5. answers'[k] # NoEntry => answers'[k].left \in Int
      BY <3>3 DEF Entry
    <3> QED BY <1>1, <2>1, <2>3, <3>1, <3>2, <3>4, <3>5 DEF EntryOK
  <2> QED BY <2>2, <2>3
<1> QED BY <1>3, <1>4 DEF AnswersOK, EntryOK, Covered, Lifetime

-----------------------------------------------------------------------------
(***************************************************************************)
(* One question moves, over a database that may have changed meanwhile.    *)
(***************************************************************************)
LEMMA QuestionMoves ==
    ASSUME QueriesOK, NEW p \in Queries, NEW q \in Query, UNCHANGED rrsets, QueryOK(q),
           query' = [query EXCEPT ![p] = q]
    PROVE  QueriesOK'
<1>1. query' \in [Queries -> Query]
  BY DEF QueriesOK
<1>2. \A r \in Queries : query'[r] = IF r = p THEN q ELSE query[r]
  BY DEF QueriesOK
<1>3. \A r \in Queries : QueryOK(query'[r])
  BY <1>2 DEF QueriesOK
<1> QED BY <1>1, <1>3 DEF QueriesOK, QueryOK, Covered

LEMMA QuestionsStay ==
    ASSUME QueriesOK, RowsKept, UNCHANGED query
    PROVE  QueriesOK'
  BY DEF QueriesOK, QueryOK, Covered, RowsKept

LEMMA IdleQuestion == IdleQuery \in Query /\ QueryOK(IdleQuery)
  BY DEF IdleQuery, Query, QueryPC, QueryOK, Reading, NoMsg, Message

LEMMA QuestionDone ==
    ASSUME QueriesOK, NEW p \in Queries, UNCHANGED rrsets, Done(p)
    PROVE  QueriesOK'
  BY IdleQuestion, QuestionMoves DEF Done

LEMMA QuestionFails ==
    ASSUME QueriesOK, NEW p \in Queries, UNCHANGED rrsets, NEW s, Step(p, s),
           \/ s \in {"zones", "fetch", "miss"} /\ query[p].pc \notin {"idle"}
           \/ s = "cnameSet" /\ query[p].pc \in {"readSet", "readRecords"}
    PROVE  QueriesOK'
<1> DEFINE q == [query[p] EXCEPT !.pc = s]
<1>1. query[p] \in Query /\ QueryOK(query[p])
  BY DEF QueriesOK
<1>2. q \in Query /\ query' = [query EXCEPT ![p] = q]
  BY <1>1 DEF Query, QueryPC, Step, QueriesOK
<1>3. QueryOK(q)
  BY <1>1 DEF QueryOK, Reading, Query
<1> HIDE DEF q
<1> QED BY <1>2, <1>3, QuestionMoves

(* lookup picks a zone from a list it was given.                           *)
LEMMA ZoneChosen ==
    ASSUME QueriesOK, NEW p \in Queries, UNCHANGED rrsets, NEW zs \in SUBSET Zones,
           query[p].pc # "idle", ChooseZone(p, zs)
    PROVE  QueriesOK'
<1>1. query[p] \in Query /\ QueryOK(query[p])
  BY DEF QueriesOK
<1>2. CASE query' = [query EXCEPT ![p].pc = "miss", ![p].zones = {}]
  <2> DEFINE q == [query[p] EXCEPT !.pc = "miss", !.zones = {}]
  <2>1. q \in Query /\ query' = [query EXCEPT ![p] = q]
    BY <1>1, <1>2 DEF Query, QueryPC, QueriesOK
  <2>2. QueryOK(q)
    BY <1>1 DEF QueryOK, Reading, Query
  <2> HIDE DEF q
  <2> QED BY <2>1, <2>2, QuestionMoves
<1>3. ASSUME NEW z \in BestZones(zs, query[p].key.name),
             query' = [query EXCEPT ![p].pc = "readSet", ![p].zone = z, ![p].zones = {}]
      PROVE  QueriesOK'
  <2> DEFINE q == [query[p] EXCEPT !.pc = "readSet", !.zone = z, !.zones = {}]
  <2>1. z \in Zones /\ query[p].key.name \in Under[z]
    BY ChosenZoneCovers
  <2>2. q \in Query /\ query' = [query EXCEPT ![p] = q]
    BY <1>1, <1>3, <2>1 DEF Query, QueryPC, QueriesOK
  <2>3. QueryOK(q)
    BY <1>1, <2>1 DEF QueryOK, Reading, Query
  <2> HIDE DEF q
  <2> QED BY <2>2, <2>3, QuestionMoves
<1> QED BY <1>2, <1>3 DEF ChooseZone

(* The rrset found is one of the zone chosen.                              *)
LEMMA SetFound ==
    ASSUME StorePart, QueriesOK, NEW p \in Queries, UNCHANGED rrsets,
           NEW type, NEW found, NEW notFound,
           FindRRSet(p, type, found, notFound),
           query[p].pc \in {"readSet", "cnameSet"},
           found \in {"readRecords", "cnameRecords"},
           notFound \in {"miss", "cnameSet"}, 
           notFound = "cnameSet" => query[p].pc = "readSet"
    PROVE  QueriesOK'
<1>1. query[p] \in Query /\ QueryOK(query[p])
  BY DEF QueriesOK
<1>2. CASE Step(p, notFound)
  BY <1>2, QuestionFails
<1>3. ASSUME NEW s \in LiveSets(query[p].zone, query[p].key.name, type),
             query' = [query EXCEPT ![p].pc = found, ![p].set = s, ![p].ttl = rrsets[s].ttl]
      PROVE  QueriesOK'
  <2> DEFINE q == [query[p] EXCEPT !.pc = found, !.set = s, !.ttl = rrsets[s].ttl]
  <2>1. s \in DOMAIN rrsets /\ rrsets[s].zone = query[p].zone
    BY DEF LiveSets, HasKey
  <2>2. s \in Nat /\ rrsets[s] \in SetRow
    BY <2>1, LenProperties, ElementOfSeq DEF StorePart, StoreInv, TablesOK
  <2>3. rrsets[s].ttl \in Nat
    BY <2>2 DEF SetRow
  <2>4. q \in Query /\ query' = [query EXCEPT ![p] = q]
    BY <1>1, <1>3, <2>2, <2>3 DEF Query, QueryPC, QueriesOK
  <2>5. QueryOK(q)
    BY <1>1, <2>1 DEF QueryOK, Reading, Query
  <2> HIDE DEF q
  <2> QED BY <2>4, <2>5, QuestionMoves
<1> QED BY <1>2, <1>3 DEF FindRRSet

(* A message about its key is sent.                                        *)
LEMMA MessageSent ==
    ASSUME QueriesOK, NEW p \in Queries, UNCHANGED rrsets,
           query[p].pc # "idle", NEW m \in Answer \cup Negative,
           Covered(query[p].key, m), Send(p, m)
    PROVE  QueriesOK'
<1> DEFINE q == [query[p] EXCEPT !.pc = "store", !.msg = m]
<1>1. query[p] \in Query /\ QueryOK(query[p])
  BY DEF QueriesOK
<1>2. q \in Query /\ query' = [query EXCEPT ![p] = q]
  BY <1>1 DEF Query, QueryPC, QueriesOK, Send, Message
<1>3. QueryOK(q)
  BY <1>1 DEF QueryOK, Reading, Query
<1> HIDE DEF q
<1> QED BY <1>2, <1>3, QuestionMoves

(* The records read are answered with, or lead to a miss.                  *)
LEMMA LookupConcludes ==
    ASSUME StorePart, QueriesOK, NEW p \in Queries, UNCHANGED rrsets,
           query[p].pc \in {"readRecords", "cnameRecords"},
           NEW rs \in SUBSET Payload, Conclude(p, rs)
    PROVE  QueriesOK'
<1> DEFINE m == AnswerFrom(query[p].set, query[p].ttl, Rendered(rs))
<1>1. query[p] \in Query /\ QueryOK(query[p])
  BY DEF QueriesOK
<1>2. CASE Step(p, "miss")
  BY <1>2, QuestionFails
<1>3. CASE Send(p, m)
  <2>1. /\ query[p].set \in DOMAIN rrsets /\ query[p].ttl \in Nat
        /\ query[p].key.name \in Under[rrsets[query[p].set].zone]
    BY <1>1 DEF QueryOK, Reading, Query
  <2>2. m \in Answer /\ m.from = rrsets[query[p].set].zone
    BY <2>1, AnswerType DEF StorePart, StoreInv
  <2> HIDE DEF m
  <2>3. Covered(query[p].key, m)
    BY <2>1, <2>2 DEF Covered
  <2> QED BY <1>3, <2>2, <2>3, MessageSent
<1> QED BY <1>2, <1>3 DEF Conclude

(* Every step of a question once received.                                 *)
LEMMA ServeStep ==
    ASSUME ResolverInv, NEW p \in Queries, Serve(p)
    PROVE  ZoneCacheOK' /\ AnswersOK' /\ QueriesOK'
<1>1. StorePart /\ ZoneCacheOK /\ AnswersOK /\ QueriesOK /\ TablesOK
  BY DEF ResolverInv, StorePart, StoreInv
<1>2. query[p] \in Query /\ QueryOK(query[p])
  BY <1>1 DEF QueriesOK
<1>3. UNCHANGED rrsets
  BY DEF Serve, ReplyHit, Purge, GetZones, FetchZones, FillZones, ReadSet, ReadRecords,
         CnameSet, CnameRecords, Miss, StoreAnswer, storeVars
<1>4. ASSUME UNCHANGED answers PROVE AnswersOK'
  BY <1>1, <1>4 DEF AnswersOK, EntryOK, Covered, Lifetime
<1>5. ASSUME UNCHANGED caches PROVE ZoneCacheOK' /\ AnswersOK'
  BY <1>1, <1>4, <1>5 DEF ZoneCacheOK, caches
<1>6. CASE ReplyHit(p)
  BY <1>1, <1>3, <1>5, <1>6, QuestionDone DEF ReplyHit
<1>7. CASE Purge(p)
  <2>1. QueriesOK'
    BY <1>1, <1>3, <1>7, QuestionFails DEF Purge, At
  <2>2. AnswersOK'
    BY <1>1, <1>7, EntryRemoved DEF Purge
  <2> QED BY <1>1, <1>7, <2>1, <2>2 DEF Purge, ZoneCacheOK
<1>8. CASE GetZones(p)
  <2>1. zoneCache.zones \in SUBSET Zones
    BY <1>1 DEF ZoneCacheOK
  <2>2. QueriesOK'
    BY <1>1, <1>3, <1>8, <2>1, ZoneChosen, QuestionFails DEF GetZones, At
  <2> QED BY <1>5, <1>8, <2>2 DEF GetZones
<1>9. CASE FetchZones(p)
  <2> DEFINE q == [query[p] EXCEPT !.pc = "fill", !.zones = LiveZones]
  <2>1. q \in Query /\ query' = [query EXCEPT ![p] = q]
    BY <1>1, <1>2, <1>9 DEF FetchZones, Query, QueryPC, QueriesOK, LiveZones
  <2>2. QueryOK(q)
    BY <1>2, <1>9 DEF QueryOK, Reading, Query, FetchZones, At
  <2> HIDE DEF q
  <2>3. QueriesOK'
    BY <1>1, <1>3, <2>1, <2>2, QuestionMoves
  <2> QED BY <1>5, <1>9, <2>3 DEF FetchZones
<1>10. CASE FillZones(p)
  <2>1. query[p].zones \in SUBSET Zones
    BY <1>2 DEF Query
  <2>2. QueriesOK'
    BY <1>1, <1>3, <1>10, <2>1, ZoneChosen DEF FillZones, At
  <2>3. ZoneCacheOK'
    BY <1>10, <2>1, ResolverAssumption DEF FillZones, ZoneCacheOK
  <2> QED BY <1>4, <1>10, <2>2, <2>3 DEF FillZones
<1>11. CASE ReadSet(p) \/ CnameSet(p)
  <2>1. QueriesOK'
    BY <1>1, <1>3, <1>11, SetFound DEF ReadSet, CnameSet, At
  <2> QED BY <1>5, <1>11, <2>1 DEF ReadSet, CnameSet
<1>12. CASE ReadRecords(p) \/ CnameRecords(p)
  <2>1. \A s : Records(s) \in SUBSET Payload
    BY <1>1, RecordsType
  <2>2. \A s, c : Select(Records(s), c) \in SUBSET Payload
    BY <2>1, SelectSubset
  <2>3. QueriesOK'
    BY <1>1, <1>3, <1>12, <2>1, <2>2, LookupConcludes DEF ReadRecords, CnameRecords, At
  <2> QED BY <1>5, <1>12, <2>3 DEF ReadRecords, CnameRecords
<1>13. CASE Miss(p)
  <2>1. ASSUME NEW m \in Negative, Send(p, m) PROVE QueriesOK'
    <3>1. Covered(query[p].key, m)
      BY DEF Covered, Negative
    <3> QED BY <1>1, <1>3, <1>13, <2>1, <3>1, MessageSent DEF Miss, At
  <2>2. [kind |-> "nxdomain"] \in Negative /\ [kind |-> "upstreamNegative"] \in Negative
    BY DEF Negative
  <2>3. QueriesOK'
    BY <1>1, <1>3, <1>13, <2>1, <2>2, QuestionDone DEF Miss
  <2> QED BY <1>5, <1>13, <2>3 DEF Miss
<1>14. CASE StoreAnswer(p)
  <2> DEFINE k == query[p].key
             m == query[p].msg
             e == [msg |-> m, left |-> Lifetime(m)]
  <2>1. /\ k \in Key /\ CacheKey(k) = k
        /\ m \in Answer \cup Negative /\ m # NoMsg /\ Covered(k, m)
    <3>1. k \in Key /\ m \in Answer \cup Negative
      BY <1>2, <1>14 DEF StoreAnswer, At, QueryOK
    <3>2. m # NoMsg
      BY <3>1 DEF Answer, Negative, NoMsg
    <3> QED BY <1>2, <3>1, <3>2, KeysAreKeys DEF QueryOK
  <2>2. e \in Entry /\ (Lifetime(m) > 0 => EntryOK(k, e))
    BY <2>1, LifetimeType DEF Entry, EntryOK
  <2>3. AnswersOK'
    <3>1. CASE UNCHANGED answers
      BY <1>4, <3>1
    <3>2. CASE Lifetime(m) > 0 /\ answers' \in PutResults(answers, k, e)
      BY <1>1, <2>1, <2>2, <3>2, EntryKept
    <3> QED BY <1>14, <2>1, <3>1, <3>2 DEF StoreAnswer
  <2>4. QueriesOK'
    BY <1>1, <1>3, <1>14, QuestionDone DEF StoreAnswer
  <2> QED BY <1>1, <1>14, <2>3, <2>4 DEF StoreAnswer, ZoneCacheOK
<1> QED BY <1>6, <1>7, <1>8, <1>9, <1>10, <1>11, <1>12, <1>13, <1>14 DEF Serve

(* A question arrives and meets the answer cache.                          *)
LEMMA ReceiveStep ==
    ASSUME ResolverInv, NEW p \in Queries, Receive(p)
    PROVE  ZoneCacheOK' /\ AnswersOK' /\ QueriesOK'
<1>1. ZoneCacheOK /\ AnswersOK /\ QueriesOK
  BY DEF ResolverInv
<1>2. UNCHANGED <<rrsets, zoneCache, answers>>
  BY DEF Receive, storeVars, caches
<1>3. ZoneCacheOK' /\ AnswersOK'
  BY <1>1, <1>2 DEF ZoneCacheOK, AnswersOK, EntryOK, Covered, Lifetime
<1>4. PICK k \in Key :
         query' = [query EXCEPT ![p] =
            CASE IsHit(answers, CacheKey(k)) ->
                   [IdleQuery EXCEPT !.key = k, !.pc = "hit", !.msg = answers[CacheKey(k)].msg]
              [] IsExpired(answers, CacheKey(k)) ->
                   [IdleQuery EXCEPT !.key = k, !.pc = "purge"]
              [] answers[CacheKey(k)] = NoEntry ->
                   [IdleQuery EXCEPT !.key = k, !.pc = "zones"]]
  BY DEF Receive
<1>5. CacheKey(k) = k
  BY KeysAreKeys
<1> DEFINE hit   == [IdleQuery EXCEPT !.key = k, !.pc = "hit", !.msg = answers[k].msg]
           purge == [IdleQuery EXCEPT !.key = k, !.pc = "purge"]
           miss  == [IdleQuery EXCEPT !.key = k, !.pc = "zones"]
<1>6. purge \in Query /\ QueryOK(purge) /\ miss \in Query /\ QueryOK(miss)
  BY DEF IdleQuery, Query, QueryPC, QueryOK, Reading, NoMsg, Message
<1>7. ASSUME IsHit(answers, k) PROVE hit \in Query /\ QueryOK(hit)
  <2>1. answers[k] \in Entry /\ EntryOK(k, answers[k])
    BY <1>1, <1>7 DEF AnswersOK, IsHit
  <2>2. answers[k].msg \in Answer \cup Negative /\ Covered(k, answers[k].msg)
    BY <1>7, <2>1 DEF Entry, EntryOK, IsHit
  <2> QED BY <2>2 DEF IdleQuery, Query, QueryPC, QueryOK, Reading, Message
<1>8. IsHit(answers, k) \/ IsExpired(answers, k) \/ answers[k] = NoEntry
  <2>1. answers[k] # NoEntry => answers[k].left \in Int
    BY <1>1 DEF AnswersOK, Entry
  <2> QED BY <2>1 DEF IsHit, IsExpired
<1>9. /\ IsHit(answers, k) => ~IsExpired(answers, k) /\ answers[k] # NoEntry
      /\ IsExpired(answers, k) => answers[k] # NoEntry
  <2>1. answers[k] # NoEntry => answers[k].left \in Int
    BY <1>1 DEF AnswersOK, Entry
  <2> QED BY <2>1 DEF IsHit, IsExpired
<1>10. PICK q \in {hit, purge, miss} : /\ query' = [query EXCEPT ![p] = q]
                                       /\ q = hit => IsHit(answers, k) \/ q \in {purge, miss}
  <2> HIDE DEF hit, purge, miss
  <2>1. query' = [query EXCEPT ![p] = CASE IsHit(answers, k)     -> hit
                                         [] IsExpired(answers, k) -> purge
                                         [] answers[k] = NoEntry  -> miss]
    BY <1>4, <1>5 DEF hit, purge, miss
  <2> QED BY <1>8, <1>9, <2>1
<1> HIDE DEF hit, purge, miss
<1>11. q \in Query /\ QueryOK(q)
  BY <1>6, <1>7, <1>10
<1> QED BY <1>1, <1>2, <1>3, <1>10, <1>11, QuestionMoves

-----------------------------------------------------------------------------
(***************************************************************************)
(* The invariant.                                                          *)
(***************************************************************************)

(* A step is one of the store's or leaves tables and handlers alone.       *)
LEMMA QuestionsOrStore ==
    ASSUME [Next]_vars
    PROVE  \/ [StoreNext]_storeVars
           \/ /\ UNCHANGED <<tables, handlers, issued>>
              /\ faults < MaxFaults /\ faults' = faults + 1
<1>1. ASSUME NEW p \in Queries, LookupFails(p)
      PROVE  /\ UNCHANGED <<tables, handlers, issued>>
             /\ faults < MaxFaults /\ faults' = faults + 1
  BY <1>1 DEF LookupFails
<1>2. ASSUME NEW p \in Queries, Receive(p) \/ Serve(p) PROVE UNCHANGED storeVars
  BY <1>2 DEF Receive, Serve, ReplyHit, Purge, GetZones, FetchZones, FillZones, ReadSet,
              ReadRecords, CnameSet, CnameRecords, Miss, StoreAnswer
<1>3. ASSUME NEW h \in Handlers, Admin(h) \/ AdminRequest(h) \/ InvalidateZoneCache(h)
      PROVE  StoreNext
  BY <1>3 DEF Admin, AdminRequest, InvalidateZoneCache, StoreNext
<1>4. Tick => UNCHANGED storeVars
  BY DEF Tick
<1>5. Restart => StoreNext
  BY DEF Restart, StoreNext
<1>6. UNCHANGED vars => UNCHANGED storeVars
  BY DEF vars
<1> QED BY <1>1, <1>2, <1>3, <1>4, <1>5, <1>6 DEF Next

LEMMA StorePartStep ==
    ASSUME StorePart, [Next]_vars
    PROVE  StorePart' /\ RowsKept
<1>1. CASE [StoreNext]_storeVars
  BY <1>1, StoreInvStep, RowsFoundStep, RowsKeptStep DEF StorePart
<1>2. CASE /\ UNCHANGED <<tables, handlers, issued>>
           /\ faults < MaxFaults /\ faults' = faults + 1
  <2>1. CountersOK'
    BY <1>2, StoreAssumption DEF StorePart, StoreInv, CountersOK
  <2>2. TablesOK' /\ HandlersOK' /\ KeysUnique' /\ RowsFound' /\ RowsKept
    BY <1>2 DEF StorePart, StoreInv, TablesOK, HandlersOK, KeysUnique, RowsFound, RowsKept,
                tables, handlers
  <2> QED BY <2>1, <2>2 DEF StorePart, StoreInv
<1> QED BY <1>1, <1>2, QuestionsOrStore

LEMMA ResolverInvInit == Init => ResolverInv
<1> SUFFICES ASSUME Init PROVE ResolverInv
  OBVIOUS
<1>1. StorePart
  BY StoreInvInit, RowsFoundInit DEF Init, StorePart
<1>2. ZoneCacheOK
  BY ResolverAssumption DEF Init, ZoneCacheOK, EmptyZoneCache
<1>3. AnswersOK
  BY DEF Init, AnswersOK, EmptyCache, EntryOK
<1>4. QueriesOK
  BY IdleQuestion DEF Init, QueriesOK
<1> QED BY <1>1, <1>2, <1>3, <1>4 DEF ResolverInv

LEMMA ResolverInvStep == ResolverInv /\ [Next]_vars => ResolverInv'
<1> SUFFICES ASSUME ResolverInv, [Next]_vars PROVE ResolverInv'
  OBVIOUS
<1>1. StorePart' /\ RowsKept
  BY StorePartStep DEF ResolverInv
<1>2. StorePart /\ ZoneCacheOK /\ AnswersOK /\ QueriesOK
  BY DEF ResolverInv
<1>3. ASSUME UNCHANGED answers PROVE AnswersOK'
  BY <1>2, <1>3 DEF AnswersOK, EntryOK, Covered, Lifetime
<1>4. CASE UNCHANGED <<zoneCache, answers, query>>
  BY <1>1, <1>2, <1>3, <1>4, QuestionsStay DEF ResolverInv, ZoneCacheOK
<1>5. ASSUME NEW p \in Queries, Receive(p) \/ Serve(p) PROVE ResolverInv'
  BY <1>1, <1>5, ReceiveStep, ServeStep DEF ResolverInv
<1>6. ASSUME NEW p \in Queries, LookupFails(p) PROVE ResolverInv'
  <2>1. UNCHANGED <<rrsets, zoneCache, answers>>
    BY <1>6 DEF LookupFails, tables, caches
  <2>2. QueriesOK'
    BY <1>2, <1>6, <2>1, QuestionFails DEF LookupFails
  <2> QED BY <1>1, <1>2, <1>3, <2>1, <2>2 DEF ResolverInv, ZoneCacheOK
<1>7. ASSUME NEW h \in Handlers, InvalidateZoneCache(h) PROVE ResolverInv'
  <2>1. ZoneCacheOK'
    BY <1>7, ResolverAssumption DEF InvalidateZoneCache, ZoneCacheOK, EmptyZoneCache
  <2>2. QueriesOK'
    BY <1>1, <1>2, <1>7, QuestionsStay DEF InvalidateZoneCache
  <2> QED BY <1>1, <1>3, <1>7, <2>1, <2>2 DEF InvalidateZoneCache, ResolverInv
<1>8. ASSUME NEW h \in Handlers, Admin(h) \/ AdminRequest(h) PROVE ResolverInv'
  BY <1>4, <1>8 DEF Admin, AdminRequest, caches
<1>9. CASE Tick
  <2>1. ZoneCacheOK'
    BY <1>2, <1>9, ResolverAssumption DEF Tick, ZoneCacheOK
  <2>2. AnswersOK'
    BY <1>2, <1>9, EntriesAged DEF Tick
  <2>3. QueriesOK'
    BY <1>1, <1>2, <1>9, QuestionsStay DEF Tick
  <2> QED BY <1>1, <2>1, <2>2, <2>3 DEF ResolverInv
<1>10. CASE Restart
  <2>1. ZoneCacheOK'
    BY <1>10, ResolverAssumption DEF Restart, ZoneCacheOK, EmptyZoneCache
  <2>2. AnswersOK'
    BY <1>10 DEF Restart, AnswersOK, EmptyCache, EntryOK
  <2>3. QueriesOK'
    BY <1>10, IdleQuestion DEF Restart, QueriesOK, QueryOK, IdleQuery, Reading
  <2> QED BY <1>1, <2>1, <2>2, <2>3 DEF ResolverInv
<1> QED BY <1>4, <1>5, <1>6, <1>7, <1>8, <1>9, <1>10 DEF Next, vars

THEOREM ResolverInvAlways == Spec => []ResolverInv
  BY ResolverInvInit, ResolverInvStep, PTL DEF Spec

(* The caches and the questions in progress always have their types.       *)
THEOREM ResolverTyped == Spec => []ResolverTypeOK
<1>1. ResolverInv => ResolverTypeOK
  BY DEF ResolverInv, StorePart, StoreInv, TablesOK, HandlersOK, CountersOK, StoreTypeOK,
         ZoneCacheOK, AnswersOK, QueriesOK, ResolverTypeOK
<1> QED BY <1>1, ResolverInvAlways, PTL

(* Whatever admin requests do to zones and rrsets between the statements   *)
(* of a lookup, its answer comes from a zone that covers the name.         *)
THEOREM AnswersCovered == Spec => []AnswersFromCoveringZone
<1>1. ResolverInv => AnswersFromCoveringZone
  BY DEF ResolverInv, AnswersOK, EntryOK, QueriesOK, QueryOK, AnswersFromCoveringZone
<1> QED BY <1>1, ResolverInvAlways, PTL

(* No message stays in the cache longer than its TTL.                      *)
THEOREM EntriesExpire == Spec => []NoEntryOutlivesTTL
<1>1. ResolverInv => NoEntryOutlivesTTL
  BY DEF ResolverInv, AnswersOK, EntryOK, NoEntryOutlivesTTL
<1> QED BY <1>1, ResolverInvAlways, PTL

-----------------------------------------------------------------------------
(***************************************************************************)
(* The size of the answer cache.                                           *)
(***************************************************************************)
HeldFinite == IsFiniteSet(Held(answers)) /\ CacheBounded

LEMMA SmallerCache ==
    ASSUME HeldFinite, Held(answers') \subseteq Held(answers)
    PROVE  HeldFinite'
<1> DEFINE max == IF CacheSize = 0 THEN 1 ELSE CacheSize
<1>1. IsFiniteSet(Held(answers')) /\ Cardinality(Held(answers')) <= Cardinality(Held(answers))
  BY FS_Subset DEF HeldFinite
<1>2. Cardinality(Held(answers)) \in Nat /\ Cardinality(Held(answers')) \in Nat /\ max \in Nat
  BY <1>1, FS_CardinalityType, CacheAssumption DEF HeldFinite
<1> QED BY <1>1, <1>2 DEF HeldFinite, CacheBounded

(* Set evicts one entry of a full cache before it adds one.                *)
LEMMA SetKeepsBound ==
    ASSUME HeldFinite, NEW k, NEW e, answers' \in PutResults(answers, k, e)
    PROVE  HeldFinite'
<1> DEFINE n   == Cardinality(Held(answers))
           max == IF CacheSize = 0 THEN 1 ELSE CacheSize
<1>1. n \in Nat /\ max \in Nat /\ n <= max /\ IsFiniteSet(Held(answers))
      /\ CacheSize \in Nat
  BY FS_CardinalityType, CacheAssumption DEF HeldFinite, CacheBounded
<1>2. ASSUME NEW S, IsFiniteSet(S), Held(answers') \subseteq S \cup {k},
             Cardinality(S) + 1 <= max
      PROVE  HeldFinite'
  <2>1. IsFiniteSet(S \cup {k}) /\ Cardinality(S \cup {k}) <= Cardinality(S) + 1
        /\ Cardinality(S) \in Nat /\ Cardinality(S \cup {k}) \in Nat
    <3>1. /\ IsFiniteSet(S \cup {k})
          /\ Cardinality(S \cup {k}) =
                IF k \in S THEN Cardinality(S) ELSE Cardinality(S) + 1
      BY <1>2, FS_AddElement
    <3>2. Cardinality(S) \in Nat /\ Cardinality(S \cup {k}) \in Nat
      BY <1>2, <3>1, FS_CardinalityType
    <3> QED BY <3>1, <3>2
  <2>2. IsFiniteSet(Held(answers')) /\ Cardinality(Held(answers')) <= Cardinality(S \cup {k})
        /\ Cardinality(Held(answers')) \in Nat
    BY <1>2, <2>1, FS_Subset, FS_CardinalityType
  <2>3. Cardinality(Held(answers')) <= max
    BY <1>1, <1>2, <2>1, <2>2
  <2> QED BY <2>2, <2>3 DEF HeldFinite, CacheBounded
<1>3. CASE n >= CacheSize /\ Held(answers) # {}
  <2>1. PICK v \in Held(answers) : answers' = [Removed(answers, v) EXCEPT ![k] = e]
    BY <1>3 DEF PutResults
  <2> DEFINE S == Held(answers) \ {v}
  <2>2. Held(answers') \subseteq S \cup {k}
    BY <2>1 DEF Held, Removed
  <2>3. IsFiniteSet(S) /\ Cardinality(S) = n - 1
    BY <1>1, FS_RemoveElement
  <2> HIDE DEF S
  <2> QED BY <1>1, <1>2, <2>2, <2>3
<1>4. CASE ~(n >= CacheSize /\ Held(answers) # {})
  <2>1. answers' = [answers EXCEPT ![k] = e]
    BY <1>4 DEF PutResults
  <2>2. Held(answers') \subseteq Held(answers) \cup {k}
    BY <2>1 DEF Held
  <2>3. Held(answers) = {} => n = 0
    BY FS_EmptySet
  <2>4. n + 1 <= max
    BY <1>1, <1>4, <2>3
  <2> QED BY <1>1, <1>2, <2>2, <2>4
<1> QED BY <1>3, <1>4

LEMMA HeldFiniteStep == HeldFinite /\ [Next]_vars => HeldFinite'
<1> SUFFICES ASSUME HeldFinite, [Next]_vars PROVE HeldFinite'
  OBVIOUS
<1>1. CASE UNCHANGED answers
  BY <1>1 DEF HeldFinite, CacheBounded
<1>2. CASE answers' = Aged(answers) \/ answers' = EmptyCache(Key)
  BY <1>2, SmallerCache DEF Aged, AgedEntry, EmptyCache, Held
<1>3. ASSUME NEW p \in Queries, Purge(p) PROVE HeldFinite'
  BY <1>3, SmallerCache DEF Purge, Removed, Held
<1>4. ASSUME NEW p \in Queries, StoreAnswer(p) PROVE HeldFinite'
  BY <1>1, <1>4, SetKeepsBound DEF StoreAnswer
<1>5. ASSUME NEW p \in Queries, Receive(p) \/ Serve(p) \/ LookupFails(p) PROVE HeldFinite'
  BY <1>1, <1>3, <1>4, <1>5
     DEF Receive, Serve, ReplyHit, GetZones, FetchZones, FillZones, ReadSet, ReadRecords,
         CnameSet, CnameRecords, Miss, LookupFails, caches
<1>6. ASSUME NEW h \in Handlers, Admin(h) \/ AdminRequest(h) \/ InvalidateZoneCache(h)
      PROVE  HeldFinite'
  BY <1>1, <1>6 DEF Admin, AdminRequest, InvalidateZoneCache, caches
<1> QED BY <1>1, <1>2, <1>5, <1>6 DEF Next, Tick, Restart, vars

(* The answer cache never outgrows its capacity, whichever entry each      *)
(* eviction takes and however Sets, purges and restarts interleave.        *)
THEOREM CacheStaysBounded == Spec => []CacheBounded
<1>1. Init => HeldFinite
  <2>1. Held(EmptyCache(Key)) = {}
    BY DEF Held, EmptyCache
  <2>2. IsFiniteSet({}) /\ Cardinality({}) = 0
    BY FS_EmptySet
  <2> QED BY <2>1, <2>2, CacheAssumption DEF Init, HeldFinite, CacheBounded
<1>2. HeldFinite => CacheBounded
  BY DEF HeldFinite
<1> QED BY <1>1, <1>2, HeldFiniteStep, PTL DEF Spec

-----------------------------------------------------------------------------
(***************************************************************************)
(* Lookups and deleted zones.                                              *)
(***************************************************************************)
LEMMA OtherQuestions ==
    ASSUME QueriesOK, NEW p \in Queries, NEW q \in Queries, p # q,
           Receive(q) \/ Serve(q) \/ LookupFails(q)
    PROVE  query'[p] = query[p]
<1> USE DEF QueriesOK
<1>1. ASSUME NEW s, Step(q, s) PROVE query'[p] = query[p]
  BY <1>1 DEF Step
<1>2. ASSUME NEW m, Send(q, m) PROVE query'[p] = query[p]
  BY <1>2 DEF Send
<1>3. ASSUME Done(q) PROVE query'[p] = query[p]
  BY <1>3 DEF Done
<1>4. ASSUME NEW zs, ChooseZone(q, zs) PROVE query'[p] = query[p]
  BY <1>1, <1>4 DEF ChooseZone
<1>5. ASSUME NEW t, NEW f, NEW n, FindRRSet(q, t, f, n) PROVE query'[p] = query[p]
  BY <1>1, <1>5 DEF FindRRSet
<1>6. ASSUME NEW recs, Conclude(q, recs) PROVE query'[p] = query[p]
  BY <1>1, <1>2, <1>6 DEF Conclude
<1>7. CASE Receive(q)
  BY <1>7 DEF Receive
<1>8. CASE LookupFails(q)
  BY <1>1, <1>8 DEF LookupFails
<1>9. CASE ReplyHit(q) \/ Purge(q) \/ Miss(q) \/ StoreAnswer(q)
  BY <1>1, <1>2, <1>3, <1>9 DEF ReplyHit, Purge, Miss, StoreAnswer
<1>10. CASE GetZones(q) \/ FetchZones(q) \/ FillZones(q)
  BY <1>1, <1>4, <1>10 DEF GetZones, FetchZones, FillZones
<1>11. CASE ReadSet(q) \/ CnameSet(q)
  BY <1>5, <1>11 DEF ReadSet, CnameSet
<1>12. CASE ReadRecords(q) \/ CnameRecords(q)
  BY <1>6, <1>12 DEF ReadRecords, CnameRecords
<1> QED BY <1>7, <1>8, <1>9, <1>10, <1>11, <1>12 DEF Serve

LEMMA FoundByLookup ==
    ASSUME QueriesOK, [Next]_vars, NEW p \in Queries, Finds(p)
    PROVE  ReadSet(p) \/ CnameSet(p)
<1>1. query'[p] # query[p]
  BY DEF Finds
<1>2. ~UNCHANGED query
  BY <1>1
<1>3. ASSUME Restart PROVE FALSE
  BY <1>3 DEF Restart, IdleQuery, Finds
<1>4. PICK q \in Queries : Receive(q) \/ Serve(q) \/ LookupFails(q)
  BY <1>2, <1>3 DEF Next, Admin, AdminRequest, InvalidateZoneCache, Tick, vars
<1>5. q = p
  BY <1>1, <1>4, OtherQuestions
<1>6. ~LookupFails(p) /\ ~Receive(p)
  BY DEF LookupFails, Receive, Step, At, Finds, QueriesOK, Query
<1>7. Serve(p)
  BY <1>4, <1>5, <1>6
<1> QED BY <1>7
        DEF Serve, ReplyHit, Purge, GetZones, FetchZones, FillZones, ReadRecords, CnameRecords,
            Miss, StoreAnswer, At, Finds

LEMMA FoundIsLive ==
    ASSUME ResolverInv, [Next]_vars, NEW p \in Queries, Finds(p)
    PROVE  query'[p].set \in DOMAIN rrsets /\ rrsets[query'[p].set].live
<1>1. QueriesOK
  BY DEF ResolverInv
<1>2. ReadSet(p) \/ CnameSet(p)
  BY <1>1, FoundByLookup
<1>3. ASSUME NEW t, NEW f, NEW n, n \notin {"readRecords", "cnameRecords"},
             FindRRSet(p, t, f, n)
      PROVE  query'[p].set \in DOMAIN rrsets /\ rrsets[query'[p].set].live
  <2>1. ~Step(p, n)
    BY <1>1, <1>3 DEF Step, Finds, QueriesOK, Query
  <2>2. PICK s \in LiveSets(query[p].zone, query[p].key.name, t) :
            query' = [query EXCEPT ![p].pc = f, ![p].set = s, ![p].ttl = rrsets[s].ttl]
    BY <1>3, <2>1 DEF FindRRSet
  <2>3. query'[p].set = s
    BY <1>1, <2>2 DEF QueriesOK, Query
  <2> QED BY <2>2, <2>3 DEF LiveSets
<1> QED BY <1>2, <1>3 DEF ReadSet, CnameSet

(* A step of the server is an admin request's, or leaves the database.     *)
LEMMA DeletionsKept ==
    ASSUME ResolverInv, DeletionsInv, [HNext]_historyVars
    PROVE  DeletionsInv'
<1>1. CASE HNext
  <2>1. RememberDeletions /\ Next
    BY <1>1 DEF HNext
  <2>2. [StoreNext]_storeVars \/ UNCHANGED <<tables, handlers>>
    BY <2>1, QuestionsOrStore
  <2>3. CASE StoreNext
    BY <2>1, <2>3, DeletionsStep DEF ResolverInv, StorePart
  <2>4. CASE UNCHANGED <<tables, handlers>>
    BY <2>1, <2>4, QuietDeletions
  <2> QED BY <2>2, <2>3, <2>4 DEF storeVars, tables, handlers
<1>2. CASE UNCHANGED historyVars
  <2>1. UNCHANGED <<tables, handlers, deletions>>
    BY <1>2 DEF historyVars, vars, storeVars, tables, handlers
  <2> QED BY <2>1, UnchangedDeletions
<1> QED BY <1>1, <1>2

(* A lookup never finds an rrset of a zone that REST has deleted, however  *)
(* old the zone list it goes by, but one that a request wrote that had     *)
(* found the zone before: with any questions and requests overlapping, the *)
(* web admin's too, with faults and restarts.                              *)
THEOREM LookupsPass == HSpec => LookupsPassOverDeleted
<1> DEFINE Passes == \A p \in Queries : Finds(p) =>
                        \/ rrsets[query'[p].set].zone \notin deletedZones
                        \/ query'[p].set \in leftovers
<1>1. [HNext]_historyVars => [Next]_vars
  BY DEF HNext, historyVars
<1>2. ResolverInv /\ DeletionsInv /\ [HNext]_historyVars => (ResolverInv /\ DeletionsInv)'
  BY <1>1, ResolverInvStep, DeletionsKept
<1>3. ResolverInv /\ DeletionsInv /\ [HNext]_historyVars => [Passes]_historyVars
  BY <1>1, FoundIsLive DEF DeletionsInv, Remembered
<1>4. HInit => ResolverInv /\ DeletionsInv
  BY ResolverInvInit, DeletionsInvInit DEF HInit
<1> QED BY <1>2, <1>3, <1>4, PTL DEF HSpec, LookupsPassOverDeleted
=============================================================================
