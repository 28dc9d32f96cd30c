------------------------------ MODULE Resolver ------------------------------
(***************************************************************************)
(* The DNS server (internal/server/dns): serveDNS and lookup, with the     *)
(* cache of the zone list (zone_cache.go) and the cache of answers         *)
(* (internal/cache), over the database and the admin requests of           *)
(* ZoneStore.  Questions are served by goroutines of their own; a step is  *)
(* one critical section of a cache, one database statement or one exchange *)
(* with the forwarder, with the local computation that follows it.         *)
(*                                                                         *)
(* Time is discrete.  A cached item carries the ticks it has left, so the  *)
(* model needs no absolute clock; any number of steps may be taken within  *)
(* a tick, and any number of ticks may pass between two steps.             *)
(***************************************************************************)
EXTENDS ZoneStore, TTLCache

CONSTANTS
    Queries,     \* goroutines that serve questions
    Clients,     \* what the server may know of a client's address
    QNames,      \* owner names asked for
    QTypes,      \* types asked for
    Under,       \* zone -> the owner names its name is a suffix of
    NameLen,     \* zone -> length of its stored name
    BadData,     \* data dns.NewRR rejects
    ZoneTTL,     \* NewZoneCache(5 * time.Minute)
    NegativeTTL, \* 5 * time.Minute
    Forwarder    \* whether cfg.Forwarder is set

ASSUME ResolverAssumption ==
    /\ Clients \subseteq Client
    /\ QNames \subseteq Owners /\ QTypes \subseteq Types
    /\ Under \in [Zones -> SUBSET Owners]
    /\ NameLen \in [Zones -> Nat]
    /\ BadData \subseteq Data
    /\ ZoneTTL \in Nat \ {0} /\ NegativeTTL \in Nat \ {0}
    /\ Forwarder \in BOOLEAN

VARIABLES
    zoneCache,  \* ZoneCache: the zones and the time the list has left
    answers,    \* the answer cache
    query       \* Queries -> the question each serves and how far it is

caches == <<zoneCache, answers>>
vars   == <<storeVars, zoneCache, answers, query>>

(***************************************************************************)
(* Messages.  An answer names, besides its records and TTL, the zone of    *)
(* the rrset it was read from.                                             *)
(***************************************************************************)
Answer   == [kind : {"answer"}, from : Zones, ttl : Nat, recs : SUBSET Payload]
Negative == [kind : {"nxdomain", "upstreamNegative"}]
NoMsg    == [kind |-> "none"]
Message  == Answer \cup Negative \cup {NoMsg}

Key   == [name : QNames, type : QTypes, client : Clients]
Entry == [msg : Answer \cup Negative, left : Int]

NoKey == [name |-> NoRow, type |-> NoRow, client |-> NoRow]

QueryPC == {"idle", "hit", "purge", "zones", "fetch", "fill", "readSet", "readRecords",
            "cnameSet", "cnameRecords", "miss", "store"}

(***************************************************************************)
(* zones: a zone list fetched and not yet cached; zone: the zone lookup    *)
(* chose; set, ttl: the rrset it found; msg: the message sent.             *)
(***************************************************************************)
Query == [pc : QueryPC, key : Key \cup {NoKey}, zones : SUBSET Zones,
          zone : Zones \cup {NoRow}, set : Nat, ttl : Nat, msg : Message]

IdleQuery == [pc |-> "idle", key |-> NoKey, zones |-> {}, zone |-> NoRow,
              set |-> 0, ttl |-> 0, msg |-> NoMsg]

EmptyZoneCache == [zones |-> {}, left |-> 0]

ResolverTypeOK ==
    /\ StoreTypeOK
    /\ zoneCache \in [zones : SUBSET Zones, left : 0 .. ZoneTTL]
    /\ answers \in [Key -> Entry \cup {NoEntry}]
    /\ query \in [Queries -> Query]

Init ==
    /\ StoreInit
    /\ zoneCache = EmptyZoneCache
    /\ answers = EmptyCache(Key)
    /\ query = [p \in Queries |-> IdleQuery]

-----------------------------------------------------------------------------
(***************************************************************************)
(* Operators of lookup.                                                    *)
(***************************************************************************)
LiveZones == {z \in Zones : zones[z] = "live"}

\* Mutant: ZoneCache.Get does not look at the age of the list.
ZoneCacheValidForever == zoneCache.zones # {}

\* ZoneCache.Get finds a list: not too old, and not empty.
ZoneCacheValid == zoneCache.left > 0 /\ zoneCache.zones # {}

(***************************************************************************)
(* The first zone of a list, longest name first, whose name is a suffix of *)
(* the owner name.  Zones of one length come in any order.                 *)
(***************************************************************************)
BestZones(zs, n) ==
    {z \in zs : /\ n \in Under[z]
                /\ \A y \in zs : n \in Under[y] => NameLen[y] <= NameLen[z]}

\* The records of rrset s, as Preload reads them, that make resource records.
Records(s)   == {rdata[d].payload : d \in LiveData(s)}
Rendered(rs) == {r \in rs : r.data \notin BadData}

AnswerFrom(s, ttl, recs) ==
    [kind |-> "answer", from |-> rrsets[s].zone, ttl |-> ttl, recs |-> recs]

\* Mutant: the key leaves the client's address out.
CacheKeyUnscoped(k) == [k EXCEPT !.client = CHOOSE c \in Clients : TRUE]

\* The key of the answer cache: name, type and the client's address.
CacheKey(k) == [name |-> k.name, type |-> k.type, client |-> k.client]

\* The lifetime Set gives to a message that is cached.
Lifetime(m) == IF m.kind = "answer" THEN m.ttl ELSE NegativeTTL

At(p, step) == query[p].pc = step

Step(p, next) == query' = [query EXCEPT ![p].pc = next]

\* The message is written to the client; what is cached is cached after that.
Send(p, m) == query' = [query EXCEPT ![p].pc = "store", ![p].msg = m]

Done(p) == query' = [query EXCEPT ![p] = IdleQuery]

\* lookup with a list of zones.
ChooseZone(p, zs) ==
    IF BestZones(zs, query[p].key.name) = {}
    THEN query' = [query EXCEPT ![p].pc = "miss", ![p].zones = {}]
    ELSE \E z \in BestZones(zs, query[p].key.name) :
            query' = [query EXCEPT ![p].pc = "readSet", ![p].zone = z, ![p].zones = {}]

-----------------------------------------------------------------------------
(***************************************************************************)
(* serveDNS.                                                               *)
(***************************************************************************)

\* Cache.Get under the read lock.
Receive(p) ==
    /\ At(p, "idle")
    /\ \E k \in Key :
          LET q    == [IdleQuery EXCEPT !.key = k]
              slot == CacheKey(k) IN
          query' = [query EXCEPT ![p] =
                      CASE IsHit(answers, slot)     -> [q EXCEPT !.pc = "hit",
                                                                 !.msg = answers[slot].msg]
                        [] IsExpired(answers, slot) -> [q EXCEPT !.pc = "purge"]
                        [] answers[slot] = NoEntry  -> [q EXCEPT !.pc = "zones"]]
    /\ UNCHANGED <<storeVars, caches>>

\* A copy of the cached message is sent.
ReplyHit(p) ==
    /\ At(p, "hit")
    /\ Done(p)
    /\ UNCHANGED <<storeVars, caches>>

\* Cache.Get deletes the key under the write lock, whatever it holds by now.
Purge(p) ==
    /\ At(p, "purge")
    /\ answers' = Removed(answers, CacheKey(query[p].key))
    /\ Step(p, "zones")
    /\ UNCHANGED <<storeVars, zoneCache>>

GetZones(p) ==
    /\ At(p, "zones")
    /\ IF ZoneCacheValid THEN ChooseZone(p, zoneCache.zones) ELSE Step(p, "fetch")
    /\ UNCHANGED <<storeVars, caches>>

FetchZones(p) ==
    /\ At(p, "fetch")
    /\ query' = [query EXCEPT ![p].pc = "fill", ![p].zones = LiveZones]
    /\ UNCHANGED <<storeVars, caches>>

FillZones(p) ==
    /\ At(p, "fill")
    /\ zoneCache' = [zones |-> query[p].zones, left |-> ZoneTTL]
    /\ ChooseZone(p, query[p].zones)
    /\ UNCHANGED <<storeVars, answers>>

\* Mutant: the rrset is looked up by its name and type alone.
FindRRSetAnyZone(p, type, found, notFound) ==
    LET sets == UNION {LiveSets(z, query[p].key.name, type) : z \in Zones} IN
    IF sets = {}
    THEN Step(p, notFound)
    ELSE \E s \in sets : query' = [query EXCEPT ![p].pc = found, ![p].set = s,
                                                ![p].ttl = rrsets[s].ttl]

\* The rrset's row; its records are another statement.
FindRRSet(p, type, found, notFound) ==
    LET sets == LiveSets(query[p].zone, query[p].key.name, type) IN
    IF sets = {}
    THEN Step(p, notFound)
    ELSE \E s \in sets : query' = [query EXCEPT ![p].pc = found, ![p].set = s,
                                                ![p].ttl = rrsets[s].ttl]

ReadSet(p) ==
    /\ At(p, "readSet")
    /\ FindRRSet(p, query[p].key.type, "readRecords", "cnameSet")
    /\ UNCHANGED <<storeVars, caches>>

CnameSet(p) ==
    /\ At(p, "cnameSet")
    /\ FindRRSet(p, "CNAME", "cnameRecords", "miss")
    /\ UNCHANGED <<storeVars, caches>>

\* An rrset without a usable record is no answer.
Conclude(p, recs) ==
    IF Rendered(recs) = {}
    THEN Step(p, "miss")
    ELSE Send(p, AnswerFrom(query[p].set, query[p].ttl, Rendered(recs)))

ReadRecords(p) ==
    /\ At(p, "readRecords")
    /\ Conclude(p, Select(Records(query[p].set), query[p].key.client))
    /\ UNCHANGED <<storeVars, caches>>

CnameRecords(p) ==
    /\ At(p, "cnameRecords")
    /\ Conclude(p, Records(query[p].set))
    /\ UNCHANGED <<storeVars, caches>>

\* Whatever kept lookup from an answer, "no zone" or a failed statement.
Miss(p) ==
    /\ At(p, "miss")
    /\ \/ Send(p, [kind |-> "nxdomain"])  \* no forwarder, or it failed
       \/ Forwarder /\ Send(p, [kind |-> "upstreamNegative"])
       \/ Forwarder /\ Done(p)            \* a success from upstream is not cached
    /\ UNCHANGED <<storeVars, caches>>

\* Mutant: every message is kept for the negative TTL.
StoreAnswerFlat(p) ==
    /\ At(p, "store")
    /\ answers' \in PutResults(answers, CacheKey(query[p].key),
                        [msg |-> query[p].msg, left |-> NegativeTTL])
    /\ Done(p)
    /\ UNCHANGED <<storeVars, zoneCache>>

StoreAnswer(p) ==
    /\ At(p, "store")
    /\ IF Lifetime(query[p].msg) > 0
       THEN answers' \in PutResults(answers, CacheKey(query[p].key),
                            [msg |-> query[p].msg, left |-> Lifetime(query[p].msg)])
       ELSE UNCHANGED answers
    /\ Done(p)
    /\ UNCHANGED <<storeVars, zoneCache>>

\* A statement of lookup fails: the zone list's is an error at once, the
\* rrset's and its records' leads to the CNAME, the CNAME's to an error.
LookupFails(p) ==
    /\ query[p].pc \in {"fetch", "readSet", "readRecords", "cnameSet", "cnameRecords"}
    /\ faults < MaxFaults
    /\ faults' = faults + 1
    /\ Step(p, IF query[p].pc \in {"readSet", "readRecords"} THEN "cnameSet" ELSE "miss")
    /\ UNCHANGED <<tables, handlers, issued, caches>>

-----------------------------------------------------------------------------
(***************************************************************************)
(* The rest of the process: admin requests, time, restarts.                *)
(***************************************************************************)

\* InvalidateZoneCache clears the zone list and leaves the answers.
InvalidateZoneCache(h) ==
    /\ Invalidate(h)
    /\ zoneCache' = EmptyZoneCache
    /\ UNCHANGED <<answers, query>>

Admin(h) ==
    /\ RestStep(h) \/ WebStep(h)
    /\ UNCHANGED <<caches, query>>

AdminRequest(h) ==
    /\ Begin(h) \/ StatementFails(h)
    /\ UNCHANGED <<caches, query>>

\* Mutant: the age of the list is never capped.
TickNoFloor ==
    /\ zoneCache' = [zoneCache EXCEPT !.left = @ - 1]
    /\ answers' = Aged(answers)
    /\ UNCHANGED <<storeVars, query>>

Tick ==
    /\ zoneCache' = [zoneCache EXCEPT !.left = IF @ > 0 THEN @ - 1 ELSE 0]
    /\ answers' = Aged(answers)
    /\ UNCHANGED <<storeVars, query>>

\* The caches are in memory only.
Restart ==
    /\ RestartHandlers
    /\ zoneCache' = EmptyZoneCache
    /\ answers' = EmptyCache(Key)
    /\ query' = [p \in Queries |-> IdleQuery]

\* The steps of a question once received.
Serve(p) ==
    \/ ReplyHit(p) \/ Purge(p)
    \/ GetZones(p) \/ FetchZones(p) \/ FillZones(p)
    \/ ReadSet(p) \/ ReadRecords(p) \/ CnameSet(p) \/ CnameRecords(p)
    \/ Miss(p) \/ StoreAnswer(p)

Next ==
    \/ \E p \in Queries : Receive(p) \/ Serve(p) \/ LookupFails(p)
    \/ \E h \in Handlers : Admin(h) \/ AdminRequest(h) \/ InvalidateZoneCache(h)
    \/ Tick
    \/ Restart

Spec == Init /\ [][Next]_vars

(***************************************************************************)
(* Goroutines are scheduled and every statement and exchange returns (the  *)
(* forwarder's client has a timeout), so a request or question begun goes  *)
(* on; time passes.  Nobody has to send requests or questions.             *)
(***************************************************************************)
Fairness ==
    /\ \A p \in Queries : WF_vars(Serve(p))
    /\ \A h \in Handlers : WF_vars(Admin(h) \/ InvalidateZoneCache(h))
    /\ WF_vars(Tick)

FairSpec == Spec /\ Fairness

-----------------------------------------------------------------------------
(***************************************************************************)
(* What the answer to a question is, read from one state of the database.  *)
(***************************************************************************)
Verdict(s, recs) ==
    IF Rendered(recs) = {} THEN Negative ELSE {AnswerFrom(s, rrsets[s].ttl, Rendered(recs))}

AnswersIn(z, k) ==
    LET sets   == LiveSets(z, k.name, k.type)
        cnames == LiveSets(z, k.name, "CNAME")
    IN  CASE sets # {}                 -> UNION {Verdict(s, Select(Records(s), k.client)) :
                                                    s \in sets}
          [] sets = {} /\ cnames # {}  -> UNION {Verdict(s, Records(s)) : s \in cnames}
          [] sets = {} /\ cnames = {}  -> Negative

TrueAnswers(k) ==
    IF BestZones(LiveZones, k.name) = {}
    THEN Negative
    ELSE UNION {AnswersIn(z, k) : z \in BestZones(LiveZones, k.name)}

-----------------------------------------------------------------------------
(***************************************************************************)
(* Properties.                                                             *)
(***************************************************************************)

(* An answer, cached or about to be sent, comes from an rrset of a zone    *)
(* whose name is a suffix of the name asked for, though the zone list, the *)
(* rrset and its records are read one after the other while admin requests *)
(* change them.                                                            *)
Covered(k, m) == m.kind = "answer" => k.name \in Under[m.from]

AnswersFromCoveringZone ==
    /\ \A k \in Key : answers[k] # NoEntry => Covered(k, answers[k].msg)
    /\ \A p \in Queries : query[p].msg # NoMsg => Covered(query[p].key, query[p].msg)

(* No cached message is served longer than the TTL it carries, a negative  *)
(* one no longer than NegativeTTL: nothing ever prolongs an entry, and one *)
(* that carries no time is not there at all.                               *)
NoEntryOutlivesTTL ==
    \A k \in Key : answers[k] # NoEntry =>
        /\ Lifetime(answers[k].msg) > 0
        /\ answers[k].left <= Lifetime(answers[k].msg)

(* The answer cache never holds more than its capacity (one entry if that  *)
(* is 0), whatever overlaps: Set checks the size it then exceeds by one.   *)
CacheBounded == Cardinality(Held(answers)) <= IF CacheSize = 0 THEN 1 ELSE CacheSize

ZoneListFresh == ZoneCacheValid => zoneCache.zones = LiveZones

AnswersFresh == \A k \in Key : IsHit(answers, k) => answers[k].msg \in TrueAnswers(k)

MessagesFresh ==
    \A p \in Queries : query[p].msg # NoMsg => query[p].msg \in TrueAnswers(query[p].key)

(* Once the changes stop, the caches come to agree with the database and   *)
(* every message sent is the true one, whatever was in flight, cached or   *)
(* failing when they stopped: no stale fill or answer outlives its time.   *)
EventuallyFresh == <>[](ZoneListFresh /\ AnswersFresh /\ MessagesFresh)

NoRequestInProgress == \A h \in Handlers : pc[h] = "idle"

(* rest/server.go:340, 388 and 408, "Invalidate DNS cache after zone       *)
(* record change": when the request is done, no cached answer contradicts  *)
(* the database.                                                           *)
InvalidationRefreshesAnswers == NoRequestInProgress => AnswersFresh
=============================================================================
