------------------------------ MODULE TTLCache ------------------------------
(***************************************************************************)
(* The answer cache of internal/cache/cache.go as a function from keys to  *)
(* entries, NoEntry where the map has none.  An entry is a value and the   *)
(* time it has left: it is served while that is not negative               *)
(* (time.Now().After(expiresAt) is strict), and -1 stands for any time     *)
(* past the expiry, since an expired entry stays in the map until a Get    *)
(* meets it or an eviction takes it.                                       *)
(***************************************************************************)
EXTENDS Integers, FiniteSets

CONSTANTS CacheSize,  \* capacity given to New
          NoEntry     \* absence of an entry

ASSUME CacheAssumption == CacheSize \in Nat

EmptyCache(K) == [k \in K |-> NoEntry]

Held(c) == {k \in DOMAIN c : c[k] # NoEntry}

\* Mutant: Get does not look at the expiry.
IsHitForever(c, k) == c[k] # NoEntry

IsHit(c, k)     == c[k] # NoEntry /\ c[k].left >= 0
IsExpired(c, k) == c[k] # NoEntry /\ c[k].left < 0

Removed(c, k) == [c EXCEPT ![k] = NoEntry]

\* Mutant: Set evicts only once the map is over its capacity.
PutResultsLate(c, k, e) ==
    IF Cardinality(Held(c)) > CacheSize
    THEN {[Removed(c, victim) EXCEPT ![k] = e] : victim \in Held(c)}
    ELSE {[c EXCEPT ![k] = e]}

\* Set: a full map loses one entry, whichever a range over it meets first,
\* even when the key is there already.
PutResults(c, k, e) ==
    IF Cardinality(Held(c)) >= CacheSize /\ Held(c) # {}
    THEN {[Removed(c, victim) EXCEPT ![k] = e] : victim \in Held(c)}
    ELSE {[c EXCEPT ![k] = e]}

AgedEntry(e) == IF e = NoEntry \/ e.left < 0 THEN e ELSE [e EXCEPT !.left = @ - 1]

Aged(c) == [k \in DOMAIN c |-> AgedEntry(c[k])]
=============================================================================
