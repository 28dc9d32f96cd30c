-------------------------- MODULE ResolverHistory --------------------------
(***************************************************************************)
(* The DNS server of Resolver beside the deletions it must see: lookups    *)
(* that use a list of zones from before.                                   *)
(***************************************************************************)
EXTENDS Resolver, Deletions

historyVars == <<vars, deletions>>

HInit == Init /\ DeletionsInit
HNext == Next /\ RememberDeletions
HSpec == HInit /\ [][HNext]_historyVars
HFairSpec == HSpec /\ Fairness

(* The statement of lookup that question p is at finds an rrset.           *)
Finds(p) ==
    /\ query[p].pc \in {"readSet", "cnameSet"}
    /\ query'[p].pc \in {"readRecords", "cnameRecords"}

(* A lookup asks for rrsets by the number of a zone on its list, and the   *)
(* list may be older than the zone's deletion, or be put back after it.    *)
(* It finds no rrset of a zone that REST has deleted, but those that some  *)
(* request wrote that had found the zone before the deletion.              *)
LookupsPassOverDeleted ==
    [][\A p \in Queries : Finds(p) =>
          \/ rrsets[query'[p].set].zone \notin deletedZones
          \/ query'[p].set \in leftovers]_historyVars
=============================================================================
