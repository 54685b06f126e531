------------------------------ MODULE LRUCache ------------------------------
(***************************************************************************)
(* The in-memory tier by itself: LRUCache of internal/cache under          *)
(* arbitrary sequences of Get, Set and Delete from any number of           *)
(* goroutines (mu makes each operation one step), compared with what an    *)
(* LRU cache is: a map of the last values set and an order of use.         *)
(***************************************************************************)
EXTENDS LRUList

CONSTANT Values

ASSUME ValueAssumption == None \notin Entries(Values)

VARIABLES
  cache,    \* the fields items and order
  latest,   \* history: the value last Set and not Deleted, per key
  newer     \* history: <<j, k>> when j was used after k, both last uses

lruVars == <<cache, latest, newer>>

LRUInit ==
  /\ cache = NewLRUCache
  /\ latest = [k \in Keys |-> None]
  /\ newer = {}

(* k has just been used: it is newer than every other key.                 *)
Used(k) == newer' = {e \in newer : e[1] # k /\ e[2] # k}
                      \cup {<<k, j>> : j \in Keys \ {k}}

LRUGet(k) ==
  /\ cache' = lruGet(cache, k)
  /\ IF Hit(cache, k) THEN Used(k) ELSE UNCHANGED newer
  /\ UNCHANGED latest

LRUSet(k, value, expires) ==
  /\ cache' = lruSet(cache, k, value, expires)
  /\ latest' = [latest EXCEPT ![k] = value]
  /\ Used(k)

LRUDelete(k) ==
  /\ cache' = lruDelete(cache, k)
  /\ latest' = [latest EXCEPT ![k] = None]
  /\ UNCHANGED newer

LRUExpire(k) ==
  /\ k \in Cached(cache)
  /\ cache.items[k].expires = "ahead"
  /\ cache' = lruExpire(cache, k)
  /\ UNCHANGED <<latest, newer>>

LRUNext == \E k \in Keys :
  \/ LRUGet(k)
  \/ \E value \in Values, expires \in {"ahead", "never"} : LRUSet(k, value, expires)
  \/ LRUDelete(k)
  \/ LRUExpire(k)

LRUSpec == LRUInit /\ [][LRUNext]_lruVars

-----------------------------------------------------------------------------
(* The map and the list hold the same keys, each once: the list element an *)
(* item points to is alive, evictOldest removes an entry of the map, and   *)
(* the number of entries stays within the capacity.                        *)
MapMatchesList ==
  /\ ToSet(cache.order) = Cached(cache)
  /\ IsInjective(cache.order)
  /\ Len(cache.order) <= Capacity

(* A key leaves the cache by Delete, by expiry, or evicted as the least    *)
(* recently used one for another key.                                      *)
EvictsLeastRecent ==
  [][\A k \in Cached(cache) \ Cached(cache)' :
       \/ latest'[k] = None
       \/ cache.items[k].expires = "past" /\ Cached(cache)' = Cached(cache) \ {k}
       \/ \A j \in Cached(cache) \ {k} : <<j, k>> \in newer]_lruVars

(* What is cached is the value last Set: no operation brings an old value  *)
(* or a deleted one back.                                                  *)
CachedIsLatest ==
  \A k \in Cached(cache) : cache.items[k].value = latest[k]
=============================================================================
