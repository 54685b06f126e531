---------------------------- MODULE WarmedCache -----------------------------
(***************************************************************************)
(* The in-memory tier of a node that has no Redis, with the warmer at work *)
(* on it: requests, purges, the passing of time and prefetches of several  *)
(* paths use one LRU cache that has not room for all of them.              *)
(*                                                                         *)
(* A path stands for its key "cdn:GET:<path>".  Of a request this module   *)
(* keeps its effects on the two: cache.Get with, on a hit, RecordAccess;   *)
(* and, any time later, the Set of a response with RecordAccess.  The rest *)
(* of the handler is in EdgeNode.  Which body an entry holds does not      *)
(* matter here: it is always "new".                                        *)
(***************************************************************************)
EXTENDS CacheWarmer, LRUCache

ASSUME PathAssumption == Keys = Paths /\ "new" \in Values

vars == <<warmerVars, lruVars>>

Init == WarmerInit /\ LRUInit

(* handleCDN: cache.Get, and the answer from the cache.                    *)
Serve(p) ==
  /\ ~stopped
  /\ LRUGet(p)
  /\ IF Hit(cache, p) THEN RecordAccess(p) ELSE UNCHANGED warmerVars

(* handleCDN after a fetch: cache.Set with a positive ttl.                 *)
Fill(p) ==
  /\ ~stopped
  /\ LRUSet(p, "new", "ahead")
  /\ RecordAccess(p)

(* handlePurge.                                                            *)
Purge(p) ==
  /\ ~stopped
  /\ LRUDelete(p)
  /\ UNCHANGED warmerVars

Expire(p) == LRUExpire(p) /\ UNCHANGED warmerVars

(* prefetch: cache.Set, and the goroutine ends.                            *)
PrefetchStores(p) ==
  /\ PrefetchEnds(p)
  /\ LRUSet(p, prefetch[p], "ahead")

Beside(A) == A /\ UNCHANGED lruVars

Cycle == Beside(CycleStep) \/ \E p \in Paths : PrefetchStores(p)

Next ==
  \/ \E p \in Paths : Serve(p) \/ Fill(p) \/ Purge(p) \/ Expire(p)
  \/ Cycle \/ Beside(LoopExits) \/ Beside(Stop)

(* Prefetches are scheduled and the origin replies; Go's select picks at   *)
(* random, so the loop that meets a closed stopCh again and again leaves.  *)
Fairness == WF_vars(Cycle) /\ SF_vars(Beside(LoopExits))

FairSpec == Init /\ [][Next]_vars /\ Fairness

(* A path that stays hot is refreshed again and again, as long as fewer    *)
(* than MaxPrefetchPaths other paths have as many accesses: the sort and   *)
(* the cut of getHotPaths never drop it, and neither the semaphore nor the *)
(* prefetches of the others keep it out (warming.go:182-194, 229-249).     *)
HotRefreshed ==
  \A p \in Paths : StaysOnTop(p) => []<><<PrefetchStores(p)>>_vars
=============================================================================
