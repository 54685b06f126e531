---------------------------- MODULE CacheWarmer -----------------------------
(***************************************************************************)
(* The cache warmer of an edge node (internal/warming): handlers record    *)
(* accesses, and a background loop refreshes the cache entries of the most *)
(* requested paths, fetching from the origin past the shield.              *)
(*                                                                         *)
(* A warm cycle is several steps: two critical sections of Warmer.mu, one  *)
(* goroutine per hot path behind a semaphore, and wg.Wait.  A prefetch is  *)
(* two steps, the origin's reply and the cache's Set, and everything else  *)
(* in the node runs between them.                                          *)
(*                                                                         *)
(* What cache.Set does belongs to the modules that put the warmer beside a *)
(* cache: EdgeNode and WarmedCache.                                        *)
(*                                                                         *)
(* Access counts saturate at MaxCount; which of two paths that both got    *)
(* there has the larger count is open, and the cycle starts its goroutines *)
(* in any order.  Prefetches cannot fail (origin.Fetch and cache.Set       *)
(* return no error) and the timeout of one reaches only the Redis tier of  *)
(* Set.  Metrics are left out, with the ttl an entry carries.              *)
(***************************************************************************)
EXTENDS Integers, FiniteSetsExt

CONSTANTS
  Paths,                \* URL paths
  PrefetchThreshold,    \* Config.PrefetchThreshold
  MaxPrefetchPaths,     \* Config.MaxPrefetchPaths
  MaxConcurrentFetch,   \* Config.MaxConcurrentFetch
  MaxCount              \* bound: the largest count told apart

\* New replaces every non-positive setting by a positive default.
ASSUME WarmerAssumption ==
  /\ IsFiniteSet(Paths)
  /\ PrefetchThreshold \in Nat \ {0}
  /\ MaxPrefetchPaths \in Nat \ {0}
  /\ MaxConcurrentFetch \in Nat \ {0}
  /\ MaxCount \in Nat /\ MaxCount >= PrefetchThreshold

VARIABLES
  accesses,     \* Warmer.accesses: the count of each path, 0 if untracked
  cycle,        \* where the loop of Start is
  hot,          \* paths of this cycle whose goroutine is not yet started
  prefetch,     \* the prefetch goroutine of each path, with what it holds
  sem,          \* slots taken of the semaphore of the latest cycle
  wg,           \* the counter of its WaitGroup
  stopped       \* stopCh is closed

cycleVars == <<hot, prefetch, sem, wg>>
warmerVars == <<accesses, cycle, cycleVars, stopped>>

(* A body is "new" until the next purge of its path, and then "old".       *)
Bodies == {"new", "old"}

Active == {p \in Paths : prefetch[p] # "none"}
Hot(p) == accesses[p] >= PrefetchThreshold

WarmerInit ==
  /\ accesses = [p \in Paths |-> 0]
  /\ cycle = "waiting"
  /\ hot = {}
  /\ prefetch = [p \in Paths |-> "none"]
  /\ sem = 0 /\ wg = 0
  /\ stopped = FALSE

(* RecordAccess, called by the handlers.                                   *)
RecordAccess(p) ==
  /\ accesses' = [accesses EXCEPT ![p] = IF @ < MaxCount THEN @ + 1 ELSE @]
  /\ UNCHANGED <<cycle, cycleVars, stopped>>

-----------------------------------------------------------------------------
(* The ticker fires and the cycle drops the paths not seen within          *)
(* TrackingWindow.  Any time may pass between two steps, so these can be   *)
(* any of the tracked paths.  (The select takes either ready case, so this *)
(* may happen also when stopCh is closed.)                                 *)
Prune ==
  /\ cycle = "waiting"
  /\ cycle' = "pruned"
  /\ \E unseen \in SUBSET Paths :
       accesses' = [p \in Paths |-> IF p \in unseen THEN 0 ELSE accesses[p]]
  /\ UNCHANGED <<cycleVars, stopped>>

(* getHotPaths keeps MaxPrefetchPaths paths over the threshold, those with *)
(* the largest counts.                                                     *)
Candidates == {p \in Paths : Hot(p)}
Cuts == kSubset(Min({MaxPrefetchPaths, Cardinality(Candidates)}), Candidates)

\* Mutant: the sort puts the smallest counts first.
TopPathsReversed == {H \in Cuts : \A p \in H, r \in Candidates \ H : accesses[p] <= accesses[r]}

TopPaths == {H \in Cuts : \A p \in H, r \in Candidates \ H : accesses[p] >= accesses[r]}

(* getHotPaths is a critical section of its own; the cycle then makes its  *)
(* semaphore and its WaitGroup.                                            *)
PickHot ==
  /\ cycle = "pruned"
  /\ hot' \in TopPaths
  /\ cycle' = IF hot' = {} THEN "waiting" ELSE "fetching"
  /\ sem' = 0 /\ wg' = 0
  /\ UNCHANGED <<accesses, prefetch, stopped>>

(* wg.Add, sem <- struct{}{} and go: start the goroutine of a hot path.    *)
Launch(p) ==
  /\ cycle = "fetching" /\ p \in hot
  /\ sem < MaxConcurrentFetch
  /\ sem' = sem + 1 /\ wg' = wg + 1
  /\ hot' = hot \ {p}
  /\ prefetch' = [prefetch EXCEPT ![p] = "fetching"]
  /\ UNCHANGED <<accesses, cycle, stopped>>

(* origin.Fetch returns to the goroutine of p.                             *)
PrefetchReplies(p) ==
  /\ prefetch[p] = "fetching"
  /\ prefetch' = [prefetch EXCEPT ![p] = "new"]
  /\ UNCHANGED <<accesses, cycle, hot, sem, wg, stopped>>

\* Mutant: the goroutine returns without wg.Done.
PrefetchEndsSilently(p) ==
  /\ prefetch[p] \in Bodies
  /\ prefetch' = [prefetch EXCEPT ![p] = "none"]
  /\ sem' = sem - 1
  /\ UNCHANGED <<accesses, cycle, hot, wg, stopped>>

(* cache.Set returns; the deferred release of the semaphore and wg.Done.   *)
PrefetchEnds(p) ==
  /\ prefetch[p] \in Bodies
  /\ prefetch' = [prefetch EXCEPT ![p] = "none"]
  /\ sem' = sem - 1 /\ wg' = wg - 1
  /\ UNCHANGED <<accesses, cycle, hot, stopped>>

\* Mutant: the cycle does not wait for its goroutines.
EndCycleEarly ==
  /\ cycle = "fetching" /\ hot = {}
  /\ cycle' = "waiting"
  /\ UNCHANGED <<accesses, cycleVars, stopped>>

(* wg.Wait returns and the loop goes back to its select.                   *)
EndCycle ==
  /\ cycle = "fetching" /\ hot = {} /\ wg = 0
  /\ cycle' = "waiting"
  /\ UNCHANGED <<accesses, cycleVars, stopped>>

Stop ==
  /\ ~stopped
  /\ stopped' = TRUE
  /\ UNCHANGED <<accesses, cycle, cycleVars>>

(* The select of the loop takes the closed stopCh.                         *)
LoopExits ==
  /\ cycle = "waiting" /\ stopped
  /\ cycle' = "done"
  /\ UNCHANGED <<accesses, cycleVars, stopped>>

(* The steps of a warm cycle that do not touch the cache.                  *)
CycleStep ==
  \/ Prune \/ PickHot \/ EndCycle
  \/ \E p \in Paths : Launch(p) \/ PrefetchReplies(p)

(* A purge of p makes the body that its prefetch holds an old one.         *)
Age(p) == prefetch' = [prefetch EXCEPT ![p] = IF @ = "new" THEN "old" ELSE @]

-----------------------------------------------------------------------------
WarmerTypeOK ==
  /\ accesses \in [Paths -> 0 .. MaxCount]
  /\ cycle \in {"waiting", "pruned", "fetching", "done"}
  /\ hot \subseteq Paths
  /\ prefetch \in [Paths -> Bodies \cup {"none", "fetching"}]
  /\ sem \in Nat /\ wg \in Nat
  /\ stopped \in BOOLEAN

(* Every cycle counts with a semaphore and a WaitGroup of its own, and yet *)
(* the origin never sees more than MaxConcurrentFetch prefetches of the    *)
(* node, nor two of one path: no prefetch outlives the cycle that started  *)
(* it, and none is left when the loop has ended (warming.go:172-197).      *)
PrefetchBound ==
  /\ Cardinality(Active) <= MaxConcurrentFetch
  /\ hot \cap Active = {}
  /\ cycle # "fetching" => Active = {}

(* The other paths that the sort may put before p.                         *)
Rivals(p) == {r \in Paths \ {p} : accesses[r] >= accesses[p]}

(* p stays hot, and among the MaxPrefetchPaths most requested paths.       *)
StaysOnTop(p) == <>[](Hot(p) /\ Cardinality(Rivals(p)) < MaxPrefetchPaths /\ ~stopped)

(* After Stop the loop ends, also if it is in the middle of a cycle with   *)
(* paths still to start (warming.go:147-157, 164-170).                     *)
WarmingStops == stopped ~> cycle = "done"
=============================================================================
