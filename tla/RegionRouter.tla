---------------------------- MODULE RegionRouter ----------------------------
(***************************************************************************)
(* The region router of internal/region: a pool of nodes per region, the   *)
(* choice of a region for a client, and round-robin when the client gives  *)
(* no usable hint.  Every operation is one critical section of Router.mu.  *)
(*                                                                         *)
(* A region keeps its nodes twice, in the list the gateway goes through    *)
(* (here a set) and in the hash ring that picks one of them for a key.     *)
(* Coordinates appear only as the distance between two regions.            *)
(***************************************************************************)
EXTENDS HashRing, Sequences

CONSTANTS
  Regions,          \* region names, known to the router or not yet
  DefaultRegions,   \* defaultRegions
  Hashes,           \* hashKey of the paths that clients ask for
  Distance,         \* haversine: [Regions -> [Regions -> Nat]]
  None              \* no region, no node

ASSUME RegionAssumption ==
  /\ IsFiniteSet(Regions)
  /\ DefaultRegions \subseteq Regions /\ DefaultRegions # {}
  /\ Distance \in [Regions -> [Regions -> Nat]]
  /\ \A r \in Regions : Distance[r][r] = 0
  /\ Hashes \subseteq Nat
  /\ None \notin Regions /\ None \notin Nodes

VARIABLES
  pool,      \* Region.Nodes
  ring,      \* Region.ring
  healthy,   \* Region.Healthy; the set of regions whose flag is set
  order,     \* Router.order: the known regions
  rrIndex,   \* Router.rrIndex
  waits      \* history: round-robin picks that passed a routable region over
             \* since the last one it received

routerVars == <<pool, ring, healthy, order, rrIndex, waits>>

Known == {order[i] : i \in 1 .. Len(order)}
Routable(r) == r \in healthy /\ pool[r] # {}
RoutableRegions == {r \in Regions : Routable(r)}

(* New appends the default regions in the order of a map iteration.        *)
Orders(S) == {s \in [1 .. Cardinality(S) -> S] : \A r \in S : \E i \in DOMAIN s : s[i] = r}

-----------------------------------------------------------------------------
(* A region that is new to the router becomes known and healthy; one that  *)
(* lost its last node stays as RemoveNode left it.                         *)
AddNode(r, n) ==
  /\ n \notin pool[r]
  /\ pool' = [pool EXCEPT ![r] = @ \cup {n}]
  /\ ring' = [ring EXCEPT ![r] = ringAdd(@, n)]
  /\ IF r \in Known
       THEN UNCHANGED <<healthy, order>>
       ELSE healthy' = healthy \cup {r} /\ order' = Append(order, r)
  /\ UNCHANGED <<rrIndex, waits>>

(* A known region left without nodes is unhealthy, whether or not the node *)
(* was its last one.                                                       *)
RemoveNode(r, n) ==
  /\ r \in Known
  /\ pool' = [pool EXCEPT ![r] = @ \ {n}]
  /\ ring' = [ring EXCEPT ![r] = ringRemove(@, n)]
  /\ healthy' = IF pool[r] \subseteq {n} THEN healthy \ {r} ELSE healthy
  /\ UNCHANGED <<order, rrIndex, waits>>

SetRegionHealth(r, up) ==
  /\ r \in Known
  /\ (r \in healthy) # up
  /\ healthy' = IF up THEN healthy \cup {r} ELSE healthy \ {r}
  /\ UNCHANGED <<pool, ring, order, rrIndex, waits>>

-----------------------------------------------------------------------------
(* The region i places after the round-robin index (indices count from 0). *)
Index(i) == (rrIndex + i) % Len(order)
Ahead(i) == order[Index(i) + 1]

\* The first routable region at or after the index, by its distance from it.
FirstRoutable(i) ==
  /\ Routable(Ahead(i))
  /\ \A j \in 0 .. i - 1 : ~Routable(Ahead(j))

CountWaits(picked) ==
  waits' = [r \in Regions |-> IF r = picked \/ ~Routable(r) THEN 0 ELSE waits[r] + 1]

\* Mutant: the next pick starts at the region just picked.
roundRobinStays(target) ==
  IF RoutableRegions = {}
    THEN target = order[1] /\ UNCHANGED <<rrIndex, waits>>
    ELSE \E i \in 0 .. Len(order) - 1 :
           /\ FirstRoutable(i)
           /\ target = Ahead(i)
           /\ rrIndex' = Index(i)
           /\ CountWaits(target)

roundRobin(target) ==
  IF RoutableRegions = {}
    THEN target = order[1] /\ UNCHANGED <<rrIndex, waits>>
    ELSE \E i \in 0 .. Len(order) - 1 :
           /\ FirstRoutable(i)
           /\ target = Ahead(i)
           /\ rrIndex' = (Index(i) + 1) % Len(order)
           /\ CountWaits(target)

Closest(r) ==
  {s \in RoutableRegions : \A t \in RoutableRegions : Distance[r][s] <= Distance[r][t]}

\* Mutant: the hint is only used when its own region can serve.
GetNearestRegionOrAny(hint, target) ==
  IF hint \in RoutableRegions
    THEN target = hint /\ UNCHANGED <<rrIndex, waits>>
    ELSE roundRobin(target)

(* The target for a client: its own region, else the closest one that can  *)
(* serve, else (unknown hint, or nothing can serve) round-robin.           *)
GetNearestRegion(hint, target) ==
  IF hint \in RoutableRegions
    THEN target = hint /\ UNCHANGED <<rrIndex, waits>>
    ELSE IF hint \in Known /\ RoutableRegions # {}
      THEN target \in Closest(hint) /\ UNCHANGED <<rrIndex, waits>>
      ELSE roundRobin(target)

(* The node for a key with hash h, None for "".                            *)
GetNodeForKey(r, h, n) ==
  IF pool[r] = {} THEN n = None ELSE n \in Nodes /\ GetNode(ring[r], h, n)

-----------------------------------------------------------------------------
(* Round-robin passes no region over for more than one lap: however        *)
(* regions fail, recover and appear between two picks, a region that can   *)
(* serve gets one of any Len(order) consecutive picks (region.go:242).  In  *)
(* particular every region with nodes is listed, once, and the index stays *)
(* inside the list.                                                        *)
RoundRobinFair ==
  /\ Len(order) = Cardinality(Known) /\ rrIndex \in 0 .. Len(order) - 1
  /\ \A r \in Regions : pool[r] # {} => r \in Known
  /\ \A r \in Regions : waits[r] < Len(order)

(* The two copies of a region's nodes never drift apart, and the ring      *)
(* depends on the nodes alone: after any sequence of additions and         *)
(* removals it is the ring of a router that was given just the nodes left, *)
(* so two gateways agree on the owner of a key (consistent.go:33-66,       *)
(* region.go:88-140).                                                      *)
RingMatchesPool == \A r \in Regions : ring[r] = RingOf(pool[r])

(* A key changes its node only when that node leaves, or to the node that  *)
(* joins (consistent.go:68).                                               *)
Disrupts(r, h, n) ==
  /\ GetNode(ring[r], h, n)
  /\ n \in pool'[r]
  /\ ~GetNode(ring'[r], h, n)
  /\ \A m \in pool'[r] \ pool[r] : ~GetNode(ring'[r], h, m)

MinimalDisruption ==
  [][~\E r \in Regions, h \in Hashes, n \in Nodes : Disrupts(r, h, n)]_ring
=============================================================================
