---------------------------- MODULE GatewayProofs ----------------------------
(***************************************************************************)
(* Proofs about Gateway, for any regions, nodes, sites and requests, and   *)
(* any number of changes around them.                                      *)
(*                                                                         *)
(* FailoverComplete speaks of the end of a request.  Its inductive form    *)
(* follows the witness through the request: at every moment it is the site *)
(* being sent to, or still in one of the lists the request has yet to go   *)
(* through, or (in attempt 1) not the primary, so that the snapshot will   *)
(* contain it.  The primary is in the pool because the ring of a region is *)
(* always the ring of its pool.                                            *)
(*                                                                         *)
(* RoundRobinFair bounds how often a routable region is passed over.  Its  *)
(* inductive form adds how far ahead of the index the region still is:     *)
(* what it has waited and what it may still wait make up one lap.          *)
(***************************************************************************)
EXTENDS Gateway, FiniteSetTheorems, WellFoundedInduction, TLAPS

-----------------------------------------------------------------------------
(* The hash ring: the ring of a set of nodes does not depend on how the    *)
(* set came about, and a key moves only with a node that leaves or joins.  *)

(* A set of points has a first one: GetNode's search finds something.      *)
LEMMA FirstPoint ==
  ASSUME NEW T \in SUBSET Nat, T # {}
  PROVE  \E x \in T : \A y \in T : x <= y
<1>1. PICK x \in T : \A y \in T : <<y, x>> \notin OpToRel(<, Nat)
  BY NatLessThanWellFounded, WFMin
<1>2. ASSUME NEW y \in T PROVE x <= y
  <2>1. ~(y < x)
    BY <1>1 DEF OpToRel
  <2> QED
    BY <2>1
<1> QED
  BY <1>2

(* Every point of a ring is a virtual node of its owner.                   *)
LEMMA RingOwned ==
  ASSUME NEW S \in SUBSET Nodes, NEW p \in DOMAIN RingOf(S)
  PROVE  RingOf(S)[p] \in S /\ p \in VNodes[RingOf(S)[p]] /\ p \in Nat
<1>1. p \in Points(S) /\ RingOf(S)[p] = CHOOSE n \in S : p \in VNodes[n]
  BY DEF RingOf
<1>2. \E n \in S : p \in VNodes[n]
  BY <1>1 DEF Points
<1> QED
  BY <1>1, <1>2, RingAssumption

(* Every virtual node of a ring's nodes is a point they own.               *)
LEMMA RingOwner ==
  ASSUME NEW S \in SUBSET Nodes, NEW n \in S, NEW p \in VNodes[n]
  PROVE  p \in DOMAIN RingOf(S) /\ RingOf(S)[p] = n
<1>1. p \in DOMAIN RingOf(S)
  BY DEF RingOf, Points
<1>2. RingOf(S)[p] \in S /\ p \in VNodes[RingOf(S)[p]]
  BY <1>1, RingOwned
<1>3. ASSUME RingOf(S)[p] # n PROVE FALSE
  BY <1>2, <1>3, RingAssumption
<1> QED
  BY <1>1, <1>3

(* Ring.AddNode (consistent.go:33).                                        *)
LEMMA AddToRing ==
  ASSUME NEW S \in SUBSET Nodes, NEW n \in Nodes
  PROVE  ringAdd(RingOf(S), n) = RingOf(S \cup {n})
<1> DEFINE U == S \cup {n}
<1> DEFINE A == ringAdd(RingOf(S), n)
<1>1. DOMAIN A = Points(U) /\ DOMAIN RingOf(U) = Points(U)
  BY DEF ringAdd, RingOf, Points
<1>2. ASSUME NEW p \in Points(U) PROVE A[p] = RingOf(U)[p]
  <2>1. CASE p \in VNodes[n]
    <3>1. A[p] = n
      BY <2>1 DEF ringAdd
    <3> QED
      BY <2>1, <3>1, RingOwner
  <2>2. CASE p \notin VNodes[n]
    <3>1. PICK m \in S : p \in VNodes[m]
      BY <1>2, <2>2 DEF Points
    <3>2. p \in DOMAIN RingOf(S) /\ RingOf(S)[p] = m /\ RingOf(U)[p] = m
      BY <3>1, RingOwner
    <3> QED
      BY <2>2, <3>2 DEF ringAdd
  <2> QED
    BY <2>1, <2>2
<1>3. A = [p \in Points(U) |-> A[p]] /\ RingOf(U) = [p \in Points(U) |-> RingOf(U)[p]]
  BY <1>1 DEF ringAdd, RingOf
<1> QED
  BY <1>2, <1>3

(* Ring.RemoveNode (consistent.go:49).                                     *)
LEMMA RemoveFromRing ==
  ASSUME NEW S \in SUBSET Nodes, NEW n \in Nodes
  PROVE  ringRemove(RingOf(S), n) = RingOf(S \ {n})
<1> DEFINE U == S \ {n}
<1> DEFINE A == ringRemove(RingOf(S), n)
<1>1. ASSUME NEW p \in DOMAIN A
      PROVE  p \in DOMAIN RingOf(U) /\ A[p] = RingOf(U)[p]
  <2>1. p \in DOMAIN RingOf(S) /\ RingOf(S)[p] # n /\ A[p] = RingOf(S)[p]
    BY <1>1 DEF ringRemove
  <2>2. RingOf(S)[p] \in U /\ p \in VNodes[RingOf(S)[p]]
    BY <2>1, RingOwned
  <2> QED
    BY <2>1, <2>2, RingOwner
<1>2. ASSUME NEW p \in DOMAIN RingOf(U) PROVE p \in DOMAIN A
  <2>1. RingOf(U)[p] \in U /\ p \in VNodes[RingOf(U)[p]]
    BY RingOwned
  <2>2. p \in DOMAIN RingOf(S) /\ RingOf(S)[p] = RingOf(U)[p]
    BY <2>1, RingOwner
  <2> QED
    BY <2>1, <2>2 DEF ringRemove
<1>3. DOMAIN A = DOMAIN RingOf(U)
  BY <1>1, <1>2
<1>4. A = [p \in DOMAIN A |-> A[p]] /\ RingOf(U) = [p \in DOMAIN RingOf(U) |-> RingOf(U)[p]]
  BY DEF ringRemove, RingOf
<1> QED
  BY <1>1, <1>3, <1>4

(* Whoever owns a key is in the ring.                                      *)
LEMMA GetNodeOwner ==
  ASSUME NEW S \in SUBSET Nodes, NEW h, NEW n, GetNode(RingOf(S), h, n)
  PROVE  n \in S
BY RingOwned DEF GetNode

(* A key whose node stays keeps it when another node leaves.               *)
LEMMA RemoveKeeps ==
  ASSUME NEW S \in SUBSET Nodes, NEW T \in SUBSET S, NEW h \in Nat, NEW m \in T,
         GetNode(RingOf(S), h, m)
  PROVE  GetNode(RingOf(T), h, m)
<1>1. PICK p \in DOMAIN RingOf(S) : IsNext(RingOf(S), h, p) /\ RingOf(S)[p] = m
  BY DEF GetNode
<1>2. p \in VNodes[m]
  BY <1>1, RingOwned
<1>3. p \in DOMAIN RingOf(T) /\ RingOf(T)[p] = m
  BY <1>2, RingOwner
<1>4. DOMAIN RingOf(T) \subseteq DOMAIN RingOf(S)
  BY DEF RingOf, Points
<1>5. IsNext(RingOf(T), h, p)
  BY <1>1, <1>4 DEF IsNext
<1> QED
  BY <1>3, <1>5 DEF GetNode

(* A key keeps its node, or goes to the one that joins.                    *)
LEMMA AddKeeps ==
  ASSUME NEW S \in SUBSET Nodes, NEW n \in Nodes, NEW h \in Nat, NEW m \in S,
         GetNode(RingOf(S), h, m)
  PROVE  \E k \in {m, n} : GetNode(RingOf(S \cup {n}), h, k)
<1> DEFINE U == S \cup {n}
<1> DEFINE D == DOMAIN RingOf(U)
<1>1. PICK p \in DOMAIN RingOf(S) : IsNext(RingOf(S), h, p) /\ RingOf(S)[p] = m
  BY DEF GetNode
<1>2. p \in D /\ RingOf(U)[p] = m
  <2>1. p \in VNodes[m]
    BY <1>1, RingOwned
  <2> QED
    BY <2>1, RingOwner
<1>3. \A x \in D : x \in Nat
  BY RingOwned
<1>4. ASSUME NEW x \in D, x \notin DOMAIN RingOf(S) PROVE RingOf(U)[x] = n
  <2>1. RingOf(U)[x] \in U /\ x \in VNodes[RingOf(U)[x]]
    BY RingOwned
  <2>2. RingOf(U)[x] \notin S
    BY <1>4, <2>1, RingOwner
  <2> QED
    BY <2>1, <2>2
<1>5. PICK x \in D : IsNext(RingOf(U), h, x)
  <2> DEFINE T == {y \in D : y >= h}
  <2>1. CASE T # {}
    <3>1. PICK x \in T : \A y \in T : x <= y
      BY <1>3, <2>1, FirstPoint
    <3> QED
      BY <3>1 DEF IsNext
  <2>2. CASE T = {}
    <3>1. PICK x \in D : \A y \in D : x <= y
      BY <1>2, <1>3, FirstPoint
    <3>2. \A y \in D : y < h
      BY <1>3, <2>2
    <3> QED
      BY <3>1, <3>2 DEF IsNext
  <2> QED
    BY <2>1, <2>2
<1>6. CASE x \notin DOMAIN RingOf(S)
  BY <1>4, <1>5, <1>6 DEF GetNode
<1>7. CASE x \in DOMAIN RingOf(S)
  <2>1. x \in Nat /\ p \in Nat
    BY <1>2, <1>3
  <2>2. x = p
    BY <1>1, <1>2, <1>5, <1>7, <2>1 DEF IsNext
  <2> QED
    BY <1>2, <1>5, <2>2 DEF GetNode
<1> QED
  BY <1>6, <1>7

-----------------------------------------------------------------------------

Types ==
  /\ pool \in [Regions -> SUBSET Nodes]
  /\ ring = [r \in Regions |-> RingOf(pool[r])]
  /\ \A r \in Regions : \A n \in pool[r] : <<r, n>> \in Sites
  /\ pc \in [Requests -> Attempts \cup Ended \cup {"idle", "routed"}]
  /\ hint \in [Requests -> Regions \cup {None}]
  /\ target \in [Requests -> Regions \cup {None}]
  /\ primary \in [Requests -> Nodes \cup {None}]
  /\ todo \in [Requests -> SUBSET Sites] /\ others \in [Requests -> SUBSET Sites]
  /\ site \in [Requests -> Sites \cup {None}]
  /\ witness \in [Requests -> Sites \cup {None}]

(* A witness can serve; one that is vouched for has a good verdict.        *)
WitnessServes ==
  \A q \in Requests : witness[q] # None =>
    /\ CanServe(witness[q])
    /\ q \in vouched => witness[q][2] \in up

(* The lists of a request: the target region's sites first, then others.   *)
ListsAt(q) ==
  /\ pc[q] # "idle" => target[q] \in Regions
  /\ pc[q] \in {"idle", "routed"} => site[q] = None
  /\ pc[q] \in {"attempt 1", "attempt 2"} =>
       /\ \A s \in todo[q] : s[1] = target[q]
       /\ site[q] # None => site[q][1] = target[q]
  /\ pc[q] = "attempt 2" => \A s \in others[q] : s[1] # target[q]

(* The witness is still ahead of the request.                              *)
AheadAt(q) ==
  Promised(q) =>
    /\ pc[q] = "attempt 1" /\ witness[q] = <<target[q], primary[q]>>
         => witness[q] \in todo[q] \/ site[q] = witness[q]
    /\ pc[q] = "attempt 2"
         => witness[q] \in todo[q] \cup others[q] \/ site[q] = witness[q]
    /\ pc[q] = "attempt 3"
         => /\ witness[q] \in todo[q] \/ site[q] = witness[q]
            /\ witness[q][1] # target[q]
    /\ pc[q] = "answered" => witness[q][1] # target[q] \/ site[q][1] = target[q]
    /\ pc[q] # "failed"

(* The target is the client's own region, or the closest, if it can be.    *)
TargetAt(q) ==
  pc[q] # "idle" /\ hint[q] # None /\ witness[q] # None =>
    /\ target[q] \in Regions
    /\ witness[q][1] = hint[q] => target[q] = hint[q]
    /\ Distance[hint[q]][target[q]] <= Distance[hint[q]][witness[q][1]]

IInv ==
  /\ Types
  /\ WitnessServes
  /\ \A q \in Requests : ListsAt(q) /\ AheadAt(q) /\ TargetAt(q)

LEMMA InitIInv == Init => IInv
<1> SUFFICES ASSUME Init PROVE IInv
  OBVIOUS
<1>1. Types
  BY GatewayAssumption DEF Init, Types
<1>2. WitnessServes
  BY DEF Init, WitnessServes
<1>3. ASSUME NEW q \in Requests PROVE ListsAt(q) /\ AheadAt(q) /\ TargetAt(q)
  BY DEF Init, ListsAt, AheadAt, TargetAt, Promised
<1> QED
  BY <1>1, <1>2, <1>3 DEF IInv

(* A site is a region and a node.                                          *)
LEMMA SitePair ==
  ASSUME NEW s \in Sites
  PROVE  s[1] \in Regions /\ s[2] \in Nodes /\ s = <<s[1], s[2]>> /\ s # None
BY GatewayAssumption, RegionAssumption

(* A step of one request leaves the others as they are.                    *)
LEMMA OtherRequests ==
  ASSUME IInv, NEW q \in Requests, NEW p \in Requests, p # q,
         pc'[p] = pc[p], hint'[p] = hint[p], target'[p] = target[p],
         primary'[p] = primary[p], todo'[p] = todo[p], others'[p] = others[p],
         site'[p] = site[p], p \in gone' <=> p \in gone,
         witness'[p] = witness[p], p \in vouched' <=> p \in vouched
  PROVE  (ListsAt(p) /\ AheadAt(p) /\ TargetAt(p))'
<1>0. ListsAt(p) /\ AheadAt(p) /\ TargetAt(p)
  BY DEF IInv
<1>1. ListsAt(p)'
  BY <1>0 DEF ListsAt
<1>2. Promised(p)' => Promised(p)
  BY DEF Promised
<1>3. AheadAt(p)'
  BY <1>0, <1>2 DEF AheadAt
<1>4. TargetAt(p)'
  BY <1>0 DEF TargetAt
<1> QED
  BY <1>1, <1>3, <1>4

(* GetNearestRegion (region.go:144) when some region can serve.            *)
LEMMA NearestTargets ==
  ASSUME NEW h, NEW r \in Regions, GetNearestRegion(h, r),
         NEW w \in Regions, Routable(w), h \in Known, h \in Regions
  PROVE  /\ w = h => r = h
         /\ Distance[h][r] <= Distance[h][w]
<1>1. w \in RoutableRegions
  BY DEF RoutableRegions
<1>2. CASE h \in RoutableRegions
  BY <1>2, RegionAssumption DEF GetNearestRegion
<1>3. CASE h \notin RoutableRegions
  BY <1>1, <1>3 DEF GetNearestRegion, Closest
<1> QED
  BY <1>2, <1>3

LEMMA ReceiveIInv ==
  ASSUME IInv, NEW q \in Requests, NEW c \in Regions \cup {None}, Receive(q, c)
  PROVE  IInv'
<1>1. PICK r \in Regions : GetNearestRegion(c, r) /\ target' = [target EXCEPT ![q] = r]
  BY DEF Receive
<1>2. PICK w \in {s \in Sites : CanServe(s)} \cup {None} :
        /\ witness' = [witness EXCEPT ![q] = w]
        /\ vouched' = IF w # None /\ w[2] \in up THEN vouched \cup {q} ELSE vouched \ {q}
  BY DEF Receive
<1>3. /\ pc' = [pc EXCEPT ![q] = "routed"]
      /\ hint' = [hint EXCEPT ![q] = IF c \in Known THEN c ELSE None]
      /\ UNCHANGED <<pool, ring, healthy, alive, up, primary, todo, others, site, gone>>
      /\ pc[q] = "idle"
  BY DEF Receive
<1>4. Types'
  BY <1>1, <1>2, <1>3 DEF IInv, Types
<1>5. WitnessServes'
  <2> SUFFICES ASSUME NEW p \in Requests, witness'[p] # None
               PROVE  /\ witness'[p] \in Pooled'
                      /\ witness'[p][1] \in healthy' /\ witness'[p][2] \in alive'
                      /\ p \in vouched' => witness'[p][2] \in up'
    BY DEF WitnessServes, CanServe
  <2>1. CASE p = q
    BY <1>2, <1>3, <2>1 DEF IInv, Types, CanServe, Pooled
  <2>2. CASE p # q
    BY <1>2, <1>3, <2>2 DEF IInv, Types, WitnessServes, CanServe, Pooled
  <2> QED
    BY <2>1, <2>2
<1>6. (ListsAt(q) /\ AheadAt(q))'
  <2>1. pc'[q] = "routed" /\ site'[q] = None /\ target'[q] \in Regions
    BY <1>1, <1>3 DEF IInv, Types, ListsAt
  <2> QED
    BY <2>1 DEF ListsAt, AheadAt
<1>7. TargetAt(q)'
  <2> SUFFICES ASSUME hint'[q] # None, witness'[q] # None
               PROVE  /\ target'[q] \in Regions
                      /\ witness'[q][1] = hint'[q] => target'[q] = hint'[q]
                      /\ Distance[hint'[q]][target'[q]] <= Distance[hint'[q]][witness'[q][1]]
    BY DEF TargetAt
  <2>1. hint'[q] = c /\ c \in Known /\ c \in Regions /\ target'[q] = r
    BY <1>1, <1>3 DEF IInv, Types
  <2>2. witness'[q] = w /\ w \in Sites /\ CanServe(w)
    BY <1>2 DEF IInv, Types
  <2>3. w[1] \in Regions /\ Routable(w[1])
    BY <2>2, SitePair DEF CanServe, Pooled, Routable
  <2> QED
    BY <1>1, <2>1, <2>2, <2>3, NearestTargets
<1>8. ASSUME NEW p \in Requests, p # q PROVE (ListsAt(p) /\ AheadAt(p) /\ TargetAt(p))'
  <2>1. /\ pc'[p] = pc[p] /\ hint'[p] = hint[p] /\ target'[p] = target[p]
        /\ witness'[p] = witness[p] /\ (p \in vouched' <=> p \in vouched)
    BY <1>1, <1>2, <1>3, <1>8 DEF IInv, Types
  <2> QED
    BY <1>3, <1>8, <2>1, OtherRequests
<1> QED
  BY <1>4, <1>5, <1>6, <1>7, <1>8 DEF IInv

(* A step of a request that leaves the world alone.                        *)
LEMMA LocalStep ==
  ASSUME IInv, NEW q \in Requests, UNCHANGED <<worldVars, hint, target>>, Types',
         \A p \in Requests \ {q} :
           /\ pc'[p] = pc[p] /\ primary'[p] = primary[p] /\ todo'[p] = todo[p]
           /\ others'[p] = others[p] /\ site'[p] = site[p]
           /\ p \in gone' <=> p \in gone,
         pc[q] # "idle", (ListsAt(q) /\ AheadAt(q))'
  PROVE  IInv'
<1>1. UNCHANGED <<pool, ring, healthy, alive, up, witness, vouched>>
  BY DEF worldVars, routerVars
<1>2. WitnessServes'
  BY <1>1 DEF IInv, WitnessServes, CanServe, Pooled
<1>3. ASSUME NEW p \in Requests, p # q PROVE (ListsAt(p) /\ AheadAt(p) /\ TargetAt(p))'
  BY <1>1, <1>3, OtherRequests
<1>4. TargetAt(q)'
  BY <1>1 DEF IInv, TargetAt
<1> QED
  BY <1>2, <1>3, <1>4 DEF IInv

LEMMA PickPrimaryIInv ==
  ASSUME IInv, NEW q \in Requests, PickPrimary(q)
  PROVE  IInv'
<1> DEFINE r == target[q]
<1>1. PICK h \in Hashes, n \in Nodes \cup {None} :
        /\ GetNodeForKey(r, h, n)
        /\ primary' = [primary EXCEPT ![q] = n]
        /\ todo' = [todo EXCEPT ![q] = IF n = None THEN {} ELSE {<<r, n>>}]
  BY DEF PickPrimary
<1>2. /\ pc[q] = "routed" /\ pc' = [pc EXCEPT ![q] = "attempt 1"]
      /\ UNCHANGED <<worldVars, hint, target, others, site, gone>>
      /\ UNCHANGED <<pool, ring, witness>>
  BY DEF PickPrimary, worldVars, routerVars
<1>3. r \in Regions /\ site[q] = None
  BY <1>2 DEF IInv, ListsAt
<1>4. /\ n \in Nodes \cup {None}
      /\ n # None => n \in Nodes /\ <<r, n>> \in Sites
  <2>1. pool[r] \in SUBSET Nodes /\ ring[r] = RingOf(pool[r])
    BY <1>3 DEF IInv, Types
  <2>2. n # None => n \in pool[r]
    BY <1>1, <2>1, GetNodeOwner DEF GetNodeForKey
  <2> QED
    BY <1>1, <1>3, <2>2, RegionAssumption DEF IInv, Types
<1>5. Types'
  BY <1>1, <1>2, <1>4 DEF IInv, Types, Attempts
<1>6. ListsAt(q)'
  <2>1. /\ pc'[q] = "attempt 1" /\ target'[q] = r /\ site'[q] = None
        /\ todo'[q] = IF n = None THEN {} ELSE {<<r, n>>}
    BY <1>1, <1>2, <1>3 DEF IInv, Types
  <2>2. ASSUME NEW x \in todo'[q] PROVE x[1] = r
    <3>1. n = None => todo'[q] = {}
      BY <2>1
    <3>2. n # None => todo'[q] = {<<r, n>>}
      BY <2>1
    <3>3. x = <<r, n>>
      BY <2>2, <3>1, <3>2
    <3> QED
      BY <3>3
  <2> QED
    BY <1>3, <2>1, <2>2 DEF ListsAt
<1>7. AheadAt(q)'
  <2>1. pc'[q] = "attempt 1" /\ target'[q] = r /\ primary'[q] = n
    BY <1>1, <1>2 DEF IInv, Types
  <2>2. ASSUME Promised(q)', witness'[q] = <<r, n>> PROVE witness'[q] \in todo'[q]
    <3>1. witness'[q] \in Sites
      BY <1>5, <2>2 DEF Types, Promised
    <3>2. n # None
      BY <2>2, <3>1, SitePair, RegionAssumption
    <3> QED
      BY <1>1, <2>2, <3>2 DEF IInv, Types
  <2> QED
    BY <2>1, <2>2 DEF AheadAt
<1> QED
  BY <1>1, <1>2, <1>5, <1>6, <1>7, LocalStep DEF IInv, Types

LEMMA TryIInv ==
  ASSUME IInv, NEW q \in Requests, NEW s \in Sites, Try(q, s)
  PROVE  IInv'
<1>1. /\ pc[q] \in Attempts /\ site[q] = None /\ s \in todo[q]
      /\ todo' = [todo EXCEPT ![q] = @ \ {s}]
      /\ site' = [site EXCEPT ![q] = IF s[2] \in up THEN s ELSE None]
      /\ UNCHANGED <<worldVars, pc, hint, target, primary, others, gone>>
      /\ UNCHANGED <<pool, ring, up, witness, vouched>>
  BY DEF Try, worldVars, routerVars
<1>2. Types'
  BY <1>1 DEF IInv, Types
<1>3. todo'[q] = todo[q] \ {s} /\ site'[q] = IF s[2] \in up THEN s ELSE None
  BY <1>1 DEF IInv, Types
<1>4. ListsAt(q)'
  <2>1. pc'[q] = pc[q] /\ target'[q] = target[q] /\ others'[q] = others[q]
    BY <1>1
  <2>2. site'[q] # None => site'[q] = s
    BY <1>3
  <2>3. ListsAt(q)
    BY DEF IInv
  <2>4. pc[q] \notin {"idle", "routed"}
    BY <1>1 DEF Attempts
  <2> QED
    BY <1>1, <1>3, <2>1, <2>2, <2>3, <2>4 DEF ListsAt
<1>5. AheadAt(q)'
  <2> SUFFICES ASSUME Promised(q)' PROVE AheadAt(q)'
    BY DEF AheadAt
  <2>1. Promised(q) /\ witness[q][2] \in up /\ witness[q] # None
    BY <1>1 DEF Promised, IInv, WitnessServes
  <2>2. witness[q] = s => site'[q] = witness[q]
    BY <1>3, <2>1
  <2> QED
    BY <1>1, <1>3, <2>1, <2>2 DEF IInv, AheadAt, Attempts
<1> QED
  BY <1>1, <1>2, <1>4, <1>5, LocalStep DEF IInv, Types, Attempts

LEMMA SendIInv ==
  ASSUME IInv, NEW q \in Requests, SendWorks(q) \/ SendFails(q)
  PROVE  IInv'
<1>1. /\ pc[q] \in Attempts /\ site[q] # None
      /\ UNCHANGED <<worldVars, hint, target, primary, todo, others, gone>>
      /\ UNCHANGED <<pool, ring, alive, up, witness, vouched>>
  BY DEF SendWorks, SendFails, worldVars, routerVars
<1>2. CASE SendWorks(q)
  <2>1. pc' = [pc EXCEPT ![q] = "answered"] /\ site' = site
    BY <1>2 DEF SendWorks
  <2>2. Types'
    BY <1>1, <2>1 DEF IInv, Types, Ended
  <2>3. ListsAt(q)'
    BY <1>1, <2>1 DEF IInv, Types, ListsAt, Attempts
  <2>4. AheadAt(q)'
    <3>1. Promised(q)' => Promised(q)
      BY <1>1 DEF Promised
    <3>2. Promised(q) => witness[q][1] # target[q] \/ site[q][1] = target[q]
      BY <1>1 DEF IInv, ListsAt, AheadAt, Attempts
    <3>3. pc'[q] = "answered"
      BY <2>1 DEF IInv, Types
    <3> QED
      BY <1>1, <2>1, <3>1, <3>2, <3>3 DEF AheadAt
  <2> QED
    BY <1>1, <2>1, <2>2, <2>3, <2>4, LocalStep DEF IInv, Types, Attempts
<1>3. CASE SendFails(q)
  <2>1. /\ site' = [site EXCEPT ![q] = None] /\ pc' = pc
        /\ site[q][2] \notin alive \/ q \in gone
    BY <1>3 DEF SendFails
  <2>2. Types'
    BY <1>1, <2>1 DEF IInv, Types
  <2>3. ListsAt(q)'
    BY <1>1, <2>1 DEF IInv, Types, ListsAt, Attempts
  <2>4. AheadAt(q)'
    <3> SUFFICES ASSUME Promised(q)' PROVE AheadAt(q)'
      BY DEF AheadAt
    <3>1. Promised(q) /\ witness[q][2] \in alive
      BY <1>1 DEF Promised, IInv, WitnessServes, CanServe
    <3>2. site[q] # witness[q]
      BY <1>1, <2>1, <3>1 DEF Promised
    <3> QED
      BY <1>1, <2>1, <3>1, <3>2 DEF IInv, AheadAt, Attempts
  <2> QED
    BY <1>1, <2>1, <2>2, <2>3, <2>4, LocalStep DEF IInv, Types, Attempts
<1> QED
  BY <1>2, <1>3

(* The snapshot contains the witness, unless it was the primary.           *)
LEMMA SnapshotIInv ==
  ASSUME IInv, NEW q \in Requests, Snapshot(q)
  PROVE  IInv'
<1>1. /\ pc[q] = "attempt 1" /\ site[q] = None /\ todo[q] = {}
      /\ pc' = [pc EXCEPT ![q] = "attempt 2"]
      /\ todo' = [todo EXCEPT ![q] = SameRegion(q)]
      /\ others' = [others EXCEPT ![q] = OtherRegions(q)]
      /\ UNCHANGED <<worldVars, hint, target, primary, site, gone>>
      /\ UNCHANGED <<pool, ring, healthy, alive, up, witness, vouched>>
  BY DEF Snapshot, Trying, worldVars, routerVars
<1>2. SameRegion(q) \subseteq Sites /\ OtherRegions(q) \subseteq Sites
  BY DEF SameRegion, OtherRegions, Pooled
<1>3. Types'
  BY <1>1, <1>2 DEF IInv, Types, Attempts
<1>4. /\ pc'[q] = "attempt 2" /\ todo'[q] = SameRegion(q)
      /\ others'[q] = OtherRegions(q) /\ site'[q] = None
  BY <1>1 DEF IInv, Types
<1>5. ListsAt(q)'
  BY <1>1, <1>4 DEF IInv, ListsAt, SameRegion, OtherRegions
<1>6. AheadAt(q)'
  <2> SUFFICES ASSUME Promised(q)' PROVE witness[q] \in SameRegion(q) \cup OtherRegions(q)
    BY <1>1, <1>4 DEF AheadAt
  <2>1. Promised(q) /\ witness[q] \in Sites /\ witness[q] \in Pooled /\ witness[q][1] \in healthy
    BY <1>1 DEF Promised, IInv, Types, WitnessServes, CanServe
  <2>2. witness[q] # <<target[q], primary[q]>>
    BY <1>1, <2>1 DEF IInv, AheadAt, Promised
  <2>3. witness[q] = <<witness[q][1], witness[q][2]>>
    BY <2>1, SitePair
  <2> QED
    BY <2>1, <2>2, <2>3 DEF SameRegion, OtherRegions
<1> QED
  BY <1>1, <1>3, <1>5, <1>6, LocalStep DEF IInv, Types

LEMMA LeaveRegionIInv ==
  ASSUME IInv, NEW q \in Requests, LeaveRegion(q)
  PROVE  IInv'
<1>1. /\ pc[q] = "attempt 2" /\ site[q] = None /\ todo[q] = {}
      /\ pc' = [pc EXCEPT ![q] = "attempt 3"]
      /\ todo' = [todo EXCEPT ![q] = others[q]]
      /\ others' = [others EXCEPT ![q] = {}]
      /\ UNCHANGED <<worldVars, hint, target, primary, site, gone>>
      /\ UNCHANGED <<witness, vouched>>
  BY DEF LeaveRegion, Trying, worldVars
<1>2. UNCHANGED <<pool, ring>>
  BY <1>1 DEF worldVars, routerVars
<1>3. Types'
  BY <1>1, <1>2 DEF IInv, Types, Attempts
<1>4. pc'[q] = "attempt 3" /\ todo'[q] = others[q]
  BY <1>1 DEF IInv, Types
<1>5. ListsAt(q)'
  BY <1>1, <1>4 DEF IInv, ListsAt
<1>6. AheadAt(q)'
  <2>1. Promised(q)' => Promised(q)
    BY <1>1 DEF Promised
  <2>2. Promised(q) => witness[q] \in others[q] /\ witness[q][1] # target[q]
    BY <1>1 DEF IInv, AheadAt, ListsAt, Promised
  <2> QED
    BY <1>1, <1>4, <2>1, <2>2 DEF AheadAt
<1> QED
  BY <1>1, <1>3, <1>5, <1>6, LocalStep DEF IInv, Types

LEMMA ExhaustedIInv ==
  ASSUME IInv, NEW q \in Requests, Exhausted(q)
  PROVE  IInv'
<1>1. /\ pc[q] = "attempt 3" /\ site[q] = None /\ todo[q] = {}
      /\ pc' = [pc EXCEPT ![q] = "failed"]
      /\ UNCHANGED <<worldVars, hint, target, primary, todo, others, site, gone>>
      /\ UNCHANGED <<pool, ring, witness, vouched>>
  BY DEF Exhausted, Trying, worldVars, routerVars
<1>2. Types'
  BY <1>1 DEF IInv, Types, Ended
<1>3. ListsAt(q)'
  BY <1>1 DEF IInv, Types, ListsAt
<1>4. ~Promised(q)'
  BY <1>1 DEF IInv, AheadAt, Promised
<1> QED
  BY <1>1, <1>2, <1>3, <1>4, LocalStep DEF IInv, Types, AheadAt

LEMMA FinishIInv ==
  ASSUME IInv, NEW q \in Requests, Finish(q)
  PROVE  IInv'
<1>1. Types'
  BY DEF Finish, IInv, Types, routerVars
<1>2. WitnessServes'
  BY DEF Finish, IInv, Types, WitnessServes, CanServe, Pooled, routerVars
<1>3. (ListsAt(q) /\ AheadAt(q) /\ TargetAt(q))'
  BY DEF Finish, IInv, Types, ListsAt, AheadAt, TargetAt, Promised
<1>4. ASSUME NEW p \in Requests, p # q PROVE (ListsAt(p) /\ AheadAt(p) /\ TargetAt(p))'
  <2>1. /\ pc'[p] = pc[p] /\ hint'[p] = hint[p] /\ target'[p] = target[p]
        /\ primary'[p] = primary[p] /\ todo'[p] = todo[p] /\ others'[p] = others[p]
        /\ site'[p] = site[p] /\ witness'[p] = witness[p]
        /\ (p \in gone' <=> p \in gone) /\ (p \in vouched' <=> p \in vouched)
    BY <1>4 DEF Finish, IInv, Types
  <2> QED
    BY <1>4, <2>1, OtherRequests
<1> QED
  BY <1>1, <1>2, <1>3, <1>4 DEF IInv

LEMMA ClientLeavesIInv ==
  ASSUME IInv, NEW q \in Requests, ClientLeaves(q)
  PROVE  IInv'
<1>1. /\ pc[q] # "idle" /\ gone' = gone \cup {q}
      /\ UNCHANGED <<worldVars, pc, hint, target, primary, todo, others, site>>
      /\ UNCHANGED <<pool, ring, witness>>
  BY DEF ClientLeaves, Attempts, worldVars, routerVars
<1>2. Types' /\ ListsAt(q)'
  BY <1>1 DEF IInv, Types, ListsAt
<1>3. AheadAt(q)'
  BY <1>1 DEF AheadAt, Promised
<1> QED
  BY <1>1, <1>2, <1>3, LocalStep

(* What happens around the requests only ever takes promises back.         *)
LEMMA EventKeeps ==
  ASSUME IInv, UNCHANGED requestVars, Types', WitnessServes',
         \A q \in Requests : witness'[q] \in {witness[q], None},
         vouched' \subseteq vouched
  PROVE  IInv'
<1>1. ASSUME NEW q \in Requests PROVE (ListsAt(q) /\ AheadAt(q) /\ TargetAt(q))'
  <2>1. ListsAt(q)'
    BY DEF IInv, ListsAt, requestVars
  <2>2. Promised(q)' => Promised(q) /\ witness'[q] = witness[q]
    BY DEF Promised, requestVars
  <2>3. AheadAt(q)'
    BY <2>2 DEF IInv, AheadAt, requestVars
  <2>4. witness'[q] # None => witness'[q] = witness[q]
    OBVIOUS
  <2>5. TargetAt(q)'
    BY <2>4 DEF IInv, TargetAt, requestVars
  <2> QED
    BY <2>1, <2>3, <2>5
<1> QED
  BY <1>1 DEF IInv

(* AddNode and RemoveNode of a site keep the ring the ring of the pool.    *)
LEMMA RingStep ==
  ASSUME Types, NEW s \in Sites, NodeAdded(s) \/ NodeRemoved(s)
  PROVE  ring' = [r \in Regions |-> RingOf(pool'[r])]
<1>1. s[1] \in Regions /\ s[2] \in Nodes
  BY SitePair
<1>2. pool[s[1]] \in SUBSET Nodes /\ ring[s[1]] = RingOf(pool[s[1]])
  BY <1>1 DEF Types
<1>3. CASE NodeAdded(s)
  <2>1. /\ pool' = [pool EXCEPT ![s[1]] = @ \cup {s[2]}]
        /\ ring' = [ring EXCEPT ![s[1]] = ringAdd(@, s[2])]
    BY <1>3 DEF NodeAdded, AddNode
  <2>2. ringAdd(ring[s[1]], s[2]) = RingOf(pool[s[1]] \cup {s[2]})
    BY <1>1, <1>2, AddToRing
  <2> QED
    BY <1>1, <2>1, <2>2 DEF Types
<1>4. CASE NodeRemoved(s)
  <2>1. /\ pool' = [pool EXCEPT ![s[1]] = @ \ {s[2]}]
        /\ ring' = [ring EXCEPT ![s[1]] = ringRemove(@, s[2])]
    BY <1>4 DEF NodeRemoved, RemoveNode
  <2>2. ringRemove(ring[s[1]], s[2]) = RingOf(pool[s[1]] \ {s[2]})
    BY <1>1, <1>2, RemoveFromRing
  <2> QED
    BY <1>1, <2>1, <2>2 DEF Types
<1> QED
  BY <1>3, <1>4

LEMMA EventIInv ==
  ASSUME IInv,
         \/ \E s \in Sites : NodeAdded(s) \/ NodeRemoved(s)
         \/ \E r \in Regions, ok \in BOOLEAN : RegionMarked(r, ok)
         \/ \E n \in Nodes : Dies(n) \/ Revives(n) \/ VerdictFlips(n)
  PROVE  IInv'
<1>0. PICK lost : Event(lost)
  BY DEF NodeAdded, NodeRemoved, RegionMarked, Dies, Revives, VerdictFlips
<1>1. /\ UNCHANGED requestVars
      /\ UNCHANGED <<pc, hint, target, primary, todo, others, site>>
      /\ \A q \in Requests : witness'[q] \in {witness[q], None}
      /\ witness' \in [Requests -> Sites \cup {None}]
  BY <1>0 DEF Event, IInv, Types, requestVars
<1>2. /\ pool' \in [Regions -> SUBSET Nodes]
      /\ \A r \in Regions : \A n \in pool'[r] : <<r, n>> \in Sites
      /\ ring' = [r \in Regions |-> RingOf(pool'[r])]
  <2>1. ASSUME NEW s \in Sites, NodeAdded(s) \/ NodeRemoved(s)
        PROVE  /\ pool' \in [Regions -> SUBSET Nodes]
               /\ \A r \in Regions : \A n \in pool'[r] : <<r, n>> \in Sites
               /\ ring' = [r \in Regions |-> RingOf(pool'[r])]
    <3>1. s[1] \in Regions /\ s[2] \in Nodes /\ <<s[1], s[2]>> \in Sites
      BY SitePair
    <3>2. \/ pool' = [pool EXCEPT ![s[1]] = @ \cup {s[2]}]
          \/ pool' = [pool EXCEPT ![s[1]] = @ \ {s[2]}]
      BY <2>1 DEF NodeAdded, NodeRemoved, AddNode, RemoveNode
    <3>3. pool' \in [Regions -> SUBSET Nodes]
      BY <3>1, <3>2 DEF IInv, Types
    <3>4. ASSUME NEW r \in Regions, NEW n \in pool'[r] PROVE <<r, n>> \in Sites
      <4>1. n \in pool[r] \/ (r = s[1] /\ n = s[2])
        BY <3>1, <3>2, <3>4 DEF IInv, Types
      <4> QED
        BY <3>1, <4>1 DEF IInv, Types
    <3>5. ring' = [r \in Regions |-> RingOf(pool'[r])]
      BY <2>1, RingStep DEF IInv
    <3> QED
      BY <3>3, <3>4, <3>5
  <2>2. ASSUME NEW r \in Regions, NEW ok \in BOOLEAN, RegionMarked(r, ok) PROVE pool' = pool /\ ring' = ring
    BY <2>2 DEF RegionMarked, SetRegionHealth
  <2>3. ASSUME NEW n \in Nodes, Dies(n) \/ Revives(n) \/ VerdictFlips(n) PROVE pool' = pool /\ ring' = ring
    BY <2>3 DEF Dies, Revives, VerdictFlips, routerVars
  <2> QED
    BY <2>1, <2>2, <2>3 DEF IInv, Types
<1>3. Types'
  BY <1>1, <1>2 DEF IInv, Types
<1>4. vouched' \subseteq vouched
  BY DEF NodeAdded, NodeRemoved, RegionMarked, Dies, Revives, VerdictFlips
<1>5. WitnessServes'
  <2> SUFFICES ASSUME NEW q \in Requests, witness'[q] # None
               PROVE  /\ witness[q] \in Pooled'
                      /\ witness[q][1] \in healthy' /\ witness[q][2] \in alive'
                      /\ q \in vouched' => witness[q][2] \in up'
    BY <1>1 DEF WitnessServes, CanServe
  <2>1. /\ witness'[q] = witness[q] /\ witness[q] \in Sites /\ witness[q] \in Pooled
        /\ witness[q][1] \in healthy /\ witness[q][2] \in alive
        /\ q \in vouched => witness[q][2] \in up
    BY <1>1 DEF IInv, Types, WitnessServes, CanServe, Pooled
  <2>2. /\ witness[q][1] \in Regions /\ witness[q][2] \in Nodes
        /\ witness[q] = <<witness[q][1], witness[q][2]>>
    BY <2>1, SitePair
  <2>3. ASSUME NEW s \in Sites, NodeAdded(s) PROVE
               /\ witness[q] \in Pooled' /\ healthy \subseteq healthy'
               /\ UNCHANGED <<alive, up, vouched>>
    BY <2>1, <2>2, <2>3, SitePair DEF NodeAdded, AddNode, Pooled, IInv, Types
  <2>4. ASSUME NEW s \in Sites, NodeRemoved(s) PROVE
               /\ witness[q] \in Pooled' /\ witness[q][1] \in healthy'
               /\ UNCHANGED <<alive, up, vouched>>
    <3>1. witness[q] # s
      BY <2>1, <2>4 DEF NodeRemoved, Event
    <3>2. s[1] \in Regions /\ s[2] \in Nodes /\ s = <<s[1], s[2]>>
      BY SitePair
    <3>3. /\ pool' = [pool EXCEPT ![s[1]] = @ \ {s[2]}]
          /\ healthy' = IF pool[s[1]] \subseteq {s[2]} THEN healthy \ {s[1]} ELSE healthy
          /\ UNCHANGED <<alive, up, vouched>>
      BY <2>4 DEF NodeRemoved, RemoveNode
    <3>4. witness[q][2] \in pool[witness[q][1]]
      BY <2>1 DEF Pooled
    <3>5. witness[q][1] = s[1] => witness[q][2] # s[2]
      BY <2>2, <3>1, <3>2
    <3>6. witness[q][2] \in pool'[witness[q][1]]
      BY <2>2, <3>2, <3>3, <3>4, <3>5 DEF IInv, Types
    <3>7. witness[q][1] \in healthy'
      BY <2>1, <3>3, <3>4, <3>5
    <3> QED
      BY <2>1, <3>3, <3>6, <3>7 DEF Pooled
  <2>5. ASSUME NEW r \in Regions, NEW ok \in BOOLEAN, RegionMarked(r, ok) PROVE
               /\ witness[q] \in Pooled' /\ witness[q][1] \in healthy'
               /\ UNCHANGED <<alive, up, vouched>>
    <3>1. witness[q][1] # r
      BY <2>1, <2>5 DEF RegionMarked, Event
    <3> QED
      BY <2>1, <2>5, <3>1 DEF RegionMarked, SetRegionHealth, Pooled
  <2>6. ASSUME NEW n \in Nodes, Dies(n) \/ Revives(n) PROVE
               /\ UNCHANGED <<pool, ring, healthy, up, vouched>> /\ witness[q][2] \in alive'
    <3>1. Dies(n) => witness[q][2] # n
      BY <2>1 DEF Dies, Event, SitesOf
    <3> QED
      BY <2>1, <2>6, <3>1 DEF Dies, Revives, routerVars
  <2>7. ASSUME NEW n \in Nodes, VerdictFlips(n) PROVE
               /\ UNCHANGED <<pool, ring, healthy, alive>>
               /\ q \in vouched' => witness[q][2] \in up'
    <3>1. q \in vouched' => q \in vouched /\ witness[q][2] # n
      BY <2>1, <2>7 DEF VerdictFlips, SitesOf
    <3> QED
      BY <2>1, <2>7, <3>1 DEF VerdictFlips, routerVars
  <2> QED
    BY <2>1, <2>3, <2>4, <2>5, <2>6, <2>7 DEF Pooled
<1> QED
  BY <1>1, <1>3, <1>4, <1>5, EventKeeps

LEMMA NextIInv == IInv /\ [Next]_vars => IInv'
<1> SUFFICES ASSUME IInv, [Next]_vars PROVE IInv'
  OBVIOUS
<1>1. ASSUME NEW q \in Requests, NEW r \in Regions \cup {None}, Receive(q, r) PROVE IInv'
  BY <1>1, ReceiveIInv
<1>2. ASSUME NEW q \in Requests, RequestStep(q) PROVE IInv'
  BY <1>2, PickPrimaryIInv, TryIInv, SendIInv, SnapshotIInv, LeaveRegionIInv, ExhaustedIInv
  DEF RequestStep
<1>3. ASSUME NEW q \in Requests, Finish(q) \/ ClientLeaves(q) PROVE IInv'
  BY <1>3, FinishIInv, ClientLeavesIInv
<1>4. CASE \/ \E s \in Sites : NodeAdded(s) \/ NodeRemoved(s)
           \/ \E r \in Regions, ok \in BOOLEAN : RegionMarked(r, ok)
           \/ \E n \in Nodes : Dies(n) \/ Revives(n) \/ VerdictFlips(n)
  BY <1>4, EventIInv
<1>5. CASE UNCHANGED vars
  <2>1. /\ UNCHANGED requestVars /\ UNCHANGED <<pool, ring, healthy, alive, up, witness, vouched>>
    BY <1>5 DEF vars, worldVars, routerVars
  <2>2. Types' /\ WitnessServes'
    BY <2>1 DEF IInv, Types, WitnessServes, CanServe, Pooled, requestVars
  <2> QED
    BY <2>1, <2>2, EventKeeps
<1> QED
  BY <1>1, <1>2, <1>3, <1>4, <1>5 DEF Next

LEMMA GatewayIInv == Spec => []IInv
BY InitIInv, NextIInv, PTL DEF Spec

-----------------------------------------------------------------------------
(* No request gets a 502 while some node could serve and was known to,     *)
(* all the time (gateway.go:121-181).                                      *)
THEOREM GatewayFailoverComplete == Spec => []FailoverComplete
<1>1. IInv => FailoverComplete
  BY DEF IInv, AheadAt, FailoverComplete
<1> QED
  BY <1>1, GatewayIInv, PTL

(* A request is answered from the client's own region whenever a node      *)
(* there could serve all the time (gateway.go:125, 143).                   *)
THEOREM GatewayLocality == Spec => []Locality
<1>1. IInv => Locality
  <2> SUFFICES ASSUME IInv, NEW q \in Requests, pc[q] = "answered", Promised(q),
                      witness[q][1] = hint[q]
               PROVE  site[q][1] = hint[q]
    BY DEF Locality
  <2>1. witness[q] \in Sites /\ hint[q] # None
    BY SitePair, RegionAssumption DEF IInv, Types, Promised
  <2>2. target[q] = hint[q]
    BY <2>1 DEF IInv, TargetAt, Promised
  <2> QED
    BY <2>2 DEF IInv, AheadAt
<1> QED
  BY <1>1, GatewayIInv, PTL

(* The target is never farther away than a region that could serve         *)
(* (region.go:155-172).                                                    *)
THEOREM GatewayNearestTarget == Spec => []NearestTarget
<1>1. IInv => NearestTarget
  BY DEF IInv, TargetAt, NearestTarget
<1> QED
  BY <1>1, GatewayIInv, PTL

(* The ring of a region is always the ring of its pool, however the nodes  *)
(* came and went (consistent.go:33-66, region.go:88-140).                  *)
THEOREM GatewayRing == Spec => []RingMatchesPool
<1>1. IInv => RingMatchesPool
  BY DEF IInv, Types, RingMatchesPool
<1> QED
  BY <1>1, GatewayIInv, PTL

(* A key changes its node only when that node leaves, or to the node that  *)
(* joins (consistent.go:68).                                               *)
THEOREM GatewayMinimalDisruption == Spec => MinimalDisruption
<1>1. ASSUME IInv, IInv', [Next]_vars, ring' # ring, NEW r \in Regions,
             NEW h \in Hashes, NEW n \in Nodes, Disrupts(r, h, n)
      PROVE  FALSE
  <2>1. PICK s \in Sites : NodeAdded(s) \/ NodeRemoved(s)
    <3>1. CASE Next
      BY <1>1, <3>1 DEF Next, RequestStep, Receive, PickPrimary, Try, SendWorks, SendFails,
        Snapshot, LeaveRegion, Exhausted, Finish, ClientLeaves, RegionMarked,
        SetRegionHealth, Dies, Revives, VerdictFlips, worldVars, routerVars
    <3> QED
      BY <1>1, <3>1 DEF vars, worldVars, routerVars
  <2>2. /\ pool[r] \in SUBSET Nodes /\ ring[r] = RingOf(pool[r])
        /\ pool'[r] \in SUBSET Nodes /\ ring'[r] = RingOf(pool'[r])
        /\ h \in Nat /\ s[1] \in Regions /\ s[2] \in Nodes
    BY <1>1, SitePair, RegionAssumption DEF IInv, Types
  <2>3. n \in pool[r] /\ n \in pool'[r] /\ GetNode(RingOf(pool[r]), h, n)
    BY <1>1, <2>2, GetNodeOwner DEF Disrupts
  <2>4. CASE pool'[r] \subseteq pool[r]
    BY <1>1, <2>2, <2>3, <2>4, RemoveKeeps DEF Disrupts
  <2>5. CASE ~(pool'[r] \subseteq pool[r])
    <3>1. pool' = [pool EXCEPT ![s[1]] = @ \cup {s[2]}] /\ s[2] \notin pool[s[1]]
      <4>1. NodeAdded(s)
        BY <1>1, <2>1, <2>2, <2>5 DEF NodeRemoved, RemoveNode, IInv, Types
      <4> QED
        BY <4>1 DEF NodeAdded, AddNode
    <3>2. r = s[1] /\ pool'[r] = pool[r] \cup {s[2]} /\ s[2] \in pool'[r] \ pool[r]
      BY <1>1, <2>2, <2>5, <3>1 DEF IInv, Types
    <3>3. PICK k \in {n, s[2]} : GetNode(RingOf(pool'[r]), h, k)
      BY <2>2, <2>3, <3>2, AddKeeps
    <3> QED
      BY <1>1, <2>2, <3>2, <3>3 DEF Disrupts
  <2> QED
    BY <2>4, <2>5
<1>2. IInv /\ IInv' /\ [Next]_vars =>
        [~\E r \in Regions, h \in Hashes, n \in Nodes : Disrupts(r, h, n)]_ring
  BY <1>1
<1> QED
  BY <1>2, GatewayIInv, PTL DEF Spec, MinimalDisruption

-----------------------------------------------------------------------------
(* Round-robin.  How often a routable region was passed over says nothing  *)
(* of when that ends; the invariant adds how far ahead of the index the    *)
(* region is.  A pick that passes it over brings the index closer by one   *)
(* at least, and a region that appears lengthens the list by as much as    *)
(* the way to any region behind the index.                                 *)

(* Picks that may still come before the one at position i of the list.     *)
Turn(i) == IF i > rrIndex THEN i - 1 - rrIndex ELSE i - 1 - rrIndex + Len(order)

(* Every region with nodes is listed, each listed region once.             *)
Listed ==
  /\ order \in Seq(Regions)
  /\ Len(order) = Cardinality(Known)
  /\ rrIndex \in 0 .. Len(order) - 1
  /\ \A r \in Regions : pool[r] # {} => r \in Known

(* What a region has waited and what it may still wait make up one lap.    *)
Lap ==
  /\ waits \in [Regions -> Nat]
  /\ \A r \in Regions \ Known : waits[r] = 0
  /\ \A i \in 1 .. Len(order) : waits[order[i]] + Turn(i) < Len(order)

RRInv == Listed /\ Lap

(* The index never runs over more than the end of the list once.           *)
LEMMA Wrap ==
  ASSUME NEW n \in Nat, NEW a \in 0 .. n - 1, NEW i \in 0 .. n
  PROVE  (a + i) % n = IF a + i < n THEN a + i ELSE a + i - n
<1>1. CASE a + i < n
  BY <1>1
<1>2. CASE ~(a + i < n)
  BY <1>2
<1> QED
  BY <1>1, <1>2

(* A position of the list is less than a lap ahead of the index.           *)
LEMMA TurnRange ==
  ASSUME NEW n \in Nat, NEW a \in 0 .. n - 1, NEW p \in 1 .. n
  PROVE  (IF p > a THEN p - 1 - a ELSE p - 1 - a + n) \in 0 .. n - 1
OBVIOUS

(* From index a, the pick at distance i moves the index to b: a position p *)
(* farther away than the pick is closer to b than it was to a.             *)
LEMMA CloserTurn ==
  ASSUME NEW n \in Nat, NEW a \in 0 .. n - 1, NEW i \in 0 .. n - 1, NEW p \in 1 .. n,
         NEW x \in 0 .. n - 1, x = IF a + i < n THEN a + i ELSE a + i - n,
         NEW b \in 0 .. n - 1, b = IF x + 1 < n THEN x + 1 ELSE 0,
         i < IF p > a THEN p - 1 - a ELSE p - 1 - a + n
  PROVE  (IF p > b THEN p - 1 - b ELSE p - 1 - b + n)
           < IF p > a THEN p - 1 - a ELSE p - 1 - a + n
<1>1. p \in Nat /\ 1 <= p /\ p <= n /\ a <= n - 1 /\ b <= n - 1
  OBVIOUS
<1>2. CASE p > a
  BY <1>1, <1>2
<1>3. CASE ~(p > a)
  BY <1>1, <1>3
<1> QED
  BY <1>2, <1>3

LEMMA KnownFinite ==
  ASSUME order \in Seq(Regions)
  PROVE  /\ IsFiniteSet(Known) /\ Cardinality(Known) \in Nat
         /\ Known \subseteq Regions /\ Len(order) \in Nat
<1>1. Known \subseteq Regions /\ Len(order) \in Nat
  BY DEF Known
<1> QED
  BY <1>1, RegionAssumption, FS_Subset, FS_CardinalityType

LEMMA InitRRInv == Init => RRInv
<1> SUFFICES ASSUME Init PROVE RRInv
  OBVIOUS
<1> DEFINE n == Cardinality(healthy)
<1>1. healthy \subseteq Regions
  BY RegionAssumption, GatewayAssumption DEF Init
<1>2. n \in Nat /\ IsFiniteSet(healthy)
  BY <1>1, RegionAssumption, FS_Subset, FS_CardinalityType
<1>3. n # 0
  BY <1>2, FS_EmptySet, RegionAssumption DEF Init
<1>4. /\ order \in [1 .. n -> healthy]
      /\ \A r \in healthy : \E i \in 1 .. n : order[i] = r
  BY DEF Init, Orders
<1> HIDE DEF n
<1>5. order \in Seq(Regions) /\ Len(order) = n
  BY <1>1, <1>2, <1>4
<1>6. Known = healthy
  BY <1>4, <1>5 DEF Known
<1>7. rrIndex = 0 /\ waits = [r \in Regions |-> 0]
  BY DEF Init
<1>8. \A r \in Regions : pool[r] # {} => r \in Known
  <2> SUFFICES ASSUME NEW r \in Regions, pool[r] # {} PROVE r \in healthy
    BY <1>6
  <2>1. PICK m \in Nodes : <<r, m>> \in Startup
    BY DEF Init
  <2> QED
    BY <2>1 DEF Init
<1>9. Listed
  BY <1>2, <1>3, <1>5, <1>6, <1>7, <1>8 DEF Listed, n
<1>10. Lap
  <2>1. ASSUME NEW i \in 1 .. Len(order) PROVE order[i] \in Regions /\ Turn(i) < Len(order)
    BY <1>2, <1>5, <1>7 DEF Turn
  <2> QED
    BY <1>2, <1>5, <1>7, <2>1 DEF Lap, Turn
<1> QED
  BY <1>9, <1>10 DEF RRInv

(* A pick (region.go:242-259): the index moves past the picked region, and *)
(* nobody routable lies between the old index and that region.             *)
LEMMA PickKeepsLap ==
  ASSUME RRInv, NEW t, roundRobin(t), UNCHANGED <<pool, healthy, order>>
  PROVE  RRInv'
<1>0. /\ order \in Seq(Regions) /\ Len(order) \in Nat /\ rrIndex \in 0 .. Len(order) - 1
      /\ waits \in [Regions -> Nat]
      /\ Known' = Known /\ Known \subseteq Regions
  BY KnownFinite DEF RRInv, Listed, Lap, Known
<1>1. CASE RoutableRegions = {}
  <2>1. rrIndex' = rrIndex /\ waits' = waits
    BY <1>1 DEF roundRobin
  <2> QED
    BY <1>0, <2>1 DEF RRInv, Listed, Lap, Turn
<1>2. CASE RoutableRegions # {}
  <2> DEFINE n == Len(order)
  <2>1. PICK i \in 0 .. n - 1 :
          /\ FirstRoutable(i) /\ t = Ahead(i)
          /\ rrIndex' = (Index(i) + 1) % n
          /\ CountWaits(t)
    BY <1>2 DEF roundRobin
  <2>2. n \in Nat /\ n > 0
    BY <1>0
  <2>3. ASSUME NEW j \in 0 .. n - 1
        PROVE  Index(j) = IF rrIndex + j < n THEN rrIndex + j ELSE rrIndex + j - n
    <3>1. rrIndex \in 0 .. n - 1 /\ j \in 0 .. n
      BY <1>0, <2>2
    <3>2. (rrIndex + j) % n = IF rrIndex + j < n THEN rrIndex + j ELSE rrIndex + j - n
      BY <2>2, <3>1, Wrap
    <3> QED
      BY <3>2 DEF Index
  <2>4. Index(i) \in 0 .. n - 1
    <3>1. Index(i) = IF rrIndex + i < n THEN rrIndex + i ELSE rrIndex + i - n
      BY <2>3
    <3> QED
      BY <1>0, <2>2, <3>1
  <2>5. rrIndex' = IF Index(i) + 1 < n THEN Index(i) + 1 ELSE 0
    <3>1. 1 \in 0 .. n
      BY <2>2
    <3>2. (Index(i) + 1) % n =
            IF Index(i) + 1 < n THEN Index(i) + 1 ELSE Index(i) + 1 - n
      BY <2>2, <2>4, <3>1, Wrap
    <3>3. ~(Index(i) + 1 < n) => Index(i) + 1 - n = 0
      BY <2>2, <2>4
    <3> QED
      BY <2>1, <3>2, <3>3
  <2>6. rrIndex' \in 0 .. n - 1
    BY <2>2, <2>4, <2>5
  <2>7. waits' = [r \in Regions |-> IF r = t \/ ~Routable(r) THEN 0 ELSE waits[r] + 1]
    BY <2>1 DEF CountWaits
  <2>8. Listed'
    BY <1>0, <2>6 DEF RRInv, Listed
  <2>9. waits' \in [Regions -> Nat]
    BY <1>0, <2>7
  <2>10. ASSUME NEW r \in Regions \ Known PROVE waits'[r] = 0
    <3>1. ~Routable(r)
      BY DEF RRInv, Listed, Routable
    <3> QED
      BY <2>7, <3>1
  <2>11. ASSUME NEW p \in 1 .. n PROVE waits'[order[p]] + Turn(p)' < n
    <3> DEFINE d == IF p > rrIndex THEN p - 1 - rrIndex ELSE p - 1 - rrIndex + n
               e == IF p > rrIndex' THEN p - 1 - rrIndex' ELSE p - 1 - rrIndex' + n
    <3>1. order[p] \in Regions /\ waits[order[p]] \in Nat /\ waits[order[p]] + d < n
      BY <1>0, <2>2 DEF RRInv, Lap, Turn
    <3>2. Turn(p)' = e
      BY <1>0 DEF Turn
    <3>3. d \in 0 .. n - 1 /\ e \in 0 .. n - 1 /\ p \in Nat
      <4>1. p \in Nat /\ 1 <= p /\ p <= n /\ n \in Nat /\ rrIndex \in 0 .. n - 1
        BY <1>0, <2>2
      <4>2. d \in 0 .. n - 1
        BY <1>0, <2>2, TurnRange
      <4>3. e \in 0 .. n - 1
        BY <2>2, <2>6, TurnRange
      <4> QED
        BY <4>1, <4>2, <4>3
    <3>a. Index(d) = IF rrIndex + d < n THEN rrIndex + d ELSE rrIndex + d - n
      BY <2>3, <3>3
    <3>b. Index(d) + 1 = p
      BY <1>0, <2>2, <3>a
    <3>4. CASE order[p] = t \/ ~Routable(order[p])
      BY <2>7, <3>1, <3>2, <3>3, <3>4
    <3>5. CASE order[p] # t /\ Routable(order[p])
      <4>1. Ahead(d) = order[p]
        BY <3>b DEF Ahead
      <4>2. ~(d < i) /\ d # i
        BY <2>1, <3>3, <3>5, <4>1 DEF FirstRoutable
      <4>3. e < d
        <5>1. Index(i) = IF rrIndex + i < n THEN rrIndex + i ELSE rrIndex + i - n
          BY <2>3
        <5>2. i < d
          BY <2>2, <3>3, <4>2
        <5> QED
          BY <1>0, <2>2, <2>4, <2>5, <2>6, <5>1, <5>2, CloserTurn
      <4>4. waits'[order[p]] = waits[order[p]] + 1
        BY <2>7, <3>1, <3>5
      <4> QED
        BY <2>2, <3>1, <3>2, <3>3, <4>3, <4>4
    <3> QED
      BY <3>4, <3>5
  <2>12. Lap'
    BY <1>0, <2>9, <2>10, <2>11 DEF Lap
  <2> QED
    BY <2>8, <2>12 DEF RRInv
<1> QED
  BY <1>1, <1>2

(* A region that appears goes to the end of the list (region.go:95-110).   *)
LEMMA AddKeepsLap ==
  ASSUME RRInv, IInv, NEW r \in Regions, NEW m \in Nodes, AddNode(r, m)
  PROVE  RRInv'
<1>0. /\ order \in Seq(Regions) /\ Len(order) \in Nat /\ rrIndex \in 0 .. Len(order) - 1
      /\ waits \in [Regions -> Nat] /\ pool \in [Regions -> SUBSET Nodes]
      /\ Known \subseteq Regions /\ IsFiniteSet(Known) /\ Len(order) = Cardinality(Known)
  BY KnownFinite DEF RRInv, Listed, Lap, IInv, Types
<1>1. pool' = [pool EXCEPT ![r] = @ \cup {m}] /\ rrIndex' = rrIndex /\ waits' = waits
  BY DEF AddNode
<1>2. CASE r \in Known
  <2>1. order' = order /\ Known' = Known
    BY <1>2 DEF AddNode, Known
  <2>2. \A s \in Regions : pool'[s] # {} => s \in Known
    BY <1>0, <1>1, <1>2 DEF RRInv, Listed
  <2>3. Listed'
    BY <1>0, <1>1, <2>1, <2>2 DEF Listed
  <2>4. Lap'
    BY <1>1, <2>1 DEF RRInv, Lap, Turn
  <2> QED
    BY <2>3, <2>4 DEF RRInv
<1>3. CASE r \notin Known
  <2> DEFINE n == Len(order)
  <2>1. order' = Append(order, r)
    BY <1>3 DEF AddNode
  <2>2. /\ order' \in Seq(Regions) /\ Len(order') = n + 1
        /\ \A i \in 1 .. n : order'[i] = order[i]
        /\ order'[n + 1] = r
    BY <1>0, <2>1
  <2>3. Known' = Known \cup {r}
    <3>1. \A x : x \in Known' <=> \E i \in 1 .. n + 1 : x = order'[i]
      BY <2>2 DEF Known
    <3>2. \A x : x \in Known <=> \E i \in 1 .. n : x = order[i]
      BY DEF Known
    <3>3. ASSUME NEW x PROVE x \in Known' <=> x \in Known \cup {r}
      <4>1. CASE x \in Known'
        <5>1. PICK i \in 1 .. n + 1 : x = order'[i]
          BY <3>1, <4>1
        <5>2. CASE i = n + 1
          BY <2>2, <4>1, <5>1, <5>2
        <5>3. CASE i # n + 1
          <6>1. n \in Nat
            BY <1>0
          <6>2. i \in 1 .. n
            <7> HIDE DEF n
            <7> QED
              BY <5>3, <6>1
          <6> QED
            BY <2>2, <3>2, <4>1, <5>1, <6>2
        <5> QED
          BY <5>2, <5>3
      <4>2. CASE x \in Known
        <5>1. PICK i \in 1 .. n : x = order[i]
          BY <3>2, <4>2
        <5>2. i \in 1 .. n + 1 /\ x = order'[i]
          BY <1>0, <2>2, <5>1
        <5> QED
          BY <3>1, <4>2, <5>2
      <4>3. CASE x = r
        <5>1. n + 1 \in 1 .. n + 1
          BY <1>0
        <5> QED
          BY <2>2, <3>1, <4>3, <5>1
      <4> QED
        BY <4>1, <4>2, <4>3
    <3> QED
      BY <3>3
  <2>4. Len(order') = Cardinality(Known')
    <3>1. Cardinality(Known \cup {r}) = Cardinality(Known) + 1
      BY <1>0, <1>3, FS_AddElement
    <3> QED
      BY <1>0, <2>2, <2>3, <3>1
  <2>5. \A s \in Regions : pool'[s] # {} => s \in Known'
    BY <1>0, <1>1, <2>3 DEF RRInv, Listed
  <2>6. Listed'
    <3>1. rrIndex' \in 0 .. Len(order') - 1
      BY <1>0, <1>1, <2>2
    <3>2. order' \in Seq(Regions)
      BY <2>2
    <3> HIDE DEF n
    <3> QED
      BY <2>4, <2>5, <3>1, <3>2 DEF Listed
  <2>7. ASSUME NEW i \in 1 .. n + 1 PROVE waits[order'[i]] + Turn(i)' < n + 1
    <3>1. Turn(i)' = IF i > rrIndex THEN i - 1 - rrIndex ELSE i - 1 - rrIndex + n + 1
      BY <1>0, <1>1, <2>2 DEF Turn
    <3>2. CASE i = n + 1
      <4>1. waits[order'[i]] = 0
        BY <1>3, <2>2, <3>2 DEF RRInv, Lap
      <4> QED
        BY <1>0, <3>1, <3>2, <4>1
    <3>3. CASE i # n + 1
      <4>1. i \in 1 .. n /\ order'[i] = order[i]
        BY <1>0, <2>2, <3>3
      <4>2. order[i] \in Regions /\ waits[order[i]] \in Nat /\ waits[order[i]] + Turn(i) < n
        BY <1>0, <4>1 DEF RRInv, Lap
      <4> QED
        <5>1. Turn(i) = IF i > rrIndex THEN i - 1 - rrIndex ELSE i - 1 - rrIndex + n
          BY DEF Turn
        <5>2. Turn(i) \in Int /\ i \in Nat
          BY <1>0, <4>1, <5>1
        <5>3. Turn(i)' <= Turn(i) + 1
          BY <1>0, <3>1, <5>1, <5>2
        <5>4. Turn(i)' \in Int
          BY <1>0, <3>1, <5>2
        <5> QED
          BY <1>0, <4>1, <4>2, <5>2, <5>3, <5>4
    <3> QED
      BY <3>2, <3>3
  <2>8. Lap'
    BY <1>0, <1>1, <2>2, <2>3, <2>7 DEF RRInv, Lap
  <2> QED
    BY <2>6, <2>8 DEF RRInv
<1> QED
  BY <1>2, <1>3

(* What leaves the list and the index alone, and adds no node.             *)
LEMMA QuietKeepsLap ==
  ASSUME RRInv, UNCHANGED <<order, rrIndex, waits>>,
         \A r \in Regions : pool'[r] # {} => pool[r] # {}
  PROVE  RRInv'
<1>1. Known' = Known
  BY DEF Known
<1> QED
  BY <1>1 DEF RRInv, Listed, Lap, Turn

LEMMA NextRRInv == IInv /\ RRInv /\ [Next]_vars => RRInv'
<1> SUFFICES ASSUME IInv, RRInv, [Next]_vars PROVE RRInv'
  OBVIOUS
<1>1. ASSUME NEW q \in Requests, NEW c \in Regions \cup {None}, Receive(q, c) PROVE RRInv'
  <2>1. PICK r \in Regions : GetNearestRegion(c, r)
    BY <1>1 DEF Receive
  <2>2. UNCHANGED <<pool, healthy, order>>
    BY <1>1 DEF Receive
  <2>3. CASE roundRobin(r)
    BY <2>2, <2>3, PickKeepsLap
  <2>4. CASE ~roundRobin(r)
    BY <2>1, <2>2, <2>4, QuietKeepsLap DEF GetNearestRegion
  <2> QED
    BY <2>3, <2>4
<1>2. ASSUME NEW s \in Sites, NodeAdded(s) PROVE RRInv'
  BY <1>2, AddKeepsLap, SitePair DEF NodeAdded
<1>3. ASSUME NEW s \in Sites, NodeRemoved(s) PROVE RRInv'
  <2>1. /\ pool' = [pool EXCEPT ![s[1]] = @ \ {s[2]}]
        /\ UNCHANGED <<order, rrIndex, waits>>
    BY <1>3 DEF NodeRemoved, RemoveNode
  <2>2. \A r \in Regions : pool'[r] # {} => pool[r] # {}
    BY <2>1 DEF IInv, Types
  <2> QED
    BY <2>1, <2>2, QuietKeepsLap
<1>4. ASSUME NEW r \in Regions, NEW ok \in BOOLEAN, RegionMarked(r, ok) PROVE RRInv'
  BY <1>4, QuietKeepsLap DEF RegionMarked, SetRegionHealth
<1>5. CASE UNCHANGED routerVars
  BY <1>5, QuietKeepsLap DEF routerVars
<1>6. ASSUME NEW q \in Requests, RequestStep(q) \/ Finish(q) \/ ClientLeaves(q)
      PROVE  UNCHANGED routerVars
  BY <1>6 DEF RequestStep, PickPrimary, Try, SendWorks, SendFails, Snapshot, LeaveRegion,
    Exhausted, Finish, ClientLeaves, worldVars
<1>7. ASSUME NEW n \in Nodes, Dies(n) \/ Revives(n) \/ VerdictFlips(n)
      PROVE  UNCHANGED routerVars
  BY <1>7 DEF Dies, Revives, VerdictFlips
<1>8. UNCHANGED vars => UNCHANGED routerVars
  BY DEF vars, worldVars
<1> QED
  BY <1>1, <1>2, <1>3, <1>4, <1>5, <1>6, <1>7, <1>8 DEF Next

(* Round-robin passes no region over for more than a lap, however regions  *)
(* fail, recover and appear between the picks (region.go:242-259).         *)
THEOREM GatewayRoundRobin == Spec => []RoundRobinFair
<1>1. RRInv => RoundRobinFair
  <2> SUFFICES ASSUME RRInv, NEW r \in Regions PROVE waits[r] < Len(order)
    BY DEF RRInv, Listed, RoundRobinFair
  <2>1. Len(order) \in Nat /\ rrIndex \in 0 .. Len(order) - 1 /\ waits[r] \in Nat
    BY KnownFinite DEF RRInv, Listed, Lap
  <2>2. CASE r \in Known
    <3>1. PICK i \in 1 .. Len(order) : order[i] = r
      BY <2>2 DEF Known
    <3>2. Turn(i) >= 0
      BY <2>1 DEF Turn
    <3>3. waits[r] + Turn(i) < Len(order) /\ Turn(i) \in Int
      BY <2>1, <3>1 DEF RRInv, Lap, Turn
    <3> QED
      BY <2>1, <3>2, <3>3
  <2>3. CASE r \notin Known
    BY <2>1, <2>3 DEF RRInv, Lap
  <2> QED
    BY <2>2, <2>3
<1> QED
  BY <1>1, InitRRInv, NextRRInv, GatewayIInv, PTL DEF Spec

-----------------------------------------------------------------------------
(* A request is sent to a site once at most.  Nothing in the gateway       *)
(* records where it has been; what it may still try shrinks instead.       *)

(* The sites a request may still be sent to.  Until the snapshot that is   *)
(* any site but the primary, which attempt 1 has to itself.                *)
Left(q) ==
  todo[q] \cup
    (IF pc[q] = "routed" THEN Sites
     ELSE IF pc[q] = "attempt 1" THEN Sites \ {<<target[q], primary[q]>>}
     ELSE others[q])

(* What is left of a request never grows, and a site it is sent to is no   *)
(* longer left.                                                            *)
SentOnce ==
  [][\A q \in Requests : pc[q] \in Attempts \cup {"routed"} =>
       /\ Left(q)' \subseteq Left(q)
       /\ site'[q] \notin {None, site[q]} => site'[q] \in Left(q) \ Left(q)']_vars

(* Attempt 1 has one candidate, and only attempt 2 a list behind its own.  *)
CandidatesAt(q) ==
  /\ pc[q] = "attempt 1" => todo[q] \subseteq {<<target[q], primary[q]>>}
  /\ pc[q] \in {"idle", "routed", "attempt 1", "attempt 3"} => others[q] = {}

Candidates == \A q \in Requests : CandidatesAt(q)

(* The steps that touch the requests.                                      *)
LEMMA QuietRequests ==
  ASSUME [Next]_vars
  PROVE  \/ \E q \in Requests : RequestStep(q) \/ Finish(q) \/ ClientLeaves(q)
         \/ \E q \in Requests, r \in Regions \cup {None} : Receive(q, r)
         \/ UNCHANGED requestVars
<1>1. CASE \E s \in Sites : NodeAdded(s) \/ NodeRemoved(s)
  BY <1>1 DEF NodeAdded, NodeRemoved, Event
<1>2. CASE \E r \in Regions, ok \in BOOLEAN : RegionMarked(r, ok)
  BY <1>2 DEF RegionMarked, Event
<1>3. CASE \E n \in Nodes : Dies(n) \/ Revives(n) \/ VerdictFlips(n)
  BY <1>3 DEF Dies, Revives, VerdictFlips, Event
<1>4. CASE UNCHANGED vars
  BY <1>4 DEF vars
<1> QED
  BY <1>1, <1>2, <1>3, <1>4 DEF Next

LEMMA NextCandidates == IInv /\ Candidates /\ [Next]_vars => Candidates'
<1> SUFFICES ASSUME IInv, Candidates, [Next]_vars, NEW p \in Requests PROVE CandidatesAt(p)'
  BY DEF Candidates
<1>0. /\ pc \in [Requests -> Attempts \cup Ended \cup {"idle", "routed"}]
      /\ todo \in [Requests -> SUBSET Sites] /\ others \in [Requests -> SUBSET Sites]
      /\ target \in [Requests -> Regions \cup {None}]
      /\ primary \in [Requests -> Nodes \cup {None}]
  BY DEF IInv, Types
<1>1. CandidatesAt(p)
  BY DEF Candidates
<1>2. ASSUME NEW q \in Requests, RequestStep(q)
      PROVE  CandidatesAt(p)'
  <2>1. CASE PickPrimary(q)
    BY <1>0, <1>1, <2>1 DEF CandidatesAt, PickPrimary
  <2>2. ASSUME NEW s \in Sites, Try(q, s)
      PROVE  CandidatesAt(p)'
    BY <1>0, <1>1, <2>2 DEF CandidatesAt, Try
  <2>3. CASE SendWorks(q) \/ SendFails(q)
    BY <1>0, <1>1, <2>3 DEF CandidatesAt, SendWorks, SendFails
  <2>4. CASE Snapshot(q)
    BY <1>0, <1>1, <2>4 DEF CandidatesAt, Snapshot
  <2>5. CASE LeaveRegion(q)
    BY <1>0, <1>1, <2>5 DEF CandidatesAt, LeaveRegion
  <2>6. CASE Exhausted(q)
    BY <1>0, <1>1, <2>6 DEF CandidatesAt, Exhausted
  <2> QED
    BY <1>2, <2>1, <2>2, <2>3, <2>4, <2>5, <2>6 DEF RequestStep
<1>3. ASSUME NEW q \in Requests, NEW r \in Regions \cup {None}, Receive(q, r)
      PROVE  CandidatesAt(p)'
  <2>1. /\ pc' = [pc EXCEPT ![q] = "routed"] /\ UNCHANGED <<primary, todo, others>>
        /\ \E x \in Regions : target' = [target EXCEPT ![q] = x]
    BY <1>3 DEF Receive
  <2> QED
    <3>1. CASE p = q
      <4>1. pc[q] = "idle" /\ pc'[q] = "routed" /\ others'[q] = others[q]
        BY <1>0, <1>3, <2>1 DEF Receive
      <4> QED
        BY <1>1, <3>1, <4>1 DEF CandidatesAt
    <3>2. CASE p # q
      <4>1. pc'[p] = pc[p] /\ target'[p] = target[p]
        BY <1>0, <2>1, <3>2
      <4> QED
        BY <1>1, <2>1, <4>1 DEF CandidatesAt
    <3> QED
      BY <3>1, <3>2
<1>4. ASSUME NEW q \in Requests, Finish(q) \/ ClientLeaves(q)
      PROVE  CandidatesAt(p)'
  BY <1>0, <1>1, <1>4 DEF CandidatesAt, Finish, ClientLeaves
<1>5. CASE UNCHANGED requestVars
  BY <1>1, <1>5 DEF CandidatesAt, requestVars
<1> QED
  BY <1>2, <1>3, <1>4, <1>5, QuietRequests

(* One step of a request and what it has left (gateway.go:121-181).        *)
LEMMA StepLeft ==
  ASSUME IInv, Candidates, NEW q \in Requests, RequestStep(q)
  PROVE  /\ pc[q] \in Attempts \cup {"routed"}
         /\ Left(q)' \subseteq Left(q)
         /\ site'[q] \notin {None, site[q]} => site'[q] \in Left(q) \ Left(q)'
         /\ \A p \in Requests \ {q} : Left(p)' = Left(p) /\ site'[p] = site[p]
<1>0. /\ pc \in [Requests -> Attempts \cup Ended \cup {"idle", "routed"}]
      /\ todo \in [Requests -> SUBSET Sites] /\ others \in [Requests -> SUBSET Sites]
      /\ target \in [Requests -> Regions \cup {None}]
      /\ primary \in [Requests -> Nodes \cup {None}]
      /\ site \in [Requests -> Sites \cup {None}]
      /\ todo[q] \subseteq Sites /\ others[q] \subseteq Sites
  BY DEF IInv, Types
<1>1. /\ pc[q] = "attempt 1" => todo[q] \subseteq {<<target[q], primary[q]>>}
      /\ pc[q] \in {"attempt 1", "attempt 3"} => others[q] = {}
  BY DEF Candidates, CandidatesAt
<1>2. ListsAt(q)
  BY DEF IInv
<1>3. ASSUME NEW p \in Requests \ {q} PROVE Left(p)' = Left(p) /\ site'[p] = site[p]
  <2>1. /\ pc'[p] = pc[p] /\ todo'[p] = todo[p] /\ others'[p] = others[p]
        /\ target'[p] = target[p] /\ primary'[p] = primary[p] /\ site'[p] = site[p]
    <3>1. CASE PickPrimary(q) \/ \E s \in Sites : Try(q, s)
      BY <1>0, <3>1 DEF PickPrimary, Try
    <3>2. CASE SendWorks(q) \/ SendFails(q)
      BY <1>0, <3>2 DEF SendWorks, SendFails
    <3>3. CASE Snapshot(q) \/ LeaveRegion(q) \/ Exhausted(q)
      BY <1>0, <3>3 DEF Snapshot, LeaveRegion, Exhausted
    <3> QED
      BY <3>1, <3>2, <3>3 DEF RequestStep
  <2> QED
    BY <2>1 DEF Left
<1> DEFINE Fine == /\ pc[q] \in Attempts \cup {"routed"}
                   /\ Left(q)' \subseteq Left(q)
                   /\ site'[q] \notin {None, site[q]} => site'[q] \in Left(q) \ Left(q)'
<1>4. CASE PickPrimary(q)
  <2>1. /\ pc[q] = "routed" /\ pc'[q] = "attempt 1" /\ site' = site
        /\ target' = target /\ todo'[q] \in SUBSET Sites
    BY <1>0, <1>4, PickPrimaryIInv DEF PickPrimary, IInv, Types
  <2>2. Left(q) = Sites /\ Left(q)' \subseteq Sites
    BY <1>0, <2>1 DEF Left
  <2> QED
    BY <1>3, <2>1, <2>2
<1>5. ASSUME NEW s \in Sites, Try(q, s) PROVE Fine
  <2>1. /\ pc[q] \in Attempts /\ site[q] = None /\ s \in todo[q]
        /\ todo'[q] = todo[q] \ {s} /\ site'[q] \in {s, None}
        /\ UNCHANGED <<pc, target, primary, others>>
    BY <1>0, <1>5 DEF Try
  <2>2. s \in Left(q) /\ Left(q)' \subseteq Left(q)
    BY <2>1 DEF Left
  <2>3. s \notin Left(q)'
    <3>1. CASE pc[q] = "attempt 1"
      <4>1. s = <<target[q], primary[q]>>
        BY <1>1, <2>1, <3>1
      <4> QED
        BY <2>1, <3>1, <4>1 DEF Left
    <3>2. CASE pc[q] = "attempt 2"
      <4>1. s[1] = target[q] /\ \A t \in others[q] : t[1] # target[q]
        BY <1>2, <2>1, <3>2 DEF ListsAt
      <4> QED
        BY <2>1, <3>2, <4>1 DEF Left
    <3>3. CASE pc[q] = "attempt 3"
      BY <1>1, <2>1, <3>3 DEF Left
    <3> QED
      BY <2>1, <3>1, <3>2, <3>3 DEF Attempts
  <2> QED
    BY <2>1, <2>2, <2>3
<1>6. CASE SendWorks(q)
  <2>1. /\ pc[q] \in Attempts /\ pc'[q] = "answered"
        /\ UNCHANGED <<todo, others, site>>
    BY <1>0, <1>6 DEF SendWorks
  <2>2. others[q] \subseteq Left(q)
    <3>1. CASE pc[q] = "attempt 1"
      BY <1>1, <3>1 DEF Left
    <3>2. CASE pc[q] # "attempt 1"
      BY <2>1, <3>2 DEF Left, Attempts
    <3> QED
      BY <3>1, <3>2
  <2>3. Left(q)' \subseteq Left(q)
    BY <2>1, <2>2 DEF Left
  <2> QED
    BY <1>3, <2>1, <2>3
<1>7. CASE SendFails(q)
  <2>1. /\ pc[q] \in Attempts /\ site'[q] = None
        /\ UNCHANGED <<pc, target, primary, todo, others>>
    BY <1>0, <1>7 DEF SendFails
  <2> QED
    BY <1>3, <2>1 DEF Left
<1>8. CASE Snapshot(q)
  <2>1. /\ pc[q] = "attempt 1" /\ pc'[q] = "attempt 2" /\ UNCHANGED <<target, primary, site>>
        /\ todo'[q] = SameRegion(q) /\ others'[q] = OtherRegions(q)
    BY <1>0, <1>8 DEF Snapshot, Trying
  <2>2. SameRegion(q) \cup OtherRegions(q) \subseteq Sites \ {<<target[q], primary[q]>>}
    BY DEF SameRegion, OtherRegions, Pooled
  <2>3. Left(q)' \subseteq Left(q)
    BY <2>1, <2>2 DEF Left
  <2> QED
    BY <1>3, <2>1, <2>3 DEF Attempts
<1>9. CASE LeaveRegion(q)
  <2>1. /\ pc[q] = "attempt 2" /\ pc'[q] = "attempt 3" /\ UNCHANGED site
        /\ todo'[q] = others[q] /\ others'[q] = {}
    BY <1>0, <1>9 DEF LeaveRegion, Trying
  <2>2. Left(q)' \subseteq Left(q)
    BY <2>1 DEF Left
  <2> QED
    BY <1>3, <2>1, <2>2 DEF Attempts
<1>10. CASE Exhausted(q)
  <2>1. /\ pc[q] = "attempt 3" /\ pc'[q] = "failed" /\ UNCHANGED <<todo, others, site>>
    BY <1>0, <1>10 DEF Exhausted, Trying
  <2>2. Left(q)' \subseteq Left(q)
    BY <2>1 DEF Left
  <2> QED
    BY <1>3, <2>1, <2>2 DEF Attempts
<1> QED
  BY <1>3, <1>4, <1>5, <1>6, <1>7, <1>8, <1>9, <1>10 DEF RequestStep

(* A request is sent to a site once at most, whatever changes around it:   *)
(* the primary is left out of attempt 2, the target region out of attempt  *)
(* 3, and the snapshot lists a site once (gateway.go:121-181).             *)
THEOREM GatewaySentOnce == Spec => SentOnce
<1>1. Init => Candidates
  BY DEF Init, Candidates, CandidatesAt
<1>2. ASSUME IInv, Candidates, [Next]_vars, NEW p \in Requests,
             pc[p] \in Attempts \cup {"routed"}
      PROVE  /\ Left(p)' \subseteq Left(p)
             /\ site'[p] \notin {None, site[p]} => site'[p] \in Left(p) \ Left(p)'
  <2>1. ASSUME NEW q \in Requests, RequestStep(q)
        PROVE  /\ Left(p)' \subseteq Left(p)
               /\ site'[p] \notin {None, site[p]} => site'[p] \in Left(p) \ Left(p)'
    <3>1. CASE p = q
      BY <1>2, <2>1, <3>1, StepLeft
    <3>2. CASE p # q
      BY <1>2, <2>1, <3>2, StepLeft
    <3> QED
      BY <3>1, <3>2
  <2>2. CASE \/ \E q \in Requests : Finish(q) \/ ClientLeaves(q)
             \/ \E q \in Requests, r \in Regions \cup {None} : Receive(q, r)
             \/ UNCHANGED requestVars
    <3>1. /\ pc'[p] = pc[p] /\ todo'[p] = todo[p] /\ others'[p] = others[p]
          /\ target'[p] = target[p] /\ primary'[p] = primary[p] /\ site'[p] = site[p]
      <4>0. /\ pc \in [Requests -> Attempts \cup Ended \cup {"idle", "routed"}]
            /\ todo \in [Requests -> SUBSET Sites] /\ others \in [Requests -> SUBSET Sites]
            /\ target \in [Requests -> Regions \cup {None}]
            /\ primary \in [Requests -> Nodes \cup {None}]
            /\ site \in [Requests -> Sites \cup {None}]
        BY <1>2 DEF IInv, Types
      <4>1. ASSUME NEW q \in Requests, Finish(q) PROVE q # p
        BY <1>2, <4>1 DEF Finish, Attempts, Ended
      <4>2. ASSUME NEW q \in Requests, NEW r \in Regions \cup {None}, Receive(q, r) PROVE q # p
        BY <1>2, <4>2 DEF Receive, Attempts
      <4>3. CASE \E q \in Requests : Finish(q)
        <5>1. PICK q \in Requests : Finish(q)
          BY <4>3
        <5>2. q # p
          BY <4>1, <5>1
        <5> QED
          BY <4>0, <5>1, <5>2 DEF Finish
      <4>4. CASE \E q \in Requests : ClientLeaves(q)
        BY <4>4 DEF ClientLeaves
      <4>5. CASE \E q \in Requests, r \in Regions \cup {None} : Receive(q, r)
        <5>1. PICK q \in Requests, r \in Regions \cup {None} : Receive(q, r)
          BY <4>5
        <5>2. q # p
          BY <4>2, <5>1
        <5> QED
          BY <4>0, <5>1, <5>2 DEF Receive
      <4>6. CASE UNCHANGED requestVars
        BY <4>6 DEF requestVars
      <4> QED
        BY <2>2, <4>3, <4>4, <4>5, <4>6
    <3> QED
      BY <3>1 DEF Left
  <2> QED
    BY <1>2, <2>1, <2>2, QuietRequests
<1>3. IInv /\ Candidates /\ [Next]_vars =>
        [\A q \in Requests : pc[q] \in Attempts \cup {"routed"} =>
           /\ Left(q)' \subseteq Left(q)
           /\ site'[q] \notin {None, site[q]} => site'[q] \in Left(q) \ Left(q)']_vars
  BY <1>2
<1> QED
  BY <1>1, <1>3, NextCandidates, GatewayIInv, PTL DEF Spec, SentOnce

==============================================================================
