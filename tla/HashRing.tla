------------------------------ MODULE HashRing ------------------------------
(***************************************************************************)
(* The consistent-hash ring of internal/hashing, as a function from the    *)
(* points of the ring (Ring.ring) to the node that owns each (ringMap).    *)
(* Every operation is one critical section of Ring.mu.                     *)
(*                                                                         *)
(* The hashes of a node's virtual nodes are given.  They are assumed not   *)
(* to collide (they are 64 bits wide): RemoveNode drops only one of two    *)
(* equal points and leaves the other without an owner.                     *)
(***************************************************************************)
EXTENDS Integers, FiniteSets

CONSTANTS
  Nodes,     \* node addresses
  VNodes     \* hashKey("<node>#<i>") for every i, as a set per node

ASSUME RingAssumption ==
  /\ VNodes \in [Nodes -> SUBSET Nat]
  /\ \A n \in Nodes : VNodes[n] # {}   \* NewRing replaces a non-positive count
  /\ \A m, n \in Nodes : m # n => VNodes[m] \cap VNodes[n] = {}

Points(S) == UNION {VNodes[n] : n \in S}

(* A new ring after AddNode of every node of S, in any order.              *)
RingOf(S) == [p \in Points(S) |-> CHOOSE n \in S : p \in VNodes[n]]

(* Ring.AddNode; the caller has checked that the node is new.              *)
ringAdd(R, n) ==
  [p \in DOMAIN R \cup VNodes[n] |-> IF p \in VNodes[n] THEN n ELSE R[p]]

\* Mutant: the last virtual node is left behind.
ringRemoveKeepsOne(R, n) ==
  [p \in {x \in DOMAIN R : R[x] # n \/ \A y \in VNodes[n] : y <= x} |-> R[p]]

(* Ring.RemoveNode.                                                        *)
ringRemove(R, n) == [p \in {x \in DOMAIN R : R[x] # n} |-> R[p]]

(* The binary search of GetNode: p is the first point at or after h, or    *)
(* the first of all if there is none.                                      *)
IsNext(R, h, p) ==
  \/ p >= h /\ \A x \in DOMAIN R : x >= h => p <= x
  \/ \A x \in DOMAIN R : x < h /\ p <= x

\* Mutant: the point is picked by the hash modulo the number of points.
GetNodeModulo(R, h, n) ==
  \E p \in DOMAIN R :
    /\ R[p] = n
    /\ Cardinality({x \in DOMAIN R : x < p}) = h % Cardinality(DOMAIN R)

(* GetNode of a key with hash h returns n.                                 *)
GetNode(R, h, n) == \E p \in DOMAIN R : IsNext(R, h, p) /\ R[p] = n
=============================================================================
