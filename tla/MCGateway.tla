------------------------------ MODULE MCGateway ------------------------------
(* Model-checking instance of Gateway: three regions on a line, one        *)
(* default without nodes and one that is not a default; a third node may   *)
(* join the first region or bring up the third.  The virtual nodes of the  *)
(* three alternate.                                                        *)
EXTENDS Gateway, TLC

CONSTANTS r1, r2, r3, n1, n2, n3

MCStartup == {<<r1, n1>>, <<r1, n2>>}
MCSites == MCStartup \cup {<<r1, n3>>, <<r3, n3>>}

MCVNodes == (n1 :> {1, 7}) @@ (n2 :> {3, 9}) @@ (n3 :> {5})
MCHashes == {4, 6, 10}

Place == (r1 :> 0) @@ (r2 :> 1) @@ (r3 :> 3)
MCDistance ==
  [a \in {r1, r2, r3} |-> [b \in {r1, r2, r3} |->
     IF Place[a] > Place[b] THEN Place[a] - Place[b] ELSE Place[b] - Place[a]]]
==============================================================================
