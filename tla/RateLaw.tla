------------------------------ MODULE RateLaw -------------------------------
(***************************************************************************)
(* What the rate limiter promises, without buckets, clocks or cleanup.     *)
(* Every key has a debt: a request that passes adds Unit to it, time works *)
(* it off at Rps per tick, and a request passes exactly when the debt      *)
(* stays within Full.  So in any span of T ticks the passing requests of a *)
(* key cost at most Full + T * Rps together, no request is blocked that    *)
(* this allows, and the keys do not affect each other.                     *)
(***************************************************************************)
EXTENDS Integers

CONSTANTS
  Keys,   \* client addresses
  Unit,   \* the cost of one request
  Rps,    \* the debt worked off in one tick
  Full    \* the largest debt: the cost of a burst

VARIABLES debt, verdict

vars == <<debt, verdict>>

Init ==
  /\ debt = [k \in Keys |-> 0]
  /\ verdict = [k \in Keys |-> "none"]

Pass(k) ==
  /\ debt[k] + Unit <= Full
  /\ debt' = [debt EXCEPT ![k] = @ + Unit]
  /\ verdict' = [verdict EXCEPT ![k] = "allowed"]

Block(k) ==
  /\ debt[k] + Unit > Full
  /\ verdict' = [verdict EXCEPT ![k] = "blocked"]
  /\ UNCHANGED debt

Tick ==
  /\ debt' = [k \in Keys |-> IF debt[k] > Rps THEN debt[k] - Rps ELSE 0]
  /\ UNCHANGED verdict

Next == Tick \/ \E k \in Keys : Pass(k) \/ Block(k)

Spec == Init /\ [][Next]_vars
=============================================================================
