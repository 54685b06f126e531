------------------------- MODULE BreakerStateProofs -------------------------
(***************************************************************************)
(* What the critical sections of the circuit breaker do to its fields, for *)
(* every configuration New accepts: the lemmas CircuitBreakerProofs and    *)
(* EdgeNodeProofs rest on.                                                 *)
(***************************************************************************)
EXTENDS BreakerState, TLAPS

(* The fields of the breaker, typed as in TypeOK.                          *)
Breakers == [state : States,
             failures : 0 .. FailThreshold - 1,
             successes : 0 .. SuccessThreshold - 1,
             halfOpenInFlight : Int,
             age : 0 .. OpenTimeout + 1]

(* setState (circuitbreaker.go:191) clears every counter.                  *)
LEMMA SetStateFields ==
  ASSUME NEW b \in Breakers, NEW s \in States
  PROVE  /\ setState(b, s) \in Breakers
         /\ setState(b, s).state = s
         /\ setState(b, s).successes = 0
         /\ setState(b, s).halfOpenInFlight = 0
<1>1. /\ 0 \in 0 .. FailThreshold - 1
      /\ 0 \in 0 .. SuccessThreshold - 1
      /\ 0 \in 0 .. OpenTimeout + 1
      /\ 0 \in Int
  BY ConfigAssumption
<1> QED
  BY <1>1 DEF setState, Breakers

(* The first critical section of Execute (circuitbreaker.go:126) keeps the *)
(* type and takes exactly one slot when it leaves the breaker half-open.   *)
LEMMA EnterFields ==
  ASSUME NEW b \in Breakers, ~Rejects(b)
  PROVE  /\ enter(b) \in Breakers
         /\ b.state = "closed" => enter(b) = b
         /\ b.state # "closed" => enter(b).state = "half-open"
         /\ b.state = "half-open" =>
              /\ enter(b).halfOpenInFlight = b.halfOpenInFlight + 1
              /\ enter(b).successes = b.successes
         /\ b.state = "open" =>
              /\ enter(b).halfOpenInFlight = 1
              /\ enter(b).successes = 0
<1>1. CASE b.state = "open"
  <2>1. OpenExpired(b)
    BY <1>1 DEF Rejects
  <2>2. enter(b) = [setState(b, "half-open") EXCEPT !.halfOpenInFlight = @ + 1]
    BY <2>1, SetStateFields DEF enter, takeSlot, States
  <2> QED
    BY <1>1, <2>2, SetStateFields DEF Breakers, States
<1>2. CASE b.state # "open"
  BY <1>2 DEF enter, takeSlot, OpenExpired, Breakers, States
<1> QED
  BY <1>1, <1>2

(* The second critical section of Execute (circuitbreaker.go:150): either  *)
(* the breaker stays half-open, one slot is released and one success is    *)
(* counted, or it is not half-open afterwards and every slot is cleared.   *)
LEMMA ExitFields ==
  ASSUME NEW b \in Breakers, NEW ok \in BOOLEAN,
         b.state # "half-open" => b.halfOpenInFlight = 0
  PROVE  /\ exit(b, ok) \in Breakers
         /\ IF exit(b, ok).state = "half-open"
              THEN /\ b.state = "half-open"
                   /\ exit(b, ok).halfOpenInFlight = b.halfOpenInFlight - 1
                   /\ exit(b, ok).successes = b.successes + 1
              ELSE exit(b, ok).halfOpenInFlight = 0
<1> DEFINE r == releaseSlot(b)
<1>1. /\ r \in Breakers
      /\ r.state = b.state /\ r.successes = b.successes
      /\ IF b.state = "half-open"
           THEN r.halfOpenInFlight = b.halfOpenInFlight - 1
           ELSE r.halfOpenInFlight = 0
  BY DEF releaseSlot, Breakers
<1>2. exit(b, ok) = IF ok THEN onSuccess(r) ELSE onFailure(r)
  BY DEF exit
<1> HIDE DEF r
<1>3. CASE b.state = "half-open"
  <2>1. CASE ok /\ r.successes + 1 < SuccessThreshold
    <3>1. onSuccess(r) = [r EXCEPT !.successes = @ + 1]
      BY <1>1, <1>3, <2>1, ConfigAssumption DEF onSuccess, Breakers
    <3> QED
      BY <1>1, <1>2, <1>3, <2>1, <3>1, ConfigAssumption DEF Breakers
  <2>2. CASE ok /\ ~(r.successes + 1 < SuccessThreshold)
    <3>1. onSuccess(r) = setState(r, "closed")
      BY <1>1, <1>3, <2>2, ConfigAssumption DEF onSuccess, Breakers
    <3> QED
      BY <1>1, <1>2, <2>2, <3>1, SetStateFields DEF States
  <2>3. CASE ~ok
    <3>1. onFailure(r) = setState(r, "open")
      BY <1>1, <1>3 DEF onFailure
    <3> QED
      BY <1>1, <1>2, <2>3, <3>1, SetStateFields DEF States
  <2> QED
    BY <2>1, <2>2, <2>3
<1>4. CASE b.state = "closed"
  <2>1. CASE ok
    <3>1. onSuccess(r) = [r EXCEPT !.failures = 0]
      BY <1>1, <1>4 DEF onSuccess
    <3> QED
      BY <1>1, <1>2, <1>4, <2>1, <3>1, ConfigAssumption DEF Breakers
  <2>2. CASE ~ok /\ r.failures + 1 < FailThreshold
    <3>1. onFailure(r) = [r EXCEPT !.failures = @ + 1]
      BY <1>1, <1>4, <2>2, ConfigAssumption DEF onFailure, Breakers
    <3> QED
      BY <1>1, <1>2, <1>4, <2>2, <3>1, ConfigAssumption DEF Breakers
  <2>3. CASE ~ok /\ ~(r.failures + 1 < FailThreshold)
    <3>1. onFailure(r) = setState(r, "open")
      BY <1>1, <1>4, <2>3, ConfigAssumption DEF onFailure, Breakers
    <3> QED
      BY <1>1, <1>2, <2>3, <3>1, SetStateFields DEF States
  <2> QED
    BY <2>1, <2>2, <2>3
<1>5. CASE b.state = "open"
  BY <1>1, <1>2, <1>5 DEF onSuccess, onFailure
<1> QED
  BY <1>3, <1>4, <1>5 DEF Breakers, States
=============================================================================
