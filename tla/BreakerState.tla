---------------------------- MODULE BreakerState ----------------------------
(***************************************************************************)
(* The fields of a circuit breaker (internal/circuitbreaker) and what its  *)
(* two critical sections do to them, as operators: for CircuitBreaker,     *)
(* which is about concurrent callers of one breaker, and for EdgeNode,     *)
(* whose request handlers are such callers.                                *)
(***************************************************************************)
EXTENDS Integers

CONSTANTS
  FailThreshold,          \* Config.FailThreshold
  SuccessThreshold,       \* Config.SuccessThreshold
  OpenTimeout,            \* Config.OpenTimeout, in ticks of the clock
  HalfOpenMaxConcurrent   \* Config.HalfOpenMaxConcurrent

\* New replaces every non-positive setting by a positive default.
ASSUME ConfigAssumption ==
  /\ FailThreshold \in Nat \ {0}
  /\ SuccessThreshold \in Nat \ {0}
  /\ OpenTimeout \in Nat \ {0}
  /\ HalfOpenMaxConcurrent \in Nat \ {0}

States == {"closed", "open", "half-open"}

NewBreaker == [state |-> "closed", failures |-> 0, successes |-> 0,
               halfOpenInFlight |-> 0, age |-> 0]

(* The critical sections, as functions of the breaker's fields.  age is    *)
(* time.Since(lastStateChange); it is only ever compared with OpenTimeout, *)
(* so it saturates at OpenTimeout + 1.                                     *)

\* Mutant: halfOpenInFlight survives a state change.
setStateKeepsInFlight(b, s) ==
  [b EXCEPT !.state = s, !.age = 0, !.failures = 0, !.successes = 0]

setState(b, s) ==
  [b EXCEPT !.state = s, !.age = 0, !.failures = 0, !.successes = 0,
            !.halfOpenInFlight = 0]

OpenExpired(b) == b.state = "open" /\ b.age > OpenTimeout

\* Mutant: the in-flight limit is off by one.
RejectsOffByOne(b) ==
  \/ b.state = "open" /\ ~OpenExpired(b)
  \/ b.state = "half-open" /\ b.halfOpenInFlight > HalfOpenMaxConcurrent

Rejects(b) ==
  \/ b.state = "open" /\ ~OpenExpired(b)
  \/ b.state = "half-open" /\ b.halfOpenInFlight >= HalfOpenMaxConcurrent

takeSlot(b) ==
  IF b.state = "half-open" THEN [b EXCEPT !.halfOpenInFlight = @ + 1] ELSE b

enter(b) == takeSlot(IF OpenExpired(b) THEN setState(b, "half-open") ELSE b)

\* Mutant: a finished probe does not give its slot back.
releaseSlotNever(b) == b

releaseSlot(b) ==
  IF b.state = "half-open" THEN [b EXCEPT !.halfOpenInFlight = @ - 1] ELSE b

\* Mutant: the recovery threshold is never reached.
onSuccessNeverCloses(b) ==
  CASE b.state = "closed" -> [b EXCEPT !.failures = 0]
    [] b.state = "half-open" -> b
    [] OTHER -> b

onSuccess(b) ==
  CASE b.state = "closed" -> [b EXCEPT !.failures = 0]
    [] b.state = "half-open" ->
         IF b.successes + 1 >= SuccessThreshold
           THEN setState(b, "closed")
           ELSE [b EXCEPT !.successes = @ + 1]
    [] OTHER -> b

onFailure(b) ==
  CASE b.state = "closed" ->
         IF b.failures + 1 >= FailThreshold
           THEN setState(b, "open")
           ELSE [b EXCEPT !.failures = @ + 1]
    [] b.state = "half-open" -> setState(b, "open")
    [] OTHER -> b

exit(b, ok) == IF ok THEN onSuccess(releaseSlot(b)) ELSE onFailure(releaseSlot(b))
=============================================================================
