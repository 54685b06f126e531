--------------------------- MODULE CircuitBreaker ---------------------------
(***************************************************************************)
(* The three-state circuit breaker of internal/circuitbreaker, called      *)
(* concurrently by the request handlers of an edge node.                   *)
(*                                                                         *)
(* Execute is two critical sections of Breaker.mu with the protected       *)
(* function fn running between them, so it is two actions: Admit (or       *)
(* Reject) and Complete.  What happens to the breaker while fn runs is     *)
(* what this module is about: a call admitted in one state may complete    *)
(* in another.                                                             *)
(*                                                                         *)
(* The Prometheus counters and the state gauge are left out: nothing reads *)
(* them back.                                                              *)
(***************************************************************************)
EXTENDS BreakerState, FiniteSets

CONSTANT Callers   \* the goroutines that call Execute

ASSUME CallersAssumption == IsFiniteSet(Callers)

VARIABLES
  breaker,    \* the fields of Breaker that mu protects
  running,    \* callers between the two critical sections of Execute
  result,     \* what each caller's last Execute returned
  probes,     \* history: running callers admitted in this half-open period
  staleDone   \* history: calls admitted before this half-open period that
              \* completed in it

vars == <<breaker, running, result, probes, staleDone>>

-----------------------------------------------------------------------------
Init ==
  /\ breaker = NewBreaker
  /\ running = {}
  /\ result = [c \in Callers |-> "none"]
  /\ probes = {}
  /\ staleDone = 0

\* Execute, first critical section, when the call is let through to fn.
Admit(c) ==
  /\ c \notin running
  /\ ~Rejects(breaker)
  /\ breaker' = enter(breaker)
  /\ running' = running \cup {c}
  /\ result' = [result EXCEPT ![c] = "none"]
  /\ probes' = IF breaker'.state = "half-open" THEN probes \cup {c} ELSE {}
  /\ UNCHANGED staleDone

\* Execute, first critical section, when it returns ErrCircuitOpen.
Reject(c) ==
  /\ c \notin running
  /\ Rejects(breaker)
  /\ result' = [result EXCEPT ![c] = "rejected"]
  /\ UNCHANGED <<breaker, running, probes, staleDone>>

\* Execute, second critical section, after fn returned with or without error.
Complete(c, ok) ==
  /\ c \in running
  /\ breaker' = exit(breaker, ok)
  /\ running' = running \ {c}
  /\ result' = [result EXCEPT ![c] = IF ok THEN "ok" ELSE "err"]
  /\ IF breaker'.state = "half-open"
       THEN /\ probes' = probes \ {c}
            /\ staleDone' = IF c \in probes THEN staleDone ELSE staleDone + 1
       ELSE probes' = {} /\ staleDone' = 0

\* State: the reader that turns an expired open breaker half-open.
StateCall ==
  /\ OpenExpired(breaker)
  /\ breaker' = setState(breaker, "half-open")
  /\ UNCHANGED <<running, result, probes, staleDone>>

Reset ==
  /\ breaker' = setState(breaker, "closed")
  /\ probes' = {}
  /\ staleDone' = 0
  /\ UNCHANGED <<running, result>>

Tick ==
  /\ breaker.age <= OpenTimeout
  /\ breaker' = [breaker EXCEPT !.age = @ + 1]
  /\ UNCHANGED <<running, result, probes, staleDone>>

Next ==
  \/ \E c \in Callers : Admit(c) \/ Reject(c)
  \/ \E c \in Callers, ok \in BOOLEAN : Complete(c, ok)
  \/ StateCall
  \/ Reset
  \/ Tick

Spec == Init /\ [][Next]_vars

(* fn always returns (attempts, backoff and each fetch are bounded), the   *)
(* clock advances, and the node keeps receiving requests.                  *)
Fairness ==
  /\ WF_vars(Tick)
  /\ \A c \in Callers : WF_vars(Admit(c))
  /\ \A c \in Callers : WF_vars(\E ok \in BOOLEAN : Complete(c, ok))

FairSpec == Spec /\ Fairness

-----------------------------------------------------------------------------
(* Type invariant: the counters stay strictly below the thresholds that    *)
(* onFailure and onSuccess compare them with.                              *)
TypeOK ==
  /\ breaker \in [state : States,
                  failures : 0 .. FailThreshold - 1,
                  successes : 0 .. SuccessThreshold - 1,
                  halfOpenInFlight : Int,
                  age : 0 .. OpenTimeout + 1]
  /\ running \subseteq Callers
  /\ result \in [Callers -> {"none", "ok", "err", "rejected"}]
  /\ probes \subseteq running
  /\ staleDone \in Nat

(* The accounting behind the in-flight limit: in a half-open period        *)
(* halfOpenInFlight is the number of probes in flight less the calls from  *)
(* before the period that completed in it (Execute decrements for those    *)
(* too); each of them was counted as a success, and outside half-open the  *)
(* counter is zero.                                                        *)
Accounting ==
  IF breaker.state = "half-open"
    THEN /\ breaker.halfOpenInFlight = Cardinality(probes) - staleDone
         /\ staleDone <= breaker.successes
         /\ breaker.halfOpenInFlight <= HalfOpenMaxConcurrent
    ELSE /\ breaker.halfOpenInFlight = 0
         /\ probes = {}
         /\ staleDone = 0

(* What Execute really guarantees of a recovering origin: at most          *)
(* HalfOpenMaxConcurrent + SuccessThreshold - 1 probes at a time, however  *)
(* many calls from before the outage complete late.                        *)
ProbeBound == Cardinality(probes) <= HalfOpenMaxConcurrent + SuccessThreshold - 1

(* No slot is ever lost: a half-open breaker with fewer calls in fn than   *)
(* HalfOpenMaxConcurrent lets the next call through.  (Half-open has no    *)
(* timeout, so a lost slot would never come back.)                         *)
SpareSlotAdmits ==
  breaker.state = "half-open" /\ Cardinality(running) < HalfOpenMaxConcurrent
    => ~Rejects(breaker)

(* Recovery: once calls stop failing, the breaker closes for good and no   *)
(* caller stays rejected, also when late results of the outage interleave  *)
(* with the probes.                                                        *)
Recovery ==
  <>[][\A c \in Callers : result'[c] = "err" => result[c] = "err"]_vars
    => <>[](breaker.state = "closed" /\ \A c \in Callers : result[c] # "rejected")

(* What the setting HalfOpenMaxConcurrent and the guard on it announce: at *)
(* most that many calls run in a half-open period.                         *)
HalfOpenCap == Cardinality(probes) <= HalfOpenMaxConcurrent
=============================================================================
