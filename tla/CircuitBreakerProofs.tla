------------------------ MODULE CircuitBreakerProofs ------------------------
(***************************************************************************)
(* Proofs about CircuitBreaker, for every set of callers and every         *)
(* configuration New accepts.  The inductive invariant is TypeOK together  *)
(* with Accounting.                                                        *)
(***************************************************************************)
EXTENDS CircuitBreaker, BreakerStateProofs, FiniteSetTheorems

Inv == TypeOK /\ Accounting

(* The sets the counting is about are finite.                              *)
LEMMA FiniteCallSets ==
  ASSUME TypeOK
  PROVE  /\ IsFiniteSet(running) /\ IsFiniteSet(probes)
         /\ Cardinality(running) \in Nat /\ Cardinality(probes) \in Nat
         /\ Cardinality(probes) <= Cardinality(running)
<1>1. IsFiniteSet(running)
  BY CallersAssumption, FS_Subset DEF TypeOK
<1>2. IsFiniteSet(probes) /\ Cardinality(probes) <= Cardinality(running)
  BY <1>1, FS_Subset DEF TypeOK
<1> QED
  BY <1>1, <1>2, FS_CardinalityType

-----------------------------------------------------------------------------
LEMMA InitInv == Init => Inv
<1> SUFFICES ASSUME Init PROVE Inv
  OBVIOUS
<1>1. breaker \in Breakers
  BY ConfigAssumption DEF Init, NewBreaker, Breakers, States
<1> QED
  BY <1>1 DEF Init, NewBreaker, Inv, TypeOK, Accounting, Breakers

LEMMA AdmitInv ==
  ASSUME Inv, NEW c \in Callers, Admit(c)
  PROVE  Inv'
<1>1. breaker \in Breakers /\ ~Rejects(breaker) /\ breaker' = enter(breaker)
  BY DEF Inv, TypeOK, Breakers, Admit
<1>2. breaker' \in Breakers
  BY <1>1, EnterFields
<1>3. TypeOK'
  BY <1>2 DEF Inv, TypeOK, Accounting, Admit, Breakers
<1>4. Accounting'
  <2>1. CASE breaker.state = "closed"
    BY <1>1, <2>1, EnterFields DEF Inv, Accounting, Admit
  <2>2. CASE breaker.state = "half-open"
    <3>1. c \notin probes /\ IsFiniteSet(probes) /\ Cardinality(probes) \in Nat
      BY FiniteCallSets DEF Inv, TypeOK, Admit
    <3>2. Cardinality(probes \cup {c}) = Cardinality(probes) + 1
      BY <3>1, FS_AddElement
    <3>3. /\ breaker'.state = "half-open"
          /\ breaker'.halfOpenInFlight = breaker.halfOpenInFlight + 1
          /\ breaker'.successes = breaker.successes
      BY <1>1, <2>2, EnterFields
    <3>4. probes' = probes \cup {c} /\ staleDone' = staleDone
      BY <3>3 DEF Admit
    <3>5. breaker.halfOpenInFlight < HalfOpenMaxConcurrent
      BY <1>1, <2>2, ConfigAssumption DEF Rejects, Breakers
    <3> QED
      BY <1>1, <2>2, <3>1, <3>2, <3>3, <3>4, <3>5, ConfigAssumption
      DEF Inv, TypeOK, Accounting, Breakers
  <2>3. CASE breaker.state = "open"
    <3>1. probes = {} /\ staleDone = 0
      BY <2>3 DEF Inv, Accounting
    <3>2. Cardinality({c}) = 1
      BY FS_Singleton
    <3>3. /\ breaker'.state = "half-open"
          /\ breaker'.halfOpenInFlight = 1
          /\ breaker'.successes = 0
      BY <1>1, <2>3, EnterFields
    <3>4. probes' = {c} /\ staleDone' = 0
      BY <3>1, <3>3 DEF Admit
    <3> QED
      BY <3>2, <3>3, <3>4, ConfigAssumption DEF Accounting
  <2> QED
    BY <1>1, <2>1, <2>2, <2>3 DEF Breakers, States
<1> QED
  BY <1>3, <1>4 DEF Inv

LEMMA CompleteInv ==
  ASSUME Inv, NEW c \in Callers, NEW ok \in BOOLEAN, Complete(c, ok)
  PROVE  Inv'
<1>1. /\ breaker \in Breakers /\ breaker' = exit(breaker, ok)
      /\ breaker.state # "half-open" => breaker.halfOpenInFlight = 0
  BY DEF Inv, TypeOK, Accounting, Breakers, Complete
<1>2. breaker' \in Breakers
  BY <1>1, ExitFields
<1>3. TypeOK'
  BY <1>2 DEF Inv, TypeOK, Complete, Breakers
<1>4. Accounting'
  <2>1. CASE breaker'.state = "half-open"
    <3>1. /\ breaker.state = "half-open"
          /\ breaker'.halfOpenInFlight = breaker.halfOpenInFlight - 1
          /\ breaker'.successes = breaker.successes + 1
      BY <1>1, <2>1, ExitFields
    <3>2. IsFiniteSet(probes) /\ Cardinality(probes) \in Nat
      BY FiniteCallSets DEF Inv
    <3>3. /\ c \in probes => Cardinality(probes \ {c}) = Cardinality(probes) - 1
          /\ c \notin probes => Cardinality(probes \ {c}) = Cardinality(probes)
      BY <3>2, FS_RemoveElement
    <3>4. /\ probes' = probes \ {c}
          /\ staleDone' = IF c \in probes THEN staleDone ELSE staleDone + 1
      BY <2>1 DEF Complete
    <3> QED
      BY <1>1, <2>1, <3>1, <3>2, <3>3, <3>4, ConfigAssumption
      DEF Inv, TypeOK, Accounting, Breakers
  <2>2. CASE breaker'.state # "half-open"
    BY <1>1, <2>2, ExitFields DEF Complete, Accounting
  <2> QED
    BY <2>1, <2>2
<1> QED
  BY <1>3, <1>4 DEF Inv

(* State and Reset both go through setState.                               *)
LEMMA SetStateInv ==
  ASSUME Inv, StateCall \/ Reset
  PROVE  Inv'
<1>1. breaker \in Breakers
  BY DEF Inv, TypeOK, Breakers
<1>2. CASE StateCall
  <2>1. /\ breaker' \in Breakers
        /\ breaker'.state = "half-open"
        /\ breaker'.halfOpenInFlight = 0 /\ breaker'.successes = 0
    BY <1>1, <1>2, SetStateFields DEF StateCall, States
  <2>2. probes = {} /\ staleDone = 0
    BY <1>2 DEF StateCall, OpenExpired, Inv, Accounting
  <2> QED
    BY <1>2, <2>1, <2>2, FS_EmptySet, ConfigAssumption
    DEF StateCall, Inv, TypeOK, Accounting, Breakers
<1>3. CASE Reset
  BY <1>1, <1>3, SetStateFields DEF Reset, States, Inv, TypeOK, Accounting, Breakers
<1> QED
  BY <1>2, <1>3

LEMMA NextInv == Inv /\ [Next]_vars => Inv'
<1> SUFFICES ASSUME Inv, [Next]_vars PROVE Inv'
  OBVIOUS
<1>1. CASE \E c \in Callers : Admit(c)
  BY <1>1, AdmitInv
<1>2. CASE \E c \in Callers : Reject(c)
  BY <1>2 DEF Reject, Inv, TypeOK, Accounting
<1>3. CASE \E c \in Callers, ok \in BOOLEAN : Complete(c, ok)
  BY <1>3, CompleteInv
<1>4. CASE StateCall \/ Reset
  BY <1>4, SetStateInv
<1>5. CASE Tick
  <2>1. breaker \in Breakers /\ breaker.age <= OpenTimeout
    BY <1>5 DEF Tick, Inv, TypeOK, Breakers
  <2>2. /\ breaker' \in Breakers
        /\ breaker'.state = breaker.state
        /\ breaker'.halfOpenInFlight = breaker.halfOpenInFlight
        /\ breaker'.successes = breaker.successes
    BY <1>5, <2>1, ConfigAssumption DEF Tick, Breakers
  <2> QED
    BY <1>5, <2>2 DEF Tick, Inv, TypeOK, Accounting, Breakers
<1>6. CASE UNCHANGED vars
  BY <1>6 DEF vars, Inv, TypeOK, Accounting
<1> QED
  BY <1>1, <1>2, <1>3, <1>4, <1>5, <1>6 DEF Next

(* The breaker's counters and the calls in flight keep their types and the *)
(* half-open slots are accounted for in every reachable state.             *)
THEOREM BreakerInvariant == Spec => [](TypeOK /\ Accounting)
<1>1. Spec => []Inv
  BY InitInv, NextInv, PTL DEF Spec
<1> QED
  BY <1>1, PTL DEF Inv

(* A recovering origin never sees more than HalfOpenMaxConcurrent +        *)
(* SuccessThreshold - 1 probes at once.                                    *)
THEOREM BreakerProbeBound == Spec => []ProbeBound
<1>1. Inv => ProbeBound
  <2> SUFFICES ASSUME Inv PROVE ProbeBound
    OBVIOUS
  <2>1. Cardinality(probes) \in Nat
    BY FiniteCallSets DEF Inv
  <2>2. CASE breaker.state = "half-open"
    BY <2>1, <2>2, ConfigAssumption DEF Inv, TypeOK, Accounting, ProbeBound
  <2>3. CASE breaker.state # "half-open"
    <3>1. Cardinality(probes) = 0
      BY <2>3, FS_EmptySet DEF Inv, Accounting
    <3> QED
      BY <3>1, ConfigAssumption DEF ProbeBound
  <2> QED
    BY <2>2, <2>3
<1> QED
  BY <1>1, BreakerInvariant, PTL DEF Inv

(* No half-open slot is ever lost while fn returns normally.               *)
THEOREM BreakerNeverLosesSlot == Spec => []SpareSlotAdmits
<1>1. Inv => SpareSlotAdmits
  <2> SUFFICES ASSUME Inv, breaker.state = "half-open",
                      Cardinality(running) < HalfOpenMaxConcurrent
               PROVE  ~Rejects(breaker)
    BY DEF SpareSlotAdmits
  <2>1. /\ Cardinality(running) \in Nat /\ Cardinality(probes) \in Nat
        /\ Cardinality(probes) <= Cardinality(running)
    BY FiniteCallSets DEF Inv
  <2>2. breaker.halfOpenInFlight < HalfOpenMaxConcurrent
    BY <2>1, ConfigAssumption DEF Inv, TypeOK, Accounting
  <2> QED
    BY <2>2, ConfigAssumption DEF Rejects, Inv, TypeOK
<1> QED
  BY <1>1, BreakerInvariant, PTL DEF Inv
=============================================================================
