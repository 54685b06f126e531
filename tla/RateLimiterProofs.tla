-------------------------- MODULE RateLimiterProofs --------------------------
(***************************************************************************)
(* The rate limiter implements RateLaw, for any clients, rate, burst and   *)
(* cleanup window with Full <= (Window + 1) * Rps.  The debt of a client   *)
(* is what is missing from its bucket once the time since the last refill  *)
(* is credited: Allow adds a request to it, Tick works it off without      *)
(* touching the bucket, and Cleanup drops only buckets whose debt is 0.    *)
(***************************************************************************)
EXTENDS RateLimiter, TLAPS

LEMMA FullNat == Full \in Nat
BY LimiterAssumption DEF Full

LEMMA Credit ==
  ASSUME NEW a \in Nat
  PROVE  a * Rps \in Nat /\ (a + 1) * Rps = a * Rps + Rps
<1>1. Rps \in Nat
  BY LimiterAssumption
<1> QED
  BY <1>1

(* The credit of a bucket that cleanup may drop fills it.                  *)
LEMMA IdleIsFull ==
  ASSUME TypeOK, NEW k \in Keys, Idle(k)
  PROVE  refill(k) = Full
<1>1. age[k] = Window + 1 /\ tokens[k] \in Nat
  BY LimiterAssumption, FullNat DEF TypeOK, Idle
<1>2. (Window + 1) * Rps \in Nat /\ Full <= (Window + 1) * Rps
  BY LimiterAssumption, Credit
<1> QED
  BY <1>1, <1>2, FullNat DEF refill, Least

LEMMA LevelRange ==
  ASSUME TypeOK, NEW k \in Keys
  PROVE  Level(k) \in 0 .. Full
<1>1. age[k] * Rps \in Nat /\ tokens[k] \in Nat
  BY LimiterAssumption, FullNat, Credit DEF TypeOK
<1>2. refill(k) \in 0 .. Full
  BY <1>1, FullNat DEF refill, Least
<1> QED
  BY <1>2, FullNat DEF Level

LEMMA LimiterTypesStep == TypeOK /\ [Next]_vars => TypeOK'
<1> SUFFICES ASSUME TypeOK, [Next]_vars PROVE TypeOK'
  OBVIOUS
<1> USE DEF TypeOK
<1>1. ASSUME NEW k \in Keys, Allow(k) PROVE TypeOK'
  <2>1. Level(k) \in 0 .. Full /\ Unit \in Nat /\ Window \in Nat
    BY LevelRange, LimiterAssumption
  <2>2. tokens' \in [Keys -> 0 .. Full]
    BY <1>1, <2>1, FullNat DEF Allow
  <2>3. age' \in [Keys -> 0 .. Window + 1]
    BY <1>1, <2>1 DEF Allow
  <2> QED
    BY <1>1, <2>2, <2>3 DEF Allow
<1>2. CASE Cleanup
  <2>1. tokens' \in [Keys -> 0 .. Full] /\ age' \in [Keys -> 0 .. Window + 1]
    BY <1>2, FullNat, LimiterAssumption DEF Cleanup
  <2> QED
    BY <1>2, <2>1 DEF Cleanup
<1>3. CASE Stop \/ CleanupExits
  BY <1>3 DEF Stop, CleanupExits
<1>4. CASE Tick
  <2>1. age' \in [Keys -> 0 .. Window + 1]
    BY <1>4, LimiterAssumption DEF Tick
  <2> QED
    BY <1>4, <2>1 DEF Tick
<1>5. CASE UNCHANGED vars
  BY <1>5 DEF vars
<1> QED
  BY <1>1, <1>2, <1>3, <1>4, <1>5 DEF Next

(* A bucket never holds more than a burst and never less than nothing      *)
(* (ratelimit.go:19-32).                                                   *)
THEOREM LimiterTypes == Spec => []TypeOK
<1>1. Init => TypeOK
  BY FullNat, LimiterAssumption DEF Init, TypeOK
<1> QED
  BY <1>1, LimiterTypesStep, PTL DEF Spec

-----------------------------------------------------------------------------
(* The debt of k after a step, by what becomes of its bucket.              *)
LEMMA LevelNext ==
  ASSUME NEW k \in Keys
  PROVE  /\ k \in tracked' => Level(k)' = Least(Full, tokens'[k] + age'[k] * Rps)
         /\ k \notin tracked' => Level(k)' = Full
BY DEF Level, refill

LEMMA AllowIsLaw ==
  ASSUME TypeOK, NEW k \in Keys, Allow(k)
  PROVE  Law!Pass(k) \/ Law!Block(k)
<1> DEFINE D == [j \in Keys |-> Full - Level(j)]
<1>0. Level(k) \in 0 .. Full /\ Unit \in Nat \ {0} /\ Full \in Nat
  BY LevelRange, FullNat, LimiterAssumption
<1>1. ASSUME NEW j \in Keys, j # k PROVE Level(j)' = Level(j)
  <2>1. tokens'[j] = tokens[j] /\ age'[j] = age[j] /\ (j \in tracked' <=> j \in tracked)
    BY <1>1 DEF Allow, TypeOK
  <2> QED
    BY <2>1 DEF Level, refill
<1>2. k \in tracked' /\ age'[k] = 0
  BY DEF Allow, TypeOK
<1>3. ASSUME NEW t \in 0 .. Full, tokens'[k] = t PROVE Level(k)' = t
  <2>1. Rps \in Nat /\ t \in Nat /\ t <= Full
    BY <1>0, <1>3, LimiterAssumption
  <2>2. Level(k)' = Least(Full, t + 0 * Rps)
    BY <1>2, <1>3, LevelNext
  <2> QED
    BY <1>0, <2>1, <2>2 DEF Least
<1>4. CASE Level(k) >= Unit
  <2>1. tokens'[k] = Level(k) - Unit /\ verdict' = [verdict EXCEPT ![k] = "allowed"]
    BY <1>0, <1>4 DEF Allow, TypeOK
  <2>2. Level(k)' = Level(k) - Unit
    BY <1>0, <1>3, <1>4, <2>1
  <2>3. Full - (Level(k)') = (Full - Level(k)) + Unit /\ (Full - Level(k)) + Unit <= Full
    BY <1>0, <1>4, <2>2
  <2>4. D' = [D EXCEPT ![k] = @ + Unit]
    BY <1>1, <2>3
  <2> QED
    BY <2>1, <2>3, <2>4 DEF Law!Pass
<1>5. CASE Level(k) < Unit
  <2>1. tokens'[k] = Level(k) /\ verdict' = [verdict EXCEPT ![k] = "blocked"]
    BY <1>0, <1>5 DEF Allow, TypeOK
  <2>2. Level(k)' = Level(k)
    BY <1>0, <1>3, <2>1
  <2>3. D' = D
    BY <1>1, <2>2
  <2>4. (Full - Level(k)) + Unit > Full
    BY <1>0, <1>5
  <2> QED
    BY <2>1, <2>3, <2>4 DEF Law!Block
<1> QED
  BY <1>0, <1>4, <1>5

LEMMA TickIsLaw ==
  ASSUME TypeOK, Tick
  PROVE  Law!Tick
<1>1. ASSUME NEW k \in Keys
      PROVE  Full - (Level(k)') = IF Full - Level(k) > Rps THEN Full - Level(k) - Rps ELSE 0
  <2>0. Full \in Nat /\ Rps \in Nat \ {0} /\ Window \in Nat /\ tokens[k] \in Nat
        /\ age[k] \in Nat
    BY FullNat, LimiterAssumption DEF TypeOK
  <2>1. CASE k \notin tracked
    BY <2>0, <2>1 DEF Tick, Level
  <2>2. CASE k \in tracked /\ age[k] <= Window
    <3>1. age'[k] = age[k] + 1 /\ tokens'[k] = tokens[k] /\ k \in tracked'
      BY <2>2 DEF Tick
    <3>2. PICK c \in Nat : c = age[k] * Rps /\ (age[k] + 1) * Rps = c + Rps
      BY <2>0, Credit
    <3>3. Level(k) = Least(Full, tokens[k] + c) /\ Level(k)' = Least(Full, tokens[k] + (c + Rps))
      BY <2>2, <3>1, <3>2, LevelNext DEF Level, refill
    <3> QED
      BY <2>0, <3>2, <3>3 DEF Least
  <2>3. CASE k \in tracked /\ ~(age[k] <= Window)
    <3>1. age'[k] = age[k] /\ tokens'[k] = tokens[k] /\ k \in tracked'
      BY <2>3 DEF Tick
    <3>2. refill(k) = Full
      BY <2>0, <2>3, IdleIsFull DEF Idle
    <3>3. Level(k) = Full /\ Level(k)' = Full
      BY <2>3, <3>1, <3>2, LevelNext DEF Level, refill
    <3> QED
      BY <2>0, <3>3
  <2> QED
    BY <2>1, <2>2, <2>3
<1>2. verdict' = verdict
  BY DEF Tick
<1> QED
  BY <1>1, <1>2 DEF Law!Tick

LEMMA CleanupIsSilent ==
  ASSUME TypeOK, Cleanup, NEW k \in Keys
  PROVE  Level(k)' = Level(k)
<1>1. CASE k \in tracked'
  BY <1>1, LevelNext DEF Cleanup, Level, refill
<1>2. CASE k \notin tracked'
  <2>1. k \notin tracked \/ Idle(k)
    BY <1>2 DEF Cleanup
  <2>2. Level(k) = Full
    BY <2>1, IdleIsFull DEF Level
  <2> QED
    BY <1>2, <2>2, LevelNext
<1> QED
  BY <1>1, <1>2

LEMMA LawStep == TypeOK /\ [Next]_vars => [Law!Next]_Law!vars
<1> SUFFICES ASSUME TypeOK, [Next]_vars PROVE Law!Next \/ UNCHANGED Law!vars
  OBVIOUS
<1>1. ASSUME NEW k \in Keys, Allow(k) PROVE Law!Next
  BY <1>1, AllowIsLaw DEF Law!Next
<1>2. CASE Tick
  BY <1>2, TickIsLaw DEF Law!Next
<1>3. ASSUME \A k \in Keys : Level(k)' = Level(k), verdict' = verdict
      PROVE  UNCHANGED Law!vars
  BY <1>3 DEF Law!vars
<1>4. CASE Cleanup
  BY <1>3, <1>4, CleanupIsSilent DEF Cleanup
<1>5. CASE Stop \/ CleanupExits \/ UNCHANGED vars
  <2>1. UNCHANGED <<tracked, tokens, age, verdict>>
    BY <1>5 DEF Stop, CleanupExits, vars
  <2>2. \A k \in Keys : Level(k)' = Level(k)
    BY <2>1 DEF Level, refill
  <2> QED
    BY <1>3, <2>1, <2>2
<1> QED
  BY <1>1, <1>2, <1>4, <1>5 DEF Next

(* Lazy refill, buckets made on demand and cleanup give every client the   *)
(* verdicts of RateLaw (ratelimit.go:19-32, 81-103, 122-141).              *)
THEOREM LimiterImplementsLaw == Spec => RateLawHolds
<1>1. Init => Law!Init
  <2> SUFFICES ASSUME Init PROVE Law!Init
    OBVIOUS
  <2>1. \A k \in Keys : Level(k) = Full
    BY DEF Init, Level
  <2>2. Full - Full = 0
    BY FullNat
  <2> QED
    BY <2>1, <2>2 DEF Init, Law!Init
<1> QED
  BY <1>1, LawStep, LimiterTypes, PTL DEF Spec, RateLawHolds, Law!Spec
==============================================================================
