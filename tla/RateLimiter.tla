---------------------------- MODULE RateLimiter -----------------------------
(***************************************************************************)
(* The per-client token buckets of internal/ratelimit, which every request *)
(* to an edge node passes first.                                           *)
(*                                                                         *)
(* Buckets are refilled lazily, when their client asks again, and a        *)
(* background goroutine forgets the buckets of idle clients.  A forgotten  *)
(* client starts over with a full bucket, so the limit holds only if its   *)
(* old bucket would have been full by then too.                            *)
(*                                                                         *)
(* Tokens are counted in fractions, Unit of them to the token, and rps is  *)
(* the fractions a tick of the clock refills (the code's float64 sums are  *)
(* taken as exact).  How a request's headers give its key is left out.     *)
(***************************************************************************)
EXTENDS Integers

CONSTANTS
  Keys,     \* client addresses
  Burst,    \* Limiter.burst, in tokens
  Unit,     \* fractions of a token
  Rps,      \* Limiter.rps, in fractions per tick
  Window    \* the five minutes of cleanup, in ticks

Full == Burst * Unit

\* New replaces a non-positive rps or burst by a positive default.  That an
\* idle bucket fills up before cleanup may drop it is not checked by the code:
\* rps and burst come from the environment (by default it takes two seconds).
ASSUME LimiterAssumption ==
  /\ Burst \in Nat \ {0} /\ Unit \in Nat \ {0}
  /\ Rps \in Nat \ {0} /\ Window \in Nat \ {0}
  /\ Full <= (Window + 1) * Rps

VARIABLES
  tracked,    \* the keys of Limiter.buckets
  tokens,     \* tokenBucket.tokens of each tracked key
  age,        \* the time since its lastRefill, up to Window + 1
  verdict,    \* what the last Allow of each key returned
  loop        \* the cleanup goroutine: "on", "stopping" (stopCh closed), "off"

vars == <<tracked, tokens, age, verdict, loop>>

Init ==
  /\ tracked = {}
  /\ tokens = [k \in Keys |-> 0]
  /\ age = [k \in Keys |-> 0]
  /\ verdict = [k \in Keys |-> "none"]
  /\ loop = "on"

Least(a, b) == IF a <= b THEN a ELSE b

(* allow, first half: the tokens of k's bucket with the time since         *)
(* lastRefill credited.                                                    *)
refill(k) == Least(Full, tokens[k] + age[k] * Rps)

(* What k has when it asks: a key without a bucket is given a full one.    *)
Level(k) == IF k \in tracked THEN refill(k) ELSE Full

(* Allow, one critical section, and the answer Middleware gives.           *)
Allow(k) ==
  /\ tracked' = tracked \cup {k}
  /\ age' = [age EXCEPT ![k] = 0]
  /\ \/ /\ Level(k) >= Unit
        /\ tokens' = [tokens EXCEPT ![k] = Level(k) - Unit]
        /\ verdict' = [verdict EXCEPT ![k] = "allowed"]
     \/ /\ Level(k) < Unit
        /\ tokens' = [tokens EXCEPT ![k] = Level(k)]
        /\ verdict' = [verdict EXCEPT ![k] = "blocked"]
  /\ UNCHANGED loop

\* Mutant: a bucket is idle one tick too early.
IdleEarly(k) == age[k] >= Window

\* Mutant: the comparison with the window is never true.
IdleNever(k) == age[k] > Window + 1

Idle(k) == age[k] > Window

(* A tick of the cleanup goroutine, one critical section (the select may   *)
(* take it also when stopCh is closed).                                    *)
Cleanup ==
  /\ loop # "off"
  /\ tracked' = {k \in tracked : ~Idle(k)}
  /\ tokens' = [k \in Keys |-> IF k \in tracked' THEN tokens[k] ELSE 0]
  /\ age' = [k \in Keys |-> IF k \in tracked' THEN age[k] ELSE 0]
  /\ UNCHANGED <<verdict, loop>>

Stop ==
  /\ loop = "on"
  /\ loop' = "stopping"
  /\ UNCHANGED <<tracked, tokens, age, verdict>>

CleanupExits ==
  /\ loop = "stopping"
  /\ loop' = "off"
  /\ UNCHANGED <<tracked, tokens, age, verdict>>

Tick ==
  /\ age' = [k \in Keys |-> IF k \in tracked /\ age[k] <= Window THEN age[k] + 1 ELSE age[k]]
  /\ UNCHANGED <<tracked, tokens, verdict, loop>>

Next ==
  \/ \E k \in Keys : Allow(k)
  \/ Cleanup \/ Stop \/ CleanupExits \/ Tick

Spec == Init /\ [][Next]_vars

(* The clock advances and the cleanup goroutine is scheduled.              *)
FairSpec == Spec /\ WF_vars(Tick) /\ WF_vars(Cleanup) /\ SF_vars(CleanupExits)

-----------------------------------------------------------------------------
TypeOK ==
  /\ tracked \subseteq Keys
  /\ tokens \in [Keys -> 0 .. Full]
  /\ age \in [Keys -> 0 .. Window + 1]
  /\ verdict \in [Keys -> {"none", "allowed", "blocked"}]
  /\ loop \in {"on", "stopping", "off"}

(* The limiter implements RateLaw: lazy refill, a bucket made on demand    *)
(* and cleanup, whenever it runs, give each client exactly the verdicts of *)
(* a debt that is worked off continuously.  In particular cleanup never    *)
(* gives a client a token it would not have had.                           *)
Law == INSTANCE RateLaw WITH debt <- [k \in Keys |-> Full - Level(k)]
RateLawHolds == Law!Spec

(* Memory is given back: a client that stops asking loses its bucket,      *)
(* unless the limiter is stopped.                                          *)
IdleForgotten ==
  \A k \in Keys : <>[](k \in tracked => age[k] > 0) => <>[](k \notin tracked \/ loop # "on")
=============================================================================
