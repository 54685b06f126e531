------------------------- MODULE OriginShieldProofs -------------------------
(***************************************************************************)
(* Proofs about OriginShield, for any finite set of requests, any paths    *)
(* and any waiter limit.                                                   *)
(*                                                                         *)
(* The invariants the runs check are not inductive by themselves.  IInv    *)
(* adds what links a call's result to its leader's progress, to the origin *)
(* goroutine and to the requests that returned, and that call.shared       *)
(* counts at least the requests parked on the call.                        *)
(***************************************************************************)
EXTENDS OriginShield, FiniteSetTheorems, TLAPS

Failures == {"timeout", "cancelled"}

(* A leader that has signalled has set the result of its call.             *)
SignalledHasResult ==
  \A r \in Requests : pc[r] = "signalled" => result[r] # "none"

(* An origin goroutine exists only once its leader fetches; while it runs, *)
(* the leader listens or has abandoned it.                                 *)
OriginServesLeader ==
  \A r \in Requests :
    /\ origin[r] # "idle" => pc[r] \in {"fetching", "signalled", "returned"}
    /\ origin[r] = "running" => pc[r] = "fetching" \/ result[r] \in Failures

(* Where the result of a call comes from.                                  *)
ResultSource ==
  \A r \in Requests :
    /\ result[r] = "cancelled" => r \in cancelled
    /\ result[r] = "resp" => origin[r] = "replied"
    /\ pc[r] \in Leading => joined[r] = r
    /\ ret[r] # "none" => pc[r] = "returned"
    /\ ret[r] = "resp" => joined[r] \in Requests

(* call.shared counts every request parked on the call.                    *)
SharedCounts == \A c \in Requests : Cardinality(WaitersOf(c)) <= shared[c]

IInv ==
  /\ TypeOK
  /\ Ownership
  /\ NotStranded
  /\ SignalledHasResult
  /\ OriginServesLeader
  /\ ResultSource
  /\ BlastRadius
  /\ SharedCounts

-----------------------------------------------------------------------------
LEMMA FiniteWaiters ==
  ASSUME NEW c \in Requests
  PROVE  IsFiniteSet(WaitersOf(c)) /\ Cardinality(WaitersOf(c)) \in Nat
<1>1. WaitersOf(c) \subseteq Requests
  BY DEF WaitersOf
<1> QED
  BY <1>1, ShieldAssumption, FS_Subset, FS_CardinalityType

(* A step after which no call has a waiter it did not have before, and     *)
(* which leaves call.shared alone, keeps SharedCounts.                     *)
LEMMA NoNewWaiters ==
  ASSUME TypeOK, SharedCounts, shared' = shared,
         \A c \in Requests : WaitersOf(c)' \subseteq WaitersOf(c)
  PROVE  SharedCounts'
<1> SUFFICES ASSUME NEW c \in Requests
             PROVE  Cardinality(WaitersOf(c)') <= shared[c]
  BY DEF SharedCounts
<1>1. /\ IsFiniteSet(WaitersOf(c)) /\ Cardinality(WaitersOf(c)) \in Nat
      /\ WaitersOf(c)' \subseteq WaitersOf(c)
  BY FiniteWaiters
<1>2. /\ IsFiniteSet(WaitersOf(c)')
      /\ Cardinality(WaitersOf(c)') <= Cardinality(WaitersOf(c))
  BY <1>1, FS_Subset
<1>3. Cardinality(WaitersOf(c)') \in Nat
  BY <1>2, FS_CardinalityType
<1>4. Cardinality(WaitersOf(c)) <= shared[c] /\ shared[c] \in Nat
  BY ShieldAssumption DEF SharedCounts, TypeOK
<1> QED
  BY <1>1, <1>2, <1>3, <1>4

LEMMA InitIInv == Init => IInv
<1> SUFFICES ASSUME Init PROVE IInv
  OBVIOUS
<1>1. TypeOK
  BY ShieldAssumption DEF Init, TypeOK, PCs, Leading, Results
<1>2. Ownership /\ NotStranded /\ SignalledHasResult /\ OriginServesLeader
  BY ShieldAssumption
  DEF Init, Ownership, NotStranded, SignalledHasResult, OriginServesLeader,
      Leads, Leading
<1>3. ResultSource /\ BlastRadius
  BY DEF Init, ResultSource, BlastRadius, Leading
<1>4. SharedCounts
  <2> SUFFICES ASSUME NEW c \in Requests PROVE Cardinality(WaitersOf(c)) <= shared[c]
    BY DEF SharedCounts
  <2>1. WaitersOf(c) = {}
    BY DEF Init, WaitersOf
  <2> QED
    BY <2>1, FS_EmptySet DEF Init
<1> QED
  BY <1>1, <1>2, <1>3, <1>4 DEF IInv

-----------------------------------------------------------------------------
LEMMA CancelIInv ==
  ASSUME IInv, NEW x \in Requests, Cancel(x)
  PROVE  IInv'
<1> USE DEF IInv, Cancel
<1>1. TypeOK'
  BY DEF TypeOK
<1>2. (Ownership /\ NotStranded /\ SignalledHasResult /\ OriginServesLeader)'
  BY DEF Ownership, NotStranded, SignalledHasResult, OriginServesLeader, Leads
<1>3. (ResultSource /\ BlastRadius)'
  BY DEF TypeOK, ResultSource, BlastRadius
<1>4. SharedCounts'
  BY NoNewWaiters DEF WaitersOf
<1> QED
  BY <1>1, <1>2, <1>3, <1>4

LEMMA RejectIInv ==
  ASSUME IInv, NEW x \in Requests, RejectWaiter(x)
  PROVE  IInv'
<1> USE DEF IInv, RejectWaiter, Return
<1>1. TypeOK'
  BY DEF TypeOK, PCs
<1>2. Ownership'
  BY DEF TypeOK, Ownership, Leads, Leading
<1>3. NotStranded'
  BY DEF TypeOK, NotStranded, Leading
<1>4. (SignalledHasResult /\ OriginServesLeader)'
  BY DEF TypeOK, SignalledHasResult, OriginServesLeader
<1>5. (ResultSource /\ BlastRadius)'
  BY DEF TypeOK, ResultSource, BlastRadius, Leading
<1>6. SharedCounts'
  BY NoNewWaiters DEF TypeOK, WaitersOf
<1> QED
  BY <1>1, <1>2, <1>3, <1>4, <1>5, <1>6

LEMMA JoinIInv ==
  ASSUME IInv, NEW x \in Requests, Join(x)
  PROVE  IInv'
<1> USE DEF IInv
<1> DEFINE k == inflight[path[x]]
<1>1. /\ k \in Requests /\ path[x] \in Paths
      /\ path[k] = path[x] /\ pc[k] \in Leading
      /\ k # x /\ pc[x] = "start"
      /\ shared[k] \in Nat /\ shared[k] < MaxWaitersPerKey
      /\ shared' = [shared EXCEPT ![k] = @ + 1]
      /\ joined' = [joined EXCEPT ![x] = k]
      /\ pc' = [pc EXCEPT ![x] = "waiting"]
      /\ UNCHANGED <<path, cancelled, inflight, result, origin, ret>>
  BY ShieldAssumption DEF Join, TypeOK, Ownership, Leads, Leading
<1> HIDE DEF k
<1>2. TypeOK'
  BY <1>1, ShieldAssumption DEF TypeOK, PCs
<1>3. Ownership'
  BY <1>1 DEF TypeOK, Ownership, Leads, Leading
<1>4. NotStranded'
  BY <1>1 DEF TypeOK, NotStranded, SignalledHasResult, Leading
<1>5. (SignalledHasResult /\ OriginServesLeader)'
  BY <1>1 DEF TypeOK, SignalledHasResult, OriginServesLeader
<1>6. (ResultSource /\ BlastRadius)'
  BY <1>1 DEF TypeOK, ResultSource, BlastRadius, Leading
<1>7. SharedCounts'
  <2> SUFFICES ASSUME NEW c \in Requests
               PROVE  Cardinality(WaitersOf(c)') <= shared'[c]
    BY DEF SharedCounts
  <2>1. IsFiniteSet(WaitersOf(c)) /\ Cardinality(WaitersOf(c)) \in Nat
    BY FiniteWaiters
  <2>2. Cardinality(WaitersOf(c)) <= shared[c]
    BY DEF SharedCounts
  <2>3. CASE c = k
    <3>1. WaitersOf(c)' = WaitersOf(c) \cup {x} /\ x \notin WaitersOf(c)
      BY <1>1, <2>3 DEF WaitersOf, TypeOK
    <3>2. Cardinality(WaitersOf(c)') = Cardinality(WaitersOf(c)) + 1
      BY <2>1, <3>1, FS_AddElement
    <3>3. shared'[c] = shared[c] + 1
      BY <1>1, <2>3 DEF TypeOK
    <3> QED
      BY <1>1, <2>1, <2>2, <2>3, <3>2, <3>3
  <2>4. CASE c # k
    <3>1. WaitersOf(c)' = WaitersOf(c)
      BY <1>1, <2>4 DEF WaitersOf, TypeOK
    <3>2. shared'[c] = shared[c]
      BY <1>1, <2>4 DEF TypeOK
    <3> QED
      BY <2>2, <3>1, <3>2
  <2> QED
    BY <2>3, <2>4
<1> QED
  BY <1>2, <1>3, <1>4, <1>5, <1>6, <1>7

LEMMA RegisterIInv ==
  ASSUME IInv, NEW x \in Requests, Register(x)
  PROVE  IInv'
<1> USE DEF IInv, Register
<1>1. TypeOK'
  BY DEF TypeOK, PCs, Leading
<1>2. Ownership'
  BY ShieldAssumption DEF TypeOK, Ownership, Leads, Leading
<1>3. NotStranded'
  BY DEF TypeOK, NotStranded, Leading
<1>4. (SignalledHasResult /\ OriginServesLeader)'
  BY DEF TypeOK, SignalledHasResult, OriginServesLeader
<1>5. (ResultSource /\ BlastRadius)'
  BY DEF TypeOK, ResultSource, BlastRadius, Leading
<1>6. SharedCounts'
  BY NoNewWaiters DEF TypeOK, WaitersOf
<1> QED
  BY <1>1, <1>2, <1>3, <1>4, <1>5, <1>6

LEMMA StartFetchIInv ==
  ASSUME IInv, NEW x \in Requests, StartFetch(x)
  PROVE  IInv'
<1> USE DEF IInv, StartFetch
<1>1. TypeOK'
  BY DEF TypeOK, PCs, Leading
<1>2. Ownership'
  BY DEF TypeOK, Ownership, Leads, Leading
<1>3. NotStranded'
  BY DEF TypeOK, NotStranded, Leading
<1>4. (SignalledHasResult /\ OriginServesLeader)'
  BY DEF TypeOK, SignalledHasResult, OriginServesLeader
<1>5. (ResultSource /\ BlastRadius)'
  BY DEF TypeOK, NotStranded, OriginServesLeader, ResultSource, BlastRadius, Leading
<1>6. SharedCounts'
  BY NoNewWaiters DEF TypeOK, WaitersOf
<1> QED
  BY <1>1, <1>2, <1>3, <1>4, <1>5, <1>6

LEMMA OriginRepliesIInv ==
  ASSUME IInv, NEW x \in Requests, OriginReplies(x)
  PROVE  IInv'
<1> USE DEF IInv, OriginReplies
<1>1. TypeOK'
  BY DEF TypeOK
<1>2. Ownership'
  BY DEF TypeOK, Ownership, Leads, Leading
<1>3. NotStranded'
  BY DEF TypeOK, NotStranded
<1>4. (SignalledHasResult /\ OriginServesLeader)'
  BY DEF TypeOK, SignalledHasResult, OriginServesLeader
<1>5. (ResultSource /\ BlastRadius)'
  BY DEF TypeOK, NotStranded, OriginServesLeader, ResultSource, BlastRadius, Leading
<1>6. SharedCounts'
  BY NoNewWaiters DEF TypeOK, WaitersOf
<1> QED
  BY <1>1, <1>2, <1>3, <1>4, <1>5, <1>6

LEMMA SignalIInv ==
  ASSUME IInv, NEW x \in Requests, NEW value \in Results \ {"none"}, Signal(x, value)
  PROVE  IInv'
<1> USE DEF IInv, Signal, Delivers
<1>1. TypeOK'
  BY DEF TypeOK, PCs, Leading
<1>2. Ownership'
  BY DEF TypeOK, Ownership, Leads, Leading
<1>3. NotStranded'
  BY DEF TypeOK, NotStranded, Leading
<1>4. (SignalledHasResult /\ OriginServesLeader)'
  BY DEF TypeOK, SignalledHasResult, OriginServesLeader, Results, Failures
<1>5. (ResultSource /\ BlastRadius)'
  BY DEF TypeOK, NotStranded, OriginServesLeader, ResultSource, BlastRadius, Leading, Results, Failures
<1>6. SharedCounts'
  BY NoNewWaiters DEF TypeOK, WaitersOf
<1> QED
  BY <1>1, <1>2, <1>3, <1>4, <1>5, <1>6

LEMMA UnregisterIInv ==
  ASSUME IInv, NEW x \in Requests, Unregister(x)
  PROVE  IInv'
<1> USE DEF IInv, Unregister, Return
<1>1. TypeOK'
  BY DEF TypeOK, PCs, Leading
<1>2. Ownership'
  BY ShieldAssumption DEF TypeOK, Ownership, Leads, Leading
<1>3. NotStranded'
  BY DEF TypeOK, NotStranded, SignalledHasResult, Leading
<1>4. (SignalledHasResult /\ OriginServesLeader)'
  BY DEF TypeOK, SignalledHasResult, OriginServesLeader
<1>5. (ResultSource /\ BlastRadius)'
  BY DEF TypeOK, NotStranded, OriginServesLeader, ResultSource, BlastRadius, Leading
<1>6. SharedCounts'
  BY NoNewWaiters DEF TypeOK, WaitersOf
<1> QED
  BY <1>1, <1>2, <1>3, <1>4, <1>5, <1>6

LEMMA WokenIInv ==
  ASSUME IInv, NEW x \in Requests, Woken(x)
  PROVE  IInv'
<1> USE DEF IInv, Woken, Return
<1>1. TypeOK'
  BY DEF TypeOK, NotStranded, PCs, Leading
<1>2. Ownership'
  BY DEF TypeOK, Ownership, Leads, Leading
<1>3. NotStranded'
  BY DEF TypeOK, NotStranded, Leading
<1>4. (SignalledHasResult /\ OriginServesLeader)'
  BY DEF TypeOK, SignalledHasResult, OriginServesLeader
<1>5. (ResultSource /\ BlastRadius)'
  BY DEF TypeOK, NotStranded, OriginServesLeader, ResultSource, BlastRadius, Leading
<1>6. SharedCounts'
  BY NoNewWaiters DEF TypeOK, WaitersOf
<1> QED
  BY <1>1, <1>2, <1>3, <1>4, <1>5, <1>6

LEMMA GiveUpIInv ==
  ASSUME IInv, NEW x \in Requests, GiveUp(x)
  PROVE  IInv'
<1> USE DEF IInv, GiveUp, Return
<1>1. TypeOK'
  BY DEF TypeOK, PCs, Results
<1>2. Ownership'
  BY DEF TypeOK, Ownership, Leads, Leading
<1>3. NotStranded'
  BY DEF TypeOK, NotStranded, Leading
<1>4. (SignalledHasResult /\ OriginServesLeader)'
  BY DEF TypeOK, SignalledHasResult, OriginServesLeader
<1>5. (ResultSource /\ BlastRadius)'
  BY DEF TypeOK, NotStranded, OriginServesLeader, ResultSource, BlastRadius, Leading
<1>6. SharedCounts'
  BY NoNewWaiters DEF TypeOK, WaitersOf
<1> QED
  BY <1>1, <1>2, <1>3, <1>4, <1>5, <1>6

LEMMA NextIInv == IInv /\ [Next \/ Terminated]_vars => IInv'
<1> SUFFICES ASSUME IInv, [Next \/ Terminated]_vars PROVE IInv'
  OBVIOUS
<1>1. CASE Next
  <2>1. PICK x \in Requests : Step(x) \/ OriginReplies(x) \/ Cancel(x)
    BY <1>1 DEF Next
  <2>2. CASE OriginReplies(x) \/ Cancel(x)
    BY <2>2, OriginRepliesIInv, CancelIInv
  <2>3. CASE RejectWaiter(x) \/ Join(x) \/ Register(x)
    BY <2>3, RejectIInv, JoinIInv, RegisterIInv
  <2>4. CASE LeaderStep(x)
    BY <2>4, StartFetchIInv, SignalIInv, UnregisterIInv
    DEF LeaderStep
  <2>5. CASE Woken(x) \/ GiveUp(x)
    BY <2>5, WokenIInv, GiveUpIInv
  <2> QED
    BY <2>1, <2>2, <2>3, <2>4, <2>5 DEF Step
<1>2. CASE UNCHANGED vars
  BY <1>2
  DEF vars, IInv, TypeOK, Ownership, NotStranded, SignalledHasResult,
      OriginServesLeader, ResultSource, BlastRadius, SharedCounts, WaitersOf, Leads
<1> QED
  BY <1>1, <1>2 DEF Terminated

LEMMA ShieldIInv == Spec => []IInv
BY InitIInv, NextIInv, PTL DEF Spec

-----------------------------------------------------------------------------
(* The state of the shield keeps its type; in particular call.shared never *)
(* exceeds MaxWaitersPerKey (shield.go:119).                               *)
THEOREM ShieldTypes == Spec => []TypeOK
BY ShieldIInv, PTL DEF IInv

(* The leader of a path owns its entry of inflight until it deletes it     *)
(* itself (shield.go:144, 181).                                            *)
THEOREM ShieldOwnership == Spec => []Ownership
BY ShieldIInv, PTL DEF IInv

(* Every parked request waits on a call for its own path that has been, or *)
(* will be, signalled by an active leader (shield.go:128, 178).            *)
THEOREM ShieldNotStranded == Spec => []NotStranded
BY ShieldIInv, PTL DEF IInv

(* No more than MaxWaitersPerKey requests are parked on one call           *)
(* (shield.go:119), although call.shared is never decremented.             *)
THEOREM ShieldWaiterBound == Spec => []WaiterBound
<1>1. IInv => WaiterBound
  <2> SUFFICES ASSUME IInv, NEW c \in Requests
               PROVE  Cardinality(WaitersOf(c)) <= MaxWaitersPerKey
    BY DEF WaiterBound
  <2>1. Cardinality(WaitersOf(c)) \in Nat
    BY FiniteWaiters
  <2>2. Cardinality(WaitersOf(c)) <= shared[c] /\ shared[c] \in 0 .. MaxWaitersPerKey
    BY DEF IInv, SharedCounts, TypeOK
  <2> QED
    BY <2>1, <2>2, ShieldAssumption
<1> QED
  BY <1>1, ShieldIInv, PTL

(* Two origin fetches of one path overlap only after a leader gave up      *)
(* (shield.go:173).                                                        *)
THEOREM ShieldDuplicates == Spec => []DuplicateOnlyAfterAbort
<1>1. IInv => DuplicateOnlyAfterAbort
  <2> SUFFICES ASSUME IInv, NEW r \in Requests, NEW s \in Requests,
                      r # s, path[r] = path[s],
                      origin[r] = "running", origin[s] = "running",
                      result[r] \notin Failures, result[s] \notin Failures
               PROVE  FALSE
    BY DEF DuplicateOnlyAfterAbort, Failures
  <2>1. pc[r] = "fetching" /\ pc[s] = "fetching" /\ path[r] \in Paths
    BY DEF IInv, OriginServesLeader, TypeOK
  <2>2. inflight[path[r]] = r /\ inflight[path[r]] = s
    BY <2>1 DEF IInv, Ownership, Leads, Leading
  <2> QED
    BY <2>2
<1> QED
  BY <1>1, ShieldIInv, PTL

(* A client's cancellation reaches another request only if the client led  *)
(* the call, and a response always comes from a completed origin fetch of  *)
(* the requested path (shield.go:133, 171-174).                            *)
THEOREM ShieldBlastRadius == Spec => []BlastRadius
BY ShieldIInv, PTL DEF IInv
=============================================================================
