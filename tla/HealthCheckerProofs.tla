------------------------- MODULE HealthCheckerProofs -------------------------
(***************************************************************************)
(* Proofs about HealthChecker, for any nodes and thresholds: the           *)
(* bookkeeping of checkNode is type correct, a node that never failed to   *)
(* answer is never marked down (FailThreshold >= 3), and Stop is final.    *)
(*                                                                         *)
(* LiveStaysUp is not inductive: a verdict says nothing of the failures on *)
(* the way to it.  The strengthening is a budget of false failures.  Only  *)
(* two things fail a check of a node that answers: the check began before  *)
(* the node was registered, which can happen to one check per              *)
(* registration, or Stop cancelled the probe, which can happen to one      *)
(* check in all because no probe starts once the context is cancelled.     *)
(*                                                                         *)
(* Hysteresis needs to know what the counters stand for: each is the       *)
(* length of the run of equal outcomes that ends the node's history, up to *)
(* its threshold.                                                          *)
(***************************************************************************)
EXTENDS HealthChecker, SequenceTheorems, TLAPS

(* 1 once the check that Stop interrupts can no longer be applied.         *)
StopSpent == IF cancelled /\ ~Checking THEN 1 ELSE 0

(* 0 while a check of n begun before its registration is in flight.        *)
StaleSpent(n) == IF Checking /\ address = n /\ stale THEN 0 ELSE 1

(* A failed outcome about to be applied to a node that always answered is  *)
(* a stale one or a cancelled one.                                         *)
OutcomeExcused ==
  loop = "probed" /\ ~healthy /\ address \in Registered \ faulty
    => stale \/ cancelled

FailureBudget ==
  \A n \in Registered \ faulty :
    /\ n \in alive
    /\ nodes[n].failCount <= StopSpent + StaleSpent(n)
    /\ FailThreshold >= 3 => nodes[n].isHealthy

(* Stop returns when the loop has ended, or was never started; only Stop   *)
(* cancels the context.                                                    *)
Halted ==
  /\ stop = "returned" => loop \in {"off", "done"}
  /\ stop = "no" => cancelled = FALSE

IInv == TypeOK /\ OutcomeExcused /\ FailureBudget /\ Halted

LEMMA InitEstablishes == Init => IInv
<1> SUFFICES ASSUME Init PROVE IInv
  OBVIOUS
<1>1. Registered = {} /\ ~Checking
  BY DEF Init, Registered, Checking
<1>2. nodes \in [Nodes -> {None} \cup [isHealthy : BOOLEAN, failCount : Nat,
                                        successCount : Nat]]
  BY DEF Init
<1>3. << >> \in Seq(BOOLEAN)
  OBVIOUS
<1>4. recent \in [Nodes -> Seq(BOOLEAN)]
  BY <1>3 DEF Init
<1>5. TypeOK
  BY <1>1, <1>2, <1>4 DEF Init, TypeOK
<1> QED
  BY <1>1, <1>5 DEF Init, IInv, OutcomeExcused, FailureBudget, Halted

(* A record that obeys the rules of hysteresis.                            *)
LEMMA MakeNodeOK ==
  ASSUME NEW up \in BOOLEAN,
         NEW failures \in 0 .. FailThreshold, NEW successes \in 0 .. SuccessThreshold,
         failures = 0 \/ successes = 0,
         up = TRUE => failures < FailThreshold,
         up = FALSE => successes < SuccessThreshold
  PROVE  NodeOK([isHealthy |-> up, failCount |-> failures, successCount |-> successes])
<1>1. CASE up = TRUE
  BY <1>1 DEF NodeOK
<1>2. CASE up = FALSE
  BY <1>2 DEF NodeOK
<1> QED
  BY <1>1, <1>2

(* checkNode after a good probe (health.go:317-336).                       *)
LEMMA PassOK ==
  ASSUME NEW node, NodeOK(node)
  PROVE  /\ NodeOK(pass(node))
         /\ pass(node).failCount = 0
         /\ node.isHealthy = TRUE => pass(node).isHealthy = TRUE
<1> DEFINE successes == Bump(node.successCount, SuccessThreshold)
           up == node.isHealthy \/ successes >= SuccessThreshold
<1>1. successes \in 0 .. SuccessThreshold
  BY ThresholdAssumption DEF NodeOK, Bump
<1>2. /\ up \in BOOLEAN
      /\ up = FALSE => successes < SuccessThreshold
      /\ node.isHealthy = TRUE => up = TRUE
  BY <1>1, ThresholdAssumption DEF NodeOK
<1>3. pass(node) = [isHealthy |-> up, failCount |-> 0, successCount |-> successes]
  BY DEF pass
<1> HIDE DEF successes, up
<1>z. 0 \in 0 .. FailThreshold /\ 0 < FailThreshold
  BY ThresholdAssumption
<1>4. NodeOK([isHealthy |-> up, failCount |-> 0, successCount |-> successes])
  BY <1>1, <1>2, <1>z, MakeNodeOK, Zenon
<1>5. NodeOK(pass(node))
  BY <1>3, <1>4
<1>6. pass(node).failCount = 0 /\ pass(node).isHealthy = up
  BY <1>3
<1> QED
  BY <1>2, <1>5, <1>6

(* checkNode after a failed probe (health.go:337-356).                     *)
LEMMA FailOK ==
  ASSUME NEW node, NodeOK(node)
  PROVE  /\ NodeOK(fail(node))
         /\ fail(node).failCount <= node.failCount + 1
         /\ node.isHealthy = TRUE /\ node.failCount + 1 < FailThreshold
              => fail(node).isHealthy = TRUE
<1> DEFINE failures == Bump(node.failCount, FailThreshold)
           up == node.isHealthy /\ failures < FailThreshold
<1>1. /\ failures \in 0 .. FailThreshold
      /\ failures <= node.failCount + 1
      /\ node.failCount + 1 < FailThreshold => failures < FailThreshold
  BY ThresholdAssumption DEF NodeOK, Bump
<1>2. /\ up \in BOOLEAN
      /\ up = TRUE => failures < FailThreshold
      /\ node.isHealthy = TRUE /\ failures < FailThreshold => up = TRUE
  BY <1>1, ThresholdAssumption DEF NodeOK
<1>3. fail(node) = [isHealthy |-> up, failCount |-> failures, successCount |-> 0]
  BY DEF fail
<1> HIDE DEF failures, up
<1>z. 0 \in 0 .. SuccessThreshold /\ 0 < SuccessThreshold
  BY ThresholdAssumption
<1>4. NodeOK([isHealthy |-> up, failCount |-> failures, successCount |-> 0])
  BY <1>1, <1>2, <1>z, MakeNodeOK, Zenon
<1>5. NodeOK(fail(node))
  BY <1>3, <1>4
<1>6. fail(node).failCount = failures /\ fail(node).isHealthy = up
  BY <1>3
<1> QED
  BY <1>1, <1>2, <1>5, <1>6

LEMMA NextPreserves == IInv /\ [Next]_vars => IInv'
<1> SUFFICES ASSUME IInv, [Next]_vars PROVE IInv'
  OBVIOUS
<1> USE DEF IInv
<1>1. ASSUME NEW n \in Nodes, RegisterNode(n) PROVE IInv'
  <2> DEFINE new == [isHealthy |-> TRUE, failCount |-> 0, successCount |-> 0]
  <2>1. NodeOK(new)
    BY ThresholdAssumption DEF NodeOK
  <2>2. new \in [isHealthy : BOOLEAN, failCount : Nat, successCount : Nat]
    OBVIOUS
  <2>3. new.isHealthy = TRUE /\ new.failCount = 0
    OBVIOUS
  <2>4. /\ nodes' = [nodes EXCEPT ![n] = new]
        /\ UNCHANGED <<alive, loop, addresses, address, healthy, cancelled, stop>>
    BY <1>1 DEF RegisterNode, loopVars
  <2>5. faulty' \subseteq Nodes /\ recent' \in [Nodes -> Seq(BOOLEAN)]
    BY <1>1 DEF RegisterNode, TypeOK
  <2>6. /\ n \notin faulty' => n \in alive
        /\ \A m \in Nodes \ {n} : m \in faulty' <=> m \in faulty
    BY <1>1 DEF RegisterNode
  <2>7. /\ stale' \in BOOLEAN
        /\ stale => stale'
        /\ Checking /\ address = n => stale'
        /\ stale' => stale \/ address = n
    BY <1>1 DEF RegisterNode, TypeOK
  <2> HIDE DEF new
  <2>8. nodes'[n] = new /\ \A m \in Nodes \ {n} : nodes'[m] = nodes[m]
    BY <2>4 DEF TypeOK
  <2>9. TypeOK'
    BY <2>1, <2>2, <2>4, <2>5, <2>7, <2>8 DEF TypeOK, Registered, Checking
  <2>10. FailureBudget'
    BY <2>3, <2>4, <2>6, <2>7, <2>8
    DEF FailureBudget, Registered, StopSpent, StaleSpent, Checking
  <2>11. OutcomeExcused'
    BY <2>4, <2>6, <2>7, <2>8 DEF OutcomeExcused, Registered, Checking, TypeOK
  <2>12. Halted'
    BY <2>4 DEF Halted
  <2> QED
    BY <2>9, <2>10, <2>11, <2>12
<1>2. ASSUME NEW n \in Nodes, UnregisterNode(n) PROVE IInv'
  BY <1>2
  DEF UnregisterNode, TypeOK, NodeOK, Registered, Checking, OutcomeExcused,
      FailureBudget, Halted, StopSpent, StaleSpent, loopVars
<1>3. CASE Start \/ Tick \/ LoopExits \/ SweepEnds
  BY <1>3
  DEF Start, Tick, LoopExits, SweepEnds, TypeOK, Registered, Checking,
      OutcomeExcused, FailureBudget, Halted, StopSpent, StaleSpent
<1>4. ASSUME NEW n \in Nodes, ProbeStart(n) PROVE IInv'
  BY <1>4
  DEF ProbeStart, TypeOK, Registered, Checking, OutcomeExcused, FailureBudget,
      Halted, StopSpent, StaleSpent
<1>5. ASSUME NEW ok \in BOOLEAN, ProbeReturns(ok) PROVE IInv'
  BY <1>5
  DEF ProbeReturns, TypeOK, Registered, Checking, OutcomeExcused, FailureBudget,
      Halted, StopSpent, StaleSpent
<1>6. CASE Apply
  <2> DEFINE n == address
             old == nodes[n]
             after == IF healthy THEN pass(old) ELSE fail(old)
  <2>1. /\ n \in Nodes
        /\ n \in Registered
        /\ NodeOK(old)
        /\ Checking
    BY <1>6 DEF Apply, TypeOK, Registered, Checking
  <2>2. /\ nodes' = [nodes EXCEPT ![n] = after]
        /\ ~Checking'
        /\ loop = "probed" /\ loop' = "sweeping"
        /\ UNCHANGED <<alive, addresses, address, healthy, cancelled, stop, faulty, stale>>
    BY <1>6 DEF Apply, Checking
  <2>3. NodeOK(pass(old)) /\ NodeOK(fail(old))
    BY <2>1, PassOK, FailOK
  <2>4. NodeOK(after)
    BY <2>3
  <2>5. n \notin faulty =>
          /\ after.failCount <= StopSpent' + StaleSpent(n)'
          /\ FailThreshold >= 3 => after.isHealthy = TRUE
    <3> SUFFICES ASSUME n \notin faulty
                 PROVE  /\ after.failCount <= StopSpent' + StaleSpent(n)'
                        /\ FailThreshold >= 3 => after.isHealthy = TRUE
      OBVIOUS
    <3>1. /\ old.failCount \in Nat
          /\ old.failCount <= StaleSpent(n)
          /\ FailThreshold >= 3 => old.isHealthy = TRUE
          /\ StaleSpent(n) \in {0, 1}
      BY <2>1 DEF FailureBudget, StopSpent, StaleSpent, NodeOK, TypeOK
    <3>2. /\ StaleSpent(n)' = 1
          /\ StopSpent' = IF cancelled THEN 1 ELSE 0
      BY <2>2 DEF StopSpent, StaleSpent
    <3>3. CASE healthy
      <4>1. after = pass(old)
        BY <3>3
      <4>2. pass(old).failCount = 0 /\ (old.isHealthy = TRUE => pass(old).isHealthy = TRUE)
        BY <2>1, PassOK
      <4> QED
        BY <3>1, <3>2, <4>1, <4>2
    <3>4. CASE ~healthy
      <4>1. after = fail(old)
        BY <3>4
      <4>2. stale \/ cancelled
        BY <1>6, <2>1, <3>4 DEF Apply, OutcomeExcused
      <4>3. stale => StaleSpent(n) = 0
        BY <2>1 DEF StaleSpent
      <4>4. /\ fail(old).failCount <= old.failCount + 1
            /\ old.isHealthy = TRUE /\ old.failCount + 1 < FailThreshold
                 => fail(old).isHealthy = TRUE
        BY <2>1, FailOK
      <4>5. fail(old).failCount \in Nat
        BY <2>3 DEF NodeOK
      <4>6. old.failCount + 1 <= StopSpent' + StaleSpent(n)'
        BY <3>1, <3>2, <4>2, <4>3
      <4>7. StopSpent' + StaleSpent(n)' \in 0 .. 2
        BY <3>2
      <4> QED
        BY <3>1, <4>1, <4>4, <4>5, <4>6, <4>7, ThresholdAssumption
    <3> QED
      BY <3>3, <3>4
  <2> HIDE DEF after
  <2>6. after \in [isHealthy : BOOLEAN, failCount : Nat, successCount : Nat]
    BY <2>4 DEF NodeOK
  <2>7. nodes'[n] = after /\ \A m \in Nodes \ {n} : nodes'[m] = nodes[m]
    BY <2>1, <2>2 DEF TypeOK
  <2>8. recent' \in [Nodes -> Seq(BOOLEAN)]
    <3> DEFINE kept == IF Len(recent[n]) < Window THEN recent[n] ELSE Tail(recent[n])
    <3>1. recent[n] \in Seq(BOOLEAN) /\ Window \in Nat \ {0}
      BY <2>1, ThresholdAssumption DEF TypeOK, Window
    <3>2. Len(recent[n]) >= Window => Tail(recent[n]) \in Seq(BOOLEAN)
      <4>1. Len(recent[n]) >= Window => recent[n] # << >>
        BY <3>1
      <4> QED
        BY <3>1, <4>1, HeadTailProperties
    <3>3. kept \in Seq(BOOLEAN)
      <4>1. Len(recent[n]) \in Nat
        BY <3>1
      <4> QED
        BY <3>1, <3>2, <4>1
    <3>4. recent' = [recent EXCEPT ![n] = Append(kept, healthy)]
      BY <1>6 DEF Apply, Record
    <3> HIDE DEF kept
    <3>5. Append(kept, healthy) \in Seq(BOOLEAN)
      BY <3>3 DEF TypeOK
    <3> QED
      BY <3>4, <3>5 DEF TypeOK
  <2>9. TypeOK'
    BY <2>1, <2>2, <2>4, <2>6, <2>7, <2>8 DEF TypeOK, Registered
  <2>10. FailureBudget'
    <3> SUFFICES ASSUME NEW m \in Nodes, m \in (Registered \ faulty)'
                 PROVE  /\ m \in alive'
                        /\ nodes'[m].failCount <= StopSpent' + StaleSpent(m)'
                        /\ FailThreshold >= 3 => nodes'[m].isHealthy
      BY DEF FailureBudget, Registered
    <3>1. CASE m = n
      BY <2>1, <2>2, <2>5, <2>7, <3>1 DEF FailureBudget
    <3>2. CASE m # n
      BY <2>1, <2>2, <2>7, <3>2
      DEF FailureBudget, Registered, StopSpent, StaleSpent, TypeOK, NodeOK
    <3> QED
      BY <3>1, <3>2
  <2> QED
    BY <2>2, <2>9, <2>10 DEF OutcomeExcused, Halted
<1>7. CASE Drop
  BY <1>7
  DEF Drop, TypeOK, Registered, Checking, OutcomeExcused, FailureBudget,
      Halted, StopSpent, StaleSpent
<1>8. CASE StopCall \/ StopReturns
  <2>1. /\ UNCHANGED <<nodes, alive, loop, addresses, address, healthy, recent, faulty, stale>>
        /\ cancelled' \in BOOLEAN
        /\ cancelled => cancelled'
        /\ stop' \in {"waiting", "returned"}
        /\ stop' = "returned" => loop \in {"off", "done"}
    BY <1>8 DEF StopCall, StopReturns, loopVars, Halted, TypeOK
  <2>2. TypeOK'
    BY <2>1 DEF TypeOK, Registered, Checking
  <2>3. FailureBudget'
    BY <2>1 DEF FailureBudget, Registered, Checking, StopSpent, StaleSpent, TypeOK, NodeOK
  <2> QED
    BY <2>1, <2>2, <2>3 DEF OutcomeExcused, Registered, Halted
<1>9. ASSUME NEW n \in Nodes, Dies(n) \/ Revives(n) PROVE IInv'
  BY <1>9
  DEF Dies, Revives, TypeOK, Registered, Checking, OutcomeExcused,
      FailureBudget, Halted, StopSpent, StaleSpent, loopVars
<1>10. CASE UNCHANGED vars
  BY <1>10
  DEF vars, TypeOK, Registered, Checking, OutcomeExcused, FailureBudget,
      Halted, StopSpent, StaleSpent
<1> QED
  BY <1>1, <1>2, <1>3, <1>4, <1>5, <1>6, <1>7, <1>8, <1>9, <1>10
  DEF Next, LoopStep

(* IInv is an inductive invariant of the checker.                          *)
THEOREM CheckerInvariant == Spec => []IInv
<1> QED
  BY InitEstablishes, NextPreserves, PTL DEF Spec

(* The state checkNode keeps per node obeys hysteresis: one open run at a  *)
(* time, each short of the threshold that would have changed the verdict.  *)
THEOREM CheckerTypes == Spec => []TypeOK
<1>1. IInv => TypeOK
  BY DEF IInv
<1> QED
  BY <1>1, CheckerInvariant, PTL

(* A node that answered at every moment since its registration is never    *)
(* marked down, however registrations, sweeps and Stop interleave.         *)
THEOREM CheckerLiveStaysUp == Spec => []LiveStaysUp
<1>1. IInv => LiveStaysUp
  BY DEF IInv, FailureBudget, LiveStaysUp, IsHealthy, Registered
<1> QED
  BY <1>1, CheckerInvariant, PTL

(* Once Stop has returned, no late check changes a node's state.           *)
THEOREM CheckerQuietAfterStop == Spec => QuietAfterStop
<1> DEFINE Quiet == stop = "returned" =>
             \A n \in Registered : nodes'[n] \in {nodes[n], None}
<1>1. IInv /\ [Next]_vars => [Quiet]_vars
  <2> SUFFICES ASSUME IInv, Next, stop = "returned",
                      NEW m \in Nodes, m \in Registered
               PROVE  nodes'[m] \in {nodes[m], None}
    BY DEF Registered
  <2>1. loop \in {"off", "done"}
    BY DEF IInv, Halted
  <2>2. ASSUME NEW n \in Nodes, RegisterNode(n) \/ UnregisterNode(n)
        PROVE  nodes'[m] \in {nodes[m], None}
    BY <2>2 DEF RegisterNode, UnregisterNode, IInv, TypeOK, Registered
  <2>3. ASSUME NEW n \in Nodes, Dies(n) \/ Revives(n) \/ ProbeStart(n)
        PROVE  nodes' = nodes
    BY <2>3 DEF Dies, Revives, ProbeStart
  <2>4. CASE Start \/ Tick \/ LoopExits \/ SweepEnds \/ Drop \/ StopCall \/ StopReturns
    BY <2>4 DEF Start, Tick, LoopExits, SweepEnds, Drop, StopCall, StopReturns
  <2>5. ASSUME NEW ok \in BOOLEAN, ProbeReturns(ok) PROVE nodes' = nodes
    BY <2>5 DEF ProbeReturns
  <2>6. ~Apply
    BY <2>1 DEF Apply
  <2> QED
    BY <2>2, <2>3, <2>4, <2>5, <2>6 DEF Next, LoopStep
<1> QED
  BY <1>1, CheckerInvariant, PTL DEF Spec, QuietAfterStop

-----------------------------------------------------------------------------
(* Hysteresis compares the verdict with the outcomes themselves, which the *)
(* code does not keep: its counters stand for them.  The invariant says    *)
(* for what they stand: each counts the run of equal outcomes that ends    *)
(* the node's history, exactly until it reaches its threshold.             *)

(* outcomes ends in a run of ok of length count, or, once count has        *)
(* reached the threshold, of that length at least.                         *)
Run(outcomes, threshold, count, ok) ==
  /\ count <= Len(outcomes)
  /\ \A i \in Len(outcomes) - count + 1 .. Len(outcomes) : outcomes[i] = ok
  /\ count < threshold =>
       Len(outcomes) = count \/ outcomes[Len(outcomes) - count] # ok

CountersCount(node, outcomes) ==
  /\ Len(outcomes) <= Window
  /\ Run(outcomes, FailThreshold, node.failCount, FALSE)
  /\ Run(outcomes, SuccessThreshold, node.successCount, TRUE)

HistoryInv == \A n \in Registered : CountersCount(nodes[n], recent[n])

(* The history after one more outcome.                                     *)
Extended(outcomes, ok) ==
  Append(IF Len(outcomes) < Window THEN outcomes ELSE Tail(outcomes), ok)

LEMMA WindowCovers ==
  /\ Window \in Nat \ {0} /\ FailThreshold <= Window /\ SuccessThreshold <= Window
BY ThresholdAssumption DEF Window

(* One more outcome shifts the history by one place once it fills the      *)
(* window.                                                                 *)
LEMMA ExtendedFields ==
  ASSUME NEW s \in Seq(BOOLEAN), Len(s) <= Window, NEW ok \in BOOLEAN
  PROVE  \E d \in {0, 1} :
           /\ d = 1 => Len(s) = Window
           /\ Extended(s, ok) \in Seq(BOOLEAN)
           /\ Len(Extended(s, ok)) = Len(s) - d + 1
           /\ Len(s) - d + 1 <= Window
           /\ \A i \in 1 .. Len(s) - d : Extended(s, ok)[i] = s[i + d]
           /\ Extended(s, ok)[Len(s) - d + 1] = ok
<1>1. Len(s) \in Nat /\ Window \in Nat \ {0}
  BY WindowCovers
<1>2. CASE Len(s) < Window
  <2>1. Extended(s, ok) = Append(s, ok)
    BY <1>2 DEF Extended
  <2>2. /\ Append(s, ok) \in Seq(BOOLEAN)
        /\ Len(Append(s, ok)) = Len(s) - 0 + 1
        /\ \A i \in 1 .. Len(s) - 0 : Append(s, ok)[i] = s[i + 0]
        /\ Append(s, ok)[Len(s) - 0 + 1] = ok
    BY <1>1, AppendProperties
  <2> QED
    BY <1>1, <1>2, <2>1, <2>2
<1>3. CASE ~(Len(s) < Window)
  <2>1. Len(s) = Window /\ s # << >>
    BY <1>1, <1>3
  <2>2. /\ Tail(s) \in Seq(BOOLEAN) /\ Len(Tail(s)) = Len(s) - 1
        /\ \A i \in 1 .. Len(s) - 1 : Tail(s)[i] = s[i + 1]
    BY <2>1, HeadTailProperties
  <2>3. Extended(s, ok) = Append(Tail(s), ok)
    BY <1>3 DEF Extended
  <2>4. /\ Append(Tail(s), ok) \in Seq(BOOLEAN)
        /\ Len(Append(Tail(s), ok)) = Len(s) - 1 + 1
        /\ \A i \in 1 .. Len(s) - 1 : Append(Tail(s), ok)[i] = Tail(s)[i]
        /\ Append(Tail(s), ok)[Len(s) - 1 + 1] = ok
    BY <2>2, AppendProperties
  <2>5. \A i \in 1 .. Len(s) - 1 : Append(Tail(s), ok)[i] = s[i + 1]
    BY <2>2, <2>4
  <2> QED
    BY <1>1, <2>1, <2>3, <2>4, <2>5
<1> QED
  BY <1>2, <1>3

(* A further outcome of the same kind lengthens a run, up to the threshold *)
(* (health.go:317-320, 337-340).                                           *)
LEMMA RunGrows ==
  ASSUME NEW s \in Seq(BOOLEAN), Len(s) <= Window, NEW ok \in BOOLEAN,
         NEW t \in Nat \ {0}, t <= Window, NEW c \in 0 .. t, Run(s, t, c, ok)
  PROVE  Run(Extended(s, ok), t, Bump(c, t), ok)
<1> DEFINE e == Extended(s, ok)
           L == Len(s)
<1>1. PICK d \in {0, 1} :
        /\ d = 1 => L = Window
        /\ e \in Seq(BOOLEAN)
        /\ Len(e) = L - d + 1
        /\ \A i \in 1 .. L - d : e[i] = s[i + d]
        /\ e[L - d + 1] = ok
  BY ExtendedFields
<1>2. /\ L \in Nat /\ c <= L
      /\ \A i \in L - c + 1 .. L : s[i] = ok
      /\ c < t => L = c \/ s[L - c] # ok
  BY DEF Run
<1>3. d \in Nat /\ c \in Nat /\ c <= t /\ Window \in Nat
  BY WindowCovers
<1> HIDE DEF e, L
<1>4. CASE c < t
  <2>1. Bump(c, t) = c + 1
    BY <1>4 DEF Bump
  <2>2. c + d <= L
    BY <1>1, <1>2, <1>3, <1>4 DEF L
  <2>3. c + 1 <= Len(e)
    BY <1>1, <1>2, <1>3, <2>2
  <2>4. ASSUME NEW i \in Len(e) - (c + 1) + 1 .. Len(e) PROVE e[i] = ok
    <3>1. CASE i = L - d + 1
      BY <1>1, <3>1
    <3>2. CASE i # L - d + 1
      <4>1. i \in 1 .. L - d /\ i + d \in L - c + 1 .. L
        BY <1>1, <1>2, <1>3, <2>2, <3>2
      <4> QED
        BY <1>1, <1>2, <4>1
    <3> QED
      BY <3>1, <3>2
  <2>5. Len(e) = c + 1 \/ e[Len(e) - (c + 1)] # ok
    <3> SUFFICES ASSUME Len(e) # c + 1 PROVE e[Len(e) - (c + 1)] # ok
      OBVIOUS
    <3>1. Len(e) - (c + 1) = L - d - c /\ L - d - c \in 1 .. L - d /\ L - d - c + d = L - c
      BY <1>1, <1>2, <1>3, <2>2
    <3>2. L # c
      BY <1>2, <1>3, <3>1
    <3> QED
      BY <1>1, <1>2, <1>4, <3>1, <3>2
  <2> QED
    BY <2>1, <2>3, <2>4, <2>5 DEF Run, e
<1>5. CASE ~(c < t)
  <2>1. Bump(c, t) = c /\ c = t
    BY <1>3, <1>5 DEF Bump
  <2>2. c <= Len(e)
    BY <1>1, <1>2, <1>3, <2>1 DEF L
  <2>3. ASSUME NEW i \in Len(e) - c + 1 .. Len(e) PROVE e[i] = ok
    <3>1. CASE i = L - d + 1
      BY <1>1, <3>1
    <3>2. CASE i # L - d + 1
      <4>1. i \in 1 .. L - d /\ i + d \in L - c + 1 .. L
        BY <1>1, <1>2, <1>3, <2>2, <3>2
      <4> QED
        BY <1>1, <1>2, <4>1
    <3> QED
      BY <3>1, <3>2
  <2> QED
    BY <1>5, <2>1, <2>2, <2>3 DEF Run, e
<1> QED
  BY <1>4, <1>5

(* An outcome of the other kind ends a run (health.go:318, 338).           *)
LEMMA RunEnds ==
  ASSUME NEW s \in Seq(BOOLEAN), Len(s) <= Window, NEW ok \in BOOLEAN,
         NEW other \in BOOLEAN, ok # other, NEW t
  PROVE  Run(Extended(s, ok), t, 0, other)
<1> DEFINE e == Extended(s, ok)
<1>1. /\ e \in Seq(BOOLEAN) /\ Len(e) \in Nat /\ e[Len(e)] = ok
  BY ExtendedFields
<1> HIDE DEF e
<1>2. /\ 0 <= Len(e) /\ Len(e) - 0 = Len(e)
      /\ Len(e) - 0 + 1 .. Len(e) = {}
  BY <1>1
<1> QED
  BY <1>1, <1>2 DEF Run, e

(* A counter has reached its threshold iff the last outcomes say so.       *)
LEMMA RunDecides ==
  ASSUME NEW s \in Seq(BOOLEAN), NEW ok \in BOOLEAN,
         NEW t \in Nat \ {0}, NEW c \in 0 .. t, Run(s, t, c, ok)
  PROVE  LastAll(s, t, ok) <=> c = t
<1>1. Len(s) \in Nat /\ c \in Nat /\ c <= t
  OBVIOUS
<1>2. CASE c = t
  BY <1>2 DEF Run, LastAll
<1>3. CASE c # t
  <2>1. c < t
    BY <1>1, <1>3
  <2>2. ASSUME LastAll(s, t, ok) PROVE FALSE
    <3>1. Len(s) >= t /\ Len(s) - c \in Len(s) - t + 1 .. Len(s)
      BY <1>1, <2>1, <2>2 DEF LastAll
    <3> QED
      BY <1>1, <2>1, <2>2, <3>1 DEF Run, LastAll
  <2> QED
    BY <1>3, <2>2
<1> QED
  BY <1>2, <1>3

(* checkNode's bookkeeping keeps the counters true to the history.         *)
LEMMA PassCounts ==
  ASSUME NEW node, NodeOK(node), NEW s \in Seq(BOOLEAN), CountersCount(node, s)
  PROVE  CountersCount(pass(node), Extended(s, TRUE))
<1>1. /\ pass(node).failCount = 0
      /\ pass(node).successCount = Bump(node.successCount, SuccessThreshold)
  BY DEF pass
<1>2. Len(s) <= Window /\ Run(s, SuccessThreshold, node.successCount, TRUE)
  BY DEF CountersCount
<1>3. node.successCount \in 0 .. SuccessThreshold
  BY DEF NodeOK
<1>4. Run(Extended(s, TRUE), SuccessThreshold, pass(node).successCount, TRUE)
  BY <1>1, <1>2, <1>3, RunGrows, WindowCovers, ThresholdAssumption
<1>5. Run(Extended(s, TRUE), FailThreshold, pass(node).failCount, FALSE)
  BY <1>1, <1>2, RunEnds
<1>6. Len(Extended(s, TRUE)) <= Window
  BY <1>2, ExtendedFields
<1> QED
  BY <1>4, <1>5, <1>6 DEF CountersCount

LEMMA FailCounts ==
  ASSUME NEW node, NodeOK(node), NEW s \in Seq(BOOLEAN), CountersCount(node, s)
  PROVE  CountersCount(fail(node), Extended(s, FALSE))
<1>1. /\ fail(node).successCount = 0
      /\ fail(node).failCount = Bump(node.failCount, FailThreshold)
  BY DEF fail
<1>2. Len(s) <= Window /\ Run(s, FailThreshold, node.failCount, FALSE)
  BY DEF CountersCount
<1>3. node.failCount \in 0 .. FailThreshold
  BY DEF NodeOK
<1>4. Run(Extended(s, FALSE), FailThreshold, fail(node).failCount, FALSE)
  BY <1>1, <1>2, <1>3, RunGrows, WindowCovers, ThresholdAssumption
<1>5. Run(Extended(s, FALSE), SuccessThreshold, fail(node).successCount, TRUE)
  BY <1>1, <1>2, RunEnds
<1>6. Len(Extended(s, FALSE)) <= Window
  BY <1>2, ExtendedFields
<1> QED
  BY <1>4, <1>5, <1>6 DEF CountersCount

(* Only a registration and an applied outcome touch a registered node or   *)
(* its history.                                                            *)
LEMMA NodeStep ==
  ASSUME IInv, [Next]_vars, NEW n \in Nodes, nodes'[n] # None
  PROVE  \/ nodes[n] = None /\ recent'[n] = << >>
            /\ nodes'[n] = [isHealthy |-> TRUE, failCount |-> 0, successCount |-> 0]
         \/ nodes[n] # None /\ nodes'[n] = nodes[n] /\ recent'[n] = recent[n]
         \/ nodes[n] # None /\ healthy = TRUE /\ nodes'[n] = pass(nodes[n])
            /\ recent'[n] = Extended(recent[n], TRUE)
         \/ nodes[n] # None /\ healthy = FALSE /\ nodes'[n] = fail(nodes[n])
            /\ recent'[n] = Extended(recent[n], FALSE)
<1>0. /\ nodes = [m \in Nodes |-> nodes[m]] /\ recent = [m \in Nodes |-> recent[m]]
      /\ healthy \in BOOLEAN
  BY DEF IInv, TypeOK
<1>1. ASSUME NEW m \in Nodes, RegisterNode(m)
      PROVE  \/ nodes[n] = None /\ recent'[n] = << >>
                /\ nodes'[n] = [isHealthy |-> TRUE, failCount |-> 0, successCount |-> 0]
             \/ nodes[n] # None /\ nodes'[n] = nodes[n] /\ recent'[n] = recent[n]
  BY <1>0, <1>1 DEF RegisterNode
<1>2. ASSUME NEW m \in Nodes, UnregisterNode(m)
      PROVE  nodes[n] # None /\ nodes'[n] = nodes[n] /\ recent'[n] = recent[n]
  BY <1>0, <1>2 DEF UnregisterNode
<1>3. CASE Apply
  <2>1. CASE n = address
    <3>1. /\ nodes[n] # None
          /\ nodes'[n] = IF healthy THEN pass(nodes[n]) ELSE fail(nodes[n])
      BY <1>0, <1>3, <2>1 DEF Apply
    <3>2. recent'[n] = Extended(recent[n], healthy)
      BY <1>0, <1>3, <2>1 DEF Apply, Record, Extended
    <3>3. healthy = TRUE \/ healthy = FALSE
      BY <1>0
    <3> QED
      BY <3>1, <3>2, <3>3
  <2>2. CASE n # address
    BY <1>0, <1>3, <2>2 DEF Apply, Record
  <2> QED
    BY <2>1, <2>2
<1>4. CASE UNCHANGED <<nodes, recent>>
  BY <1>4
<1>5. ASSUME NEW m \in Nodes, Dies(m) \/ Revives(m) \/ ProbeStart(m)
      PROVE  UNCHANGED <<nodes, recent>>
  BY <1>5 DEF Dies, Revives, ProbeStart
<1>6. ASSUME NEW ok \in BOOLEAN, ProbeReturns(ok) PROVE UNCHANGED <<nodes, recent>>
  BY <1>6 DEF ProbeReturns
<1>7. CASE Start \/ Tick \/ LoopExits \/ SweepEnds \/ Drop \/ StopCall \/ StopReturns
  BY <1>7 DEF Start, Tick, LoopExits, SweepEnds, Drop, StopCall, StopReturns
<1>8. UNCHANGED vars => UNCHANGED <<nodes, recent>>
  BY DEF vars
<1> QED
  BY <1>1, <1>2, <1>3, <1>4, <1>5, <1>6, <1>7, <1>8 DEF Next, LoopStep

LEMMA NextHistory == IInv /\ HistoryInv /\ [Next]_vars => HistoryInv'
<1> SUFFICES ASSUME IInv, HistoryInv, [Next]_vars, NEW n \in Nodes, nodes'[n] # None
             PROVE  CountersCount(nodes'[n], recent'[n])
  BY DEF HistoryInv, Registered
<1>1. nodes[n] # None => /\ NodeOK(nodes[n]) /\ CountersCount(nodes[n], recent[n])
                         /\ recent[n] \in Seq(BOOLEAN)
  BY DEF IInv, TypeOK, HistoryInv, Registered
<1>2. CASE /\ recent'[n] = << >>
           /\ nodes'[n] = [isHealthy |-> TRUE, failCount |-> 0, successCount |-> 0]
  <2>1. nodes'[n].failCount = 0 /\ nodes'[n].successCount = 0
    BY <1>2
  <2>2. Run(<< >>, FailThreshold, 0, FALSE) /\ Run(<< >>, SuccessThreshold, 0, TRUE)
    BY DEF Run
  <2>3. Len(<< >>) <= Window
    BY WindowCovers
  <2> QED
    BY <1>2, <2>1, <2>2, <2>3 DEF CountersCount
<1> QED
  BY <1>1, <1>2, NodeStep, PassCounts, FailCounts

LEMMA CheckerHistory == Spec => []HistoryInv
<1>1. Init => HistoryInv
  BY DEF Init, HistoryInv, Registered
<1> QED
  BY <1>1, NextHistory, CheckerInvariant, PTL DEF Spec

(* The verdict is the one of the documented hysteresis, computed from the  *)
(* outcomes instead of the counters (health.go:317-356).                   *)
THEOREM CheckerHysteresis == Spec => Hysteresis
<1> DEFINE Verdict(n) ==
             nodes'[n].isHealthy <=>
               \/ LastAll(recent'[n], SuccessThreshold, TRUE)
               \/ /\ nodes[n] = None \/ IsHealthy(n)
                  /\ ~LastAll(recent'[n], FailThreshold, FALSE)
<1>1. ASSUME IInv, IInv', HistoryInv', [Next]_vars, NEW n \in Nodes, nodes'[n] # None
      PROVE  Verdict(n)
  <2> DEFINE new == nodes'[n]
             old == nodes[n]
  <2>1. NodeOK(new) /\ CountersCount(new, recent'[n]) /\ recent'[n] \in Seq(BOOLEAN)
    BY <1>1 DEF IInv, TypeOK, HistoryInv, Registered
  <2>2. /\ new.successCount \in 0 .. SuccessThreshold
        /\ new.failCount \in 0 .. FailThreshold
    BY <2>1 DEF NodeOK
  <2>3. /\ LastAll(recent'[n], SuccessThreshold, TRUE) <=> new.successCount = SuccessThreshold
        /\ LastAll(recent'[n], FailThreshold, FALSE) <=> new.failCount = FailThreshold
    BY <2>1, <2>2, RunDecides, ThresholdAssumption DEF CountersCount
  <2>4. old # None => NodeOK(old)
    BY <1>1 DEF IInv, TypeOK, Registered
  <2> HIDE DEF new, old
  <2> SUFFICES new.isHealthy <=>
                 \/ new.successCount = SuccessThreshold
                 \/ (old = None \/ old.isHealthy) /\ new.failCount # FailThreshold
    BY <2>3 DEF IsHealthy, new, old
  <2>5. CASE /\ old = None
             /\ new = [isHealthy |-> TRUE, failCount |-> 0, successCount |-> 0]
    BY <2>5, ThresholdAssumption
  <2>6. CASE old # None /\ new = old
    BY <2>4, <2>6, ThresholdAssumption DEF NodeOK
  <2>7. CASE old # None /\ new = pass(old)
    <3>1. /\ new.failCount = 0
          /\ new.isHealthy <=> old.isHealthy \/ new.successCount >= SuccessThreshold
      BY <2>7 DEF pass
    <3>2. new.failCount # FailThreshold
      BY <3>1, ThresholdAssumption
    <3>3. new.successCount >= SuccessThreshold <=> new.successCount = SuccessThreshold
      BY <2>2, ThresholdAssumption DEF new
    <3> QED
      BY <2>7, <3>1, <3>2, <3>3
  <2>8. CASE old # None /\ new = fail(old)
    <3>1. /\ new.successCount = 0
          /\ new.isHealthy <=> old.isHealthy /\ new.failCount < FailThreshold
      BY <2>8 DEF fail
    <3>2. new.successCount # SuccessThreshold
      BY <3>1, ThresholdAssumption
    <3>3. new.failCount < FailThreshold <=> new.failCount # FailThreshold
      BY <2>2, ThresholdAssumption DEF new
    <3> QED
      BY <2>8, <3>1, <3>2, <3>3
  <2> QED
    BY <1>1, <2>5, <2>6, <2>7, <2>8, NodeStep DEF new, old
<1>2. IInv /\ IInv' /\ HistoryInv' /\ [Next]_vars =>
        [\A n \in Nodes : nodes'[n] # None => Verdict(n)]_vars
  BY <1>1
<1> QED
  BY <1>2, CheckerInvariant, CheckerHistory, PTL DEF Spec, Hysteresis

==============================================================================
