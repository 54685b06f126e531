---------------------------- MODULE HealthChecker ----------------------------
(***************************************************************************)
(* The health checker of internal/health: one goroutine that sweeps over   *)
(* the registered edge nodes, probes each and turns the outcomes into an   *)
(* up/down verdict with hysteresis.                                        *)
(*                                                                         *)
(* A probe runs outside Checker.mu: between the snapshot of the addresses, *)
(* the probe and the critical section that applies its outcome, nodes are  *)
(* registered and unregistered, die and come back, and Stop cancels the    *)
(* context of the probe in flight.  Config.OnTransition is nil wherever    *)
(* the repository builds a Checker.  Latencies, totals and metrics are     *)
(* left out.                                                               *)
(***************************************************************************)
EXTENDS Integers, Sequences, FiniteSetsExt

CONSTANTS
  Nodes,              \* addresses
  FailThreshold,      \* Config.FailThreshold
  SuccessThreshold,   \* Config.SuccessThreshold
  None                \* not registered

\* New replaces every non-positive threshold by a positive default.
ASSUME ThresholdAssumption ==
  /\ FailThreshold \in Nat \ {0}
  /\ SuccessThreshold \in Nat \ {0}

VARIABLES
  nodes,       \* Checker.nodes: [isHealthy, failCount, successCount] or None
  alive,       \* nodes that answer /health with 200 within the timeout
  loop,        \* where the background goroutine is
  addresses,   \* checkAll: the addresses not probed yet
  address,     \* checkNode: the address being checked
  healthy,     \* checkNode: what the probe returned
  cancelled,   \* the context of Start is cancelled
  stop,        \* Stop: "no", "waiting" on done, "returned"
  recent,      \* history: last outcomes applied since the node's registration
  faulty,      \* history: nodes that failed to answer at some moment since
               \* their registration
  stale        \* history: address was registered during its check

vars == <<nodes, alive, loop, addresses, address, healthy, cancelled, stop,
          recent, faulty, stale>>
loopVars == <<loop, addresses, address, healthy>>

Registered == {n \in Nodes : nodes[n] # None}
Checking == loop \in {"probing", "probed"}

IsHealthy(n) == nodes[n] # None /\ nodes[n].isHealthy
HealthyNodes == {n \in Nodes : IsHealthy(n)}

Init ==
  /\ nodes = [n \in Nodes |-> None]
  /\ alive \in SUBSET Nodes
  /\ loop = "off"
  /\ addresses = {}
  /\ address = None
  /\ healthy = FALSE
  /\ cancelled = FALSE
  /\ stop = "no"
  /\ recent = [n \in Nodes |-> << >>]
  /\ faulty = {}
  /\ stale = FALSE

-----------------------------------------------------------------------------
(* A node starts optimistically up; registering it again changes nothing.  *)
RegisterNode(n) ==
  /\ nodes[n] = None
  /\ nodes' = [nodes EXCEPT ![n] =
                 [isHealthy |-> TRUE, failCount |-> 0, successCount |-> 0]]
  /\ recent' = [recent EXCEPT ![n] = << >>]
  /\ faulty' = IF n \in alive THEN faulty \ {n} ELSE faulty \cup {n}
  /\ stale' = (stale \/ (Checking /\ address = n))
  /\ UNCHANGED <<alive, loopVars, cancelled, stop>>

UnregisterNode(n) ==
  /\ nodes[n] # None
  /\ nodes' = [nodes EXCEPT ![n] = None]
  /\ UNCHANGED <<alive, loopVars, cancelled, stop, recent, faulty, stale>>

-----------------------------------------------------------------------------
(* Start launches the loop, which begins with a sweep.  Start itself does  *)
(* not ask whether the loop runs; the program calls it once, before Stop.  *)
Start ==
  /\ loop = "off"
  /\ stop = "no"
  /\ loop' = "sweeping"
  /\ addresses' = Registered
  /\ UNCHANGED <<nodes, alive, address, healthy, cancelled, stop, recent,
                 faulty, stale>>

(* The ticker fires: checkAll copies the addresses under the read lock.    *)
Tick ==
  /\ loop = "waiting"
  /\ loop' = "sweeping"
  /\ addresses' = Registered
  /\ UNCHANGED <<nodes, alive, address, healthy, cancelled, stop, recent,
                 faulty, stale>>

\* Mutant: the loop returns without closing done.
LoopExitsSilently ==
  /\ loop = "waiting"
  /\ cancelled
  /\ loop' = "off"
  /\ UNCHANGED <<nodes, alive, addresses, address, healthy, cancelled, stop,
                 recent, faulty, stale>>

(* The loop sees ctx.Done and closes done.                                 *)
LoopExits ==
  /\ loop = "waiting"
  /\ cancelled
  /\ loop' = "done"
  /\ UNCHANGED <<nodes, alive, addresses, address, healthy, cancelled, stop,
                 recent, faulty, stale>>

(* checkAll returns: every address is probed, or the context is cancelled. *)
SweepEnds ==
  /\ loop = "sweeping"
  /\ addresses = {} \/ cancelled
  /\ loop' = "waiting"
  /\ addresses' = {}
  /\ UNCHANGED <<nodes, alive, address, healthy, cancelled, stop, recent,
                 faulty, stale>>

\* Mutant: a sweep goes on after the context is cancelled.
ProbeStartAnyway(n) ==
  /\ loop = "sweeping"
  /\ n \in addresses
  /\ loop' = "probing"
  /\ addresses' = addresses \ {n}
  /\ address' = n
  /\ stale' = FALSE
  /\ UNCHANGED <<nodes, alive, healthy, cancelled, stop, recent, faulty>>

(* checkAll goes on to another address, in the order of a map's keys.      *)
ProbeStart(n) ==
  /\ loop = "sweeping"
  /\ n \in addresses
  /\ ~cancelled
  /\ loop' = "probing"
  /\ addresses' = addresses \ {n}
  /\ address' = n
  /\ stale' = FALSE
  /\ UNCHANGED <<nodes, alive, healthy, cancelled, stop, recent, faulty>>

(* probe: a 200 from a node that answers; a cancelled context fails too.   *)
ProbeReturns(ok) ==
  /\ loop = "probing"
  /\ IF ok THEN address \in alive ELSE address \notin alive \/ cancelled
  /\ loop' = "probed"
  /\ healthy' = ok
  /\ UNCHANGED <<nodes, alive, addresses, address, cancelled, stop, recent,
                 faulty, stale>>

-----------------------------------------------------------------------------
(* checkNode's bookkeeping.  The counters only matter up to the threshold  *)
(* they are compared with, so they saturate there.                         *)
Bump(count, threshold) == IF count < threshold THEN count + 1 ELSE count

\* Mutant: a success does not end a run of failures.
passKeepsFailures(node) ==
  LET successes == Bump(node.successCount, SuccessThreshold) IN
  [isHealthy |-> node.isHealthy \/ successes >= SuccessThreshold,
   failCount |-> node.failCount,
   successCount |-> successes]

pass(node) ==
  LET successes == Bump(node.successCount, SuccessThreshold) IN
  [isHealthy |-> node.isHealthy \/ successes >= SuccessThreshold,
   failCount |-> 0,
   successCount |-> successes]

\* Mutant: a failure does not end a run of successes.
failKeepsSuccesses(node) ==
  LET failures == Bump(node.failCount, FailThreshold) IN
  [isHealthy |-> node.isHealthy /\ failures < FailThreshold,
   failCount |-> failures,
   successCount |-> node.successCount]

\* Mutant: a node is never marked down.
failNeverMarksDown(node) ==
  [isHealthy |-> node.isHealthy,
   failCount |-> Bump(node.failCount, FailThreshold),
   successCount |-> 0]

fail(node) ==
  LET failures == Bump(node.failCount, FailThreshold) IN
  [isHealthy |-> node.isHealthy /\ failures < FailThreshold,
   failCount |-> failures,
   successCount |-> 0]

(* History: as many of the last outcomes as the thresholds look back at.   *)
Window == IF FailThreshold > SuccessThreshold THEN FailThreshold ELSE SuccessThreshold

Record(n, ok) ==
  recent' = [recent EXCEPT ![n] = Append(IF Len(@) < Window THEN @ ELSE Tail(@), ok)]

(* checkNode, critical section: the outcome counts for the node registered *)
(* under the address now, and is dropped if there is none.                 *)
Apply ==
  LET n == address
      after == IF healthy THEN pass(nodes[n]) ELSE fail(nodes[n]) IN
  /\ loop = "probed"
  /\ nodes[n] # None
  /\ nodes' = [nodes EXCEPT ![n] = after]
  /\ loop' = "sweeping"
  /\ Record(n, healthy)
  /\ UNCHANGED <<alive, addresses, address, healthy, cancelled, stop, faulty, stale>>

Drop ==
  /\ loop = "probed"
  /\ nodes[address] = None
  /\ loop' = "sweeping"
  /\ UNCHANGED <<nodes, alive, addresses, address, healthy, cancelled, stop,
                 recent, faulty, stale>>

-----------------------------------------------------------------------------
\* Mutant: Stop does not wait for the loop.
StopCallNoWait ==
  /\ stop = "no"
  /\ cancelled' = (loop # "off")
  /\ stop' = "returned"
  /\ UNCHANGED <<nodes, alive, loopVars, recent, faulty, stale>>

(* Stop cancels the context and waits for done; before Start there is      *)
(* nothing to wait for.                                                    *)
StopCall ==
  /\ stop = "no"
  /\ cancelled' = (loop # "off")
  /\ stop' = IF loop = "off" THEN "returned" ELSE "waiting"
  /\ UNCHANGED <<nodes, alive, loopVars, recent, faulty, stale>>

StopReturns ==
  /\ stop = "waiting"
  /\ loop = "done"
  /\ stop' = "returned"
  /\ UNCHANGED <<nodes, alive, loopVars, cancelled, recent, faulty, stale>>

(* A node dies or comes back.                                              *)
Dies(n) ==
  /\ n \in alive
  /\ alive' = alive \ {n}
  /\ faulty' = faulty \cup {n}
  /\ UNCHANGED <<nodes, loopVars, cancelled, stop, recent, stale>>

Revives(n) ==
  /\ n \notin alive
  /\ alive' = alive \cup {n}
  /\ UNCHANGED <<nodes, loopVars, cancelled, stop, recent, faulty, stale>>

LoopStep ==
  \/ Tick \/ LoopExits \/ SweepEnds
  \/ \E n \in Nodes : ProbeStart(n)
  \/ \E ok \in BOOLEAN : ProbeReturns(ok)
  \/ Apply \/ Drop

Next ==
  \/ Start \/ LoopStep \/ StopCall \/ StopReturns
  \/ \E n \in Nodes : RegisterNode(n) \/ UnregisterNode(n) \/ Dies(n) \/ Revives(n)

Spec == Init /\ [][Next]_vars

(* The ticker fires, probes end within Config.Timeout, the goroutine is    *)
(* scheduled, and a select whose two cases are ready picks either one at   *)
(* random (so the loop cannot prefer the ticker to ctx.Done for ever).     *)
(* Stop, registrations and the nodes themselves are left free.             *)
Fairness ==
  /\ WF_vars(Tick) /\ SF_vars(LoopExits) /\ WF_vars(SweepEnds)
  /\ WF_vars(\E n \in Nodes : ProbeStart(n))
  /\ WF_vars(\E ok \in BOOLEAN : ProbeReturns(ok))
  /\ WF_vars(Apply \/ Drop)
  /\ WF_vars(StopReturns)

FairSpec == Spec /\ Fairness

-----------------------------------------------------------------------------
(* The state of a node is one that hysteresis allows: only one of the two  *)
(* runs is open, a node that is up has not failed FailThreshold times in a *)
(* row, one that is down has not passed SuccessThreshold times.            *)
NodeOK(node) ==
  /\ node \in [isHealthy : BOOLEAN, failCount : 0 .. FailThreshold,
               successCount : 0 .. SuccessThreshold]
  /\ node.failCount = 0 \/ node.successCount = 0
  /\ IF node.isHealthy THEN node.failCount < FailThreshold
                       ELSE node.successCount < SuccessThreshold

TypeOK ==
  /\ nodes \in [Nodes -> {None} \cup [isHealthy : BOOLEAN, failCount : Nat,
                                     successCount : Nat]]
  /\ \A n \in Registered : NodeOK(nodes[n])
  /\ alive \subseteq Nodes
  /\ loop \in {"off", "sweeping", "probing", "probed", "waiting", "done"}
  /\ addresses \subseteq Nodes
  /\ address \in Nodes \cup {None}
  /\ Checking => address \in Nodes
  /\ healthy \in BOOLEAN /\ cancelled \in BOOLEAN /\ stale \in BOOLEAN
  /\ stop \in {"no", "waiting", "returned"}
  /\ recent \in [Nodes -> Seq(BOOLEAN)]
  /\ faulty \subseteq Nodes

(* The last count outcomes are all ok.                                     *)
LastAll(outcomes, count, ok) ==
  /\ Len(outcomes) >= count
  /\ \A i \in (Len(outcomes) - count + 1) .. Len(outcomes) : outcomes[i] = ok

(* The verdict is the one the comment on Config describes: whatever the    *)
(* counters went through, a node is up after a step iff its last           *)
(* SuccessThreshold outcomes are successes, or it was up (or is new) and   *)
(* its last FailThreshold outcomes are not all failures.                   *)
Hysteresis ==
  [][\A n \in Nodes : nodes'[n] # None =>
       (nodes'[n].isHealthy <=>
          \/ LastAll(recent'[n], SuccessThreshold, TRUE)
          \/ /\ nodes[n] = None \/ IsHealthy(n)
             /\ ~LastAll(recent'[n], FailThreshold, FALSE))]_vars

(* A node that answered at every moment since it was registered stays up   *)
(* with the threshold of both deployments (3).  Two failures in a row can  *)
(* be counted against such a node: one by a check begun before its         *)
(* registration, one by the probe that Stop cancels.                       *)
LiveStaysUp ==
  FailThreshold >= 3 => \A n \in Registered \ faulty : IsHealthy(n)

(* After Stop has returned no check changes a verdict any more.            *)
QuietAfterStop ==
  [][stop = "returned" =>
       \A n \in Registered : nodes'[n] \in {nodes[n], None}]_vars

(* A node that stays registered and stays dead is marked down for good,    *)
(* and one that stays alive is marked up, as long as nobody calls Stop.    *)
Converges ==
  \A n \in Nodes :
    /\ <>[](n \in Registered /\ n \notin alive /\ loop # "off" /\ stop = "no")
         => <>[]~IsHealthy(n)
    /\ <>[](n \in Registered /\ n \in alive /\ loop # "off" /\ stop = "no")
         => <>[]IsHealthy(n)

(* Stop returns, also when it interrupts a sweep or a probe.               *)
StopEnds == stop = "waiting" ~> stop = "returned"
==============================================================================
