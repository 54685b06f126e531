------------------------------- MODULE Gateway -------------------------------
(***************************************************************************)
(* The gateway's request handler (handleProxy and proxyTo of               *)
(* internal/gateway) over the region router and the verdicts of the health *)
(* checker.                                                                *)
(*                                                                         *)
(* A request goes through three attempts: the primary node of its target   *)
(* region, the other nodes of that region, the nodes of the other healthy  *)
(* regions.  It takes no lock across them: between the choice of the       *)
(* target, the choice of the primary, the snapshot of the regions, each    *)
(* verdict it reads and each node it sends to, pools, verdicts and nodes   *)
(* change.  Verdicts come from a Checker that this module leaves free,     *)
(* over the nodes registered with it: whoever calls New hands over a       *)
(* Checker and may register nodes with it, NewFromConfig registers none.   *)
(* Requests carry no body: proxyTo hands the same r.Body to every send,    *)
(* and the first one that fails closes it.                                 *)
(***************************************************************************)
EXTENDS RegionRouter

CONSTANTS
  Requests,    \* concurrent invocations of handleProxy
  Sites,       \* the region and address pairs given to Gateway.AddNode
  Startup,     \* the sites added before the gateway serves
  Monitored,   \* the nodes registered with the health checker
  MaxEvents    \* bound: changes of pools, regions, nodes and verdicts

ASSUME GatewayAssumption ==
  /\ Sites \subseteq Regions \X Nodes /\ None \notin Sites
  /\ Startup \subseteq Sites
  /\ Monitored \subseteq Nodes
  /\ MaxEvents \in Nat

VARIABLES
  alive,     \* nodes that answer within the client timeout
  up,        \* nodes for which healthChecker.IsHealthy is true
  pc,        \* where each request is
  hint,      \* the client's region, None if the router does not know it
  target,    \* targetRegion
  primary,   \* primaryNode, None for ""
  todo,      \* sites left in the current attempt
  others,    \* sites of the other healthy regions in the snapshot
  site,      \* the site the request is being, or was last, sent to
  gone,      \* requests whose context is done
  witness,   \* history: a site that could serve ever since the request began
  vouched,   \* history: requests whose witness was called healthy all along
  events     \* changes so far

requestVars == <<pc, hint, target, primary, todo, others, site, gone>>
worldVars == <<routerVars, alive, up, witness, vouched, events>>
vars == <<worldVars, requestVars>>

Attempts == {"attempt 1", "attempt 2", "attempt 3"}
Ended == {"answered", "failed"}

Pooled == {s \in Sites : s[2] \in pool[s[1]]}
CanServe(s) == s \in Pooled /\ s[1] \in healthy /\ s[2] \in alive

(* The router after startGateway's AddNodes: new regions follow the        *)
(* default ones.                                                           *)
Init ==
  /\ pool = [r \in Regions |-> {n \in Nodes : <<r, n>> \in Startup}]
  /\ ring = [r \in Regions |-> RingOf(pool[r])]
  /\ healthy = DefaultRegions \cup {s[1] : s \in Startup}
  /\ order \in Orders(healthy)
  /\ \A i \in 1 .. Cardinality(DefaultRegions) : order[i] \in DefaultRegions
  /\ rrIndex = 0
  /\ waits = [r \in Regions |-> 0]
  /\ alive \in SUBSET Nodes
  /\ up = Monitored
  /\ pc = [q \in Requests |-> "idle"]
  /\ hint = [q \in Requests |-> None]
  /\ target = [q \in Requests |-> None]
  /\ primary = [q \in Requests |-> None]
  /\ todo = [q \in Requests |-> {}]
  /\ others = [q \in Requests |-> {}]
  /\ site = [q \in Requests |-> None]
  /\ gone = {}
  /\ witness = [q \in Requests |-> None]
  /\ vouched = {}
  /\ events = 0

-----------------------------------------------------------------------------
(* handleProxy up to GetNearestRegion.                                     *)
Receive(q, clientRegion) ==
  /\ pc[q] = "idle"
  /\ pc' = [pc EXCEPT ![q] = "routed"]
  /\ hint' = [hint EXCEPT ![q] = IF clientRegion \in Known THEN clientRegion ELSE None]
  /\ \E r \in Regions : /\ GetNearestRegion(clientRegion, r)
                        /\ target' = [target EXCEPT ![q] = r]
  /\ \E w \in {s \in Sites : CanServe(s)} \cup {None} :
       /\ witness' = [witness EXCEPT ![q] = w]
       /\ vouched' = IF w # None /\ w[2] \in up THEN vouched \cup {q} ELSE vouched \ {q}
  /\ UNCHANGED <<pool, ring, healthy, order, alive, up, events,
                 primary, todo, others, site, gone>>

(* GetNodeForKey of the request's path in the target region.               *)
PickPrimary(q) ==
  LET r == target[q] IN
  /\ pc[q] = "routed"
  /\ pc' = [pc EXCEPT ![q] = "attempt 1"]
  /\ \E h \in Hashes, n \in Nodes \cup {None} :
       /\ GetNodeForKey(r, h, n)
       /\ primary' = [primary EXCEPT ![q] = n]
       /\ todo' = [todo EXCEPT ![q] = IF n = None THEN {} ELSE {<<r, n>>}]
  /\ UNCHANGED <<worldVars, hint, target, others, site, gone>>

Trying(q, label) == pc[q] = label /\ site[q] = None

\* Mutant: an unhealthy candidate is looked at again instead of skipped.
TryForever(q, s) ==
  /\ pc[q] \in Attempts /\ site[q] = None
  /\ s \in todo[q]
  /\ IF s[2] \in up
       THEN site' = [site EXCEPT ![q] = s] /\ todo' = [todo EXCEPT ![q] = @ \ {s}]
       ELSE UNCHANGED <<site, todo>>
  /\ UNCHANGED <<worldVars, pc, hint, target, primary, others, gone>>

(* The next candidate of an attempt: skipped unless IsHealthy.             *)
Try(q, s) ==
  /\ pc[q] \in Attempts /\ site[q] = None
  /\ s \in todo[q]
  /\ todo' = [todo EXCEPT ![q] = @ \ {s}]
  /\ site' = [site EXCEPT ![q] = IF s[2] \in up THEN s ELSE None]
  /\ UNCHANGED <<worldVars, pc, hint, target, primary, others, gone>>

(* proxyTo: the node answers, and the answer is the client's.              *)
SendWorks(q) ==
  /\ pc[q] \in Attempts /\ site[q] # None
  /\ site[q][2] \in alive
  /\ q \notin gone
  /\ pc' = [pc EXCEPT ![q] = "answered"]
  /\ UNCHANGED <<worldVars, hint, target, primary, todo, others, site, gone>>

(* proxyTo: http.Client.Do fails.                                          *)
SendFails(q) ==
  /\ pc[q] \in Attempts /\ site[q] # None
  /\ site[q][2] \notin alive \/ q \in gone
  /\ site' = [site EXCEPT ![q] = None]
  /\ UNCHANGED <<worldVars, pc, hint, target, primary, todo, others, gone>>

\* Mutant: only the primary of the target region is tried.
SameRegionSkipped(q) == {}

SameRegion(q) == {s \in Pooled : s[1] = target[q] /\ s[2] # primary[q]}

\* Mutant: the failover stays inside the target region.
OtherRegionsSkipped(q) == {}

OtherRegions(q) == {s \in Pooled : s[1] # target[q] /\ s[1] \in healthy}

(* Attempt 1 failed: GetAllRegions takes the snapshot for the other two.   *)
Snapshot(q) ==
  /\ Trying(q, "attempt 1") /\ todo[q] = {}
  /\ pc' = [pc EXCEPT ![q] = "attempt 2"]
  /\ todo' = [todo EXCEPT ![q] = SameRegion(q)]
  /\ others' = [others EXCEPT ![q] = OtherRegions(q)]
  /\ UNCHANGED <<worldVars, hint, target, primary, site, gone>>

LeaveRegion(q) ==
  /\ Trying(q, "attempt 2") /\ todo[q] = {}
  /\ pc' = [pc EXCEPT ![q] = "attempt 3"]
  /\ todo' = [todo EXCEPT ![q] = others[q]]
  /\ others' = [others EXCEPT ![q] = {}]
  /\ UNCHANGED <<worldVars, hint, target, primary, site, gone>>

(* 502: all edge nodes unavailable.                                        *)
Exhausted(q) ==
  /\ Trying(q, "attempt 3") /\ todo[q] = {}
  /\ pc' = [pc EXCEPT ![q] = "failed"]
  /\ UNCHANGED <<worldVars, hint, target, primary, todo, others, site, gone>>

(* The handler has returned; the next request starts afresh.               *)
Finish(q) ==
  /\ pc[q] \in Ended
  /\ pc' = [pc EXCEPT ![q] = "idle"]
  /\ hint' = [hint EXCEPT ![q] = None]
  /\ target' = [target EXCEPT ![q] = None]
  /\ primary' = [primary EXCEPT ![q] = None]
  /\ todo' = [todo EXCEPT ![q] = {}]
  /\ others' = [others EXCEPT ![q] = {}]
  /\ site' = [site EXCEPT ![q] = None]
  /\ gone' = gone \ {q}
  /\ witness' = [witness EXCEPT ![q] = None]
  /\ vouched' = vouched \ {q}
  /\ UNCHANGED <<routerVars, alive, up, events>>

ClientLeaves(q) ==
  /\ pc[q] \in Attempts \cup {"routed"}
  /\ q \notin gone
  /\ gone' = gone \cup {q}
  /\ UNCHANGED <<worldVars, pc, hint, target, primary, todo, others, site>>

-----------------------------------------------------------------------------
(* What changes around the requests; witnesses in lost no longer serve.    *)
Event(lost) ==
  /\ events < MaxEvents
  /\ events' = events + 1
  /\ witness' = [q \in Requests |-> IF witness[q] \in lost THEN None ELSE witness[q]]
  /\ UNCHANGED requestVars

SitesOf(n) == {s \in Sites : s[2] = n}

NodeAdded(s) == AddNode(s[1], s[2]) /\ Event({}) /\ UNCHANGED <<alive, up, vouched>>
NodeRemoved(s) == RemoveNode(s[1], s[2]) /\ Event({s}) /\ UNCHANGED <<alive, up, vouched>>

RegionMarked(r, ok) ==
  /\ SetRegionHealth(r, ok)
  /\ Event({s \in Sites : s[1] = r})
  /\ UNCHANGED <<alive, up, vouched>>

Dies(n) ==
  /\ n \in alive
  /\ alive' = alive \ {n}
  /\ Event(SitesOf(n))
  /\ UNCHANGED <<routerVars, up, vouched>>

Revives(n) ==
  /\ n \notin alive
  /\ alive' = alive \cup {n}
  /\ Event({})
  /\ UNCHANGED <<routerVars, up, vouched>>

(* The checker changes its mind about a node registered with it.           *)
VerdictFlips(n) ==
  /\ n \in Monitored
  /\ up' = IF n \in up THEN up \ {n} ELSE up \cup {n}
  /\ vouched' = {q \in vouched : witness[q] \notin SitesOf(n)}
  /\ Event({})
  /\ UNCHANGED <<routerVars, alive>>

RequestStep(q) ==
  \/ PickPrimary(q)
  \/ \E s \in Sites : Try(q, s)
  \/ SendWorks(q) \/ SendFails(q)
  \/ Snapshot(q) \/ LeaveRegion(q) \/ Exhausted(q)

Next ==
  \/ \E q \in Requests :
       \/ \E r \in Regions \cup {None} : Receive(q, r)
       \/ RequestStep(q) \/ Finish(q) \/ ClientLeaves(q)
  \/ \E s \in Sites : NodeAdded(s) \/ NodeRemoved(s)
  \/ \E r \in Regions, ok \in BOOLEAN : RegionMarked(r, ok)
  \/ \E n \in Nodes : Dies(n) \/ Revives(n) \/ VerdictFlips(n)

Spec == Init /\ [][Next]_vars

(* Handlers are scheduled and http.Client has a timeout of ten seconds.    *)
Fairness == \A q \in Requests : WF_vars(RequestStep(q))

FairSpec == Spec /\ Fairness

-----------------------------------------------------------------------------
(* The client of q still waits, and its witness is healthy for everyone.   *)
Promised(q) == q \notin gone /\ q \in vouched /\ witness[q] # None

(* Failover is complete: no request gets a 502 while some node, in the     *)
(* pool of a healthy region, answered and was called healthy all the time, *)
(* whatever was added, removed, marked, killed or revived meanwhile        *)
(* (gateway.go:121-181).                                                   *)
FailoverComplete == \A q \in Requests : pc[q] = "failed" => ~Promised(q)

(* Requests stay local: a request is answered from the client's own region *)
(* if a node there could serve all the time (gateway.go:125, 143).         *)
Locality ==
  \A q \in Requests :
    pc[q] = "answered" /\ Promised(q) /\ witness[q][1] = hint[q] => site[q][1] = hint[q]

(* The target is never farther from the client than a region that could    *)
(* serve when the request came (region.go:155-172).                        *)
NearestTarget ==
  \A q \in Requests :
    pc[q] # "idle" /\ hint[q] # None /\ witness[q] # None =>
      Distance[hint[q]][target[q]] <= Distance[hint[q]][witness[q][1]]

(* Every request is answered, one way or the other.                        *)
EveryRequestAnswered == \A q \in Requests : pc[q] = "routed" ~> pc[q] \in Ended

(* What the comment on Gateway says of a request: it is proxied to "any    *)
(* healthy node in any region" before it fails.  Here healthy means that   *)
(* the node answers and is in the pool of a healthy region throughout.     *)
AliveNodeServes ==
  \A q \in Requests : pc[q] = "failed" /\ q \notin gone => witness[q] = None
==============================================================================
