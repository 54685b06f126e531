---------------------------- MODULE OriginShield ----------------------------
(***************************************************************************)
(* Request coalescing in front of the origin (internal/shield).            *)
(*                                                                         *)
(* A request is one invocation of Shield.Fetch.  The first request for a   *)
(* path that is not in inflight becomes the leader of a new call, and the  *)
(* call is named after it; requests that find a call in inflight wait for  *)
(* it.  Steps are the code's atomic steps: the critical sections of mu and *)
(* what each select delivers.                                              *)
(*                                                                         *)
(* origin.Server.Fetch cannot fail and cannot be cancelled: its goroutine  *)
(* outlives a leader that gave up.  Statistics are left out: the metrics,  *)
(* and peakInFlight, which the code updates without the lock and never     *)
(* reads back.                                                             *)
(***************************************************************************)
EXTENDS Integers, FiniteSets

CONSTANTS
  Requests,           \* invocations of Fetch
  Paths,              \* cache keys
  MaxWaitersPerKey,   \* Config.MaxWaitersPerKey
  FetchMayTimeOut,    \* Config.FetchTimeout is below the origin's worst latency
  None                \* no call

ASSUME ShieldAssumption ==
  /\ IsFiniteSet(Requests)
  /\ IsFiniteSet(Paths)
  /\ None \notin Requests
  /\ MaxWaitersPerKey \in Nat \ {0}   \* New replaces a non-positive limit
  /\ FetchMayTimeOut \in BOOLEAN

VARIABLES
  path,           \* the argument of each request
  pc,             \* where each request is
  cancelled,      \* requests whose context is done
  inflight,       \* Shield.inflight: the call of each path
  shared,         \* call.shared
  result,         \* call.resp and call.err; "none" until wg.Done
  origin,         \* the goroutine that runs origin.Fetch for a leader
  joined,         \* the call whose result a request takes
  ret             \* what Fetch returned

vars == <<path, pc, cancelled, inflight, shared, result, origin, joined, ret>>

Leading == {"registered", "fetching", "signalled"}
PCs == {"start", "waiting", "returned"} \cup Leading
Results == {"none", "resp", "timeout", "cancelled"}

Leads(r, p) == path[r] = p /\ pc[r] \in Leading
WaitersOf(c) == {r \in Requests : pc[r] = "waiting" /\ joined[r] = c}

Init ==
  /\ path \in [Requests -> Paths]
  /\ pc = [r \in Requests |-> "start"]
  /\ cancelled = {}
  /\ inflight = [p \in Paths |-> None]
  /\ shared = [r \in Requests |-> 0]
  /\ result = [r \in Requests |-> "none"]
  /\ origin = [r \in Requests |-> "idle"]
  /\ joined = [r \in Requests |-> None]
  /\ ret = [r \in Requests |-> "none"]

Return(r, value) ==
  /\ pc' = [pc EXCEPT ![r] = "returned"]
  /\ ret' = [ret EXCEPT ![r] = value]

-----------------------------------------------------------------------------
(* The client of a request goes away.                                      *)
Cancel(r) ==
  /\ pc[r] # "returned"
  /\ r \notin cancelled
  /\ cancelled' = cancelled \cup {r}
  /\ UNCHANGED <<path, pc, inflight, shared, result, origin, joined, ret>>

(* Fetch, critical section: the path is in flight and its call is full.    *)
RejectWaiter(r) ==
  /\ pc[r] = "start"
  /\ inflight[path[r]] # None
  /\ shared[inflight[path[r]]] >= MaxWaitersPerKey
  /\ Return(r, "rejected")
  /\ UNCHANGED <<path, cancelled, inflight, shared, result, origin, joined>>

\* Mutant: the limit admits one waiter too many.
JoinOffByOne(r) ==
  LET c == inflight[path[r]] IN
  /\ pc[r] = "start"
  /\ c # None
  /\ shared[c] <= MaxWaitersPerKey
  /\ shared' = [shared EXCEPT ![c] = @ + 1]
  /\ joined' = [joined EXCEPT ![r] = c]
  /\ pc' = [pc EXCEPT ![r] = "waiting"]
  /\ UNCHANGED <<path, cancelled, inflight, result, origin, ret>>

(* Fetch, critical section: the path is in flight; wait for its call.      *)
Join(r) ==
  LET c == inflight[path[r]] IN
  /\ pc[r] = "start"
  /\ c # None
  /\ shared[c] < MaxWaitersPerKey
  /\ shared' = [shared EXCEPT ![c] = @ + 1]
  /\ joined' = [joined EXCEPT ![r] = c]
  /\ pc' = [pc EXCEPT ![r] = "waiting"]
  /\ UNCHANGED <<path, cancelled, inflight, result, origin, ret>>

\* Mutant: the lookup is not repeated under the lock that registers the call.
RegisterUnchecked(r) ==
  /\ pc[r] = "start"
  /\ inflight' = [inflight EXCEPT ![path[r]] = r]
  /\ joined' = [joined EXCEPT ![r] = r]
  /\ pc' = [pc EXCEPT ![r] = "registered"]
  /\ UNCHANGED <<path, cancelled, shared, result, origin, ret>>

(* Fetch, critical section: nobody fetches the path; become the leader.    *)
Register(r) ==
  /\ pc[r] = "start"
  /\ inflight[path[r]] = None
  /\ inflight' = [inflight EXCEPT ![path[r]] = r]
  /\ joined' = [joined EXCEPT ![r] = r]
  /\ pc' = [pc EXCEPT ![r] = "registered"]
  /\ UNCHANGED <<path, cancelled, shared, result, origin, ret>>

-----------------------------------------------------------------------------
(* The leader starts the origin fetch in a goroutine of its own.           *)
StartFetch(r) ==
  /\ pc[r] = "registered"
  /\ pc' = [pc EXCEPT ![r] = "fetching"]
  /\ origin' = [origin EXCEPT ![r] = "running"]
  /\ UNCHANGED <<path, cancelled, inflight, shared, result, joined, ret>>

(* origin.Fetch returns and its goroutine leaves the response in the       *)
(* buffered channel, whether or not the leader still listens.              *)
OriginReplies(r) ==
  /\ origin[r] = "running"
  /\ origin' = [origin EXCEPT ![r] = "replied"]
  /\ UNCHANGED <<path, pc, cancelled, inflight, shared, result, joined, ret>>

(* What the leader's select can deliver: the response, the cancellation of *)
(* the leader's own context, or FetchTimeout.                              *)
Delivers(r, value) ==
  \/ value = "resp" /\ origin[r] = "replied"
  \/ value = "cancelled" /\ r \in cancelled
  \/ value = "timeout" /\ FetchMayTimeOut

\* Mutant: the waiters are not woken when the fetch fails.
SignalOnlySuccess(r, value) ==
  /\ pc[r] = "fetching"
  /\ Delivers(r, value)
  /\ result' = [result EXCEPT ![r] = IF value = "resp" THEN value ELSE "none"]
  /\ pc' = [pc EXCEPT ![r] = "signalled"]
  /\ UNCHANGED <<path, cancelled, inflight, shared, origin, joined, ret>>

(* The leader's select, the assignment of call.resp or call.err, wg.Done.  *)
Signal(r, value) ==
  /\ pc[r] = "fetching"
  /\ Delivers(r, value)
  /\ result' = [result EXCEPT ![r] = value]
  /\ pc' = [pc EXCEPT ![r] = "signalled"]
  /\ UNCHANGED <<path, cancelled, inflight, shared, origin, joined, ret>>

(* The leader's second critical section, and its return.                   *)
Unregister(r) ==
  /\ pc[r] = "signalled"
  /\ inflight' = [inflight EXCEPT ![path[r]] = None]
  /\ Return(r, result[r])
  /\ UNCHANGED <<path, cancelled, shared, result, origin, joined>>

(* A waiter's select: the call is done.                                    *)
Woken(r) ==
  /\ pc[r] = "waiting"
  /\ result[joined[r]] # "none"
  /\ Return(r, result[joined[r]])
  /\ UNCHANGED <<path, cancelled, inflight, shared, result, origin, joined>>

\* Mutant: a waiter's cancellation is recorded in the call it shares.
GiveUpForAll(r) ==
  /\ pc[r] = "waiting"
  /\ r \in cancelled
  /\ Return(r, "cancelled")
  /\ result' = [result EXCEPT ![joined[r]] = "cancelled"]
  /\ UNCHANGED <<path, cancelled, inflight, shared, origin, joined>>

(* A waiter's select: its own context is done.  call.shared stays as it is.*)
GiveUp(r) ==
  /\ pc[r] = "waiting"
  /\ r \in cancelled
  /\ Return(r, "cancelled")
  /\ UNCHANGED <<path, cancelled, inflight, shared, result, origin, joined>>

LeaderStep(r) ==
  \/ StartFetch(r)
  \/ \E value \in Results \ {"none"} : Signal(r, value)
  \/ Unregister(r)

Step(r) ==
  \/ RejectWaiter(r) \/ Join(r) \/ Register(r)
  \/ LeaderStep(r)
  \/ Woken(r) \/ GiveUp(r)

Next == \E r \in Requests : Step(r) \/ OriginReplies(r) \/ Cancel(r)

(* Every request has returned.                                             *)
Terminated == /\ \A r \in Requests : pc[r] = "returned" /\ origin[r] # "running"
              /\ UNCHANGED vars

Spec == Init /\ [][Next \/ Terminated]_vars

(* Goroutines are scheduled and origin.Fetch returns (it sleeps for a      *)
(* bounded latency).  Nothing is assumed of the clients or the timeout:    *)
(* the leader's select must fire only once the origin has replied.         *)
Fairness ==
  /\ \A r \in Requests : WF_vars(OriginReplies(r))
  /\ \A r \in Requests : WF_vars(RejectWaiter(r) \/ Join(r) \/ Register(r))
  /\ \A r \in Requests : WF_vars(StartFetch(r))
  /\ \A r \in Requests : WF_vars(Signal(r, "resp") \/ Unregister(r))
  /\ \A r \in Requests : WF_vars(Woken(r))

FairSpec == Spec /\ Fairness

-----------------------------------------------------------------------------
TypeOK ==
  /\ path \in [Requests -> Paths]
  /\ pc \in [Requests -> PCs]
  /\ cancelled \subseteq Requests
  /\ inflight \in [Paths -> Requests \cup {None}]
  /\ shared \in [Requests -> 0 .. MaxWaitersPerKey]
  /\ result \in [Requests -> Results]
  /\ origin \in [Requests -> {"idle", "running", "replied"}]
  /\ joined \in [Requests -> Requests \cup {None}]
  /\ ret \in [Requests -> Results \cup {"rejected"}]

(* inflight and the leaders agree in both directions: the entry of a path  *)
(* is its one active leader, so the leader that runs delete(s.inflight,    *)
(* path) after its unlocked stretch removes its own call and no other.     *)
Ownership ==
  \A r \in Requests, p \in Paths : Leads(r, p) <=> inflight[p] = r

(* A waiter is never stranded: the call it waits on is for its own path    *)
(* and either has been signalled or still has its leader at work.          *)
NotStranded ==
  \A r \in Requests : pc[r] = "waiting" =>
    /\ joined[r] \in Requests \ {r}
    /\ path[joined[r]] = path[r]
    /\ result[joined[r]] = "none" => pc[joined[r]] \in Leading \ {"signalled"}

(* MaxWaitersPerKey bounds the goroutines parked on one call.              *)
WaiterBound ==
  \A c \in Requests : Cardinality(WaitersOf(c)) <= MaxWaitersPerKey

(* What coalescing really guarantees: a path is fetched twice at once only *)
(* if one of the two leaders gave up on its fetch (its context ended or    *)
(* FetchTimeout passed) and left the goroutine behind.                     *)
DuplicateOnlyAfterAbort ==
  \A r, s \in Requests :
    r # s /\ path[r] = path[s] /\ origin[r] = "running" /\ origin[s] = "running"
      => result[r] \in {"timeout", "cancelled"} \/ result[s] \in {"timeout", "cancelled"}

(* How far one client's cancellation reaches: a request whose own context  *)
(* is live returns context.Canceled only if the leader it shared was       *)
(* cancelled, and a response only ever comes from an origin fetch that     *)
(* completed, for the path that was asked.                                 *)
BlastRadius ==
  \A r \in Requests :
    /\ ret[r] = "cancelled" /\ r \notin cancelled =>
         joined[r] # r /\ joined[r] \in cancelled /\ path[joined[r]] = path[r]
    /\ ret[r] = "resp" =>
         origin[joined[r]] = "replied" /\ path[joined[r]] = path[r]

(* Fetch returns, whoever is cancelled or times out around it.             *)
EveryFetchReturns == \A r \in Requests : pc[r] # "start" ~> pc[r] = "returned"

(* What the comment on MaxWaitersPerKey says: a request is refused only    *)
(* beyond that many waiting requests.                                      *)
RefusedOnlyWhenFull ==
  [][\A r \in Requests : ret[r] = "none" /\ ret'[r] = "rejected"
       => Cardinality(WaitersOf(inflight[path[r]])) >= MaxWaitersPerKey]_vars
=============================================================================
