------------------------------ MODULE EdgeNode ------------------------------
(***************************************************************************)
(* The request path of an edge node (internal/router, as startEdgeNode of  *)
(* cmd/router wires it): cache lookup, then circuit breaker around retryer *)
(* around origin shield, then the cache fill; with purges and the cache    *)
(* warmer beside it.                                                       *)
(*                                                                         *)
(* The breaker is the record of BreakerState, one critical section at a    *)
(* time.  The shield keeps of OriginShield what a handler can              *)
(* see of it: a call is named after the handler that leads it, and         *)
(* inflight is the set of leaders (theorem Ownership of OriginShield).     *)
(* Under the default configuration the origin answers long before          *)
(* FetchTimeout and the waiter limit is out of reach, so neither is here.  *)
(* The cache is atomic here: its two tiers are the subject of RedisCache.  *)
(*                                                                         *)
(* Requests are GETs.  One of another method always misses and stores      *)
(* nothing: to the rest of the node it is a GET that looked before the     *)
(* entry was there and whose own entry is evicted at once.                 *)
(*                                                                         *)
(* A handler is a slot, taken again once its request is answered.  Request *)
(* ids, headers, content types, TTLs, logging and metrics are left out.    *)
(* So are the lengths of backoffs; the random source that handlers share   *)
(* for them without a lock is assumed to return some number.               *)
(***************************************************************************)
EXTENDS CacheWarmer, BreakerState

CONSTANTS
  Requests,               \* handlers of concurrent requests
  MaxAttempts             \* retry Config.MaxAttempts

ASSUME EdgeAssumption ==
  /\ IsFiniteSet(Requests)
  /\ MaxAttempts \in Nat \ {0}

VARIABLES
  cache,          \* the entry "cdn:GET:<path>" of each path: a body or "none"
  pc,             \* where each handler is
  url,            \* the path it was asked for
  gone,           \* handlers whose client left: their context is done
  attempt,        \* Do's loop variable, counted from 1
  reply,          \* what the handler holds: a body, "aborted" or "none"
  leaked,         \* history: paths some handler or prefetch held a body of
                  \* when they were last purged
  breaker         \* the fields of the circuit breaker

requestVars == <<url, gone>>
vars == <<cache, warmerVars, pc, url, gone, attempt, reply, leaked, breaker>>

Leads(q, p) == url[q] = p /\ pc[q] \in {"leading", "signalled"}
Free == {"idle", "failed"}    \* no request; "failed": the last one got 502
IsBody(r) == r \in Bodies

Init ==
  /\ WarmerInit
  /\ cache = [p \in Paths |-> "none"]
  /\ pc = [q \in Requests |-> "idle"]
  /\ url = [q \in Requests |-> "none"]
  /\ gone = {}
  /\ attempt = [q \in Requests |-> 1]
  /\ reply = [q \in Requests |-> "none"]
  /\ leaked = {}
  /\ breaker = NewBreaker

(* Handler q moves on to label, holding r.                                 *)
Goto(q, label, r) ==
  /\ pc' = [pc EXCEPT ![q] = label]
  /\ reply' = [reply EXCEPT ![q] = r]

(* Handler q writes its response and returns.                              *)
Answer(q, label) ==
  /\ Goto(q, label, "none")
  /\ url' = [url EXCEPT ![q] = "none"]
  /\ gone' = gone \ {q}
  /\ attempt' = [attempt EXCEPT ![q] = 1]

-----------------------------------------------------------------------------
(* handleCDN: cache.Get on the key of the method and the path.  A hit is   *)
(* answered at once, and the access recorded.                              *)
Hit(q, p) ==
  /\ pc[q] \in Free /\ ~stopped
  /\ cache[p] # "none"
  /\ Answer(q, "idle")
  /\ RecordAccess(p)
  /\ UNCHANGED <<cache, leaked, breaker>>

Miss(q, p) ==
  /\ pc[q] \in Free /\ ~stopped
  /\ cache[p] = "none"
  /\ Goto(q, "missed", "none")
  /\ url' = [url EXCEPT ![q] = p]
  /\ UNCHANGED <<cache, warmerVars, gone, attempt, leaked, breaker>>

(* cb.Execute, first critical section.                                     *)
Admit(q) ==
  /\ pc[q] = "missed"
  /\ ~Rejects(breaker)
  /\ breaker' = enter(breaker)
  /\ Goto(q, "trying", "none")
  /\ UNCHANGED <<cache, warmerVars, requestVars, attempt, leaked>>

Reject(q) ==
  /\ pc[q] = "missed"
  /\ Rejects(breaker)
  /\ Answer(q, "failed")
  /\ UNCHANGED <<cache, warmerVars, leaked, breaker>>

-----------------------------------------------------------------------------
(* Do finds the context done, before an attempt or during a backoff.       *)
Abandon(q) ==
  /\ pc[q] = "trying" /\ q \in gone
  /\ Goto(q, "completing", "aborted")
  /\ UNCHANGED <<cache, warmerVars, requestVars, attempt, leaked, breaker>>

(* Fetch: another handler leads a call for the path; wait for it, or take  *)
(* its outcome if it has signalled and not yet left inflight.              *)
Join(q, l) ==
  /\ pc[q] = "trying"
  /\ Leads(l, url[q])
  /\ Goto(q, "waiting", IF pc[l] = "signalled" THEN reply[l] ELSE "none")
  /\ UNCHANGED <<cache, warmerVars, requestVars, attempt, leaked, breaker>>

\* Mutant: the lookup and the registration are not one critical section.
LeadUnchecked(q) ==
  /\ pc[q] = "trying"
  /\ Goto(q, "leading", "none")
  /\ UNCHANGED <<cache, warmerVars, requestVars, attempt, leaked, breaker>>

(* Fetch: nobody does; become the leader and start the origin fetch.       *)
Lead(q) ==
  /\ pc[q] = "trying"
  /\ \A l \in Requests : ~Leads(l, url[q])
  /\ Goto(q, "leading", "none")
  /\ UNCHANGED <<cache, warmerVars, requestVars, attempt, leaked, breaker>>

(* The origin's reply reaches the channel of a leader that still listens.  *)
OriginReplies(q) ==
  /\ pc[q] = "leading" /\ reply[q] = "none"
  /\ Goto(q, "leading", "new")
  /\ UNCHANGED <<cache, warmerVars, requestVars, attempt, leaked, breaker>>

(* What the leader's select can take: the response, or the end of its own  *)
(* context.                                                                *)
Selects(q, outcome) ==
  \/ IsBody(outcome) /\ outcome = reply[q]
  \/ outcome = "aborted" /\ q \in gone

WaitersOf(q) ==
  {r \in Requests : pc[r] = "waiting" /\ url[r] = url[q] /\ reply[r] = "none"}

\* Mutant: a leader whose context ended returns without waking its waiters.
SignalNobody(q, outcome) ==
  /\ pc[q] = "leading" /\ Selects(q, outcome)
  /\ pc' = [pc EXCEPT ![q] = "signalled"]
  /\ reply' = [r \in Requests |-> IF r = q \/ (IsBody(outcome) /\ r \in WaitersOf(q))
                                    THEN outcome ELSE reply[r]]
  /\ UNCHANGED <<cache, warmerVars, requestVars, attempt, leaked, breaker>>

(* The leader's select; wg.Done hands the outcome to every waiter.         *)
Signal(q, outcome) ==
  /\ pc[q] = "leading" /\ Selects(q, outcome)
  /\ pc' = [pc EXCEPT ![q] = "signalled"]
  /\ reply' = [r \in Requests |-> IF r = q \/ r \in WaitersOf(q) THEN outcome ELSE reply[r]]
  /\ UNCHANGED <<cache, warmerVars, requestVars, attempt, leaked, breaker>>

(* Do's decision: stop with what fn returned, or back off and try again.   *)
Finally(q, outcome) == Goto(q, "completing", outcome) /\ UNCHANGED attempt
Again(q) == Goto(q, "trying", "none") /\ attempt' = [attempt EXCEPT ![q] = @ + 1]

\* Mutant: an error of a shared call is final.
retryNever(q, outcome) == Finally(q, outcome)

\* Mutant: one attempt too many.
retryOnceMore(q, outcome) ==
  \/ (IsBody(outcome) \/ attempt[q] > MaxAttempts) /\ Finally(q, outcome)
  \/ ~IsBody(outcome) /\ attempt[q] <= MaxAttempts /\ Again(q)

retry(q, outcome) ==
  \/ (IsBody(outcome) \/ attempt[q] = MaxAttempts) /\ Finally(q, outcome)
  \/ ~IsBody(outcome) /\ attempt[q] < MaxAttempts /\ Again(q)

(* fn returns to Do.                                                       *)
FetchReturns(q, outcome) ==
  /\ retry(q, outcome)
  /\ UNCHANGED <<cache, warmerVars, requestVars, leaked, breaker>>

(* The leader deletes its call from inflight and returns.                  *)
Unregister(q) == pc[q] = "signalled" /\ FetchReturns(q, reply[q])

(* A waiter's select: the call is done, or its own context is.             *)
Woken(q) == pc[q] = "waiting" /\ reply[q] # "none" /\ FetchReturns(q, reply[q])
GiveUp(q) == pc[q] = "waiting" /\ q \in gone /\ FetchReturns(q, "aborted")

-----------------------------------------------------------------------------
\* Mutant: the second critical section is skipped when the client has left.
finishSkipped(q) == IF q \in gone THEN breaker ELSE exit(breaker, IsBody(reply[q]))

(* cb.Execute, second critical section.                                    *)
finish(q) == exit(breaker, IsBody(reply[q]))

(* The fetch succeeded.                                                    *)
Succeed(q) ==
  /\ pc[q] = "completing" /\ IsBody(reply[q])
  /\ breaker' = finish(q)
  /\ Goto(q, "storing", reply[q])
  /\ UNCHANGED <<cache, warmerVars, requestVars, attempt, leaked>>

(* It did not: the response is 502.                                        *)
Fail(q) ==
  /\ pc[q] = "completing" /\ ~IsBody(reply[q])
  /\ breaker' = finish(q)
  /\ Answer(q, "failed")
  /\ UNCHANGED <<cache, warmerVars, leaked>>

(* The response is cached (the origin answers 200 to everything), the      *)
(* access is recorded, and the response written.                           *)
Store(q) ==
  /\ pc[q] = "storing"
  /\ cache' = [cache EXCEPT ![url[q]] = reply[q]]
  /\ RecordAccess(url[q])
  /\ Answer(q, "idle")
  /\ UNCHANGED <<leaked, breaker>>

-----------------------------------------------------------------------------
(* A client goes away and net/http cancels its request's context, which    *)
(* the handler looks at only while it is inside Do.                        *)
Leave(q) ==
  /\ pc[q] \in {"trying", "leading", "signalled", "waiting"} /\ q \notin gone
  /\ gone' = gone \cup {q}
  /\ UNCHANGED <<cache, warmerVars, pc, url, attempt, reply, leaked, breaker>>

Held(p) ==
  \/ prefetch[p] \in Bodies
  \/ \E q \in Requests : url[q] = p /\ pc[q] \notin Free /\ IsBody(reply[q])

\* Mutant: the purge deletes an entry under another key (that of its own POST).
PurgeMisses(p) ==
  /\ Age(p)
  /\ reply' = [q \in Requests |-> IF url[q] = p /\ pc[q] \notin Free /\ reply[q] = "new"
                                    THEN "old" ELSE reply[q]]
  /\ leaked' = IF Held(p) THEN leaked \cup {p} ELSE leaked \ {p}
  /\ cache' = [cache EXCEPT ![p] = IF @ = "new" THEN "old" ELSE @]
  /\ UNCHANGED <<accesses, cycle, hot, sem, wg, stopped, pc, requestVars, attempt, breaker>>

(* handlePurge deletes the GET entry of a path; the bodies generated       *)
(* before it, wherever they are, are old from now on.                      *)
Purge(p) ==
  /\ cache' = [cache EXCEPT ![p] = "none"]
  /\ Age(p)
  /\ reply' = [q \in Requests |-> IF url[q] = p /\ pc[q] \notin Free /\ reply[q] = "new"
                                    THEN "old" ELSE reply[q]]
  /\ leaked' = IF Held(p) THEN leaked \cup {p} ELSE leaked \ {p}
  /\ UNCHANGED <<accesses, cycle, hot, sem, wg, stopped, pc, requestVars, attempt, breaker>>

(* An entry's TTL runs out, or it is evicted.                              *)
Expire(p) ==
  /\ cache[p] # "none"
  /\ cache' = [cache EXCEPT ![p] = "none"]
  /\ UNCHANGED <<warmerVars, pc, requestVars, attempt, reply, leaked, breaker>>

(* The timeout of an open breaker passes.                                  *)
Tick ==
  /\ breaker.state = "open" /\ ~OpenExpired(breaker)
  /\ breaker' = [breaker EXCEPT !.age = OpenTimeout + 1]
  /\ UNCHANGED <<cache, warmerVars, pc, requestVars, attempt, reply, leaked>>

(* prefetch: cache.Set, and the goroutine ends.                            *)
PrefetchStores(p) ==
  /\ PrefetchEnds(p)
  /\ cache' = [cache EXCEPT ![p] = prefetch[p]]

(* main stops the warmer once the HTTP server is drained.                  *)
Shutdown == Stop /\ \A q \in Requests : pc[q] \in Free

(* The steps of a warm cycle, and all steps of the warmer.                 *)
Cycle == (CycleStep /\ UNCHANGED cache) \/ \E p \in Paths : PrefetchStores(p)
Exit == LoopExits /\ UNCHANGED cache
Warm == Cycle \/ Exit \/ (Shutdown /\ UNCHANGED cache)

(* A step of the warmer, beside the handlers.                              *)
Beside(A) == A /\ UNCHANGED <<pc, requestVars, attempt, reply, leaked, breaker>>

Fetch(q) ==
  \/ \E l \in Requests : Join(q, l)
  \/ Lead(q)
  \/ \E outcome \in Bodies \cup {"aborted"} : Signal(q, outcome)
  \/ Unregister(q) \/ Woken(q) \/ GiveUp(q)

Step(q) ==
  \/ Admit(q) \/ Reject(q)
  \/ Abandon(q) \/ Fetch(q)
  \/ OriginReplies(q)
  \/ Succeed(q) \/ Fail(q) \/ Store(q)

Next ==
  \/ \E q \in Requests, p \in Paths : Hit(q, p) \/ Miss(q, p)
  \/ \E q \in Requests : Step(q) \/ Leave(q)
  \/ \E p \in Paths : Purge(p) \/ Expire(p)
  \/ Tick \/ Beside(Warm)

Spec == Init /\ [][Next]_vars

(* Handlers and prefetches are scheduled, the origin replies (it sleeps    *)
(* for a bounded latency), the clock advances, and Go's select picks at    *)
(* random, so the loop that meets a closed stopCh again and again leaves.  *)
(* Nothing is assumed of the clients.                                      *)
Fairness ==
  /\ \A q \in Requests : WF_vars(Step(q))
  /\ WF_vars(Tick)
  /\ WF_vars(Beside(Cycle)) /\ SF_vars(Beside(Exit))

FairSpec == Spec /\ Fairness

-----------------------------------------------------------------------------
TypeOK ==
  /\ WarmerTypeOK
  /\ cache \in [Paths -> Bodies \cup {"none"}]
  /\ pc \in [Requests -> Free \cup {"missed", "trying", "leading", "signalled",
                                    "waiting", "completing", "storing"}]
  /\ url \in [Requests -> Paths \cup {"none"}]
  /\ gone \subseteq Requests
  /\ attempt \in [Requests -> 1 .. MaxAttempts]
  /\ reply \in [Requests -> Bodies \cup {"none", "aborted"}]
  /\ leaked \subseteq Paths
  /\ breaker \in [state : States, failures : 0 .. FailThreshold - 1,
                  successes : 0 .. SuccessThreshold - 1, halfOpenInFlight : Int,
                  age : 0 .. OpenTimeout + 1]

(* Coalescing across attempts, in two parts (shield.go:116-183).           *)
(* A handler that waits for a shared call has a leader to wake it: the     *)
(* leader of its own path, one that has not signalled.  (Slots, retries    *)
(* and departures notwithstanding: nobody waits on a call left behind.)    *)
WaitersHaveLeader ==
  \A q \in Requests : pc[q] = "waiting" /\ reply[q] = "none" =>
    \E l \in Requests : Leads(l, url[q]) /\ pc[l] = "leading"

(* No two handlers lead a call for one path.                               *)
OneLeader ==
  \A q, l \in Requests, p \in Paths : Leads(q, p) /\ Leads(l, p) => q = l

(* A path has at most one leader, and its waiters one that will wake them, *)
(* whoever retries or leaves.                                              *)
Leaders == OneLeader /\ WaitersHaveLeader

(* However clients come and go, the half-open breaker keeps its slots: it  *)
(* turns a request away only while HalfOpenMaxConcurrent handlers are      *)
(* inside cb.Execute.                                                      *)
Inside == {q \in Requests : pc[q] \notin Free \cup {"missed", "storing"}}
SpareSlotAdmits ==
  breaker.state = "half-open" /\ Cardinality(Inside) < HalfOpenMaxConcurrent
    => ~Rejects(breaker)

(* What a purge achieves: unless a handler or a prefetch held a response   *)
(* for the path when handlePurge deleted its entry, no response from       *)
(* before the purge is left anywhere in the node to be served: not in the  *)
(* cache, not in a shared call, not in the hand of a handler that will     *)
(* answer with it or store it, not in a prefetch.                          *)
PurgeLeaksOnlyInFlight ==
  \A p \in Paths \ leaked :
    /\ cache[p] # "old" /\ prefetch[p] # "old"
    /\ \A q \in Requests : url[q] = p => reply[q] # "old"

(* A client that stays is not failed by one that leaves while attempts     *)
(* remain: it gets 502 only if the breaker turned it away, or after its    *)
(* last attempt, the one numbered MaxAttempts.                             *)
FailedOnlyIfAbandoned ==
  [][\A q \in Requests :
       pc'[q] = "failed" /\ pc[q] # "failed" /\ q \notin gone
         => attempt[q] = MaxAttempts \/ (pc[q] = "missed" /\ Rejects(breaker))]_vars

(* Every request is answered, whoever it shares a fetch with.              *)
EveryRequestAnswered == \A q \in Requests : pc[q] \notin Free ~> pc[q] \in Free

(* Departures are the only failures: once clients stop leaving, the        *)
(* breaker they may have opened closes and no request gets 502 any more.   *)
FailuresSubside ==
  <>[][gone' \subseteq gone]_vars
    => <>[][\A q \in Requests : pc'[q] = "failed" => pc[q] = "failed"]_vars
=============================================================================
