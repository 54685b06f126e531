--------------------------- MODULE EdgeNodeProofs ---------------------------
(***************************************************************************)
(* Proofs about EdgeNode, for any handlers and paths, any number of        *)
(* attempts, and any settings of the breaker and the warmer.               *)
(***************************************************************************)
EXTENDS EdgeNode, BreakerStateProofs, FiniteSetTheorems

Labels == Free \cup {"missed", "trying", "leading", "signalled",
                     "waiting", "completing", "storing"}
Replies == Bodies \cup {"none", "aborted"}

(* TypeOK, but for the fields of the breaker and the warmer's counters.    *)
HandlerTypes ==
  /\ cache \in [Paths -> Bodies \cup {"none"}]
  /\ prefetch \in [Paths -> Bodies \cup {"none", "fetching"}]
  /\ pc \in [Requests -> Labels]
  /\ url \in [Requests -> Paths \cup {"none"}]
  /\ gone \subseteq Requests
  /\ attempt \in [Requests -> 1 .. MaxAttempts]
  /\ reply \in [Requests -> Replies]
  /\ leaked \subseteq Paths

WarmTypes ==
  /\ accesses \in [Paths -> 0 .. MaxCount]
  /\ cycle \in {"waiting", "pruned", "fetching", "done"}
  /\ hot \subseteq Paths
  /\ stopped \in BOOLEAN

(* PrefetchBound, and what makes it inductive: the semaphore and the       *)
(* WaitGroup of the latest cycle count all the prefetches there are.       *)
PrefetchInv ==
  /\ PrefetchBound
  /\ sem = Cardinality(Active) /\ wg = Cardinality(Active)

(* What a handler has in hand, by where it is.  The last line: a fetch is  *)
(* given up without a response only after the last attempt, or when the    *)
(* client has left.                                                        *)
HandAt(q) ==
  /\ pc[q] \in Free => reply[q] = "none"
  /\ pc[q] \notin Free => url[q] \in Paths
  /\ pc[q] = "signalled" => reply[q] # "none"
  /\ pc[q] = "storing" => reply[q] \in Bodies
  /\ pc[q] = "completing" => reply[q] \in Bodies \/ q \in gone \/ attempt[q] = MaxAttempts

(* The slots taken belong to handlers inside cb.Execute.                   *)
Slots ==
  /\ breaker \in Breakers
  /\ breaker.state # "half-open" => breaker.halfOpenInFlight = 0
  /\ breaker.halfOpenInFlight <= Cardinality(Inside)

Hands == \A q \in Requests : HandAt(q)

IInv ==
  /\ HandlerTypes /\ WarmTypes /\ Hands
  /\ PurgeLeaksOnlyInFlight /\ Leaders /\ PrefetchInv /\ Slots

-----------------------------------------------------------------------------
LEMMA InitIInv == Init => IInv
<1> SUFFICES ASSUME Init PROVE IInv
  OBVIOUS
<1>1. HandlerTypes
  <2>1. attempt \in [Requests -> 1 .. MaxAttempts]
    BY EdgeAssumption DEF Init
  <2>2. pc \in [Requests -> Labels] /\ reply \in [Requests -> Replies]
    BY DEF Init, Labels, Replies, Free
  <2>3. /\ cache \in [Paths -> Bodies \cup {"none"}]
        /\ prefetch \in [Paths -> Bodies \cup {"none", "fetching"}]
    BY DEF Init, WarmerInit
  <2>4. url \in [Requests -> Paths \cup {"none"}] /\ gone = {} /\ leaked = {}
    BY DEF Init
  <2> QED
    BY <2>1, <2>2, <2>3, <2>4 DEF HandlerTypes
<1>2. WarmTypes
  <2>1. accesses \in [Paths -> 0 .. MaxCount] /\ hot \subseteq Paths
    BY WarmerAssumption DEF Init, WarmerInit
  <2>2. cycle \in {"waiting", "pruned", "fetching", "done"} /\ stopped \in BOOLEAN
    BY Zenon DEF Init, WarmerInit
  <2> QED
    BY <2>1, <2>2 DEF WarmTypes
<1>3. Hands
  BY DEF Init, Hands, HandAt, Free
<1>4. PurgeLeaksOnlyInFlight
  BY DEF Init, WarmerInit, PurgeLeaksOnlyInFlight
<1>5. Leaders
  BY DEF Init, Leaders, OneLeader, WaitersHaveLeader, Leads
<1>6. PrefetchInv
  <2>1. Active = {} /\ sem = 0 /\ wg = 0
    BY DEF Init, WarmerInit, Active
  <2> QED
    BY <2>1, FS_EmptySet, WarmerAssumption DEF PrefetchInv, PrefetchBound
<1>7. Slots
  <2>1. Inside = {}
    BY DEF Init, Inside, Free
  <2>2. breaker \in Breakers /\ breaker.halfOpenInFlight = 0
    BY ConfigAssumption DEF Init, NewBreaker, Breakers, States
  <2> QED
    BY <2>1, <2>2, FS_EmptySet DEF Slots
<1> QED
  BY <1>1, <1>2, <1>3, <1>4, <1>5, <1>6, <1>7 DEF IInv

-----------------------------------------------------------------------------
(* Goto and Answer, at q and elsewhere.                                    *)
LEMMA GotoTypes ==
  ASSUME HandlerTypes, NEW q \in Requests, NEW l \in Labels, NEW r \in Replies, Goto(q, l, r)
  PROVE  /\ pc' \in [Requests -> Labels] /\ reply' \in [Requests -> Replies]
         /\ pc'[q] = l /\ reply'[q] = r
         /\ \A x \in Requests \ {q} : pc'[x] = pc[x] /\ reply'[x] = reply[x]
BY DEF HandlerTypes, Goto

LEMMA AnswerTypes ==
  ASSUME HandlerTypes, NEW q \in Requests, NEW l \in Free, Answer(q, l)
  PROVE  /\ pc' \in [Requests -> Labels] /\ reply' \in [Requests -> Replies]
         /\ url' \in [Requests -> Paths \cup {"none"}] /\ gone' \subseteq Requests
         /\ attempt' \in [Requests -> 1 .. MaxAttempts]
         /\ pc'[q] = l /\ reply'[q] = "none" /\ url'[q] = "none"
         /\ \A x \in Requests \ {q} : /\ pc'[x] = pc[x] /\ reply'[x] = reply[x]
                                      /\ url'[x] = url[x] /\ attempt'[x] = attempt[x]
                                      /\ x \in gone' <=> x \in gone
<1>1. Goto(q, l, "none") /\ l \in Labels /\ "none" \in Replies
  BY DEF Answer, Labels, Replies
<1>2. attempt' \in [Requests -> 1 .. MaxAttempts]
  BY EdgeAssumption DEF Answer, HandlerTypes
<1>3. /\ url' \in [Requests -> Paths \cup {"none"}] /\ gone' \subseteq Requests
      /\ url'[q] = "none"
      /\ \A x \in Requests \ {q} : url'[x] = url[x] /\ attempt'[x] = attempt[x]
                                   /\ (x \in gone' <=> x \in gone)
  BY DEF Answer, HandlerTypes
<1> QED
  BY <1>1, <1>2, <1>3, GotoTypes

LEMMA AccessTypes ==
  ASSUME WarmTypes, NEW p, RecordAccess(p)
  PROVE  accesses' \in [Paths -> 0 .. MaxCount]
<1>1. CASE p \in Paths
  <2>1. MaxCount \in Nat /\ accesses[p] \in 0 .. MaxCount
    BY <1>1, WarmerAssumption DEF WarmTypes
  <2>2. (IF accesses[p] < MaxCount THEN accesses[p] + 1 ELSE accesses[p]) \in 0 .. MaxCount
    BY <2>1
  <2> QED
    BY <1>1, <2>2 DEF RecordAccess, WarmTypes
<1>2. CASE p \notin Paths
  BY <1>2 DEF RecordAccess, WarmTypes
<1> QED
  BY <1>1, <1>2

(* A fetch returns to Do: it is over, or there is another attempt.         *)
LEMMA RetryTypes ==
  ASSUME HandlerTypes, NEW q \in Requests, NEW r \in Replies, retry(q, r)
  PROVE  /\ attempt' \in [Requests -> 1 .. MaxAttempts]
         /\ \A x \in Requests \ {q} : attempt'[x] = attempt[x]
         /\ \/ /\ Goto(q, "completing", r)
               /\ r \in Bodies \/ attempt'[q] = MaxAttempts
            \/ Goto(q, "trying", "none")
<1>0. MaxAttempts \in Nat /\ attempt[q] \in 1 .. MaxAttempts
  BY EdgeAssumption DEF HandlerTypes
<1>1. CASE Finally(q, r) /\ (IsBody(r) \/ attempt[q] = MaxAttempts)
  BY <1>1 DEF Finally, HandlerTypes, IsBody
<1>2. CASE Again(q) /\ attempt[q] < MaxAttempts
  BY <1>0, <1>2 DEF Again, HandlerTypes
<1> QED
  BY <1>1, <1>2 DEF retry

-----------------------------------------------------------------------------
(* Types.                                                                  *)
LEMMA RequestTypes ==
  ASSUME HandlerTypes, Hands, NEW q \in Requests, Step(q)
  PROVE  HandlerTypes'
<1> USE DEF HandlerTypes
<1>0. \A l \in {"missed", "trying", "leading", "signalled", "waiting", "completing", "storing"} :
        l \in Labels
  BY DEF Labels
<1>1. "none" \in Replies /\ "new" \in Replies /\ "aborted" \in Replies
  BY DEF Replies, Bodies
<1>2. CASE Admit(q)
  BY <1>0, <1>1, <1>2, GotoTypes DEF Admit, warmerVars, cycleVars, requestVars
<1>3. CASE Reject(q)
  BY <1>3, AnswerTypes DEF Reject, warmerVars, cycleVars, Free
<1>4. CASE Abandon(q)
  BY <1>0, <1>1, <1>4, GotoTypes DEF Abandon, warmerVars, cycleVars, requestVars
<1>5. ASSUME NEW l \in Requests, Join(q, l) PROVE HandlerTypes'
  <2>1. PICK r \in Replies : Goto(q, "waiting", r)
    BY <1>1, <1>5 DEF Join
  <2> QED
    BY <1>0, <1>5, <2>1, GotoTypes DEF Join, warmerVars, cycleVars, requestVars
<1>6. CASE Lead(q)
  BY <1>0, <1>1, <1>6, GotoTypes DEF Lead, warmerVars, cycleVars, requestVars
<1>7. ASSUME NEW r \in Bodies \cup {"aborted"}, Signal(q, r) PROVE HandlerTypes'
  <2>1. reply' \in [Requests -> Replies] /\ pc' \in [Requests -> Labels]
    BY <1>0, <1>7 DEF Signal, Replies
  <2> QED
    BY <1>7, <2>1 DEF Signal, warmerVars, cycleVars, requestVars
<1>8. CASE Unregister(q) \/ Woken(q) \/ GiveUp(q)
  <2>1. PICK r \in Replies : FetchReturns(q, r)
    BY <1>1, <1>8 DEF Unregister, Woken, GiveUp
  <2>2. retry(q, r) /\ UNCHANGED <<cache, prefetch, url, gone, leaked>>
    BY <2>1 DEF FetchReturns, warmerVars, cycleVars, requestVars
  <2> QED
    BY <1>0, <1>1, <2>2, RetryTypes, GotoTypes
<1>9. CASE OriginReplies(q)
  BY <1>0, <1>1, <1>9, GotoTypes DEF OriginReplies, warmerVars, cycleVars, requestVars
<1>10. CASE Succeed(q)
  BY <1>0, <1>10, GotoTypes DEF Succeed, warmerVars, cycleVars, requestVars
<1>11. CASE Fail(q)
  BY <1>11, AnswerTypes DEF Fail, warmerVars, cycleVars, Free
<1>12. CASE Store(q)
  <2>1. url[q] \in Paths /\ reply[q] \in Bodies
    BY <1>12 DEF Store, Hands, HandAt, Free
  <2> QED
    BY <1>12, <2>1, AnswerTypes DEF Store, Free, RecordAccess, cycleVars
<1> QED
  BY <1>2, <1>3, <1>4, <1>5, <1>6, <1>7, <1>8, <1>9, <1>10, <1>11, <1>12 DEF Step, Fetch

LEMMA TypesStep ==
  ASSUME HandlerTypes, Hands, [Next]_vars
  PROVE  HandlerTypes'
<1> USE DEF HandlerTypes
<1>1. ASSUME NEW q \in Requests, NEW p \in Paths, Hit(q, p) PROVE HandlerTypes'
  BY <1>1, AnswerTypes DEF Hit, Free, RecordAccess, cycleVars
<1>2. ASSUME NEW q \in Requests, NEW p \in Paths, Miss(q, p) PROVE HandlerTypes'
  <2>1. "missed" \in Labels /\ "none" \in Replies
    BY DEF Labels, Replies
  <2> QED
    BY <1>2, <2>1, GotoTypes DEF Miss, warmerVars, cycleVars
<1>3. ASSUME NEW q \in Requests, Step(q) PROVE HandlerTypes'
  BY <1>3, RequestTypes
<1>4. ASSUME NEW q \in Requests, Leave(q) PROVE HandlerTypes'
  BY <1>4 DEF Leave, warmerVars, cycleVars
<1>5. ASSUME NEW p \in Paths, Purge(p) PROVE HandlerTypes'
  <2>1. reply' \in [Requests -> Replies] /\ prefetch' \in [Paths -> Bodies \cup {"none", "fetching"}]
    BY <1>5 DEF Purge, Age, Replies, Bodies
  <2>2. leaked' \subseteq Paths
    BY <1>5 DEF Purge
  <2> QED
    BY <1>5, <2>1, <2>2 DEF Purge, requestVars
<1>6. ASSUME NEW p \in Paths, Expire(p) PROVE HandlerTypes'
  BY <1>6 DEF Expire, warmerVars, cycleVars, requestVars
<1>7. CASE Tick
  BY <1>7 DEF Tick, warmerVars, cycleVars, requestVars
<1>8. ASSUME Beside(Warm) PROVE HandlerTypes'
  <2>1. UNCHANGED <<pc, url, gone, attempt, reply, leaked>>
    BY <1>8 DEF Beside, requestVars
  <2>2. CASE (Prune \/ PickHot \/ EndCycle \/ LoopExits \/ Shutdown) /\ UNCHANGED cache
    BY <2>1, <2>2 DEF Prune, PickHot, EndCycle, LoopExits, Shutdown, Stop, cycleVars
  <2>3. ASSUME NEW p \in Paths,
               ((Launch(p) \/ PrefetchReplies(p)) /\ UNCHANGED cache) \/ PrefetchStores(p)
        PROVE  HandlerTypes'
    BY <2>1, <2>3 DEF Launch, PrefetchReplies, PrefetchStores, PrefetchEnds, Bodies
  <2> QED
    BY <1>8, <2>2, <2>3 DEF Beside, Warm, Cycle, CycleStep, Exit
<1>9. CASE UNCHANGED vars
  BY <1>9 DEF vars, warmerVars, cycleVars
<1> QED
  BY <1>1, <1>2, <1>3, <1>4, <1>5, <1>6, <1>7, <1>8, <1>9 DEF Next

(* A step of the node, as the warmer sees it: one of its own, or one of    *)
(* the calls and purges of the handlers.                                   *)
WarmerNext ==
  \/ CycleStep \/ LoopExits \/ Stop
  \/ \E p \in Paths : PrefetchEnds(p)
  \/ \E p : RecordAccess(p)
  \/ \E p \in Paths : Age(p) /\ UNCHANGED <<accesses, cycle, hot, sem, wg, stopped>>

LEMMA WarmerSteps == [Next]_vars => [WarmerNext]_warmerVars
<1> SUFFICES ASSUME [Next]_vars PROVE [WarmerNext]_warmerVars
  OBVIOUS
<1>1. ASSUME NEW q \in Requests, NEW p, Hit(q, p) \/ Miss(q, p) PROVE [WarmerNext]_warmerVars
  BY <1>1 DEF Hit, Miss, WarmerNext
<1>2. ASSUME NEW q \in Requests, Step(q) \/ Leave(q) PROVE [WarmerNext]_warmerVars
  <2>1. CASE Store(q)
    BY <2>1 DEF Store, WarmerNext
  <2>2. CASE ~Store(q)
    BY <1>2, <2>2 DEF Step, Fetch, Leave, Admit, Reject, Abandon, Join, Lead, Signal,
      Unregister, Woken, GiveUp, FetchReturns, OriginReplies, Succeed, Fail
  <2> QED
    BY <2>1, <2>2
<1>3. ASSUME NEW p \in Paths, Purge(p) PROVE WarmerNext
  BY <1>3 DEF Purge, WarmerNext
<1>4. ASSUME Beside(Warm) PROVE WarmerNext
  BY <1>4 DEF Beside, Warm, Cycle, Exit, Shutdown, PrefetchStores, WarmerNext
<1>5. ASSUME (\E p \in Paths : Expire(p)) \/ Tick \/ UNCHANGED vars PROVE UNCHANGED warmerVars
  BY <1>5 DEF Expire, Tick, vars
<1> QED
  BY <1>1, <1>2, <1>3, <1>4, <1>5 DEF Next

LEMMA WarmTypesStep ==
  ASSUME WarmTypes, [WarmerNext]_warmerVars
  PROVE  WarmTypes'
<1>1. CASE UNCHANGED warmerVars
  BY <1>1 DEF WarmTypes, warmerVars, cycleVars
<1>2. ASSUME NEW p, RecordAccess(p) PROVE WarmTypes'
  BY <1>2, AccessTypes DEF WarmTypes, RecordAccess, cycleVars
<1>3. CASE Prune
  <2>1. accesses' \in [Paths -> 0 .. MaxCount]
    BY <1>3, WarmerAssumption DEF Prune, WarmTypes
  <2> QED
    BY <1>3, <2>1 DEF Prune, WarmTypes, cycleVars
<1>4. CASE PickHot
  <2>1. hot' \subseteq Paths
    BY <1>4 DEF PickHot, TopPaths, Cuts, kSubset, Candidates
  <2>2. cycle' \in {"waiting", "fetching"}
    BY <1>4 DEF PickHot
  <2> QED
    BY <1>4, <2>1, <2>2 DEF PickHot, WarmTypes
<1>5. CASE EndCycle \/ LoopExits
  BY <1>5 DEF EndCycle, LoopExits, WarmTypes, cycleVars
<1>6. ASSUME NEW p, Launch(p) \/ PrefetchReplies(p) \/ PrefetchEnds(p) PROVE WarmTypes'
  BY <1>6 DEF Launch, PrefetchReplies, PrefetchEnds, WarmTypes
<1>7. CASE Stop
  <2>1. stopped' \in BOOLEAN
    BY <1>7, Zenon DEF Stop
  <2> QED
    BY <1>7, <2>1 DEF Stop, WarmTypes, cycleVars
<1>8. CASE UNCHANGED <<accesses, cycle, hot, sem, wg, stopped>>
  BY <1>8 DEF WarmTypes
<1> QED
  BY <1>1, <1>2, <1>3, <1>4, <1>5, <1>6, <1>7, <1>8 DEF WarmerNext, CycleStep

(* One cycle at a time, behind its own semaphore and WaitGroup.            *)
LEMMA PrefetchStep ==
  ASSUME prefetch \in [Paths -> Bodies \cup {"none", "fetching"}], PrefetchInv,
         [WarmerNext]_warmerVars
  PROVE  PrefetchInv'
<1>1. IsFiniteSet(Active) /\ Cardinality(Active) \in Nat
  BY WarmerAssumption, FS_Subset, FS_CardinalityType DEF Active
<1>2. CASE Active' = Active /\ UNCHANGED <<hot, sem, wg>> /\ (cycle' = cycle \/ Active = {})
  BY <1>2 DEF PrefetchInv, PrefetchBound
<1>3. ASSUME NEW p, Prune \/ LoopExits \/ Stop \/ RecordAccess(p) PROVE PrefetchInv'
  <2>1. UNCHANGED <<hot, prefetch, sem, wg>> /\ (cycle' = cycle \/ cycle # "fetching")
    BY <1>3 DEF Prune, LoopExits, Stop, RecordAccess, cycleVars
  <2> QED
    BY <1>2, <2>1 DEF PrefetchInv, PrefetchBound, Active
<1>4. CASE PickHot
  <2>1. Active = {} /\ Active' = {} /\ sem' = 0 /\ wg' = 0
    BY <1>4 DEF PickHot, PrefetchInv, PrefetchBound, Active
  <2> QED
    BY <2>1, FS_EmptySet, WarmerAssumption DEF PrefetchInv, PrefetchBound
<1>5. CASE EndCycle
  <2>1. Active = {}
    BY <1>1, <1>5, FS_EmptySet DEF EndCycle, PrefetchInv
  <2>2. Active' = Active /\ UNCHANGED <<hot, sem, wg>>
    BY <1>5 DEF EndCycle, cycleVars, Active
  <2> QED
    BY <1>2, <2>1, <2>2
<1>6. ASSUME NEW p \in Paths, Launch(p) PROVE PrefetchInv'
  <2>1. p \notin Active /\ Active' = Active \cup {p}
    BY <1>6 DEF Launch, PrefetchInv, PrefetchBound, Active
  <2>2. Cardinality(Active') = Cardinality(Active) + 1
    BY <1>1, <2>1, FS_AddElement
  <2>3. Cardinality(Active) < MaxConcurrentFetch /\ sem' = Cardinality(Active) + 1
        /\ wg' = Cardinality(Active) + 1
    BY <1>6 DEF Launch, PrefetchInv
  <2>4. hot' \cap Active' = {} /\ cycle' = "fetching"
    BY <1>6, <2>1 DEF Launch, PrefetchInv, PrefetchBound
  <2>5. Cardinality(Active') <= MaxConcurrentFetch
    BY <1>1, <2>2, <2>3, WarmerAssumption
  <2> QED
    BY <2>2, <2>3, <2>4, <2>5 DEF PrefetchInv, PrefetchBound
<1>7. ASSUME NEW p \in Paths, PrefetchEnds(p) PROVE PrefetchInv'
  <2>1. p \in Active /\ Active' = Active \ {p}
    BY <1>7 DEF PrefetchEnds, Active, Bodies
  <2>2. Cardinality(Active') = Cardinality(Active) - 1
    BY <1>1, <2>1, FS_RemoveElement
  <2>3. Cardinality(Active) <= MaxConcurrentFetch /\ sem' = Cardinality(Active) - 1
        /\ wg' = Cardinality(Active) - 1
    BY <1>7 DEF PrefetchEnds, PrefetchInv, PrefetchBound
  <2>4. hot' \cap Active' = {} /\ (cycle' # "fetching" => Active' = {})
    BY <1>7, <2>1 DEF PrefetchEnds, PrefetchInv, PrefetchBound
  <2>5. Cardinality(Active') <= MaxConcurrentFetch
    BY <1>1, <2>2, <2>3, WarmerAssumption
  <2> QED
    BY <2>2, <2>3, <2>4, <2>5 DEF PrefetchInv, PrefetchBound
<1>8. ASSUME NEW p \in Paths,
             PrefetchReplies(p) \/ (Age(p) /\ UNCHANGED <<accesses, cycle, hot, sem, wg, stopped>>)
      PROVE  PrefetchInv'
  <2>1. Active' = Active
    BY <1>8 DEF PrefetchReplies, Age, Active
  <2> QED
    BY <1>2, <1>8, <2>1 DEF PrefetchReplies
<1>9. CASE UNCHANGED warmerVars
  BY <1>2, <1>9 DEF warmerVars, cycleVars, Active
<1> QED
  BY <1>3, <1>4, <1>5, <1>6, <1>7, <1>8, <1>9 DEF WarmerNext, CycleStep

-----------------------------------------------------------------------------
(* What the handlers have in hand.                                         *)
LEMMA OtherHand ==
  ASSUME NEW x \in Requests, HandAt(x), pc'[x] = pc[x], url'[x] = url[x],
         reply'[x] = reply[x], x \in gone => x \in gone', attempt'[x] = attempt[x]
  PROVE  HandAt(x)'
BY DEF HandAt

LEMMA RequestHands ==
  ASSUME HandlerTypes, Hands, NEW q \in Requests, Step(q)
  PROVE  Hands'
<1>0. \A l \in {"missed", "trying", "leading", "signalled", "waiting", "completing", "storing"} :
        l \in Labels /\ l \notin Free
  BY DEF Labels, Free
<1>1. "none" \in Replies /\ "new" \in Replies /\ "aborted" \in Replies
  BY DEF Replies, Bodies
<1>2. HandAt(q)
  BY DEF Hands
<1>3. ASSUME NEW l \in Free, Answer(q, l) PROVE Hands'
  <2>1. HandAt(q)'
    BY <1>3, AnswerTypes DEF HandAt, Free
  <2>2. ASSUME NEW x \in Requests, x # q PROVE HandAt(x)'
    BY <1>3, <2>2, AnswerTypes, OtherHand DEF Hands
  <2> QED
    BY <2>1, <2>2 DEF Hands
<1>4. ASSUME NEW l \in {"trying", "waiting", "leading", "storing", "completing"},
             NEW r \in Replies, Goto(q, l, r),
             UNCHANGED <<url, gone>>, pc[q] \notin Free,
             \A x \in Requests \ {q} : attempt'[x] = attempt[x],
             l = "storing" => r \in Bodies,
             l = "completing" => r \in Bodies \/ q \in gone \/ attempt'[q] = MaxAttempts
      PROVE  Hands'
  <2>1. HandAt(q)'
    <3>1. pc'[q] = l /\ reply'[q] = r /\ url'[q] \in Paths
      BY <1>0, <1>2, <1>4, GotoTypes DEF HandAt
    <3> QED
      BY <1>0, <1>4, <3>1 DEF HandAt
  <2>2. ASSUME NEW x \in Requests, x # q PROVE HandAt(x)'
    BY <1>0, <1>4, <2>2, GotoTypes, OtherHand DEF Hands
  <2> QED
    BY <2>1, <2>2 DEF Hands
<1>5. CASE Admit(q) \/ Lead(q) \/ OriginReplies(q) \/ Abandon(q)
  BY <1>0, <1>1, <1>4, <1>5 DEF Admit, Lead, OriginReplies, Abandon, requestVars
<1>6. CASE Reject(q) \/ Fail(q) \/ Store(q)
  BY <1>3, <1>6 DEF Reject, Fail, Store, Free
<1>7. ASSUME NEW l \in Requests, Join(q, l) PROVE Hands'
  <2>1. PICK r \in Replies : Goto(q, "waiting", r)
    BY <1>1, <1>7 DEF Join, HandlerTypes
  <2> QED
    BY <1>0, <1>4, <1>7, <2>1 DEF Join, requestVars
<1>8. ASSUME NEW r \in Bodies \cup {"aborted"}, Signal(q, r) PROVE Hands'
  <2>1. r # "none" /\ pc[q] = "leading" /\ UNCHANGED <<url, gone, attempt>>
    BY <1>8 DEF Signal, requestVars, Bodies
  <2>2. pc'[q] = "signalled" /\ reply'[q] = r
    BY <1>8 DEF Signal, HandlerTypes
  <2>3. HandAt(q)'
    BY <1>0, <1>2, <2>1, <2>2 DEF HandAt
  <2>4. ASSUME NEW x \in Requests, x # q PROVE HandAt(x)'
    <3>1. pc'[x] = pc[x] /\ HandAt(x)
      BY <1>8, <2>4 DEF Signal, HandlerTypes, Hands
    <3>2. CASE x \in WaitersOf(q)
      <4>1. pc'[x] = "waiting"
        BY <3>1, <3>2 DEF WaitersOf
      <4> QED
        BY <1>0, <2>1, <3>1, <4>1 DEF HandAt
    <3>3. CASE x \notin WaitersOf(q)
      <4>1. reply'[x] = reply[x]
        BY <1>8, <2>4, <3>3 DEF Signal
      <4> QED
        BY <2>1, <3>1, <4>1, OtherHand
    <3> QED
      BY <3>2, <3>3
  <2> QED
    BY <2>3, <2>4 DEF Hands
<1>9. CASE Unregister(q) \/ Woken(q) \/ GiveUp(q)
  <2>1. PICK r \in Replies : FetchReturns(q, r) /\ pc[q] \notin Free
    BY <1>0, <1>1, <1>9 DEF Unregister, Woken, GiveUp, HandlerTypes
  <2>2. retry(q, r) /\ UNCHANGED <<url, gone>>
    BY <2>1 DEF FetchReturns, requestVars
  <2> QED
    BY <1>1, <1>4, <2>1, <2>2, RetryTypes
<1>10. CASE Succeed(q)
  BY <1>0, <1>4, <1>10 DEF Succeed, requestVars, IsBody, HandlerTypes
<1> QED
  BY <1>5, <1>6, <1>7, <1>8, <1>9, <1>10 DEF Step, Fetch

LEMMA HandsStep ==
  ASSUME HandlerTypes, Hands, [Next]_vars
  PROVE  Hands'
<1>1. ASSUME NEW q \in Requests, NEW p \in Paths, Hit(q, p) PROVE Hands'
  <2>1. Answer(q, "idle") /\ "idle" \in Free
    BY <1>1 DEF Hit, Free
  <2>2. HandAt(q)'
    BY <2>1, AnswerTypes DEF HandAt, Free
  <2>3. ASSUME NEW x \in Requests, x # q PROVE HandAt(x)'
    BY <2>1, <2>3, AnswerTypes, OtherHand DEF Hands
  <2> QED
    BY <2>2, <2>3 DEF Hands
<1>2. ASSUME NEW q \in Requests, NEW p \in Paths, Miss(q, p) PROVE Hands'
  <2>1. /\ Goto(q, "missed", "none") /\ "missed" \in Labels \ Free /\ "none" \in Replies
        /\ url' = [url EXCEPT ![q] = p] /\ UNCHANGED <<gone, attempt>>
    BY <1>2 DEF Miss, Labels, Replies, Free
  <2>2. pc'[q] = "missed" /\ url'[q] \in Paths
    BY <2>1, GotoTypes DEF HandlerTypes
  <2>3. HandAt(q)'
    BY <2>1, <2>2 DEF HandAt
  <2>4. ASSUME NEW x \in Requests, x # q PROVE HandAt(x)'
    <3>1. pc'[x] = pc[x] /\ reply'[x] = reply[x] /\ url'[x] = url[x]
      BY <2>1, <2>4, GotoTypes DEF HandlerTypes
    <3> QED
      BY <2>1, <3>1, OtherHand DEF Hands
  <2> QED
    BY <2>3, <2>4 DEF Hands
<1>3. ASSUME NEW q \in Requests, Step(q) PROVE Hands'
  BY <1>3, RequestHands
<1>4. ASSUME NEW q \in Requests, Leave(q) PROVE Hands'
  BY <1>4, OtherHand DEF Leave, Hands
<1>5. ASSUME NEW p \in Paths, Purge(p) PROVE Hands'
  <2> SUFFICES ASSUME NEW x \in Requests PROVE HandAt(x)'
    BY DEF Hands
  <2>1. /\ UNCHANGED <<pc, url, gone, attempt>> /\ HandAt(x)
        /\ reply'[x] = IF url[x] = p /\ pc[x] \notin Free /\ reply[x] = "new"
                         THEN "old" ELSE reply[x]
    BY <1>5 DEF Purge, requestVars, Hands
  <2>2. CASE url[x] = p /\ pc[x] \notin Free /\ reply[x] = "new"
    <3>1. reply'[x] = "old"
      BY <2>1, <2>2
    <3> QED
      BY <2>1, <2>2, <3>1 DEF HandAt, Bodies
  <2>3. CASE ~(url[x] = p /\ pc[x] \notin Free /\ reply[x] = "new")
    BY <2>1, <2>3, OtherHand
  <2> QED
    BY <2>2, <2>3
<1>6. ASSUME UNCHANGED <<pc, url, gone, attempt, reply>> PROVE Hands'
  BY <1>6, OtherHand DEF Hands
<1>7. ASSUME (\E p \in Paths : Expire(p)) \/ Tick \/ UNCHANGED vars PROVE Hands'
  BY <1>6, <1>7 DEF Expire, Tick, vars, requestVars
<1>8. CASE Beside(Warm)
  BY <1>6, <1>8 DEF Beside, requestVars
<1> QED
  BY <1>1, <1>2, <1>3, <1>4, <1>5, <1>7, <1>8 DEF Next

-----------------------------------------------------------------------------
(* Purges.  No response from before the last purge of p is anywhere.       *)
CleanAt(p) ==
  /\ cache[p] # "old" /\ prefetch[p] # "old"
  /\ \A q \in Requests : url[q] = p => reply[q] # "old"

(* Purge itself: what is held becomes old, and the path leaked.            *)
LEMMA PurgeClean ==
  ASSUME HandlerTypes, Hands, NEW z \in Paths, Purge(z), NEW p \in Paths, p \notin leaked',
         p \notin leaked => CleanAt(p)
  PROVE  CleanAt(p)'
<1>1. /\ cache' = [cache EXCEPT ![z] = "none"]
      /\ prefetch' = [prefetch EXCEPT ![z] = IF @ = "new" THEN "old" ELSE @]
      /\ reply' = [q \in Requests |-> IF url[q] = z /\ pc[q] \notin Free /\ reply[q] = "new"
                                        THEN "old" ELSE reply[q]]
      /\ leaked' = IF Held(z) THEN leaked \cup {z} ELSE leaked \ {z}
      /\ url' = url
  BY DEF Purge, Age, requestVars
<1>2. CASE p = z
  <2>1. ~Held(z)
    BY <1>1, <1>2
  <2>2. prefetch[z] \notin Bodies
    BY <2>1 DEF Held
  <2>3. prefetch'[z] # "old" /\ cache'[z] # "old"
    BY <1>1, <2>2 DEF HandlerTypes, Bodies
  <2>4. ASSUME NEW q \in Requests, url[q] = z PROVE reply'[q] # "old"
    <3>1. pc[q] \notin Free => reply[q] \notin Bodies
      BY <2>1, <2>4 DEF Held, IsBody
    <3>2. pc[q] \in Free => reply[q] = "none"
      BY DEF Hands, HandAt
    <3>3. reply[q] # "new" /\ reply[q] # "old"
      BY <3>1, <3>2 DEF Bodies
    <3> QED
      BY <1>1, <3>3
  <2> QED
    BY <1>1, <1>2, <2>3, <2>4 DEF CleanAt
<1>3. CASE p # z
  <2>1. p \notin leaked
    BY <1>1, <1>3
  <2> QED
    BY <1>1, <1>3, <2>1 DEF CleanAt, HandlerTypes
<1> QED
  BY <1>2, <1>3

LEMMA RequestClean ==
  ASSUME HandlerTypes, Hands, NEW q \in Requests, Step(q), NEW p \in Paths, CleanAt(p)
  PROVE  CleanAt(p)' /\ leaked' = leaked
<1>0. \A l \in {"missed", "trying", "leading", "signalled", "waiting", "completing", "storing"} :
        l \in Labels
  BY DEF Labels
<1>1. "none" \in Replies /\ "new" \in Replies /\ "aborted" \in Replies
  BY DEF Replies, Bodies
<1>2. ASSUME NEW l \in Labels, NEW r \in Replies, Goto(q, l, r),
             UNCHANGED <<cache, prefetch, url, leaked>>, url[q] = p => r # "old"
      PROVE  CleanAt(p)' /\ leaked' = leaked
  BY <1>2, GotoTypes DEF CleanAt
<1>3. ASSUME NEW l \in Free, Answer(q, l), UNCHANGED <<cache, prefetch, leaked>>
      PROVE  CleanAt(p)' /\ leaked' = leaked
  <2>1. \A x \in Requests : url'[x] = p => reply'[x] # "old"
    BY <1>3, AnswerTypes DEF CleanAt
  <2> QED
    BY <1>3, <2>1 DEF CleanAt
<1>4. CASE Admit(q) \/ Lead(q) \/ OriginReplies(q) \/ Abandon(q)
  BY <1>0, <1>1, <1>2, <1>4
    DEF Admit, Lead, OriginReplies, Abandon, requestVars, warmerVars, cycleVars
<1>5. CASE Reject(q) \/ Fail(q)
  BY <1>3, <1>5 DEF Reject, Fail, Free, warmerVars, cycleVars
<1>6. ASSUME NEW l \in Requests, Join(q, l) PROVE CleanAt(p)' /\ leaked' = leaked
  <2>1. PICK r \in Replies : Goto(q, "waiting", r) /\ r \in {reply[l], "none"}
    BY <1>1, <1>6 DEF Join, HandlerTypes
  <2>2. url[q] = p => r # "old"
    BY <1>6, <2>1 DEF Join, Leads, CleanAt
  <2> QED
    BY <1>0, <1>2, <1>6, <2>1, <2>2 DEF Join, requestVars, warmerVars, cycleVars
<1>7. ASSUME NEW r \in Bodies \cup {"aborted"}, Signal(q, r)
      PROVE  CleanAt(p)' /\ leaked' = leaked
  <2>1. UNCHANGED <<cache, prefetch, url, leaked>>
    BY <1>7 DEF Signal, requestVars, warmerVars, cycleVars
  <2>2. url[q] = p => r # "old"
    BY <1>7 DEF Signal, Selects, CleanAt
  <2>3. ASSUME NEW x \in Requests, url[x] = p PROVE reply'[x] # "old"
    <3>1. x = q \/ x \in WaitersOf(q) => reply'[x] = r /\ url[q] = p
      BY <1>7, <2>3 DEF Signal, WaitersOf
    <3>2. ~(x = q \/ x \in WaitersOf(q)) => reply'[x] = reply[x]
      BY <1>7 DEF Signal
    <3> QED
      BY <2>2, <2>3, <3>1, <3>2 DEF CleanAt
  <2> QED
    BY <2>1, <2>3 DEF CleanAt
<1>8. CASE Unregister(q) \/ Woken(q) \/ GiveUp(q)
  <2>1. PICK r \in Replies : FetchReturns(q, r) /\ r \in {reply[q], "aborted"}
    BY <1>1, <1>8 DEF Unregister, Woken, GiveUp, HandlerTypes
  <2>2. retry(q, r) /\ UNCHANGED <<cache, prefetch, url, leaked>>
    BY <2>1 DEF FetchReturns, requestVars, warmerVars, cycleVars
  <2>3. url[q] = p => r # "old"
    BY <2>1 DEF CleanAt
  <2> QED
    BY <1>0, <1>1, <1>2, <2>2, <2>3, RetryTypes
<1>9. CASE Succeed(q)
  <2>1. reply[q] \in Replies /\ (url[q] = p => reply[q] # "old")
    BY DEF HandlerTypes, CleanAt
  <2> QED
    BY <1>0, <1>2, <1>9, <2>1 DEF Succeed, requestVars, warmerVars, cycleVars
<1>10. CASE Store(q)
  <2>1. Answer(q, "idle") /\ "idle" \in Free
    BY <1>10 DEF Store, Free
  <2>2. \A x \in Requests : url'[x] = p => reply'[x] # "old"
    BY <2>1, AnswerTypes DEF CleanAt
  <2>3. cache'[p] # "old"
    BY <1>10 DEF Store, CleanAt, HandlerTypes
  <2> QED
    BY <1>10, <2>2, <2>3 DEF Store, CleanAt, RecordAccess, cycleVars
<1> QED
  BY <1>4, <1>5, <1>6, <1>7, <1>8, <1>9, <1>10 DEF Step, Fetch

LEMMA CleanStep ==
  ASSUME HandlerTypes, Hands, PurgeLeaksOnlyInFlight, [Next]_vars
  PROVE  PurgeLeaksOnlyInFlight'
<1> SUFFICES ASSUME NEW p \in Paths, p \notin leaked' PROVE CleanAt(p)'
  BY DEF PurgeLeaksOnlyInFlight, CleanAt
<1>0. p \notin leaked => CleanAt(p)
  BY DEF PurgeLeaksOnlyInFlight, CleanAt
<1>1. ASSUME NEW q \in Requests, NEW z \in Paths, Hit(q, z) PROVE CleanAt(p)'
  <2>1. Answer(q, "idle") /\ "idle" \in Free /\ UNCHANGED <<cache, prefetch, leaked>>
    BY <1>1 DEF Hit, Free, RecordAccess, cycleVars
  <2>2. \A x \in Requests : url'[x] = p => reply'[x] # "old"
    BY <1>0, <2>1, AnswerTypes DEF CleanAt
  <2> QED
    BY <1>0, <2>1, <2>2 DEF CleanAt
<1>2. ASSUME NEW q \in Requests, NEW z \in Paths, Miss(q, z) PROVE CleanAt(p)'
  <2>1. /\ Goto(q, "missed", "none") /\ "missed" \in Labels /\ "none" \in Replies
        /\ url' = [url EXCEPT ![q] = z] /\ UNCHANGED <<cache, prefetch, leaked>>
    BY <1>2 DEF Miss, Labels, Replies, warmerVars, cycleVars
  <2>2. \A x \in Requests : url'[x] = p => reply'[x] # "old"
    BY <1>0, <2>1, GotoTypes DEF CleanAt, HandlerTypes
  <2> QED
    BY <1>0, <2>1, <2>2 DEF CleanAt
<1>3. ASSUME NEW q \in Requests, Step(q) PROVE CleanAt(p)'
  <2>1. leaked' = leaked
    BY <1>3 DEF Step, Fetch, Admit, Reject, Abandon, Join, Lead, Signal,
      Unregister, Woken, GiveUp, FetchReturns, OriginReplies, Succeed, Fail, Store
  <2> QED
    BY <1>0, <1>3, <2>1, RequestClean
<1>4. ASSUME NEW z \in Paths, Purge(z) PROVE CleanAt(p)'
  BY <1>0, <1>4, PurgeClean
<1>5. ASSUME NEW z \in Paths, Expire(z) PROVE CleanAt(p)'
  BY <1>0, <1>5 DEF Expire, CleanAt, HandlerTypes, requestVars, warmerVars, cycleVars
<1>6. ASSUME UNCHANGED <<cache, prefetch, url, reply, leaked>> PROVE CleanAt(p)'
  BY <1>0, <1>6 DEF CleanAt
<1>7. CASE (\E q \in Requests : Leave(q)) \/ Tick \/ UNCHANGED vars
  BY <1>6, <1>7 DEF Leave, Tick, vars, requestVars, warmerVars, cycleVars
<1>8. CASE Beside(Warm)
  <2>1. UNCHANGED <<url, reply, leaked>>
    BY <1>8 DEF Beside, requestVars
  <2>2. CASE (Prune \/ PickHot \/ EndCycle \/ LoopExits \/ Shutdown) /\ UNCHANGED cache
    BY <1>6, <2>1, <2>2 DEF Prune, PickHot, EndCycle, LoopExits, Shutdown, Stop, cycleVars
  <2>3. ASSUME NEW z \in Paths,
               ((Launch(z) \/ PrefetchReplies(z)) /\ UNCHANGED cache) \/ PrefetchStores(z)
        PROVE  CleanAt(p)'
    <3>1. CleanAt(p)
      BY <1>0, <2>1
    <3>2. prefetch'[p] # "old" /\ cache'[p] # "old"
      BY <2>3, <3>1 DEF Launch, PrefetchReplies, PrefetchStores, PrefetchEnds, CleanAt, HandlerTypes
    <3> QED
      BY <2>1, <3>1, <3>2 DEF CleanAt
  <2> QED
    BY <1>8, <2>2, <2>3 DEF Beside, Warm, Cycle, CycleStep, Exit
<1> QED
  BY <1>1, <1>2, <1>3, <1>4, <1>5, <1>7, <1>8 DEF Next

-----------------------------------------------------------------------------
(* The shield: who leads and who waits.  First the steps of a handler that *)
(* neither leads a fetch nor begins to wait for one.                       *)
LEMMA AsideLeaders ==
  ASSUME Leaders, NEW q \in Requests, pc[q] # "leading",
         pc'[q] \notin {"leading", "signalled", "waiting"},
         \A x \in Requests \ {q} : pc'[x] = pc[x] /\ url'[x] = url[x] /\ reply'[x] = reply[x]
  PROVE  Leaders'
<1>1. ASSUME NEW x \in Requests, NEW p, Leads(x, p)' PROVE x # q /\ Leads(x, p)
  BY <1>1 DEF Leads
<1>2. OneLeader'
  <2> SUFFICES ASSUME NEW x \in Requests, NEW y \in Requests, NEW p \in Paths,
                      Leads(x, p)', Leads(y, p)'
               PROVE  x = y
    BY DEF OneLeader
  <2> QED
    BY <1>1 DEF Leaders, OneLeader
<1>3. WaitersHaveLeader'
  <2> SUFFICES ASSUME NEW x \in Requests, pc'[x] = "waiting", reply'[x] = "none"
               PROVE  \E l \in Requests : url'[l] = url'[x] /\ pc'[l] = "leading"
    BY DEF WaitersHaveLeader, Leads
  <2>1. x # q /\ pc[x] = "waiting" /\ reply[x] = "none" /\ url'[x] = url[x]
    OBVIOUS
  <2>2. PICK l \in Requests : Leads(l, url[x]) /\ pc[l] = "leading"
    BY <2>1 DEF Leaders, WaitersHaveLeader
  <2>3. pc'[l] = "leading" /\ url'[l] = url[l]
    BY <2>2
  <2> QED
    BY <2>1, <2>2, <2>3 DEF Leads
<1> QED
  BY <1>2, <1>3 DEF Leaders

(* Steps that move no handler.                                             *)
LEMMA StillLeaders ==
  ASSUME Leaders, UNCHANGED url, \A x \in Requests : pc'[x] = pc[x],
         \A x \in Requests : pc[x] = "waiting" /\ reply'[x] = "none" => reply[x] = "none"
  PROVE  Leaders'
<1>1. \A x \in Requests, p \in Paths : Leads(x, p)' => Leads(x, p)
  BY DEF Leads
<1>2. OneLeader'
  BY <1>1 DEF Leaders, OneLeader
<1>3. WaitersHaveLeader'
  BY DEF Leaders, WaitersHaveLeader, Leads
<1> QED
  BY <1>2, <1>3 DEF Leaders

LEMMA RequestLeaders ==
  ASSUME HandlerTypes, Hands, Leaders, NEW q \in Requests, Step(q)
  PROVE  Leaders'
<1>0. \A l \in {"missed", "trying", "leading", "signalled", "waiting", "completing", "storing"} :
        l \in Labels
  BY DEF Labels
<1>1. "none" \in Replies /\ "new" \in Replies /\ "aborted" \in Replies
  BY DEF Replies, Bodies
<1>2. ASSUME NEW l \in {"trying", "completing", "storing"}, NEW r \in Replies, Goto(q, l, r),
             pc[q] # "leading", url' = url
      PROVE  Leaders'
  BY <1>0, <1>2, GotoTypes, AsideLeaders
<1>3. CASE Admit(q) \/ Abandon(q)
  BY <1>1, <1>2, <1>3 DEF Admit, Abandon, requestVars
<1>4. CASE Reject(q) \/ Fail(q) \/ Store(q)
  <2>1. PICK l \in Free : Answer(q, l) /\ pc[q] # "leading"
    BY <1>4 DEF Reject, Fail, Store, Free
  <2>2. l \notin {"leading", "signalled", "waiting"}
    BY DEF Free
  <2> QED
    BY <2>1, <2>2, AnswerTypes, AsideLeaders
<1>5. CASE OriginReplies(q)
  <2>1. pc[q] = "leading" /\ Goto(q, "leading", "new") /\ url' = url
    BY <1>5 DEF OriginReplies, requestVars
  <2>2. \A x \in Requests : pc'[x] = pc[x]
    BY <1>0, <1>1, <2>1, GotoTypes
  <2>3. \A x \in Requests : pc[x] = "waiting" => reply'[x] = reply[x]
    BY <1>0, <1>1, <2>1, GotoTypes
  <2> QED
    BY <2>1, <2>2, <2>3, StillLeaders
<1>6. ASSUME NEW l \in Requests, Join(q, l) PROVE Leaders'
  <2>1. PICK r \in Replies : Goto(q, "waiting", r) /\ (pc[l] = "signalled" => r = reply[l])
    BY <1>1, <1>6 DEF Join, HandlerTypes
  <2>2. pc[q] = "trying" /\ Leads(l, url[q]) /\ url' = url
    BY <1>6 DEF Join, requestVars
  <2>3. /\ pc'[q] = "waiting" /\ reply'[q] = r
        /\ \A x \in Requests \ {q} : pc'[x] = pc[x] /\ reply'[x] = reply[x]
    BY <1>0, <2>1, GotoTypes
  <2>4. r = "none" => pc[l] = "leading"
    <3>1. pc[l] = "signalled" => reply[l] # "none"
      BY DEF Hands, HandAt
    <3> QED
      BY <2>1, <2>2, <3>1 DEF Leads
  <2>5. ASSUME NEW x \in Requests, NEW p, Leads(x, p)' PROVE Leads(x, p)
    BY <2>2, <2>3, <2>5 DEF Leads
  <2>6. OneLeader'
    BY <2>5 DEF Leaders, OneLeader
  <2>7. ASSUME NEW x \in Requests, pc'[x] = "waiting", reply'[x] = "none"
        PROVE  \E k \in Requests : url'[k] = url'[x] /\ pc'[k] = "leading"
    <3>1. CASE x = q
      <4>1. l # q /\ pc[l] = "leading" /\ url[l] = url[q]
        BY <2>2, <2>3, <2>4, <2>7, <3>1 DEF Leads
      <4> QED
        BY <2>2, <2>3, <3>1, <4>1
    <3>2. CASE x # q
      <4>1. PICK k \in Requests : Leads(k, url[x]) /\ pc[k] = "leading"
        BY <2>3, <2>7, <3>2 DEF Leaders, WaitersHaveLeader
      <4> QED
        BY <2>2, <2>3, <4>1 DEF Leads
    <3> QED
      BY <3>1, <3>2
  <2>8. WaitersHaveLeader'
    BY <2>7 DEF WaitersHaveLeader, Leads
  <2> QED
    BY <2>6, <2>8 DEF Leaders
<1>7. CASE Lead(q)
  <2>1. /\ pc[q] = "trying" /\ Goto(q, "leading", "none") /\ url' = url
        /\ \A l \in Requests : ~Leads(l, url[q])
    BY <1>7 DEF Lead, requestVars
  <2>2. /\ pc'[q] = "leading"
        /\ \A x \in Requests \ {q} : pc'[x] = pc[x] /\ reply'[x] = reply[x]
    BY <1>0, <1>1, <2>1, GotoTypes
  <2>3. ASSUME NEW x \in Requests, NEW p, Leads(x, p)' PROVE Leads(x, p) \/ (x = q /\ p = url[q])
    BY <2>1, <2>2, <2>3 DEF Leads
  <2>4. OneLeader'
    <3> SUFFICES ASSUME NEW x \in Requests, NEW y \in Requests, NEW p \in Paths,
                        Leads(x, p)', Leads(y, p)'
                 PROVE  x = y
      BY DEF OneLeader
    <3> QED
      BY <2>1, <2>3 DEF Leaders, OneLeader
  <2>5. WaitersHaveLeader'
    <3> SUFFICES ASSUME NEW x \in Requests, pc'[x] = "waiting", reply'[x] = "none"
                 PROVE  \E l \in Requests : url'[l] = url'[x] /\ pc'[l] = "leading"
      BY DEF WaitersHaveLeader, Leads
    <3>1. PICK l \in Requests : Leads(l, url[x]) /\ pc[l] = "leading"
      BY <2>2 DEF Leaders, WaitersHaveLeader
    <3> QED
      BY <2>1, <2>2, <3>1 DEF Leads
  <2> QED
    BY <2>4, <2>5 DEF Leaders
<1>8. ASSUME NEW r \in Bodies \cup {"aborted"}, Signal(q, r) PROVE Leaders'
  <2>1. /\ r # "none" /\ pc[q] = "leading" /\ url' = url
        /\ pc'[q] = "signalled" /\ \A x \in Requests \ {q} : pc'[x] = pc[x]
    BY <1>8 DEF Signal, requestVars, Bodies, HandlerTypes
  <2>2. ASSUME NEW x \in Requests, NEW p, Leads(x, p)' PROVE Leads(x, p)
    BY <2>1, <2>2 DEF Leads
  <2>3. OneLeader'
    BY <2>2 DEF Leaders, OneLeader
  <2>4. WaitersHaveLeader'
    <3> SUFFICES ASSUME NEW x \in Requests, pc'[x] = "waiting", reply'[x] = "none"
                 PROVE  \E l \in Requests : url'[l] = url'[x] /\ pc'[l] = "leading"
      BY DEF WaitersHaveLeader, Leads
    <3>1. x # q /\ pc[x] = "waiting"
      BY <2>1
    <3>2. x \notin WaitersOf(q)
      BY <1>8, <2>1 DEF Signal
    <3>3. reply[x] = "none"
      BY <1>8, <3>1, <3>2 DEF Signal
    <3>4. PICK l \in Requests : Leads(l, url[x]) /\ pc[l] = "leading"
      BY <3>1, <3>3 DEF Leaders, WaitersHaveLeader
    <3>5. l # q
      BY <3>1, <3>2, <3>3, <3>4 DEF WaitersOf, Leads
    <3> QED
      BY <2>1, <3>4, <3>5 DEF Leads
  <2> QED
    BY <2>3, <2>4 DEF Leaders
<1>9. CASE Unregister(q) \/ Woken(q) \/ GiveUp(q)
  <2>1. PICK r \in Replies : FetchReturns(q, r) /\ pc[q] # "leading"
    BY <1>1, <1>9 DEF Unregister, Woken, GiveUp, HandlerTypes
  <2>2. retry(q, r) /\ url' = url
    BY <2>1 DEF FetchReturns, requestVars
  <2> QED
    BY <1>1, <1>2, <2>1, <2>2, RetryTypes
<1>10. CASE Succeed(q)
  BY <1>2, <1>10 DEF Succeed, requestVars, HandlerTypes
<1> QED
  BY <1>3, <1>4, <1>5, <1>6, <1>7, <1>8, <1>9, <1>10 DEF Step, Fetch

LEMMA LeadersStep ==
  ASSUME HandlerTypes, Hands, Leaders, [Next]_vars
  PROVE  Leaders'
<1>1. ASSUME NEW q \in Requests, NEW p \in Paths, Hit(q, p) PROVE Leaders'
  <2>1. Answer(q, "idle") /\ "idle" \in Free /\ pc[q] # "leading"
    BY <1>1 DEF Hit, Free
  <2> QED
    BY <2>1, AnswerTypes, AsideLeaders
<1>2. ASSUME NEW q \in Requests, NEW p \in Paths, Miss(q, p) PROVE Leaders'
  <2>1. /\ Goto(q, "missed", "none") /\ "missed" \in Labels /\ "none" \in Replies
        /\ url' = [url EXCEPT ![q] = p] /\ pc[q] # "leading"
    BY <1>2 DEF Miss, Labels, Replies, Free
  <2>2. \A x \in Requests \ {q} : url'[x] = url[x]
    BY <2>1 DEF HandlerTypes
  <2> QED
    BY <2>1, <2>2, GotoTypes, AsideLeaders
<1>3. ASSUME NEW q \in Requests, Step(q) PROVE Leaders'
  BY <1>3, RequestLeaders
<1>4. ASSUME NEW p \in Paths, Purge(p) PROVE Leaders'
  <2>1. \A x \in Requests : reply'[x] = "none" => reply[x] = "none"
    BY <1>4 DEF Purge
  <2> QED
    BY <1>4, <2>1, StillLeaders DEF Purge, requestVars
<1>5. CASE UNCHANGED <<pc, url, reply>>
  BY <1>5, StillLeaders
<1>6. CASE (\E q \in Requests : Leave(q)) \/ (\E p \in Paths : Expire(p)) \/ Tick \/ UNCHANGED vars
  BY <1>5, <1>6 DEF Leave, Expire, Tick, vars, requestVars
<1>7. CASE Beside(Warm)
  BY <1>5, <1>7 DEF Beside, requestVars
<1> QED
  BY <1>1, <1>2, <1>3, <1>4, <1>6, <1>7 DEF Next

-----------------------------------------------------------------------------
(* The breaker: its slots are taken by handlers inside cb.Execute.         *)
Outside == Free \cup {"missed", "storing"}

LEMMA InsideFinite == IsFiniteSet(Inside) /\ Cardinality(Inside) \in Nat
BY EdgeAssumption, FS_Subset, FS_CardinalityType DEF Inside

(* Steps that leave the breaker alone and take nobody out of it.           *)
LEMMA QuietSlots ==
  ASSUME Slots, breaker' = breaker, Inside' = Inside
  PROVE  Slots'
BY DEF Slots

LEMMA SameInside ==
  ASSUME HandlerTypes, Slots, breaker' = breaker, NEW q \in Requests,
         pc'[q] \in Outside <=> pc[q] \in Outside,
         \A x \in Requests \ {q} : pc'[x] = pc[x]
  PROVE  Slots'
<1>1. Inside' = Inside
  BY DEF Inside, Outside
<1> QED
  BY <1>1, QuietSlots

LEMMA AdmitSlots ==
  ASSUME HandlerTypes, Slots, NEW q \in Requests, Admit(q)
  PROVE  Slots'
<1>1. /\ pc[q] = "missed" /\ ~Rejects(breaker) /\ breaker' = enter(breaker)
      /\ pc' = [pc EXCEPT ![q] = "trying"]
  BY DEF Admit, Goto
<1>2. Inside' = Inside \cup {q} /\ q \notin Inside
  BY <1>1 DEF Inside, Free, HandlerTypes
<1>3. Cardinality(Inside') = Cardinality(Inside) + 1 /\ Cardinality(Inside) \in Nat
  BY <1>2, InsideFinite, FS_AddElement
<1>4. /\ breaker \in Breakers /\ breaker.halfOpenInFlight \in Int /\ breaker.state \in States
      /\ breaker.halfOpenInFlight <= Cardinality(Inside)
      /\ breaker.state # "half-open" => breaker.halfOpenInFlight = 0
  BY DEF Slots, Breakers
<1>5. /\ breaker' \in Breakers
      /\ breaker.state = "closed" => breaker' = breaker
      /\ breaker.state # "closed" => breaker'.state = "half-open"
      /\ breaker.state = "half-open" => breaker'.halfOpenInFlight = breaker.halfOpenInFlight + 1
      /\ breaker.state = "open" => breaker'.halfOpenInFlight = 1
  BY <1>1, <1>4, EnterFields
<1>6. breaker'.state # "half-open" => breaker'.halfOpenInFlight = 0
  BY <1>4, <1>5
<1>7. breaker'.halfOpenInFlight <= Cardinality(Inside')
  BY <1>3, <1>4, <1>5 DEF States
<1> QED
  BY <1>5, <1>6, <1>7 DEF Slots

LEMMA FinishSlots ==
  ASSUME HandlerTypes, Slots, NEW q \in Requests, Succeed(q) \/ Fail(q)
  PROVE  Slots'
<1>1. /\ pc[q] = "completing" /\ breaker' = exit(breaker, IsBody(reply[q]))
      /\ pc' = [pc EXCEPT ![q] = "storing"] \/ pc' = [pc EXCEPT ![q] = "failed"]
  BY DEF Succeed, Fail, finish, Goto, Answer
<1>2. Inside' = Inside \ {q} /\ q \in Inside
  BY <1>1 DEF Inside, Free, HandlerTypes
<1>3. Cardinality(Inside') = Cardinality(Inside) - 1 /\ Cardinality(Inside) \in Nat
  BY <1>2, InsideFinite, FS_RemoveElement
<1>4. Cardinality(Inside') \in Nat
  BY <1>2, InsideFinite, FS_Subset, FS_CardinalityType
<1>5. /\ breaker \in Breakers /\ breaker.halfOpenInFlight \in Int
      /\ breaker.halfOpenInFlight <= Cardinality(Inside)
      /\ breaker.state # "half-open" => breaker.halfOpenInFlight = 0
  BY DEF Slots, Breakers
<1>6. IsBody(reply[q]) \in BOOLEAN
  BY DEF IsBody
<1>7. /\ breaker' \in Breakers
      /\ IF breaker'.state = "half-open"
           THEN breaker'.halfOpenInFlight = breaker.halfOpenInFlight - 1
           ELSE breaker'.halfOpenInFlight = 0
  BY <1>1, <1>5, <1>6, ExitFields
<1>8. breaker'.halfOpenInFlight <= Cardinality(Inside')
  BY <1>3, <1>4, <1>5, <1>7
<1> QED
  BY <1>7, <1>8 DEF Slots

LEMMA TickSlots ==
  ASSUME Slots, Tick
  PROVE  Slots'
<1>1. breaker' = [breaker EXCEPT !.age = OpenTimeout + 1] /\ breaker \in Breakers /\ pc' = pc
  BY DEF Tick, Slots
<1>2. /\ breaker' \in Breakers /\ breaker'.state = breaker.state
      /\ breaker'.halfOpenInFlight = breaker.halfOpenInFlight
  BY <1>1, ConfigAssumption DEF Breakers
<1>3. Inside' = Inside
  BY <1>1 DEF Inside
<1> QED
  BY <1>2, <1>3 DEF Slots

LEMMA SlotsStep ==
  ASSUME HandlerTypes, Hands, Slots, [Next]_vars
  PROVE  Slots'
<1>0. \A l \in {"missed", "trying", "leading", "signalled", "waiting", "completing", "storing"} :
        l \in Labels /\ (l \in Outside <=> l \in {"missed", "storing"})
  BY DEF Labels, Outside, Free
<1>1. "none" \in Replies /\ "new" \in Replies /\ "aborted" \in Replies
  BY DEF Replies, Bodies
<1>2. \A l \in Free : l \in Outside /\ l \in Labels
  BY DEF Outside, Labels
<1>3. ASSUME NEW q \in Requests, NEW l \in Labels, NEW r \in Replies, Goto(q, l, r),
             breaker' = breaker, l \in Outside <=> pc[q] \in Outside
      PROVE  Slots'
  BY <1>3, GotoTypes, SameInside
<1>4. ASSUME NEW q \in Requests, NEW p \in Paths, Hit(q, p) \/ Miss(q, p) PROVE Slots'
  BY <1>0, <1>1, <1>2, <1>3, <1>4 DEF Hit, Miss, Answer, Free
<1>5. ASSUME NEW q \in Requests, Step(q) PROVE Slots'
  <2>1. CASE Admit(q)
    BY <2>1, AdmitSlots
  <2>2. CASE Succeed(q) \/ Fail(q)
    BY <2>2, FinishSlots
  <2>3. CASE Reject(q) \/ Store(q)
    BY <1>0, <1>1, <1>2, <1>3, <2>3 DEF Reject, Store, Answer, Free
  <2>4. CASE Abandon(q) \/ Lead(q) \/ OriginReplies(q)
    BY <1>0, <1>1, <1>3, <2>4 DEF Abandon, Lead, OriginReplies
  <2>5. ASSUME NEW l \in Requests, Join(q, l) PROVE Slots'
    <3>1. PICK r \in Replies : Goto(q, "waiting", r) /\ breaker' = breaker /\ pc[q] = "trying"
      BY <1>1, <2>5 DEF Join, HandlerTypes
    <3> QED
      BY <1>0, <1>3, <3>1
  <2>6. ASSUME NEW r \in Bodies \cup {"aborted"}, Signal(q, r) PROVE Slots'
    <3>1. /\ pc[q] = "leading" /\ pc'[q] = "signalled" /\ breaker' = breaker
          /\ \A x \in Requests \ {q} : pc'[x] = pc[x]
      BY <2>6 DEF Signal, HandlerTypes
    <3> QED
      BY <1>0, <3>1, SameInside
  <2>7. CASE Unregister(q) \/ Woken(q) \/ GiveUp(q)
    <3>1. PICK r \in Replies : FetchReturns(q, r) /\ pc[q] \in {"signalled", "waiting"}
      BY <1>1, <2>7 DEF Unregister, Woken, GiveUp, HandlerTypes
    <3>2. retry(q, r) /\ breaker' = breaker
      BY <3>1 DEF FetchReturns
    <3> QED
      BY <1>0, <1>1, <1>3, <3>1, <3>2, RetryTypes
  <2> QED
    BY <1>5, <2>1, <2>2, <2>3, <2>4, <2>5, <2>6, <2>7 DEF Step, Fetch
<1>6. CASE UNCHANGED <<pc, breaker>>
  BY <1>6, QuietSlots DEF Inside
<1>7. CASE (\E q \in Requests : Leave(q)) \/ (\E p \in Paths : Purge(p) \/ Expire(p)) \/ UNCHANGED vars
  BY <1>6, <1>7 DEF Leave, Purge, Expire, vars
<1>8. CASE Beside(Warm)
  BY <1>6, <1>8 DEF Beside
<1> QED
  BY <1>4, <1>5, <1>7, <1>8, TickSlots DEF Next

-----------------------------------------------------------------------------
LEMMA NextIInv == IInv /\ [Next]_vars => IInv'
<1> SUFFICES ASSUME IInv, [Next]_vars PROVE IInv'
  OBVIOUS
<1>1. HandlerTypes' /\ Hands'
  BY TypesStep, HandsStep DEF IInv
<1>2. WarmTypes' /\ PrefetchInv'
  BY WarmerSteps, WarmTypesStep, PrefetchStep DEF IInv, HandlerTypes
<1>3. PurgeLeaksOnlyInFlight' /\ Leaders' /\ Slots'
  BY CleanStep, LeadersStep, SlotsStep DEF IInv
<1> QED
  BY <1>1, <1>2, <1>3 DEF IInv

LEMMA EdgeIInv == Spec => []IInv
BY InitIInv, NextIInv, PTL DEF Spec

(* The state of the node is well-formed: attempts never exceed MaxAttempts *)
(* and the breaker's counters never reach their thresholds (retry.go:121,  *)
(* circuitbreaker.go:163-189).                                             *)
THEOREM EdgeTypes == Spec => []TypeOK
<1>1. IInv => TypeOK
  <2>1. IInv => sem \in Nat /\ wg \in Nat
    BY WarmerAssumption, FS_Subset, FS_CardinalityType DEF IInv, PrefetchInv, Active
  <2> QED
    BY <2>1 DEF IInv, HandlerTypes, WarmTypes, Slots, Breakers, TypeOK, WarmerTypeOK, Labels, Replies
<1> QED
  BY <1>1, EdgeIInv, PTL

(* Nobody waits on a call whose leader is gone, and no two handlers lead a *)
(* call for one path (shield.go:116-183).                                  *)
THEOREM EdgeLeaders == Spec => []Leaders
<1>1. IInv => Leaders
  BY DEF IInv
<1> QED
  BY <1>1, EdgeIInv, PTL

(* A half-open breaker turns a request away only while                     *)
(* HalfOpenMaxConcurrent handlers are inside cb.Execute, however clients   *)
(* come and go (circuitbreaker.go:137-153, router.go:126).                 *)
THEOREM EdgeSpareSlotAdmits == Spec => []SpareSlotAdmits
<1>1. IInv => SpareSlotAdmits
  <2> SUFFICES ASSUME IInv, breaker.state = "half-open",
                      Cardinality(Inside) < HalfOpenMaxConcurrent
               PROVE  ~Rejects(breaker)
    BY DEF SpareSlotAdmits
  <2>1. breaker.halfOpenInFlight \in Int /\ breaker.halfOpenInFlight <= Cardinality(Inside)
    BY DEF IInv, Slots, Breakers
  <2>2. breaker.halfOpenInFlight < HalfOpenMaxConcurrent
    BY <2>1, InsideFinite, ConfigAssumption
  <2> QED
    BY <2>1, <2>2, ConfigAssumption DEF Rejects
<1> QED
  BY <1>1, EdgeIInv, PTL

(* Warm cycles do not overlap, so that the semaphores of all of them       *)
(* together admit MaxConcurrentFetch prefetches, and never two of a path   *)
(* (warming.go:172-197).                                                   *)
THEOREM EdgePrefetchBound == Spec => []PrefetchBound
<1>1. IInv => PrefetchBound
  BY DEF IInv, PrefetchInv
<1> QED
  BY <1>1, EdgeIInv, PTL

(* A purge removes every response but those held by a handler or a         *)
(* prefetch at that moment (router.go:204-223, 169, warming.go:219).       *)
THEOREM EdgePurge == Spec => []PurgeLeaksOnlyInFlight
<1>1. IInv => PurgeLeaksOnlyInFlight
  BY DEF IInv
<1> QED
  BY <1>1, EdgeIInv, PTL

(* Only an open breaker, or MaxAttempts aborted fetches, fail a client     *)
(* that stays (retry.go:117-164, router.go:126-149).                       *)
THEOREM EdgeFailures == Spec => FailedOnlyIfAbandoned
<1>1. ASSUME HandlerTypes, Hands, [Next]_vars, NEW q \in Requests,
             pc'[q] = "failed", pc[q] # "failed", q \notin gone
      PROVE  attempt[q] = MaxAttempts \/ (pc[q] = "missed" /\ Rejects(breaker))
  <2>0. \A l \in {"missed", "trying", "leading", "signalled", "waiting", "completing", "storing"} :
          l # "failed"
    OBVIOUS
  <2>1. Reject(q) \/ Fail(q)
    <3>1. ASSUME NEW x \in Requests, NEW p \in Paths, Hit(x, p) \/ Miss(x, p) PROVE FALSE
      BY <1>1, <3>1 DEF Hit, Miss, Answer, Goto, HandlerTypes
    <3>2. ASSUME NEW x \in Requests, Step(x) PROVE Reject(q) \/ Fail(q)
      <4>1. x = q
        BY <1>1, <3>2 DEF Step, Fetch, Admit, Reject, Abandon, Join, Lead, Signal, Unregister,
          Woken, GiveUp, FetchReturns, retry, Finally, Again, OriginReplies, Succeed, Fail, Store,
          Answer, Goto, HandlerTypes
      <4> QED
        BY <1>1, <3>2, <4>1 DEF Step, Fetch, Admit, Abandon, Join, Lead, Signal, Unregister,
          Woken, GiveUp, FetchReturns, retry, Finally, Again, OriginReplies, Succeed, Store,
          Answer, Goto, HandlerTypes
    <3>3. pc' # pc
      BY <1>1
    <3> QED
      BY <1>1, <3>1, <3>2, <3>3 DEF Next, Leave, Purge, Expire, Tick, Beside, vars
  <2>2. CASE Reject(q)
    BY <2>2 DEF Reject
  <2>3. CASE Fail(q)
    BY <1>1, <2>3 DEF Fail, Hands, HandAt, IsBody
  <2> QED
    BY <2>1, <2>2, <2>3
<1>2. IInv /\ [Next]_vars =>
        [\A q \in Requests :
           pc'[q] = "failed" /\ pc[q] # "failed" /\ q \notin gone
             => attempt[q] = MaxAttempts \/ (pc[q] = "missed" /\ Rejects(breaker))]_vars
  BY <1>1 DEF IInv
<1> QED
  BY <1>2, EdgeIInv, PTL DEF Spec, FailedOnlyIfAbandoned
=============================================================================
