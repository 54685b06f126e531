# A TLA+ model of Edge CDN

This directory holds TLA+ modules that model the core of Edge CDN, TLC
configurations that check them on small instances, and TLAPS proofs of what
they promise for every size.  Paths below are relative to the repository; the
line numbers are those of the commit the model was written from.
`PROJECT.json` maps every definition to the lines it models and lists runs,
mutants, findings, hazards and theorems.

To check a run: `tlc -config gateway.cfg MCGateway`.  To check the proofs of a
module: `tlapm GatewayProofs.tla`.

## 1. The system

A *gateway* process routes HTTP requests to *edge nodes*.  An edge node answers
from its two-tier cache or fetches from the *origin* through a circuit breaker,
a retryer and a request-coalescing shield.

| Part | State | Operations | Used by |
|---|---|---|---|
| circuit breaker `internal/circuitbreaker` | state, failures, successes, halfOpenInFlight, time of the trip, under `mu` | `Execute` (two critical sections around the call), `State`, `Reset` | edge handler |
| origin shield `internal/shield` | `inflight`: path to call; per call the number of sharers, the result and a WaitGroup | `Fetch` | edge handler |
| LRU tier `internal/cache` `LRUCache` | map and list of entries with deadlines, under `mu` | `Get`, `Set`, `Delete` | two-tier cache |
| two-tier cache `RedisCache` | LRU tier, Redis, atomic `redisOK`, time of the last probe | `Get`, `Set`, `Delete`, `probeRedis` | edge handler, warmer |
| health checker `internal/health` | per node: verdict and run counters, under `mu`; one sweep goroutine | `RegisterNode`, `UnregisterNode`, `Start`, `Stop`, the sweep | gateway, edge node |
| region router `internal/region` | pools and health of regions, order and index of round-robin, under `mu` | `AddNode`, `RemoveNode`, `SetRegionHealth`, `GetNearestRegion`, `GetNodeForKey`, `GetAllRegions` | gateway |
| gateway `internal/gateway` | none of its own beyond the two above | `handleProxy`, `AddNode` | clients |
| hash ring `internal/hashing` | sorted virtual nodes and the owner of each, under `mu` | `AddNode`, `RemoveNode`, `GetNode` | region router (and the headers of the edge handler) |
| edge handler `internal/router` | none of its own | `handleCDN`, `handlePurge` | gateway, clients |
| rate limiter `internal/ratelimit` | token bucket per address, under `mu`; one cleanup goroutine | `Allow`, cleanup, `Stop` | every edge request |
| cache warmer `internal/warming` | access counts per path, one loop goroutine | `RecordAccess`, `Start`, `Stop`, warm cycle | edge handler |
| retryer `internal/retry` | a shared random source | `Do` | edge handler |
| origin `internal/origin` | none | `Fetch` (a bounded sleep, never an error) | shield, warmer |
| metrics `internal/metrics` | counters | write only | all |
| process entry `cmd/router` | none | wires the above from the environment | |

What is hard in this code, and hard to test:

* state that changes between two critical sections of one operation: a call
  admitted by the breaker in one state completes in another; a probe's outcome
  is applied to whatever is registered by then; a gateway request works through
  choices and a snapshot that have gone stale;
* the two tiers of the cache are written in two steps, one of which can fail or
  be skipped, while Redis comes and goes;
* leaders of shared fetches that give up while others wait, and fetches that
  outlive the leader that started them; the retries of the others;
* clients that leave, whose handlers still hold breaker slots and report the
  departure to the breaker as a failure of the origin;
* responses fetched before a purge and stored after it, by handlers and by the
  warmer;
* limits (waiters, half-open slots, capacity, round-robin index) at their
  boundary;
* things that must happen in the end: the breaker closes, a waiter wakes, the
  cache returns to Redis, a verdict follows its node, a request is answered, a
  hot path is refreshed, an idle bucket is given back, a loop stops.

The list, with lines and the properties for each, is `hazards` in
`PROJECT.json`.

## 2. The modules

| Module | Models | Notes |
|---|---|---|
| `BreakerState` | the two critical sections of `Execute` as operators on a record | no state; used by the next and by `EdgeNode` |
| `CircuitBreaker` | `internal/circuitbreaker` | `Admit`/`Reject` and `Complete` are the two critical sections of `Execute`; `Tick` is the clock |
| `OriginShield` | `internal/shield` | one action per critical section or select of `Fetch`; `OriginReplies` is the fetch goroutine |
| `LRUList` | the operations of `LRUCache` as operators | no state; used by the next two |
| `LRUCache` | the LRU tier alone, against history variables | its `LRUSpec` allows any sequence of operations; the proofs are about it |
| `RedisCache` | `RedisCache` over the LRU operators | one action per atomic step; Redis itself is external |
| `HealthChecker` | `internal/health` | the sweep step by step, `Stop`, nodes that die and revive |
| `HashRing` | `internal/hashing` as operators on the function from points to owners | no state; used by the next |
| `RegionRouter` | `internal/region` | pools and their rings, nearest region, round-robin |
| `Gateway` | `handleProxy` and `proxyTo`, extending `RegionRouter` | composition with pools, verdicts and nodes that change |
| `CacheWarmer` | `internal/warming` | one action per step of a warm cycle, with its semaphore and `WaitGroup`; prefetches are two steps; what their `cache.Set` does is left to the next two |
| `WarmedCache` | the warmer and the requests of several paths on one LRU tier, extending `CacheWarmer` and `LRUCache` | composition: a node without Redis, requests reduced to their effects on cache and counts |
| `EdgeNode` | `handleCDN` and `handlePurge` of `internal/router`, `internal/retry`, and the wiring of `startEdgeNode`, extending `CacheWarmer` and `BreakerState` | composition: every critical section and select of a request, with purges, departures and the warmer between them |
| `RateLaw` | what the limiter promises, without buckets or cleanup | abstract specification |
| `RateLimiter` | `internal/ratelimit` | implements `RateLaw` |
| `*Proofs` | theorems about the module of that name | `CacheProofs` is about `LRUList`, `LRUCache` and `RedisCache`, `GatewayProofs` also about `RegionRouter` and `HashRing`, `EdgeNodeProofs` also about `CacheWarmer` |
| `MC*` | instances for TLC | |

Conventions.  `Init` and actions carry the names of the code where it has one
(in `LRUCache` prefixed with `LRU`, because `CacheProofs` extends it together with
`RedisCache`).
Variables marked *history* exist only in properties: no guard reads them.
Definitions marked *Mutant* are wrong versions of the definition after them;
`PROJECT.json` names, for each property of each passing run, one with which TLC
finds the property violated.  They are used nowhere else.

What the data is abstracted to:

* **CircuitBreaker.** `lastFailure` is the age of the outage in ticks, capped
  just above `OpenTimeout` (the code only asks whether the timeout has passed).
* **OriginShield.** A call is named after its leader.  `FetchMayTimeOut` says
  whether the origin may be slower than `FetchTimeout`.
* **LRUList.** An entry is a value and whether its deadline is never, ahead or
  past; expiry is a step of the clock that the next `Get` notices.
* **RedisCache.** A value is `<<k, n>>`, the n-th version Set for key `k`.
  A failed command may have taken effect (`MayApply`).
* **HealthChecker.** A node either answers `/health` in time or does not
  (`alive`).
  `Start` happens once, before `Stop`, as in the program.
  `successCount` and `failCount` saturate at their threshold (only the
  comparison with it matters); latencies and totals are left out.
* **HashRing.** `VNodes` gives the hashes of each node's virtual nodes.  They are
  assumed distinct: with equal ones `RemoveNode` would leave a point without an
  owner (`consistent.go:58`).  The sorted slice and the binary search appear as
  the first point at or after the key's hash.
* **RegionRouter.** Coordinates appear as `Distance`.  A region's list of nodes is
  a set; its ring is kept beside it, as in the code, and `RingMatchesPool` says
  that the two agree.
* **Gateway.** Candidates of an attempt are tried in any order and verdicts change
  freely: what holds here holds for every map iteration order and every history
  of the checker.
* **CacheWarmer.** Access counts saturate at `MaxCount`, a bound of the model: of two
  paths that both got there the sort may prefer either.  Goroutines of a cycle start
  in any order.  Any time may pass between two steps, so any
  tracked path may be old enough to be pruned.
* **WarmedCache.** A request is `cache.Get` (with `RecordAccess` on a hit) or, at
  any later time, `Set` with `RecordAccess`; all bodies are alike.  Requests and
  purges end with the shutdown, which stops the warmer after the HTTP server.
* **EdgeNode.** The breaker is the record of `BreakerState`.  Of the shield it keeps
  what handlers see: a call is its leader, `inflight` the set of leaders (this
  is `Ownership`, proved of `OriginShield`).  `startEdgeNode` uses the default
  shield, whose timeout the origin's latency never reaches and whose waiter
  limit is 1000, so neither appears.  The cache is atomic (its tiers are
  `RedisCache`).  A body is "new" until its path is purged and "old" afterwards,
  wherever it is.  Requests are GETs: another method always misses and stores
  nothing, which to the rest of the node is a GET that looked too early and
  whose entry is evicted at once.  Handlers end well within the fifteen seconds
  of `srv.Shutdown`, so the warmer is stopped when all have.  The lengths of
  backoffs are left out, with the shared random source they come from.
* **RateLimiter.** Tokens are counted in fractions, `Unit` to the token, so a tick
  can refill less than one; floating-point rounding is left out.  The key of a
  request is given.

## 3. The properties

**Breaker.** `Accounting` says exactly what `halfOpenInFlight` counts: probes in
flight less the earlier calls that completed in this half-open period, since
`Execute` decrements for those too.  From it follow `ProbeBound`, the limit the
code really enforces (`HalfOpenMaxConcurrent + SuccessThreshold - 1`), and
`SpareSlotAdmits`: no slot is lost, which matters because half-open has no
timeout.  `Recovery`: once calls stop failing the breaker closes for good.

**Shield.** `Ownership`: leaders and `inflight` entries correspond, so the
unlocked stretch between signalling and `delete` never removes another call.
`NotStranded` and `EveryFetchReturns`: waiters are woken.  `WaiterBound`.
`DuplicateOnlyAfterAbort` and `BlastRadius` state what coalescing does and does
not promise when a leader gives up.

**LRU tier.** `MapMatchesList` and `EvictsLeastRecent` compare it with the
definition of an LRU cache; `CachedIsLatest`, that it holds what was Set last, is
proved only.

**Two-tier cache.** `RegularReads`: until a Redis command fails, no `Get`
returns a version that was replaced or purged before the `Get` began.
`FallbackRegular`: what the LRU tier answers never is one, whatever Redis does.
`RejoinsRedis`: the cache comes back to Redis.

**Health checker.** `Hysteresis`: verdicts change exactly on full runs of equal
outcomes.  `LiveStaysUp`: a node that always answered is never marked down when
`FailThreshold >= 3`.  `QuietAfterStop`, `StopEnds`.  `Converges`: verdicts
follow nodes that stay dead or alive.

**Hash ring.** `RingMatchesPool`: after any sequence of joins and departures the
ring of a region is the ring of its pool, independent of the order, so two
gateways agree on the owner of a key.  `MinimalDisruption`: a key changes its
node only when that node leaves, or to the node that joins.

**Region router and gateway.** `RoundRobinFair`: however regions fail, recover
and appear, a region that can serve gets one of any `Len(order)` consecutive
round-robin picks.  `NearestTarget`: the target is never farther than a region
that could serve.  `FailoverComplete`: no 502 while some node could serve and
was called healthy all along.  `Locality`: an answer comes from the client's
own region if a node there could serve all along.  `EveryRequestAnswered`.

**Edge node.** `Leaders`: coalescing survives retries and departures; a path has
at most one leader and its waiters one that will wake them.  `SpareSlotAdmits`: handlers whose clients left give their half-open
slots back.  `PurgeLeaksOnlyInFlight` is what a purge really achieves: unless a
handler or a prefetch held a response for the path at that moment, nothing from
before the purge is left in the node; if one did, the old response may be cached
again after the purge has returned.  `FailedOnlyIfAbandoned`: a client that stays
gets 502 only when the breaker turns it away or after attempt `MaxAttempts`; as
long as attempts remain, the departure of a leader does not fail it.  `FailuresSubside`: departures count as
failures of the origin and may open the breaker for everybody, but once they
stop it closes and no request fails any more.  `EveryRequestAnswered`.

**Warmer.** `PrefetchBound`: every cycle makes a semaphore and a `WaitGroup` of its
own, and yet all cycles together never run more than `MaxConcurrentFetch`
prefetches, nor two of one path, and none outlives its cycle or the loop.
`HotRefreshed`: a path that stays hot is refreshed for ever, as long as fewer than
`MaxPrefetchPaths` other paths have as many accesses.  The condition is needed:
`getHotPaths` keeps only the `MaxPrefetchPaths` largest counts (`warming.go:240-246`),
so a hot path with enough busier ones beside it is never refreshed, and among
equal counts the sort, which is not stable, over a map decides.  `WarmingStops`:
the loop ends after `Stop`, from any point of a cycle.

**Rate limiter.** `RateLawHolds`: the limiter implements `RateLaw`, a debt per
client that is worked off continuously.  Lazy refill, buckets made on demand and
cleanup change no verdict; in particular no client gains tokens from being
forgotten.  `IdleForgotten`: buckets of idle clients are given back.

## 4. The runs

| Run | Bounds | Result |
|---|---|---|
| `breaker` | 3 callers, thresholds 2, one half-open slot, timeout of one tick | holds |
| `breaker_cap` | 3 callers, two slots | `HalfOpenCap` violated |
| `shield` | 3 requests, 2 paths, one waiter per call, timeouts possible | holds |
| `shield_refused` | 3 requests, 1 path | `RefusedOnlyWhenFull` violated |
| `cache` | 2 clients, 1 key, capacity 1, 2 versions, outages and cancellations | holds |
| `cache_purge` | 2 clients, 1 key, 1 version, outages | `PurgeHolds` violated |
| `health` | 2 nodes, thresholds 3 and 2 | holds |
| `gateway` | 3 regions on a line, one default region without nodes and one added later, 3 nodes with 5 points on the ring, 1 request at a time, 2 changes around it | holds |
| `gateway_unmonitored` | the same, no node registered with the checker | `AliveNodeServes` violated |
| `edge` | 2 handlers, 1 path, 2 attempts, breaker and prefetch thresholds of 1 and 2, one half-open slot | holds |
| `warming` | 3 paths, 2 slots in the cache, hot from the first access, counts up to 2, 2 hot paths per cycle, 1 prefetch at a time | holds |
| `limiter` | 2 clients, bursts of 3 requests, 2/3 of a token per tick, window of 4 ticks | holds |

Why these bounds reach the interesting cases.

* Three callers suffice for a call from before the outage, a probe and a
  rejected one at once; thresholds of 2 separate the first failure (success)
  from the one that decides.
* Three requests are a leader, a waiter and one more that is refused, or leads
  a second call after the first leader gave up; two paths tell calls of
  different paths apart.
* In `warming` every limit is below the number of paths: three paths can be hot
  where a cycle keeps two, the two queue for one prefetch, and the cache has room
  for two, so that a prefetch evicts.  Counts up to 2 over a threshold of 1 let the
  sort tell hot paths apart.  Three keys and two slots leave the evicted key, the
  survivor and the newcomer distinct.
* One key is enough for `cache`, because keys only meet in the LRU tier's
  eviction, which `warming` covers and which the proofs cover for any keys; two
  clients interleave a writer with a writer or reader; two versions are an old
  and a new one.
* `FailThreshold = 3` is what the repository configures and the least value for
  which `LiveStaysUp` holds.
* Requests of the gateway do not interact except through `rrIndex`, and a
  finished request is followed by the next, so one at a time still shows every
  sequence of picks; the proofs cover any number.  `MaxEvents` bounds the
  changes over a whole behaviour; two are needed, for example, to take a
  region's last node away and bring another up in the middle of a request.
  Three nodes make minimal disruption more than a matter of one owner: the
  third one's point lies between those of the other two, and the hashes of the
  keys fall before, on its far side, and beyond the last point.
* Two handlers of one path are a leader and a waiter that exchange roles when
  the leader's client leaves; a breaker that opens at the first failure is open
  to both.  Handlers are reused, so requests follow each other for ever.  With one
  path the limits of the warmer cannot bind here; they are the subject of `warming`.
* 2/3 of a token per tick and `Unit = 3` let a bucket hold every fraction; a burst
  takes 5 ticks to refill, just as long as `cleanup` waits (`Window + 1`), so that
  one tick less breaks the law.

Bounds in guards: `MaxSets` (versions per key), `MaxEvents`, and `MaxCount`, at
which access counts saturate.  Deadlock is checked in every passing run but
`warming`, where nothing is left to do after the shutdown; `WarmingStops` covers
the loop.

### Fairness, and why the code justifies it

* **Breaker.** Calls return (attempts, backoff and fetches are bounded), the
  clock advances, requests keep arriving.  Outcomes are free.
* **Shield.** Goroutines are scheduled; `origin.Fetch` returns, being a bounded
  sleep.  Neither cancellation nor the timeout is assumed to happen.
* **Cache.** Commands end (go-redis has timeouts), goroutines are scheduled,
  five seconds pass, and requests, each of which starts with a `Get`, keep
  arriving.  Strong fairness of `Get` says that they keep arriving also when all
  clients are momentarily busy.
* **Health.** The ticker fires, probes end within `Config.Timeout`.  Strong
  fairness of `LoopExits` is Go's random choice in a `select` whose ticker and
  `ctx.Done` are both ready.
* **Gateway.** Handlers are scheduled, and each send ends within the client's
  ten seconds.
* **Edge node.** Handlers and prefetches are scheduled, the origin replies, the
  open timeout passes, the ticker fires.  Strong fairness of the loop's exit is the
  random choice of `select`, as above.  Nothing is assumed of clients: they need
  neither ask, stay nor leave.
* **Warmed cache.** The same for the loop and its prefetches; nothing is assumed of
  requests, purges and expiries.
* **Limiter.** The clock advances and the cleanup goroutine is scheduled.

## 5. The proofs

All theorems are about `Spec`, without fairness, for every value of the
constants that satisfies the named assumptions (positive thresholds and limits,
as the constructors enforce; finite sets where something is counted).

* **`BreakerStateProofs`** (lemmas on the fields of a breaker) and
  **`CircuitBreakerProofs`.** `TypeOK /\ Accounting` is inductive
  (`BreakerInvariant`).  `BreakerProbeBound`: a late completion counts as a
  success, and `SuccessThreshold` of them end the period, so at most
  `SuccessThreshold - 1` extra slots appear.  `BreakerNeverLosesSlot`.
* **`OriginShieldProofs`.** The inductive invariant adds to the checked ones
  where a call's result comes from, that a leader that signalled has set it, when
  an origin goroutine may run, and that `call.shared` counts at least the
  waiters.  `ShieldTypes`, `ShieldOwnership`, `ShieldNotStranded`,
  `ShieldWaiterBound`, `ShieldDuplicates`, `ShieldBlastRadius`.
* **`CacheProofs`**, the in-memory tier.  `LRUInv(l, V)` says that the map and the
  list of `l` name the same keys, each once, and that there are at most `Capacity`
  of them; `Sorted(order, age)` says that the list is in the order of last use.
  Lemmas on the list (`ListRemove`, `ListPush`) and one per operation (`GetTier`,
  `SetTier`, `DeleteTier`, `ExpireTier`) show that every operator of `LRUList` keeps
  both and what it does to the set of cached keys.  `LRUMapMatchesList` and
  `LRUCachedIsLatest` follow directly.  `EvictsLeastRecent` compares one
  eviction with all earlier uses; it needs `Sorted`, which says that the back of
  the list was used before every other cached key (`LRUEvictsLeastRecent`).  The
  assumptions (`ValueAssumption`, `CacheAssumption`) only say that `None`, the
  absence of an entry, is not itself an entry.
* **`CacheProofs`**, the two tiers.  A version being written is not settled, so it is
  neither dead nor about to die; and a writer removes from the LRU tier, in its
  first step, everything that dies when it returns.  The invariants state this
  for the LRU tier (`CacheFallbackRegular`) and, until a Redis command fails, for
  Redis (`CacheRegularReads`).  The lemmas on the operations also serve here:
  `CacheTier` says that the fallback tier stays well formed and within its
  capacity through every interleaving of clients and outages.
* **`HealthCheckerProofs`.** `LiveStaysUp` says nothing of the failures on the
  way to a verdict; the invariant is a budget of two false failures: one check
  begun before the node's registration, one probe cancelled by `Stop`.
  `CheckerTypes`, `CheckerLiveStaysUp`, `CheckerQuietAfterStop`.  `Hysteresis`
  speaks of the outcomes themselves, which the code does not keep; its invariant
  (`HistoryInv`) says what the two counters stand for: each is the length of the
  run of equal outcomes that ends the node's history, exactly while it is below its
  threshold and at least so from there on (`CheckerHysteresis`).
* **`GatewayProofs`.** The invariant follows a *witness*, a site that could
  serve ever since the request came, through the request: it is being sent to,
  or still in a list ahead, or not the primary so that the snapshot will contain
  it.  `GatewayFailoverComplete`, `GatewayLocality`, `GatewayNearestTarget`,
  for any regions, nodes, requests and changes.  It also holds the types of pools
  and rings and `RingMatchesPool` (`GatewayRing`), from which
  `GatewayMinimalDisruption` follows: adding a node can only put its own points
  in front of a key's, and removing one only takes its own away.  That a key has
  an owner at all in a nonempty ring uses that the natural numbers are well
  founded.  `GatewayRoundRobin`: how often a region was passed over says
  nothing of when that ends, so the invariant (`Lap`) adds how far ahead of the
  index the region is; the two together stay below the length of the list.  A
  pick that passes the region over brings the index closer by at least one, and
  a region that appears lengthens the list.  It rests on `Regions` being finite.
  `GatewaySentOnce`: no request goes to a site twice, over all three attempts.
  The gateway keeps no record of where a request has been; the proof is about
  what the request may still try (`Left`), which no step lets grow and which a
  send leaves.  Each send thus lowers a measure, the safety half of
  `EveryRequestAnswered`.
* **`EdgeNodeProofs`.** The invariant says what a handler holds at each label
  (`Hands`: a body only where one was handed over, `attempt` below its limit where
  another may follow), that handlers of a path have at most one leader and
  waiters one that has not signalled (`Leaders`), that purged bodies lie only
  where `leaked` allows them, that the semaphore and the `WaitGroup` of the latest
  cycle count all the prefetches there are (`PrefetchInv`: without it nothing says
  that `wg.Wait` leaves none behind), and that `halfOpenInFlight` is at most the number of handlers inside the breaker
  (`Slots`; weaker than `Accounting`, and enough).  `EdgeTypes`,
  `EdgeLeaders`, `EdgeSpareSlotAdmits`, `EdgePrefetchBound`, `EdgePurge`,
  `EdgeFailures`, for any requests, paths and settings.  The part about the warmer
  is proved of `WarmerNext`, a warmer beside arbitrary accesses and purges, and
  `WarmerSteps` shows that the node takes only such steps.
* **`RateLimiterProofs`.** `LimiterTypes`, then the refinement
  `LimiterImplementsLaw`: under the mapping `debt = Full - Level`, `Allow` is
  `Pass` or `Block`, `Tick` is `Tick`, and `Cleanup` is a stutter because a bucket
  it drops is full.  This last point rests on the assumption
  `Full <= (Window + 1) * Rps`: the burst refills within the five minutes of
  cleanup.  The code does not check it; the defaults (200 tokens at 100 per
  second) meet it easily, but `RATE_LIMIT_RPS` and `RATE_LIMIT_BURST` are free.

Only model-checked: the properties under fairness (`Recovery`,
`EveryFetchReturns`, `RejoinsRedis`, `Converges`, `StopEnds`,
`EveryRequestAnswered` of the edge node and of the gateway, `FailuresSubside`,
`HotRefreshed`, `WarmingStops`, `IdleForgotten`).  Liveness and `ENABLED` are out of the
prover's reach.  Every other property of a passing run is a theorem, those
of `warming` about the parts that `WarmedCache` composes: `LRUSpec` for the LRU tier,
`EdgeNode` for the warmer.  Only proved:
`CachedIsLatest`, `CacheTier`, `GatewaySentOnce`, and the type invariants of the breaker, the shield and the limiter,
which their inductive invariants contain.

## 6. Where code and description disagree

Each is a run that TLC ends with a counterexample.

* `breaker_cap`: `Execute` frees a half-open slot also for calls that never took
  one (`circuitbreaker.go:152`), so more than `HalfOpenMaxConcurrent` probes run.
* `shield_refused`: waiters that gave up stay counted (`shield.go:134`), so
  requests are refused while hardly anyone waits.
* `cache_purge`: `Delete` reports success when Redis was skipped or failed
  (`cache.go:204`), and the purged version comes back from Redis.
* `gateway_unmonitored`: `Gateway.AddNode` does not register nodes with the
  health checker (`gateway.go:342`), which calls unknown nodes unhealthy; a
  gateway started by `cmd/router` answers 502 to everything.  The other gateway
  run and the proofs about it are for a gateway built with `gateway.New`, whose
  caller supplies the checker and registers the nodes with it.

Smaller things met on the way, without a run: two fetches of a path can run at
once after a leader gives up (`shield.go:173`); the peak counter is updated
without the lock (`shield.go:150`); a panic in the protected function would lose
a half-open slot (`circuitbreaker.go:148`), and the random source of the
retryer, shared without a lock, can panic there (`retry.go:179`); an old response
can be cached after its purge returned (`router.go:169`, `warming.go:219`); a
client's departure counts as a failure of the origin (`router.go:127`); attempt 3 of `handleProxy` takes the
regions in map order, not nearest first (`gateway.go:101`, `158`); a region
emptied and refilled stays unhealthy (`region.go:136`); the 503 of `handleProxy`
cannot happen, as `GetNearestRegion` never returns the empty string
(`gateway.go:115`); a request body is consumed by the first failed attempt
(`gateway.go:188`).

## 7. Not modelled, and the plan

Left out for good: metrics (nothing reads them), status handlers, content types
and headers, the origin's generated content, the environment parsing of
`cmd/router`, request bodies, how a request's headers give its rate-limit key,
the lengths of backoffs, panics.

Possible next steps, in this order:

1. **Composition** of `HealthChecker` and `Gateway`: the free verdicts of
   `Gateway` are those of the checker.
2. **Refinement** of the handlers' view of the shield: `EdgeNode` with the calls of
   `OriginShield` in place of its set of leaders, and with the two tiers of
   `RedisCache` in place of its atomic cache.
3. **Proofs**: what the liveness properties rest on and can be stated without
   fairness, as action properties, in the manner of `GatewaySentOnce`: the measure
   that every step of a fetch, a handler of the edge node or a sweep lowers.
