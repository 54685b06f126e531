----------------------------- MODULE RedisCache -----------------------------
(***************************************************************************)
(* The two-tier cache (RedisCache of internal/cache): Redis first, the     *)
(* in-memory LRU tier behind it, redisOK deciding whether Redis is asked   *)
(* at all.                                                                 *)
(*                                                                         *)
(* Get, Set and Delete are not atomic: each is a sequence of steps (an LRU *)
(* critical section, a load of redisOK, one Redis command), and those of   *)
(* different clients interleave, as do the probe goroutine and Redis going *)
(* down and coming back.  A value is a version <<k, n>>, the n-th one Set  *)
(* for key k.  Statistics are left out.                                    *)
(***************************************************************************)
EXTENDS LRUList, FiniteSets

CONSTANTS
  Clients,    \* goroutines using the cache
  MaxSets,    \* bound: versions per key
  Outages,    \* Redis may go down and come back
  Cancels     \* a client's context may end during a Redis command

Versions == Keys \X (1 .. MaxSets)

ASSUME CacheAssumption ==
  /\ MaxSets \in Nat /\ Outages \in BOOLEAN /\ Cancels \in BOOLEAN
  /\ None \notin Entries(Versions)

VARIABLES
  lru,          \* RedisCache.fallback
  redis,        \* the Redis database: a version or None per key
  redisUp,      \* Redis answers
  redisOK,      \* RedisCache.redisOK
  probe,        \* where the probeRedis goroutine is
  probeDue,     \* five seconds have passed since lastProbe
  client,       \* what each client does: [pc, key, version]
  got,          \* what a client's last Get returned: [version, tier]
  sets,         \* versions Set so far, per key
  settled,      \* history: versions whose Set has returned
  dead,         \* history: versions that a later Set or Delete replaced
  seen,         \* history: per client, settled (or dead, for a Get) versions
                \* of its key when its operation began
  clean         \* history: Redis was there at the start and no command failed

dataVars == <<lru, redis, sets>>
linkVars == <<redisUp, redisOK, probe, probeDue>>
historyVars == <<settled, dead, seen, clean>>
vars == <<lru, redis, redisUp, redisOK, probe, probeDue, client, got, sets,
          settled, dead, seen, clean>>

Idle == [pc |-> "idle", key |-> None, version |-> None]
Nothing == [version |-> None, tier |-> "none"]

At(c, label) == client[c].pc = label
Key(c) == client[c].key
Goto(c, label) ==
  client' = [client EXCEPT ![c] = [pc |-> label, key |-> @.key, version |-> @.version]]
OfKey(S, k) == {v \in S : v[1] = k}

Init ==
  /\ lru = NewLRUCache
  /\ redis = [k \in Keys |-> None]
  /\ redisUp \in (IF Outages THEN BOOLEAN ELSE {TRUE})
  /\ redisOK = redisUp            \* NewRedisCache pings once
  /\ probe = "none"
  /\ probeDue = TRUE
  /\ client = [c \in Clients |-> Idle]
  /\ got = [c \in Clients |-> Nothing]
  /\ sets = [k \in Keys |-> 0]
  /\ settled = {}
  /\ dead = {}
  /\ seen = [c \in Clients |-> {}]
  /\ clean = redisOK

Begin(c, label, k, version) ==
  /\ client' = [client EXCEPT ![c] = [pc |-> label, key |-> k, version |-> version]]
  /\ got' = [got EXCEPT ![c] = Nothing]

(* A Set or Delete returns: the versions settled before it began are dead, *)
(* and the version a Set wrote is settled.                                 *)
WriteReturns(c) ==
  /\ client' = [client EXCEPT ![c] = Idle]
  /\ settled' = settled \cup ({client[c].version} \ {None})
  /\ dead' = dead \cup seen[c]
  /\ seen' = [seen EXCEPT ![c] = {}]
  /\ UNCHANGED got

GetReturns(c, version, tier) ==
  /\ client' = [client EXCEPT ![c] = Idle]
  /\ got' = [got EXCEPT ![c] = [version |-> version, tier |-> tier]]

-----------------------------------------------------------------------------
(* Get.  The probe goroutine is spawned when redisOK is found false; more  *)
(* than one of them makes no difference, they take turns on probeMu.       *)
SpawnProbe == probe' = IF probe = "none" THEN "spawned" ELSE probe

GetBegin(c, k) ==
  /\ At(c, "idle")
  /\ IF redisOK THEN Begin(c, "get redis", k, None) /\ UNCHANGED probe
                ELSE Begin(c, "get lru", k, None) /\ SpawnProbe
  /\ seen' = [seen EXCEPT ![c] = OfKey(dead, k)]
  /\ UNCHANGED <<dataVars, redisUp, redisOK, probeDue, settled, dead, clean>>

GetFromRedis(c) ==
  /\ At(c, "get redis")
  /\ redisUp
  /\ IF redis[Key(c)] # None
       THEN GetReturns(c, redis[Key(c)], "redis")
       ELSE Goto(c, "get lru") /\ UNCHANGED got
  /\ UNCHANGED <<dataVars, linkVars, historyVars>>

MarkDown == redisOK' = FALSE

(* A Redis command fails: Redis is down, or the client's context ended.    *)
CommandFails ==
  /\ ~redisUp \/ Cancels
  /\ clean' = FALSE

GetFails(c) ==
  /\ At(c, "get redis")
  /\ CommandFails
  /\ MarkDown
  /\ Goto(c, "get lru")
  /\ UNCHANGED <<dataVars, redisUp, probe, probeDue, got, settled, dead, seen>>

GetFromLRU(c) ==
  /\ At(c, "get lru")
  /\ lru' = lruGet(lru, Key(c))
  /\ IF Hit(lru, Key(c))
       THEN GetReturns(c, lru.items[Key(c)].value, "lru")
       ELSE GetReturns(c, None, "miss")
  /\ UNCHANGED <<redis, sets, linkVars, historyVars>>

-----------------------------------------------------------------------------
(* Set: the LRU tier is written first, unconditionally.                    *)
SetBegin(c, k) ==
  /\ At(c, "idle")
  /\ sets[k] < MaxSets
  /\ LET v == <<k, sets[k] + 1>> IN
       /\ lru' = lruSet(lru, k, v, "ahead")
       /\ Begin(c, "set check", k, v)
  /\ sets' = [sets EXCEPT ![k] = @ + 1]
  /\ seen' = [seen EXCEPT ![c] = OfKey(settled, k)]
  /\ UNCHANGED <<redis, linkVars, settled, dead, clean>>

\* Mutant: the purge trusts Redis alone.
DeleteBeginKeepsLRU(c, k) ==
  /\ At(c, "idle")
  /\ Begin(c, "delete check", k, None)
  /\ seen' = [seen EXCEPT ![c] = OfKey(settled, k)]
  /\ UNCHANGED <<lru, redis, sets, linkVars, settled, dead, clean>>

(* Delete: the LRU tier first.                                             *)
DeleteBegin(c, k) ==
  /\ At(c, "idle")
  /\ lru' = lruDelete(lru, k)
  /\ Begin(c, "delete check", k, None)
  /\ seen' = [seen EXCEPT ![c] = OfKey(settled, k)]
  /\ UNCHANGED <<redis, sets, linkVars, settled, dead, clean>>

(* Set and Delete: the load of redisOK.                                    *)
Check(c, check, command) ==
  /\ At(c, check)
  /\ IF redisOK THEN Goto(c, command) /\ UNCHANGED <<got, historyVars>>
                ELSE WriteReturns(c) /\ UNCHANGED clean
  /\ UNCHANGED <<dataVars, linkVars>>

SetCheck(c) == Check(c, "set check", "set redis")
DeleteCheck(c) == Check(c, "delete check", "delete redis")

SetRedis(c) ==
  /\ At(c, "set redis")
  /\ redisUp
  /\ redis' = [redis EXCEPT ![Key(c)] = client[c].version]
  /\ WriteReturns(c)
  /\ UNCHANGED <<lru, sets, linkVars, clean>>

(* A command that fails for the client may still have taken effect.        *)
MayApply(k, value) ==
  \/ UNCHANGED redis
  \/ redisUp /\ redis' = [redis EXCEPT ![k] = value]

SetFails(c) ==
  /\ At(c, "set redis")
  /\ CommandFails
  /\ MayApply(Key(c), client[c].version)
  /\ MarkDown
  /\ WriteReturns(c)
  /\ UNCHANGED <<lru, sets, redisUp, probe, probeDue>>

DeleteRedis(c) ==
  /\ At(c, "delete redis")
  /\ redisUp
  /\ redis' = [redis EXCEPT ![Key(c)] = None]
  /\ WriteReturns(c)
  /\ UNCHANGED <<lru, sets, linkVars, clean>>

(* Delete logs the error and returns nil; redisOK is left alone.           *)
DeleteFails(c) ==
  /\ At(c, "delete redis")
  /\ CommandFails
  /\ MayApply(Key(c), None)
  /\ WriteReturns(c)
  /\ UNCHANGED <<lru, sets, linkVars>>

-----------------------------------------------------------------------------
(* probeRedis: at most one ping in five seconds.                           *)
ProbeStart ==
  /\ probe = "spawned"
  /\ probe' = IF probeDue THEN "pinging" ELSE "none"
  /\ probeDue' = FALSE
  /\ UNCHANGED <<dataVars, redisUp, redisOK, client, got, historyVars>>

(* The ping's reply: an error ends the probe, redisOK left alone.          *)
ProbeReply ==
  /\ probe = "pinging"
  /\ probe' = IF redisUp THEN "ponged" ELSE "none"
  /\ UNCHANGED <<dataVars, redisUp, redisOK, probeDue, client, got, historyVars>>

\* Mutant: the probe reports its result and does not store it.
ProbeEndForgets ==
  /\ probe = "ponged"
  /\ probe' = "none"
  /\ UNCHANGED <<dataVars, redisUp, redisOK, probeDue, client, got, historyVars>>

(* The store of redisOK, which may be stale by then.                       *)
ProbeEnd ==
  /\ probe = "ponged"
  /\ probe' = "none"
  /\ redisOK' = TRUE
  /\ UNCHANGED <<dataVars, redisUp, probeDue, client, got, historyVars>>

ProbeInterval ==
  /\ ~probeDue
  /\ probe \in {"none", "spawned"}
  /\ probeDue' = TRUE
  /\ UNCHANGED <<dataVars, redisUp, redisOK, probe, client, got, historyVars>>

(* The world around the cache.                                             *)
RedisDown ==
  /\ Outages /\ redisUp
  /\ redisUp' = FALSE
  /\ UNCHANGED <<dataVars, redisOK, probe, probeDue, client, got, historyVars>>

(* Redis comes back with its data, or without (it keeps it in memory).     *)
RedisBack ==
  /\ ~redisUp
  /\ redisUp' = TRUE
  /\ redis' \in {redis, [k \in Keys |-> None]}
  /\ UNCHANGED <<lru, sets, redisOK, probe, probeDue, client, got, historyVars>>

(* Redis drops a key: its TTL ran out or memory is short.                  *)
RedisExpires(k) ==
  /\ redis[k] # None
  /\ redis' = [redis EXCEPT ![k] = None]
  /\ UNCHANGED <<lru, sets, linkVars, client, got, historyVars>>

LRUExpires(k) ==
  /\ k \in Cached(lru)
  /\ lru.items[k].expires = "ahead"
  /\ lru' = lruExpire(lru, k)
  /\ UNCHANGED <<redis, sets, linkVars, client, got, historyVars>>

ClientStep(c) ==
  \/ GetFromRedis(c) \/ GetFails(c) \/ GetFromLRU(c)
  \/ SetCheck(c) \/ SetRedis(c) \/ SetFails(c)
  \/ DeleteCheck(c) \/ DeleteRedis(c) \/ DeleteFails(c)

Next ==
  \/ \E c \in Clients, k \in Keys : GetBegin(c, k) \/ SetBegin(c, k) \/ DeleteBegin(c, k)
  \/ \E c \in Clients : ClientStep(c)
  \/ ProbeStart \/ ProbeReply \/ ProbeEnd \/ ProbeInterval
  \/ RedisDown \/ RedisBack
  \/ \E k \in Keys : RedisExpires(k) \/ LRUExpires(k)

Spec == Init /\ [][Next]_vars

(* Commands end (go-redis has timeouts), goroutines are scheduled, time    *)
(* passes, and requests keep arriving, each of which begins with a Get.    *)
Fairness ==
  /\ \A c \in Clients : WF_vars(ClientStep(c))
  /\ WF_vars(ProbeStart) /\ WF_vars(ProbeReply \/ ProbeEnd)
  /\ WF_vars(ProbeInterval)
  /\ SF_vars(\E c \in Clients, k \in Keys : GetBegin(c, k))

FairSpec == Spec /\ Fairness

-----------------------------------------------------------------------------
(* Reads are regular until a Redis command fails: a Get never returns a    *)
(* version that a Set or a purge had replaced, and returned, before the    *)
(* Get began, however the two tiers' steps interleave, whichever tier      *)
(* drops its copy and even if Redis restarts between two commands.         *)
RegularReads ==
  clean => \A c \in Clients :
             got[c].version # None => got[c].version \notin seen[c]

(* The LRU tier is regular whatever happens to Redis: what it answers      *)
(* during an outage is never a replaced or purged version.                 *)
FallbackRegular ==
  \A c \in Clients : got[c].tier = "lru" => got[c].version \notin seen[c]

(* Once Redis stays reachable, a node keeps coming back to it: redisOK     *)
(* never stays false, though clients that give up keep clearing it.        *)
RejoinsRedis == <>[]redisUp => []<>redisOK

(* What the post-purge check of the README says, in a world where Redis    *)
(* can be away for a moment: a Get that begins after a purge returned does *)
(* not serve the purged version.  (The last version Set for a key can only *)
(* have been replaced by a purge.)                                         *)
PurgeHolds ==
  \A c \in Clients :
    LET v == got[c].version IN
    v # None /\ v[2] = sets[v[1]] => v \notin seen[c]
=============================================================================
