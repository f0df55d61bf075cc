---------------------------- MODULE LookupCache ----------------------------
(***************************************************************************)
(* LookupCache of state/cache.py: a lookup cache with a local layer in each *)
(* replica of a service and a Redis layer they share.  A miss is loaded by *)
(* one task per replica and key, which takes a Redis lock so that the      *)
(* other replicas wait for its result.                                     *)
(*                                                                         *)
(* Code between two awaits is one step; the asyncio lock guards sections   *)
(* that never suspend, so taking it never suspends either.  `co[c]' is the *)
(* coroutine caller c started: the loading task of its get(), named by its *)
(* creator, or its own get_cached(), set() or invalidate().  A Redis call  *)
(* is two steps, the server executing it and the coroutine resuming with   *)
(* the reply, and other coroutines run between and around them.            *)
(*                                                                         *)
(* A value is the version of the truth a loader read.  TTLs count down.    *)
(* `spent' and the ages are history: no guard of the code reads them, only *)
(* the bounds do.                                                          *)
(***************************************************************************)
EXTENDS Integers, Sequences, FiniteSets

CONSTANTS
    Replicas,     \* processes of the service
    Callers,      \* coroutines that use a cache
    Home,         \* Callers -> Replicas
    NoCaller,
    Keys,
    Configs,      \* constructor arguments: see ConfigsAreLegal; and bounds, see Bounds
    EmptyValues,  \* versions is_empty holds of
    LockTtl,      \* redis_lock_ttl_seconds, in ticks
    MaxEntries,   \* max_entries
    MaxRounds     \* bound: looks at Redis before redis_wait_timeout_seconds have passed

ASSUME HomeIsReplica == Home \in [Callers -> Replicas] /\ NoCaller \notin Callers
ASSUME KeysExist == Keys # {}
ASSUME MaxEntriesPositive == MaxEntries \in Nat \ {0}
ASSUME LockTtlPositive == LockTtl \in Nat \ {0}
(* Bounds on what happens: the keys looked up, the callers, the methods     *)
(* they call and how often, failed Redis calls and foreign writes,          *)
(* cancellations, changes of the truth, ticks.                              *)
Methods == {"get", "get_cached", "set", "invalidate", "clear_local"}
Bounds == [keys : SUBSET Keys, callers : SUBSET Callers, methods : SUBSET Methods,
           calls : Nat, errors : Nat, cancels : Nat, changes : Nat, ticks : Nat]

(* __init__ refuses LOCAL_FALLBACK without a local layer. *)
ASSUME ConfigsAreLegal ==
    \A cf \in Configs :
        /\ cf.mode \in {"local", "redis", "hybrid"}
        /\ cf.onFailure \in {"local_fallback", "bypass", "raise"}
        /\ cf.localTtl \in Nat /\ cf.emptyTtl \in Nat      \* local_ttl_seconds, empty_ttl_seconds
        /\ cf.redisTtl \in Nat /\ cf.redisEmptyTtl \in Nat \* redis_ttl_seconds, redis_empty_ttl_seconds
        /\ cf.slots \in Nat \ {0}                        \* max_concurrency
        /\ cf.bound \in Bounds
        /\ cf.onFailure = "local_fallback" => cf.mode = "local" \/ (cf.mode = "hybrid" /\ cf.localTtl > 0)

VARIABLES
    conf,      \* the constructor arguments, the same in every replica
    local,     \* replica -> _cache: entries in dict order, oldest first
    inflight,  \* replica -> key -> creator of the task in _inflight, or NoCaller
    awaits,    \* caller -> whose coroutine it awaits, or NoCaller
    co,        \* caller -> state of the coroutine it started
    redis,     \* key -> the entry Redis holds
    lock,      \* key -> [owner, left] of the Redis lock
    truth,     \* key -> version of what a loader reads
    floor,     \* history: replica -> key -> truth when it was last invalidated there
    spent      \* history and bounds: errors, cancels, and what has happened

vars == <<conf, local, inflight, awaits, co, redis, lock, truth, floor, spent>>

local_enabled == conf.mode \in {"local", "hybrid"} /\ conf.localTtl > 0
redis_enabled == conf.mode \in {"redis", "hybrid"}
Raises == conf.onFailure = "raise"

(* Replies of Redis, and what its keys hold. *)
Missing == [is |-> "missing", value |-> 0, age |-> 0, left |-> 0]
Corrupt == [is |-> "corrupt", value |-> 0, age |-> 0, left |-> 0]
Error == [is |-> "error", value |-> 0, age |-> 0, left |-> 0]
NoReply == [is |-> "pending", value |-> 0, age |-> 0, left |-> 0]
Yes == [is |-> "yes", value |-> 0, age |-> 0, left |-> 0]
No == [is |-> "no", value |-> 0, age |-> 0, left |-> 0]
Present(v, age, left) == [is |-> "value", value |-> v, age |-> age, left |-> left]

Free == [owner |-> NoCaller, left |-> 0]

(* pc: what the coroutine awaits; path: where in _load_uncached, or in      *)
(* which other method; val: the value in hand; reply: Redis' or the loader's *)
(* answer, not yet seen; out: how it ends.                                   *)
NoCo == [pc |-> "none", path |-> "none", key |-> CHOOSE k \in Keys : TRUE,
         val |-> NoReply, reply |-> NoReply, rounds |-> 0, out |-> "none"]

OldestAge == 1 + CHOOSE n \in {cf.localTtl + cf.redisTtl : cf \in Configs} :
                     \A cf \in Configs : cf.localTtl + cf.redisTtl <= n

Init ==
    /\ conf \in Configs
    /\ local = [r \in Replicas |-> << >>]
    /\ inflight = [r \in Replicas |-> [k \in Keys |-> NoCaller]]
    /\ awaits = [c \in Callers |-> NoCaller]
    /\ co = [c \in Callers |-> NoCo]
    /\ redis = [k \in Keys |-> Missing]
    /\ lock = [k \in Keys |-> Free]
    /\ truth = [k \in Keys |-> 0]
    /\ floor = [r \in Replicas |-> [k \in Keys |-> 0]]
    /\ spent = [calls |-> 0, errors |-> 0, cancels |-> 0, changes |-> 0, ticks |-> 0, lapsed |-> FALSE,
                waitedOut |-> FALSE, put |-> FALSE, late |-> FALSE, overlap |-> FALSE]

-----------------------------------------------------------------------------
(* The local layer *)

(* A dict has one entry of a key at most. *)
Without(entries, k) ==
    IF \E i \in DOMAIN entries : entries[i].key = k
    THEN LET at == CHOOSE i \in DOMAIN entries : entries[i].key = k
         IN [i \in 1 .. Len(entries) - 1 |-> IF i < at THEN entries[i] ELSE entries[i + 1]]
    ELSE entries
Live(r, k) == local_enabled /\ \E i \in DOMAIN local[r] : local[r][i].key = k /\ local[r][i].left > 0

(* Mutant: empty values are kept as long as others. *)
LocalTtlOfAll(v) == conf.localTtl
(* _effective_local_ttl and _effective_redis_ttl, without jitter. *)
LocalTtl(v) == IF v \in EmptyValues THEN conf.emptyTtl ELSE conf.localTtl
RedisTtl(v) == IF v \in EmptyValues THEN conf.redisEmptyTtl ELSE conf.redisTtl

(* popitem(last=False) while there are more than max_entries *)
Trim(entries) ==
    IF Len(entries) > MaxEntries
    THEN SubSeq(entries, 1 + Len(entries) - MaxEntries, Len(entries)) ELSE entries

(* _store_local of a value Redis, a loader or a caller gave. *)
StoreLocal(r, k, v) ==
    IF local_enabled /\ LocalTtl(v.value) > 0
    THEN local' = [local EXCEPT ![r] =
           Trim(Append(Without(@, k), [key |-> k, value |-> v.value, age |-> v.age,
                                       left |-> LocalTtl(v.value)]))]
    ELSE UNCHANGED local

-----------------------------------------------------------------------------
(* Callers *)

(* c calls the cache; nobody awaits its last coroutine any more. *)
Calls(c, method) ==
    /\ c \in conf.bound.callers /\ method \in conf.bound.methods
    /\ spent.calls < conf.bound.calls
    /\ awaits[c] = NoCaller /\ co[c].pc = "none"
Start(pc, path, k) == [NoCo EXCEPT !.pc = pc, !.path = path, !.key = k]

(* Some coroutine is at work on k, somewhere. *)
Busy(k) == \E c \in Callers : co[c].pc \notin {"none", "done"} /\ co[c].key = k

(* An invalidation of k is not over. *)
Dropping(k) == \E c \in Callers : co[c].pc = "del" /\ co[c].key = k
Called(k) == [spent EXCEPT !.calls = @ + 1, !.overlap = @ \/ Dropping(k)]

(* get() with nothing in the local layer: the expired entry goes, and the   *)
(* caller creates the loading task.  (A hit, and an await of a task that is *)
(* already done, change nothing.)                                           *)
GetCreate(c, k) ==
    LET r == Home[c] IN
    /\ Calls(c, "get")
    /\ ~Live(r, k)
    /\ inflight[r][k] = NoCaller
    /\ local' = [local EXCEPT ![r] = IF local_enabled THEN Without(@, k) ELSE @]
    /\ awaits' = [awaits EXCEPT ![c] = c]
    /\ inflight' = [inflight EXCEPT ![r][k] = c]
    /\ co' = [co EXCEPT ![c] = IF redis_enabled THEN Start("get", "start", k)
                                                ELSE Start("want", "local", k)]
    /\ spent' = Called(k)
    /\ UNCHANGED <<conf, redis, lock, truth, floor>>

GetJoin(c, k) ==
    LET r == Home[c] IN
    /\ Calls(c, "get")
    /\ ~Live(r, k)
    /\ inflight[r][k] # NoCaller
    /\ co[inflight[r][k]].pc # "done"
    /\ local' = [local EXCEPT ![r] = IF local_enabled THEN Without(@, k) ELSE @]
    /\ awaits' = [awaits EXCEPT ![c] = inflight[r][k]]
    /\ spent' = Called(k)
    /\ UNCHANGED <<conf, inflight, co, redis, lock, truth, floor>>

(* get_cached() that has to ask Redis *)
GetCached(c, k) ==
    /\ Calls(c, "get_cached")
    /\ ~Live(Home[c], k)
    /\ redis_enabled
    /\ awaits' = [awaits EXCEPT ![c] = c]
    /\ co' = [co EXCEPT ![c] = Start("get", "cached", k)]
    /\ spent' = Called(k)
    /\ UNCHANGED <<conf, local, inflight, redis, lock, truth, floor>>

(* set() of the current truth; without Redis it is over at once. *)
Set(c, k) ==
    LET v == Present(truth[k], 0, 0) IN
    /\ Calls(c, "set")
    /\ StoreLocal(Home[c], k, v)
    /\ IF redis_enabled /\ RedisTtl(v.value) > 0
       THEN /\ awaits' = [awaits EXCEPT ![c] = c]
            /\ co' = [co EXCEPT ![c] = [Start("set", "put", k) EXCEPT !.val = v]]
       ELSE UNCHANGED <<awaits, co>>
    /\ spent' = [Called(k) EXCEPT !.put = TRUE]
    /\ UNCHANGED <<conf, inflight, redis, lock, truth, floor>>

(* Mutant: Redis keeps its entry. *)
InvalidateLocalOnly(c, k) ==
    /\ Calls(c, "invalidate")
    /\ local' = [local EXCEPT ![Home[c]] = Without(@, k)]
    /\ floor' = [floor EXCEPT ![Home[c]][k] = truth[k]]
    /\ spent' = [spent EXCEPT !.calls = @ + 1, !.overlap = @ \/ Busy(k)]
    /\ UNCHANGED <<conf, inflight, awaits, co, redis, lock, truth>>
(* invalidate(), and delete(): the local entry goes first, Redis' later. *)
Invalidate(c, k) ==
    /\ Calls(c, "invalidate")
    /\ local' = [local EXCEPT ![Home[c]] = Without(@, k)]
    /\ IF redis_enabled
       THEN /\ awaits' = [awaits EXCEPT ![c] = c]
            /\ co' = [co EXCEPT ![c] = Start("del", "drop", k)]
       ELSE UNCHANGED <<awaits, co>>
    /\ floor' = [floor EXCEPT ![Home[c]][k] = truth[k]]
    /\ spent' = [spent EXCEPT !.calls = @ + 1, !.overlap = @ \/ Busy(k)]
    /\ UNCHANGED <<conf, inflight, redis, lock, truth>>

ClearLocal(r) ==
    /\ "clear_local" \in conf.bound.methods
    /\ local[r] # << >>
    /\ local' = [local EXCEPT ![r] = << >>]
    /\ UNCHANGED <<conf, inflight, awaits, co, redis, lock, truth, floor, spent>>

-----------------------------------------------------------------------------
(* Redis *)

Pending(c) == co[c].pc \in {"get", "acquire", "set", "release", "del"} /\ co[c].reply = NoReply

Answer(c) ==
    LET k == co[c].key IN
    CASE co[c].pc = "get" -> redis[k]
      [] co[c].pc = "acquire" -> IF lock[k] = Free THEN Yes ELSE No
      [] OTHER -> Yes

(* GET; SET key token NX PX; SET key value EX; the compare-and-delete       *)
(* script; DEL.                                                             *)
Effect(c) ==
    LET k == co[c].key IN
    \/ co[c].pc = "get" /\ UNCHANGED <<redis, lock>>
    \/ /\ co[c].pc = "acquire"
       /\ lock' = IF lock[k] = Free THEN [lock EXCEPT ![k] = [owner |-> c, left |-> LockTtl]] ELSE lock
       /\ UNCHANGED redis
    \/ /\ co[c].pc = "set"
       /\ redis' = [redis EXCEPT ![k] = Present(co[c].val.value, co[c].val.age, RedisTtl(co[c].val.value))]
       /\ UNCHANGED lock
    \/ /\ co[c].pc = "release"
       /\ lock' = IF lock[k].owner = c THEN [lock EXCEPT ![k] = Free] ELSE lock
       /\ UNCHANGED redis
    \/ /\ co[c].pc = "del"
       /\ redis' = [redis EXCEPT ![k] = Missing]
       /\ UNCHANGED lock

Execute(c) ==
    /\ Pending(c)
    /\ Effect(c)
    /\ co' = [co EXCEPT ![c] = [@ EXCEPT !.reply = Answer(c)]]
    /\ UNCHANGED <<conf, local, inflight, awaits, truth, floor, spent>>

(* The call raises; the command was executed or not. *)
Fail(c) ==
    /\ Pending(c)
    /\ spent.errors < conf.bound.errors
    /\ Effect(c) \/ UNCHANGED <<redis, lock>>
    /\ co' = [co EXCEPT ![c] = [@ EXCEPT !.reply = Error]]
    /\ spent' = [spent EXCEPT !.errors = @ + 1]
    /\ UNCHANGED <<conf, local, inflight, awaits, truth, floor>>

(* Another writer leaves an entry that cannot be decoded. *)
ForeignWrite(k) ==
    /\ redis_enabled
    /\ spent.errors < conf.bound.errors
    /\ redis' = [redis EXCEPT ![k] = [Corrupt EXCEPT !.left = conf.redisTtl]]
    /\ spent' = [spent EXCEPT !.errors = @ + 1]
    /\ UNCHANGED <<conf, local, inflight, awaits, co, lock, truth, floor>>

-----------------------------------------------------------------------------
(* The coroutines *)

others == <<conf, inflight, awaits, redis, lock, truth, floor>>

To(c, pc, path) == co' = [co EXCEPT ![c] = [@ EXCEPT !.pc = pc, !.path = path, !.reply = NoReply]]

(* The coroutine ends with `out', through the release of its Redis lock     *)
(* when it holds one.                                                       *)
Finish(c, out) ==
    co' = [co EXCEPT ![c] =
             [@ EXCEPT !.pc = IF co[c].pc # "release" /\ co[c].path = "locked" THEN "release" ELSE "done",
                       !.reply = NoReply, !.val = NoReply, !.rounds = 0, !.out = out]]

Hit(c) == co[c].reply.is = "value"
Raised(c) == co[c].reply.is \in {"error", "corrupt"} /\ Raises
Miss(c) == co[c].reply.is = "missing" \/ (co[c].reply.is \in {"error", "corrupt"} /\ ~Raises)

GetRedisHit(c) ==
    /\ co[c].pc = "get" /\ Hit(c)
    /\ IF co[c].path = "raise" THEN UNCHANGED local ELSE StoreLocal(Home[c], co[c].key, co[c].reply)
    /\ Finish(c, "ok")
    /\ UNCHANGED <<others, spent>>

GetRedisRaises(c) ==
    /\ co[c].pc = "get" /\ Raised(c)
    /\ Finish(c, "redis error")
    /\ UNCHANGED <<local, others, spent>>

GetRedisMiss(c) ==
    /\ co[c].pc = "get" /\ Miss(c)
    /\ \/ co[c].path = "start" /\ To(c, "acquire", "start")
       \/ co[c].path = "locked" /\ To(c, "want", "locked")
       \/ co[c].path = "wait" /\ To(c, "sleep", "wait")
       \/ co[c].path = "raise" /\ Finish(c, "redis error")
       \/ co[c].path = "cached" /\ Finish(c, "none")
    /\ UNCHANGED <<local, others, spent>>

LockAcquired(c) ==
    /\ co[c].pc = "acquire" /\ co[c].reply = Yes
    /\ To(c, "get", "locked")
    /\ UNCHANGED <<local, others, spent>>

(* Mutant: a refused lock is not waited for. *)
LockRefusedLoads(c) ==
    /\ co[c].pc = "acquire" /\ co[c].reply = No
    /\ To(c, "want", "unlocked")
    /\ UNCHANGED <<local, others, spent>>
LockRefused(c) ==
    /\ co[c].pc = "acquire" /\ co[c].reply = No
    /\ To(c, "sleep", "wait")
    /\ UNCHANGED <<local, others, spent>>

(* _load_without_redis *)
LockRaises(c) ==
    /\ co[c].pc = "acquire" /\ co[c].reply = Error
    /\ IF Raises THEN To(c, "get", "raise") ELSE To(c, "want", "fallback")
    /\ UNCHANGED <<local, others, spent>>

(* _wait_for_redis_fill: another round, or the deadline has passed. *)
WaitAgain(c) ==
    /\ co[c].pc = "sleep"
    /\ co[c].rounds < MaxRounds
    /\ co' = [co EXCEPT ![c] = [@ EXCEPT !.pc = "get", !.rounds = co[c].rounds + 1]]
    /\ UNCHANGED <<local, others, spent>>
WaitEnds(c) ==
    /\ co[c].pc = "sleep"
    /\ co' = [co EXCEPT ![c] = [@ EXCEPT !.pc = "want", !.path = "unlocked", !.rounds = 0]]
    /\ spent' = [spent EXCEPT !.waitedOut = TRUE]
    /\ UNCHANGED <<local, others>>

(* _run_loader: the semaphore, then the loader. *)
Loading(r) == {c \in Callers : Home[c] = r /\ co[c].pc = "load"}
(* Mutant: one slot of the semaphore is never given out. *)
RunLoaderOneLess(c) ==
    /\ co[c].pc = "want"
    /\ Cardinality(Loading(Home[c])) + 1 < conf.slots
    /\ To(c, "load", co[c].path)
    /\ UNCHANGED <<local, others, spent>>
RunLoader(c) ==
    /\ co[c].pc = "want"
    /\ Cardinality(Loading(Home[c])) < conf.slots
    /\ To(c, "load", co[c].path)
    /\ UNCHANGED <<local, others, spent>>
LoaderReads(c) ==
    /\ co[c].pc = "load" /\ co[c].reply = NoReply
    /\ co' = [co EXCEPT ![c] = [@ EXCEPT !.reply = Present(truth[co[c].key], 0, 0)]]
    /\ UNCHANGED <<local, others, spent>>
LoaderReturns(c) ==
    LET v == co[c].reply IN
    /\ co[c].pc = "load" /\ Hit(c)
    /\ StoreLocal(Home[c], co[c].key, v)
    /\ IF co[c].path \in {"locked", "unlocked"} /\ RedisTtl(v.value) > 0
       THEN co' = [co EXCEPT ![c] = [@ EXCEPT !.pc = "set", !.val = v, !.reply = NoReply]]
       ELSE Finish(c, "ok")
    /\ UNCHANGED <<others, spent>>
LoaderRaises(c) ==
    /\ co[c].pc = "load"
    /\ Finish(c, "loader error")
    /\ UNCHANGED <<local, others, spent>>

SetRedisReturns(c) ==
    /\ co[c].pc = "set" /\ co[c].reply # NoReply
    /\ Finish(c, IF co[c].reply = Error /\ Raises THEN "redis error" ELSE "ok")
    /\ UNCHANGED <<local, others, spent>>

ReleaseReturns(c) ==
    /\ co[c].pc = "release" /\ co[c].reply # NoReply
    /\ Finish(c, IF co[c].reply = Error /\ Raises THEN "redis error" ELSE co[c].out)
    /\ UNCHANGED <<local, others, spent>>

DeleteReturns(c) ==
    /\ co[c].pc = "del" /\ co[c].reply # NoReply
    /\ Finish(c, IF co[c].reply = Error /\ Raises THEN "redis error" ELSE "ok")
    /\ UNCHANGED <<local, others, spent>>

(* The awaited coroutine is over: the caller returns or raises, the creator *)
(* of a loading task takes it out of _inflight.                             *)
Return(c) ==
    LET t == awaits[c]
        r == Home[c]
        k == co[t].key IN
    /\ t # NoCaller
    /\ co[t].pc = "done"
    /\ awaits' = [awaits EXCEPT ![c] = NoCaller]
    /\ inflight' = IF inflight[r][k] = c THEN [inflight EXCEPT ![r][k] = NoCaller] ELSE inflight
    /\ co' = IF \E d \in Callers \ {c} : awaits[d] = t THEN co ELSE [co EXCEPT ![t] = NoCo]
    /\ UNCHANGED <<conf, local, redis, lock, truth, floor, spent>>

(* Cancelling a caller cancels what it awaits, whoever created it; a        *)
(* command on its way may or may not be executed.                           *)
Cancel(c) ==
    LET t == awaits[c] IN
    /\ t # NoCaller
    /\ co[t].pc # "done"
    /\ spent.cancels < conf.bound.cancels
    /\ IF Pending(t) THEN Effect(t) \/ UNCHANGED <<redis, lock>> ELSE UNCHANGED <<redis, lock>>
    /\ Finish(t, "cancelled")
    /\ spent' = [spent EXCEPT !.cancels = @ + 1]
    /\ UNCHANGED <<conf, local, inflight, awaits, truth, floor>>

-----------------------------------------------------------------------------
(* The world *)

Change(k) ==
    /\ spent.changes < conf.bound.changes
    /\ truth' = [truth EXCEPT ![k] = @ + 1]
    /\ spent' = [spent EXCEPT !.changes = @ + 1]
    /\ UNCHANGED <<conf, local, inflight, awaits, co, redis, lock, floor>>

Older(age) == IF age < OldestAge THEN age + 1 ELSE age

(* A value is on its way from Redis, or to it. *)
InTransit(c) == co[c].pc = "set" \/ (co[c].pc = "get" /\ Hit(c))

(* c believes it holds the lock of its key. *)
Holds(c) == \/ co[c].path = "locked" /\ co[c].pc # "done"
            \/ co[c].pc = "acquire" /\ co[c].reply = Yes

Tick ==
    /\ spent.ticks < conf.bound.ticks
    /\ local' = [r \in Replicas |-> [i \in DOMAIN local[r] |->
          [local[r][i] EXCEPT !.left = IF @ > 0 THEN @ - 1 ELSE 0, !.age = Older(@)]]]
    /\ redis' = [k \in Keys |-> IF redis[k].left <= 1 THEN Missing
                                ELSE [redis[k] EXCEPT !.left = @ - 1, !.age = Older(@)]]
    /\ lock' = [k \in Keys |-> IF lock[k].left <= 1 THEN Free ELSE [lock[k] EXCEPT !.left = @ - 1]]
    /\ spent' = [spent EXCEPT
          !.ticks = @ + 1,
          !.lapsed = @ \/ \E c \in Callers : Holds(c) /\ lock[co[c].key].left = 1,
          !.late = @ \/ \E c \in Callers : InTransit(c)]
    /\ UNCHANGED <<conf, inflight, awaits, co, truth, floor>>

Resume(c) ==
    \/ GetRedisHit(c) \/ GetRedisRaises(c) \/ GetRedisMiss(c)
    \/ LockAcquired(c) \/ LockRefused(c) \/ LockRaises(c) \/ WaitAgain(c)
    \/ LoaderReads(c) \/ LoaderReturns(c) \/ LoaderRaises(c)
    \/ SetRedisReturns(c) \/ ReleaseReturns(c) \/ DeleteReturns(c)

Next ==
    \/ \E c \in Callers :
        \/ \E k \in conf.bound.keys : \/ GetCreate(c, k) \/ GetJoin(c, k) \/ GetCached(c, k)
                                \/ Set(c, k) \/ Invalidate(c, k)
        \/ Execute(c) \/ Fail(c) \/ Resume(c) \/ WaitEnds(c) \/ RunLoader(c)
        \/ Return(c) \/ Cancel(c)
    \/ \E r \in Replicas : ClearLocal(r)
    \/ \E k \in conf.bound.keys : ForeignWrite(k) \/ Change(k)
    \/ Tick

Spec == Init /\ [][Next]_vars

(* Redis answers or the call times out, loaders return or raise, deadlines  *)
(* pass, and the event loops run what is ready, in whatever order.          *)
Progress ==
    \E c \in Callers : Execute(c) \/ Resume(c) \/ WaitEnds(c) \/ RunLoader(c) \/ Return(c)

FairSpec == Spec /\ WF_vars(Progress)

-----------------------------------------------------------------------------
(* Properties *)

Entries == [is : {"missing", "corrupt", "error", "pending", "yes", "no", "value"},
            value : Nat, age : Nat, left : Nat]

(* Redis has answered every call, no lock lapsed under its holder and nobody *)
(* gave up waiting for another replica's load.                               *)
LockKept == spent.errors = 0 /\ ~spent.lapsed /\ ~spent.waitedOut

(* The stampede guard: with Redis at hand, one replica at a time loads a    *)
(* key, and one that waited for the lock never repeats the load whose       *)
(* result it was waiting for (a set() by a third party aside).              *)
OneLoader ==
    redis_enabled /\ LockKept =>
        /\ \A c, d \in Callers :
              /\ co[c].pc \in {"want", "load"} /\ co[d].pc \in {"want", "load"}
              /\ co[c].key = co[d].key
              => c = d
        /\ ~spent.put => \A c \in Callers :
              co[c].path = "locked" /\ co[c].pc \in {"want", "load"} => redis[co[c].key] = Missing

(* The two TTLs add up, and no more: a value read locally was loaded less   *)
(* than local plus Redis TTL ago (less than the local one if Redis keeps no *)
(* such value), an empty one by the TTLs of empty values, unless a Redis    *)
(* call took longer than the clock's unit.                                  *)
AgeBounded ==
    ~spent.late =>
        \A r \in Replicas : \A i \in DOMAIN local[r] :
            LET e == local[r][i]
                empty == e.value \in EmptyValues
                localTtl == IF empty THEN conf.emptyTtl ELSE conf.localTtl
                redisTtl == IF empty THEN conf.redisEmptyTtl ELSE conf.redisTtl IN
            e.left > 0 => e.age + e.left <= localTtl + (IF redisTtl > 0 THEN redisTtl - 1 ELSE 0)

(* An invalidation that overlapped no other use of its key leaves nothing   *)
(* older than itself to be read in its replica, neither locally nor through *)
(* Redis.                                                                   *)
InvalidationHolds ==
    ~spent.overlap /\ spent.errors = 0 /\ spent.cancels = 0 =>
        \A r \in Replicas : \A i \in DOMAIN local[r] :
            local[r][i].value >= floor[r][local[r][i].key]

(* Every call returns or raises, whatever fails, lapses or is cancelled: as *)
(* long as anyone can go on, nobody waits for good.                         *)
EveryCallReturns == []<>(\A c \in Callers : awaits[c] = NoCaller)
=============================================================================
