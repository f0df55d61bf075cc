---------------------------- MODULE ReplicaStore ----------------------------
(* RedisReplicaStore (state/snapshot_store.py) over RedisClient            *)
(* (state/redis.py): snapshots in a bounded local OrderedDict, replicated  *)
(* through Redis, with a client that operations connect on first use.      *)
(* Each task makes one call of one store; another process writes the same  *)
(* Redis keys.  A step is the code between two awaits.                     *)
EXTENDS Integers, Sequences, FiniteSets

CONSTANTS MaxStoreCalls,                 \* the store's calls, numbered as they come
          SnapshotKeys,
          RedisEnabled,                  \* the possible values of redis_enabled
          LocalTtl, RemoteTtl, MaxLocal, \* lifetimes in seconds, local_max_entries
          SocketTimeout,                 \* how long an answer of Redis may take
          MaxStoreTime, MaxVersions

ASSUME StoreAssumption ==
    /\ MaxStoreCalls \in Nat /\ SocketTimeout \in Nat /\ MaxLocal \in Nat
    /\ LocalTtl \in Int /\ RemoteTtl \in Int /\ RedisEnabled \subseteq BOOLEAN
    /\ IsFiniteSet(SnapshotKeys)

NoClient == 0
NoTask == 0
StoreTasks == 1..MaxStoreCalls

VARIABLES redisEnabled, storeClock,
          local,        \* OrderedDict of [key, value, expires, seen]
          client,       \* self._redis
          clients,      \* every RedisClient: connecting, open, closing, closed
          connectLock,  \* self._connect_lock
          remote,       \* Redis: key -> [value, expires]
          version,      \* last value written; a snapshot is its version
          storeTasks

storeVars == <<redisEnabled, storeClock, local, client, clients, connectLock,
               remote, version, storeTasks>>

Fresh == [op |-> "none", pc |-> "idle", keys |-> {}, value |-> 0, using |-> NoClient,
          got |-> {}, at |-> 0]

StoreInit ==
    /\ redisEnabled \in RedisEnabled
    /\ storeClock = 0
    /\ local = <<>>
    /\ client = NoClient
    /\ clients = <<>>
    /\ connectLock = NoTask
    /\ remote = [k \in SnapshotKeys |-> [value |-> 0, expires |-> 0]]
    /\ version = 0
    /\ storeTasks = [t \in StoreTasks |-> Fresh]

\* _prune_local: drops from the front while the first entry has expired.
Pruned(s) ==
    LET alive == {i \in 1..Len(s) : s[i].expires > storeClock}
        first == CHOOSE i \in alive : \A j \in alive : i <= j
    IN  IF alive = {} THEN <<>> ELSE SubSeq(s, first, Len(s))

\* _prune_local_limit
Limited(s) == IF Len(s) > MaxLocal THEN SubSeq(s, Len(s) - MaxLocal + 1, Len(s)) ELSE s

\* _set_local_many: new is a set of [key, value, seen], stored in some order.
Ordered(S) == {o \in UNION {[1..n -> S] : n \in 0..Cardinality(SnapshotKeys)} :
                 /\ \A x \in S : \E i \in DOMAIN o : o[i] = x
                 /\ \A i, j \in DOMAIN o : o[i] = o[j] => i = j}
Ascending(o) == \A i, j \in DOMAIN o : i < j => o[i] < o[j]
ExpiryOfRemote(e) == storeClock + RemoteTtl
Expiry(e) == storeClock + LocalTtl
SetLocalMany(new) ==
    IF new = {} \/ LocalTtl <= 0 THEN local' = local
    ELSE LET old == Pruned(local)
             others == {i \in 1..Len(old) : \A n \in new : n.key # old[i].key}
         IN  \E k \in Ordered(others), o \in Ordered(new) :
               LET kept == [i \in DOMAIN k |-> old[k[i]]]
                   added == [i \in DOMAIN o |-> [key |-> o[i].key, value |-> o[i].value,
                                                  seen |-> o[i].seen, expires |-> Expiry(o[i])]]
               IN  Ascending(k) /\ local' = Limited(kept \o added)

\* _get_local over the pruned layer
Hits(s, ks) == {[key |-> s[i].key, value |-> s[i].value, seen |-> s[i].seen] :
                   i \in {j \in 1..Len(s) : s[j].key \in ks /\ s[j].expires > storeClock}}

\* What the caller of start() does next, with the client it finds.
Resume(t, r, c) ==
    storeTasks' = [storeTasks EXCEPT ![t] =
        IF r.op = "start" THEN [Fresh EXCEPT !.pc = "done"]
        ELSE [r EXCEPT !.using = c, !.pc = IF r.op = "set" THEN "execute" ELSE "mget"]]

StartWithoutLock(t, r) ==
    \/ /\ client # NoClient
       /\ Resume(t, r, client)
       /\ UNCHANGED <<clients, connectLock>>
    \/ /\ client = NoClient
       /\ connectLock' = t
       /\ clients' = Append(clients, "connecting")
       /\ storeTasks' = [storeTasks EXCEPT ![t] = [r EXCEPT !.pc = "connect", !.using = Len(clients) + 1]]

\* start(), called by task t in state r: at most one task connects.
Start(t, r) ==
    \/ /\ client # NoClient
       /\ Resume(t, r, client)
       /\ UNCHANGED <<clients, connectLock>>
    \/ /\ client = NoClient /\ connectLock = NoTask
       /\ connectLock' = t
       /\ clients' = Append(clients, "connecting")
       /\ storeTasks' = [storeTasks EXCEPT ![t] = [r EXCEPT !.pc = "connect", !.using = Len(clients) + 1]]
    \/ /\ client = NoClient /\ connectLock # NoTask
       /\ storeTasks' = [storeTasks EXCEPT ![t] = [r EXCEPT !.pc = "lock"]]
       /\ UNCHANGED <<clients, connectLock>>

Arrives(t) == storeTasks[t].pc = "idle" /\ \A s \in 1..(t - 1) : storeTasks[s].pc # "idle"

Done(t) == /\ storeTasks' = [storeTasks EXCEPT ![t] = [Fresh EXCEPT !.pc = "done"]]
           /\ UNCHANGED <<clients, connectLock>>

CallStart(t) ==
    /\ Arrives(t)
    /\ LET r == [Fresh EXCEPT !.op = "start"]
       IN  IF redisEnabled THEN Start(t, r) ELSE Done(t)
    /\ UNCHANGED <<redisEnabled, storeClock, local, client, remote, version>>

\* set_many: the local layer first, then Redis when it is enabled.
SetMany(t, ks) ==
    /\ Arrives(t) /\ version < MaxVersions
    /\ version' = version + 1
    /\ SetLocalMany({[key |-> k, value |-> version', seen |-> storeClock] : k \in ks})
    /\ LET r == [Fresh EXCEPT !.op = "set", !.keys = ks, !.value = version + 1]
       IN  IF redisEnabled THEN Start(t, r) ELSE Done(t)
    /\ UNCHANGED <<redisEnabled, storeClock, client, remote>>

\* get_many: what the local layer misses is read from Redis.
GetMany(t, ks) ==
    LET missing == ks \ {h.key : h \in Hits(Pruned(local), ks)}
        r == [Fresh EXCEPT !.op = "get", !.keys = missing]
    IN  /\ Arrives(t)
        /\ local' = Pruned(local)
        /\ IF missing # {} /\ redisEnabled THEN Start(t, r) ELSE Done(t)
        /\ UNCHANGED <<redisEnabled, storeClock, client, remote, version>>

\* The lock is handed over; the waiting start() looks at self._redis again.
LockGranted(t) ==
    /\ storeTasks[t].pc = "lock" /\ connectLock = NoTask
    /\ Start(t, storeTasks[t])
    /\ UNCHANGED <<redisEnabled, storeClock, local, client, remote, version>>

\* RedisClient.connect: the ping succeeds and start() publishes the client.
StoreConnected(t) ==
    LET r == storeTasks[t]
    IN  /\ r.pc = "connect"
        /\ clients' = [clients EXCEPT ![r.using] = "open"]
        /\ client' = r.using
        /\ connectLock' = NoTask
        /\ Resume(t, r, r.using)
        /\ UNCHANGED <<redisEnabled, storeClock, local, remote, version>>

\* The ping fails: the connection is closed and the error reaches the caller.
ConnectFails(t) ==
    /\ storeTasks[t].pc = "connect"
    /\ clients' = [clients EXCEPT ![storeTasks[t].using] = "closed"]
    /\ connectLock' = NoTask
    /\ storeTasks' = [storeTasks EXCEPT ![t] = [Fresh EXCEPT !.pc = "done"]]
    /\ UNCHANGED <<redisEnabled, storeClock, local, client, remote, version>>

\* pipeline.execute: the writes that reach Redis; an error is only logged and
\* may come after a part of the pipeline, which is no transaction.
Execute(t) ==
    LET r == storeTasks[t]
    IN  /\ r.pc = "execute"
        /\ \E written \in IF clients[r.using] = "closed" THEN {{}} ELSE SUBSET r.keys :
             remote' = [k \in SnapshotKeys |-> IF k \in written
                          THEN [value |-> r.value, expires |-> storeClock + RemoteTtl] ELSE remote[k]]
        /\ Done(t)
        /\ UNCHANGED <<redisEnabled, storeClock, local, client, version>>

\* mget runs in Redis; an entry that does not decode is value 0 here.
Mget(t) ==
    LET r == storeTasks[t]
        found == {k \in r.keys : remote[k].value # 0 /\ remote[k].expires > storeClock}
    IN  /\ r.pc = "mget" /\ clients[r.using] # "closed"
        /\ storeTasks' = [storeTasks EXCEPT ![t] = [r EXCEPT !.pc = "answer", !.at = storeClock,
              !.got = {[key |-> k, value |-> remote[k].value, seen |-> storeClock] : k \in found}]]
        /\ UNCHANGED <<redisEnabled, storeClock, local, client, clients, connectLock, remote, version>>

\* The answer is put into the local layer, over whatever is there by now.
MgetReturns(t) ==
    LET r == storeTasks[t]
    IN  /\ r.pc = "answer"
        /\ SetLocalMany(r.got)
        /\ Done(t)
        /\ UNCHANGED <<redisEnabled, storeClock, client, remote, version>>

MgetFails(t) ==
    /\ storeTasks[t].pc \in {"mget", "answer"}
    /\ Done(t)
    /\ UNCHANGED <<redisEnabled, storeClock, local, client, remote, version>>

\* stop(): takes the client away, clears the local layer, then closes.
CallStop(t) ==
    /\ Arrives(t)
    /\ local' = <<>> /\ client' = NoClient
    /\ clients' = IF client = NoClient THEN clients ELSE [clients EXCEPT ![client] = "closing"]
    /\ storeTasks' = [storeTasks EXCEPT ![t] = [Fresh EXCEPT !.using = client,
                         !.pc = IF client = NoClient THEN "done" ELSE "close"]]
    /\ UNCHANGED <<redisEnabled, storeClock, connectLock, remote, version>>

\* RedisClient.aclose returns.
Closed(t) ==
    /\ storeTasks[t].pc = "close"
    /\ clients' = [clients EXCEPT ![storeTasks[t].using] = "closed"]
    /\ storeTasks' = [storeTasks EXCEPT ![t] = [Fresh EXCEPT !.pc = "done"]]
    /\ UNCHANGED <<redisEnabled, storeClock, local, client, connectLock, remote, version>>

\* Another process replicates a snapshot.
OtherSets(k) ==
    /\ version < MaxVersions
    /\ version' = version + 1
    /\ remote' = [remote EXCEPT ![k] = [value |-> version + 1, expires |-> storeClock + RemoteTtl]]
    /\ UNCHANGED <<redisEnabled, storeClock, local, client, clients, connectLock, storeTasks>>

\* An answer of Redis arrives within the socket timeout or the call fails.
StoreTick ==
    /\ storeClock < MaxStoreTime
    /\ \A t \in StoreTasks :
         storeTasks[t].pc = "answer" => storeClock < storeTasks[t].at + SocketTimeout
    /\ storeClock' = storeClock + 1
    /\ UNCHANGED <<redisEnabled, local, client, clients, connectLock, remote, version, storeTasks>>

TaskStep(t) == \/ LockGranted(t) \/ StoreConnected(t) \/ ConnectFails(t) \/ Execute(t)
               \/ Mget(t) \/ MgetReturns(t) \/ MgetFails(t) \/ Closed(t)

StoreNext ==
    \/ StoreTick
    \/ \E k \in SnapshotKeys : OtherSets(k)
    \/ \E t \in StoreTasks :
         \/ CallStart(t) \/ CallStop(t)
         \/ \E ks \in SUBSET SnapshotKeys \ {{}} : SetMany(t, ks) \/ GetMany(t, ks)
         \/ TaskStep(t)
StoreSpec == StoreInit /\ [][StoreNext]_storeVars
-----------------------------------------------------------------------------
\* What get_many() answers from the local layer was in Redis, or set by this
\* process, less than the local lifetime and one answer of Redis ago: also
\* when an older read of its own has overwritten a newer snapshot (line 147).
SnapshotAge ==
    \A h \in Hits(Pruned(local), SnapshotKeys) : storeClock - h.seen < LocalTtl + SocketTimeout

\* However start(), stop() and operations that reconnect interleave, a client
\* that is not closed is the store's own, or in the hands of the one task
\* that connects or closes it: no connection is ever lost.
NoOrphanConnection ==
    \A c \in DOMAIN clients : clients[c] # "closed" =>
        \/ client = c
        \/ \E t \in StoreTasks : storeTasks[t].using = c /\ storeTasks[t].pc \in {"connect", "close"}
=============================================================================
