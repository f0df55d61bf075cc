--------------------------- MODULE SharedChannels ---------------------------
(* Process-wide gRPC channels (grpc/channels.py, grpc/client.py) and httpx *)
(* clients (web/http.py).  A registry holds one proxy per key; a gRPC      *)
(* proxy opens a real channel per event loop on first use, an httpx client *)
(* is its own real connection.  Users are GrpcClients (or callers of the   *)
(* httpx helpers) on the loops of several threads; what a lock guards is   *)
(* one step, and closing awaits each real channel in turn.                 *)
EXTENDS Integers, Sequences, FiniteSets

CONSTANTS Users, Loops,
          LoopOf,          \* user -> the loop of its thread
          ChannelKeys, HttpKeys,
          Specs,           \* target, token and service name of a key
          MaxProxies, MaxChannels, MaxStops

\* The two registries are two dictionaries.
ASSUME ChannelsAssumption == LoopOf \in [Users -> Loops] /\ ChannelKeys \cap HttpKeys = {}

Shared == 0    \* the loop of a connection that belongs to no loop

VARIABLES registry,   \* key -> number of its proxy, 0 is none
          proxies,    \* every proxy ever made: [key, spec, table]
          channels,   \* every real channel: [proxy, loop, st, late]
          running,    \* loops that run
          users       \* user -> [st, spec, proxy, todo, pending, current]

channelVars == <<registry, proxies, channels, running, users>>

Free == [st |-> "free", spec |-> "none", proxy |-> 0, todo |-> {}, pending |-> {}, current |-> 0]

ChannelsInit ==
    /\ registry = [k \in ChannelKeys \cup HttpKeys |-> 0]
    /\ proxies = <<>> /\ channels = <<>>
    /\ running = Loops
    /\ users = [u \in Users |-> Free]

Up(u) == LoopOf[u] \in running
UserBecomes(u, r) == users' = [users EXCEPT ![u] = r]
Holding(s, p) == [Free EXCEPT !.st = "ready", !.spec = s, !.proxy = p]
NewChannel(p, l, late) == [proxy |-> p, loop |-> l, st |-> "open", late |-> late]

\* The part of build_shared_channel and build_shared_async_client under the
\* lock: an existing entry is reused if it has the same specification.
ReuseOrRefuse(u, k, s) ==
    /\ registry[k] # 0
    /\ UserBecomes(u, IF proxies[registry[k]].spec = s THEN Holding(s, registry[k])
                  ELSE [Free EXCEPT !.st = "refused"])
    /\ UNCHANGED <<registry, proxies, channels, running>>
Register(u, k, s, table) ==
    /\ registry[k] = 0 /\ Len(proxies) < MaxProxies
    /\ proxies' = Append(proxies, [key |-> k, spec |-> s, table |-> table])
    /\ registry' = [registry EXCEPT ![k] = Len(proxies) + 1]
    /\ UserBecomes(u, Holding(s, Len(proxies) + 1))
    /\ UNCHANGED running

\* build_shared_channel: GrpcClient.__init__
BuildChannel(u, k, s) ==
    /\ users[u].st = "free" /\ Up(u)
    /\ \/ ReuseOrRefuse(u, k, s)
       \/ Register(u, k, s, [l \in Loops |-> 0]) /\ UNCHANGED channels

\* build_shared_async_client: the client is made at once.
BuildClient(u, k, s) ==
    /\ users[u].st = "free" /\ Up(u)
    /\ \/ ReuseOrRefuse(u, k, s)
       \/ /\ Len(channels) < MaxChannels
          /\ Register(u, k, s, [l \in {Shared} |-> Len(channels) + 1])
          /\ channels' = Append(channels, NewChannel(Len(proxies) + 1, Shared, FALSE))

\* GrpcClient.__init__
NewGrpcClient(u) == \E k \in ChannelKeys, s \in Specs : BuildChannel(u, k, s)

\* The stubs a user makes know the proxy and no channel.
HasStub(u) == users[u].st = "ready" /\ proxies[users[u].proxy].key \in ChannelKeys

\* The channel of the running loop is opened when the table has none.
Registered(p) == registry[proxies[p].key] = p
CreateAlways(u) ==
    LET p == users[u].proxy IN
    /\ Len(channels) < MaxChannels
    /\ channels' = Append(channels, NewChannel(p, LoopOf[u], ~Registered(p)))
    /\ proxies' = [proxies EXCEPT ![p].table[LoopOf[u]] = Len(channels) + 1]
    /\ UNCHANGED <<registry, running, users>>
GetOrCreate(u) ==
    LET p == users[u].proxy IN
    /\ proxies[p].table[LoopOf[u]] = 0
    /\ Len(channels) < MaxChannels
    /\ channels' = Append(channels, NewChannel(p, LoopOf[u], ~Registered(p)))
    /\ proxies' = [proxies EXCEPT ![p].table[LoopOf[u]] = Len(channels) + 1]
    /\ UNCHANGED <<registry, running, users>>

\* _MultiCallableProxy: the channel is resolved when the stub is invoked.
Invoke(u) == HasStub(u) /\ Up(u) /\ GetOrCreate(u)

\* close_shared_channels(keys): the entries leave the registry under the lock.
BeginClose(u, ks) ==
    /\ users[u].st = "ready" /\ Up(u)
    /\ registry' = [k \in DOMAIN registry |-> IF k \in ks THEN 0 ELSE registry[k]]
    /\ UserBecomes(u, [Free EXCEPT !.st = "closing", !.todo = {registry[k] : k \in ks} \ {0}])
    /\ UNCHANGED <<proxies, channels, running>>
CloseClient(u) == HasStub(u) /\ BeginClose(u, {proxies[users[u].proxy].key})
CloseAllChannels(u) == BeginClose(u, ChannelKeys)
CloseAsyncClients(u) == BeginClose(u, HttpKeys)

\* _SharedChannelProxy.close: takes the table of the next proxy away.
TakeTable(u) ==
    LET r == users[u] IN
    /\ r.st = "closing" /\ Up(u) /\ r.pending = {} /\ r.current = 0
    /\ \E p \in r.todo :
         /\ UserBecomes(u, [r EXCEPT !.todo = @ \ {p},
                !.pending = {proxies[p].table[l] : l \in DOMAIN proxies[p].table} \ {0}])
         /\ proxies' = [proxies EXCEPT ![p].table = [l \in DOMAIN @ |-> 0]]
    /\ UNCHANGED <<registry, channels, running>>

\* _close_channel: in its own loop or handed to the running loop it belongs
\* to; a channel of a loop that no longer runs is skipped.
Reachable(c) == channels[c].loop \in running \cup {Shared}
CloseNext(u) ==
    LET r == users[u] IN
    /\ r.st = "closing" /\ Up(u) /\ r.current = 0
    /\ \E c \in r.pending :
         UserBecomes(u, [r EXCEPT !.pending = @ \ {c}, !.current = IF Reachable(c) THEN c ELSE 0])
    /\ UNCHANGED <<registry, proxies, channels, running>>

\* The real channel has closed, in its loop, and the closer goes on.
ChannelClosed(u) ==
    LET r == users[u] IN
    /\ r.current # 0 /\ Up(u) /\ Reachable(r.current)
    /\ channels' = [channels EXCEPT ![r.current].st = "closed"]
    /\ UserBecomes(u, [r EXCEPT !.current = 0])
    /\ UNCHANGED <<registry, proxies, running>>

CloseReturns(u) ==
    /\ users[u].st = "closing" /\ Up(u)
    /\ users[u].todo = {} /\ users[u].pending = {} /\ users[u].current = 0
    /\ UserBecomes(u, [Free EXCEPT !.st = "closed"])
    /\ UNCHANGED <<registry, proxies, channels, running>>

\* A thread ends its loop; the tasks on it never resume.
StopLoop(l) ==
    /\ l \in running /\ Cardinality(Loops \ running) < MaxStops
    /\ running' = running \ {l}
    /\ UNCHANGED <<registry, proxies, channels, users>>

CloserStep(u) == TakeTable(u) \/ CloseNext(u) \/ ChannelClosed(u) \/ CloseReturns(u)
ChannelsNext ==
    \/ \E u \in Users :
         \/ NewGrpcClient(u) \/ Invoke(u) \/ CloserStep(u)
         \/ CloseClient(u) \/ CloseAllChannels(u) \/ CloseAsyncClients(u)
         \/ \E k \in HttpKeys, s \in Specs : BuildClient(u, k, s)
    \/ \E l \in Loops : StopLoop(l)
ChannelsSpec == ChannelsInit /\ [][ChannelsNext]_channelVars
-----------------------------------------------------------------------------
InHandsOf(u, c) ==
    \/ c \in users[u].pending \/ c = users[u].current
    \/ channels[c].proxy \in users[u].todo
       /\ c \in {proxies[channels[c].proxy].table[l] : l \in DOMAIN proxies[channels[c].proxy].table}

\* Users of several loops build, call and close in any order, and no open
\* channel of a running loop is ever beyond reach: the registry leads to it
\* through its proxy, or a close() in progress has it.  The exception is a
\* channel that a stub opened after its key had been closed, and a close()
\* that died with its loop.
NoOrphanChannel ==
    \A c \in DOMAIN channels :
        channels[c].st = "open" /\ Reachable(c) /\ running = Loops =>
            \/ channels[c].late
            \/ Registered(channels[c].proxy) /\ proxies[channels[c].proxy].table[channels[c].loop] = c
            \/ \E u \in Users : InHandsOf(u, c)
=============================================================================
