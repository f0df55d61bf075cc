----------------------- MODULE PlatformPermsResolver -----------------------
(***************************************************************************)
(* The permission resolver of security/platform_perms_resolver.py: a cache *)
(* of a user's permission answers, one per (user, tenant) subject, filled  *)
(* by coalesced gRPC fetches and emptied by NATS invalidation messages.    *)
(*                                                                         *)
(* A caller is one coroutine inside get().  Code between two awaits is one *)
(* step: the asyncio lock of _fetch_and_cache guards a section that never  *)
(* suspends, so taking it never suspends either.  The fetch task that a    *)
(* caller creates is named by that caller, who awaits it to its end; a     *)
(* caller starts again only when nobody awaits its last fetch any more.    *)
(*                                                                         *)
(* The data of an answer is the version of the user's permissions the auth *)
(* service read to give it.  `invalidated', `floor' and `lost' are history *)
(* variables: no action's guard reads them.                                *)
(***************************************************************************)
EXTENDS Integers, FiniteSets

CONSTANTS
    Users,        \* user ids
    Tenants,      \* tenant ids, and one value for the global (tenant-less) question
    Callers,      \* coroutines that call get()
    NoTask,       \* no fetch in flight for a subject
    MaxEntries,   \* max_entries
    Ttl,          \* ttl_seconds, in clock ticks
    MaxChanges,   \* bound: permission changes
    MaxEpoch,     \* bound: clear() is not called at this epoch
    MaxTime       \* bound: clock ticks

ASSUME CallersFinite == IsFiniteSet(Callers) /\ NoTask \notin Callers
ASSUME MaxEntriesPositive == MaxEntries \in Nat \ {0}
ASSUME BoundsAreNats == Ttl \in Nat /\ MaxChanges \in Nat /\ MaxEpoch \in Nat /\ MaxTime \in Nat
ASSUME SubjectsFinite == IsFiniteSet(Users) /\ IsFiniteSet(Tenants)

Keys == Users \X Tenants
User(k) == k[1]
NoKey == << >>

NoEntry == [seen |-> -1, at |-> 0]
Entries == [seen : Nat, at : Nat]

VARIABLES
    cache,        \* _cache: subject -> entry or NoEntry
    inflight,     \* _inflight: subject -> the caller whose fetch it is, or NoTask
    epochs,       \* _epochs: user -> epoch, 0 when absent
    running,      \* _running: user -> fetches not yet settled, 0 when absent
    pc,           \* caller -> "idle", "creator" (awaits its own fetch), "joined"
    key,          \* caller -> the subject it asks about
    task,         \* caller -> the fetch it awaits
    epoch,        \* caller -> the epoch it read when it created its fetch
    fetch,        \* caller -> state of the fetch it created
    floor,        \* history: caller -> invalidated[user] when it called get()
    reply,        \* what the last step made a get() return: its answer and floor
    now,          \* time.monotonic()
    truth,        \* auth service: user -> version of the user's permissions
    changes,      \* auth service: changes made so far
    mail,         \* NATS: invalidation messages not yet delivered
    lost,         \* history: users some lost message was about
    invalidated   \* history: user -> truth at the last invalidation

resolver == <<cache, inflight, epochs, running>>
callers == <<pc, key, task, epoch, fetch, floor>>
environment == <<now, truth, changes, mail, lost>>
vars == <<resolver, callers, environment, reply, invalidated>>

Running == {"sent", "read"}
Settled == {"ok", "failed", "cancelled"}
Fetches == [st : {"none"} \cup Running \cup Settled, entry : Entries \cup {NoEntry}]
Replies == [seen : Nat, floor : Nat]
NoReply == [seen |-> -1, floor |-> -1]
NoFetch == [st |-> "none", entry |-> NoEntry]

Init ==
    /\ cache = [k \in Keys |-> NoEntry]
    /\ inflight = [k \in Keys |-> NoTask]
    /\ epochs = [u \in Users |-> 0]
    /\ running = [u \in Users |-> 0]
    /\ pc = [c \in Callers |-> "idle"]
    /\ key = [c \in Callers |-> NoKey]
    /\ task = [c \in Callers |-> NoTask]
    /\ epoch = [c \in Callers |-> 0]
    /\ fetch = [c \in Callers |-> NoFetch]
    /\ reply = NoReply
    /\ now = 0
    /\ truth = [u \in Users |-> 0]
    /\ changes = 0
    /\ mail = {}
    /\ lost = {}
    /\ invalidated = [u \in Users |-> 0]
    /\ floor = [c \in Callers |-> 0]

-----------------------------------------------------------------------------
(* get(user_id, tenant_id) and the fetch it may create *)

Fresh(k) == cache[k] # NoEntry /\ now - cache[k].at < Ttl

(* get() is called; c's last fetch, if it created one, is awaited by no one. *)
Begin(c) == pc[c] = "idle" /\ fetch[c] = NoFetch

Outcome(t, least) ==
    IF fetch[t].st = "ok" THEN [seen |-> fetch[t].entry.seen, floor |-> least]
                          ELSE NoReply

GetHit(c, k) ==
    /\ Begin(c)
    /\ Fresh(k)
    /\ reply' = [seen |-> cache[k].seen, floor |-> invalidated[User(k)]]
    /\ UNCHANGED <<resolver, callers, environment, invalidated>>

(* The fetch in flight for k is over but its creator has not run yet:       *)
(* awaiting a done task gives its outcome without suspending.               *)
GetJoinSettled(c, k) ==
    /\ Begin(c)
    /\ ~Fresh(k)
    /\ inflight[k] # NoTask
    /\ fetch[inflight[k]].st \in Settled
    /\ reply' = Outcome(inflight[k], invalidated[User(k)])
    /\ UNCHANGED <<resolver, callers, environment, invalidated>>

Await(c, k, t) ==
    /\ key' = [key EXCEPT ![c] = k]
    /\ task' = [task EXCEPT ![c] = t]
    /\ floor' = [floor EXCEPT ![c] = invalidated[User(k)]]
    /\ reply' = NoReply

GetJoin(c, k) ==
    /\ Begin(c)
    /\ ~Fresh(k)
    /\ inflight[k] # NoTask
    /\ fetch[inflight[k]].st \in Running
    /\ pc' = [pc EXCEPT ![c] = "joined"]
    /\ Await(c, k, inflight[k])
    /\ UNCHANGED <<resolver, epoch, fetch, environment, invalidated>>

GetCreate(c, k) ==
    /\ Begin(c)
    /\ ~Fresh(k)
    /\ inflight[k] = NoTask
    /\ pc' = [pc EXCEPT ![c] = "creator"]
    /\ Await(c, k, c)
    /\ epoch' = [epoch EXCEPT ![c] = epochs[User(k)]]
    /\ fetch' = [fetch EXCEPT ![c] = [st |-> "sent", entry |-> NoEntry]]
    /\ inflight' = [inflight EXCEPT ![k] = c]
    /\ running' = [running EXCEPT ![User(k)] = @ + 1]
    /\ UNCHANGED <<cache, epochs, environment, invalidated>>

-----------------------------------------------------------------------------
(* _fetch: the task a creator awaits *)

(* The auth service reads the user's permissions for this request. *)
AuthReads(c) ==
    /\ fetch[c].st = "sent"
    /\ fetch' = [fetch EXCEPT ![c] =
          [st |-> "read", entry |-> [seen |-> truth[User(key[c])], at |-> 0]]]
    /\ reply' = NoReply
    /\ UNCHANGED <<resolver, pc, key, task, epoch, floor, environment, invalidated>>

FetchReturns(c) ==
    /\ fetch[c].st = "read"
    /\ fetch' = [fetch EXCEPT ![c] =
          [st |-> "ok", entry |-> [seen |-> @.entry.seen, at |-> now]]]
    /\ reply' = NoReply
    /\ UNCHANGED <<resolver, pc, key, task, epoch, floor, environment, invalidated>>

FetchRaises(c) ==
    /\ fetch[c].st \in Running
    /\ fetch' = [fetch EXCEPT ![c] = [st |-> "failed", entry |-> NoEntry]]
    /\ reply' = NoReply
    /\ UNCHANGED <<resolver, pc, key, task, epoch, floor, environment, invalidated>>

(* Cancelling a caller that awaits a running task cancels the task, whoever *)
(* created it.                                                              *)
CancelAwaiting(c) ==
    /\ pc[c] # "idle"
    /\ fetch[task[c]].st \in Running
    /\ fetch' = [fetch EXCEPT ![task[c]] = [st |-> "cancelled", entry |-> NoEntry]]
    /\ reply' = NoReply
    /\ UNCHANGED <<resolver, pc, key, task, epoch, floor, environment, invalidated>>

-----------------------------------------------------------------------------
(* The await returns or raises *)

(* c leaves get() with `value'; the last to leave a task releases it. *)
Return(c, value) ==
    /\ pc' = [pc EXCEPT ![c] = "idle"]
    /\ key' = [key EXCEPT ![c] = NoKey]
    /\ task' = [task EXCEPT ![c] = NoTask]
    /\ epoch' = [epoch EXCEPT ![c] = 0]
    /\ floor' = [floor EXCEPT ![c] = 0]
    /\ fetch' = IF \E d \in Callers \ {c} : task[d] = task[c]
                THEN fetch ELSE [fetch EXCEPT ![task[c]] = NoFetch]
    /\ reply' = value

(* Mutant: a failed fetch is awaited forever. *)
JoinerResumesOnSuccess(c) ==
    /\ pc[c] = "joined"
    /\ fetch[task[c]].st = "ok"
    /\ Return(c, Outcome(task[c], floor[c]))
    /\ UNCHANGED <<resolver, environment, invalidated>>

(* NoReply also when the joiner was cancelled after the task settled and    *)
(* before it ran.                                                           *)
JoinerResumes(c) ==
    /\ pc[c] = "joined"
    /\ fetch[task[c]].st \in Settled
    /\ \E value \in {NoReply, Outcome(task[c], floor[c])} : Return(c, value)
    /\ UNCHANGED <<resolver, environment, invalidated>>

Cached == {k \in Keys : cache[k] # NoEntry}
Oldest == {k \in Cached : \A j \in Cached : cache[k].at <= cache[j].at}

(* The subject _store drops to make room for k: k itself stands for none. *)
Victims(k) ==
    IF k \notin Cached /\ Cardinality(Cached) >= MaxEntries THEN Oldest ELSE {k}

Store(k, entry) ==
    \E oldest \in Victims(k) :
        cache' = [cache EXCEPT ![oldest] = NoEntry, ![k] = entry]

(* The finally block of _fetch_and_cache *)
Finish(c) ==
    LET k == key[c]
        u == User(k) IN
    /\ inflight' = IF inflight[k] = c THEN [inflight EXCEPT ![k] = NoTask] ELSE inflight
    /\ running' = [running EXCEPT ![u] = @ - 1]
    /\ epochs' = IF running[u] = 1 THEN [epochs EXCEPT ![u] = 0] ELSE epochs

(* Mutant: the epoch is not compared. *)
CreatorStoresUnfenced(c) ==
    /\ pc[c] = "creator"
    /\ fetch[c].st = "ok"
    /\ Store(key[c], fetch[c].entry)
    /\ Finish(c)
    /\ Return(c, Outcome(c, floor[c]))
    /\ UNCHANGED <<environment, invalidated>>

CreatorStores(c) ==
    /\ pc[c] = "creator"
    /\ fetch[c].st = "ok"
    /\ epochs[User(key[c])] = epoch[c]
    /\ Store(key[c], fetch[c].entry)
    /\ Finish(c)
    /\ Return(c, Outcome(c, floor[c]))
    /\ UNCHANGED <<environment, invalidated>>

(* Fenced: the answer serves the creator and is not cached. *)
CreatorDiscards(c) ==
    /\ pc[c] = "creator"
    /\ fetch[c].st = "ok"
    /\ epochs[User(key[c])] # epoch[c]
    /\ Finish(c)
    /\ Return(c, Outcome(c, floor[c]))
    /\ UNCHANGED <<cache, environment, invalidated>>

(* The fetch failed or was cancelled, or the creator was cancelled after    *)
(* the fetch settled and before it ran.                                     *)
CreatorRaises(c) ==
    /\ pc[c] = "creator"
    /\ fetch[c].st \in Settled
    /\ Finish(c)
    /\ Return(c, NoReply)
    /\ UNCHANGED <<cache, environment, invalidated>>

-----------------------------------------------------------------------------
(* Invalidation *)

(* Mutants: the fetches in flight stay joinable; they are not fenced off.   *)
InvalidateManyJoinable(doomed) ==
    /\ epochs' = [u \in Users |-> IF u \in doomed /\ running[u] # 0
                                  THEN epochs[u] + 1 ELSE epochs[u]]
    /\ cache' = [k \in Keys |-> IF User(k) \in doomed THEN NoEntry ELSE cache[k]]
    /\ invalidated' = [u \in Users |-> IF u \in doomed THEN truth[u] ELSE invalidated[u]]
    /\ reply' = NoReply
    /\ UNCHANGED <<inflight, running>>
InvalidateManyUnfenced(doomed) ==
    /\ cache' = [k \in Keys |-> IF User(k) \in doomed THEN NoEntry ELSE cache[k]]
    /\ inflight' = [k \in Keys |-> IF User(k) \in doomed THEN NoTask ELSE inflight[k]]
    /\ invalidated' = [u \in Users |-> IF u \in doomed THEN truth[u] ELSE invalidated[u]]
    /\ reply' = NoReply
    /\ UNCHANGED <<epochs, running>>

InvalidateMany(doomed) ==
    /\ epochs' = [u \in Users |-> IF u \in doomed /\ running[u] # 0
                                  THEN epochs[u] + 1 ELSE epochs[u]]
    /\ cache' = [k \in Keys |-> IF User(k) \in doomed THEN NoEntry ELSE cache[k]]
    /\ inflight' = [k \in Keys |-> IF User(k) \in doomed THEN NoTask ELSE inflight[k]]
    /\ invalidated' = [u \in Users |-> IF u \in doomed THEN truth[u] ELSE invalidated[u]]
    /\ reply' = NoReply
    /\ UNCHANGED running

(* _handle_user_invalidation and _handle_role_invalidation: the users a     *)
(* message names, one or several, in any order of arrival.                  *)
HandleInvalidation(m) ==
    /\ InvalidateMany(m.users)
    /\ mail' = mail \ {m}
    /\ UNCHANGED <<callers, now, truth, changes, lost>>

Clear ==
    /\ \A u \in Users : epochs[u] < MaxEpoch
    /\ InvalidateMany({u \in Users : running[u] # 0 \/ \E k \in Cached : User(k) = u})
    /\ UNCHANGED <<callers, environment>>

-----------------------------------------------------------------------------
(* The auth service, NATS core (at most once, unordered) and the clock *)

ChangePermissions(users) ==
    /\ changes < MaxChanges
    /\ changes' = changes + 1
    /\ truth' = [u \in Users |-> IF u \in users THEN truth[u] + 1 ELSE truth[u]]
    /\ mail' = mail \cup {[id |-> changes, users |-> users]}
    /\ reply' = NoReply
    /\ UNCHANGED <<resolver, callers, now, lost, invalidated>>

(* Lost on the way, or dropped by a handler that could not parse it. *)
LoseMessage(m) ==
    /\ mail' = mail \ {m}
    /\ lost' = lost \cup m.users
    /\ reply' = NoReply
    /\ UNCHANGED <<resolver, callers, now, truth, changes, invalidated>>

Tick ==
    /\ now < MaxTime
    /\ now' = now + 1
    /\ reply' = NoReply
    /\ UNCHANGED <<resolver, callers, truth, changes, mail, lost, invalidated>>

CallerStep(c) ==
    \/ \E k \in Keys : GetHit(c, k) \/ GetJoinSettled(c, k) \/ GetJoin(c, k) \/ GetCreate(c, k)
    \/ AuthReads(c) \/ FetchReturns(c) \/ FetchRaises(c) \/ CancelAwaiting(c)
    \/ JoinerResumes(c) \/ CreatorStores(c) \/ CreatorDiscards(c) \/ CreatorRaises(c)

Next ==
    \/ \E c \in Callers : CallerStep(c)
    \/ \E users \in (SUBSET Users) \ {{}} : ChangePermissions(users)
    \/ \E m \in mail : HandleInvalidation(m) \/ LoseMessage(m)
    \/ Clear
    \/ Tick

Spec == Init /\ [][Next]_vars

(* The event loop runs every ready callback, and the gRPC call returns or   *)
(* raises (its channel carries a deadline).                                 *)
Fairness ==
    \A c \in Callers :
        /\ WF_vars(AuthReads(c) \/ FetchReturns(c) \/ FetchRaises(c))
        /\ WF_vars(JoinerResumes(c))
        /\ WF_vars(CreatorStores(c) \/ CreatorDiscards(c) \/ CreatorRaises(c))

FairSpec == Spec /\ Fairness

-----------------------------------------------------------------------------
(* Properties *)

TypeOK ==
    /\ cache \in [Keys -> Entries \cup {NoEntry}]
    /\ inflight \in [Keys -> Callers \cup {NoTask}]
    /\ epochs \in [Users -> Nat]
    /\ running \in [Users -> Nat]
    /\ pc \in [Callers -> {"idle", "creator", "joined"}]
    /\ key \in [Callers -> Keys \cup {NoKey}]
    /\ task \in [Callers -> Callers \cup {NoTask}]
    /\ epoch \in [Callers -> Nat]
    /\ fetch \in [Callers -> Fetches]
    /\ reply \in Replies \cup {NoReply}
    /\ now \in Nat
    /\ truth \in [Users -> Nat]
    /\ changes \in Nat
    /\ mail \subseteq [id : Nat, users : SUBSET Users]
    /\ lost \subseteq Users
    /\ invalidated \in [Users -> Nat]
    /\ floor \in [Callers -> Nat]

(* The fence: no cached answer was read before the user's last              *)
(* invalidation, whatever fetches were in flight when it came.              *)
NoStaleEntry ==
    \A k \in Keys : cache[k] # NoEntry => cache[k].seen >= invalidated[User(k)]

(* A reader that called get() after an invalidation is never answered from  *)
(* before it: it neither hits an old entry nor joins an old fetch.          *)
FreshAfterInvalidation ==
    reply # NoReply => reply.seen >= reply.floor

(* Once every message about a user was delivered and none was lost, the     *)
(* cached answers about that user are the current ones.                     *)
ConvergedWhenDelivered ==
    \A k \in Keys :
        (/\ cache[k] # NoEntry
         /\ User(k) \notin lost
         /\ \A m \in mail : User(k) \notin m.users)
        => cache[k].seen = truth[User(k)]

Creators(u) == {c \in Callers : pc[c] = "creator" /\ User(key[c]) = u}

(* _running and _epochs hold users with a fetch not yet settled and nothing *)
(* else: they are bounded by concurrency.                                   *)
BookkeepingBounded ==
    \A u \in Users :
        /\ running[u] = Cardinality(Creators(u))
        /\ epochs[u] # 0 => running[u] # 0

(* _inflight names only fetches whose creator is still there to remove      *)
(* them: no caller can be handed a fetch that was abandoned.                *)
InflightHasCreator ==
    \A k \in Keys : inflight[k] # NoTask =>
        pc[inflight[k]] = "creator" /\ key[inflight[k]] = k

(* The resolver implements the abstract fenced cache: whatever the          *)
(* interleaving of fetches, failures, cancellations, invalidations and      *)
(* evictions, each step changes the cached versions as one abstract step    *)
(* or not at all; in particular an answer is never replaced by an older one. *)
Abstract == INSTANCE FencedCache WITH stored <- [k \in Keys |-> cache[k].seen]
ImplementsFencedCache == Abstract!CacheSpec

(* No reader waits forever, whoever fails, is cancelled or is invalidated. *)
EveryReaderReturns ==
    \A c \in Callers : pc[c] # "idle" ~> pc[c] = "idle"
=============================================================================
