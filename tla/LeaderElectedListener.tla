----------------------- MODULE LeaderElectedListener -----------------------
(***************************************************************************)
(* messaging/leader_elected_listener.py: one worker's listener, which      *)
(* subscribes to NATS while it holds a LeaderLease and competes for the    *)
(* lease with other workers.                                               *)
(*                                                                         *)
(* Its coroutines are `main' (start()), then `stop' (stop()), `retry'      *)
(* (_retry_start) and `lost' (the lease's on_lost callback).  They share   *)
(* the listener's attributes and interleave at every await: pc names the   *)
(* await a coroutine is suspended at.  A lease is taken and given up as    *)
(* LeaderLease.tla shows it can be; here its SET, its extend and its       *)
(* release are one step each.                                              *)
(***************************************************************************)
EXTENDS Naturals, FiniteSets

CONSTANTS
    MaxNatsErrors,   \* bound: NATS operations or hooks that raise
    MaxRedisErrors,  \* bound: Redis operations that raise
    MaxCloseErrors,  \* bound: steps of _close_runtime that raise
    MaxLosses,       \* bound: keys that expire or vanish under their owner
    MaxTakeovers     \* bound: times another worker takes the key

ASSUME BoundsAreNats ==
    /\ MaxNatsErrors \in Nat /\ MaxRedisErrors \in Nat /\ MaxCloseErrors \in Nat
    /\ MaxLosses \in Nat /\ MaxTakeovers \in Nat

Co == {"main", "stop", "retry", "lost"}
Starting == {"s_redis", "s_lease", "s_nats", "s_subs", "s_hook"}
Closing == {"c_stop", "c_unsub", "c_nats", "c_lease"}

VARIABLES
    pc,        \* coroutine -> where it is suspended
    redis,     \* _redis: "none", "object" (not connected), "up"
    lease,     \* _lease: "none", "pending" (acquire not answered), "held", "lost"
    stray,     \* a lease that is renewed but that _lease does not refer to
    client,    \* _client is not None
    subs,      \* _subscriptions: "none", "live", "dead" (on a closed connection)
    started,   \* _started
    stopping,  \* _stopping
    key,       \* Redis: "free", "mine", "stray", "other", or the coroutine releasing it
    natsErrors, redisErrors, closeErrors, losses, takeovers,
    overlapped \* history: a key was lost while a start or a close was under way

listener == <<redis, lease, stray, client, subs, started, stopping>>
counters == <<natsErrors, redisErrors, closeErrors, losses, takeovers, overlapped>>
vars == <<pc, listener, key, counters>>

Init ==
    /\ pc = [co \in Co |-> IF co = "main" THEN "new" ELSE "none"]
    /\ redis = "none"
    /\ lease = "none"
    /\ stray = FALSE
    /\ client = FALSE
    /\ subs = "none"
    /\ started = FALSE
    /\ stopping = FALSE
    /\ key = "free"
    /\ natsErrors = 0 /\ redisErrors = 0 /\ closeErrors = 0 /\ losses = 0 /\ takeovers = 0
    /\ overlapped = FALSE

-----------------------------------------------------------------------------
(* A task that returned, or that ended with an exception. *)
Over == {"none", "died"}

(* How _start_once leaves its caller.  `after' is pc without _ensure_retry. *)

EnsureRetry(after) ==
    pc' = IF ~stopping /\ after["retry"] \in Over
          THEN [after EXCEPT !["retry"] = "sleep"] ELSE after

(* _start_once returned True; start() or _retry_start returns. *)
ReturnTrue(co) ==
    pc' = [pc EXCEPT ![co] = IF co = "main" THEN "running" ELSE "none"]

(* Mutant: start() does not ensure a retry task. *)
ReturnFalseNoRetry(co) ==
    pc' = [pc EXCEPT ![co] = IF co = "main" THEN "running" ELSE IF stopping THEN "none" ELSE "sleep"]

(* _start_once returned False: start() ensures a retry task, _retry_start   *)
(* loops until stopping.                                                    *)
ReturnFalse(co) ==
    IF co = "main" THEN EnsureRetry([pc EXCEPT !["main"] = "running"])
    ELSE pc' = [pc EXCEPT !["retry"] = IF stopping THEN "none" ELSE "sleep"]

(* An exception leaves _start_once: start() raises, the retry task ends. *)
Raise(co) ==
    pc' = [pc EXCEPT ![co] = IF co = "main" THEN "raised" ELSE "died"]

-----------------------------------------------------------------------------
(* _start_once *)

StartOnce(co) ==
    \/ /\ subs # "none"
       /\ ReturnTrue(co)
       /\ UNCHANGED <<redis, lease>>
    \/ /\ subs = "none" /\ redis = "none"
       /\ redis' = "object"
       /\ pc' = [pc EXCEPT ![co] = "s_redis"]
       /\ UNCHANGED lease
    \/ /\ subs = "none" /\ redis = "object"    \* "Redis client not connected yet"
       /\ Raise(co)
       /\ UNCHANGED <<redis, lease>>
    \/ /\ subs = "none" /\ redis = "up"
       /\ lease' = "pending"
       /\ pc' = [pc EXCEPT ![co] = "s_lease"]
       /\ UNCHANGED redis

Start ==
    /\ pc["main"] = "new"
    /\ stopping' = FALSE
    /\ StartOnce("main")
    /\ UNCHANGED <<stray, client, subs, started, key, counters>>

RedisConnected(co) ==
    /\ pc[co] = "s_redis"
    /\ redis' = "up"
    /\ lease' = "pending"
    /\ pc' = [pc EXCEPT ![co] = "s_lease"]
    /\ UNCHANGED <<stray, client, subs, started, stopping, key, counters>>

(* connect() or lease.acquire() raises: both are outside the try block. *)
RedisRaises(co) ==
    /\ pc[co] \in {"s_redis", "s_lease"}
    /\ redisErrors < MaxRedisErrors
    /\ redisErrors' = redisErrors + 1
    /\ Raise(co)
    /\ UNCHANGED <<listener, key, natsErrors, closeErrors, losses, takeovers,
                   overlapped>>

(* Another coroutine may have taken the pending lease out of _lease. *)
LeaseAcquired(co) ==
    /\ pc[co] = "s_lease"
    /\ key = "free"
    /\ IF lease = "pending"
       THEN lease' = "held" /\ key' = "mine" /\ UNCHANGED stray
       ELSE stray' = TRUE /\ key' = "stray" /\ UNCHANGED lease
    /\ client' = TRUE
    /\ pc' = [pc EXCEPT ![co] = "s_nats"]
    /\ UNCHANGED <<redis, subs, started, stopping, counters>>

LeaseRefused(co) ==
    /\ pc[co] = "s_lease"
    /\ key # "free"
    /\ lease' = "none"
    /\ UNCHANGED <<redis, stray, client, subs, started, stopping, key, counters>>
    /\ ReturnFalse(co)

NatsConnected(co) ==
    /\ pc[co] = "s_nats"
    /\ pc' = [pc EXCEPT ![co] = "s_subs"]
    /\ UNCHANGED <<listener, key, counters>>

(* If _client was closed meanwhile, _setup_subscriptions raises or hands    *)
(* back subscriptions it made before that, which are dead.                  *)
Subscribed(co) ==
    /\ pc[co] = "s_subs"
    /\ subs' = IF client THEN "live" ELSE "dead"
    /\ pc' = [pc EXCEPT ![co] = "s_hook"]
    /\ UNCHANGED <<redis, lease, stray, client, started, stopping, key, counters>>

HookReturns(co) ==
    /\ pc[co] = "s_hook"
    /\ started' = TRUE
    /\ ReturnTrue(co)
    /\ UNCHANGED <<redis, lease, stray, client, subs, stopping, key, counters>>

-----------------------------------------------------------------------------
(* _close_runtime, entered by a failed _start_once, by on_lost and by       *)
(* stop(): each operator is what runs from one await to the next.           *)

(* Where a coroutine goes when _close_runtime returns. *)
AfterClose(co) ==
    \/ co = "stop" /\ pc' = [pc EXCEPT !["stop"] = "c_redis"]
    \/ co \in {"main", "retry"} /\ ReturnFalse(co)
    \/ co = "lost" /\ EnsureRetry([pc EXCEPT !["lost"] = "none"])

(* _release_lease: only a lease that is held has a loop to join and a key   *)
(* to delete.                                                               *)
ReleaseLease(co) ==
    /\ lease' = "none"
    /\ IF lease = "held"
       THEN /\ pc' = [pc EXCEPT ![co] = "c_lease"]
            /\ key' = IF key = "mine" THEN co ELSE key
       ELSE AfterClose(co) /\ UNCHANGED key

CloseClient(co) ==
    IF client THEN pc' = [pc EXCEPT ![co] = "c_nats"] /\ UNCHANGED <<lease, key>>
              ELSE ReleaseLease(co)

CloseSubs(co) ==
    IF subs # "none"
    THEN pc' = [pc EXCEPT ![co] = "c_unsub"] /\ UNCHANGED <<lease, key>>
    ELSE CloseClient(co)

CloseRuntime(co) ==
    IF started
    THEN started' = FALSE /\ pc' = [pc EXCEPT ![co] = "c_stop"] /\ UNCHANGED <<lease, key>>
    ELSE UNCHANGED started /\ CloseSubs(co)

(* NATS, or the hook, raises; or _client was set to None by another         *)
(* coroutine.                                                               *)
StartFails(co) ==
    /\ pc[co] \in {"s_nats", "s_subs", "s_hook"}
    /\ \/ natsErrors < MaxNatsErrors /\ natsErrors' = natsErrors + 1
       \/ pc[co] = "s_subs" /\ ~client /\ UNCHANGED natsErrors
    /\ CloseRuntime(co)
    /\ UNCHANGED <<redis, stray, client, subs, stopping, redisErrors, closeErrors, losses,
                   takeovers, overlapped>>

OnStopReturns(co) ==
    /\ pc[co] = "c_stop"
    /\ CloseSubs(co)
    /\ UNCHANGED <<redis, stray, client, subs, started, stopping, counters>>

Unsubscribed(co) ==
    /\ pc[co] = "c_unsub"
    /\ subs' = "none"
    /\ CloseClient(co)
    /\ UNCHANGED <<redis, stray, client, started, stopping, counters>>

ClientClosed(co) ==
    /\ pc[co] = "c_nats"
    /\ client' = FALSE
    /\ subs' = IF subs = "live" THEN "dead" ELSE subs
    /\ ReleaseLease(co)
    /\ UNCHANGED <<redis, stray, started, stopping, counters>>

LeaseReleased(co) ==
    /\ pc[co] = "c_lease"
    /\ key' = IF key = co THEN "free" ELSE key
    /\ UNCHANGED <<listener, counters>>
    /\ AfterClose(co)

(* _on_stop, client.close() or lease.release() raises: the rest of          *)
(* _close_runtime is skipped and so is what its caller does next; the key   *)
(* of a lease that was being released is left to expire.                    *)
CloseRaises(co) ==
    /\ pc[co] \in {"c_stop", "c_nats", "c_lease"}
    /\ closeErrors < MaxCloseErrors
    /\ closeErrors' = closeErrors + 1
    /\ pc' = [pc EXCEPT ![co] = CASE co \in {"main", "stop"} -> "raised"
                                  [] co = "retry" -> "died"
                                  [] co = "lost" -> "none"]
    /\ key' = IF key = co THEN "other" ELSE key
    /\ UNCHANGED <<listener, natsErrors, redisErrors, losses, takeovers, overlapped>>

-----------------------------------------------------------------------------
(* stop(), the retry task and the lease's callback *)

(* Mutant: the retry task is not cancelled. *)
StopWithoutJoin ==
    /\ pc["main"] \in {"running", "raised"}
    /\ pc["stop"] = "none"
    /\ stopping' = TRUE
    /\ CloseRuntime("stop")
    /\ UNCHANGED <<redis, stray, client, subs, counters>>

(* Awaiting a retry task that died re-raises its exception. *)
Stop ==
    /\ pc["main"] \in {"running", "raised"}
    /\ pc["stop"] = "none"
    /\ stopping' = TRUE
    /\ CASE pc["retry"] = "none" -> CloseRuntime("stop")
         [] pc["retry"] = "died" -> /\ pc' = [pc EXCEPT !["stop"] = "raised"]
                                    /\ UNCHANGED <<lease, started, key>>
         [] OTHER -> /\ pc' = [pc EXCEPT !["stop"] = "joining"]
                     /\ UNCHANGED <<lease, started, key>>
    /\ UNCHANGED <<redis, stray, client, subs, counters>>

(* Mutant: a retry task that is inside _start_once swallows the             *)
(* cancellation.                                                            *)
RetryCancelledAsleep ==
    /\ pc["stop"] = "joining"
    /\ pc["retry"] = "sleep"
    /\ pc' = [pc EXCEPT !["retry"] = "none"]
    /\ UNCHANGED <<listener, key, counters>>

(* The cancelled retry task ends where it was; a SET or a release that was  *)
(* under way leaves its key to expire.                                      *)
RetryCancelled ==
    /\ pc["stop"] = "joining"
    /\ pc["retry"] # "none"
    /\ pc' = [pc EXCEPT !["retry"] = "none"]
    /\ key' \in IF pc["retry"] = "s_lease" /\ key = "free" THEN {"free", "other"}
                ELSE {IF key = "retry" THEN "other" ELSE key}
    /\ UNCHANGED <<listener, counters>>

RetryJoined ==
    /\ pc["stop"] = "joining"
    /\ pc["retry"] = "none"
    /\ CloseRuntime("stop")
    /\ UNCHANGED <<redis, stray, client, subs, stopping, counters>>

RedisClosed ==
    /\ pc["stop"] = "c_redis"
    /\ redis' = "none"
    /\ pc' = [pc EXCEPT !["stop"] = "stopped"]
    /\ UNCHANGED <<lease, stray, client, subs, started, stopping, key, counters>>

RetryWakes ==
    /\ pc["retry"] = "sleep"
    /\ pc["stop"] # "joining"
    /\ IF stopping \/ subs # "none"
       THEN pc' = [pc EXCEPT !["retry"] = "none"] /\ UNCHANGED <<redis, lease>>
       ELSE StartOnce("retry")
    /\ UNCHANGED <<stray, client, subs, started, stopping, key, counters>>

(* extend() was refused: _on_lease_lost is scheduled. *)
LeaseLost ==
    /\ pc["lost"] = "none"
    /\ \/ lease = "held" /\ key # "mine" /\ lease' = "lost" /\ UNCHANGED stray
       \/ stray /\ key # "stray" /\ stray' = FALSE /\ UNCHANGED lease
    /\ pc' = [pc EXCEPT !["lost"] = "scheduled"]
    /\ UNCHANGED <<redis, client, subs, started, stopping, key, counters>>

(* Mutant: the lease is dropped and the runtime left open. *)
OnLeaseLostKeepsRuntime ==
    /\ pc["lost"] = "scheduled"
    /\ lease' = "none"
    /\ EnsureRetry([pc EXCEPT !["lost"] = "none"])
    /\ UNCHANGED <<redis, stray, client, subs, started, stopping, key, counters>>

OnLeaseLost ==
    /\ pc["lost"] = "scheduled"
    /\ CloseRuntime("lost")
    /\ UNCHANGED <<redis, stray, client, subs, stopping, counters>>

-----------------------------------------------------------------------------
(* Redis and the other workers *)

Busy == \E co \in Co : pc[co] \in Starting \cup Closing

LoseKey ==
    /\ key \in {"mine", "stray"}
    /\ losses < MaxLosses
    /\ overlapped' = (overlapped \/ Busy)
    /\ losses' = losses + 1
    /\ key' = "free"
    /\ UNCHANGED <<pc, listener, natsErrors, redisErrors, closeErrors, takeovers>>

OtherAcquires ==
    /\ key = "free"
    /\ takeovers < MaxTakeovers
    /\ takeovers' = takeovers + 1
    /\ key' = "other"
    /\ UNCHANGED <<pc, listener, natsErrors, redisErrors, closeErrors, losses, overlapped>>

OtherFrees ==
    /\ key = "other"
    /\ key' = "free"
    /\ UNCHANGED <<pc, listener, counters>>

(* Until stop() cancels it, the retry task runs like any other coroutine. *)
Runs(co) == co = "retry" => pc["stop"] # "joining"

Resume(co) ==
    /\ Runs(co)
    /\ \/ RedisConnected(co) \/ RedisRaises(co) \/ LeaseAcquired(co) \/ LeaseRefused(co)
       \/ NatsConnected(co) \/ Subscribed(co) \/ HookReturns(co) \/ StartFails(co)
       \/ OnStopReturns(co) \/ Unsubscribed(co) \/ ClientClosed(co) \/ LeaseReleased(co)
       \/ CloseRaises(co)

Background ==
    RetryCancelled \/ RetryJoined \/ RedisClosed \/ RetryWakes \/ OnLeaseLost

Next ==
    \/ Start \/ Stop
    \/ \E co \in Co : Resume(co)
    \/ Background
    \/ LeaseLost \/ LoseKey \/ OtherAcquires \/ OtherFrees

Spec == Init /\ [][Next]_vars

(* The event loop runs what is ready, sleeps end, Redis and NATS answer or  *)
(* err, a refused renewal is noticed, and another leader does not keep the  *)
(* key forever.                                                             *)
Fairness ==
    /\ WF_vars(Start)
    /\ \A co \in Co : WF_vars(Resume(co))
    /\ WF_vars(RetryCancelled) /\ WF_vars(RetryJoined) /\ WF_vars(RedisClosed)
    /\ WF_vars(RetryWakes) /\ WF_vars(OnLeaseLost) /\ WF_vars(LeaseLost)
    /\ WF_vars(OtherFrees)

FairSpec == Spec /\ Fairness

-----------------------------------------------------------------------------
(* Properties *)

Serving == subs = "live" /\ client /\ (lease = "held" \/ stray)

(* The listener consumes only as leader: live subscriptions come with a     *)
(* lease that is renewed, or someone is already taking them down.  (A close *)
(* step that raises leaves what comes after it open.)                       *)
ConsumesOnlyAsLeader ==
    closeErrors = 0 /\ subs = "live" =>
                     \/ lease = "held" \/ stray
                     \/ pc["lost"] # "none"
                     \/ \E co \in Co : pc[co] \in Closing

(* stop() leaves nothing behind: no retry task, no connection, no           *)
(* subscription, no lease that is still renewed.  (Not so when a lease lost *)
(* in the middle of a start makes two coroutines share the attributes.)     *)
StopLeavesNothing ==
    ~overlapped /\ closeErrors = 0 /\ pc["stop"] = "stopped" /\ pc["lost"] = "none" =>
        /\ pc["retry"] \in Over
        /\ ~client /\ subs # "live"
        /\ lease \notin {"held", "pending"} /\ ~stray
        /\ key # "mine"

(* "Start the listener with leader election and retry on failure" and       *)
(* "Handle leader lease loss by restarting with retry": a listener that was *)
(* started and not stopped serves sooner or later, every time.              *)
Recovers ==
    pc["main"] # "new" /\ ~stopping ~> Serving \/ stopping

(* The same when Redis is reachable, no close raises and no lease is lost   *)
(* in the middle of a start or a close: NATS failures, hooks that raise,    *)
(* takeovers and losses between starts are always recovered from.           *)
RecoversBetweenStarts ==
    [](redisErrors = 0 /\ closeErrors = 0 /\ ~overlapped) => Recovers

(* stop() returns or raises: it never waits for a task that waits for it. *)
StopReturns == stopping ~> pc["stop"] \in {"stopped", "raised"}
=============================================================================
