-------------------- MODULE LeaderElectedListenerProofs --------------------
(***************************************************************************)
(* A listener consumes only as leader, and stop() leaves nothing open,     *)
(* however often NATS, Redis and the other workers interfere.              *)
(***************************************************************************)
EXTENDS LeaderElectedListener, TLAPS

Where == {"none", "new", "running", "raised", "died", "sleep", "scheduled", "joining", "c_redis", "stopped"}
            \cup Starting \cup Closing
Keys == {"free", "mine", "stray", "other"} \cup Co

ListenerType ==
    /\ pc \in [Co -> Where]
    /\ redis \in {"none", "object", "up"} /\ lease \in {"none", "pending", "held", "lost"}
    /\ subs \in {"none", "live", "dead"} /\ key \in Keys
    /\ stray \in BOOLEAN /\ client \in BOOLEAN /\ started \in BOOLEAN /\ stopping \in BOOLEAN
    /\ overlapped \in BOOLEAN /\ closeErrors \in Nat

(* Which coroutine can be where, whatever raises and is lost.              *)
Shape ==
    /\ pc["main"] \notin {"none", "died", "sleep", "scheduled", "joining", "c_redis", "stopped"}
    /\ pc["retry"] \notin {"new", "running", "raised", "scheduled", "joining", "c_redis", "stopped", "s_redis"}
    /\ pc["lost"] \in {"none", "scheduled"} \cup Closing
    /\ pc["stop"] \in {"none", "joining", "raised", "c_redis", "stopped"} \cup Closing
    /\ pc["main"] \in {"new", "s_redis", "s_lease"} =>
          /\ pc["retry"] = "none" /\ pc["lost"] = "none" /\ pc["stop"] = "none"
          /\ ~client /\ ~stray /\ subs = "none" /\ ~started /\ key # "mine" /\ lease \in {"none", "pending"}
    /\ pc["main"] # "s_lease" \/ lease = "pending"
    /\ pc["stop"] # "none" => stopping /\ pc["main"] \in {"running", "raised"}
    /\ redis = "none" => pc["main"] = "new" \/ stopping
    /\ pc["retry"] = "s_lease" => lease # "held"
    /\ pc["stop"] \in Closing \cup {"c_redis", "stopped"} => pc["retry"] = "none"
    /\ subs = "live" => client

(* The steps of _close_runtime before the client is closed.                *)
Undoing == Closing \ {"c_lease"}

(* A client is connected for a lease, or someone is about to close it; and *)
(* a held lease without subscriptions belongs to a start or a close that   *)
(* is under way.                                                           *)
ClientHasLease ==
    closeErrors = 0 /\ client =>
        \/ lease = "held" \/ stray
        \/ pc["lost"] = "scheduled"
        \/ \E co \in Co \ {"retry"} : pc[co] \in Undoing
HeldIsInUse ==
    closeErrors = 0 /\ client /\ lease = "held" /\ subs = "none" =>
        \/ pc["retry"] \in {"s_nats", "s_subs"}
        \/ \E co \in Co : pc[co] \in Undoing
        \/ pc["stop"] = "joining"
        \/ pc["main"] \in {"s_nats", "s_subs"} /\ pc["retry"] = "none" /\ pc["lost"] = "none" /\ ~stray

LeaderInv == ListenerType /\ Shape /\ ClientHasLease /\ HeldIsInUse

(* As long as no close raised and no key was lost under a start or a close *)
(* the coroutines take turns.                                              *)
Orderly == closeErrors = 0 /\ ~overlapped
InTurn ==
    /\ ~stray
    /\ pc["main"] \in Starting \cup Closing => pc["retry"] = "none" /\ pc["lost"] = "none" /\ pc["stop"] = "none"
    /\ pc["retry"] \notin Over => pc["lost"] = "none" /\ pc["stop"] \in {"none", "joining"}
    /\ pc["lost"] # "none" => lease \in {"lost", "none"}
    /\ pc["retry"] = "s_lease" => lease = "pending"
    /\ pc["retry"] = "sleep" => lease # "held"
    /\ \A co \in {"main", "retry"} : pc[co] \in {"s_nats", "s_subs", "s_hook"} \cup Undoing => lease = "held" /\ key = "mine"
    /\ \A co \in Co : pc[co] = "c_lease" => lease = "none"
    /\ key = "mine" => lease = "held"
    /\ pc["stop"] \in {"c_lease", "c_redis", "stopped"} => ~client /\ lease = "none"

OrderInv == Orderly => InTurn

-----------------------------------------------------------------------------
(* What _close_runtime does next: undo one more thing, or, with the client *)
(* closed, give up the lease and return.                                   *)
LEMMA CloseMoves ==
  ASSUME NEW co \in Co, CloseRuntime(co) \/ (CloseSubs(co) /\ UNCHANGED started) \/ (CloseClient(co) /\ UNCHANGED started),
         started \in BOOLEAN
  PROVE  /\ started' \in BOOLEAN
         /\ \/ \E p \in Undoing : pc' = [pc EXCEPT ![co] = p] /\ UNCHANGED <<lease, key>>
            \/ ~client /\ ReleaseLease(co)
  BY Zenon DEF CloseRuntime, CloseSubs, CloseClient, Undoing, Closing

(* Where it returns to, and with a retry task then or not.                 *)
LEMMA CloseReturns ==
  ASSUME NEW co \in Co, AfterClose(co), pc \in [Co -> Where]
  PROVE  \E p \in {"c_redis", "running", "none", "sleep"}, q \in {pc["retry"], "sleep"} :
            /\ pc' = IF co = "retry" THEN [pc EXCEPT !["retry"] = p]
                     ELSE [pc EXCEPT ![co] = p, !["retry"] = q]
            /\ p = "c_redis" <=> co = "stop"
            /\ p = "running" <=> co = "main"
            /\ p = "sleep" => co = "retry" /\ ~stopping
            /\ q = "sleep" /\ q # pc["retry"] => co \in {"main", "lost"} /\ ~stopping /\ pc["retry"] \in Over
<1>1. CASE co = "stop"
  BY <1>1, Zenon DEF AfterClose
<1>2. CASE co = "main"
  BY <1>2, Zenon DEF AfterClose, ReturnFalse, EnsureRetry
<1>3. CASE co = "retry"
  BY <1>3, Zenon DEF AfterClose, ReturnFalse
<1>4. CASE co = "lost"
  BY <1>4, Zenon DEF AfterClose, EnsureRetry
<1>. QED  BY <1>1, <1>2, <1>3, <1>4, Zenon DEF Co

(* Where the coroutines are when one of them goes through _close_runtime.  *)
MayClose(co) ==
    /\ pc["main"] \notin {"new", "s_redis", "s_lease"}
    /\ co = "main" => pc["stop"] = "none"
    /\ co = "stop" => pc["main"] \in {"running", "raised"} /\ pc["retry"] = "none"
    /\ co = "lost" => pc["lost"] # "none"
    /\ co = "retry" => pc["retry"] # "none" /\ pc["stop"] \in {"none", "joining", "raised"}

LEMMA WhoCloses ==
  ASSUME LeaderInv, NEW co \in Co, pc[co] \in {"s_nats", "s_subs", "s_hook", "scheduled"} \cup Closing
  PROVE  MayClose(co) /\ (co = "stop" => stopping)
<1>. USE DEF LeaderInv, ListenerType, Shape, MayClose, Closing
<1>1. CASE co = "main"
  BY <1>1, Zenon
<1>2. CASE co = "stop"
  BY <1>2, Zenon
<1>3. CASE co = "retry"
  BY <1>3, Zenon
<1>4. CASE co = "lost"
  BY <1>4, Zenon
<1>. QED  BY <1>1, <1>2, <1>3, <1>4, Zenon DEF Co

LEMMA UndoKeeps ==
  ASSUME LeaderInv, NEW co \in Co, NEW p \in Undoing, pc' = [pc EXCEPT ![co] = p],
         UNCHANGED <<redis, lease, key, stray, client, overlapped, closeErrors>>,
         subs' \in {subs, "none"}, started' \in BOOLEAN, stopping' \in {stopping, TRUE},
         MayClose(co), co = "stop" => stopping'
  PROVE  LeaderInv'
<1>. USE DEF LeaderInv, MayClose
<1>1. ListenerType'
  BY Zenon DEF ListenerType, Where, Undoing, Closing
<1>2. Shape'
  <2>. USE DEF ListenerType, Shape, Undoing, Closing, Co
  <2>1. CASE co = "main"
    BY <2>1, Zenon
  <2>2. CASE co = "stop"
    BY <2>2, Zenon
  <2>3. CASE co = "retry"
    BY <2>3, Zenon
  <2>4. CASE co = "lost"
    BY <2>4, Zenon
  <2>. QED  BY <2>1, <2>2, <2>3, <2>4, Zenon
<1>3. ClientHasLease'
  BY Zenon DEF ListenerType, ClientHasLease, Undoing, Closing, Co
<1>4. HeldIsInUse'
  BY Zenon DEF ListenerType, HeldIsInUse, Undoing, Closing, Co
<1>. QED  BY <1>1, <1>2, <1>3, <1>4, Zenon

LEMMA GoesOn ==
  ASSUME LeaderInv, NEW co \in Co, NEW p \in Where, NEW q \in {pc["retry"], "sleep"},
         pc' = IF co = "retry" THEN [pc EXCEPT !["retry"] = p] ELSE [pc EXCEPT ![co] = p, !["retry"] = q],
         UNCHANGED <<redis, stray, overlapped, closeErrors>>,
         \/ client' = FALSE /\ lease' = "none" /\ subs' \in {"none", "dead"}
         \/ pc[co] = "c_lease" /\ UNCHANGED <<client, lease, subs>>,
         started' \in BOOLEAN, key' \in Keys, stopping' \in {stopping, TRUE},
         p \in {"c_lease", "c_redis", "running", "none", "sleep"},
         p = "c_redis" => co = "stop",
         p = "running" => co = "main",
         p = "sleep" => co = "retry",
         p = "none" => co \in {"retry", "lost"},
         q = "sleep" => \/ pc["retry"] = "sleep"
                        \/ co \in {"main", "lost"} /\ pc["stop"] = "none" /\ pc["retry"] \in Over,
         MayClose(co), co = "stop" => stopping'
  PROVE  LeaderInv'
<1>. USE DEF LeaderInv, MayClose
<1>1. ListenerType'
  <2>1. pc' \in [Co -> Where]
    BY Zenon DEF ListenerType, Where, Closing, Co
  <2>2. client' \in BOOLEAN /\ stopping' \in BOOLEAN
    BY Zenon DEF ListenerType
  <2>. QED  BY <2>1, <2>2, Zenon DEF ListenerType
<1>2. Shape'
  <2>. USE DEF ListenerType, Shape, Closing, Co
  <2>1. CASE co = "main"
    BY <2>1, Zenon
  <2>2. CASE co = "stop"
    BY <2>2, Zenon
  <2>3. CASE co = "retry"
    BY <2>3, Zenon
  <2>4. CASE co = "lost"
    <3>1. /\ pc'["main"] = pc["main"] /\ pc'["stop"] = pc["stop"] /\ pc'["lost"] = p
          /\ pc'["retry"] = q /\ p \in {"c_lease", "none"}
      BY <2>4, Zenon
    <3>2. subs' = "live" => client'
      BY Zenon
    <3>. QED  BY <2>4, <3>1, <3>2, Zenon
  <2>. QED  BY <2>1, <2>2, <2>3, <2>4, Zenon
<1>3. CASE client' = FALSE
  BY <1>1, <1>2, <1>3, Zenon DEF ClientHasLease, HeldIsInUse
<1>4. CASE pc[co] = "c_lease" /\ UNCHANGED <<client, lease, subs>>
  <2>1. ClientHasLease'
    BY <1>4, Zenon DEF ListenerType, ClientHasLease, Undoing, Closing, Co
  <2>2. HeldIsInUse'
    BY <1>4 DEF ListenerType, HeldIsInUse, Undoing, Closing, Co, Over
  <2>. QED  BY <1>1, <1>2, <2>1, <2>2, Zenon
<1>. QED  BY <1>3, <1>4, Zenon

LEMMA ReturnKeeps ==
  ASSUME LeaderInv, NEW co \in Co, AfterClose(co), MayClose(co), co = "stop" => stopping',
         \/ client' = FALSE /\ lease' = "none" /\ subs' \in {"none", "dead"}
         \/ pc[co] = "c_lease" /\ UNCHANGED <<client, lease, subs>>,
         UNCHANGED <<redis, stray, overlapped, closeErrors>>,
         started' \in BOOLEAN, key' \in Keys, stopping' \in {stopping, TRUE}
  PROVE  LeaderInv'
<1>1. PICK p \in {"c_redis", "running", "none", "sleep"}, q \in {pc["retry"], "sleep"} :
            /\ pc' = IF co = "retry" THEN [pc EXCEPT !["retry"] = p]
                     ELSE [pc EXCEPT ![co] = p, !["retry"] = q]
            /\ p = "c_redis" <=> co = "stop"
            /\ p = "running" <=> co = "main"
            /\ p = "sleep" => co = "retry" /\ ~stopping
            /\ q = "sleep" /\ q # pc["retry"] => co \in {"main", "lost"} /\ ~stopping /\ pc["retry"] \in Over
  BY CloseReturns, Zenon DEF LeaderInv, ListenerType
<1>2. p \in Where
  BY Zenon DEF Where
<1>3. ~stopping => pc["stop"] = "none"
  BY Zenon DEF LeaderInv, Shape
<1>4. q = "sleep" => \/ pc["retry"] = "sleep"
                     \/ co \in {"main", "lost"} /\ pc["stop"] = "none" /\ pc["retry"] \in Over
  BY <1>1, <1>3, Zenon
<1>5. p = "none" => co \in {"retry", "lost"}
  BY <1>1, Zenon DEF Co
<1>. QED  BY <1>1, <1>2, <1>4, <1>5, GoesOn, Zenon

LEMMA ReleaseKeeps ==
  ASSUME LeaderInv, NEW co \in Co, ReleaseLease(co), MayClose(co), co = "stop" => stopping',
         client' = FALSE, subs' \in {"none", "dead"}, started' \in BOOLEAN,
         UNCHANGED <<redis, stray, overlapped, closeErrors>>, stopping' \in {stopping, TRUE}
  PROVE  LeaderInv'
<1>1. lease' = "none" /\ key' \in Keys
  BY Zenon DEF ReleaseLease, LeaderInv, ListenerType, Keys
<1>2. CASE pc' = [pc EXCEPT ![co] = "c_lease"]
  <2>1. pc' = IF co = "retry" THEN [pc EXCEPT !["retry"] = "c_lease"]
              ELSE [pc EXCEPT ![co] = "c_lease", !["retry"] = pc["retry"]]
    BY <1>2, Zenon DEF LeaderInv, ListenerType, Co
  <2>2. "c_lease" \in Where
    BY Zenon DEF Where, Closing
  <2>. QED  BY <1>1, <2>1, <2>2, GoesOn, Zenon
<1>3. CASE AfterClose(co)
  BY <1>1, <1>3, ReturnKeeps, Zenon
<1>. QED  BY <1>2, <1>3, Zenon DEF ReleaseLease

LEMMA CloseKeeps ==
  ASSUME LeaderInv, NEW co \in Co, MayClose(co), co = "stop" => stopping',
         CloseRuntime(co) \/ (CloseSubs(co) /\ UNCHANGED started) \/ (CloseClient(co) /\ UNCHANGED started),
         subs' \in {subs, "none"}, stopping' \in {stopping, TRUE},
         UNCHANGED <<redis, stray, client, overlapped, closeErrors>>
  PROVE  LeaderInv'
<1>1. /\ started' \in BOOLEAN
      /\ \/ \E p \in Undoing : pc' = [pc EXCEPT ![co] = p] /\ UNCHANGED <<lease, key>>
         \/ ~client /\ ReleaseLease(co)
  BY CloseMoves, Zenon DEF LeaderInv, ListenerType
<1>2. ASSUME NEW p \in Undoing, pc' = [pc EXCEPT ![co] = p], UNCHANGED <<lease, key>> PROVE LeaderInv'
  BY <1>1, <1>2, UndoKeeps, Zenon
<1>3. CASE ~client /\ ReleaseLease(co)
  <2>1. client' = FALSE
    BY <1>3, Zenon DEF LeaderInv, ListenerType
  <2>2. subs' \in {"none", "dead"}
    BY <1>3, Zenon DEF LeaderInv, ListenerType, Shape
  <2>. QED  BY <1>1, <1>3, <2>1, <2>2, ReleaseKeeps, Zenon
<1>. QED  BY <1>1, <1>2, <1>3, Zenon

-----------------------------------------------------------------------------
LEMMA Starters ==
  ASSUME LeaderInv, NEW co \in Co, pc[co] \in Starting
  PROVE  co \in {"main", "retry"} /\ (pc[co] = "s_redis" => co = "main")
  BY Zenon DEF LeaderInv, ListenerType, Shape, Starting, Closing, Co

LEMMA StartKeeps == ASSUME LeaderInv, Start PROVE LeaderInv'
<1>1. /\ pc["main"] = "new" /\ subs = "none" /\ ~client /\ lease' \in {lease, "pending"} /\ redis' \in {"object", "up", redis}
      /\ UNCHANGED <<stray, client, subs, started, key, overlapped, closeErrors>> /\ stopping' = FALSE
  BY Zenon DEF Start, StartOnce, LeaderInv, Shape, counters
<1>2. \E p \in {"s_redis", "raised", "s_lease"} :
         pc' = [pc EXCEPT !["main"] = p] /\ redis' # "none" /\ (p = "s_lease" => lease' = "pending")
  BY <1>1, Zenon DEF Start, StartOnce, Raise, LeaderInv, ListenerType
<1>. USE DEF LeaderInv
<1>3. ListenerType'
  <2>1. pc' \in [Co -> Where]
    BY <1>2, Zenon DEF ListenerType, Where, Starting, Co
  <2>2. stopping' \in BOOLEAN
    BY <1>1, Zenon
  <2>. QED  BY <1>1, <2>1, <2>2, Zenon DEF ListenerType
<1>4. Shape'
  BY <1>1, <1>2, Zenon DEF ListenerType, Shape, Co, Closing
<1>5. ClientHasLease' /\ HeldIsInUse'
  BY <1>1, Zenon DEF ClientHasLease, HeldIsInUse
<1>. QED  BY <1>3, <1>4, <1>5, Zenon

LEMMA RedisConnectedKeeps == ASSUME LeaderInv, NEW co \in Co, RedisConnected(co) PROVE LeaderInv'
<1>0. co = "main" /\ pc["main"] = "s_redis"
  BY Starters, Zenon DEF RedisConnected, Starting
<1>1. co = "main" /\ ~client
  BY <1>0, Zenon DEF LeaderInv, Shape
<1>. USE <1>1 DEF RedisConnected, LeaderInv, counters
<1>2. ListenerType'
  BY Zenon DEF ListenerType, Where, Starting, Co
<1>3. Shape'
  BY Zenon DEF ListenerType, Shape, Co, Closing
<1>4. ClientHasLease' /\ HeldIsInUse'
  BY Zenon DEF ClientHasLease, HeldIsInUse
<1>. QED  BY <1>2, <1>3, <1>4, Zenon

LEMMA RedisRaisesKeeps == ASSUME LeaderInv, NEW co \in Co, RedisRaises(co) PROVE LeaderInv'
<1>1. co \in {"main", "retry"} /\ pc[co] \in {"s_redis", "s_lease"}
  BY Starters, Zenon DEF RedisRaises, Starting
<1>. USE <1>1 DEF RedisRaises, Raise, LeaderInv, listener
<1>2. ListenerType'
  BY Zenon DEF ListenerType, Where, Co
<1>3. Shape'
  BY Zenon DEF ListenerType, Shape, Co, Closing
<1>4. ClientHasLease'
  BY Zenon DEF ListenerType, ClientHasLease, Co, Undoing, Closing
<1>5. HeldIsInUse'
  BY Zenon DEF ListenerType, HeldIsInUse, Co, Undoing, Closing
<1>. QED  BY <1>2, <1>3, <1>4, <1>5, Zenon

LEMMA LeaseAcquiredKeeps == ASSUME LeaderInv, NEW co \in Co, LeaseAcquired(co) PROVE LeaderInv'
<1>1. co \in {"main", "retry"} /\ pc[co] = "s_lease" /\ pc' = [pc EXCEPT ![co] = "s_nats"]
  BY Starters, Zenon DEF LeaseAcquired, Starting
<1>. USE <1>1 DEF LeaseAcquired, LeaderInv, counters
<1>2. ListenerType'
  <2>1. pc' \in [Co -> Where]
    BY Zenon DEF ListenerType, Where, Co, Starting
  <2>2. stray' \in BOOLEAN /\ client' \in BOOLEAN
    BY Zenon DEF ListenerType
  <2>3. lease' \in {"none", "pending", "held", "lost"} /\ key' \in Keys
    BY Zenon DEF ListenerType, Keys
  <2>. QED  BY <2>1, <2>2, <2>3, Zenon DEF ListenerType
<1>3. Shape'
  <2>1. CASE co = "main"
    BY <2>1, Zenon DEF ListenerType, Shape, Co, Closing
  <2>2. CASE co = "retry"
    <3>1. pc["main"] \notin {"new", "s_redis", "s_lease"}
      BY <2>2, Zenon DEF Shape
    <3>2. pc["stop"] \notin Closing \cup {"c_redis", "stopped"}
      BY <2>2, Zenon DEF Shape
    <3>. QED  BY <2>2, <3>1, <3>2, Zenon DEF ListenerType, Shape, Co
  <2>. QED  BY <2>1, <2>2, Zenon
<1>4. ClientHasLease'
  BY Zenon DEF ListenerType, ClientHasLease, Co, Undoing, Closing
<1>5. HeldIsInUse'
  <2>1. CASE co = "main"
    BY <2>1, Zenon DEF ListenerType, Shape, HeldIsInUse, Co, Undoing, Closing
  <2>2. CASE co = "retry"
    BY <2>2, Zenon DEF ListenerType, HeldIsInUse, Co, Undoing, Closing
  <2>. QED  BY <2>1, <2>2, Zenon
<1>. QED  BY <1>2, <1>3, <1>4, <1>5, Zenon

LEMMA LeaseRefusedKeeps == ASSUME LeaderInv, NEW co \in Co, LeaseRefused(co) PROVE LeaderInv'
<1>1. co \in {"main", "retry"} /\ pc[co] = "s_lease" /\ lease # "held"
  BY Starters, Zenon DEF LeaseRefused, Starting, LeaderInv, Shape
<1>2. CASE co = "main"
  <2>1. \E q \in {"none", "sleep"} : pc' = [pc EXCEPT !["main"] = "running", !["retry"] = q]
    BY <1>1, <1>2, Zenon DEF LeaseRefused, ReturnFalse, EnsureRetry, LeaderInv, ListenerType, Shape
  <2>2. ~client
    BY <1>1, <1>2, Zenon DEF LeaderInv, Shape
  <2>. USE <2>1, <2>2, <1>1, <1>2 DEF LeaseRefused, LeaderInv, counters
  <2>3. ListenerType'
    BY Zenon DEF ListenerType, Where, Co
  <2>4. Shape'
    BY Zenon DEF ListenerType, Shape, Co, Closing
  <2>5. ClientHasLease' /\ HeldIsInUse'
    BY Zenon DEF ClientHasLease, HeldIsInUse
  <2>. QED  BY <2>3, <2>4, <2>5, Zenon
<1>3. CASE co = "retry"
  <2>1. \E q \in {"none", "sleep"} : pc' = [pc EXCEPT !["retry"] = q]
    BY <1>1, <1>3, Zenon DEF LeaseRefused, ReturnFalse
  <2>. USE <2>1, <1>1, <1>3 DEF LeaseRefused, LeaderInv, counters
  <2>3. ListenerType'
    BY DEF ListenerType, Where, Co
  <2>4. Shape'
    BY Zenon DEF ListenerType, Shape, Co, Closing
  <2>5. ClientHasLease'
    BY Zenon DEF ListenerType, ClientHasLease, Co, Undoing, Closing
  <2>6. HeldIsInUse'
    BY Zenon DEF HeldIsInUse
  <2>. QED  BY <2>3, <2>4, <2>5, <2>6, Zenon
<1>. QED  BY <1>1, <1>2, <1>3, Zenon

LEMMA StartGoesOn ==
  ASSUME LeaderInv, NEW co \in Co, NatsConnected(co) \/ Subscribed(co) \/ HookReturns(co)
  PROVE  LeaderInv'
<1>1. /\ co \in {"main", "retry"} /\ pc[co] \in {"s_nats", "s_subs", "s_hook"}
      /\ UNCHANGED <<redis, lease, stray, client, stopping, key, overlapped, closeErrors>>
      /\ started' \in BOOLEAN
  BY Starters, Zenon DEF NatsConnected, Subscribed, HookReturns, Starting, counters, listener, LeaderInv, ListenerType
<1>2. \E p \in {"s_subs", "s_hook", "running", "none"} :
         /\ pc' = [pc EXCEPT ![co] = p]
         /\ p = "s_subs" => pc[co] = "s_nats" /\ subs' = subs
         /\ p = "s_hook" => pc[co] = "s_subs" /\ subs' = IF client THEN "live" ELSE "dead"
         /\ p \in {"running", "none"} => pc[co] = "s_hook" /\ subs' = subs /\ (p = "running" <=> co = "main")
  BY <1>1, Zenon DEF NatsConnected, Subscribed, HookReturns, ReturnTrue, listener
<1>. USE <1>1, <1>2 DEF LeaderInv
<1>3. ListenerType'
  BY DEF ListenerType, Where, Co, Starting
<1>4. Shape'
  BY DEF ListenerType, Shape, Co, Closing
<1>5. ClientHasLease'
  BY Zenon DEF ListenerType, ClientHasLease, Co, Undoing, Closing
<1>6. HeldIsInUse'
  BY Zenon DEF ListenerType, HeldIsInUse, Co, Undoing, Closing
<1>. QED  BY <1>3, <1>4, <1>5, <1>6, Zenon

LEMMA ClosersKeep ==
  ASSUME LeaderInv, NEW co \in Co,
         StartFails(co) \/ OnStopReturns(co) \/ Unsubscribed(co) \/ ClientClosed(co) \/ LeaseReleased(co)
  PROVE  LeaderInv'
<1>1. pc[co] \in {"s_nats", "s_subs", "s_hook", "scheduled"} \cup Closing
  BY Zenon DEF StartFails, OnStopReturns, Unsubscribed, ClientClosed, LeaseReleased, Closing
<1>2. MayClose(co) /\ (co = "stop" => stopping)
  BY <1>1, WhoCloses, Zenon
<1>3. CASE StartFails(co)
  BY <1>2, <1>3, CloseKeeps, Zenon DEF StartFails
<1>4. CASE OnStopReturns(co)
  BY <1>2, <1>4, CloseKeeps, Zenon DEF OnStopReturns, counters
<1>5. CASE Unsubscribed(co)
  BY <1>2, <1>5, CloseKeeps, Zenon DEF Unsubscribed, counters
<1>6. CASE ClientClosed(co)
  <2>1. subs' \in {"none", "dead"} /\ started' \in BOOLEAN
    BY <1>6, Zenon DEF ClientClosed, LeaderInv, ListenerType
  <2>. QED  BY <1>2, <1>6, <2>1, ReleaseKeeps, Zenon DEF ClientClosed, counters
<1>7. CASE LeaseReleased(co)
  <2>1. key' \in Keys /\ started' \in BOOLEAN
    BY <1>7, Zenon DEF LeaseReleased, LeaderInv, ListenerType, Keys, listener
  <2>. QED  BY <1>2, <1>7, <2>1, ReturnKeeps, Zenon DEF LeaseReleased, counters, listener
<1>. QED  BY <1>3, <1>4, <1>5, <1>6, <1>7, Zenon

LEMMA CloseRaisesKeeps == ASSUME LeaderInv, NEW co \in Co, CloseRaises(co) PROVE LeaderInv'
<1>1. MayClose(co) /\ (co = "stop" => stopping) /\ pc[co] \in Closing
  <2>1. pc[co] \in Closing
    BY Zenon DEF CloseRaises, Closing
  <2>. QED  BY <2>1, WhoCloses, Zenon
<1>2. /\ closeErrors' \in Nat /\ closeErrors' # 0 /\ key' \in Keys
      /\ UNCHANGED <<redis, lease, stray, client, subs, started, stopping, overlapped>>
  BY DEF CloseRaises, LeaderInv, ListenerType, Keys, listener
<1>3. PICK p \in {"raised", "died", "none"} :
        /\ pc' = [pc EXCEPT ![co] = p]
        /\ p = "died" <=> co = "retry"
        /\ p = "none" <=> co = "lost"
  BY Zenon DEF CloseRaises, Co
<1>. USE <1>1, <1>2, <1>3 DEF LeaderInv
<1>4. ListenerType'
  BY DEF ListenerType, Where, Co
<1>5. Shape'
  BY Zenon DEF ListenerType, Shape, Co, Closing, MayClose
<1>6. ClientHasLease' /\ HeldIsInUse'
  BY <1>2, Zenon DEF ClientHasLease, HeldIsInUse
<1>. QED  BY <1>4, <1>5, <1>6, Zenon

LEMMA StopKeeps == ASSUME LeaderInv, Stop PROVE LeaderInv'
<1>1. /\ pc["main"] \in {"running", "raised"} /\ pc["stop"] = "none" /\ stopping' = TRUE
      /\ UNCHANGED <<redis, stray, client, subs, overlapped, closeErrors>>
  BY Zenon DEF Stop, counters
<1>2. CASE pc["retry"] = "none" /\ CloseRuntime("stop")
  <2>1. MayClose("stop") /\ "stop" \in Co
    BY <1>1, <1>2, Zenon DEF MayClose, Co
  <2>. QED  BY <1>1, <1>2, <2>1, CloseKeeps, Zenon
<1>3. ASSUME NEW p \in {"raised", "joining"}, pc' = [pc EXCEPT !["stop"] = p], UNCHANGED <<lease, started, key>>
      PROVE  LeaderInv'
  <2>. USE <1>1, <1>3 DEF LeaderInv
  <2>1. ListenerType'
    BY Zenon DEF ListenerType, Where, Co
  <2>2. Shape'
    BY Zenon DEF ListenerType, Shape, Co, Closing
  <2>3. ClientHasLease'
    BY Zenon DEF ListenerType, ClientHasLease, Co, Undoing, Closing
  <2>4. HeldIsInUse'
    BY Zenon DEF ListenerType, HeldIsInUse, Co, Undoing, Closing
  <2>. QED  BY <2>1, <2>2, <2>3, <2>4, Zenon
<1>. QED  BY <1>2, <1>3, Zenon DEF Stop

LEMMA RetryCancelledKeeps == ASSUME LeaderInv, RetryCancelled PROVE LeaderInv'
<1>1. /\ pc["stop"] = "joining" /\ pc' = [pc EXCEPT !["retry"] = "none"] /\ key' \in Keys
      /\ (key' # "mine" \/ key' = key)
      /\ UNCHANGED <<redis, lease, stray, client, subs, started, stopping, overlapped, closeErrors>>
  BY Zenon DEF RetryCancelled, listener, counters, LeaderInv, ListenerType, Keys
<1>. USE <1>1 DEF LeaderInv
<1>2. ListenerType'
  BY Zenon DEF ListenerType, Where, Co
<1>3. Shape'
  BY Zenon DEF ListenerType, Shape, Co, Closing
<1>4. ClientHasLease'
  BY Zenon DEF ListenerType, ClientHasLease, Co, Undoing, Closing
<1>5. HeldIsInUse'
  BY Zenon DEF ListenerType, HeldIsInUse, Co
<1>. QED  BY <1>2, <1>3, <1>4, <1>5, Zenon

LEMMA StopGoesOn == ASSUME LeaderInv, RetryJoined \/ RedisClosed PROVE LeaderInv'
<1>1. CASE RetryJoined
  <2>1. MayClose("stop") /\ stopping /\ "stop" \in Co
    BY <1>1, Zenon DEF RetryJoined, MayClose, Co, LeaderInv, Shape
  <2>. QED  BY <1>1, <2>1, CloseKeeps, Zenon DEF RetryJoined, counters
<1>2. CASE RedisClosed
  <2>. USE <1>2 DEF RedisClosed, LeaderInv, counters
  <2>1. ListenerType'
    BY Zenon DEF ListenerType, Where, Co
  <2>2. Shape'
    BY Zenon DEF ListenerType, Shape, Co, Closing
  <2>3. ClientHasLease'
    BY Zenon DEF ListenerType, ClientHasLease, Co, Undoing, Closing
  <2>4. HeldIsInUse'
    BY Zenon DEF ListenerType, HeldIsInUse, Co, Undoing, Closing
  <2>. QED  BY <2>1, <2>2, <2>3, <2>4, Zenon
<1>. QED  BY <1>1, <1>2, Zenon

LEMMA RetryWakesKeeps == ASSUME LeaderInv, RetryWakes PROVE LeaderInv'
<1>1. /\ pc["retry"] = "sleep" /\ pc["stop"] # "joining"
      /\ UNCHANGED <<stray, client, subs, started, stopping, key, overlapped, closeErrors>>
  BY Zenon DEF RetryWakes, counters
<1>2. PICK p \in {"none", "died", "s_lease"} :
        /\ pc' = [pc EXCEPT !["retry"] = p] /\ UNCHANGED redis
        /\ p # "s_lease" => UNCHANGED lease
        /\ p = "s_lease" => lease' = "pending" /\ subs = "none" /\ ~stopping
  BY <1>1, Zenon DEF RetryWakes, StartOnce, ReturnTrue, Raise, LeaderInv, ListenerType, Shape
<1>. USE <1>1, <1>2 DEF LeaderInv
<1>3. ListenerType'
  BY Zenon DEF ListenerType, Where, Co, Starting
<1>4. Shape'
  BY Zenon DEF ListenerType, Shape, Co, Closing
<1>5. ClientHasLease'
  <2>1. CASE p # "s_lease"
    BY <2>1, Zenon DEF ListenerType, ClientHasLease, Co, Undoing, Closing
  <2>2. CASE p = "s_lease"
    BY <2>2, Zenon DEF ListenerType, ClientHasLease, HeldIsInUse, Co, Undoing, Closing
  <2>. QED  BY <2>1, <2>2, Zenon
<1>6. HeldIsInUse'
  BY Zenon DEF ListenerType, HeldIsInUse, Co, Undoing, Closing
<1>. QED  BY <1>3, <1>4, <1>5, <1>6, Zenon

LEMMA LossKeeps == ASSUME LeaderInv, LeaseLost \/ OnLeaseLost PROVE LeaderInv'
<1>1. CASE LeaseLost
  <2>1. /\ pc["lost"] = "none" /\ pc' = [pc EXCEPT !["lost"] = "scheduled"] /\ stray' \in BOOLEAN
        /\ \/ lease = "held" /\ lease' = "lost"
           \/ stray /\ UNCHANGED lease
        /\ UNCHANGED <<redis, client, subs, started, stopping, key, overlapped, closeErrors>>
    BY <1>1, Zenon DEF LeaseLost, counters, LeaderInv, ListenerType
  <2>. USE <2>1 DEF LeaderInv
  <2>2. ListenerType'
    BY Zenon DEF ListenerType, Where, Co
  <2>3. Shape'
    BY Zenon DEF ListenerType, Shape, Co, Closing
  <2>4. ClientHasLease'
    BY Zenon DEF ListenerType, ClientHasLease, Co
  <2>5. HeldIsInUse'
    BY Zenon DEF ListenerType, Shape, HeldIsInUse, Co, Undoing, Closing
  <2>. QED  BY <2>2, <2>3, <2>4, <2>5, Zenon
<1>2. CASE OnLeaseLost
  <2>1. MayClose("lost") /\ "lost" \in Co
    BY <1>2, WhoCloses, Zenon DEF OnLeaseLost, Co
  <2>. QED  BY <1>2, <2>1, CloseKeeps, Zenon DEF OnLeaseLost, counters
<1>. QED  BY <1>1, <1>2, Zenon

LEMMA RedisKeeps == ASSUME LeaderInv, LoseKey \/ OtherAcquires \/ OtherFrees \/ UNCHANGED vars PROVE LeaderInv'
<1>1. /\ UNCHANGED <<pc, redis, lease, stray, client, subs, started, stopping, closeErrors>>
      /\ overlapped' \in BOOLEAN /\ key' \in Keys /\ (key' # "mine" \/ key' = key)
  <2>1. CASE LoseKey
    <3>1. overlapped' \in BOOLEAN
      BY <2>1, Zenon DEF LoseKey, Busy, LeaderInv, ListenerType
    <3>. QED  BY <2>1, <3>1, Zenon DEF LoseKey, listener, Keys
  <2>2. CASE OtherAcquires
    BY <2>2, Zenon DEF OtherAcquires, listener, Keys, LeaderInv, ListenerType
  <2>3. CASE OtherFrees
    BY <2>3, Zenon DEF OtherFrees, listener, counters, Keys, LeaderInv, ListenerType
  <2>4. CASE UNCHANGED vars
    BY <2>4, Zenon DEF vars, listener, counters, LeaderInv, ListenerType
  <2>. QED  BY <2>1, <2>2, <2>3, <2>4, Zenon
<1>. USE <1>1 DEF LeaderInv
<1>2. ListenerType'
  BY Zenon DEF ListenerType
<1>3. Shape'
  BY Zenon DEF Shape
<1>4. ClientHasLease' /\ HeldIsInUse'
  BY Zenon DEF ClientHasLease, HeldIsInUse
<1>. QED  BY <1>2, <1>3, <1>4, Zenon

LEMMA LeaderInitially == Init => LeaderInv
<1>. SUFFICES ASSUME Init PROVE LeaderInv
  BY Zenon
<1>1. ListenerType
  <2>1. stray \in BOOLEAN /\ client \in BOOLEAN /\ started \in BOOLEAN /\ stopping \in BOOLEAN /\ overlapped \in BOOLEAN
    BY Zenon DEF Init
  <2>. QED  BY <2>1, Zenon DEF Init, ListenerType, Where, Keys
<1>2. Shape
  BY Zenon DEF Init, Shape, Co, Closing
<1>3. ClientHasLease /\ HeldIsInUse
  BY Zenon DEF Init, ClientHasLease, HeldIsInUse
<1>. QED  BY <1>1, <1>2, <1>3, Zenon DEF LeaderInv

LEMMA LeaderStep == LeaderInv /\ [Next]_vars => LeaderInv'
<1>. SUFFICES ASSUME LeaderInv, [Next]_vars PROVE LeaderInv'
  BY Zenon
<1>1. ASSUME NEW co \in Co, Resume(co) PROVE LeaderInv'
  BY <1>1, RedisConnectedKeeps, RedisRaisesKeeps, LeaseAcquiredKeeps, LeaseRefusedKeeps, StartGoesOn,
     ClosersKeep, CloseRaisesKeeps, Zenon DEF Resume
<1>2. CASE Background
  BY <1>2, RetryCancelledKeeps, StopGoesOn, RetryWakesKeeps, LossKeeps, Zenon DEF Background
<1>. QED  BY <1>1, <1>2, StartKeeps, StopKeeps, LossKeeps, RedisKeeps, Zenon DEF Next

(* leader_elected_listener.py: however often starts fail, keys are lost    *)
(* and other workers take over, live subscriptions come with a lease that  *)
(* is renewed or with someone who is taking them down.                     *)
THEOREM AlwaysConsumesOnlyAsLeader == Spec => []ConsumesOnlyAsLeader
<1>1. LeaderInv => ConsumesOnlyAsLeader
  BY Zenon DEF LeaderInv, Shape, ClientHasLease, ConsumesOnlyAsLeader, Undoing, Closing
<1>. QED  BY <1>1, LeaderInitially, LeaderStep, PTL DEF Spec

-----------------------------------------------------------------------------
(* The same cases for InTurn.                                              *)
Entering == {"s_nats", "s_subs", "s_hook"}

LEMMA UndoInTurn ==
  ASSUME LeaderInv, InTurn, NEW co \in Co, NEW p \in Undoing, pc' = [pc EXCEPT ![co] = p],
         UNCHANGED <<lease, key, stray, client>>, MayClose(co),
         co \in {"main", "retry"} => pc[co] \in Entering \cup Undoing
  PROVE  InTurn'
<1>. USE DEF LeaderInv, ListenerType, InTurn, MayClose, Undoing, Closing, Co, Over, Starting, Entering
<1>1. CASE co = "main"
  BY <1>1, Zenon
<1>2. CASE co = "stop"
  BY <1>2, Zenon
<1>3. CASE co = "retry"
  BY <1>3, Zenon
<1>4. CASE co = "lost"
  BY <1>4, Zenon
<1>. QED  BY <1>1, <1>2, <1>3, <1>4, Zenon

LEMMA GoesOnInTurn ==
  ASSUME LeaderInv, InTurn, NEW co \in Co, NEW p \in Where, NEW q \in {pc["retry"], "sleep"},
         pc' = IF co = "retry" THEN [pc EXCEPT !["retry"] = p] ELSE [pc EXCEPT ![co] = p, !["retry"] = q],
         UNCHANGED stray, lease' = "none", key' # "mine", client' \in {client, FALSE}, co = "stop" => ~client',
         p \in {"c_lease", "c_redis", "running", "none", "sleep"},
         p = "c_lease" => q = pc["retry"],
         p = "c_redis" => co = "stop",
         p = "running" => co = "main",
         p = "sleep" => co = "retry",
         p = "none" => co \in {"retry", "lost"},
         q = "sleep" => \/ pc["retry"] = "sleep"
                        \/ co \in {"main", "lost"} /\ pc["stop"] = "none" /\ pc["retry"] \in Over,
         MayClose(co), co \in {"main", "retry"} => pc[co] \in Entering \cup Closing
  PROVE  InTurn'
<1>. USE DEF LeaderInv, ListenerType, InTurn, MayClose, Undoing, Closing, Co, Over, Starting, Entering
<1>1. CASE co = "main"
  BY <1>1, Zenon
<1>2. CASE co = "stop"
  BY <1>2, Zenon
<1>3. CASE co = "retry"
  BY <1>3, Zenon
<1>4. CASE co = "lost"
  <2>1. /\ pc'["main"] = pc["main"] /\ pc'["stop"] = pc["stop"] /\ pc'["lost"] = p /\ pc'["retry"] = q
        /\ p \in {"c_lease", "none"}
    BY <1>4, Zenon
  <2>2. pc["retry"] \in Over /\ pc["main"] \notin Starting \cup Closing
    BY <1>4, Zenon
  <2>3. \A d \in {"main", "retry"} : pc'[d] \notin Entering \cup Undoing
    BY <2>1, <2>2, Zenon
  <2>4. pc'["stop"] \in {"c_lease", "c_redis", "stopped"} => ~client'
    BY <2>1, Zenon
  <2>5. pc'["retry"] \notin Over => pc'["lost"] = "none" /\ pc'["stop"] \in {"none", "joining"}
    BY <1>4, <2>1, <2>2, Zenon
  <2>6. pc'["main"] \notin Starting \cup Closing /\ pc'["retry"] # "s_lease"
    BY <2>1, <2>2, Zenon
  <2>. QED  BY <2>3, <2>4, <2>5, <2>6, Zenon
<1>. QED  BY <1>1, <1>2, <1>3, <1>4, Zenon

LEMMA ReturnInTurn ==
  ASSUME LeaderInv, InTurn, NEW co \in Co, AfterClose(co), MayClose(co),
         co \in {"main", "retry"} => pc[co] \in Entering \cup Closing,
         UNCHANGED stray, lease' = "none", key' # "mine", client' \in {client, FALSE}, co = "stop" => ~client'
  PROVE  InTurn'
<1>1. PICK p \in {"c_redis", "running", "none", "sleep"}, q \in {pc["retry"], "sleep"} :
            /\ pc' = IF co = "retry" THEN [pc EXCEPT !["retry"] = p]
                     ELSE [pc EXCEPT ![co] = p, !["retry"] = q]
            /\ p = "c_redis" <=> co = "stop"
            /\ p = "running" <=> co = "main"
            /\ p = "sleep" => co = "retry" /\ ~stopping
            /\ q = "sleep" /\ q # pc["retry"] => co \in {"main", "lost"} /\ ~stopping /\ pc["retry"] \in Over
  BY CloseReturns, Zenon DEF LeaderInv, ListenerType
<1>2. p \in Where
  BY Zenon DEF Where
<1>3. ~stopping => pc["stop"] = "none"
  BY Zenon DEF LeaderInv, Shape
<1>4. q = "sleep" => \/ pc["retry"] = "sleep"
                     \/ co \in {"main", "lost"} /\ pc["stop"] = "none" /\ pc["retry"] \in Over
  BY <1>1, <1>3, Zenon
<1>5. p = "none" => co \in {"retry", "lost"}
  BY <1>1, Zenon DEF Co
<1>. QED  BY <1>1, <1>2, <1>4, <1>5, GoesOnInTurn, Zenon

LEMMA ReleaseInTurn ==
  ASSUME LeaderInv, InTurn, NEW co \in Co, ReleaseLease(co), MayClose(co),
         co \in {"main", "retry"} => pc[co] \in Entering \cup Closing, UNCHANGED stray, client' = FALSE
  PROVE  InTurn'
<1>1. lease' = "none" /\ key' # "mine"
  BY Zenon DEF ReleaseLease, InTurn, Co
<1>2. CASE pc' = [pc EXCEPT ![co] = "c_lease"]
  <2>1. pc' = IF co = "retry" THEN [pc EXCEPT !["retry"] = "c_lease"]
              ELSE [pc EXCEPT ![co] = "c_lease", !["retry"] = pc["retry"]]
    BY <1>2, Zenon DEF LeaderInv, ListenerType, Co
  <2>2. "c_lease" \in Where
    BY Zenon DEF Where, Closing
  <2>. QED  BY <1>1, <2>1, <2>2, GoesOnInTurn, Zenon
<1>3. CASE AfterClose(co)
  BY <1>1, <1>3, ReturnInTurn, Zenon
<1>. QED  BY <1>2, <1>3, Zenon DEF ReleaseLease

LEMMA CloseInTurn ==
  ASSUME LeaderInv, InTurn, NEW co \in Co, MayClose(co),
         co \in {"main", "retry"} => pc[co] \in Entering \cup Undoing,
         CloseRuntime(co) \/ (CloseSubs(co) /\ UNCHANGED started) \/ (CloseClient(co) /\ UNCHANGED started),
         UNCHANGED <<stray, client>>
  PROVE  InTurn'
<1>1. \/ \E p \in Undoing : pc' = [pc EXCEPT ![co] = p] /\ UNCHANGED <<lease, key>>
      \/ ~client /\ ReleaseLease(co)
  BY CloseMoves, Zenon DEF LeaderInv, ListenerType
<1>2. ASSUME NEW p \in Undoing, pc' = [pc EXCEPT ![co] = p], UNCHANGED <<lease, key>> PROVE InTurn'
  BY <1>1, <1>2, UndoInTurn, Zenon
<1>3. CASE ~client /\ ReleaseLease(co)
  <2>1. client' = FALSE
    BY <1>3, Zenon DEF LeaderInv, ListenerType
  <2>. QED  BY <1>3, <2>1, ReleaseInTurn, Zenon DEF Undoing
<1>. QED  BY <1>1, <1>2, <1>3, Zenon

LEMMA OrderlyBefore ==
  ASSUME LeaderInv, [Next]_vars, Orderly'
  PROVE  Orderly
<1>. USE DEF LeaderInv, ListenerType, Orderly, counters
<1>1. ASSUME NEW co \in Co, Resume(co) PROVE Orderly
  BY <1>1 DEF Resume, RedisConnected, RedisRaises, LeaseAcquired, LeaseRefused, NatsConnected, Subscribed,
     HookReturns, StartFails, OnStopReturns, Unsubscribed, ClientClosed, LeaseReleased, CloseRaises
<1>2. CASE Background \/ Start \/ Stop \/ LeaseLost
  BY <1>2, Zenon DEF Background, RetryCancelled, RetryJoined, RedisClosed, RetryWakes, OnLeaseLost, Start, Stop, LeaseLost
<1>3. CASE LoseKey
  BY <1>3, Zenon DEF LoseKey
<1>4. CASE OtherAcquires \/ OtherFrees \/ UNCHANGED vars
  BY <1>4, Zenon DEF OtherAcquires, OtherFrees, vars
<1>. QED  BY <1>1, <1>2, <1>3, <1>4, Zenon DEF Next

LEMMA StartInTurn == ASSUME LeaderInv, InTurn, Start PROVE InTurn'
<1>1. pc["main"] = "new" /\ UNCHANGED <<stray, client, key>> /\ lease' \in {lease, "pending"}
  BY Zenon DEF Start, StartOnce
<1>2. PICK p \in {"s_redis", "raised", "s_lease"} : pc' = [pc EXCEPT !["main"] = p]
  BY <1>1, Zenon DEF Start, StartOnce, Raise, LeaderInv, Shape
<1>3. /\ pc["retry"] = "none" /\ pc["lost"] = "none" /\ pc["stop"] = "none" /\ key # "mine"
      /\ lease \in {"none", "pending"}
  BY <1>1, Zenon DEF LeaderInv, Shape
<1>. QED  BY <1>1, <1>2, <1>3, Zenon DEF LeaderInv, ListenerType, InTurn, Undoing, Closing, Co, Over, Starting

LEMMA RedisAnswersInTurn ==
  ASSUME LeaderInv, InTurn, NEW co \in Co, RedisConnected(co) \/ RedisRaises(co)
  PROVE  InTurn'
<1>. USE DEF LeaderInv, ListenerType
<1>1. CASE RedisConnected(co)
  <2>1. co = "main" /\ pc["main"] = "s_redis"
    BY <1>1, Starters, Zenon DEF RedisConnected, Starting
  <2>2. /\ pc["retry"] = "none" /\ pc["lost"] = "none" /\ pc["stop"] = "none" /\ key # "mine"
    BY <2>1, Zenon DEF Shape
  <2>. QED  BY <1>1, <2>1, <2>2, Zenon DEF RedisConnected, InTurn, Undoing, Closing, Co, Over, Starting
<1>2. CASE RedisRaises(co)
  <2>1. co \in {"main", "retry"} /\ pc[co] \in {"s_redis", "s_lease"}
    BY <1>2, Starters, Zenon DEF RedisRaises, Starting
  <2>2. PICK p \in {"raised", "died"} : pc' = [pc EXCEPT ![co] = p] /\ (p = "died" <=> co = "retry")
    BY <1>2, <2>1, Zenon DEF RedisRaises, Raise
  <2>3. UNCHANGED <<lease, key, stray, client>>
    BY <1>2, Zenon DEF RedisRaises, listener
  <2>. QED  BY <2>1, <2>2, <2>3, Zenon DEF InTurn, Undoing, Closing, Co, Over, Starting
<1>. QED  BY <1>1, <1>2, Zenon

LEMMA LeaseAnswersInTurn ==
  ASSUME LeaderInv, InTurn, NEW co \in Co, LeaseAcquired(co) \/ LeaseRefused(co)
  PROVE  InTurn'
<1>. USE DEF LeaderInv, ListenerType
<1>1. co \in {"main", "retry"} /\ pc[co] = "s_lease" /\ lease = "pending"
  BY Starters, Zenon DEF LeaseAcquired, LeaseRefused, Starting, Shape, InTurn
<1>2. /\ pc["lost"] = "none" /\ pc["stop"] \in {"none", "joining"}
      /\ co = "main" => pc["retry"] = "none" /\ pc["stop"] = "none"
      /\ co = "retry" => pc["main"] \notin {"new"} \cup Starting \cup Closing
  BY <1>1, Zenon DEF InTurn, Starting, Over, Shape
<1>3. CASE LeaseAcquired(co)
  <2>1. lease' = "held" /\ key' = "mine" /\ UNCHANGED stray /\ pc' = [pc EXCEPT ![co] = "s_nats"]
    BY <1>1, <1>3, Zenon DEF LeaseAcquired
  <2>. QED  BY <1>1, <1>2, <2>1, Zenon DEF InTurn, Undoing, Closing, Co, Over, Starting
<1>4. CASE LeaseRefused(co)
  <2>1. lease' = "none" /\ UNCHANGED <<key, stray, client>>
    BY <1>4, Zenon DEF LeaseRefused
  <2>2. CASE co = "main"
    <3>1. PICK q \in {"none", "sleep"} : pc' = [pc EXCEPT !["main"] = "running", !["retry"] = q]
      BY <1>2, <1>4, <2>2, Zenon DEF LeaseRefused, ReturnFalse, EnsureRetry
    <3>. QED  BY <1>1, <1>2, <2>1, <2>2, <3>1, Zenon DEF InTurn, Undoing, Closing, Co, Over, Starting
  <2>3. CASE co = "retry"
    <3>1. PICK q \in {"none", "sleep"} : pc' = [pc EXCEPT !["retry"] = q]
      BY <1>4, <2>3, Zenon DEF LeaseRefused, ReturnFalse
    <3>. QED  BY <1>1, <1>2, <2>1, <2>3, <3>1, Zenon DEF InTurn, Undoing, Closing, Co, Over, Starting
  <2>. QED  BY <1>1, <2>2, <2>3, Zenon
<1>. QED  BY <1>3, <1>4, Zenon

LEMMA StartGoesOnInTurn ==
  ASSUME LeaderInv, InTurn, NEW co \in Co, NatsConnected(co) \/ Subscribed(co) \/ HookReturns(co)
  PROVE  InTurn'
<1>1. co \in {"main", "retry"} /\ pc[co] \in Entering /\ UNCHANGED <<lease, stray, client, key>>
  BY Starters, Zenon DEF NatsConnected, Subscribed, HookReturns, Starting, listener, Entering
<1>2. PICK p \in {"s_subs", "s_hook", "running", "none"} :
         pc' = [pc EXCEPT ![co] = p] /\ (p = "running" => co = "main") /\ (p = "none" => co = "retry")
  BY <1>1, Zenon DEF NatsConnected, Subscribed, HookReturns, ReturnTrue
<1>. QED  BY <1>1, <1>2, Zenon DEF LeaderInv, ListenerType, InTurn, Undoing, Closing, Co, Over, Starting, Entering

LEMMA ClosersInTurn ==
  ASSUME LeaderInv, InTurn, NEW co \in Co,
         StartFails(co) \/ OnStopReturns(co) \/ Unsubscribed(co) \/ ClientClosed(co) \/ LeaseReleased(co)
  PROVE  InTurn'
<1>1. pc[co] \in Entering \cup Closing /\ (~LeaseReleased(co) => pc[co] \in Entering \cup Undoing)
  BY Zenon DEF StartFails, OnStopReturns, Unsubscribed, ClientClosed, LeaseReleased, Closing, Undoing, Entering
<1>2. MayClose(co)
  BY <1>1, WhoCloses, Zenon DEF Entering
<1>3. CASE StartFails(co)
  <2>1. pc[co] \in Entering \cup Undoing
    BY <1>3, Zenon DEF StartFails, Entering
  <2>. QED  BY <1>2, <1>3, <2>1, CloseInTurn, Zenon DEF StartFails
<1>4. CASE OnStopReturns(co)
  <2>1. pc[co] \in Entering \cup Undoing
    BY <1>4, Zenon DEF OnStopReturns, Undoing, Closing
  <2>. QED  BY <1>2, <1>4, <2>1, CloseInTurn, Zenon DEF OnStopReturns
<1>5. CASE Unsubscribed(co)
  <2>1. pc[co] \in Entering \cup Undoing
    BY <1>5, Zenon DEF Unsubscribed, Undoing, Closing
  <2>. QED  BY <1>2, <1>5, <2>1, CloseInTurn, Zenon DEF Unsubscribed
<1>6. CASE ClientClosed(co)
  BY <1>1, <1>2, <1>6, ReleaseInTurn, Zenon DEF ClientClosed
<1>7. CASE LeaseReleased(co)
  <2>1. lease' = "none" /\ key' # "mine" /\ (co = "stop" => ~client') /\ UNCHANGED <<stray, client>>
    BY <1>7, Zenon DEF LeaseReleased, InTurn, listener
  <2>. QED  BY <1>1, <1>2, <1>7, <2>1, ReturnInTurn, Zenon DEF LeaseReleased
<1>. QED  BY <1>3, <1>4, <1>5, <1>6, <1>7, Zenon

LEMMA StopInTurn ==
  ASSUME LeaderInv, InTurn, Stop \/ RetryCancelled \/ RetryJoined \/ RedisClosed
  PROVE  InTurn'
<1>. USE DEF LeaderInv, ListenerType
<1>1. CASE (Stop \/ RetryJoined) /\ CloseRuntime("stop") /\ pc["retry"] = "none"
  <2>1. MayClose("stop") /\ "stop" \in Co /\ UNCHANGED <<stray, client>>
    BY <1>1, Zenon DEF Stop, RetryJoined, MayClose, Co, Shape
  <2>. QED  BY <1>1, <2>1, CloseInTurn, Zenon
<1>2. CASE Stop /\ UNCHANGED <<lease, started, key>> /\ \E p \in {"raised", "joining"} :
              pc' = [pc EXCEPT !["stop"] = p] /\ (p = "raised" => pc["retry"] = "died")
  <2>1. pc["main"] \in {"running", "raised"} /\ UNCHANGED <<stray, client>>
    BY <1>2, Zenon DEF Stop
  <2>. QED  BY <1>2, <2>1 DEF InTurn, Undoing, Closing, Co, Over, Starting
<1>3. CASE RetryCancelled
  <2>1. /\ pc["stop"] = "joining" /\ pc' = [pc EXCEPT !["retry"] = "none"] /\ (key' = "mine" <=> key = "mine")
        /\ UNCHANGED <<lease, stray, client>>
    BY <1>3, Zenon DEF RetryCancelled, listener
  <2>2. pc["main"] \notin Starting \cup Closing
    BY <2>1, Zenon DEF InTurn
  <2>. QED  BY <2>1, <2>2, Zenon DEF InTurn, Undoing, Closing, Co, Over, Starting
<1>4. CASE RedisClosed
  BY <1>4, Zenon DEF RedisClosed, InTurn, Undoing, Closing, Co, Over, Starting
<1>5. Stop => \/ CloseRuntime("stop") /\ pc["retry"] = "none"
              \/ UNCHANGED <<lease, started, key>> /\ \E p \in {"raised", "joining"} :
                    pc' = [pc EXCEPT !["stop"] = p] /\ (p = "raised" => pc["retry"] = "died")
  BY Zenon DEF Stop
<1>. QED  BY <1>1, <1>2, <1>3, <1>4, <1>5, Zenon DEF RetryJoined

LEMMA RetryWakesInTurn == ASSUME LeaderInv, InTurn, RetryWakes PROVE InTurn'
<1>1. pc["retry"] = "sleep" /\ pc["stop"] # "joining" /\ UNCHANGED <<stray, client, key>>
  BY Zenon DEF RetryWakes
<1>2. PICK p \in {"none", "died", "s_lease"} :
        /\ pc' = [pc EXCEPT !["retry"] = p]
        /\ p # "s_lease" => UNCHANGED lease
        /\ p = "s_lease" => lease' = "pending"
  BY <1>1, Zenon DEF RetryWakes, StartOnce, ReturnTrue, Raise, LeaderInv, ListenerType, Shape
<1>3. pc["main"] \notin Starting \cup Closing /\ pc["lost"] = "none" /\ pc["stop"] = "none" /\ key # "mine"
  BY <1>1, Zenon DEF InTurn, Over
<1>. QED  BY <1>1, <1>2, <1>3, Zenon DEF LeaderInv, ListenerType, InTurn, Undoing, Closing, Co, Over, Starting

LEMMA LossInTurn == ASSUME LeaderInv, InTurn, LeaseLost \/ OnLeaseLost PROVE InTurn'
<1>1. CASE LeaseLost
  <2>1. /\ pc["lost"] = "none" /\ pc' = [pc EXCEPT !["lost"] = "scheduled"] /\ lease = "held" /\ key # "mine"
        /\ lease' = "lost" /\ UNCHANGED <<client, key, stray>>
    BY <1>1, Zenon DEF LeaseLost, InTurn
  <2>2. pc["main"] \notin Starting \cup Closing /\ pc["retry"] \in Over
    BY <2>1, Zenon DEF LeaderInv, ListenerType, Shape, InTurn, Undoing, Closing, Co, Over, Starting, Where
  <2>. QED  BY <2>1, <2>2, Zenon DEF LeaderInv, ListenerType, InTurn, Undoing, Closing, Co, Over, Starting
<1>2. CASE OnLeaseLost
  <2>1. MayClose("lost") /\ "lost" \in Co
    BY <1>2, WhoCloses, Zenon DEF OnLeaseLost, Co
  <2>. QED  BY <1>2, <2>1, CloseInTurn, Zenon DEF OnLeaseLost
<1>. QED  BY <1>1, <1>2, Zenon

LEMMA RedisInTurn ==
  ASSUME LeaderInv, InTurn, Orderly', LoseKey \/ OtherAcquires \/ OtherFrees \/ UNCHANGED vars
  PROVE  InTurn'
<1>1. CASE LoseKey
  <2>1. ~Busy /\ UNCHANGED <<pc, lease, stray, client>> /\ key' = "free"
    BY <1>1, Zenon DEF LoseKey, Orderly, listener
  <2>. QED  BY <2>1, Zenon DEF InTurn, Busy, Undoing, Closing, Co, Starting
<1>2. CASE OtherAcquires \/ OtherFrees \/ UNCHANGED vars
  <2>1. UNCHANGED <<pc, lease, stray, client>> /\ (key' = "mine" <=> key = "mine")
    BY <1>2, Zenon DEF OtherAcquires, OtherFrees, vars, listener
  <2>. QED  BY <2>1, Zenon DEF InTurn
<1>. QED  BY <1>1, <1>2, Zenon

(* leader_elected_listener.py: stop() leaves no task, connection, live     *)
(* subscription or lease behind, however many starts failed before it, as  *)
(* long as no key was lost under a start or a close and no close raised.   *)
THEOREM AlwaysStopLeavesNothing == Spec => []StopLeavesNothing
<1>. DEFINE IInv == LeaderInv /\ OrderInv
<1>1. Init => IInv
  <2>1. Init => InTurn
    BY Zenon DEF Init, InTurn, Undoing, Closing, Co, Over, Starting
  <2>. QED  BY <2>1, LeaderInitially, Zenon DEF OrderInv
<1>2. IInv /\ [Next]_vars => IInv'
  <2>. SUFFICES ASSUME LeaderInv, OrderInv, [Next]_vars, Orderly' PROVE InTurn'
    BY LeaderStep, Zenon DEF OrderInv
  <2>1. InTurn
    BY OrderlyBefore, Zenon DEF OrderInv
  <2>2. ASSUME NEW co \in Co, Resume(co) PROVE InTurn'
    <3>1. ~CloseRaises(co)
      BY DEF CloseRaises, Orderly, LeaderInv, ListenerType
    <3>. QED  BY <2>1, <2>2, <3>1, RedisAnswersInTurn, LeaseAnswersInTurn, StartGoesOnInTurn, ClosersInTurn, Zenon DEF Resume
  <2>3. CASE Background
    BY <2>1, <2>3, StopInTurn, RetryWakesInTurn, LossInTurn, Zenon DEF Background
  <2>. QED  BY <2>1, <2>2, <2>3, StartInTurn, StopInTurn, LossInTurn, RedisInTurn, Zenon DEF Next
<1>3. IInv => StopLeavesNothing
  BY Zenon DEF LeaderInv, Shape, OrderInv, Orderly, InTurn, StopLeavesNothing, Over
<1>. QED  BY <1>1, <1>2, <1>3, PTL DEF Spec

=============================================================================
