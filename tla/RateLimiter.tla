---------------------------- MODULE RateLimiter ----------------------------
(* Request rate limiting (web/rate_limit.py): a fixed-window counter per   *)
(* bucket and subject, kept by a script in Redis or, when Redis cannot be  *)
(* used, by an OrderedDict of each process.  One bucket is modelled.  A    *)
(* task awaits only the Redis call, so the rest of a call is one step.     *)
EXTENDS Filtering, FiniteSets

CONSTANTS LimiterProcs,     \* processes, each with its _LOCAL_WINDOW_LIMITER
          MaxRequests,      \* calls of a decorated endpoint
          Subjects,         \* what the resolver answers: [name, noise]
          LimiterConfigs,   \* [mode, limit, store, procs] of the endpoint
          WindowSeconds, MaxLocalEntries, MaxLimiterTime

Redis == "redis"
LimitedCalls == 1..MaxRequests

ASSUME LimiterAssumption ==
    /\ MaxRequests \in Nat /\ WindowSeconds \in Int /\ MaxLocalEntries \in Nat \ {0} /\ MaxLimiterTime \in Nat
    /\ Redis \notin LimiterProcs
    /\ LimiterConfigs \subseteq [mode : {"local_fallback", "bypass", "raise"}, limit : Int,
                                 store : {"redis", "plain", "none"}, procs : SUBSET LimiterProcs]

VARIABLES limiter,          \* the configuration of the endpoint
          limiterClock,     \* seconds
          windows,          \* Redis: key -> [count, expires]
          entries,          \* process -> OrderedDict of [key, count, expires]
          reqs,             \* the calls
          counted,          \* history: which counter counted which call when
          evicted           \* history: evictions of a key by a process

limiterVars == <<limiter, limiterClock, windows, entries, reqs, counted, evicted>>

\* Case, padding and characters outside the alphabet are the noise that
\* _normalize_subject removes; an empty rest becomes "unknown".  The digest
\* of _hash_subject is taken to be injective.
SubjectKey(s) == IF s.name = "" THEN "unknown" ELSE s.name
Keys == {SubjectKey(s) : s \in Subjects}
Ttl == IF WindowSeconds < 1 THEN 1 ELSE WindowSeconds

Idle == [st |-> "idle", proc |-> "none", key |-> "none", by |-> "none", at |-> 0, value |-> 0]

LimiterInit ==
    /\ limiter \in LimiterConfigs
    /\ limiterClock = 0
    /\ windows = [k \in Keys |-> [count |-> 0, expires |-> 0]]
    /\ entries = [p \in LimiterProcs |-> <<>>]
    /\ reqs = [q \in LimitedCalls |-> Idle]
    /\ counted = {}
    /\ evicted = [p \in LimiterProcs |-> [k \in Keys |-> 0]]

Count(q, c, k) == counted' = counted \cup {[req |-> q, by |-> c, key |-> k, at |-> limiterClock]}

\* _LocalWindowLimiter.enforce of process p for call q, from state r.
OverLocalLimit(e) == e.count >= limiter.limit
LocalEnforce(q, r) ==
    LET held == Elements(entries[r.proc])
        open == {e \in held : e.expires > limiterClock}
        mine == {e \in open : e.key = r.key}
        entry == IF mine # {} THEN CHOOSE e \in mine : TRUE
                 ELSE [key |-> r.key, count |-> 0, expires |-> limiterClock + Ttl]
        stored == Append(Filtered(entries[r.proc], open \ mine), [entry EXCEPT !.count = @ + 1])
        excess == IF Len(stored) > MaxLocalEntries THEN Len(stored) - MaxLocalEntries ELSE 0
        done == [r EXCEPT !.proc = "none", !.value = 0, !.by = r.proc, !.at = limiterClock]
    IN  IF OverLocalLimit(entry)
        THEN /\ entries' = [entries EXCEPT ![r.proc] = Filtered(@, open)]
             /\ reqs' = [reqs EXCEPT ![q] = [done EXCEPT !.st = "refused"]]
             /\ UNCHANGED <<counted, evicted>>
        ELSE /\ entries' = [entries EXCEPT ![r.proc] = SubSeq(stored, excess + 1, Len(stored))]
             /\ reqs' = [reqs EXCEPT ![q] = [done EXCEPT !.st = "served"]]
             /\ Count(q, r.proc, r.key)
             /\ evicted' = [evicted EXCEPT ![r.proc] = [k \in Keys |->
                    IF \E i \in 1..excess : stored[i].key = k THEN @[k] + 1 ELSE @[k]]]

\* _handle_backend_failure: nothing is counted unless the mode falls back.
BackendFailure(q, r) ==
    \/ /\ limiter.mode = "local_fallback"
       /\ LocalEnforce(q, r)
    \/ /\ limiter.mode # "local_fallback"
       /\ reqs' = [reqs EXCEPT ![q] = [Idle EXCEPT !.key = r.key,
                     !.st = IF limiter.mode = "bypass" THEN "served" ELSE "failed"]]
       /\ UNCHANGED <<entries, counted, evicted>>

\* _resolve_redis_backend: the store exists and exposes Redis and a key.
HasRedisBackend == limiter.store = "redis"

\* enforce_request_rate_limit up to the first await, for a call on process p.
Enforce(q, p, s) ==
    LET r == [Idle EXCEPT !.proc = p, !.key = SubjectKey(s)]
    IN  \/ /\ limiter.limit <= 0
           /\ reqs' = [reqs EXCEPT ![q] = [r EXCEPT !.st = "served"]]
           /\ UNCHANGED <<entries, counted, evicted>>
        \/ /\ limiter.limit > 0 /\ ~HasRedisBackend
           /\ BackendFailure(q, r)
        \/ /\ limiter.limit > 0 /\ HasRedisBackend
           /\ reqs' = [reqs EXCEPT ![q] = [r EXCEPT !.st = "eval"]]
           /\ UNCHANGED <<entries, counted, evicted>>

\* A decorated endpoint is called; calls are numbered as they arrive.  One
\* without its request argument raises before it touches any state.
CallLimited(q) ==
    /\ reqs[q].st = "idle"
    /\ \A earlier \in 1..(q - 1) : reqs[earlier].st # "idle"
    /\ \E p \in limiter.procs, s \in Subjects : Enforce(q, p, s)
    /\ UNCHANGED <<limiter, limiterClock, windows>>

\* _REDIS_FIXED_WINDOW_SCRIPT: INCR, and EXPIRE when the result is 1.
FixedWindowWithoutExpire(w) == [w EXCEPT !.count = @ + 1]
FixedWindow(w) ==
    IF w.count = 0 \/ w.expires <= limiterClock
    THEN [count |-> 1, expires |-> limiterClock + Ttl]
    ELSE [w EXCEPT !.count = @ + 1]
RunScript(q) ==
    LET k == reqs[q].key
        w == FixedWindow(windows[k])
    IN  /\ reqs[q].st = "eval"
        /\ windows' = [windows EXCEPT ![k] = w]
        /\ reqs' = [reqs EXCEPT ![q].st = "reply", ![q].value = w.count, ![q].at = limiterClock]
        /\ Count(q, Redis, k)
        /\ UNCHANGED <<limiter, limiterClock, entries, evicted>>

\* _enforce_redis_rate_limit resumes with the script's answer.
Answered(q) ==
    /\ reqs[q].st = "reply"
    /\ reqs' = [reqs EXCEPT ![q].proc = "none", ![q].by = Redis, ![q].value = 0,
                  ![q].st = IF reqs[q].value > limiter.limit THEN "refused" ELSE "served"]
    /\ UNCHANGED <<limiter, limiterClock, windows, entries, counted, evicted>>

\* The call raises, before the script ran or after it: the request may
\* already be counted.
BackendRaises(q) ==
    /\ reqs[q].st \in {"eval", "reply"}
    /\ BackendFailure(q, reqs[q])
    /\ UNCHANGED <<limiter, limiterClock, windows>>

LimiterTick ==
    /\ limiterClock < MaxLimiterTime
    /\ limiterClock' = limiterClock + 1
    /\ UNCHANGED <<limiter, windows, entries, reqs, counted, evicted>>

LimiterNext ==
    \/ LimiterTick
    \/ \E q \in LimitedCalls : CallLimited(q) \/ RunScript(q) \/ Answered(q) \/ BackendRaises(q)
LimiterSpec == LimiterInit /\ [][LimiterNext]_limiterVars
-----------------------------------------------------------------------------
InSpan(c, k, from) == {a \in counted : a.by = c /\ a.key = k /\ a.at \in from..(from + Ttl - 1)}

\* One counter admits at most 2 * limit calls of a subject in any span of a
\* window: a fixed window may be met at both ends.  The local limiter may
\* admit limit more for each time it evicted the open window.
BurstBound ==
    limiter.limit > 0 =>
        \A c \in {Redis} \cup LimiterProcs, k \in Keys, t \in 0..MaxLimiterTime :
            Cardinality({a \in InSpan(c, k, t) : reqs[a.req].st = "served" /\ reqs[a.req].by = c})
              <= limiter.limit * (2 + IF c = Redis THEN 0 ELSE evicted[c][k])

\* A call is refused only when the counter that refused it has counted limit
\* other calls of the subject within the last window.
RefusedOnlyOverLimit ==
    \A q \in LimitedCalls : reqs[q].st = "refused" =>
        Cardinality({a \in InSpan(reqs[q].by, reqs[q].key, reqs[q].at - Ttl + 1) : a.req # q})
          >= limiter.limit

\* The limit is kept from both sides, however calls of several processes
\* interleave, are spelled, or lose their answer: no burst beyond the bound of
\* a fixed window, and no refusal by an expired window, a bypass or an error
\* of Redis.
LimitKept == BurstBound /\ RefusedOnlyOverLimit
=============================================================================
