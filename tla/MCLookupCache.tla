--------------------------- MODULE MCLookupCache ---------------------------
(* Two replicas, two callers in one of them; the empty value is the first   *)
(* version.  Each instance runs the callers, methods and faults that matter *)
(* to one question.                                                         *)
EXTENDS LookupCache

CONSTANTS r1, r2, c1, c2, c3, k1, k2

TwoReplicas == [c \in {c1, c2, c3} |-> IF c = c3 THEN r2 ELSE r1]
FirstIsEmpty == {0}

Hybrid == [mode |-> "hybrid", onFailure |-> "local_fallback", localTtl |-> 2, emptyTtl |-> 1,
           redisTtl |-> 2, redisEmptyTtl |-> 1, slots |-> 1]
Strict == [Hybrid EXCEPT !.onFailure = "raise"]
RedisOnly == [Hybrid EXCEPT !.mode = "redis", !.onFailure = "bypass"]
RedisStrict == [RedisOnly EXCEPT !.onFailure = "raise", !.redisEmptyTtl = 0]
LocalOnly == [Hybrid EXCEPT !.mode = "local"]

Get == [keys |-> {k1}, callers |-> {c1, c2, c3}, methods |-> {"get"}, calls |-> 3, errors |-> 0,
        cancels |-> 0, changes |-> 0, ticks |-> 2]
Across == [Get EXCEPT !.callers = {c1, c3}]
Faulty == [Across EXCEPT !.calls = 2, !.errors = 1]
Cancels == [Get EXCEPT !.cancels = 1, !.ticks = 0]
Ages == [Across EXCEPT !.methods = {"get", "get_cached"}, !.calls = 2, !.changes = 1, !.ticks = 3]
Drops == [Across EXCEPT !.methods = {"get", "invalidate", "clear_local"}, !.changes = 1,
                        !.ticks = 0, !.calls = 4]
Puts == [Across EXCEPT !.methods = Methods, !.changes = 1, !.errors = 1, !.ticks = 0, !.calls = 2]
TwoKeys == [Get EXCEPT !.keys = {k1, k2}, !.callers = {c1, c2}, !.methods = Methods, !.calls = 4,
                       !.cancels = 1]

With(args, bound) == [f \in DOMAIN args \cup {"bound"} |-> IF f = "bound" THEN bound ELSE args[f]]
Instances ==
    {With(Hybrid, Get), With(Hybrid, Faulty), With(Strict, Faulty), With(RedisStrict, Faulty),
     With(Hybrid, Cancels), With(Hybrid, Ages), With(Hybrid, Drops), With(RedisOnly, Puts),
     With(Strict, Puts), With(LocalOnly, TwoKeys)}
=============================================================================
