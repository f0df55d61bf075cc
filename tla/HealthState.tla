----------------------------- MODULE HealthState -----------------------------
(* The probes of web/health.py: evaluate() runs the check of every         *)
(* dependency under a timeout and keeps the verdicts for a while.  Several *)
(* probes may evaluate at once; nothing orders them.                       *)
EXTENDS Integers

CONSTANTS Dependencies,
          CheckTimeout, CacheTtl,        \* CHECK_TIMEOUT_SECONDS, CACHE_TTL_SECONDS
          MaxProbes, MaxProbeTime, MaxConditionChanges
ASSUME HealthAssumption == CheckTimeout \in Nat /\ CacheTtl \in Nat \ {0}

Probes == 1..MaxProbes
Conditions == {"up", "down", "hangs"}

VARIABLES probeClock,
          condition,   \* what each dependency is like now
          seen,        \* history: when a dependency was last [up, failing]
          changes,     \* changes of condition so far
          cache,       \* self._cache: [at, verdicts], verdicts <<>> when empty
          probes       \* probe -> [pc, began, verdicts, status]

healthVars == <<probeClock, condition, seen, changes, cache, probes>>

Unchecked == "unknown"
NoVerdicts == [d \in Dependencies |-> Unchecked]

HealthInit ==
    /\ probeClock = 0
    /\ condition = [d \in Dependencies |-> "up"]
    /\ seen = [d \in Dependencies |-> [up |-> 0, failing |-> -CacheTtl]]
    /\ changes = 0
    /\ cache = [at |-> 0, verdicts |-> NoVerdicts]
    /\ probes = [p \in Probes |-> [pc |-> "idle", began |-> 0, verdicts |-> NoVerdicts, status |-> 0]]

Cached == cache.verdicts # NoVerdicts /\ probeClock - cache.at < CacheTtl

\* The answer of readiness(); that of liveness() is unconditional.
Readiness(verdicts) == IF \A d \in Dependencies : verdicts[d] = "ok" THEN 200 ELSE 503

\* evaluate(): answers from the cache or starts every check.
Evaluate(p) ==
    /\ probes[p].pc = "idle" /\ \A q \in 1..(p - 1) : probes[q].pc # "idle"
    /\ probeClock + CheckTimeout <= MaxProbeTime
    /\ probes' = [probes EXCEPT ![p] =
         [pc |-> IF Cached THEN "answered" ELSE "checking", began |-> probeClock,
          verdicts |-> IF Cached THEN cache.verdicts ELSE NoVerdicts,
          status |-> IF Cached THEN Readiness(cache.verdicts) ELSE 0]]
    /\ UNCHANGED <<probeClock, condition, seen, changes, cache>>

\* _run(): the check answers, raises, or is given up at the timeout.  A
\* dependency that does not answer in time is down.
CheckVerdict(d) == IF condition[d] = "up" THEN "ok" ELSE "failed"
Run(p, d) ==
    /\ probes[p].pc = "checking" /\ probes[p].verdicts[d] = Unchecked
    /\ \/ condition[d] # "hangs"
       \/ probeClock = probes[p].began + CheckTimeout
    /\ probes' = [probes EXCEPT ![p].verdicts[d] = CheckVerdict(d)]
    /\ UNCHANGED <<probeClock, condition, seen, changes, cache>>

\* gather() has every verdict; the cache is stamped with the time read before
\* the checks and replaces whatever another probe stored meanwhile.
GatheredStampedLate(p) ==
    /\ probes[p].pc = "checking" /\ \A d \in Dependencies : probes[p].verdicts[d] # Unchecked
    /\ cache' = [at |-> probeClock, verdicts |-> probes[p].verdicts]
    /\ probes' = [probes EXCEPT ![p].pc = "answered", ![p].status = Readiness(probes[p].verdicts)]
    /\ UNCHANGED <<probeClock, condition, seen, changes>>
Gathered(p) ==
    /\ probes[p].pc = "checking" /\ \A d \in Dependencies : probes[p].verdicts[d] # Unchecked
    /\ cache' = [at |-> probes[p].began, verdicts |-> probes[p].verdicts]
    /\ probes' = [probes EXCEPT ![p].pc = "answered", ![p].status = Readiness(probes[p].verdicts)]
    /\ UNCHANGED <<probeClock, condition, seen, changes>>

SeenNow(d, c, now) ==
    IF c = "up" THEN [seen[d] EXCEPT !.up = now] ELSE [seen[d] EXCEPT !.failing = now]
Changes(d) ==
    /\ changes < MaxConditionChanges
    /\ \E c \in Conditions \ {condition[d]} :
         /\ condition' = [condition EXCEPT ![d] = c]
         /\ seen' = [seen EXCEPT ![d] = SeenNow(d, c, probeClock)]
    /\ changes' = changes + 1
    /\ UNCHANGED <<probeClock, cache, probes>>

\* wait_for() ends a check at its deadline.
ProbeTick ==
    /\ probeClock < MaxProbeTime
    /\ \A p \in Probes, d \in Dependencies :
         probes[p].pc = "checking" /\ probes[p].verdicts[d] = Unchecked
           => probeClock < probes[p].began + CheckTimeout
    /\ probeClock' = probeClock + 1
    /\ seen' = [d \in Dependencies |-> SeenNow(d, condition[d], probeClock + 1)]
    /\ UNCHANGED <<condition, changes, cache, probes>>

ProbeStep(p) == (\E d \in Dependencies : Run(p, d)) \/ Gathered(p)
HealthNext ==
    \/ ProbeTick
    \/ \E d \in Dependencies : Changes(d)
    \/ \E p \in Probes : Evaluate(p) \/ ProbeStep(p)
HealthSpec == HealthInit /\ [][HealthNext]_healthVars
-----------------------------------------------------------------------------
Recent(p, time) == time > probes[p].began - CacheTtl

\* Whatever probes overlap and however late a check answers, a readiness
\* answer is never older than the cache allows: behind a 200 every dependency
\* was up less than CacheTtl before the probe began, or after, and behind a
\* 503 one of them was failing.
VerdictIsRecent ==
    \A p \in Probes : probes[p].pc = "answered" =>
        IF probes[p].status = 200
        THEN \A d \in Dependencies : Recent(p, seen[d].up)
        ELSE \E d \in Dependencies : Recent(p, seen[d].failing)
=============================================================================
