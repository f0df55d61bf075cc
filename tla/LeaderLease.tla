---------------------------- MODULE LeaderLease ----------------------------
(***************************************************************************)
(* RedisLock and LeaderLease of state/redis.py: workers that compete for   *)
(* one Redis key.  A worker's token is the worker itself; the token of a   *)
(* crashed process is Orphan, since a new process draws a new one.         *)
(*                                                                         *)
(* A Redis command is two steps: the server executes it, the coroutine     *)
(* resumes with the reply.  Everything else may happen in between.  Time   *)
(* is counted in what is left: of the key's TTL and of a renew sleep.      *)
(***************************************************************************)
EXTENDS Integers, FiniteSets

CONSTANTS
    Workers,
    NoOwner,      \* the key is absent
    Orphan,       \* the token of a process that crashed
    Ttl,          \* ttl_seconds
    Renew,        \* renew_interval_seconds
    MaxErrors,    \* bound: Redis commands that raise
    MaxLosses     \* bound: keys Redis loses (eviction, failover)

ASSUME OwnersDistinct == NoOwner \notin Workers /\ Orphan \notin Workers /\ NoOwner # Orphan
ASSUME IntervalsPositive == Ttl \in Nat \ {0} /\ Renew \in Nat \ {0}
ASSUME BoundsTyped == MaxErrors \in Nat /\ MaxLosses \in Nat

VARIABLES
    owner,   \* Redis: the token stored at the key
    ttl,     \* Redis: time the key has left
    call,    \* worker -> where its acquire() or release() call is
    renew,   \* worker -> where its _renew_loop task is
    timer,   \* worker -> sleep its _renew_loop has left
    held,    \* worker -> RedisLock._held
    lost,    \* worker -> LeaderLease._lost is set
    errors,  \* Redis commands that raised so far
    losses,  \* keys lost so far
    late     \* history: the clock moved on while something was due

key == <<owner, ttl>>
lease == <<call, renew, timer, held, lost>>
faults == <<errors, losses, late>>
vars == <<key, lease, faults>>

Calls == {"idle", "set", "set_ok", "set_no", "joining", "del", "del_done"}
RenewLoops == {"none", "sleep", "ext", "ext_ok", "ext_no", "dead"}
Extending == {"ext", "ext_ok", "ext_no"}
Alive == {"sleep"} \cup Extending

(* LeaderLease.held *)
Leads(w) == held[w] /\ ~lost[w]

Init ==
    /\ owner = NoOwner
    /\ ttl = 0
    /\ call = [w \in Workers |-> "idle"]
    /\ renew = [w \in Workers |-> "none"]
    /\ timer = [w \in Workers |-> 0]
    /\ held = [w \in Workers |-> FALSE]
    /\ lost = [w \in Workers |-> FALSE]
    /\ errors = 0
    /\ losses = 0
    /\ late = FALSE

Goto(w, l) == call' = [call EXCEPT ![w] = l]
Loop(w, l) == renew' = [renew EXCEPT ![w] = l]

-----------------------------------------------------------------------------
(* acquire(): a live renew loop answers at once, without a command *)

AcquireBegin(w) ==
    /\ call[w] = "idle"
    /\ renew[w] \notin Alive
    /\ Goto(w, "set")
    /\ UNCHANGED <<key, renew, timer, held, lost, faults>>

(* Mutant: SET without NX. *)
SetWithoutNX(w) ==
    /\ call[w] = "set"
    /\ owner' = w
    /\ ttl' = Ttl
    /\ Goto(w, "set_ok")
    /\ UNCHANGED <<renew, timer, held, lost, faults>>

(* SET key token NX PX ttl *)
SetExecutes(w) ==
    /\ call[w] = "set"
    /\ IF owner = NoOwner
       THEN owner' = w /\ ttl' = Ttl /\ Goto(w, "set_ok")
       ELSE Goto(w, "set_no") /\ UNCHANGED key
    /\ UNCHANGED <<renew, timer, held, lost, faults>>

AcquireReturns(w) ==
    /\ call[w] = "set_ok"
    /\ Goto(w, "idle")
    /\ held' = [held EXCEPT ![w] = TRUE]
    /\ lost' = [lost EXCEPT ![w] = FALSE]
    /\ Loop(w, "sleep")
    /\ timer' = [timer EXCEPT ![w] = Renew]
    /\ UNCHANGED <<key, faults>>

AcquireRefused(w) ==
    /\ call[w] = "set_no"
    /\ Goto(w, "idle")
    /\ held' = [held EXCEPT ![w] = FALSE]
    /\ UNCHANGED <<key, renew, timer, lost, faults>>

-----------------------------------------------------------------------------
(* _renew_loop: once cancelled it does not resume, though a command it sent *)
(* may still be executed.                                                   *)

Cancelled(w) == call[w] = "joining"

RenewFires(w) ==
    /\ renew[w] = "sleep"
    /\ ~Cancelled(w)
    /\ timer[w] = 0
    /\ IF held[w]
       THEN Loop(w, "ext") /\ UNCHANGED lost
       ELSE Loop(w, "none") /\ lost' = [lost EXCEPT ![w] = TRUE]
    /\ UNCHANGED <<key, call, timer, held, faults>>

(* The compare-and-pexpire script *)
ExtendExecutes(w) ==
    /\ renew[w] = "ext"
    /\ IF owner = w
       THEN ttl' = Ttl /\ Loop(w, "ext_ok")
       ELSE Loop(w, "ext_no") /\ UNCHANGED ttl
    /\ UNCHANGED <<owner, call, timer, held, lost, faults>>

ExtendSucceeds(w) ==
    /\ renew[w] = "ext_ok"
    /\ ~Cancelled(w)
    /\ Loop(w, "sleep")
    /\ timer' = [timer EXCEPT ![w] = Renew]
    /\ UNCHANGED <<key, call, held, lost, faults>>

(* Mutant: the refusal is ignored. *)
ExtendRefusalIgnored(w) ==
    /\ renew[w] = "ext_no"
    /\ ~Cancelled(w)
    /\ Loop(w, "sleep")
    /\ timer' = [timer EXCEPT ![w] = Renew]
    /\ UNCHANGED <<key, call, held, lost, faults>>

(* on_lost is scheduled here; LeaderElectedListener models what it does. *)
ExtendRefused(w) ==
    /\ renew[w] = "ext_no"
    /\ ~Cancelled(w)
    /\ Loop(w, "none")
    /\ held' = [held EXCEPT ![w] = FALSE]
    /\ lost' = [lost EXCEPT ![w] = TRUE]
    /\ UNCHANGED <<key, call, timer, faults>>

(* extend() raises: _renew_loop catches only CancelledError, so the task    *)
(* ends with the exception; neither _held nor _lost changes.                *)
ExtendRaises(w) ==
    /\ renew[w] \in Extending
    /\ ~Cancelled(w)
    /\ errors < MaxErrors
    /\ errors' = errors + 1
    /\ Loop(w, "dead")
    /\ UNCHANGED <<key, call, timer, held, lost, losses, late>>

-----------------------------------------------------------------------------
(* release() *)

AfterJoin(w) == IF held[w] THEN "del" ELSE "idle"

ReleaseBegin(w) ==
    /\ call[w] = "idle"
    /\ renew[w] # "dead"
    /\ held[w] \/ renew[w] # "none"
    /\ lost' = [lost EXCEPT ![w] = TRUE]
    /\ Goto(w, IF renew[w] = "none" THEN AfterJoin(w) ELSE "joining")
    /\ UNCHANGED <<key, renew, timer, held, faults>>

(* The cancelled loop has ended: RedisLock.release() is next. *)
RenewCancelled(w) ==
    /\ call[w] = "joining"
    /\ Loop(w, "none")
    /\ Goto(w, AfterJoin(w))
    /\ UNCHANGED <<key, timer, held, lost, faults>>

(* `await task' re-raises what ended the loop: the key is not released. *)
ReleaseRaises(w) ==
    /\ call[w] = "idle"
    /\ renew[w] = "dead"
    /\ Loop(w, "none")
    /\ lost' = [lost EXCEPT ![w] = TRUE]
    /\ UNCHANGED <<key, call, timer, held, faults>>

(* The compare-and-delete script *)
DeleteExecutes(w) ==
    /\ call[w] = "del"
    /\ IF owner = w THEN owner' = NoOwner /\ ttl' = 0 ELSE UNCHANGED key
    /\ Goto(w, "del_done")
    /\ UNCHANGED <<renew, timer, held, lost, faults>>

ReleaseReturns(w) ==
    /\ call[w] = "del_done"
    /\ Goto(w, "idle")
    /\ held' = [held EXCEPT ![w] = FALSE]
    /\ UNCHANGED <<key, renew, timer, lost, faults>>

(* SET or the release script raises, before or after it was executed. *)
CallRaises(w) ==
    /\ call[w] \in {"set", "set_ok", "set_no", "del", "del_done"}
    /\ errors < MaxErrors
    /\ errors' = errors + 1
    /\ Goto(w, "idle")
    /\ UNCHANGED <<key, renew, timer, held, lost, losses, late>>

-----------------------------------------------------------------------------
(* Processes, Redis and time *)

Crash(w) ==
    /\ call' = [call EXCEPT ![w] = "idle"]
    /\ renew' = [renew EXCEPT ![w] = "none"]
    /\ timer' = [timer EXCEPT ![w] = 0]
    /\ held' = [held EXCEPT ![w] = FALSE]
    /\ lost' = [lost EXCEPT ![w] = FALSE]
    /\ owner' = IF owner = w THEN Orphan ELSE owner
    /\ UNCHANGED <<ttl, faults>>

LoseKey ==
    /\ owner # NoOwner
    /\ losses < MaxLosses
    /\ losses' = losses + 1
    /\ owner' = NoOwner
    /\ ttl' = 0
    /\ UNCHANGED <<lease, errors, late>>

(* Nothing is due: what a scheduler that keeps up with the clock waits for. *)
Punctual ==
    \A w \in Workers :
        /\ call[w] = "idle"
        /\ renew[w] \notin Extending
        /\ renew[w] = "sleep" => timer[w] > 0

Less(n) == IF n = 0 THEN 0 ELSE n - 1

Tick ==
    /\ late' = (late \/ ~Punctual)
    /\ ttl' = Less(ttl)
    /\ owner' = IF ttl' = 0 THEN NoOwner ELSE owner
    /\ timer' = [w \in Workers |-> Less(timer[w])]
    /\ UNCHANGED <<call, renew, held, lost, errors, losses>>

LoopStep(w) ==
    \/ RenewFires(w) \/ ExtendExecutes(w) \/ ExtendSucceeds(w) \/ ExtendRefused(w)
    \/ ExtendRaises(w)

CallStep(w) ==
    \/ SetExecutes(w) \/ AcquireReturns(w) \/ AcquireRefused(w)
    \/ RenewCancelled(w) \/ DeleteExecutes(w) \/ ReleaseReturns(w) \/ CallRaises(w)

Next ==
    \/ \E w \in Workers :
          \/ AcquireBegin(w) \/ ReleaseBegin(w) \/ ReleaseRaises(w)
          \/ LoopStep(w) \/ CallStep(w) \/ Crash(w)
    \/ LoseKey
    \/ Tick

Spec == Init /\ [][Next]_vars

(* Time passes, the event loop wakes sleepers, Redis answers or errs. *)
Fairness ==
    /\ WF_vars(Tick)
    /\ \A w \in Workers : WF_vars(LoopStep(w)) /\ WF_vars(CallStep(w))

FairSpec == Spec /\ Fairness

-----------------------------------------------------------------------------
(* Properties *)

TypeOK ==
    /\ owner \in Workers \cup {NoOwner, Orphan}
    /\ ttl \in 0 .. Ttl
    /\ owner = NoOwner <=> ttl = 0
    /\ call \in [Workers -> Calls]
    /\ renew \in [Workers -> RenewLoops]
    /\ timer \in [Workers -> 0 .. Renew]
    /\ held \in [Workers -> BOOLEAN]
    /\ lost \in [Workers -> BOOLEAN]
    /\ errors \in 0 .. MaxErrors
    /\ losses \in 0 .. MaxLosses
    /\ late \in BOOLEAN

AtMostOneLeads == \A v, w \in Workers : Leads(v) /\ Leads(w) => v = w

(* Timers and commands kept up with the clock, no command raised and Redis  *)
(* lost no key, so far; and a lease is renewed before it runs out.          *)
ReliableSoFar == ~late /\ errors = 0 /\ losses = 0 /\ Renew < Ttl

(* "any worker can attempt to become leader, but only the leader should     *)
(* execute the protected task(s)": as long as nothing was late, raised or   *)
(* lost, two workers never both see held.                                   *)
SoleLeader == ReliableSoFar => AtMostOneLeads

(* The same when commands may raise: a worker whose extend() raised must    *)
(* not go on seeing held while another one is elected.                      *)
SoleLeaderDespiteErrors == ~late /\ losses = 0 /\ Renew < Ttl => AtMostOneLeads

(* A worker that lost the key without knowing stops leading, or one of its  *)
(* commands raised.                                                         *)
StaleLeaderLearns ==
    \A w \in Workers : Leads(w) /\ owner # w ~> ~Leads(w) \/ owner = w \/ errors # 0

=============================================================================
