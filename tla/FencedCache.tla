---------------------------- MODULE FencedCache ----------------------------
(***************************************************************************)
(* What a cache fenced by invalidations promises: at any time it holds for *)
(* a subject either nothing or a version of the owner's data that is no    *)
(* older than the owner's last invalidation, and it never replaces a       *)
(* version by an older one.  How fills race with invalidations is not its  *)
(* concern.                                                                *)
(***************************************************************************)
EXTENDS Integers

CONSTANTS Users, Tenants

VARIABLES
    stored,       \* subject -> version held, None when absent
    truth,        \* user -> current version
    invalidated   \* user -> version at the last invalidation

None == -1
Subjects == Users \X Tenants
cacheVars == <<stored, truth, invalidated>>

CacheInit ==
    /\ stored = [k \in Subjects |-> None]
    /\ truth = [u \in Users |-> 0]
    /\ invalidated = [u \in Users |-> 0]

Change(users) ==
    /\ truth' = [u \in Users |-> IF u \in users THEN truth[u] + 1 ELSE truth[u]]
    /\ UNCHANGED <<stored, invalidated>>

Invalidate(users) ==
    /\ stored' = [k \in Subjects |-> IF k[1] \in users THEN None ELSE stored[k]]
    /\ invalidated' = [u \in Users |-> IF u \in users THEN truth[u] ELSE invalidated[u]]
    /\ UNCHANGED truth

(* A fill may make room by dropping one other subject. *)
Fill(k, victim) ==
    /\ \E v \in invalidated[k[1]] .. truth[k[1]] :
          /\ v >= stored[k]
          /\ stored' = [stored EXCEPT ![victim] = None, ![k] = v]
    /\ UNCHANGED <<truth, invalidated>>

CacheNext ==
    \/ \E users \in SUBSET Users : Change(users) \/ Invalidate(users)
    \/ \E k, victim \in Subjects : Fill(k, victim)

CacheSpec == CacheInit /\ [][CacheNext]_cacheVars
=============================================================================
