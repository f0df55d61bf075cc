--------------------------- MODULE AsyncSingleton ---------------------------
(* AsyncSingleton (state/async_singleton.py): get() makes the resource     *)
(* once, reset() drops it and awaits its closer, both under one lock.      *)
EXTENDS Integers

CONSTANTS SingletonTasks, MaxResources, NoOwner
ASSUME SingletonAssumption == MaxResources \in Nat /\ NoOwner \notin SingletonTasks

VARIABLES value,       \* self._value: the number of a resource, 0 is _UNSET
          resources,   \* resource -> "unmade", "open", "closed", "dropped"
          closing,     \* the resource that reset() awaits the closer of, or 0
          owner,       \* the task that holds self._lock
          spc          \* task -> "idle", "wait get", "wait reset", "make", "close"

singletonVars == <<value, resources, closing, owner, spc>>
Resources == 1..MaxResources

SingletonInit ==
    /\ value = 0 /\ closing = 0
    /\ resources = [r \in Resources |-> "unmade"]
    /\ owner = NoOwner
    /\ spc = [t \in SingletonTasks |-> "idle"]

\* get() that finds no value, and reset(), queue for the lock; a get() that
\* finds one returns it at once.
AskGet(t) == /\ spc[t] = "idle" /\ value = 0
             /\ spc' = [spc EXCEPT ![t] = "wait get"]
             /\ UNCHANGED <<value, resources, closing, owner>>
AskReset(t) == /\ spc[t] = "idle"
               /\ spc' = [spc EXCEPT ![t] = "wait reset"]
               /\ UNCHANGED <<value, resources, closing, owner>>

\* get() holds the lock: returns what it finds now or awaits the factory.
EnterGetUnchecked(t) ==
    /\ spc[t] = "wait get" /\ owner = NoOwner
    /\ spc' = [spc EXCEPT ![t] = "make"] /\ owner' = t
    /\ UNCHANGED <<value, resources, closing>>
EnterGet(t) ==
    /\ spc[t] = "wait get" /\ owner = NoOwner
    /\ \/ value # 0 /\ spc' = [spc EXCEPT ![t] = "idle"] /\ owner' = owner
       \/ value = 0 /\ spc' = [spc EXCEPT ![t] = "make"] /\ owner' = t
    /\ UNCHANGED <<value, resources, closing>>

Unlock(t) == spc' = [spc EXCEPT ![t] = "idle"] /\ owner' = NoOwner

Made(t) ==
    /\ spc[t] = "make"
    /\ \E r \in Resources : /\ resources[r] = "unmade"
                            /\ \A s \in 1..(r - 1) : resources[s] # "unmade"
                            /\ resources' = [resources EXCEPT ![r] = "open"]
                            /\ value' = r
    /\ Unlock(t)
    /\ UNCHANGED closing

\* The factory raises: the lock is released, the value stays unset.
MakeFails(t) ==
    /\ spc[t] = "make"
    /\ Unlock(t)
    /\ UNCHANGED <<value, resources, closing>>

\* reset() holds the lock; the value is dropped before the closer runs.
\* Without a closer the resource is the business of those who still use it.
EnterReset(t) ==
    /\ spc[t] = "wait reset" /\ owner = NoOwner
    /\ value' = 0
    /\ \/ /\ value = 0
          /\ spc' = [spc EXCEPT ![t] = "idle"] /\ UNCHANGED <<owner, closing, resources>>
       \/ /\ value # 0
          /\ resources' = [resources EXCEPT ![value] = "dropped"]
          /\ spc' = [spc EXCEPT ![t] = "idle"] /\ UNCHANGED <<owner, closing>>
       \/ /\ value # 0
          /\ spc' = [spc EXCEPT ![t] = "close"] /\ owner' = t /\ closing' = value
          /\ UNCHANGED resources

\* The closer returns, or raises and leaves the resource to its caller.
ResourceClosed(t) ==
    /\ spc[t] = "close"
    /\ \E end \in {"closed", "dropped"} : resources' = [resources EXCEPT ![closing] = end]
    /\ closing' = 0
    /\ Unlock(t)
    /\ UNCHANGED value

SingletonStep(t) == EnterGet(t) \/ Made(t) \/ MakeFails(t) \/ EnterReset(t) \/ ResourceClosed(t)
SingletonNext == \E t \in SingletonTasks : AskGet(t) \/ AskReset(t) \/ SingletonStep(t)
SingletonSpec == SingletonInit /\ [][SingletonNext]_singletonVars

(* get() and reset() in any order leave no resource behind: an open one is *)
(* the value, or the one reset() is closing, and there is never a second.  *)
OneResource ==
    \A r \in Resources : resources[r] = "open" => r \in {value, closing} /\ 0 \in {value, closing}
=============================================================================
