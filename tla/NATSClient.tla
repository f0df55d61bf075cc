----------------------------- MODULE NATSClient -----------------------------
(***************************************************************************)
(* messaging/nats.py: NATSClient, one wrapper shared by the coroutines of  *)
(* a process.  connect() and jetstream() hand out the one connection and   *)
(* the one JetStream context; close() drains it.                           *)
(*                                                                         *)
(* The nats-py connection is external: it drops to reconnecting, comes     *)
(* back, or gives up after max_reconnect_attempts and is closed for good.  *)
(* Connections are numbered in the order they are opened, 0 is None.       *)
(***************************************************************************)
EXTENDS Naturals, FiniteSets

CONSTANTS
    Callers,         \* coroutines that share the client
    Closers,         \* those of them that also call close()
    MaxConnections,  \* bound: connections ever opened
    MaxDialFailures      \* bound: connect() calls that raise

ASSUME NATSClientAssumption ==
    /\ Closers \subseteq Callers /\ "free" \notin Callers
    /\ MaxConnections \in Nat /\ MaxDialFailures \in Nat

Connections == 1 .. MaxConnections
Live == {"open", "reconnecting"}

VARIABLES
    status,      \* connection -> what nats-py makes of it
    connection,  \* _connection
    jetstream,   \* _jetstream: the connection its context is bound to
    lock,        \* the coroutine inside `async with self._lock', or "free"
    doing,          \* coroutine -> "idle", "lock", "dial", "drain"
    call,        \* coroutine -> "connect" or "jetstream", the call it makes
    draining,    \* coroutine -> the connection whose drain() it awaits
    failures,    \* connect() calls that raised so far
    surprised    \* history: a drain() raised, or a close() ended on another connection

natsClient == <<connection, jetstream, lock>>
natsVars == <<status, natsClient, doing, call, draining, failures, surprised>>

NatsInit ==
    /\ status = [k \in Connections |-> "unopened"]
    /\ connection = 0
    /\ jetstream = 0
    /\ lock = "free"
    /\ doing = [c \in Callers |-> "idle"]
    /\ call = [c \in Callers |-> "connect"]
    /\ draining = [c \in Callers |-> 0]
    /\ failures = 0
    /\ surprised = FALSE

-----------------------------------------------------------------------------
(* Mutant: only a connected connection counts, a reconnecting one does not. *)
UsableWhenConnected == connection # 0 /\ status[connection] = "open"

(* _usable(): a reconnecting or draining connection is still the connection. *)
Usable == connection # 0 /\ status[connection] # "closed"

(* What jetstream() does with the connection connect() returned. *)
Return(c, op) ==
    /\ doing' = [doing EXCEPT ![c] = "idle"]
    /\ jetstream' = IF op = "jetstream" THEN connection' ELSE jetstream

(* connect(), or jetstream() with no cached context, up to its first await. *)
(* A jetstream() that finds a context returns it and changes nothing.       *)
Call(c, op) ==
    /\ doing[c] = "idle"
    /\ op = "jetstream" => jetstream = 0
    /\ call' = [call EXCEPT ![c] = op]
    /\ \/ /\ Usable
          /\ UNCHANGED <<connection, lock>>
          /\ Return(c, op)
       \/ /\ ~Usable /\ lock = "free"
          /\ lock' = c
          /\ doing' = [doing EXCEPT ![c] = "dial"]
          /\ UNCHANGED <<connection, jetstream>>
       \/ /\ ~Usable /\ lock # "free"
          /\ doing' = [doing EXCEPT ![c] = "lock"]
          /\ UNCHANGED natsClient
    /\ UNCHANGED <<status, draining, failures, surprised>>

(* The lock is granted; the connection is looked at a second time. *)
LockAcquired(c) ==
    /\ doing[c] = "lock" /\ lock = "free"
    /\ \/ /\ Usable
          /\ UNCHANGED <<connection, lock>>
          /\ Return(c, call[c])
       \/ /\ ~Usable
          /\ lock' = c
          /\ doing' = [doing EXCEPT ![c] = "dial"]
          /\ UNCHANGED <<connection, jetstream>>
    /\ UNCHANGED <<status, call, draining, failures, surprised>>

Unopened == {k \in Connections : status[k] = "unopened"}

(* nats.connect() answers: the connection replaces the closed one and the   *)
(* context of the old one is dropped.                                       *)
Connected(c) ==
    /\ doing[c] = "dial"
    /\ \E k \in Unopened :
       /\ \A j \in Unopened : k <= j
       /\ status' = [status EXCEPT ![k] = "open"]
       /\ connection' = k
       /\ jetstream' = IF call[c] = "jetstream" THEN k ELSE 0
    /\ lock' = "free"
    /\ doing' = [doing EXCEPT ![c] = "idle"]
    /\ UNCHANGED <<call, draining, failures, surprised>>

(* nats.connect() raises: the lock is released, nothing else changed.       *)
ConnectRaises(c) ==
    /\ doing[c] = "dial"
    /\ failures < MaxDialFailures \/ Unopened = {}
    /\ failures' = IF failures < MaxDialFailures THEN failures + 1 ELSE failures
    /\ lock' = "free"
    /\ doing' = [doing EXCEPT ![c] = "idle"]
    /\ UNCHANGED <<status, connection, jetstream, call, draining, surprised>>

-----------------------------------------------------------------------------
(* close()'s finally block. *)
Forget(c) ==
    /\ connection' = 0
    /\ jetstream' = 0
    /\ doing' = [doing EXCEPT ![c] = "idle"]
    /\ draining' = [draining EXCEPT ![c] = 0]
    /\ UNCHANGED <<lock, call, failures>>

(* close() with a connection: drain() of an open connection takes a while,  *)
(* of one that drains already it returns at once, of any other it raises.   *)
Close(c) ==
    /\ c \in Closers
    /\ doing[c] = "idle" /\ connection # 0
    /\ \/ /\ status[connection] = "open"
          /\ status' = [status EXCEPT ![connection] = "draining"]
          /\ doing' = [doing EXCEPT ![c] = "drain"]
          /\ draining' = [draining EXCEPT ![c] = connection]
          /\ UNCHANGED <<natsClient, call, failures, surprised>>
       \/ /\ status[connection] # "open"
          /\ surprised' = (surprised \/ status[connection] = "reconnecting")
          /\ Forget(c)
          /\ UNCHANGED status

(* The drain ends; nats-py closes the connection as its last step. *)
Drained(c) ==
    /\ doing[c] = "drain"
    /\ surprised' = (surprised \/ connection # draining[c])
    /\ status' = [status EXCEPT ![draining[c]] = "closed"]
    /\ Forget(c)

(* wait_for gives up and close() closes what _connection refers to by now;  *)
(* after another close() that is None and the call raises.                  *)
DrainTimesOut(c) ==
    /\ doing[c] = "drain"
    /\ surprised' = (surprised \/ connection # draining[c])
    /\ status' = IF connection = 0 THEN status
                 ELSE [status EXCEPT ![connection] = "closed"]
    /\ Forget(c)

-----------------------------------------------------------------------------
(* nats-py, on its own. *)

ConnectionDrops(k) ==
    /\ status[k] = "open"
    /\ status' = [status EXCEPT ![k] = "reconnecting"]
    /\ UNCHANGED <<natsClient, doing, call, draining, failures, surprised>>

ConnectionReturns(k) ==
    /\ status[k] = "reconnecting"
    /\ status' = [status EXCEPT ![k] = "open"]
    /\ UNCHANGED <<natsClient, doing, call, draining, failures, surprised>>

(* Reconnecting gave up, or a draining connection broke. *)
ConnectionGivesUp(k) ==
    /\ status[k] \in {"reconnecting", "draining"}
    /\ status' = [status EXCEPT ![k] = "closed"]
    /\ UNCHANGED <<natsClient, doing, call, draining, failures, surprised>>

NatsNext ==
    \/ \E c \in Callers, op \in {"connect", "jetstream"} : Call(c, op)
    \/ \E c \in Callers : \/ LockAcquired(c) \/ Connected(c) \/ ConnectRaises(c)
                          \/ Close(c) \/ Drained(c) \/ DrainTimesOut(c)
    \/ \E k \in Connections : ConnectionDrops(k) \/ ConnectionReturns(k) \/ ConnectionGivesUp(k)

NatsSpec == NatsInit /\ [][NatsNext]_natsVars

-----------------------------------------------------------------------------
(* The client is one connection: however connect(), jetstream() and        *)
(* close() overlap, every live connection is the one the client holds (the *)
(* comment of connect() names the one left running in the background), and *)
(* the cached JetStream context is that connection's.  The exceptions to   *)
(* the first are a drain() that raises while the connection reconnects and *)
(* a close() that finds another connection than it began to drain.         *)
OneConnection ==
    /\ ~surprised => \A k \in Connections : status[k] \in Live => k = connection
    /\ jetstream # 0 => jetstream = connection
=============================================================================
