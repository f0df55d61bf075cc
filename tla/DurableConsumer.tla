--------------------------- MODULE DurableConsumer ---------------------------
(***************************************************************************)
(* messaging/consumer.py: replicas of a service that run the loop of       *)
(* DurableConsumer.run() on one durable JetStream consumer, each with its  *)
(* own NATSClient.                                                         *)
(*                                                                         *)
(* JetStream is external: a message is ready, pending (delivered and not   *)
(* settled), delayed by a nak, or settled; a pending one comes back when   *)
(* ack_wait is over, and one delivered max_deliver times is dropped        *)
(* instead.  NATSClient.tla studies the client; here a replica's client is *)
(* the state of its connection and whether a context is cached.            *)
(***************************************************************************)
EXTENDS Integers, Sequences, FiniteSets

CONSTANTS
    Replicas,        \* processes that run the loop
    Messages,        \* sequence numbers of the messages in the stream
    Poison,          \* the messages whose handler raises PoisonMessage
    Batch,           \* batch
    MaxDeliver,      \* max_deliver
    Stoppable,       \* the replicas whose stop() is called
    MaxFailures,     \* bound: handler runs that raise
    MaxFaults        \* bound: faults of connections, processes and timing

ASSUME ConsumerAssumption ==
    /\ Messages \subseteq Nat /\ Poison \subseteq Messages
    /\ Stoppable \subseteq Replicas
    /\ Batch \in Nat \ {0} /\ MaxDeliver \in Nat \ {0}
    /\ MaxFailures \in Nat /\ MaxFaults \in Nat

VARIABLES
    state,      \* message -> its state in JetStream
    delivered,  \* message -> num_delivered
    pc,         \* replica -> where its run() is
    batch,      \* replica -> the messages still to handle
    verdict,    \* replica -> how the message in hand is to be settled
    stopping,   \* replica -> _stopping
    conn,       \* replica -> its connection: "none", "open", "reconnecting", "closed"
    context,    \* replica -> _jetstream is cached
    outcomes,   \* message -> how handler runs on it ended, in order (history)
    spent       \* failures and faults so far, by kind

messages == <<state, delivered>>
loop == <<pc, batch, verdict, stopping>>
nats == <<conn, context>>
vars == <<messages, loop, nats, outcomes, spent>>

Settled == {"acked", "termed", "dropped"}

Init ==
    /\ state = [m \in Messages |-> "ready"]
    /\ delivered = [m \in Messages |-> 0]
    /\ pc = [r \in Replicas |-> "bind"]
    /\ batch = [r \in Replicas |-> <<>>]
    /\ verdict = [r \in Replicas |-> "ack"]
    /\ stopping = [r \in Replicas |-> FALSE]
    /\ conn = [r \in Replicas |-> "none"]
    /\ context = [r \in Replicas |-> FALSE]
    /\ outcomes = [m \in Messages |-> <<>>]
    /\ spent = [failures |-> 0, crashes |-> 0, outages |-> 0, losses |-> 0, giveups |-> 0,
                early |-> 0]

(* One more fault of a kind, if the bound allows it. *)
Fault(kind) ==
    /\ spent.crashes + spent.outages + spent.losses + spent.giveups + spent.early < MaxFaults
    /\ spent' = [spent EXCEPT ![kind] = @ + 1]

-----------------------------------------------------------------------------
(* run(): where the loop goes, before and after it could sleep. *)

(* Mutant: an unavailable server ends the loop. *)
RetryNever(r) == pc' = [pc EXCEPT ![r] = "returned"]

Retry(r) == pc' = [pc EXCEPT ![r] = IF stopping[r] THEN "returned" ELSE "sleep"]

(* ensure_consumer(), jetstream() and pull_subscribe_bind(): three requests *)
(* on the cached context, or on one of a connection that is dialled first.  *)
Bind(r) ==
    /\ pc[r] = "bind"
    /\ \/ conn[r] = "open"
       \/ ~context[r] /\ conn[r] \in {"none", "closed"}
    /\ conn' = [conn EXCEPT ![r] = "open"]
    /\ context' = [context EXCEPT ![r] = TRUE]
    /\ pc' = [pc EXCEPT ![r] = IF stopping[r] THEN "returned" ELSE "fetch"]
    /\ UNCHANGED <<messages, batch, verdict, stopping, outcomes, spent>>

(* A request times out while the connection reconnects, or raises at once   *)
(* on a context whose connection is closed.                                 *)
BindRaises(r) ==
    /\ pc[r] = "bind"
    /\ conn[r] = "reconnecting" \/ (context[r] /\ conn[r] = "closed")
    /\ Retry(r)
    /\ UNCHANGED <<messages, batch, verdict, stopping, nats, outcomes, spent>>

(* No server answers the dial. *)
DialRaises(r) ==
    /\ pc[r] = "bind" /\ ~context[r] /\ conn[r] \in {"none", "closed"}
    /\ Fault("outages")
    /\ Retry(r)
    /\ UNCHANGED <<messages, batch, verdict, stopping, nats, outcomes>>

(* Mutant: stop() is looked at only at the top of the outer loop. *)
FetchTimesOutUnlooked(r) ==
    /\ pc[r] = "fetch" /\ stopping[r]
    /\ UNCHANGED vars

(* fetch() times out: the inner loop goes round, or both end. *)
FetchTimesOut(r) ==
    /\ pc[r] = "fetch" /\ stopping[r] /\ conn[r] # "closed"
    /\ pc' = [pc EXCEPT ![r] = "returned"]
    /\ UNCHANGED <<messages, batch, verdict, stopping, nats, outcomes, spent>>

FetchRaises(r) ==
    /\ pc[r] = "fetch" /\ conn[r] = "closed"
    /\ Retry(r)
    /\ UNCHANGED <<messages, batch, verdict, stopping, nats, outcomes, spent>>

(* JetStream's half of fetch(): it delivers ready messages, in their order. *)
Batches == {b \in UNION {[1 .. n -> Messages] : n \in 1 .. Batch} : \A i, j \in DOMAIN b : i < j => b[i] < b[j]}
InBatch(b) == {b[i] : i \in DOMAIN b}
Deliver(b) ==
    /\ \A m \in InBatch(b) : state[m] = "ready"
    /\ state' = [m \in Messages |-> IF m \in InBatch(b) THEN "pending" ELSE state[m]]
    /\ delivered' = [m \in Messages |-> delivered[m] + (IF m \in InBatch(b) THEN 1 ELSE 0)]

(* fetch() returns a batch; it is handled even if stop() came meanwhile. *)
Fetch(r, b) ==
    /\ pc[r] = "fetch" /\ conn[r] = "open"
    /\ Deliver(b)
    /\ batch' = [batch EXCEPT ![r] = b]
    /\ pc' = [pc EXCEPT ![r] = "handle"]
    /\ UNCHANGED <<verdict, stopping, nats, outcomes, spent>>

(* The batch was sent, and the connection broke under it. *)
FetchIsLost(r, b) ==
    /\ pc[r] = "fetch" /\ conn[r] = "open"
    /\ Fault("losses")
    /\ Deliver(b)
    /\ conn' = [conn EXCEPT ![r] = "reconnecting"]
    /\ UNCHANGED <<loop, context, outcomes>>

-----------------------------------------------------------------------------
(* handle(): the handler's outcome chooses the settlement. *)

(* Mutant: the message is acknowledged whatever the handler did. *)
VerdictAcksErrors == [ok |-> "ack", poison |-> "term", error |-> "ack"]

Verdict == [ok |-> "ack", poison |-> "term", error |-> "nak"]

Handle(r, outcome) ==
    LET m == Head(batch[r]) IN
    /\ pc[r] = "handle"
    /\ (m \in Poison) = (outcome = "poison")
    /\ outcome = "error" => spent.failures < MaxFailures
    /\ outcomes' = [outcomes EXCEPT ![m] = Append(@, outcome)]
    /\ verdict' = [verdict EXCEPT ![r] = Verdict[outcome]]
    /\ pc' = [pc EXCEPT ![r] = "settle"]
    /\ spent' = IF outcome = "error" THEN [spent EXCEPT !.failures = @ + 1] ELSE spent
    /\ UNCHANGED <<messages, batch, stopping, nats>>

(* JetStream's half of ack(), nak() and term(): a settled message stays     *)
(* settled, and only a pending one is delayed, by any of the backoff.       *)
Settlement(m, how) ==
    /\ state' = [state EXCEPT ![m] =
                   CASE @ \notin Settled /\ how = "ack" -> "acked"
                     [] @ \notin Settled /\ how = "term" -> "termed"
                     [] @ = "pending" /\ how = "nak" -> "delayed"
                     [] OTHER -> @]
    /\ UNCHANGED delivered

(* The next message of the batch, or the next round of the inner loop. *)
NextMessage(r) ==
    LET rest == Tail(batch[r]) IN
    /\ batch' = [batch EXCEPT ![r] = rest]
    /\ pc' = [pc EXCEPT ![r] = IF rest # <<>> THEN "handle"
                               ELSE IF stopping[r] THEN "returned" ELSE "fetch"]

Settle(r) ==
    /\ pc[r] = "settle" /\ conn[r] \in {"open", "reconnecting"}
    /\ Settlement(Head(batch[r]), verdict[r])
    /\ NextMessage(r)
    /\ UNCHANGED <<verdict, stopping, nats, outcomes, spent>>

(* The settlement is written to a connection that breaks before it arrives. *)
SettleIsLost(r) ==
    /\ pc[r] = "settle" /\ conn[r] = "reconnecting"
    /\ Fault("losses")
    /\ NextMessage(r)
    /\ UNCHANGED <<messages, verdict, stopping, nats, outcomes>>

(* It raises on a closed connection: the rest of the batch is abandoned. *)
SettleRaises(r) ==
    /\ pc[r] = "settle" /\ conn[r] = "closed"
    /\ batch' = [batch EXCEPT ![r] = <<>>]
    /\ Retry(r)
    /\ UNCHANGED <<messages, verdict, stopping, nats, outcomes, spent>>

(* reconnect_delay is over; the outer loop looks at _stopping. *)
Wake(r) ==
    /\ pc[r] = "sleep"
    /\ pc' = [pc EXCEPT ![r] = IF stopping[r] THEN "returned" ELSE "bind"]
    /\ UNCHANGED <<messages, batch, verdict, stopping, nats, outcomes, spent>>

(* stop(), while run() is suspended somewhere. *)
Stop(r) ==
    /\ r \in Stoppable /\ ~stopping[r]
    /\ stopping' = [stopping EXCEPT ![r] = TRUE]
    /\ UNCHANGED <<messages, pc, batch, verdict, nats, outcomes, spent>>

-----------------------------------------------------------------------------
(* JetStream, connections and processes on their own. *)

Held(m) == \E r \in Replicas : \E i \in 1 .. Len(batch[r]) : batch[r][i] = m

(* A message is due again, or has been delivered max_deliver times and is   *)
(* dropped.                                                                 *)
Requeue(m) ==
    /\ state' = [state EXCEPT ![m] = IF delivered[m] < MaxDeliver THEN "ready" ELSE "dropped"]
    /\ UNCHANGED <<delivered, loop, nats, outcomes>>

(* The nak's delay is over, or ack_wait after the delivery went nowhere. *)
Due(m) ==
    /\ state[m] = "delayed" \/ (state[m] = "pending" /\ ~Held(m))
    /\ Requeue(m)
    /\ UNCHANGED spent

(* ack_wait is over while a replica still has the message in its batch. *)
DueTooEarly(m) ==
    /\ state[m] = "pending" /\ Held(m)
    /\ Fault("early")
    /\ Requeue(m)

Disconnect(r) ==
    /\ conn[r] = "open" /\ Fault("outages")
    /\ conn' = [conn EXCEPT ![r] = "reconnecting"]
    /\ UNCHANGED <<messages, loop, context, outcomes>>

Reconnect(r) ==
    /\ conn[r] = "reconnecting"
    /\ conn' = [conn EXCEPT ![r] = "open"]
    /\ UNCHANGED <<messages, loop, context, outcomes, spent>>

(* max_reconnect_attempts are used up. *)
GiveUp(r) ==
    /\ conn[r] = "reconnecting" /\ Fault("giveups")
    /\ conn' = [conn EXCEPT ![r] = "closed"]
    /\ UNCHANGED <<messages, loop, context, outcomes>>

(* The process dies and is started again. *)
Crash(r) ==
    /\ pc[r] # "returned" /\ Fault("crashes")
    /\ pc' = [pc EXCEPT ![r] = "bind"]
    /\ batch' = [batch EXCEPT ![r] = <<>>]
    /\ stopping' = [stopping EXCEPT ![r] = FALSE]
    /\ conn' = [conn EXCEPT ![r] = "none"]
    /\ context' = [context EXCEPT ![r] = FALSE]
    /\ UNCHANGED <<messages, verdict, outcomes>>

Fetches(r) == \E b \in Batches : Fetch(r, b)
Handles(r) == \E outcome \in DOMAIN Verdict : Handle(r, outcome)

(* What run() does next, whatever it awaits. *)
Step(r) ==
    \/ Bind(r) \/ BindRaises(r)
    \/ Fetches(r) \/ FetchTimesOut(r) \/ FetchRaises(r)
    \/ Handles(r) \/ Settle(r) \/ SettleRaises(r) \/ Wake(r)

Next ==
    \/ \E r \in Replicas :
          \/ Step(r) \/ Stop(r) \/ DialRaises(r) \/ SettleIsLost(r)
          \/ \E b \in Batches : FetchIsLost(r, b)
          \/ Disconnect(r) \/ Reconnect(r) \/ GiveUp(r) \/ Crash(r)
    \/ \E m \in Messages : Due(m) \/ DueTooEarly(m)

Spec == Init /\ [][Next]_vars

(* Every await of run() ends: requests and fetches have timeouts and        *)
(* handlers return.  Delays and ack_wait pass, a connection that keeps      *)
(* reconnecting gets through or gives up.                                   *)
Fairness ==
    /\ \A r \in Replicas : WF_vars(Step(r)) /\ WF_vars(Reconnect(r))
    /\ \A m \in Messages : WF_vars(Due(m))

FairSpec == Spec /\ Fairness

-----------------------------------------------------------------------------

(* No delivery was lost with a connection or a process, and ack_wait was    *)
(* long enough.                                                             *)
NothingLost == spent.crashes = 0 /\ spent.losses = 0 /\ spent.giveups = 0 /\ spent.early = 0

HandledOnce ==
    \A m \in Messages :
        /\ delivered[m] = Len(outcomes[m])
             + Cardinality({r \in Replicas : \E i \in 1 .. Len(batch[r]) :
                   /\ batch[r][i] = m
                   /\ (i = 1 => pc[r] = "handle")})
        /\ \A i \in 1 .. Len(outcomes[m]) - 1 : outcomes[m][i] = "error"

(* A message leaves the stream as its handler runs said: acknowledged only  *)
(* after a run of the handler returned, terminated only after one raised    *)
(* PoisonMessage.  Crashes, redeliveries to other replicas and late or lost *)
(* settlements do not change that.  And as long as nothing is lost every    *)
(* delivery is handled exactly once, outages and stopped replicas included: *)
(* what is delivered was handled or is in a batch, and a handler that       *)
(* returned or raised PoisonMessage is not run on that message again, by    *)
(* any replica.                                                             *)
SettledAsHandled ==
    /\ \A m \in Messages :
          /\ state[m] = "acked" => \E i \in 1 .. Len(outcomes[m]) : outcomes[m][i] = "ok"
          /\ state[m] = "termed" => \E i \in 1 .. Len(outcomes[m]) : outcomes[m][i] = "poison"
    /\ NothingLost => HandledOnce

(* stop() ends run(), in a fetch, in the middle of a batch, asleep or       *)
(* without a connection; a crash ends it too.                               *)
StopEndsRun ==
    \A r \in Replicas : stopping[r] ~> (pc[r] = "returned" \/ ~stopping[r])

(* Every message is acknowledged, terminated or delivered max_deliver       *)
(* times: one consumer task survives a NATS restart.                        *)
EveryMessageIsSettled == \A m \in Messages : <>(state[m] \in Settled)

(* The same as long as no connection gives up reconnecting. *)
SettledUnlessClosed == [](spent.giveups = 0) => EveryMessageIsSettled
=============================================================================
