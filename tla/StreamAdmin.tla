----------------------------- MODULE StreamAdmin -----------------------------
(***************************************************************************)
(* What services do to the JetStream stream they share, through NATSClient *)
(* (messaging/nats.py): ensure_stream(), ensure_consumer(),                *)
(* assert_consumer_compatible() and publish_stream().  Each is a sequence  *)
(* of requests to the server; the requests of several services interleave, *)
(* and an operator may delete the stream.  JetStream is external: it       *)
(* answers each request, but the answer to a publish may be lost.          *)
(***************************************************************************)
EXTENDS Naturals

CONSTANTS
    Members,       \* the services, one client each
    Wants,         \* service -> the subjects it binds to the stream
    Durable,       \* service -> the [subject, group] it has for the durable
    MaxCalls,      \* bound: calls of all services
    MaxDeletes,    \* bound: deletions of the stream
    MaxLostAcks    \* bound: answers to a publish that are lost

VARIABLES
    exists,      \* the stream exists
    bound,       \* the subjects it captures
    consumers,   \* its durable consumer, as a set of at most one
    stored,      \* service -> copies of its message in the stream
    asking,       \* service -> [pc, read]: its call, and the subjects it has read
    used,       \* [calls, deletes, lost]
    ensured,     \* history: services whose ensure_stream() returned for this stream
    published,   \* history: services whose publish_stream() returned for this stream
    raced        \* history: an update overwrote one it had not read, or was lost
                 \* with the stream before the second stream_info()

adminVars == <<exists, bound, consumers, stored, asking, used, ensured, published, raced>>
jsServer == <<exists, bound, consumers, stored>>

AdminInit ==
    /\ exists = FALSE /\ bound = {} /\ consumers = {}
    /\ stored = [s \in Members |-> 0]
    /\ asking = [s \in Members |-> [pc |-> "idle", read |-> {}]]
    /\ used = [calls |-> 0, deletes |-> 0, lost |-> 0]
    /\ ensured = {} /\ published = {} /\ raced = FALSE

\* A call begins, awaits its next request, or ends: by returning or raising.
Begin(s, pc) ==
    /\ asking[s].pc = "idle" /\ used.calls < MaxCalls
    /\ asking' = [asking EXCEPT ![s].pc = pc]
    /\ used' = [used EXCEPT !.calls = @ + 1]
    /\ UNCHANGED <<jsServer, ensured, published, raced>>
Await(s, pc, read) == asking' = [asking EXCEPT ![s] = [pc |-> pc, read |-> read]]
End(s) == Await(s, "idle", {})

-----------------------------------------------------------------------------
(* ensure_stream() *)

\* stream_info(): the first time, and again after an update.
StreamInfo(s) ==
    /\ asking[s].pc \in {"info", "info again"}
    /\ CASE ~exists -> Await(s, "add", {}) /\ UNCHANGED ensured
         [] exists /\ asking[s].pc = "info" /\ ~(Wants[s] \subseteq bound) -> Await(s, "update", bound) /\ UNCHANGED ensured
         [] OTHER -> End(s) /\ ensured' = ensured \cup {s}
    /\ UNCHANGED <<jsServer, used, published, raced>>

\* update_stream(): the subjects read before, and the service's own.
SubjectsReplaced(s) == Wants[s]
SubjectsOf(s) == asking[s].read \cup Wants[s]
UpdateStream(s) ==
    /\ asking[s].pc = "update"
    /\ \/ /\ ~exists
          /\ Await(s, "add", {}) /\ UNCHANGED <<bound, raced>>
       \/ /\ exists
          /\ bound' = SubjectsOf(s)
          /\ raced' = (raced \/ ~(bound \subseteq asking[s].read))
          /\ Await(s, "info again", {})
    /\ UNCHANGED <<exists, consumers, stored, used, ensured, published>>

\* add_stream(): a stream of that name with other subjects is an error.
AddStream(s) ==
    /\ asking[s].pc = "add"
    /\ exists' = TRUE
    /\ bound' = IF exists THEN bound ELSE Wants[s]
    /\ ensured' = IF ~exists \/ bound = Wants[s] THEN ensured \cup {s} ELSE ensured
    /\ End(s)
    /\ UNCHANGED <<consumers, stored, used, published, raced>>

-----------------------------------------------------------------------------
(* ensure_consumer() and assert_consumer_compatible() *)

\* consumer_info(): a consumer that exists is returned as it is.
ConsumerInfo(s) ==
    /\ asking[s].pc = "consumer"
    /\ IF exists /\ consumers # {} THEN End(s) ELSE Await(s, "add consumer", {})
    /\ UNCHANGED <<jsServer, used, ensured, published, raced>>

\* add_consumer(): raises without a stream, or over another consumer.
AddConsumer(s) ==
    /\ asking[s].pc = "add consumer"
    /\ consumers' = IF exists /\ consumers = {} THEN {Durable[s]} ELSE consumers
    /\ End(s)
    /\ UNCHANGED <<exists, bound, stored, used, ensured, published, raced>>

\* assert_consumer_compatible(): no filter on either side matches any other,
\* a delivery group only itself.
Compatible(existing, expected) ==
    /\ "" \in {existing.subject, expected.subject} \/ existing.subject = expected.subject
    /\ existing.group = expected.group
AssertCompatible(s) ==
    /\ asking[s].pc = "assert"
    /\ IF \A c \in consumers : Compatible(c, Durable[s]) THEN Await(s, "asserted", {}) ELSE End(s)
    /\ UNCHANGED <<jsServer, used, ensured, published, raced>>

-----------------------------------------------------------------------------
(* publish_stream(), called again by a service whose answer was lost, with  *)
(* the msg_id of the first try: the stream stores an id once.               *)

Store(s) == IF stored[s] = 0 THEN 1 ELSE stored[s]
PublishStream(s) ==
    /\ asking[s].pc = "publish"
    /\ IF exists /\ Wants[s] \subseteq bound
       THEN /\ stored' = [stored EXCEPT ![s] = Store(s)]
            /\ \/ End(s) /\ published' = published \cup {s} /\ UNCHANGED used
               \/ /\ used.lost < MaxLostAcks /\ used' = [used EXCEPT !.lost = @ + 1]
                  /\ UNCHANGED <<asking, published>>
       ELSE End(s) /\ UNCHANGED <<stored, published, used>>
    /\ UNCHANGED <<exists, bound, consumers, ensured, raced>>

-----------------------------------------------------------------------------
DeleteStream ==
    /\ exists /\ used.deletes < MaxDeletes
    /\ used' = [used EXCEPT !.deletes = @ + 1]
    /\ exists' = FALSE /\ bound' = {} /\ consumers' = {}
    /\ stored' = [s \in Members |-> 0]
    /\ ensured' = {} /\ published' = {}
    /\ raced' = \E s \in Members : asking[s].pc = "info again"
    /\ UNCHANGED asking

AdminNext ==
    \/ DeleteStream
    \/ \E s \in Members :
        \/ \E pc \in {"info", "consumer", "assert", "publish"} : Begin(s, pc)
        \/ StreamInfo(s) \/ UpdateStream(s) \/ AddStream(s)
        \/ ConsumerInfo(s) \/ AddConsumer(s) \/ AssertCompatible(s) \/ PublishStream(s)
AdminSpec == AdminInit /\ [][AdminNext]_adminVars

-----------------------------------------------------------------------------
SubjectsStay == ~raced => \A s \in ensured : exists /\ Wants[s] \subseteq bound
PublishedOnce == \A s \in Members : stored[s] <= 1 /\ (s \in published => stored[s] = 1)

(* A service whose ensure_stream() returned can publish, and what it       *)
(* published is kept once.  The stream binds its subjects as long as it    *)
(* exists, whatever others ensure, and whoever met a stream that was just  *)
(* made or deleted; the exceptions are an update based on subjects read    *)
(* before another service's update, which takes that service's subjects    *)
(* away, and a stream that is deleted between an update and the            *)
(* stream_info() after it.  A message whose publish_stream() returned is   *)
(* in the stream, once however often its answer was lost and it was sent   *)
(* again.                                                                  *)
EventsAreKept == SubjectsStay /\ PublishedOnce
=============================================================================
