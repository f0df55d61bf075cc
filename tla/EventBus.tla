------------------------------ MODULE EventBus ------------------------------
(* BaseEventBus (messaging/event_bus.py): start() connects a NATSClient,   *)
(* ensures the stream and only then keeps the client; stop() closes it;    *)
(* _publish_bool() hands an event to it.  No lock orders these calls, and  *)
(* each call is a task that is interrupted at its awaits.  The NATSClient  *)
(* is its connection here: dialling, open or closed.                       *)
EXTENDS Integers, Sequences

CONSTANTS BusCalls,       \* the calls of one bus, numbered as they come
          BusEnabled      \* the possible values of enabled

VARIABLES busEnabled,
          busClient,      \* self._client, 0 is None
          busClients,     \* NATSClient -> "dialling", "open" or "closed"
          busCalls,       \* call -> [op, pc, on]: the client it works on
          streamMissing,  \* history: clients whose ensure_stream() raised
          overlapped      \* history: a start() overlapped a start() or stop()

busVars == <<busEnabled, busClient, busClients, busCalls, streamMissing, overlapped>>

NoCall == [op |-> "none", pc |-> "idle", on |-> 0]
BusEnded(result) == [NoCall EXCEPT !.pc = result]

BusInit ==
    /\ busEnabled \in BusEnabled
    /\ busClient = 0
    /\ busClients = <<>>
    /\ busCalls = [b \in BusCalls |-> NoCall]
    /\ streamMissing = {}
    /\ overlapped = FALSE

BusArrives(b) == busCalls[b].pc = "idle" /\ \A a \in 1..(b - 1) : busCalls[a].pc # "idle"
Pending(op) == \E b \in BusCalls : busCalls[b].op = op
BusBecomes(b, r) == busCalls' = [busCalls EXCEPT ![b] = r]
IsConnected == busClient # 0

\* start() up to the await of connect().
BusStart(b) ==
    /\ BusArrives(b)
    /\ \/ /\ ~busEnabled
          /\ BusBecomes(b, BusEnded("done"))
          /\ UNCHANGED <<busClients, overlapped>>
       \/ /\ busEnabled
          /\ busClients' = Append(busClients, "dialling")
          /\ BusBecomes(b, [op |-> "start", pc |-> "connect", on |-> Len(busClients) + 1])
          /\ overlapped' = (overlapped \/ Pending("start") \/ Pending("stop") \/ IsConnected)
    /\ UNCHANGED <<busEnabled, busClient, streamMissing>>

BusConnected(b) ==
    /\ busCalls[b].pc = "connect"
    /\ busClients' = [busClients EXCEPT ![busCalls[b].on] = "open"]
    /\ BusBecomes(b, [busCalls[b] EXCEPT !.pc = "ensure"])
    /\ UNCHANGED <<busEnabled, busClient, streamMissing, overlapped>>

\* The stream exists: the client becomes the bus's client.
StreamEnsured(b) ==
    /\ busCalls[b].pc = "ensure"
    /\ busClient' = busCalls[b].on
    /\ BusBecomes(b, BusEnded("done"))
    /\ UNCHANGED <<busEnabled, busClients, streamMissing, overlapped>>

\* connect() or ensure_stream() raises.  The handler closes self._client,
\* the client the bus held before, and never the one just connected.
StartFails(b) ==
    LET r == busCalls[b] IN
    /\ r.pc \in {"connect", "ensure"}
    /\ busClients' = IF r.pc = "connect" THEN [busClients EXCEPT ![r.on] = "closed"] ELSE busClients
    /\ streamMissing' = IF r.pc = "ensure" THEN streamMissing \cup {r.on} ELSE streamMissing
    /\ BusBecomes(b, IF IsConnected THEN [r EXCEPT !.pc = "close", !.on = busClient] ELSE BusEnded("done"))
    /\ UNCHANGED <<busEnabled, busClient, overlapped>>

BusStop(b) ==
    /\ BusArrives(b)
    /\ BusBecomes(b, IF IsConnected THEN [op |-> "stop", pc |-> "close", on |-> busClient] ELSE BusEnded("stopped"))
    /\ overlapped' = (overlapped \/ Pending("start"))
    /\ UNCHANGED <<busEnabled, busClient, busClients, streamMissing>>

\* close() of the client taken before the await has ended, or has raised: its
\* finally block dropped the connection either way.  Only stop() forgets the
\* client whatever happened; the handler of start() lets the error pass.
AfterClose(b) == BusEnded(IF busCalls[b].op = "stop" THEN "stopped" ELSE "done")
ForgetWithoutClosing(b) ==
    /\ busCalls[b].pc = "close"
    /\ busClient' = 0
    /\ BusBecomes(b, AfterClose(b))
    /\ UNCHANGED <<busEnabled, busClients, streamMissing, overlapped>>
BusClosed(b) ==
    /\ busCalls[b].pc = "close"
    /\ busClients' = [busClients EXCEPT ![busCalls[b].on] = "closed"]
    /\ busClient' \in IF busCalls[b].op = "stop" THEN {0} ELSE {0, busClient}
    /\ BusBecomes(b, AfterClose(b))
    /\ UNCHANGED <<busEnabled, streamMissing, overlapped>>

\* _publish_bool(): build_event() makes the envelope without awaiting, so the
\* client that is checked is the client that publishes.
BusPublish(b) ==
    /\ BusArrives(b)
    /\ BusBecomes(b, IF busEnabled /\ IsConnected
                  THEN [op |-> "publish", pc |-> "publish", on |-> busClient] ELSE BusEnded("false"))
    /\ UNCHANGED <<busEnabled, busClient, busClients, streamMissing, overlapped>>

\* publish_json() succeeds on an open connection and raises on a closed one;
\* either way an exception is logged and answered with False.
Accepted(b) == busClients[busCalls[b].on] = "open"
PublishEnds(b) ==
    /\ busCalls[b].pc = "publish"
    /\ \/ Accepted(b) /\ BusBecomes(b, BusEnded("true"))
       \/ BusBecomes(b, BusEnded("false"))
    /\ UNCHANGED <<busEnabled, busClient, busClients, streamMissing, overlapped>>

BusStep(b) == BusConnected(b) \/ StreamEnsured(b) \/ StartFails(b) \/ BusClosed(b) \/ PublishEnds(b)
BusNext == \E b \in BusCalls : BusStart(b) \/ BusStop(b) \/ BusPublish(b) \/ BusStep(b)
BusSpec == BusInit /\ [][BusNext]_busVars
-----------------------------------------------------------------------------
Quiet == \A b \in BusCalls : busCalls[b].op = "none"

\* While no start() overlaps another start() or a stop(), and no
\* ensure_stream() raises, the bus never loses an open connection: once its
\* calls are over, the only open client is self._client.
NoLostClient ==
    Quiet /\ ~overlapped => \A c \in DOMAIN busClients :
        busClients[c] = "open" => c = busClient \/ c \in streamMissing

\* "Close the NATS connection." (stop(), line 103): when stop() was the last
\* call and has returned, no connection that start() made is open.
StopClosesTheConnection ==
    \A b \in BusCalls :
        busCalls[b].pc = "stopped" /\ Quiet /\ ~overlapped /\ (b + 1 \in BusCalls => busCalls[b + 1].pc = "idle")
          => \A c \in DOMAIN busClients : busClients[c] # "open"
=============================================================================
