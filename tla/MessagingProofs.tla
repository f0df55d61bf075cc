-------------------------- MODULE MessagingProofs ---------------------------
(***************************************************************************)
(* What NATSClient, BaseEventBus, the stream that services share and the   *)
(* durable consumer promise, for any number of coroutines, calls,          *)
(* services, replicas and messages.                                        *)
(***************************************************************************)
EXTENDS NATSClient, EventBus, StreamAdmin, DurableConsumer, FiniteSetTheorems, TLAPS

-----------------------------------------------------------------------------
(***************************************************************************)
(* NATSClient.  The client is one connection.  What makes it so is the     *)
(* lock: whoever dials holds it, and while it does the connection that is  *)
(* kept stays unusable.                                                    *)
(***************************************************************************)

Statuses == {"unopened", "open", "reconnecting", "draining", "closed"}

NatsTypeOK ==
    /\ status \in [Connections -> Statuses]
    /\ connection \in {0} \cup Connections
    /\ lock \in Callers \cup {"free"}
    /\ doing \in [Callers -> {"idle", "lock", "dial", "drain"}]
    /\ draining \in [Callers -> {0} \cup Connections]
    /\ surprised \in BOOLEAN

(* Only the holder of the lock dials, and only to replace an unusable      *)
(* connection; only a drain that is awaited has a connection.              *)
DialsAlone ==
    \A c \in Callers :
        /\ doing[c] = "dial" => lock = c /\ ~Usable
        /\ doing[c] = "drain" => draining[c] \in Connections

NatsInv == NatsTypeOK /\ DialsAlone /\ OneConnection

LEMMA InitNats == NatsInit => NatsInv
<1> SUFFICES ASSUME NatsInit PROVE NatsInv
  BY Zenon
<1> QED
  BY Zenon DEF NatsInit, NatsInv, NatsTypeOK, DialsAlone, OneConnection, Statuses, Live

LEMMA ZeroIsNone == 0 \notin Connections
  BY NATSClientAssumption DEF Connections

LEMMA StepNats == NatsInv /\ [NatsNext]_natsVars => NatsInv'
<1> SUFFICES ASSUME NatsInv, [NatsNext]_natsVars PROVE NatsInv'
  BY Zenon
<1> USE NATSClientAssumption, ZeroIsNone
    DEF NatsInv, NatsTypeOK, DialsAlone, OneConnection, Statuses, Live, Usable, natsClient
<1>1. ASSUME NEW c \in Callers, NEW op \in {"connect", "jetstream"}, Call(c, op) PROVE NatsInv'
  BY <1>1, Zenon DEF Call, Return
<1>2. ASSUME NEW c \in Callers, LockAcquired(c) PROVE NatsInv'
  BY <1>2, Zenon DEF LockAcquired, Return
<1>3. ASSUME NEW c \in Callers, Connected(c) PROVE NatsInv'
  <2>1. PICK k \in Unopened : /\ status' = [status EXCEPT ![k] = "open"] /\ connection' = k
                              /\ jetstream' \in {0, k}
    BY <1>3, Zenon DEF Connected
  <2>2. \A j \in Connections : status[j] \in Live => surprised
    BY <1>3 DEF Connected
  <2> QED
    BY <1>3, <2>1, <2>2 DEF Connected, Unopened
<1>4. ASSUME NEW c \in Callers, ConnectRaises(c) PROVE NatsInv'
  BY <1>4, Zenon DEF ConnectRaises
<1>5. ASSUME NEW c \in Callers, Close(c) PROVE NatsInv'
  <2>1. CASE status[connection] = "open"
    BY <1>5, <2>1 DEF Close, Forget
  <2>2. CASE status[connection] # "open"
    <3>1. /\ connection' = 0 /\ jetstream' = 0 /\ status' = status /\ UNCHANGED lock
          /\ doing' = [doing EXCEPT ![c] = "idle"] /\ draining' = [draining EXCEPT ![c] = 0]
          /\ surprised' = (surprised \/ status[connection] = "reconnecting")
          /\ connection \in Connections
      BY <1>5, <2>2, Zenon DEF Close, Forget
    <3>2. NatsTypeOK' /\ DialsAlone'
      BY <3>1, Zenon
    <3>3. ~surprised' => ~surprised /\ status[connection] \notin Live
      BY <2>2, <3>1, Zenon
    <3> QED
      BY <3>1, <3>2, <3>3, Zenon
  <2> QED
    BY <2>1, <2>2, Zenon
<1>6. ASSUME NEW c \in Callers, Drained(c) PROVE NatsInv'
  <2>1. /\ connection' = 0 /\ jetstream' = 0 /\ UNCHANGED lock
        /\ status' = [status EXCEPT ![draining[c]] = "closed"]
        /\ doing' = [doing EXCEPT ![c] = "idle"] /\ draining' = [draining EXCEPT ![c] = 0]
        /\ surprised' = (surprised \/ connection # draining[c])
        /\ draining[c] \in Connections
    BY <1>6, Zenon DEF Drained, Forget
  <2>2. NatsTypeOK' /\ DialsAlone'
    BY <2>1, Zenon
  <2>3. ~surprised' => ~surprised /\ connection = draining[c]
    BY <2>1, Zenon
  <2>4. ~surprised' => \A k \in Connections : status'[k] \notin Live
    BY <2>1, <2>3, Zenon
  <2> QED
    BY <2>1, <2>2, <2>4, Zenon
<1>7. ASSUME NEW c \in Callers, DrainTimesOut(c) PROVE NatsInv'
  BY <1>7, Zenon DEF DrainTimesOut, Forget
<1>8. ASSUME NEW k \in Connections, ConnectionDrops(k) \/ ConnectionReturns(k) \/ ConnectionGivesUp(k)
      PROVE  NatsInv'
  BY <1>8 DEF ConnectionDrops, ConnectionReturns, ConnectionGivesUp
<1>9. CASE UNCHANGED natsVars
  BY <1>9, Zenon DEF natsVars
<1> QED
  BY <1>1, <1>2, <1>3, <1>4, <1>5, <1>6, <1>7, <1>8, <1>9, Zenon DEF NatsNext

(* However connect(), jetstream() and close() overlap, and whatever        *)
(* becomes of the connections, the client never has a second one.          *)
THEOREM AlwaysOneConnection == NatsSpec => []OneConnection
<1>1. NatsInv => OneConnection
  BY Zenon DEF NatsInv
<1> QED
  BY <1>1, InitNats, StepNats, PTL DEF NatsSpec

-----------------------------------------------------------------------------
(***************************************************************************)
(* EventBus.                                                               *)
(***************************************************************************)

CallPcs == {"idle", "connect", "ensure", "close", "publish", "done", "stopped", "true", "false"}
CallRecords == [op : {"none", "start", "stop", "publish"}, pc : CallPcs, on : Nat]

BusTypeOK ==
    /\ busClient \in {0} \cup DOMAIN busClients
    /\ busClients \in Seq({"dialling", "open", "closed"})
    /\ busCalls \in [BusCalls -> CallRecords]
    /\ \A b \in BusCalls :
         /\ busCalls[b].pc \in {"connect", "ensure"} => busCalls[b].op = "start"
         /\ busCalls[b].pc = "close" => busCalls[b].op \in {"start", "stop"}
         /\ busCalls[b].op # "none" => busCalls[b].on \in DOMAIN busClients

(* While nothing overlapped: a start() is alone and works while the bus has *)
(* no client, so its handler closes none; a stop() closes the client of the *)
(* bus or one already forgotten; and an open connection is the bus's, one   *)
(* whose stream is missing, or that of the start() that made it.            *)
InTurn ==
    /\ \A b \in BusCalls : busCalls[b].op = "start" =>
          /\ busCalls[b].pc # "close" /\ busClient = 0
          /\ \A a \in BusCalls : /\ busCalls[a].op = "start" => a = b
                                 /\ busCalls[a].op # "stop"
    /\ \A b \in BusCalls : busCalls[b].op = "stop" => busClient \in {0, busCalls[b].on}
    /\ \A c \in DOMAIN busClients : busClients[c] = "open" =>
          \/ c = busClient \/ c \in streamMissing
          \/ \E b \in BusCalls : busCalls[b].op = "start" /\ busCalls[b].pc = "ensure" /\ busCalls[b].on = c

BusInv == BusTypeOK /\ (~overlapped => InTurn)

LEMMA EndedCall == \A result : BusEnded(result) = [op |-> "none", pc |-> result, on |-> 0]
  BY DEF BusEnded, NoCall

LEMMA InitBus == BusInit => BusInv
<1> SUFFICES ASSUME BusInit PROVE BusInv
  BY Zenon
<1> QED
  BY DEF BusInit, BusInv, BusTypeOK, InTurn, CallRecords, CallPcs, NoCall

LEMMA StepBus == BusInv /\ [BusNext]_busVars => BusInv'
<1> SUFFICES ASSUME BusInv, [BusNext]_busVars PROVE BusInv'
  BY Zenon
<1> USE EndedCall DEF BusInv, BusTypeOK, BusBecomes, IsConnected
<1>1. ASSUME NEW b \in BusCalls, BusStart(b) PROVE BusInv'
  <2>1. CASE ~busEnabled
    <3>1. /\ busCalls' = [busCalls EXCEPT ![b] = [op |-> "none", pc |-> "done", on |-> 0]]
          /\ UNCHANGED <<busClients, busClient, streamMissing, overlapped>> /\ busCalls[b].pc = "idle"
      BY <1>1, <2>1, Zenon DEF BusStart, BusArrives
    <3> QED
      BY <3>1 DEF InTurn, CallRecords, CallPcs
  <2>2. CASE busEnabled
    <3>1. /\ busCalls' = [busCalls EXCEPT ![b] = [op |-> "start", pc |-> "connect", on |-> Len(busClients) + 1]]
          /\ busClients' = Append(busClients, "dialling") /\ busCalls[b].pc = "idle"
          /\ UNCHANGED <<busClient, streamMissing>>
          /\ overlapped' = (overlapped \/ Pending("start") \/ Pending("stop") \/ busClient # 0)
      BY <1>1, <2>2, Zenon DEF BusStart, BusArrives
    <3>2. BusTypeOK'
      BY <3>1 DEF CallRecords, CallPcs
    <3>3. ASSUME ~overlapped' PROVE InTurn'
      <4>1. /\ ~overlapped /\ InTurn /\ busClient = 0
            /\ \A a \in BusCalls : busCalls[a].op \notin {"start", "stop"}
        BY <3>1, <3>3, Zenon DEF Pending
      <4> QED
        BY <3>1, <4>1 DEF InTurn, CallRecords, CallPcs
    <3> QED
      BY <3>2, <3>3, Zenon
  <2> QED
    BY <2>1, <2>2, Zenon
<1>2. ASSUME NEW b \in BusCalls, BusConnected(b) PROVE BusInv'
  BY <1>2 DEF BusConnected, InTurn, CallRecords, CallPcs
<1>3. ASSUME NEW b \in BusCalls, StreamEnsured(b) PROVE BusInv'
  <2>1. /\ busCalls[b].op = "start" /\ busCalls[b].pc = "ensure" /\ busCalls[b].on \in DOMAIN busClients
        /\ busClient' = busCalls[b].on
        /\ busCalls' = [busCalls EXCEPT ![b] = [op |-> "none", pc |-> "done", on |-> 0]]
        /\ UNCHANGED <<busClients, streamMissing, overlapped>>
    BY <1>3, Zenon DEF StreamEnsured, CallRecords, CallPcs
  <2>2. BusTypeOK'
    BY <2>1, Zenon DEF CallRecords, CallPcs
  <2>3. ASSUME ~overlapped PROVE InTurn'
    <3>1. \A a \in BusCalls : busCalls'[a].op \notin {"start", "stop"}
      BY <2>1, <2>3 DEF InTurn
    <3> QED
      BY <2>1, <2>3, <3>1 DEF InTurn
  <2> QED
    BY <2>1, <2>2, <2>3, Zenon
<1>4. ASSUME NEW b \in BusCalls, StartFails(b) PROVE BusInv'
  <2> DEFINE r == IF busClient # 0 THEN [busCalls[b] EXCEPT !.pc = "close", !.on = busClient]
                  ELSE [op |-> "none", pc |-> "done", on |-> 0]
  <2>1. busCalls[b].op = "start" /\ busCalls[b].on \in DOMAIN busClients
    BY <1>4, Zenon DEF StartFails
  <2>2. /\ busCalls[b].pc \in {"connect", "ensure"}
        /\ busClients' = IF busCalls[b].pc = "connect"
                         THEN [busClients EXCEPT ![busCalls[b].on] = "closed"] ELSE busClients
        /\ streamMissing' = IF busCalls[b].pc = "ensure"
                            THEN streamMissing \cup {busCalls[b].on} ELSE streamMissing
        /\ busCalls' = [busCalls EXCEPT ![b] = r]
        /\ UNCHANGED <<busClient, overlapped>>
    BY <1>4, Zenon DEF StartFails
  <2>3. /\ r \in CallRecords
        /\ r.pc \notin {"connect", "ensure"} /\ (r.pc = "close" => r.op = "start")
        /\ r.op # "none" => busClient # 0 /\ r.on = busClient
        /\ busClient = 0 => r.op = "none"
    <3>1. busCalls[b] \in CallRecords
      BY Zenon
    <3>2. CASE busClient # 0
      <4>1. busClient \in Nat
        OBVIOUS
      <4>2. r = [busCalls[b] EXCEPT !.pc = "close", !.on = busClient]
        BY <3>2, Zenon
      <4>3. /\ r \in CallRecords /\ r.op = "start" /\ r.pc = "close" /\ r.on = busClient
        BY <2>1, <3>1, <4>1, <4>2, Zenon DEF CallRecords, CallPcs
      <4> QED
        BY <3>2, <4>3, Zenon
    <3>3. CASE busClient = 0
      BY <3>3, Zenon DEF CallRecords, CallPcs
    <3> QED
      BY <3>2, <3>3, Zenon
  <2> HIDE DEF r
  <2>4. busClients' \in Seq({"dialling", "open", "closed"}) /\ DOMAIN busClients' = DOMAIN busClients
    BY <2>1, <2>2
  <2>5. BusTypeOK'
    BY <2>2, <2>3, <2>4, Zenon
  <2>6. ASSUME ~overlapped PROVE InTurn'
    <3>1. busClient = 0 /\ \A a \in BusCalls : busCalls'[a].op \notin {"start", "stop"}
      BY <2>1, <2>2, <2>3, <2>6 DEF InTurn
    <3>2. ASSUME NEW c \in DOMAIN busClients, busClients'[c] = "open" PROVE c \in streamMissing'
      <4>1. busClients[c] = "open" /\ c # 0
        BY <2>1, <2>2, <3>2
      <4>2. c \in streamMissing \/ (busCalls[b].pc = "ensure" /\ busCalls[b].on = c)
        BY <2>1, <2>6, <3>1, <4>1 DEF InTurn
      <4> QED
        BY <2>2, <4>2, Zenon
    <3> QED
      BY <2>2, <2>4, <3>1, <3>2, Zenon DEF InTurn
  <2> QED
    BY <2>2, <2>5, <2>6, Zenon
<1>5. ASSUME NEW b \in BusCalls, BusStop(b) PROVE BusInv'
  <2> DEFINE r == IF busClient # 0 THEN [op |-> "stop", pc |-> "close", on |-> busClient]
                  ELSE [op |-> "none", pc |-> "stopped", on |-> 0]
  <2>1. /\ busCalls[b].pc = "idle" /\ busCalls' = [busCalls EXCEPT ![b] = r]
        /\ overlapped' = (overlapped \/ Pending("start"))
        /\ UNCHANGED <<busClient, busClients, streamMissing>>
    BY <1>5, Zenon DEF BusStop, BusArrives
  <2>2. /\ r \in CallRecords /\ r.pc \in {"close", "stopped"} /\ r.op # "start"
        /\ r.pc = "close" => r.op = "stop"
        /\ r.op # "none" => busClient # 0 /\ r.on = busClient
    BY DEF CallRecords, CallPcs
  <2> HIDE DEF r
  <2>3. BusTypeOK'
    BY <2>1, <2>2, Zenon
  <2>4. ASSUME ~overlapped' PROVE InTurn'
    <3>1. ~overlapped /\ \A a \in BusCalls : busCalls[a].op # "start" /\ busCalls'[a].op # "start"
      BY <2>1, <2>2, <2>4, Zenon DEF Pending
    <3> QED
      BY <2>1, <2>2, <3>1, Zenon DEF InTurn
  <2> QED
    BY <2>3, <2>4, Zenon
<1>6. ASSUME NEW b \in BusCalls, BusClosed(b) PROVE BusInv'
  <2>1. /\ busCalls[b].op \in {"start", "stop"} /\ busCalls[b].pc = "close"
        /\ busCalls[b].on \in DOMAIN busClients
        /\ busClients' = [busClients EXCEPT ![busCalls[b].on] = "closed"]
        /\ busClient' \in IF busCalls[b].op = "stop" THEN {0} ELSE {0, busClient}
        /\ busCalls' = [busCalls EXCEPT ![b] =
             [op |-> "none", pc |-> IF busCalls[b].op = "stop" THEN "stopped" ELSE "done", on |-> 0]]
        /\ UNCHANGED <<streamMissing, overlapped>>
    BY <1>6, Zenon DEF BusClosed, AfterClose, CallRecords, CallPcs
  <2>2. BusTypeOK'
    BY <2>1 DEF CallRecords, CallPcs
  <2>3. ASSUME ~overlapped PROVE InTurn'
    <3>1. /\ busCalls[b].op = "stop" /\ busClient' = 0 /\ busClient \in {0, busCalls[b].on}
          /\ \A a \in BusCalls : busCalls'[a].op # "start" /\ busCalls[a].op # "start"
      BY <2>1, <2>3, Zenon DEF InTurn
    <3> QED
      BY <2>1, <2>3, <3>1, Zenon DEF InTurn
  <2> QED
    BY <2>1, <2>2, <2>3, Zenon
<1>7. ASSUME NEW b \in BusCalls, BusPublish(b) PROVE BusInv'
  BY <1>7 DEF BusPublish, BusArrives, InTurn, CallRecords, CallPcs
<1>8. ASSUME NEW b \in BusCalls, PublishEnds(b) PROVE BusInv'
  <2>1. PICK result \in {"true", "false"} :
             busCalls' = [busCalls EXCEPT ![b] = [op |-> "none", pc |-> result, on |-> 0]]
    BY <1>8, Zenon DEF PublishEnds
  <2>2. busCalls[b].pc = "publish" /\ UNCHANGED <<busClient, busClients, streamMissing, overlapped>>
    BY <1>8, Zenon DEF PublishEnds
  <2> QED
    BY <2>1, <2>2 DEF InTurn, CallRecords, CallPcs
<1>9. CASE UNCHANGED busVars
  BY <1>9 DEF busVars, InTurn
<1> QED
  BY <1>1, <1>2, <1>3, <1>4, <1>5, <1>6, <1>7, <1>8, <1>9, Zenon DEF BusNext, BusStep

(* Whatever start(), stop() and publishing calls a bus is given, in turn,  *)
(* it never loses an open connection: once they are over the only open     *)
(* client is self._client or one whose ensure_stream() raised.             *)
THEOREM AlwaysNoLostClient == BusSpec => []NoLostClient
<1>1. BusInv => NoLostClient
  BY Zenon DEF BusInv, BusTypeOK, InTurn, NoLostClient, Quiet
<1> QED
  BY <1>1, InitBus, StepBus, PTL DEF BusSpec

-----------------------------------------------------------------------------
(***************************************************************************)
(* StreamAdmin.                                                            *)
(***************************************************************************)

AdminPcs == {"idle", "info", "info again", "update", "add", "consumer", "add consumer", "assert",
             "asserted", "publish"}
Subjects == UNION {Wants[s] : s \in Members}
AdminTypeOK ==
    /\ exists \in BOOLEAN /\ raced \in BOOLEAN
    /\ stored \in [Members -> {0, 1}]
    /\ bound \subseteq Subjects
    /\ asking \in [Members -> [pc : AdminPcs, read : SUBSET Subjects]]
    /\ ensured \subseteq Members /\ published \subseteq Members

(* A service between its update and the stream_info() after it finds its   *)
(* subjects bound, like one whose ensure_stream() returned: otherwise the  *)
(* step that took them away was a race.                                    *)
UpdatesStay ==
    ~raced => \A s \in Members :
        s \in ensured \/ asking[s].pc = "info again" => exists /\ Wants[s] \subseteq bound

PublishedIsStored == \A s \in published : stored[s] = 1

AdminInv == AdminTypeOK /\ UpdatesStay /\ PublishedIsStored

LEMMA InitAdmin == AdminInit => AdminInv
<1> SUFFICES ASSUME AdminInit PROVE AdminInv
  BY Zenon
<1> QED
  BY Zenon DEF AdminInit, AdminInv, AdminTypeOK, AdminPcs, UpdatesStay, PublishedIsStored

LEMMA StepAdmin == AdminInv /\ [AdminNext]_adminVars => AdminInv'
<1> SUFFICES ASSUME AdminInv, [AdminNext]_adminVars PROVE AdminInv'
  BY Zenon
<1> USE DEF AdminInv, AdminTypeOK, AdminPcs, UpdatesStay, PublishedIsStored, Await, End, jsServer
<1>1. CASE DeleteStream
  BY <1>1, Zenon DEF DeleteStream
<1>2. ASSUME NEW s \in Members, NEW pc_1 \in {"info", "consumer", "assert", "publish"}, Begin(s, pc_1)
      PROVE  AdminInv'
  BY <1>2, Zenon DEF Begin
<1>3. ASSUME NEW s \in Members, StreamInfo(s) PROVE AdminInv'
  <2>1. UNCHANGED <<exists, bound, stored, published, raced>>
    BY <1>3, Zenon DEF StreamInfo
  <2>2. CASE ~exists
    <3>1. asking' = [asking EXCEPT ![s] = [pc |-> "add", read |-> {}]] /\ ensured' = ensured
      BY <1>3, <2>2, Zenon DEF StreamInfo
    <3> QED
      BY <2>1, <3>1, Zenon
  <2>3. CASE exists /\ asking[s].pc = "info" /\ ~(Wants[s] \subseteq bound)
    <3>1. asking' = [asking EXCEPT ![s] = [pc |-> "update", read |-> bound]] /\ ensured' = ensured
      BY <1>3, <2>3, Zenon DEF StreamInfo
    <3> QED
      BY <2>1, <3>1, Zenon
  <2>4. CASE exists /\ ~(asking[s].pc = "info" /\ ~(Wants[s] \subseteq bound))
    <3>1. asking' = [asking EXCEPT ![s] = [pc |-> "idle", read |-> {}]] /\ ensured' = ensured \cup {s}
      BY <1>3, <2>4, Zenon DEF StreamInfo
    <3>2. ~raced => Wants[s] \subseteq bound
      BY <1>3, <2>4, Zenon DEF StreamInfo
    <3> QED
      BY <2>1, <2>4, <3>1, <3>2, Zenon
  <2> QED
    BY <2>2, <2>3, <2>4, Zenon
<1>4. ASSUME NEW s \in Members, UpdateStream(s) PROVE AdminInv'
  <2>1. UNCHANGED <<exists, stored, ensured, published>> /\ asking[s].pc = "update"
    BY <1>4, Zenon DEF UpdateStream
  <2>2. CASE ~exists
    <3>1. asking' = [asking EXCEPT ![s] = [pc |-> "add", read |-> {}]] /\ UNCHANGED <<bound, raced>>
      BY <1>4, <2>2, Zenon DEF UpdateStream
    <3> QED
      BY <2>1, <3>1, Zenon
  <2>3. CASE exists
    <3>1. /\ bound' = asking[s].read \cup Wants[s] /\ raced' = (raced \/ ~(bound \subseteq asking[s].read))
          /\ asking' = [asking EXCEPT ![s] = [pc |-> "info again", read |-> {}]]
      BY <1>4, <2>3, Zenon DEF UpdateStream, SubjectsOf
    <3>2. AdminTypeOK'
      BY <2>1, <3>1, Zenon DEF Subjects
    <3>3. ~raced' => ~raced /\ bound \subseteq bound' /\ Wants[s] \subseteq bound'
      BY <3>1, Zenon
    <3>4. UpdatesStay'
      BY <2>1, <2>3, <3>1, <3>3, Zenon
    <3> QED
      BY <2>1, <3>2, <3>4, Zenon
  <2> QED
    BY <2>2, <2>3, Zenon
<1>5. ASSUME NEW s \in Members, AddStream(s) PROVE AdminInv'
  BY <1>5, Zenon DEF AddStream, Subjects
<1>6. ASSUME NEW s \in Members, ConsumerInfo(s) \/ AddConsumer(s) \/ AssertCompatible(s) PROVE AdminInv'
  <2>1. UNCHANGED <<exists, bound, stored, ensured, published, raced>>
    BY <1>6, Zenon DEF ConsumerInfo, AddConsumer, AssertCompatible
  <2>2. PICK next \in {"idle", "add consumer", "asserted"} :
             asking' = [asking EXCEPT ![s] = [pc |-> next, read |-> {}]]
    BY <1>6, Zenon DEF ConsumerInfo, AddConsumer, AssertCompatible
  <2> QED
    BY <2>1, <2>2, Zenon
<1>7. ASSUME NEW s \in Members, PublishStream(s) PROVE AdminInv'
  <2>1. UNCHANGED <<exists, bound, ensured, raced>> /\ asking[s].pc = "publish"
    BY <1>7, Zenon DEF PublishStream
  <2>2. asking' = [asking EXCEPT ![s] = [pc |-> "idle", read |-> {}]] \/ asking' = asking
    BY <1>7, Zenon DEF PublishStream
  <2>3. \/ stored' = [stored EXCEPT ![s] = 1] /\ published' \in {published, published \cup {s}}
        \/ UNCHANGED <<stored, published>>
    BY <1>7, Zenon DEF PublishStream, Store
  <2>4. /\ asking' \in [Members -> [pc : AdminPcs, read : SUBSET Subjects]]
        /\ \A t \in Members : asking'[t].pc = "info again" => asking[t].pc = "info again"
    <3>1. CASE asking' = [asking EXCEPT ![s] = [pc |-> "idle", read |-> {}]]
      BY <3>1, Zenon
    <3>2. CASE asking' = asking
      BY <3>2, Zenon
    <3> QED
      BY <2>2, <3>1, <3>2, Zenon
  <2>5. UpdatesStay'
    BY <2>1, <2>4, Zenon
  <2>6. AdminTypeOK' /\ PublishedIsStored'
    <3>1. CASE stored' = [stored EXCEPT ![s] = 1] /\ published' \in {published, published \cup {s}}
      BY <2>1, <2>4, <3>1, Zenon
    <3>2. CASE UNCHANGED <<stored, published>>
      BY <2>1, <2>4, <3>2, Zenon
    <3> QED
      BY <2>3, <3>1, <3>2, Zenon
  <2> QED
    BY <2>5, <2>6, Zenon
<1>8. CASE UNCHANGED adminVars
  BY <1>8, Zenon DEF adminVars
<1> QED
  BY <1>1, <1>2, <1>3, <1>4, <1>5, <1>6, <1>7, <1>8, Zenon DEF AdminNext

(* Whatever services ensure, publish and publish again on the stream they  *)
(* share: a service whose ensure_stream() returned keeps its subjects,     *)
(* apart from the two races, and a message whose publish_stream() returned *)
(* is stored, once.                                                        *)
THEOREM AlwaysEventsAreKept == AdminSpec => []EventsAreKept
<1>1. AdminInv => EventsAreKept
  <2> SUFFICES ASSUME AdminInv PROVE EventsAreKept
    BY Zenon
  <2>1. SubjectsStay
    BY Zenon DEF AdminInv, AdminTypeOK, UpdatesStay, SubjectsStay
  <2>2. PublishedOnce
    BY DEF AdminInv, AdminTypeOK, PublishedIsStored, PublishedOnce
  <2> QED
    BY <2>1, <2>2, Zenon DEF EventsAreKept
<1> QED
  BY <1>1, InitAdmin, StepAdmin, PTL DEF AdminSpec

-----------------------------------------------------------------------------
(***************************************************************************)
(* The durable consumer settles messages as their handlers said, for any   *)
(* replicas, messages, batch size and max_deliver.                         *)
(***************************************************************************)

ConsumerTypeOK ==
    /\ state \in [Messages -> {"ready", "pending", "delayed"} \cup Settled]
    /\ delivered \in [Messages -> Nat]
    /\ pc \in [Replicas -> {"bind", "fetch", "handle", "settle", "sleep", "returned"}]
    /\ batch \in [Replicas -> Seq(Messages)]
    /\ verdict \in [Replicas -> {"ack", "term", "nak"}]
    /\ conn \in [Replicas -> {"none", "open", "reconnecting", "closed"}]
    /\ outcomes \in [Messages -> Seq(DOMAIN Verdict)]
    /\ spent \in [failures : Nat, crashes : Nat, outages : Nat, losses : Nat, giveups : Nat, early : Nat]
    /\ \A r \in Replicas : (batch[r] # <<>>) <=> (pc[r] \in {"handle", "settle"})

Occurs(m, outcome) == \E i \in 1 .. Len(outcomes[m]) : outcomes[m][i] = outcome

(* Part one: a message in the stream, and the one in a replica's hand, are *)
(* settled as a handler run on it said.                                    *)
SettledSoFar ==
    /\ \A m \in Messages : /\ state[m] = "acked" => Occurs(m, "ok")
                           /\ state[m] = "termed" => Occurs(m, "poison")
    /\ \A r \in Replicas : pc[r] = "settle" =>
          /\ verdict[r] = "ack" => Occurs(Head(batch[r]), "ok")
          /\ verdict[r] = "term" => Occurs(Head(batch[r]), "poison")

(* Part two, as long as nothing is lost: a message is pending exactly when *)
(* it is at one place of one batch, and no run of its handler succeeded    *)
(* unless it is settled or about to be.                                    *)
Has(r, m) == \E i \in 1 .. Len(batch[r]) : batch[r][i] = m
Waits(r, m) == \E i \in 1 .. Len(batch[r]) : batch[r][i] = m /\ (i = 1 => pc[r] = "handle")
AllErrors(s, n) == \A i \in 1 .. n : s[i] = "error"
Failed(m) == AllErrors(outcomes[m], Len(outcomes[m]))

HeldByOne ==
    /\ \A r \in Replicas : \A i, j \in 1 .. Len(batch[r]) : batch[r][i] = batch[r][j] => i = j
    /\ \A m \in Messages : \A q, r \in Replicas : Has(q, m) /\ Has(r, m) => q = r
    /\ \A m \in Messages : (state[m] = "pending") <=> (\E r \in Replicas : Has(r, m))
FailedBefore ==
    /\ \A m \in Messages : AllErrors(outcomes[m], Len(outcomes[m]) - 1)
    /\ \A m \in Messages : state[m] \in {"ready", "delayed", "dropped"} => Failed(m)
    /\ \A r \in Replicas, m \in Messages : Waits(r, m) => Failed(m)
    /\ \A r \in Replicas : pc[r] = "settle" /\ verdict[r] = "nak" => Failed(Head(batch[r]))
Counted ==
    \A m \in Messages :
        delivered[m] = Len(outcomes[m]) + (IF \E r \in Replicas : Waits(r, m) THEN 1 ELSE 0)

HandledInTurn == (\A r \in Replicas : conn[r] # "closed") /\ HeldByOne /\ FailedBefore /\ Counted

ConsumerInv == ConsumerTypeOK /\ SettledSoFar /\ (NothingLost => HandledInTurn)

Counters == [failures : Nat, crashes : Nat, outages : Nat, losses : Nat, giveups : Nat, early : Nat]

LEMMA FaultCounts ==
    ASSUME spent \in Counters, NEW kind \in {"crashes", "outages", "losses", "giveups", "early"}, Fault(kind)
    PROVE  /\ spent' \in Counters
           /\ kind # "outages" => ~NothingLost'
           /\ NothingLost' => NothingLost
<1>1. /\ spent' = [spent EXCEPT ![kind] = spent[kind] + 1] /\ kind \in DOMAIN spent /\ spent[kind] \in Nat
  BY Zenon DEF Fault, Counters
<1>2. spent' \in Counters
  BY <1>1 DEF Counters
<1>3. kind # "outages" => ~NothingLost'
  BY <1>1 DEF Counters, NothingLost
<1>4. kind = "outages" /\ NothingLost' => NothingLost
  BY <1>1, Zenon DEF Counters, NothingLost
<1> QED
  BY <1>2, <1>3, <1>4, Zenon

(* What keeps the two parts of the invariant when no message moves. *)
LEMMA SettledFrame ==
    ASSUME ConsumerTypeOK, SettledSoFar, UNCHANGED <<outcomes, verdict>>,
           \A m \in Messages : state'[m] \in {"acked", "termed"} => state'[m] = state[m],
           \A r \in Replicas : pc'[r] = "settle" => pc[r] = "settle" /\ batch'[r] = batch[r]
    PROVE  SettledSoFar'
<1>1. \A m, outcome : Occurs(m, outcome)' <=> Occurs(m, outcome)
  BY Zenon DEF Occurs
<1>2. \A m \in Messages : /\ state'[m] = "acked" => Occurs(m, "ok")'
                          /\ state'[m] = "termed" => Occurs(m, "poison")'
  BY <1>1, Zenon DEF SettledSoFar
<1>3. \A r \in Replicas : pc'[r] = "settle" =>
          /\ verdict'[r] = "ack" => Occurs(Head(batch[r]), "ok")'
          /\ verdict'[r] = "term" => Occurs(Head(batch[r]), "poison")'
  BY <1>1, Zenon DEF SettledSoFar
<1> QED
  BY <1>2, <1>3, Zenon DEF SettledSoFar

LEMMA InTurnFrame ==
    ASSUME ConsumerTypeOK, HandledInTurn, UNCHANGED <<state, delivered, batch, verdict, outcomes>>,
           \A r \in Replicas : conn'[r] # "closed",
           \A r \in Replicas : pc'[r] = pc[r] \/ (batch[r] = <<>> /\ pc'[r] \notin {"handle", "settle"})
    PROVE  HandledInTurn'
<1>1. \A r \in Replicas, m \in Messages : Waits(r, m)' = Waits(r, m)
  BY Zenon DEF Waits, ConsumerTypeOK
<1>2. HeldByOne'
  <2>1. \A r, m : Has(r, m)' = Has(r, m)
    BY Zenon DEF Has
  <2> QED
    BY <2>1, Zenon DEF HandledInTurn, HeldByOne
<1>3. FailedBefore'
  BY <1>1, Zenon DEF HandledInTurn, FailedBefore, Failed, AllErrors
<1>4. Counted'
  BY <1>1, Zenon DEF HandledInTurn, Counted
<1> QED
  BY <1>2, <1>3, <1>4, Zenon DEF HandledInTurn

LEMMA InitConsumer == Init => ConsumerInv
<1> SUFFICES ASSUME Init PROVE ConsumerInv
  BY Zenon
<1>1. ConsumerTypeOK
  BY DEF Init, ConsumerTypeOK, Settled
<1>2. SettledSoFar
  BY Zenon DEF Init, SettledSoFar
<1>3. HeldByOne
  <2>1. \A r \in Replicas : \A m : ~Has(r, m)
    BY DEF Init, Has
  <2> QED
    BY <2>1 DEF Init, HeldByOne
<1>4. FailedBefore
  BY DEF Init, FailedBefore, Failed, AllErrors, Waits
<1>5. Counted
  BY DEF Init, Counted, Waits
<1> QED
  BY <1>1, <1>2, <1>3, <1>4, <1>5, Zenon DEF Init, ConsumerInv, HandledInTurn

(* Steps of run() between batches, and of connections that do not give up. *)
LEMMA StepQuiet ==
    ASSUME ConsumerInv, NEW r \in Replicas,
           \/ Bind(r) \/ BindRaises(r) \/ DialRaises(r) \/ FetchTimesOut(r) \/ FetchRaises(r)
           \/ Wake(r) \/ Stop(r) \/ Disconnect(r) \/ Reconnect(r)
    PROVE  ConsumerInv'
<1> USE DEF ConsumerInv
<1>1. /\ UNCHANGED <<state, delivered, batch, verdict, outcomes>>
      /\ \/ conn' = conn \/ conn' = [conn EXCEPT ![r] = "open"] \/ conn' = [conn EXCEPT ![r] = "reconnecting"]
      /\ \/ pc' = pc
         \/ /\ pc[r] \notin {"handle", "settle"}
            /\ \E p \in {"bind", "fetch", "sleep", "returned"} : pc' = [pc EXCEPT ![r] = p]
  BY Zenon DEF Bind, BindRaises, DialRaises, FetchTimesOut, FetchRaises, Wake, Stop, Disconnect, Reconnect, Retry,
         messages, loop, nats
<1>2. spent' \in Counters /\ (NothingLost' => NothingLost)
  <2>1. CASE spent' = spent
    BY <2>1, Zenon DEF Counters, NothingLost, ConsumerTypeOK
  <2>2. CASE Fault("outages")
    BY <2>2, FaultCounts, Zenon DEF Counters, ConsumerTypeOK
  <2> QED
    BY <2>1, <2>2, Zenon DEF Bind, BindRaises, DialRaises, FetchTimesOut, FetchRaises, Wake, Stop, Disconnect, Reconnect
<1>3. ConsumerTypeOK'
  <2>1. conn' \in [Replicas -> {"none", "open", "reconnecting", "closed"}]
    BY <1>1, Zenon DEF ConsumerTypeOK
  <2>2. /\ pc' \in [Replicas -> {"bind", "fetch", "handle", "settle", "sleep", "returned"}]
        /\ \A q \in Replicas : (batch'[q] # <<>>) <=> (pc'[q] \in {"handle", "settle"})
    <3>1. CASE pc' = pc
      BY <1>1, <3>1, Zenon DEF ConsumerTypeOK
    <3>2. ASSUME NEW p \in {"bind", "fetch", "sleep", "returned"}, pc' = [pc EXCEPT ![r] = p],
                 pc[r] \notin {"handle", "settle"}
          PROVE  /\ pc' \in [Replicas -> {"bind", "fetch", "handle", "settle", "sleep", "returned"}]
                 /\ \A q \in Replicas : (batch'[q] # <<>>) <=> (pc'[q] \in {"handle", "settle"})
      BY <1>1, <3>2, Zenon DEF ConsumerTypeOK
    <3> QED
      BY <1>1, <3>1, <3>2, Zenon
  <2> QED
    BY <1>1, <1>2, <2>1, <2>2, Zenon DEF ConsumerTypeOK, Counters
<1>4. \A q \in Replicas : pc'[q] = pc[q] \/ (batch[q] = <<>> /\ pc'[q] \notin {"handle", "settle"})
  BY <1>1, Zenon DEF ConsumerTypeOK
<1>5. SettledSoFar'
  BY <1>1, <1>4, SettledFrame, Zenon
<1>6. NothingLost' => HandledInTurn'
  <2> SUFFICES ASSUME NothingLost' PROVE HandledInTurn'
    BY Zenon
  <2>1. HandledInTurn /\ \A q \in Replicas : conn'[q] # "closed"
    BY <1>1, <1>2 DEF HandledInTurn, ConsumerTypeOK
  <2> QED
    BY <1>1, <1>4, <2>1, InTurnFrame, Zenon
<1> QED
  BY <1>3, <1>5, <1>6, Zenon

LEMMA EmptyHasNoIndex == \A s : (\E i : i \in 1 .. Len(s)) => s # <<>>
  OBVIOUS

LEMMA BatchTail ==
    ASSUME NEW s \in Seq(Messages), s # <<>>
    PROVE  /\ Head(s) \in Messages /\ Head(s) = s[1] /\ 1 \in 1 .. Len(s)
           /\ Tail(s) \in Seq(Messages) /\ Len(Tail(s)) = Len(s) - 1
           /\ \A i \in 1 .. Len(Tail(s)) : Tail(s)[i] = s[i + 1]
           /\ Tail(s) # <<>> => Len(s) > 1
  OBVIOUS

(* The rest of the batch, whatever became of the message in hand. *)
LEMMA NextMessageTypes ==
    ASSUME ConsumerTypeOK, NEW r \in Replicas, pc[r] = "settle", NextMessage(r)
    PROVE  /\ batch' \in [Replicas -> Seq(Messages)]
           /\ pc' \in [Replicas -> {"bind", "fetch", "handle", "settle", "sleep", "returned"}]
           /\ \A q \in Replicas : (batch'[q] # <<>>) <=> (pc'[q] \in {"handle", "settle"})
           /\ \A q \in Replicas : pc'[q] = "settle" => pc[q] = "settle" /\ batch'[q] = batch[q] /\ q # r
<1>1. batch[r] \in Seq(Messages) /\ batch[r] # <<>>
  BY Zenon DEF ConsumerTypeOK
<1>2. Tail(batch[r]) \in Seq(Messages)
  BY <1>1
<1>3. batch' = [batch EXCEPT ![r] = Tail(batch[r])]
  BY Zenon DEF NextMessage
<1>4. PICK p \in {"handle", "returned", "fetch"} :
           pc' = [pc EXCEPT ![r] = p] /\ (p = "handle" <=> Tail(batch[r]) # <<>>)
  BY Zenon DEF NextMessage
<1> QED
  BY <1>2, <1>3, <1>4, Zenon DEF ConsumerTypeOK

(* Steps that lose a delivery, a settlement or the patience of ack_wait. *)
LEMMA StepLoses ==
    ASSUME ConsumerInv,
           \/ \E r \in Replicas : \/ \E b \in Batches : FetchIsLost(r, b)
                                  \/ SettleIsLost(r) \/ SettleRaises(r) \/ GiveUp(r) \/ Crash(r)
           \/ \E m \in Messages : DueTooEarly(m)
    PROVE  ConsumerInv'
<1> USE DEF ConsumerInv
<1>1. ASSUME NEW r \in Replicas, NEW b \in Batches, FetchIsLost(r, b) PROVE ConsumerInv'
  <2>1. ~NothingLost' /\ spent' \in Counters
    BY <1>1, FaultCounts, Zenon DEF FetchIsLost, ConsumerTypeOK, Counters
  <2>2. /\ state' \in [Messages -> {"ready", "pending", "delayed"} \cup Settled]
        /\ delivered' \in [Messages -> Nat]
        /\ \A m \in Messages : state'[m] \in Settled => state'[m] = state[m]
    BY <1>1 DEF FetchIsLost, Deliver, ConsumerTypeOK, Settled
  <2>3. UNCHANGED <<pc, batch, verdict, outcomes>> /\ conn' = [conn EXCEPT ![r] = "reconnecting"]
    BY <1>1, Zenon DEF FetchIsLost, loop
  <2>4. ConsumerTypeOK'
    BY <2>1, <2>2, <2>3, Zenon DEF ConsumerTypeOK, Counters
  <2>5. SettledSoFar'
    BY <2>2, <2>3, SettledFrame, Zenon DEF Settled
  <2> QED
    BY <2>1, <2>4, <2>5, Zenon
<1>2. ASSUME NEW r \in Replicas, SettleIsLost(r) PROVE ConsumerInv'
  <2>1. ~NothingLost' /\ spent' \in Counters
    BY <1>2, FaultCounts, Zenon DEF SettleIsLost, ConsumerTypeOK, Counters
  <2>2. UNCHANGED <<state, delivered, verdict, conn, outcomes>> /\ pc[r] = "settle" /\ NextMessage(r)
    BY <1>2, Zenon DEF SettleIsLost, messages, nats
  <2>3. ConsumerTypeOK'
    BY <2>1, <2>2, NextMessageTypes, Zenon DEF ConsumerTypeOK, Counters
  <2>4. SettledSoFar'
    BY <2>2, NextMessageTypes, SettledFrame, Zenon
  <2> QED
    BY <2>1, <2>3, <2>4, Zenon
<1>3. ASSUME NEW r \in Replicas, SettleRaises(r) PROVE ConsumerInv'
  <2>1. ~NothingLost' /\ spent' = spent
    BY <1>3, Zenon DEF SettleRaises, HandledInTurn, NothingLost
  <2>2. UNCHANGED <<state, delivered, verdict, conn, outcomes>> /\ batch' = [batch EXCEPT ![r] = <<>>]
    BY <1>3, Zenon DEF SettleRaises, messages, nats
  <2>3. PICK p \in {"returned", "sleep"} : pc' = [pc EXCEPT ![r] = p]
    BY <1>3, Zenon DEF SettleRaises, Retry
  <2>4. ConsumerTypeOK'
    BY <2>1, <2>2, <2>3 DEF ConsumerTypeOK
  <2>5. SettledSoFar'
    BY <2>2, <2>3, SettledFrame, Zenon DEF ConsumerTypeOK
  <2> QED
    BY <2>1, <2>4, <2>5, Zenon
<1>4. ASSUME NEW r \in Replicas, GiveUp(r) PROVE ConsumerInv'
  <2>1. ~NothingLost' /\ spent' \in Counters
    BY <1>4, FaultCounts, Zenon DEF GiveUp, ConsumerTypeOK, Counters
  <2>2. UNCHANGED <<state, delivered, pc, batch, verdict, outcomes>> /\ conn' = [conn EXCEPT ![r] = "closed"]
    BY <1>4, Zenon DEF GiveUp, messages, loop
  <2>3. ConsumerTypeOK'
    BY <2>1, <2>2, Zenon DEF ConsumerTypeOK, Counters
  <2>4. SettledSoFar'
    BY <2>2, SettledFrame, Zenon
  <2> QED
    BY <2>1, <2>3, <2>4, Zenon
<1>5. ASSUME NEW r \in Replicas, Crash(r) PROVE ConsumerInv'
  <2>1. ~NothingLost' /\ spent' \in Counters
    BY <1>5, FaultCounts, Zenon DEF Crash, ConsumerTypeOK, Counters
  <2>2. /\ UNCHANGED <<state, delivered, verdict, outcomes>> /\ conn' = [conn EXCEPT ![r] = "none"]
        /\ pc' = [pc EXCEPT ![r] = "bind"] /\ batch' = [batch EXCEPT ![r] = <<>>]
    BY <1>5, Zenon DEF Crash, messages
  <2>3. ConsumerTypeOK'
    <3>1. conn' \in [Replicas -> {"none", "open", "reconnecting", "closed"}]
      BY <2>2, Zenon DEF ConsumerTypeOK
    <3>2. /\ batch' \in [Replicas -> Seq(Messages)]
          /\ pc' \in [Replicas -> {"bind", "fetch", "handle", "settle", "sleep", "returned"}]
          /\ \A q \in Replicas : (batch'[q] # <<>>) <=> (pc'[q] \in {"handle", "settle"})
      BY <2>2 DEF ConsumerTypeOK
    <3> QED
      BY <2>1, <2>2, <3>1, <3>2, Zenon DEF ConsumerTypeOK, Counters
  <2>4. SettledSoFar'
    BY <2>2, SettledFrame, Zenon DEF ConsumerTypeOK
  <2> QED
    BY <2>1, <2>3, <2>4, Zenon
<1>6. ASSUME NEW m \in Messages, DueTooEarly(m) PROVE ConsumerInv'
  <2>1. ~NothingLost' /\ spent' \in Counters
    BY <1>6, FaultCounts, Zenon DEF DueTooEarly, ConsumerTypeOK, Counters
  <2>2. UNCHANGED <<delivered, pc, batch, verdict, conn, outcomes>>
    BY <1>6, Zenon DEF DueTooEarly, Requeue, loop, nats
  <2>3. PICK next \in {"ready", "dropped"} : state' = [state EXCEPT ![m] = next]
    BY <1>6, Zenon DEF DueTooEarly, Requeue
  <2>4. ConsumerTypeOK'
    BY <2>1, <2>2, <2>3, Zenon DEF ConsumerTypeOK, Counters, Settled
  <2>5. SettledSoFar'
    BY <2>2, <2>3, SettledFrame, Zenon DEF ConsumerTypeOK
  <2> QED
    BY <2>1, <2>4, <2>5, Zenon
<1> QED
  BY <1>1, <1>2, <1>3, <1>4, <1>5, <1>6, Zenon

(* fetch() returns a batch of messages nobody had. *)
LEMMA StepFetch ==
    ASSUME ConsumerInv, NEW r \in Replicas, NEW b \in Batches, Fetch(r, b)
    PROVE  ConsumerInv'
<1> USE DEF ConsumerInv
<1>1. /\ b \in Seq(Messages) /\ b # <<>> /\ InBatch(b) \subseteq Messages
      /\ \A i, j \in 1 .. Len(b) : b[i] = b[j] => i = j
  <2>1. PICK n \in 1 .. Batch : b \in [1 .. n -> Messages]
    BY Zenon DEF Batches
  <2>2. \A i, j \in 1 .. n : i < j => b[i] < b[j]
    BY <2>1, Zenon DEF Batches
  <2>3. n \in Nat /\ \A i \in 1 .. n : b[i] \in Nat
    <3>1. Messages \subseteq Nat /\ Batch \in Nat
      BY ConsumerAssumption, Zenon
    <3>2. n \in Nat
      BY <3>1
    <3>3. \A i \in 1 .. n : b[i] \in Messages
      BY <2>1, Zenon
    <3> QED
      BY <3>1, <3>2, <3>3, Zenon
  <2>4. b \in Seq(Messages) /\ Len(b) = n
    BY <2>1, <2>3
  <2>5. \A i, j \in 1 .. n : b[i] = b[j] => i = j
    BY <2>2, <2>3
  <2> QED
    BY <2>1, <2>4, <2>5 DEF Batches, InBatch
<1>2. \A m : m \in InBatch(b) <=> \E i \in 1 .. Len(b) : b[i] = m
  BY <1>1 DEF InBatch
<1>3. /\ \A m \in InBatch(b) : state[m] = "ready"
      /\ state' = [m \in Messages |-> IF m \in InBatch(b) THEN "pending" ELSE state[m]]
      /\ delivered' = [m \in Messages |-> delivered[m] + (IF m \in InBatch(b) THEN 1 ELSE 0)]
      /\ batch' = [batch EXCEPT ![r] = b] /\ pc' = [pc EXCEPT ![r] = "handle"]
      /\ UNCHANGED <<verdict, conn, outcomes, spent>> /\ pc[r] = "fetch" /\ batch[r] = <<>>
  BY Zenon DEF Fetch, Deliver, nats, ConsumerTypeOK
<1>4. ConsumerTypeOK'
  <2>1. state' \in [Messages -> {"ready", "pending", "delayed"} \cup Settled] /\ delivered' \in [Messages -> Nat]
    BY <1>3 DEF ConsumerTypeOK
  <2>2. /\ batch' \in [Replicas -> Seq(Messages)]
        /\ pc' \in [Replicas -> {"bind", "fetch", "handle", "settle", "sleep", "returned"}]
        /\ \A q \in Replicas : (batch'[q] # <<>>) <=> (pc'[q] \in {"handle", "settle"})
    BY <1>1, <1>3, Zenon DEF ConsumerTypeOK
  <2> QED
    BY <1>3, <2>1, <2>2, Zenon DEF ConsumerTypeOK
<1>5. SettledSoFar'
  <2>1. \A m \in Messages : state'[m] \in Settled => state'[m] = state[m]
    BY <1>3, Zenon DEF Settled
  <2>2. \A q \in Replicas : pc'[q] = "settle" => pc[q] = "settle" /\ batch'[q] = batch[q]
    BY <1>3, Zenon DEF ConsumerTypeOK
  <2> QED
    BY <1>3, <2>1, <2>2, SettledFrame, Zenon DEF Settled
<1>6. ASSUME NothingLost' PROVE HandledInTurn'
  <2>1. HandledInTurn
    BY <1>3, <1>6, Zenon DEF NothingLost
  <2>2. \A m \in Messages : ~Has(r, m) /\ ~Waits(r, m)
    BY <1>3 DEF Has, Waits
  <2>3. \A m \in Messages : (Has(r, m)' <=> m \in InBatch(b)) /\ (Waits(r, m)' <=> m \in InBatch(b))
    BY <1>2, <1>3 DEF Has, Waits, ConsumerTypeOK
  <2>4. \A q \in Replicas \ {r}, m \in Messages : (Has(q, m)' <=> Has(q, m)) /\ (Waits(q, m)' <=> Waits(q, m))
    BY <1>3 DEF Has, Waits, ConsumerTypeOK
  <2>5. \A m \in InBatch(b), q \in Replicas : ~Has(q, m) /\ ~Waits(q, m)
    <3>1. \A m \in InBatch(b) : m \in Messages /\ state[m] # "pending"
      BY <1>1, <1>3, Zenon
    <3>2. \A q, m : Waits(q, m) => Has(q, m)
      BY Zenon DEF Has, Waits
    <3> QED
      BY <2>1, <3>1, <3>2, Zenon DEF HandledInTurn, HeldByOne
  <2>6. HeldByOne'
    <3>1. \A q \in Replicas : \A i, j \in 1 .. Len(batch'[q]) : batch'[q][i] = batch'[q][j] => i = j
      <4>1. \A q \in Replicas : batch'[q] = IF q = r THEN b ELSE batch[q]
        BY <1>3, Zenon DEF ConsumerTypeOK
      <4> QED
        BY <1>1, <2>1, <4>1, Zenon DEF HandledInTurn, HeldByOne
    <3>2. \A m \in Messages : \A p, q \in Replicas : Has(p, m)' /\ Has(q, m)' => p = q
      BY <2>1, <2>3, <2>4, <2>5, Zenon DEF HandledInTurn, HeldByOne
    <3>3. \A m \in Messages : (state'[m] = "pending") <=> (\E q \in Replicas : Has(q, m)')
      BY <1>3, <2>1, <2>2, <2>3, <2>4, <2>5 DEF HandledInTurn, HeldByOne
    <3> QED
      BY <3>1, <3>2, <3>3, Zenon DEF HeldByOne
  <2>7. FailedBefore'
    <3>1. \A m : Failed(m)' <=> Failed(m)
      BY <1>3, Zenon DEF Failed, AllErrors
    <3>2. \A m \in Messages : AllErrors(outcomes'[m], Len(outcomes'[m]) - 1)
      BY <1>3, <2>1, Zenon DEF HandledInTurn, FailedBefore
    <3>3. \A m \in Messages : state'[m] \in {"ready", "delayed", "dropped"} => Failed(m)'
      BY <1>3, <2>1, <3>1, Zenon DEF HandledInTurn, FailedBefore
    <3>4. \A q \in Replicas, m \in Messages : Waits(q, m)' => Failed(m)'
      BY <1>1, <1>3, <2>1, <2>3, <2>4, <3>1, Zenon DEF HandledInTurn, FailedBefore
    <3>5. \A q \in Replicas : pc'[q] = "settle" /\ verdict'[q] = "nak" => Failed(Head(batch[q]))' /\ batch'[q] = batch[q]
      BY <1>3, <2>1, <3>1, Zenon DEF HandledInTurn, FailedBefore, ConsumerTypeOK
    <3> QED
      BY <1>3, <3>1, <3>2, <3>3, <3>4, <3>5, Zenon DEF FailedBefore, ConsumerTypeOK
  <2>8. Counted'
    <3> SUFFICES ASSUME NEW m \in Messages
                 PROVE  delivered'[m] = Len(outcomes'[m]) + (IF \E q \in Replicas : Waits(q, m)' THEN 1 ELSE 0)
      BY Zenon DEF Counted
    <3>1. delivered[m] = Len(outcomes[m]) + (IF \E q \in Replicas : Waits(q, m) THEN 1 ELSE 0)
      BY <2>1, Zenon DEF HandledInTurn, Counted
    <3>2. CASE m \in InBatch(b)
      BY <1>3, <2>3, <2>5, <3>1, <3>2 DEF ConsumerTypeOK
    <3>3. CASE m \notin InBatch(b)
      <4>1. (\E q \in Replicas : Waits(q, m)') <=> (\E q \in Replicas : Waits(q, m))
        BY <2>2, <2>3, <2>4, <3>3, Zenon
      <4> QED
        BY <1>3, <3>1, <3>3, <4>1 DEF ConsumerTypeOK
    <3> QED
      BY <3>2, <3>3, Zenon
  <2> QED
    BY <1>3, <2>1, <2>6, <2>7, <2>8, Zenon DEF HandledInTurn
<1> QED
  BY <1>4, <1>5, <1>6, Zenon

(* The nak's delay is over, or ack_wait of a delivery that was lost. *)
LEMMA StepDue ==
    ASSUME ConsumerInv, NEW m \in Messages, Due(m)
    PROVE  ConsumerInv'
<1> USE DEF ConsumerInv
<1>1. PICK next \in {"ready", "dropped"} : state' = [state EXCEPT ![m] = next]
  BY Zenon DEF Due, Requeue
<1>2. UNCHANGED <<delivered, pc, batch, verdict, conn, outcomes, spent>>
  BY Zenon DEF Due, Requeue, loop, nats
<1>3. ConsumerTypeOK'
  BY <1>1, <1>2, Zenon DEF ConsumerTypeOK, Settled
<1>4. SettledSoFar'
  BY <1>1, <1>2, SettledFrame, Zenon DEF ConsumerTypeOK
<1>5. ASSUME NothingLost' PROVE HandledInTurn'
  <2>1. HandledInTurn
    BY <1>2, <1>5, Zenon DEF NothingLost
  <2>2. state[m] = "delayed"
    BY <2>1, Zenon DEF Due, Held, HandledInTurn, HeldByOne, Has
  <2>3. \A q, n : (Has(q, n)' <=> Has(q, n)) /\ (Waits(q, n)' <=> Waits(q, n)) /\ (Failed(n)' <=> Failed(n))
    BY <1>2, Zenon DEF Has, Waits, Failed, AllErrors
  <2>4. HeldByOne'
    BY <1>1, <1>2, <2>1, <2>2, <2>3, Zenon DEF HandledInTurn, HeldByOne, ConsumerTypeOK
  <2>5. FailedBefore'
    BY <1>1, <1>2, <2>1, <2>2, <2>3, Zenon DEF HandledInTurn, FailedBefore, ConsumerTypeOK
  <2>6. Counted'
    BY <1>2, <2>1, <2>3, Zenon DEF HandledInTurn, Counted
  <2> QED
    BY <1>2, <2>1, <2>4, <2>5, <2>6, Zenon DEF HandledInTurn
<1> QED
  BY <1>3, <1>4, <1>5, Zenon

(* The handler has run on the message in hand. *)
LEMMA StepHandle ==
    ASSUME ConsumerInv, NEW r \in Replicas, NEW outcome \in DOMAIN Verdict, Handle(r, outcome)
    PROVE  ConsumerInv'
<1> USE DEF ConsumerInv
<1>1. batch[r] \in Seq(Messages) /\ batch[r] # <<>> /\ pc[r] = "handle"
  BY Zenon DEF Handle, ConsumerTypeOK
<1>2. PICK h \in Messages : h = Head(batch[r]) /\ h = batch[r][1] /\ 1 \in 1 .. Len(batch[r])
  BY <1>1
<1>3. /\ outcomes' = [outcomes EXCEPT ![h] = Append(outcomes[h], outcome)]
      /\ verdict' = [verdict EXCEPT ![r] = Verdict[outcome]] /\ pc' = [pc EXCEPT ![r] = "settle"]
      /\ UNCHANGED <<state, delivered, batch, conn>>
  BY <1>2, Zenon DEF Handle, messages, nats
<1>4. spent' \in Counters /\ (NothingLost' => NothingLost)
  <2>1. spent \in Counters
    BY Zenon DEF ConsumerTypeOK, Counters
  <2>2. spent' = spent \/ spent' = [spent EXCEPT !.failures = spent.failures + 1]
    BY Zenon DEF Handle
  <2> QED
    BY <2>1, <2>2 DEF Counters, NothingLost
<1>5. /\ outcomes[h] \in Seq(DOMAIN Verdict) /\ outcomes'[h] \in Seq(DOMAIN Verdict)
      /\ Len(outcomes'[h]) = Len(outcomes[h]) + 1 /\ outcomes'[h][Len(outcomes[h]) + 1] = outcome
      /\ \A i \in 1 .. Len(outcomes[h]) : outcomes'[h][i] = outcomes[h][i]
      /\ \A m \in Messages \ {h} : outcomes'[m] = outcomes[m]
  <2>1. outcomes \in [Messages -> Seq(DOMAIN Verdict)]
    BY Zenon DEF ConsumerTypeOK
  <2>2. outcomes'[h] = Append(outcomes[h], outcome) /\ outcomes[h] \in Seq(DOMAIN Verdict)
    BY <1>3, <2>1, Zenon
  <2>3. \A m \in Messages \ {h} : outcomes'[m] = outcomes[m]
    BY <1>3, <2>1, Zenon
  <2> HIDE DEF Verdict
  <2> QED
    BY <2>2, <2>3
<1>6. /\ Verdict[outcome] \in {"ack", "term", "nak"}
      /\ Verdict[outcome] = "ack" => outcome = "ok"
      /\ Verdict[outcome] = "term" => outcome = "poison"
      /\ Verdict[outcome] = "nak" => outcome = "error"
  BY DEF Verdict
<1>7. ConsumerTypeOK'
  <2>1. outcomes' \in [Messages -> Seq(DOMAIN Verdict)]
    BY <1>2, <1>3, <1>5, Zenon DEF ConsumerTypeOK
  <2>2. verdict' \in [Replicas -> {"ack", "term", "nak"}]
    BY <1>3, <1>6, Zenon DEF ConsumerTypeOK
  <2>3. /\ pc' \in [Replicas -> {"bind", "fetch", "handle", "settle", "sleep", "returned"}]
        /\ \A q \in Replicas : (batch'[q] # <<>>) <=> (pc'[q] \in {"handle", "settle"})
    BY <1>1, <1>3, Zenon DEF ConsumerTypeOK
  <2> QED
    BY <1>3, <1>4, <2>1, <2>2, <2>3, Zenon DEF ConsumerTypeOK, Counters
<1>8. SettledSoFar'
  <2>1. \A m \in Messages : \A o : Occurs(m, o) => Occurs(m, o)'
    <3> SUFFICES ASSUME NEW m \in Messages, NEW o, NEW i \in 1 .. Len(outcomes[m]), outcomes[m][i] = o
                 PROVE  \E j \in 1 .. Len(outcomes'[m]) : outcomes'[m][j] = o
      BY Zenon DEF Occurs
    <3>1. CASE m = h
      BY <1>5, <3>1
    <3>2. CASE m # h
      BY <1>5, <3>2, Zenon
    <3> QED
      BY <3>1, <3>2, Zenon
  <2>2. Occurs(h, outcome)'
    BY <1>5 DEF Occurs
  <2>3. \A q \in Replicas \ {r} : pc'[q] = pc[q] /\ verdict'[q] = verdict[q] /\ batch'[q] = batch[q]
    BY <1>3, Zenon DEF ConsumerTypeOK
  <2>4. \A q \in Replicas : pc[q] = "settle" => Head(batch[q]) \in Messages
    BY DEF ConsumerTypeOK
  <2>5. verdict'[r] = Verdict[outcome] /\ Head(batch'[r]) = h
    BY <1>2, <1>3, Zenon DEF ConsumerTypeOK
  <2>6. \A m \in Messages : /\ state'[m] = "acked" => Occurs(m, "ok")'
                            /\ state'[m] = "termed" => Occurs(m, "poison")'
    BY <1>3, <2>1, Zenon DEF SettledSoFar
  <2>7. ASSUME NEW q \in Replicas, pc'[q] = "settle"
        PROVE  /\ verdict'[q] = "ack" => Occurs(Head(batch[q]), "ok")'
               /\ verdict'[q] = "term" => Occurs(Head(batch[q]), "poison")'
    <3>1. CASE q = r
      BY <1>6, <2>2, <2>5, <3>1, <1>3, Zenon
    <3>2. CASE q # r
      BY <2>1, <2>3, <2>4, <2>7, <3>2, <1>3, Zenon DEF SettledSoFar
    <3> QED
      BY <3>1, <3>2, Zenon
  <2> QED
    BY <1>3, <2>6, <2>7, Zenon DEF SettledSoFar
<1>9. ASSUME NothingLost' PROVE HandledInTurn'
  <2>1. HandledInTurn
    BY <1>4, <1>9, Zenon
  <2>2. Has(r, h) /\ Waits(r, h)
    BY <1>1, <1>2, Zenon DEF Has, Waits
  <2>3. \A q \in Replicas, m \in Messages : Has(q, m)' <=> Has(q, m)
    BY <1>3, Zenon DEF Has
  <2>4. \A q \in Replicas \ {r} : ~Has(q, h) /\ ~Waits(q, h)
    BY <1>2, <2>1, <2>2 DEF HandledInTurn, HeldByOne, Has, Waits
  <2>5. \A q \in Replicas, m \in Messages : Waits(q, m)' <=> Waits(q, m) /\ m # h
    <3> SUFFICES ASSUME NEW q \in Replicas, NEW m \in Messages PROVE Waits(q, m)' <=> Waits(q, m) /\ m # h
      BY Zenon
    <3>1. CASE q = r
      <4>1. pc'[r] = "settle" /\ batch' = batch
        BY <1>3, Zenon DEF ConsumerTypeOK
      <4>2. \A i, j \in 1 .. Len(batch[r]) : batch[r][i] = batch[r][j] => i = j
        BY <2>1, Zenon DEF HandledInTurn, HeldByOne
      <4> QED
        BY <1>1, <1>2, <3>1, <4>1, <4>2, Zenon DEF Waits
    <3>2. CASE q # r
      <4>1. pc'[q] = pc[q] /\ batch' = batch
        BY <1>3, <3>2, Zenon DEF ConsumerTypeOK
      <4> QED
        BY <2>4, <3>2, <4>1, Zenon DEF Waits
    <3> QED
      BY <3>1, <3>2, Zenon
  <2>6. HeldByOne'
    BY <1>3, <2>1, <2>3, Zenon DEF HandledInTurn, HeldByOne
  <2>7. Failed(h) /\ state[h] = "pending"
    BY <1>2, <2>1, <2>2, Zenon DEF HandledInTurn, HeldByOne, FailedBefore
  <2>8. \A m \in Messages \ {h} : Failed(m)' <=> Failed(m)
    BY <1>5, Zenon DEF Failed, AllErrors
  <2>9. FailedBefore'
    <3>1. \A m \in Messages : AllErrors(outcomes'[m], Len(outcomes'[m]) - 1)
      <4>1. AllErrors(outcomes'[h], Len(outcomes'[h]) - 1)
        BY <1>5, <2>7 DEF Failed, AllErrors
      <4> QED
        BY <1>5, <2>1, <4>1, Zenon DEF HandledInTurn, FailedBefore
    <3>2. \A m \in Messages : state'[m] \in {"ready", "delayed", "dropped"} => Failed(m)'
      BY <1>3, <2>1, <2>7, <2>8, Zenon DEF HandledInTurn, FailedBefore
    <3>3. \A q \in Replicas, m \in Messages : Waits(q, m)' => Failed(m)'
      BY <2>1, <2>5, <2>8, Zenon DEF HandledInTurn, FailedBefore
    <3>4. ASSUME NEW q \in Replicas, pc'[q] = "settle", verdict'[q] = "nak" PROVE Failed(Head(batch[q]))'
      <4>1. CASE q = r
        <5>1. outcome = "error"
          BY <1>3, <1>6, <3>4, <4>1, Zenon DEF ConsumerTypeOK
        <5>2. Failed(h)'
          BY <1>5, <2>7, <5>1 DEF Failed, AllErrors
        <5> QED
          BY <1>2, <1>3, <4>1, <5>2, Zenon
      <4>2. CASE q # r
        <5>1. pc[q] = "settle" /\ verdict[q] = "nak"
          BY <1>3, <3>4, <4>2, Zenon DEF ConsumerTypeOK
        <5>2. batch[q] \in Seq(Messages) /\ batch[q] # <<>>
          BY <5>1, Zenon DEF ConsumerTypeOK
        <5>3. Head(batch[q]) \in Messages /\ Has(q, Head(batch[q]))
          BY <5>2 DEF Has
        <5>4. Head(batch[q]) # h
          BY <2>4, <4>2, <5>3, Zenon
        <5>5. Failed(Head(batch[q]))
          BY <2>1, <5>1, Zenon DEF HandledInTurn, FailedBefore
        <5> QED
          BY <1>3, <2>8, <5>3, <5>4, <5>5, Zenon
      <4> QED
        BY <4>1, <4>2, Zenon
    <3> QED
      BY <1>3, <3>1, <3>2, <3>3, <3>4, Zenon DEF FailedBefore
  <2>10. Counted'
    <3> SUFFICES ASSUME NEW m \in Messages
                 PROVE  delivered'[m] = Len(outcomes'[m]) + (IF \E q \in Replicas : Waits(q, m)' THEN 1 ELSE 0)
      BY Zenon DEF Counted
    <3>1. delivered[m] = Len(outcomes[m]) + (IF \E q \in Replicas : Waits(q, m) THEN 1 ELSE 0)
      BY <2>1, Zenon DEF HandledInTurn, Counted
    <3>2. CASE m = h
      <4>1. (\E q \in Replicas : Waits(q, m)) /\ ~(\E q \in Replicas : Waits(q, m)')
        BY <2>2, <2>5, <3>2, Zenon
      <4>2. Len(outcomes[h]) \in Nat
        BY <1>5
      <4>3. delivered[m] = Len(outcomes[m]) + 1
        BY <3>1, <4>1, Zenon
      <4>4. (IF \E q \in Replicas : Waits(q, m)' THEN 1 ELSE 0) = 0
        BY <4>1, Zenon
      <4>5. delivered'[m] = Len(outcomes'[m]) + 0
        BY <1>3, <1>5, <3>2, <4>2, <4>3
      <4> QED
        BY <4>4, <4>5, Zenon
    <3>3. CASE m # h
      BY <1>3, <1>5, <2>5, <3>1, <3>3, Zenon
    <3> QED
      BY <3>2, <3>3, Zenon
  <2> QED
    BY <1>3, <2>1, <2>6, <2>9, <2>10, Zenon DEF HandledInTurn
<1> QED
  BY <1>7, <1>8, <1>9, Zenon

(* The settlement of the message in hand reaches the server. *)
LEMMA StepSettle ==
    ASSUME ConsumerInv, NEW r \in Replicas, Settle(r)
    PROVE  ConsumerInv'
<1> USE DEF ConsumerInv
<1>1. batch[r] \in Seq(Messages) /\ batch[r] # <<>> /\ pc[r] = "settle" /\ NextMessage(r)
  BY Zenon DEF Settle, ConsumerTypeOK
<1>2. PICK h \in Messages : h = Head(batch[r]) /\ h = batch[r][1] /\ 1 \in 1 .. Len(batch[r])
  BY <1>1
<1>3. UNCHANGED <<delivered, verdict, conn, outcomes, spent>>
  BY Zenon DEF Settle, Settlement, nats
<1>4. /\ state' = [state EXCEPT ![h] = state'[h]] /\ h \in DOMAIN state'
      /\ state'[h] \in {state[h], "acked", "termed", "delayed"}
      /\ state'[h] = "acked" => state[h] = "acked" \/ verdict[r] = "ack"
      /\ state'[h] = "termed" => state[h] = "termed" \/ verdict[r] = "term"
      /\ state[h] = "pending" => state'[h] # "pending"
      /\ state[h] = "pending" /\ state'[h] = "delayed" => verdict[r] = "nak"
      /\ state'[h] = "pending" => state[h] = "pending"
  <2>1. PICK s : /\ state' = [state EXCEPT ![h] = s]
                 /\ s = CASE state[h] \notin Settled /\ verdict[r] = "ack" -> "acked"
                          [] state[h] \notin Settled /\ verdict[r] = "term" -> "termed"
                          [] state[h] = "pending" /\ verdict[r] = "nak" -> "delayed"
                          [] OTHER -> state[h]
    BY <1>2, Zenon DEF Settle, Settlement
  <2>2. DOMAIN state = Messages /\ state[h] \in {"ready", "pending", "delayed"} \cup Settled
    BY Zenon DEF ConsumerTypeOK
  <2>3. verdict[r] \in {"ack", "term", "nak"}
    BY Zenon DEF ConsumerTypeOK
  <2>4. state'[h] = s /\ h \in DOMAIN state'
    BY <2>1, <2>2, Zenon
  <2>5. CASE state[h] \notin Settled /\ verdict[r] = "ack"
    BY <2>1, <2>4, <2>5, Zenon DEF Settled
  <2>6. CASE state[h] \notin Settled /\ verdict[r] = "term"
    BY <2>1, <2>4, <2>6, Zenon DEF Settled
  <2>7. CASE state[h] = "pending" /\ verdict[r] = "nak"
    BY <2>1, <2>4, <2>7, Zenon DEF Settled
  <2>8. CASE state[h] \in Settled \/ (state[h] # "pending" /\ verdict[r] = "nak")
    <3>1. s = state[h] /\ state[h] # "pending"
      BY <2>1, <2>8, Zenon DEF Settled
    <3> QED
      BY <2>1, <2>4, <3>1, Zenon
  <2> QED
    BY <2>3, <2>5, <2>6, <2>7, <2>8, Zenon
<1>5. \A m \in Messages \ {h} : state'[m] = state[m]
  BY <1>4, Zenon DEF ConsumerTypeOK
<1>6. ConsumerTypeOK'
  <2>1. state' \in [Messages -> {"ready", "pending", "delayed"} \cup Settled]
    BY <1>4, Zenon DEF ConsumerTypeOK, Settled
  <2> QED
    BY <1>1, <1>3, <2>1, NextMessageTypes, Zenon DEF ConsumerTypeOK
<1>7. SettledSoFar'
  <2>1. \A m, o : Occurs(m, o)' <=> Occurs(m, o)
    BY <1>3, Zenon DEF Occurs
  <2>2. \A m \in Messages : /\ state'[m] = "acked" => Occurs(m, "ok")
                            /\ state'[m] = "termed" => Occurs(m, "poison")
    BY <1>1, <1>2, <1>4, <1>5, Zenon DEF SettledSoFar
  <2>3. \A q \in Replicas : pc'[q] = "settle" => pc[q] = "settle" /\ batch'[q] = batch[q]
    BY <1>1, NextMessageTypes, Zenon
  <2> QED
    BY <1>3, <2>1, <2>2, <2>3, Zenon DEF SettledSoFar
<1>8. ASSUME NothingLost' PROVE HandledInTurn'
  <2>1. HandledInTurn
    BY <1>3, <1>8, Zenon DEF NothingLost
  <2>2. /\ Tail(batch[r]) \in Seq(Messages) /\ Len(Tail(batch[r])) = Len(batch[r]) - 1
        /\ \A i \in 1 .. Len(Tail(batch[r])) : Tail(batch[r])[i] = batch[r][i + 1]
        /\ Len(batch[r]) \in Nat
    BY <1>1
  <2>3. \A q \in Replicas : batch'[q] = IF q = r THEN Tail(batch[r]) ELSE batch[q]
    BY Zenon DEF Settle, NextMessage, ConsumerTypeOK
  <2>4. /\ \A q \in Replicas \ {r} : pc'[q] = pc[q]
        /\ Tail(batch[r]) # <<>> => pc'[r] = "handle"
    BY Zenon DEF Settle, NextMessage, ConsumerTypeOK
  <2>5. \A i, j \in 1 .. Len(batch[r]) : batch[r][i] = batch[r][j] => i = j
    BY <2>1, Zenon DEF HandledInTurn, HeldByOne
  <2>6. \A m \in Messages : (Has(r, m)' <=> Has(r, m) /\ m # h) /\ (Waits(r, m)' <=> Waits(r, m))
    <3> SUFFICES ASSUME NEW m \in Messages
                 PROVE  (Has(r, m)' <=> Has(r, m) /\ m # h) /\ (Waits(r, m)' <=> Waits(r, m))
      BY Zenon
    <3>1. Has(r, m)' <=> \E i \in 2 .. Len(batch[r]) : batch[r][i] = m
      <4>1. ASSUME NEW i \in 1 .. Len(Tail(batch[r])), Tail(batch[r])[i] = m
            PROVE  \E j \in 2 .. Len(batch[r]) : batch[r][j] = m
        <5>1. i + 1 \in 2 .. Len(batch[r]) /\ batch[r][i + 1] = m
          BY <2>2, <4>1
        <5> QED
          BY <5>1, Zenon
      <4>2. ASSUME NEW j \in 2 .. Len(batch[r]), batch[r][j] = m
            PROVE  \E i \in 1 .. Len(Tail(batch[r])) : Tail(batch[r])[i] = m
        <5>1. j - 1 \in 1 .. Len(Tail(batch[r])) /\ Tail(batch[r])[j - 1] = batch[r][(j - 1) + 1] /\ (j - 1) + 1 = j
          BY <2>2
        <5> QED
          BY <4>2, <5>1, Zenon
      <4> QED
        BY <2>3, <4>1, <4>2, Zenon DEF Has
    <3>2. Waits(r, m) <=> \E i \in 2 .. Len(batch[r]) : batch[r][i] = m
      BY <1>1, <2>2 DEF Waits
    <3>3. Waits(r, m)' <=> Has(r, m)'
      <4>1. ASSUME NEW i \in 1 .. Len(Tail(batch[r])) PROVE Tail(batch[r]) # <<>>
        BY <2>2, EmptyHasNoIndex, Zenon
      <4> QED
        BY <2>3, <2>4, <4>1, Zenon DEF Has, Waits
    <3>4. (\E i \in 2 .. Len(batch[r]) : batch[r][i] = m) <=> Has(r, m) /\ m # h
      BY <1>2, <2>2, <2>5 DEF Has
    <3> QED
      BY <3>1, <3>2, <3>3, <3>4, Zenon
  <2>7. \A q \in Replicas \ {r}, m \in Messages : (Has(q, m)' <=> Has(q, m)) /\ (Waits(q, m)' <=> Waits(q, m))
    BY <2>3, <2>4, Zenon DEF Has, Waits
  <2>8. Has(r, h) /\ state[h] = "pending" /\ \A q \in Replicas \ {r} : ~Has(q, h)
    BY <1>2, <2>1 DEF HandledInTurn, HeldByOne, Has
  <2>9. HeldByOne'
    <3>1. \A q \in Replicas : \A i, j \in 1 .. Len(batch'[q]) : batch'[q][i] = batch'[q][j] => i = j
      <4>1. \A i, j \in 1 .. Len(Tail(batch[r])) : Tail(batch[r])[i] = Tail(batch[r])[j] => i = j
        <5> SUFFICES ASSUME NEW i \in 1 .. Len(Tail(batch[r])), NEW j \in 1 .. Len(Tail(batch[r])),
                            Tail(batch[r])[i] = Tail(batch[r])[j]
                     PROVE  i = j
          BY Zenon
        <5>1. i + 1 \in 1 .. Len(batch[r]) /\ j + 1 \in 1 .. Len(batch[r]) /\ batch[r][i + 1] = batch[r][j + 1]
          BY <2>2
        <5>2. i + 1 = j + 1
          BY <2>5, <5>1, Zenon
        <5> QED
          BY <5>2
      <4> QED
        BY <2>1, <2>3, <4>1, Zenon DEF HandledInTurn, HeldByOne
    <3>2. \A m \in Messages : \A p, q \in Replicas : Has(p, m)' /\ Has(q, m)' => p = q
      BY <2>1, <2>6, <2>7, Zenon DEF HandledInTurn, HeldByOne
    <3>3. \A m \in Messages : (state'[m] = "pending") <=> (\E q \in Replicas : Has(q, m)')
      <4>1. state'[h] # "pending" /\ \A q \in Replicas : ~Has(q, h)'
        BY <1>4, <2>6, <2>7, <2>8, Zenon
      <4>2. \A m \in Messages \ {h}, q \in Replicas : Has(q, m)' <=> Has(q, m)
        BY <2>6, <2>7, Zenon
      <4> QED
        BY <1>5, <2>1, <4>1, <4>2 DEF HandledInTurn, HeldByOne
    <3> QED
      BY <3>1, <3>2, <3>3, Zenon DEF HeldByOne
  <2>10. \A q \in Replicas, m \in Messages : Waits(q, m)' <=> Waits(q, m)
    BY <2>6, <2>7, Zenon
  <2>11. FailedBefore'
    <3>1. \A m : Failed(m)' <=> Failed(m)
      BY <1>3, Zenon DEF Failed, AllErrors
    <3>2. \A m \in Messages : AllErrors(outcomes'[m], Len(outcomes'[m]) - 1)
      BY <1>3, <2>1, Zenon DEF HandledInTurn, FailedBefore
    <3>3. \A m \in Messages : state'[m] \in {"ready", "delayed", "dropped"} => Failed(m)
      BY <1>1, <1>2, <1>4, <1>5, <2>1, <2>8 DEF HandledInTurn, FailedBefore
    <3>4. \A q \in Replicas : pc'[q] = "settle" => pc[q] = "settle" /\ batch'[q] = batch[q]
      BY <1>1, NextMessageTypes, Zenon
    <3> QED
      BY <1>3, <2>1, <2>10, <3>1, <3>2, <3>3, <3>4, Zenon DEF HandledInTurn, FailedBefore
  <2>12. Counted'
    BY <1>3, <2>1, <2>10, Zenon DEF HandledInTurn, Counted
  <2> QED
    BY <1>3, <2>1, <2>9, <2>11, <2>12, Zenon DEF HandledInTurn
<1> QED
  BY <1>6, <1>7, <1>8, Zenon

LEMMA StepConsumer == ConsumerInv /\ [Next]_vars => ConsumerInv'
<1> SUFFICES ASSUME ConsumerInv, [Next]_vars PROVE ConsumerInv'
  BY Zenon
<1>1. CASE UNCHANGED vars
  <2>1. /\ UNCHANGED <<state, delivered, batch, verdict, outcomes, pc, conn, spent>>
    BY <1>1, Zenon DEF vars, messages, loop, nats
  <2>2. ConsumerTypeOK' /\ SettledSoFar' /\ (NothingLost' => NothingLost)
    BY <2>1, SettledFrame, Zenon DEF ConsumerInv, ConsumerTypeOK, NothingLost
  <2>3. HandledInTurn => HandledInTurn'
    BY <2>1, InTurnFrame, Zenon DEF ConsumerInv, HandledInTurn
  <2> QED
    BY <2>2, <2>3, Zenon DEF ConsumerInv
<1>2. CASE Next
  BY <1>2, StepQuiet, StepLoses, StepFetch, StepDue, StepHandle, StepSettle, Zenon DEF Next, Step, Fetches, Handles
<1> QED
  BY <1>1, <1>2, Zenon

(* For any replicas, messages, batch size and max_deliver: a message is    *)
(* acknowledged or terminated only after a run of its handler said so, and *)
(* as long as nothing is lost every delivery is handled exactly once.      *)
THEOREM AlwaysSettledAsHandled == Spec => []SettledAsHandled
<1>1. ConsumerInv => SettledAsHandled
  <2> SUFFICES ASSUME ConsumerInv PROVE SettledAsHandled
    BY Zenon
  <2>1. ASSUME NothingLost PROVE HandledOnce
    <3>1. HandledInTurn
      BY <2>1, Zenon DEF ConsumerInv
    <3> SUFFICES ASSUME NEW m \in Messages
                 PROVE  /\ delivered[m] = Len(outcomes[m]) + Cardinality({r \in Replicas : Waits(r, m)})
                        /\ \A i \in 1 .. Len(outcomes[m]) - 1 : outcomes[m][i] = "error"
      BY Zenon DEF HandledOnce, Waits
    <3>2. \A q, r \in Replicas : Waits(q, m) /\ Waits(r, m) => q = r
      BY <3>1 DEF HandledInTurn, HeldByOne, Has, Waits
    <3>3. Cardinality({r \in Replicas : Waits(r, m)}) = IF \E r \in Replicas : Waits(r, m) THEN 1 ELSE 0
      <4>1. CASE \E r \in Replicas : Waits(r, m)
        <5>1. PICK r \in Replicas : {q \in Replicas : Waits(q, m)} = {r}
          BY <3>2, <4>1
        <5> QED
          BY <4>1, <5>1, FS_Singleton, Zenon
      <4>2. CASE ~\E r \in Replicas : Waits(r, m)
        <5>1. {q \in Replicas : Waits(q, m)} = {}
          BY <4>2, Zenon
        <5> QED
          BY <4>2, <5>1, FS_EmptySet, Zenon
      <4> QED
        BY <4>1, <4>2, Zenon
    <3> QED
      BY <3>1, <3>3, Zenon DEF HandledInTurn, Counted, FailedBefore, AllErrors
  <2> QED
    BY <2>1, Zenon DEF ConsumerInv, SettledSoFar, SettledAsHandled, Occurs
<1> QED
  BY <1>1, InitConsumer, StepConsumer, PTL DEF Spec

=============================================================================
