-------------------------- MODULE ConnectionProofs --------------------------
(***************************************************************************)
(* What processes do with a Redis connection: the lease they hold over a   *)
(* key, and the client of the replica store with the snapshots it reads,   *)
(* for any number of workers, tasks, keys and connections.                 *)
(***************************************************************************)
EXTENDS LeaderLease, ReplicaStore, FiniteSetTheorems, TLAPS

-----------------------------------------------------------------------------
(* At most one leader, for any number of workers and any TTL, as long as   *)
(* timers and commands keep up with the clock, no command raises and Redis *)
(* keeps the key; types without those assumptions.                         *)

LEMMA LeaseTypeStep == TypeOK /\ [Next]_vars => TypeOK'
<1> SUFFICES ASSUME TypeOK, [Next]_vars PROVE TypeOK'
  OBVIOUS
<1> USE OwnersDistinct, IntervalsPositive, BoundsTyped
    DEF TypeOK, Calls, RenewLoops, Extending, Goto, Loop, key, lease, faults
<1>1. ASSUME NEW w \in Workers, AcquireBegin(w) \/ SetExecutes(w) \/ AcquireReturns(w) \/ AcquireRefused(w)
      PROVE  TypeOK'
  <2>1. CASE AcquireBegin(w)
    BY <2>1 DEF AcquireBegin
  <2>2. CASE SetExecutes(w)
    BY <2>2 DEF SetExecutes
  <2>3. CASE AcquireReturns(w)
    BY <2>3 DEF AcquireReturns
  <2>4. CASE AcquireRefused(w)
    BY <2>4 DEF AcquireRefused
  <2> QED
    BY <1>1, <2>1, <2>2, <2>3, <2>4
<1>2. ASSUME NEW w \in Workers, LoopStep(w) PROVE TypeOK'
  <2>1. CASE RenewFires(w)
    BY <2>1, Zenon DEF RenewFires
  <2>2. CASE ExtendExecutes(w)
    BY <2>2 DEF ExtendExecutes
  <2>3. CASE ExtendSucceeds(w)
    BY <2>3 DEF ExtendSucceeds
  <2>4. CASE ExtendRefused(w)
    BY <2>4 DEF ExtendRefused
  <2>5. CASE ExtendRaises(w)
    BY <2>5 DEF ExtendRaises
  <2> QED
    BY <1>2, <2>1, <2>2, <2>3, <2>4, <2>5 DEF LoopStep
<1>3. ASSUME NEW w \in Workers, ReleaseBegin(w) \/ RenewCancelled(w) \/ ReleaseRaises(w)
      PROVE  TypeOK'
  <2>1. CASE ReleaseBegin(w)
    BY <2>1 DEF ReleaseBegin, AfterJoin
  <2>2. CASE RenewCancelled(w)
    BY <2>2 DEF RenewCancelled, AfterJoin
  <2>3. CASE ReleaseRaises(w)
    BY <2>3 DEF ReleaseRaises
  <2> QED
    BY <1>3, <2>1, <2>2, <2>3
<1>4. ASSUME NEW w \in Workers, DeleteExecutes(w) \/ ReleaseReturns(w) \/ CallRaises(w)
      PROVE  TypeOK'
  <2>1. CASE DeleteExecutes(w)
    BY <2>1 DEF DeleteExecutes
  <2>2. CASE ReleaseReturns(w)
    BY <2>2 DEF ReleaseReturns
  <2>3. CASE CallRaises(w)
    BY <2>3 DEF CallRaises
  <2> QED
    BY <1>4, <2>1, <2>2, <2>3
<1>5. ASSUME NEW w \in Workers, Crash(w) PROVE TypeOK'
  BY <1>5 DEF Crash
<1>6. CASE LoseKey
  BY <1>6 DEF LoseKey
<1>7. CASE Tick
  BY <1>7 DEF Tick, Less
<1>8. CASE UNCHANGED vars
  BY <1>8 DEF vars
<1> QED
  BY <1>1, <1>2, <1>3, <1>4, <1>5, <1>6, <1>7, <1>8 DEF Next, CallStep

LEMMA LeaseTypeInit == Init => TypeOK
<1> SUFFICES ASSUME Init PROVE TypeOK
  OBVIOUS
<1>1. late \in BOOLEAN
  BY Zenon DEF Init
<1> QED
  BY <1>1, OwnersDistinct, IntervalsPositive, BoundsTyped DEF Init, TypeOK, Calls, RenewLoops

(* Every variable keeps its type whatever is late, raises or is lost, and   *)
(* the key has time left exactly when it has an owner.                      *)
THEOREM LeaseTypesHold == Spec => []TypeOK
<1> QED
  BY LeaseTypeInit, LeaseTypeStep, PTL DEF Spec

-----------------------------------------------------------------------------
(* A leader owns the key and will renew it before it expires. *)

(* What is known of a worker while it leads. *)
Secure(w) ==
    /\ owner = w
    /\ renew[w] \in {"sleep", "ext", "ext_ok"}
    /\ renew[w] = "sleep" => timer[w] < ttl
    /\ renew[w] = "ext_ok" => ttl = Ttl
    /\ call[w] = "idle"

LInv ==
    /\ \A w \in Workers : Leads(w) => Secure(w)
    /\ \A w \in Workers : call[w] = "set_ok" => owner = w /\ ttl = Ttl
    /\ \A w \in Workers : call[w] \in {"joining", "del", "del_done"} => lost[w]

(* Reliability is only ever lost. *)
LEMMA ReliableBefore == TypeOK /\ [Next]_vars /\ ReliableSoFar' => ReliableSoFar
<1> SUFFICES ASSUME TypeOK, [Next]_vars, ReliableSoFar' PROVE ReliableSoFar
  OBVIOUS
<1> USE BoundsTyped DEF TypeOK, ReliableSoFar, faults
<1>1. ASSUME NEW w \in Workers,
             AcquireBegin(w) \/ ReleaseBegin(w) \/ ReleaseRaises(w) \/ Crash(w)
      PROVE  ReliableSoFar
  BY <1>1 DEF AcquireBegin, ReleaseBegin, ReleaseRaises, Crash
<1>2. ASSUME NEW w \in Workers, LoopStep(w) PROVE ReliableSoFar
  BY <1>2 DEF LoopStep, RenewFires, ExtendExecutes, ExtendSucceeds, ExtendRefused, ExtendRaises
<1>3. ASSUME NEW w \in Workers, CallStep(w) PROVE ReliableSoFar
  BY <1>3 DEF CallStep, SetExecutes, AcquireReturns, AcquireRefused, RenewCancelled,
              DeleteExecutes, ReleaseReturns, CallRaises
<1>4. CASE LoseKey
  BY <1>4 DEF LoseKey
<1>5. CASE Tick
  BY <1>5 DEF Tick
<1>6. CASE UNCHANGED vars
  BY <1>6, SMTT(30) DEF vars
<1> QED
  BY <1>1, <1>2, <1>3, <1>4, <1>5, <1>6 DEF Next

LEMMA LeadStep == TypeOK /\ ReliableSoFar' /\ LInv /\ [Next]_vars => LInv'
<1> SUFFICES ASSUME TypeOK, ReliableSoFar', LInv, [Next]_vars PROVE LInv'
  OBVIOUS
<1>t. TypeOK' /\ ReliableSoFar
  BY LeaseTypeStep, ReliableBefore
<1> USE <1>t, OwnersDistinct, IntervalsPositive, BoundsTyped
    DEF LInv, Leads, Secure, TypeOK, Goto, Loop, key, lease, faults
<1>1. ASSUME NEW w \in Workers, AcquireBegin(w) PROVE LInv'
  BY <1>1 DEF AcquireBegin, Alive, Extending
<1>2. ASSUME NEW w \in Workers, SetExecutes(w) PROVE LInv'
  BY <1>2 DEF SetExecutes
<1>3. ASSUME NEW w \in Workers, AcquireReturns(w) PROVE LInv'
  BY <1>3 DEF AcquireReturns, ReliableSoFar
<1>4. ASSUME NEW w \in Workers, AcquireRefused(w) PROVE LInv'
  BY <1>4 DEF AcquireRefused
<1>5. ASSUME NEW w \in Workers, RenewFires(w) PROVE LInv'
  BY <1>5 DEF RenewFires
<1>6. ASSUME NEW w \in Workers, ExtendExecutes(w) PROVE LInv'
  BY <1>6 DEF ExtendExecutes, ReliableSoFar
<1>7. ASSUME NEW w \in Workers, ExtendSucceeds(w) PROVE LInv'
  BY <1>7 DEF ExtendSucceeds, ReliableSoFar
<1>8. ASSUME NEW w \in Workers, ExtendRefused(w) PROVE LInv'
  BY <1>8 DEF ExtendRefused
<1>9. ASSUME NEW w \in Workers, ExtendRaises(w) \/ CallRaises(w) PROVE LInv'
  BY <1>9 DEF ExtendRaises, CallRaises, ReliableSoFar
<1>10. ASSUME NEW w \in Workers, ReleaseBegin(w) PROVE LInv'
  BY <1>10 DEF ReleaseBegin, AfterJoin
<1>11. ASSUME NEW w \in Workers, RenewCancelled(w) PROVE LInv'
  BY <1>11 DEF RenewCancelled, AfterJoin
<1>12. ASSUME NEW w \in Workers, ReleaseRaises(w) PROVE LInv'
  BY <1>12 DEF ReleaseRaises
<1>13. ASSUME NEW w \in Workers, DeleteExecutes(w) PROVE LInv'
  BY <1>13 DEF DeleteExecutes
<1>14. ASSUME NEW w \in Workers, ReleaseReturns(w) PROVE LInv'
  BY <1>14 DEF ReleaseReturns
<1>15. ASSUME NEW w \in Workers, Crash(w) PROVE LInv'
  BY <1>15 DEF Crash
<1>16. CASE LoseKey
  BY <1>16 DEF LoseKey, ReliableSoFar
<1>17. CASE Tick
  <2>1. Punctual
    BY <1>17, Zenon DEF Tick, ReliableSoFar
  <2>2. \A w \in Workers : Leads(w) => ttl > 1 /\ renew[w] = "sleep" /\ timer[w] > 0
    BY <2>1 DEF Punctual, Extending
  <2>3. \A w \in Workers : Leads(w)' => Leads(w) /\ Secure(w)'
    BY <1>17, <2>2 DEF Tick, Less
  <2> QED
    BY <1>17, <2>1, <2>3 DEF Tick, Punctual
<1>18. CASE UNCHANGED vars
  BY <1>18 DEF vars
<1> QED
  BY <1>1, <1>2, <1>3, <1>4, <1>5, <1>6, <1>7, <1>8, <1>9, <1>10, <1>11, <1>12, <1>13, <1>14,
     <1>15, <1>16, <1>17, <1>18 DEF Next, LoopStep, CallStep

(* "only the leader should execute the protected task(s)": as long as       *)
(* renewals keep up with the clock and Redis neither raises nor loses the   *)
(* key, two workers never both see LeaderLease.held.                        *)
THEOREM OnlyOneLeader == Spec => []SoleLeader
<1> DEFINE IInv == TypeOK /\ (ReliableSoFar => LInv)
<1>1. Init => IInv
  BY LeaseTypeInit DEF Init, LInv, Leads
<1>2. IInv /\ [Next]_vars => IInv'
  BY LeaseTypeStep, ReliableBefore, LeadStep
<1>3. IInv => SoleLeader
  BY DEF LInv, SoleLeader, AtMostOneLeads, Secure
<1> QED
  BY <1>1, <1>2, <1>3, PTL DEF Spec

-----------------------------------------------------------------------------
(* NoOrphanConnection and SnapshotAge for any number of calls, keys and    *)
(* lifetimes.  Only the holder of the connect lock connects, and while it  *)
(* does there is no client that it could replace.  An entry expires no     *)
(* later than its lifetime and one answer of Redis after it was seen.      *)


Answers == [key : SnapshotKeys, value : Nat, seen : Nat]
Entries == [key : SnapshotKeys, value : Nat, seen : Nat, expires : Int]
YoungEntries == {e \in Entries : e.expires <= e.seen + LocalTtl + SocketTimeout}
StoreRecords ==
    [op : {"none", "start", "set", "get"},
     pc : {"idle", "lock", "connect", "execute", "mget", "answer", "close", "done"},
     keys : SUBSET SnapshotKeys, value : Nat, using : Nat, got : SUBSET Answers, at : Nat]

StoreTypeOK ==
    /\ redisEnabled \in BOOLEAN /\ storeClock \in Nat /\ version \in Nat
    /\ local \in Seq(YoungEntries)
    /\ client \in Nat /\ connectLock \in Nat
    /\ clients \in Seq({"connecting", "open", "closing", "closed"})
    /\ remote \in [SnapshotKeys -> [value : Nat, expires : Int]]
    /\ storeTasks \in [StoreTasks -> StoreRecords]

Connections ==
    /\ client \in 0..Len(clients)
    /\ \A t \in StoreTasks : storeTasks[t].pc \in {"connect", "close"} => storeTasks[t].using \in 1..Len(clients)
    /\ \A t \in StoreTasks : storeTasks[t].pc = "connect" => connectLock = t /\ client = NoClient
    /\ NoOrphanConnection

AnswersInTime ==
    \A t \in StoreTasks : storeTasks[t].pc = "answer" =>
        storeClock <= storeTasks[t].at + SocketTimeout /\ \A g \in storeTasks[t].got : g.seen = storeTasks[t].at

LEMMA LeastOf ==
  ASSUME NEW S \in SUBSET Nat, S # {}
  PROVE  \E m \in S : \A k \in S : m <= k
<1>. DEFINE R == OpToRel(<, Nat)
<1>1. IsWellFoundedOn(R, Nat)
  BY NatLessThanWellFounded, Zenon
<1>2. PICK m \in S : \A y \in S : ~(<<y, m>> \in R)
  <2>. HIDE DEF R
  <2>. QED  BY <1>1, WFMin, Zenon
<1>3. \A y \in S : <<y, m>> \in R <=> y < m
  BY Zenon DEF OpToRel
<1>. HIDE DEF R
<1>4. \A y \in S : ~(y < m) /\ y \in Nat
  BY <1>2, <1>3, Zenon
<1>5. \A y \in S : m <= y
  BY <1>4
<1>. QED  BY <1>5, Zenon

(* Pruning keeps a part of the entries as they are.                        *)
LEMMA TailIsSequence ==
  ASSUME NEW S, NEW s \in Seq(S), NEW m \in 1..(Len(s) + 1)
  PROVE  SubSeq(s, m, Len(s)) \in Seq(S)
<1>1. m \in Nat /\ Len(s) \in Nat /\ Len(s) - m + 1 \in Nat
  OBVIOUS
<1>2. SubSeq(s, m, Len(s)) = [i \in 1..(Len(s) - m + 1) |-> s[i + m - 1]]
  BY <1>1 DEF SubSeq
<1>3. \A i \in 1..(Len(s) - m + 1) : s[i + m - 1] \in S
  BY <1>1
<1>. QED  BY <1>1, <1>2, <1>3

LEMMA PrunedEntries ==
  ASSUME NEW S, NEW s \in Seq(S)
  PROVE  Pruned(s) \in Seq(S)
<1>. DEFINE alive == {i \in 1..Len(s) : s[i].expires > storeClock}
            first == CHOOSE i \in alive : \A j \in alive : i <= j
<1>1. CASE alive = {}
  BY <1>1 DEF Pruned
<1>2. CASE alive # {}
  <2>1. \E m \in alive : \A k \in alive : m <= k
    <3>1. alive \in SUBSET Nat
      OBVIOUS
    <3>. HIDE DEF alive
    <3>. QED  BY <1>2, <3>1, LeastOf, Zenon
  <2>2. first \in 1..Len(s)
    BY <2>1, Zenon
  <2>3. Pruned(s) = SubSeq(s, first, Len(s))
    BY <1>2, Zenon DEF Pruned
  <2>. HIDE DEF first, alive
  <2>4. first \in 1..(Len(s) + 1)
    BY <2>2
  <2>. QED  BY <2>3, <2>4, TailIsSequence, Zenon
<1>. QED  BY <1>1, <1>2, Zenon

LEMMA LimitedEntries ==
  ASSUME NEW S, NEW s \in Seq(S)
  PROVE  Limited(s) \in Seq(S)
<1>1. CASE ~(Len(s) > MaxLocal)
  BY <1>1, Zenon DEF Limited
<1>2. CASE Len(s) > MaxLocal
  <2>1. PICK m \in 1..(Len(s) + 1) : m = Len(s) - MaxLocal + 1
    <3>1. Len(s) \in Nat /\ MaxLocal \in Nat
      BY StoreAssumption
    <3>2. Len(s) - MaxLocal + 1 \in 1..(Len(s) + 1)
      BY <1>2, <3>1
    <3>. QED  BY <3>2, Zenon
  <2>2. Limited(s) = SubSeq(s, m, Len(s))
    BY <1>2, <2>1, Zenon DEF Limited
  <2>. QED  BY <2>2, TailIsSequence, Zenon
<1>. QED  BY <1>1, <1>2, Zenon

LEMMA OrderedIsSequence ==
  ASSUME NEW S, NEW o \in Ordered(S)
  PROVE  o \in Seq(S) /\ DOMAIN o = 1..Len(o)
<1>1. Cardinality(SnapshotKeys) \in Nat
  BY StoreAssumption, FS_CardinalityType, Zenon
<1>2. PICK n \in 0..Cardinality(SnapshotKeys) : o \in [1..n -> S]
  BY ZenonT(40) DEF Ordered
<1>3. n \in Nat
  BY <1>1, <1>2
<1>. QED  BY <1>2, <1>3

(* What _set_local_many leaves in the local layer is young enough when     *)
(* what it is given was seen no longer than one answer ago.                *)
LEMMA SetLocalEntries ==
  ASSUME StoreTypeOK, NEW new \in SUBSET Answers, SetLocalMany(new),
         \A n \in new : storeClock <= n.seen + SocketTimeout
  PROVE  local' \in Seq(YoungEntries)
<1>1. CASE new = {} \/ LocalTtl <= 0
  BY <1>1, Zenon DEF SetLocalMany, StoreTypeOK
<1>2. CASE ~(new = {} \/ LocalTtl <= 0)
  <2>. DEFINE old == Pruned(local)
              others == {i \in 1..Len(old) : \A n \in new : n.key # old[i].key}
              kept(k) == [i \in DOMAIN k |-> old[k[i]]]
              added(o) == [i \in DOMAIN o |-> [key |-> o[i].key, value |-> o[i].value,
                                               seen |-> o[i].seen, expires |-> Expiry(o[i])]]
  <2>1. PICK k \in Ordered(others), o \in Ordered(new) : local' = Limited(kept(k) \o added(o))
    BY <1>2, Zenon DEF SetLocalMany
  <2>2. old \in Seq(YoungEntries)
    BY PrunedEntries, Zenon DEF StoreTypeOK
  <2>3. kept(k) \in Seq(YoungEntries)
    <3>1. k \in Seq(others) /\ DOMAIN k = 1..Len(k)
      BY OrderedIsSequence, Zenon
    <3>2. \A i \in 1..Len(k) : k[i] \in 1..Len(old)
      BY <3>1
    <3>. HIDE DEF old
    <3>3. \A i \in 1..Len(k) : old[k[i]] \in YoungEntries
      BY <2>2, <3>2
    <3>. QED  BY <3>1, <3>3
  <2>4. added(o) \in Seq(YoungEntries)
    <3>1. o \in Seq(new) /\ DOMAIN o = 1..Len(o)
      BY OrderedIsSequence, Zenon
    <3>2. ASSUME NEW n \in new
          PROVE  [key |-> n.key, value |-> n.value, seen |-> n.seen, expires |-> Expiry(n)] \in YoungEntries
      <4>1. /\ n.key \in SnapshotKeys /\ n.value \in Nat /\ n.seen \in Nat /\ storeClock \in Nat
            /\ SocketTimeout \in Nat /\ LocalTtl \in Int /\ storeClock <= n.seen + SocketTimeout
        BY StoreAssumption, Zenon DEF Answers, StoreTypeOK
      <4>2. storeClock + LocalTtl \in Int /\ storeClock + LocalTtl <= n.seen + LocalTtl + SocketTimeout
        BY <4>1
      <4>. QED  BY <4>1, <4>2, Zenon DEF YoungEntries, Entries, Expiry
    <3>3. \A i \in 1..Len(o) : o[i] \in new
      BY <3>1
    <3>. QED  BY <3>1, <3>2, <3>3
  <2>5. kept(k) \o added(o) \in Seq(YoungEntries)
    <3>. HIDE DEF kept, added
    <3>. QED  BY <2>3, <2>4
  <2>. HIDE DEF kept, added
  <2>. QED  BY <2>1, <2>5, LimitedEntries, Zenon
<1>. QED  BY <1>1, <1>2, Zenon

StoreInv == StoreTypeOK /\ Connections /\ AnswersInTime

LEMMA FreshRecord ==
  ASSUME NEW pc \in {"idle", "lock", "connect", "execute", "mget", "answer", "close", "done"}
  PROVE  /\ [Fresh EXCEPT !.pc = pc] \in StoreRecords /\ [Fresh EXCEPT !.pc = pc].pc = pc
         /\ Fresh \in StoreRecords /\ Fresh.pc = "idle"
  BY Zenon DEF Fresh, StoreRecords, NoClient

LEMMA StoreInitially == StoreInit => StoreInv
<1>. SUFFICES ASSUME StoreInit PROVE StoreInv
  BY Zenon
<1>1. storeTasks \in [StoreTasks -> StoreRecords] /\ \A t \in StoreTasks : storeTasks[t].pc = "idle"
  BY FreshRecord, Zenon DEF StoreInit
<1>2. StoreTypeOK
  <2>1. remote \in [SnapshotKeys -> [value : Nat, expires : Int]]
    BY DEF StoreInit
  <2>. QED  BY <1>1, <2>1, StoreAssumption DEF StoreInit, StoreTypeOK, NoClient, NoTask
<1>3. clients = <<>> /\ client = 0
  BY Zenon DEF StoreInit, NoClient
<1>. QED  BY <1>1, <1>2, <1>3 DEF StoreInv, Connections, NoOrphanConnection, AnswersInTime

(* A task that neither connects nor closes moves on to another such step.  *)
LEMMA TaskMoves ==
  ASSUME StoreInv, NEW t \in StoreTasks, NEW q \in StoreRecords,
         storeTasks' = [storeTasks EXCEPT ![t] = q],
         storeTasks[t].pc \notin {"connect", "close"}, q.pc \notin {"connect", "close", "answer"},
         UNCHANGED <<client, clients, connectLock, storeClock>>
  PROVE  storeTasks' \in [StoreTasks -> StoreRecords] /\ Connections' /\ AnswersInTime'
<1>. USE DEF StoreInv, StoreTypeOK
<1>1. storeTasks' \in [StoreTasks -> StoreRecords]
  BY Zenon
<1>2. storeTasks'[t] = q /\ \A s \in StoreTasks \ {t} : storeTasks'[s] = storeTasks[s]
  BY Zenon
<1>3. \A s \in StoreTasks : storeTasks[s].pc \in {"connect", "close"} => storeTasks'[s] = storeTasks[s]
  BY <1>2, Zenon
<1>4. \A s \in StoreTasks : storeTasks'[s].pc \in {"connect", "close", "answer"} => storeTasks'[s] = storeTasks[s]
  BY <1>2, Zenon
<1>5. NoOrphanConnection'
  BY <1>3, Zenon DEF Connections, NoOrphanConnection
<1>6. AnswersInTime'
  BY <1>4, Zenon DEF AnswersInTime
<1>. QED  BY <1>1, <1>4, <1>5, <1>6, Zenon DEF Connections

(* start(), from any call: the task that connects holds the lock.          *)
LEMMA StartStep ==
  ASSUME StoreInv, NEW t \in StoreTasks, NEW r \in StoreRecords, Start(t, r),
         storeTasks[t].pc \in {"idle", "lock"}, UNCHANGED <<client, storeClock>>
  PROVE  /\ storeTasks' \in [StoreTasks -> StoreRecords] /\ Connections' /\ AnswersInTime'
         /\ clients' \in Seq({"connecting", "open", "closing", "closed"}) /\ connectLock' \in Nat
<1>. USE DEF StoreInv, StoreTypeOK
<1>1. CASE client # NoClient /\ Resume(t, r, client) /\ UNCHANGED <<clients, connectLock>>
  <2>1. PICK q \in StoreRecords : /\ storeTasks' = [storeTasks EXCEPT ![t] = q]
                                  /\ q.pc \in {"done", "execute", "mget"}
    <3>1. CASE r.op = "start"
      BY <1>1, <3>1, FreshRecord, Zenon DEF Resume
    <3>2. CASE r.op # "start"
      <4>1. [r EXCEPT !.using = client, !.pc = IF r.op = "set" THEN "execute" ELSE "mget"] \in StoreRecords
        BY Zenon DEF StoreRecords
      <4>2. [r EXCEPT !.using = client, !.pc = IF r.op = "set" THEN "execute" ELSE "mget"].pc \in {"execute", "mget"}
        BY Zenon DEF StoreRecords
      <4>. QED  BY <1>1, <3>2, <4>1, <4>2, Zenon DEF Resume
    <3>. QED  BY <3>1, <3>2, Zenon
  <2>. QED  BY <1>1, <2>1, TaskMoves, Zenon
<1>2. CASE /\ client = NoClient /\ connectLock = NoTask /\ connectLock' = t
           /\ clients' = Append(clients, "connecting")
           /\ storeTasks' = [storeTasks EXCEPT ![t] = [r EXCEPT !.pc = "connect", !.using = Len(clients) + 1]]
  <2>1. PICK q \in StoreRecords : q = [r EXCEPT !.pc = "connect", !.using = Len(clients) + 1]
    <3>1. \A a \in StoreRecords : [a EXCEPT !.pc = "connect"] \in StoreRecords
      BY Zenon DEF StoreRecords
    <3>2. \A a \in StoreRecords, n \in Nat : [a EXCEPT !.using = n] \in StoreRecords
      BY Zenon DEF StoreRecords
    <3>3. Len(clients) + 1 \in Nat
      OBVIOUS
    <3>. QED  BY <3>1, <3>2, <3>3, Zenon
  <2>2. q.pc = "connect" /\ q.using = Len(clients) + 1
    BY <2>1, Zenon DEF StoreRecords
  <2>3. storeTasks' = [storeTasks EXCEPT ![t] = q] /\ storeTasks' \in [StoreTasks -> StoreRecords]
    BY <1>2, <2>1, Zenon
  <2>4. storeTasks'[t] = q /\ \A s \in StoreTasks \ {t} : storeTasks'[s] = storeTasks[s]
    BY <2>3, Zenon
  <2>5. /\ clients' \in Seq({"connecting", "open", "closing", "closed"}) /\ Len(clients') = Len(clients) + 1
        /\ \A c \in 1..Len(clients) : clients'[c] = clients[c]
    BY <1>2
  <2>6. t \in Nat \ {0}
    BY StoreAssumption DEF StoreTasks
  <2>7. \A s \in StoreTasks : storeTasks[s].pc # "connect"
    BY <1>2, StoreAssumption DEF Connections, NoTask, StoreTasks
  <2>8. NoOrphanConnection'
    <3>. SUFFICES ASSUME NEW c \in DOMAIN clients', clients'[c] # "closed"
                  PROVE  \/ client' = c
                         \/ \E s \in StoreTasks : /\ storeTasks'[s].using = c
                                                  /\ storeTasks'[s].pc \in {"connect", "close"}
      BY Zenon DEF NoOrphanConnection
    <3>. c \in 1..Len(clients')
      BY <2>5
    <3>1. CASE c = Len(clients) + 1
      BY <2>2, <2>4, <3>1, Zenon
    <3>2. CASE c \in 1..Len(clients)
      <4>1. \A s \in StoreTasks : storeTasks[s].pc \in {"connect", "close"} => storeTasks'[s] = storeTasks[s]
        BY <2>4, Zenon
      <4>2. clients[c] # "closed" /\ c \in DOMAIN clients /\ client # c
        BY <1>2, <2>5, <3>2 DEF NoClient
      <4>3. PICK s \in StoreTasks : storeTasks[s].using = c /\ storeTasks[s].pc \in {"connect", "close"}
        BY <4>2, Zenon DEF Connections, NoOrphanConnection
      <4>. QED  BY <4>1, <4>3, Zenon
    <3>. QED  BY <2>5, <3>1, <3>2
  <2>9. Connections'
    BY <1>2, <2>2, <2>4, <2>5, <2>7, <2>8 DEF Connections, NoClient
  <2>10. AnswersInTime'
    BY <2>2, <2>4, Zenon DEF AnswersInTime
  <2>. QED  BY <1>2, <2>3, <2>5, <2>6, <2>9, <2>10, Zenon
<1>3. CASE /\ storeTasks' = [storeTasks EXCEPT ![t] = [r EXCEPT !.pc = "lock"]]
           /\ UNCHANGED <<clients, connectLock>>
  <2>1. [r EXCEPT !.pc = "lock"] \in StoreRecords /\ [r EXCEPT !.pc = "lock"].pc = "lock"
    BY Zenon DEF StoreRecords
  <2>. QED  BY <1>3, <2>1, TaskMoves, Zenon
<1>. QED  BY <1>1, <1>2, <1>3, Zenon DEF Start

LEMMA DoneStep ==
  ASSUME StoreInv, NEW t \in StoreTasks, Done(t), storeTasks[t].pc \notin {"connect", "close"},
         UNCHANGED <<client, storeClock>>
  PROVE  /\ storeTasks' \in [StoreTasks -> StoreRecords] /\ Connections' /\ AnswersInTime'
         /\ UNCHANGED <<clients, connectLock>>
  BY FreshRecord, TaskMoves, Zenon DEF Done

LEMMA StoreClockStep ==
  ASSUME StoreInv, StoreTick \/ \E k \in SnapshotKeys : OtherSets(k)
  PROVE  StoreInv'
<1>. USE DEF StoreInv, StoreTypeOK
<1>1. /\ UNCHANGED <<redisEnabled, local, client, clients, connectLock, storeTasks>>
      /\ storeClock' \in Nat /\ version' \in Nat
      /\ \A t \in StoreTasks : storeTasks[t].pc = "answer" => storeClock' <= storeTasks[t].at + SocketTimeout
  <2>1. CASE StoreTick
    <3>1. \A t \in StoreTasks : storeTasks[t].at + SocketTimeout \in Nat
      BY StoreAssumption DEF StoreRecords
    <3>. QED  BY <2>1, <3>1 DEF StoreTick
  <2>2. CASE \E k \in SnapshotKeys : OtherSets(k)
    BY <2>2 DEF OtherSets, AnswersInTime
  <2>. QED  BY <2>1, <2>2, Zenon
<1>2. remote' \in [SnapshotKeys -> [value : Nat, expires : Int]]
  <2>1. storeClock + RemoteTtl \in Int
    BY StoreAssumption
  <2>2. CASE StoreTick
    BY <2>2, Zenon DEF StoreTick
  <2>3. ASSUME NEW k \in SnapshotKeys, OtherSets(k)
        PROVE  remote' \in [SnapshotKeys -> [value : Nat, expires : Int]]
    <3>1. remote' = [remote EXCEPT ![k] = [value |-> version', expires |-> storeClock + RemoteTtl]]
      BY <2>3, Zenon DEF OtherSets
    <3>. QED  BY <1>1, <2>1, <3>1, Zenon
  <2>. QED  BY <2>2, <2>3, Zenon
<1>. QED  BY <1>1, <1>2, Zenon DEF Connections, NoOrphanConnection, AnswersInTime

(* The calls of the store, and a start() that waited for the lock.         *)
LEMMA StoreCallStep ==
  ASSUME StoreInv, NEW t \in StoreTasks,
         \/ CallStart(t) \/ LockGranted(t)
         \/ \E ks \in SUBSET SnapshotKeys \ {{}} : SetMany(t, ks) \/ GetMany(t, ks)
  PROVE  StoreInv'
<1>. USE DEF StoreInv, StoreTypeOK
<1>1. CASE CallStart(t)
  <2>1. PICK r \in StoreRecords : r = [Fresh EXCEPT !.op = "start"]
    BY Zenon DEF Fresh, StoreRecords, NoClient
  <2>2. UNCHANGED <<redisEnabled, storeClock, local, client, remote, version>> /\ storeTasks[t].pc = "idle"
    BY <1>1, Zenon DEF CallStart, Arrives
  <2>3. Start(t, r) \/ Done(t)
    BY <1>1, <2>1, Zenon DEF CallStart
  <2>. QED  BY <2>2, <2>3, StartStep, DoneStep, Zenon
<1>2. CASE LockGranted(t)
  <2>1. UNCHANGED <<redisEnabled, storeClock, local, client, remote, version>> /\ storeTasks[t].pc = "lock"
    BY <1>2, Zenon DEF LockGranted
  <2>2. Start(t, storeTasks[t]) /\ storeTasks[t] \in StoreRecords
    BY <1>2, Zenon DEF LockGranted
  <2>. QED  BY <2>1, <2>2, StartStep, Zenon
<1>3. ASSUME NEW ks \in SUBSET SnapshotKeys \ {{}}, SetMany(t, ks)
      PROVE  StoreInv'
  <2>1. /\ UNCHANGED <<redisEnabled, storeClock, client, remote>> /\ storeTasks[t].pc = "idle"
        /\ version' = version + 1
    BY <1>3, Zenon DEF SetMany, Arrives
  <2>2. PICK new \in SUBSET Answers : /\ SetLocalMany(new)
                                      /\ \A n \in new : n.seen = storeClock
    <3>1. SetLocalMany({[key |-> k, value |-> version', seen |-> storeClock] : k \in ks})
      BY <1>3, Zenon DEF SetMany
    <3>2. {[key |-> k, value |-> version', seen |-> storeClock] : k \in ks} \in SUBSET Answers
      BY <2>1 DEF Answers
    <3>. QED  BY <3>1, <3>2
  <2>3. local' \in Seq(YoungEntries)
    <3>1. \A n \in new : storeClock <= n.seen + SocketTimeout
      BY <2>2, StoreAssumption
    <3>. QED  BY <2>2, <3>1, SetLocalEntries, Zenon
  <2>4. PICK r \in StoreRecords : r = [Fresh EXCEPT !.op = "set", !.keys = ks, !.value = version + 1]
    <3>1. \A a \in StoreRecords : [a EXCEPT !.op = "set"] \in StoreRecords
      BY Zenon DEF StoreRecords
    <3>2. \A a \in StoreRecords : [a EXCEPT !.keys = ks] \in StoreRecords
      BY Zenon DEF StoreRecords
    <3>3. \A a \in StoreRecords, n \in Nat : [a EXCEPT !.value = n] \in StoreRecords
      BY Zenon DEF StoreRecords
    <3>4. version + 1 \in Nat
      OBVIOUS
    <3>. QED  BY <3>1, <3>2, <3>3, <3>4, FreshRecord, Zenon
  <2>5. Start(t, r) \/ Done(t)
    BY <1>3, <2>4, Zenon DEF SetMany
  <2>6. version' \in Nat
    BY <2>1
  <2>7. CASE Start(t, r)
    BY <2>1, <2>3, <2>6, <2>7, StartStep, Zenon
  <2>8. CASE Done(t)
    BY <2>1, <2>3, <2>6, <2>8, DoneStep, Zenon
  <2>. QED  BY <2>5, <2>7, <2>8, Zenon
<1>4. ASSUME NEW ks \in SUBSET SnapshotKeys \ {{}}, GetMany(t, ks)
      PROVE  StoreInv'
  <2>1. /\ UNCHANGED <<redisEnabled, storeClock, client, remote, version>> /\ storeTasks[t].pc = "idle"
        /\ local' = Pruned(local)
    BY <1>4, Zenon DEF GetMany, Arrives
  <2>2. local' \in Seq(YoungEntries)
    BY <2>1, PrunedEntries, Zenon
  <2>3. PICK missing \in SUBSET SnapshotKeys :
          LET r == [Fresh EXCEPT !.op = "get", !.keys = missing] IN Start(t, r) \/ Done(t)
    BY <1>4, Zenon DEF GetMany
  <2>4. PICK r \in StoreRecords : r = [Fresh EXCEPT !.op = "get", !.keys = missing]
    BY Zenon DEF Fresh, StoreRecords, NoClient
  <2>5. Start(t, r) \/ Done(t)
    BY <2>3, <2>4, Zenon
  <2>. QED  BY <2>1, <2>2, <2>5, StartStep, DoneStep, Zenon
<1>. QED  BY <1>1, <1>2, <1>3, <1>4, Zenon

(* A client that has connected becomes the store's own: there is no other. *)
LEMMA StoreConnectedStep ==
  ASSUME StoreInv, NEW t \in StoreTasks, StoreConnected(t)
  PROVE  StoreInv'
<1>. USE DEF StoreInv, StoreTypeOK
<1>1. PICK r \in StoreRecords : r = storeTasks[t] /\ r.pc = "connect"
  BY Zenon DEF StoreConnected
<1>2. /\ clients' = [clients EXCEPT ![r.using] = "open"] /\ client' = r.using /\ connectLock' = NoTask
      /\ Resume(t, r, r.using) /\ UNCHANGED <<redisEnabled, storeClock, local, remote, version>>
  BY <1>1, Zenon DEF StoreConnected
<1>3. /\ client = NoClient /\ connectLock = t /\ r.using \in 1..Len(clients) /\ r.using \in Nat
      /\ \A s \in StoreTasks \ {t} : storeTasks[s].pc # "connect"
  BY <1>1 DEF Connections
<1>4. /\ clients' \in Seq({"connecting", "open", "closing", "closed"}) /\ Len(clients') = Len(clients)
      /\ DOMAIN clients' = 1..Len(clients) /\ DOMAIN clients = 1..Len(clients)
      /\ \A c \in 1..Len(clients) : c # r.using => clients'[c] = clients[c]
  BY <1>2, <1>3
<1>5. PICK q \in StoreRecords : storeTasks' = [storeTasks EXCEPT ![t] = q] /\ q.pc \in {"done", "execute", "mget"}
  <2>1. CASE r.op = "start"
    BY <1>2, <2>1, FreshRecord, Zenon DEF Resume
  <2>2. CASE r.op # "start"
    <3>1. PICK c \in Nat : c = r.using
      BY <1>3, Zenon
    <3>2. [r EXCEPT !.using = c, !.pc = IF r.op = "set" THEN "execute" ELSE "mget"] \in StoreRecords
      BY Zenon DEF StoreRecords
    <3>3. [r EXCEPT !.using = c, !.pc = IF r.op = "set" THEN "execute" ELSE "mget"].pc \in {"execute", "mget"}
      BY Zenon DEF StoreRecords
    <3>. QED  BY <1>2, <2>2, <3>1, <3>2, <3>3, Zenon DEF Resume
  <2>. QED  BY <2>1, <2>2, Zenon
<1>6. storeTasks'[t] = q /\ \A s \in StoreTasks \ {t} : storeTasks'[s] = storeTasks[s]
  BY <1>5, Zenon
<1>7. StoreTypeOK'
  BY <1>2, <1>3, <1>4, <1>5, Zenon DEF NoTask
<1>8. NoOrphanConnection'
  <2>. SUFFICES ASSUME NEW c \in 1..Len(clients), clients'[c] # "closed", c # r.using
                PROVE  \E s \in StoreTasks : storeTasks'[s].using = c /\ storeTasks'[s].pc \in {"connect", "close"}
    BY <1>2, <1>4, Zenon DEF NoOrphanConnection
  <2>1. clients[c] # "closed" /\ client # c
    BY <1>3, <1>4 DEF NoClient
  <2>2. PICK s \in StoreTasks : storeTasks[s].using = c /\ storeTasks[s].pc \in {"connect", "close"}
    BY <1>4, <2>1, Zenon DEF Connections, NoOrphanConnection
  <2>. QED  BY <1>1, <1>6, <2>2, Zenon
<1>9. Connections'
  BY <1>2, <1>3, <1>4, <1>5, <1>6, <1>8 DEF Connections
<1>10. AnswersInTime'
  BY <1>2, <1>5, <1>6, Zenon DEF AnswersInTime
<1>. QED  BY <1>7, <1>9, <1>10, Zenon

(* A failed connect and a finished close both end with a closed client.    *)
LEMMA StoreClosesStep ==
  ASSUME StoreInv, NEW t \in StoreTasks, ConnectFails(t) \/ Closed(t)
  PROVE  StoreInv'
<1>. USE DEF StoreInv, StoreTypeOK
<1>1. /\ clients' = [clients EXCEPT ![storeTasks[t].using] = "closed"]
      /\ storeTasks' = [storeTasks EXCEPT ![t] = [Fresh EXCEPT !.pc = "done"]]
      /\ storeTasks[t].pc \in {"connect", "close"}
      /\ UNCHANGED <<redisEnabled, storeClock, local, client, remote, version>>
      /\ storeTasks[t].pc = "connect" => connectLock' = NoTask
      /\ storeTasks[t].pc = "close" => connectLock' = connectLock
  BY Zenon DEF ConnectFails, Closed
<1>2. /\ storeTasks[t].using \in 1..Len(clients)
      /\ storeTasks[t].pc = "connect" => connectLock = t
  BY <1>1, Zenon DEF Connections
<1>3. /\ clients' \in Seq({"connecting", "open", "closing", "closed"}) /\ Len(clients') = Len(clients)
      /\ DOMAIN clients' = 1..Len(clients) /\ DOMAIN clients = 1..Len(clients)
      /\ clients'[storeTasks[t].using] = "closed"
      /\ \A c \in 1..Len(clients) : c # storeTasks[t].using => clients'[c] = clients[c]
  BY <1>1, <1>2
<1>4. PICK q \in StoreRecords : storeTasks' = [storeTasks EXCEPT ![t] = q] /\ q.pc = "done"
  BY <1>1, FreshRecord, Zenon
<1>5. storeTasks'[t] = q /\ \A s \in StoreTasks \ {t} : storeTasks'[s] = storeTasks[s]
  BY <1>4, Zenon
<1>6. connectLock' \in Nat /\ (connectLock' # connectLock => connectLock = t)
  BY <1>1, <1>2 DEF NoTask
<1>7. StoreTypeOK'
  BY <1>1, <1>3, <1>4, <1>6, ZenonT(40)
<1>8. NoOrphanConnection'
  <2>. SUFFICES ASSUME NEW c \in 1..Len(clients), clients'[c] # "closed", client # c
                PROVE  \E s \in StoreTasks : storeTasks'[s].using = c /\ storeTasks'[s].pc \in {"connect", "close"}
    BY <1>1, <1>3 DEF NoOrphanConnection
  <2>1. PICK s \in StoreTasks : storeTasks[s].using = c /\ storeTasks[s].pc \in {"connect", "close"}
    BY <1>3, Zenon DEF Connections, NoOrphanConnection
  <2>. QED  BY <1>3, <1>5, <2>1, Zenon
<1>9. Connections'
  BY <1>1, <1>3, <1>4, <1>5, <1>6, <1>8 DEF Connections
<1>10. AnswersInTime'
  BY <1>1, <1>4, <1>5 DEF AnswersInTime
<1>. QED  BY <1>7, <1>9, <1>10, Zenon

(* stop() takes the client away from the store, to close it.               *)
LEMMA CallStopStep ==
  ASSUME StoreInv, NEW t \in StoreTasks, CallStop(t)
  PROVE  StoreInv'
<1>. USE DEF StoreInv, StoreTypeOK
<1>1. /\ storeTasks[t].pc = "idle" /\ local' = <<>> /\ client' = NoClient
      /\ clients' = IF client = NoClient THEN clients ELSE [clients EXCEPT ![client] = "closing"]
      /\ UNCHANGED <<redisEnabled, storeClock, connectLock, remote, version>>
  BY Zenon DEF CallStop, Arrives
<1>2. PICK q \in StoreRecords : /\ storeTasks' = [storeTasks EXCEPT ![t] = q] /\ q.using = client
                                /\ q.pc = IF client = NoClient THEN "done" ELSE "close"
  <2>1. PICK pc \in {"done", "close"} : pc = IF client = NoClient THEN "done" ELSE "close"
    BY Zenon
  <2>2. [Fresh EXCEPT !.using = client, !.pc = pc] \in StoreRecords
    <3>1. \A a \in StoreRecords : [a EXCEPT !.using = client] \in StoreRecords
      BY Zenon DEF StoreRecords
    <3>2. \A a \in StoreRecords : [a EXCEPT !.pc = pc] \in StoreRecords
      BY Zenon DEF StoreRecords
    <3>. QED  BY <3>1, <3>2, FreshRecord, Zenon
  <2>3. [Fresh EXCEPT !.using = client, !.pc = pc].using = client /\ [Fresh EXCEPT !.using = client, !.pc = pc].pc = pc
    BY Zenon DEF Fresh
  <2>4. storeTasks' = [storeTasks EXCEPT ![t] = [Fresh EXCEPT !.using = client, !.pc = pc]]
    BY <2>1, Zenon DEF CallStop
  <2>. QED  BY <2>1, <2>2, <2>3, <2>4, Zenon
<1>3. storeTasks'[t] = q /\ \A s \in StoreTasks \ {t} : storeTasks'[s] = storeTasks[s]
  BY <1>2, Zenon
<1>4. client \in 0..Len(clients)
  BY Zenon DEF Connections
<1>5. /\ clients' \in Seq({"connecting", "open", "closing", "closed"}) /\ Len(clients') = Len(clients)
      /\ DOMAIN clients' = 1..Len(clients) /\ DOMAIN clients = 1..Len(clients)
      /\ \A c \in 1..Len(clients) : c # client => clients'[c] = clients[c]
  <2>1. CASE client = NoClient
    BY <1>1, <2>1
  <2>2. CASE client # NoClient
    <3>1. clients' = [clients EXCEPT ![client] = "closing"] /\ client \in 1..Len(clients)
      BY <1>1, <1>4, <2>2 DEF NoClient
    <3>. QED  BY <3>1
  <2>. QED  BY <2>1, <2>2, Zenon
<1>6. StoreTypeOK'
  BY <1>1, <1>2, <1>5 DEF NoClient
<1>7. NoOrphanConnection'
  <2>. SUFFICES ASSUME NEW c \in 1..Len(clients), clients'[c] # "closed"
                PROVE  \E s \in StoreTasks : storeTasks'[s].using = c /\ storeTasks'[s].pc \in {"connect", "close"}
    BY <1>5, Zenon DEF NoOrphanConnection
  <2>1. CASE c = client
    BY <1>2, <1>3, <2>1 DEF NoClient
  <2>2. CASE c # client
    <3>1. PICK s \in StoreTasks : storeTasks[s].using = c /\ storeTasks[s].pc \in {"connect", "close"}
      BY <1>5, <2>2, Zenon DEF Connections, NoOrphanConnection
    <3>. QED  BY <1>1, <1>3, <3>1, Zenon
  <2>. QED  BY <2>1, <2>2, Zenon
<1>8. Connections'
  BY <1>1, <1>2, <1>3, <1>4, <1>5, <1>7 DEF Connections, NoClient
<1>9. AnswersInTime'
  BY <1>1, <1>2, <1>3, Zenon DEF AnswersInTime
<1>. QED  BY <1>6, <1>8, <1>9, Zenon

(* An answer is stamped with the time Redis gave it.                       *)
LEMMA MgetStep ==
  ASSUME StoreInv, NEW t \in StoreTasks, Mget(t)
  PROVE  StoreInv'
<1>. USE DEF StoreInv, StoreTypeOK
<1>1. PICK r \in StoreRecords : r = storeTasks[t] /\ r.pc = "mget"
  BY Zenon DEF Mget
<1>2. PICK found \in SUBSET SnapshotKeys :
        storeTasks' = [storeTasks EXCEPT ![t] = [r EXCEPT !.pc = "answer", !.at = storeClock,
           !.got = {[key |-> k, value |-> remote[k].value, seen |-> storeClock] : k \in found}]]
  <2>1. {k \in r.keys : remote[k].value # 0 /\ remote[k].expires > storeClock} \in SUBSET SnapshotKeys
    BY Zenon DEF StoreRecords
  <2>. QED  BY <1>1, <2>1, Zenon DEF Mget
<1>3. PICK got \in SUBSET Answers :
        /\ got = {[key |-> k, value |-> remote[k].value, seen |-> storeClock] : k \in found}
        /\ \A g \in got : g.seen = storeClock
  <2>1. \A k \in found : [key |-> k, value |-> remote[k].value, seen |-> storeClock] \in Answers
    BY Zenon DEF Answers
  <2>2. \A k \in found : [key |-> k, value |-> remote[k].value, seen |-> storeClock].seen = storeClock
    BY Zenon
  <2>. DEFINE G == {[key |-> k, value |-> remote[k].value, seen |-> storeClock] : k \in found}
  <2>3. G \in SUBSET Answers
    BY <2>1, Zenon
  <2>4. \A g \in G : g.seen = storeClock
    BY <2>2, Zenon
  <2>. HIDE DEF G
  <2>5. \E got \in SUBSET Answers : got = G /\ \A g \in got : g.seen = storeClock
    BY <2>3, <2>4, Zenon
  <2>. QED  BY <2>5, Zenon DEF G
<1>4. PICK q \in StoreRecords : q = [r EXCEPT !.pc = "answer", !.at = storeClock, !.got = got]
  <2>1. \A a \in StoreRecords : [a EXCEPT !.pc = "answer"] \in StoreRecords
    BY Zenon DEF StoreRecords
  <2>2. \A a \in StoreRecords : [a EXCEPT !.at = storeClock] \in StoreRecords
    BY Zenon DEF StoreRecords
  <2>3. \A a \in StoreRecords : [a EXCEPT !.got = got] \in StoreRecords
    BY Zenon DEF StoreRecords
  <2>. QED  BY <2>1, <2>2, <2>3, Zenon
<1>5. q.pc = "answer" /\ q.at = storeClock /\ q.got = got
  BY <1>4, Zenon DEF StoreRecords
<1>6. storeTasks' = [storeTasks EXCEPT ![t] = q]
  BY <1>2, <1>3, <1>4, Zenon
<1>7. /\ UNCHANGED <<redisEnabled, storeClock, local, client, clients, connectLock, remote, version>>
      /\ storeTasks' \in [StoreTasks -> StoreRecords]
      /\ storeTasks'[t] = q /\ \A s \in StoreTasks \ {t} : storeTasks'[s] = storeTasks[s]
  BY <1>6, Zenon DEF Mget
<1>8. Connections'
  <2>1. \A s \in StoreTasks : storeTasks[s].pc \in {"connect", "close"} => storeTasks'[s] = storeTasks[s]
    BY <1>1, <1>7, Zenon
  <2>2. \A s \in StoreTasks : storeTasks'[s].pc \in {"connect", "close"} => storeTasks'[s] = storeTasks[s]
    BY <1>5, <1>7, Zenon
  <2>3. NoOrphanConnection'
    BY <1>7, <2>1 DEF Connections, NoOrphanConnection
  <2>. QED  BY <1>7, <2>2, <2>3, Zenon DEF Connections
<1>9. AnswersInTime'
  <2>1. storeClock <= storeClock + SocketTimeout
    BY StoreAssumption
  <2>. QED  BY <1>3, <1>5, <1>7, <2>1, Zenon DEF AnswersInTime
<1>. QED  BY <1>7, <1>8, <1>9, Zenon

LEMMA RedisStep ==
  ASSUME StoreInv, NEW t \in StoreTasks, Execute(t) \/ MgetReturns(t) \/ MgetFails(t)
  PROVE  StoreInv'
<1>. USE DEF StoreInv, StoreTypeOK
<1>1. /\ Done(t) /\ storeTasks[t].pc \notin {"connect", "close"}
      /\ UNCHANGED <<redisEnabled, storeClock, client, version>>
  BY Zenon DEF Execute, MgetReturns, MgetFails
<1>2. /\ storeTasks' \in [StoreTasks -> StoreRecords] /\ Connections' /\ AnswersInTime'
      /\ UNCHANGED <<clients, connectLock>>
  BY <1>1, DoneStep, Zenon
<1>3. remote' \in [SnapshotKeys -> [value : Nat, expires : Int]]
  <2>1. storeTasks[t].value \in Nat /\ storeClock + RemoteTtl \in Int
    BY StoreAssumption DEF StoreRecords
  <2>. QED  BY <2>1 DEF Execute, MgetReturns, MgetFails
<1>4. local' \in Seq(YoungEntries)
  <2>1. CASE MgetReturns(t)
    <3>1. PICK got \in SUBSET Answers : got = storeTasks[t].got
      BY Zenon DEF StoreRecords
    <3>2. SetLocalMany(got) /\ \A n \in got : storeClock <= n.seen + SocketTimeout
      BY <2>1, <3>1, Zenon DEF MgetReturns, AnswersInTime
    <3>. QED  BY <3>2, SetLocalEntries, Zenon
  <2>2. CASE Execute(t) \/ MgetFails(t)
    BY <2>2, Zenon DEF Execute, MgetFails
  <2>. QED  BY <2>1, <2>2, Zenon
<1>. QED  BY <1>1, <1>2, <1>3, <1>4, Zenon

LEMMA StoreStep == StoreInv /\ [StoreNext]_storeVars => StoreInv'
<1>1. ASSUME StoreInv, UNCHANGED storeVars PROVE StoreInv'
  BY <1>1, Zenon DEF storeVars, StoreInv, StoreTypeOK, Connections, NoOrphanConnection, AnswersInTime
<1>. QED  BY <1>1, StoreClockStep, StoreCallStep, StoreConnectedStep, StoreClosesStep, CallStopStep,
             MgetStep, RedisStep, Zenon DEF StoreNext, TaskStep

(* However start(), stop() and operations that reconnect interleave, every *)
(* client that is not closed is the store's or in the hands of the task    *)
(* that connects or closes it, for any number of calls.                    *)
THEOREM NeverAnOrphanConnection == StoreSpec => []NoOrphanConnection
<1>1. StoreInv => NoOrphanConnection
  BY Zenon DEF StoreInv, Connections
<1>. QED  BY <1>1, StoreInitially, StoreStep, PTL DEF StoreSpec

(* What the local layer answers was seen less than its lifetime and one    *)
(* answer of Redis ago, for any lifetimes, keys and number of calls.       *)
THEOREM AlwaysSnapshotAge == StoreSpec => []SnapshotAge
<1>1. StoreInv => SnapshotAge
  <2>. SUFFICES ASSUME StoreInv, NEW h \in Hits(Pruned(local), SnapshotKeys)
                PROVE  storeClock - h.seen < LocalTtl + SocketTimeout
    BY Zenon DEF SnapshotAge
  <2>1. Pruned(local) \in Seq(YoungEntries) /\ storeClock \in Nat
    BY PrunedEntries, Zenon DEF StoreInv, StoreTypeOK
  <2>2. PICK i \in 1..Len(Pruned(local)) :
          h.seen = Pruned(local)[i].seen /\ Pruned(local)[i].expires > storeClock
    BY DEF Hits
  <2>3. PICK e \in YoungEntries : e = Pruned(local)[i]
    BY <2>1
  <2>4. e.seen \in Nat /\ e.expires \in Int /\ e.expires <= e.seen + LocalTtl + SocketTimeout
    BY Zenon DEF YoungEntries, Entries
  <2>. QED  BY <2>1, <2>2, <2>3, <2>4, StoreAssumption
<1>. QED  BY <1>1, StoreInitially, StoreStep, PTL DEF StoreSpec

=============================================================================
