-------------------- MODULE PlatformPermsResolverProofs ---------------------
(***************************************************************************)
(* The resolver's invariants and that it implements FencedCache, for every *)
(* number of users, tenants, callers, permission changes and clock ticks,  *)
(* and every cache size.                                                   *)
(***************************************************************************)
EXTENDS PlatformPermsResolver, FiniteSetTheorems, TLAPS

-----------------------------------------------------------------------------
(* What a caller's pc says of the task it awaits and of the fetch it made. *)
Shape ==
    \A c \in Callers :
        /\ pc[c] = "idle" <=> task[c] = NoTask
        /\ pc[c] = "creator" => task[c] = c /\ key[c] \in Keys
        /\ pc[c] = "joined" => task[c] \in Callers \ {c}
        /\ fetch[c].st \in Running => pc[c] = "creator"
        /\ fetch[c].st \in {"read", "ok"} => fetch[c].entry \in Entries

(* Creators never see an epoch ahead of their user's; a fetch one can join  *)
(* carries the user's current epoch.                                        *)
EpochOrder ==
    /\ \A c \in Callers : pc[c] = "creator" => epoch[c] <= epochs[User(key[c])]
    /\ \A k \in Keys : inflight[k] # NoTask => epoch[inflight[k]] = epochs[User(k)]

(* A fetch whose creator still carries its user's epoch was answered no     *)
(* earlier than the user's last invalidation.                               *)
Fence ==
    /\ \A u \in Users : invalidated[u] <= truth[u]
    /\ \A c \in Callers :
          (/\ pc[c] = "creator"
           /\ fetch[c].st \in {"read", "ok"}
           /\ epoch[c] = epochs[User(key[c])])
          => invalidated[User(key[c])] <= fetch[c].entry.seen

IInv ==
    /\ TypeOK
    /\ Shape
    /\ InflightHasCreator
    /\ BookkeepingBounded
    /\ EpochOrder
    /\ Fence
    /\ NoStaleEntry

LEMMA UserOfKey == \A k \in Keys : User(k) \in Users
  BY Zenon DEF Keys, User

LEMMA NoEntryNotEntry == NoEntry \notin Entries
  BY DEF NoEntry, Entries

(* Creators of a user are finitely many. *)
LEMMA CreatorsFinite == \A u \in Users : IsFiniteSet(Creators(u))
  BY CallersFinite, FS_Subset, Zenon DEF Creators

LEMMA InitIInv == Init => IInv
<1> SUFFICES ASSUME Init PROVE IInv
  BY Zenon
<1> USE DEF Init
<1>1. TypeOK
  BY Zenon DEF TypeOK, Fetches, NoFetch
<1>2. Shape /\ InflightHasCreator /\ EpochOrder /\ Fence /\ NoStaleEntry
  BY CallersFinite DEF Shape, InflightHasCreator, EpochOrder, Fence, NoStaleEntry, NoFetch, Running
<1>3. BookkeepingBounded
  <2>1. \A u \in Users : Creators(u) = {}
    BY Zenon DEF Creators
  <2> QED
    BY <2>1, FS_EmptySet, Zenon DEF BookkeepingBounded
<1> QED
  BY <1>1, <1>2, <1>3, Zenon DEF IInv

LEMMA TypeStep == IInv /\ [Next]_vars => TypeOK'
<1> SUFFICES ASSUME IInv, [Next]_vars PROVE TypeOK'
  BY Zenon
<1> USE UserOfKey, CallersFinite DEF IInv, TypeOK, resolver, callers, environment
<1>1. ASSUME NEW c \in Callers, NEW k \in Keys, GetHit(c, k) PROVE TypeOK'
  BY <1>1, Zenon DEF GetHit, Fresh, Entries, NoEntry, Replies
<1>2. ASSUME NEW c \in Callers, NEW k \in Keys, GetJoinSettled(c, k) PROVE TypeOK'
  BY <1>2 DEF GetJoinSettled, Outcome, Shape, Entries, Replies
<1>3. ASSUME NEW c \in Callers, NEW k \in Keys, GetJoin(c, k) PROVE TypeOK'
  BY <1>3, Zenon DEF GetJoin, Await
<1>4. ASSUME NEW c \in Callers, NEW k \in Keys, GetCreate(c, k) PROVE TypeOK'
  BY <1>4 DEF GetCreate, Await, Fetches, Running
<1>5. ASSUME NEW c \in Callers, AuthReads(c) PROVE TypeOK'
  <2>1. truth[User(key[c])] \in Nat
    BY <1>5, Zenon DEF AuthReads, Shape, Running
  <2> QED
    BY <1>5, <2>1, Zenon DEF AuthReads, Fetches, Running, Entries
<1>6. ASSUME NEW c \in Callers, FetchReturns(c) PROVE TypeOK'
  BY <1>6, Zenon DEF FetchReturns, Shape, Fetches, Settled, Entries
<1>7. ASSUME NEW c \in Callers, FetchRaises(c) PROVE TypeOK'
  BY <1>7, Zenon DEF FetchRaises, Fetches, Settled
<1>8. ASSUME NEW c \in Callers, CancelAwaiting(c) PROVE TypeOK'
  BY <1>8, ZenonT(30) DEF CancelAwaiting, Fetches, Settled
<1>9. ASSUME NEW c \in Callers, NEW value \in Replies \cup {NoReply}, Return(c, value)
      PROVE  (/\ pc \in [Callers -> {"idle", "creator", "joined"}]
              /\ key \in [Callers -> Keys \cup {NoKey}]
              /\ task \in [Callers -> Callers \cup {NoTask}]
              /\ epoch \in [Callers -> Nat]
              /\ fetch \in [Callers -> Fetches]
              /\ reply \in Replies \cup {NoReply}
              /\ floor \in [Callers -> Nat])'
  BY <1>9, ZenonT(30) DEF Return, Fetches, NoFetch
<1>10. \A c, d \in Callers : Outcome(d, floor[c]) \in Replies \cup {NoReply}
  BY Zenon DEF Outcome, Shape, Entries, Replies
<1>11. ASSUME NEW c \in Callers, JoinerResumes(c) PROVE TypeOK'
  <2>1. task[c] \in Callers
    BY <1>11, Zenon DEF JoinerResumes, Shape
  <2>2. PICK value \in Replies \cup {NoReply} : Return(c, value)
    BY <1>11, <2>1, <1>10, Zenon DEF JoinerResumes
  <2> QED
    BY <1>11, <2>2, <1>9, Zenon DEF JoinerResumes
<1>12. ASSUME NEW c \in Callers, pc[c] = "creator", Finish(c)
       PROVE  (/\ inflight \in [Keys -> Callers \cup {NoTask}]
               /\ epochs \in [Users -> Nat]
               /\ running \in [Users -> Nat])'
  <2>1. key[c] \in Keys /\ c \in Creators(User(key[c]))
    BY <1>12, Zenon DEF Shape, Creators
  <2>2. running[User(key[c])] # 0
    BY <2>1, CreatorsFinite, FS_EmptySet, Zenon DEF BookkeepingBounded
  <2> QED
    BY <1>12, <2>1, <2>2 DEF Finish
<1>13. ASSUME NEW c \in Callers, CreatorStores(c) PROVE TypeOK'
  <2>1. cache' \in [Keys -> Entries \cup {NoEntry}]
    BY <1>13, ZenonT(30) DEF CreatorStores, Store, Fetches
  <2> QED
    BY <1>13, <2>1, <1>9, <1>10, <1>12, Zenon DEF CreatorStores
<1>14. ASSUME NEW c \in Callers, CreatorDiscards(c) \/ CreatorRaises(c) PROVE TypeOK'
  BY <1>14, <1>9, <1>10, <1>12, Zenon DEF CreatorDiscards, CreatorRaises
<1>15. ASSUME NEW doomed \in SUBSET Users, InvalidateMany(doomed)
       PROVE  (/\ cache \in [Keys -> Entries \cup {NoEntry}]
               /\ inflight \in [Keys -> Callers \cup {NoTask}]
               /\ epochs \in [Users -> Nat]
               /\ running \in [Users -> Nat]
               /\ invalidated \in [Users -> Nat]
               /\ reply \in Replies \cup {NoReply})'
  BY <1>15 DEF InvalidateMany
<1>16. ASSUME NEW m \in mail, HandleInvalidation(m) PROVE TypeOK'
  BY <1>15, <1>16, Zenon DEF HandleInvalidation
<1>17. CASE Clear
  BY <1>15, <1>17, Zenon DEF Clear
<1>18. ASSUME NEW users \in SUBSET Users, ChangePermissions(users) PROVE TypeOK'
  BY <1>18 DEF ChangePermissions
<1>19. ASSUME NEW m \in mail, LoseMessage(m) PROVE TypeOK'
  BY <1>19, Zenon DEF LoseMessage
<1>20. CASE Tick
  BY <1>20 DEF Tick
<1>21. CASE UNCHANGED vars
  BY <1>21, Zenon DEF vars
<1> QED
  BY ZenonT(30), <1>1, <1>2, <1>3, <1>4, <1>5, <1>6, <1>7, <1>8, <1>11, <1>13, <1>14, <1>16, <1>17,
     <1>18, <1>19, <1>20, <1>21 DEF Next, CallerStep

LEMMA ShapeStep == IInv /\ [Next]_vars => Shape'
<1> SUFFICES ASSUME IInv, [Next]_vars PROVE Shape'
  BY Zenon
<1> USE CallersFinite DEF IInv, TypeOK, Shape, resolver, callers, environment, Running
<1>1. ASSUME NEW c \in Callers, NEW k \in Keys,
             GetHit(c, k) \/ GetJoinSettled(c, k)
      PROVE  Shape'
  BY <1>1, Zenon DEF GetHit, GetJoinSettled
<1>2. ASSUME NEW c \in Callers, NEW k \in Keys, GetJoin(c, k) PROVE Shape'
  BY <1>2 DEF GetJoin, Begin, Await, InflightHasCreator, NoFetch
<1>3. ASSUME NEW c \in Callers, NEW k \in Keys, GetCreate(c, k) PROVE Shape'
  BY <1>3 DEF GetCreate, Begin, Await
<1>4. ASSUME NEW c \in Callers, AuthReads(c) PROVE Shape'
  <2>1. truth[User(key[c])] \in Nat
    BY <1>4, UserOfKey, Zenon DEF AuthReads
  <2> QED
    BY <1>4, <2>1 DEF AuthReads, Fetches, Entries
<1>5. ASSUME NEW c \in Callers, FetchReturns(c) PROVE Shape'
  BY <1>5 DEF FetchReturns, Fetches, Entries
<1>6. ASSUME NEW c \in Callers, FetchRaises(c) PROVE Shape'
  BY <1>6 DEF FetchRaises, Fetches
<1>7. ASSUME NEW c \in Callers, CancelAwaiting(c) PROVE Shape'
  BY <1>7 DEF CancelAwaiting, Fetches
<1>8. ASSUME NEW c \in Callers, NEW value, Return(c, value), pc[c] # "idle",
             fetch[task[c]].st \in Settled
      PROVE  Shape'
  BY <1>8 DEF Return, NoFetch, Settled
<1>9. ASSUME NEW c \in Callers, JoinerResumes(c) PROVE Shape'
  BY <1>9, <1>8, Zenon DEF JoinerResumes
<1>10. ASSUME NEW c \in Callers, CreatorStores(c) \/ CreatorDiscards(c) \/ CreatorRaises(c)
       PROVE  Shape'
  BY <1>10, <1>8 DEF CreatorStores, CreatorDiscards, CreatorRaises, Settled
<1>11. ASSUME NEW m \in mail, HandleInvalidation(m) \/ LoseMessage(m) PROVE Shape'
  BY <1>11, Zenon DEF HandleInvalidation, LoseMessage
<1>12. CASE Clear \/ Tick \/ (\E users \in SUBSET Users : ChangePermissions(users))
  BY <1>12, Zenon DEF Clear, Tick, ChangePermissions
<1>13. CASE UNCHANGED vars
  BY <1>13, Zenon DEF vars
<1> QED
  BY <1>1, <1>2, <1>3, <1>4, <1>5, <1>6, <1>7, <1>9, <1>10, <1>11, <1>12, <1>13, ZenonT(30)
  DEF Next, CallerStep

(* The steps that touch neither the in-flight map, the counters nor who     *)
(* created what.                                                            *)
Quiet == UNCHANGED <<inflight, epochs, running, pc, key, epoch>>

(* Every step is quiet, a join, a creation, a creator's return or an        *)
(* invalidation.                                                            *)
LEMMA StepKinds ==
    ASSUME TypeOK, [Next]_vars
    PROVE  \/ Quiet
           \/ \E c \in Callers, k \in Keys : GetJoin(c, k) \/ GetCreate(c, k)
           \/ \E c \in Callers : JoinerResumes(c)
           \/ \E c \in Callers : /\ pc[c] = "creator"
                                 /\ fetch[c].st \in Settled
                                 /\ Finish(c)
                                 /\ \E value : Return(c, value)
                                 /\ UNCHANGED <<environment, invalidated>>
           \/ \E doomed \in SUBSET Users : InvalidateMany(doomed) /\ UNCHANGED <<callers, now, truth>>
<1> USE DEF Quiet, resolver, callers, environment
<1>1. ASSUME NEW c \in Callers, CallerStep(c)
      PROVE  \/ Quiet
             \/ \E k \in Keys : GetJoin(c, k) \/ GetCreate(c, k)
             \/ JoinerResumes(c)
             \/ /\ pc[c] = "creator"
                /\ fetch[c].st \in Settled
                /\ Finish(c)
                /\ \E value : Return(c, value)
                /\ UNCHANGED <<environment, invalidated>>
  <2>1. ASSUME NEW k \in Keys, GetHit(c, k) \/ GetJoinSettled(c, k) PROVE Quiet
    BY <2>1, Zenon DEF GetHit, GetJoinSettled
  <2>2. CASE AuthReads(c) \/ FetchReturns(c) \/ FetchRaises(c) \/ CancelAwaiting(c)
    BY <2>2, Zenon DEF AuthReads, FetchReturns, FetchRaises, CancelAwaiting
  <2>3. CASE CreatorStores(c)
    BY <2>3, Zenon DEF CreatorStores, Settled
  <2>4. CASE CreatorDiscards(c)
    BY <2>4, ZenonT(30) DEF CreatorDiscards, Settled
  <2>5. CASE CreatorRaises(c)
    BY <2>5, Zenon DEF CreatorRaises
  <2> QED
    BY <1>1, <2>1, <2>2, <2>3, <2>4, <2>5, Zenon DEF CallerStep
<1>2. ASSUME NEW m \in mail, HandleInvalidation(m)
      PROVE  m.users \in SUBSET Users /\ InvalidateMany(m.users) /\ UNCHANGED <<callers, now, truth>>
  BY <1>2, Zenon DEF HandleInvalidation, TypeOK
<1>3. CASE Clear
  BY <1>3, Zenon DEF Clear
<1>4. ASSUME NEW m \in mail, LoseMessage(m) PROVE Quiet
  BY <1>4, Zenon DEF LoseMessage
<1>5. ASSUME NEW users \in SUBSET Users, ChangePermissions(users) PROVE Quiet
  BY <1>5, Zenon DEF ChangePermissions
<1>6. CASE Tick \/ UNCHANGED vars
  BY <1>6, Zenon DEF Tick, vars
<1> QED
  BY <1>1, <1>2, <1>3, <1>4, <1>5, <1>6, Zenon DEF Next

LEMMA InflightStep == IInv /\ [Next]_vars => InflightHasCreator'
<1> SUFFICES ASSUME IInv, [Next]_vars PROVE InflightHasCreator'
  BY Zenon
<1> USE CallersFinite DEF IInv, TypeOK, InflightHasCreator, resolver, callers, environment
<1>1. CASE Quiet
  BY <1>1, Zenon DEF Quiet
<1>2. ASSUME NEW c \in Callers, NEW k \in Keys, GetJoin(c, k) PROVE InflightHasCreator'
  BY <1>2 DEF GetJoin, Begin, Await
<1>3. ASSUME NEW c \in Callers, NEW k \in Keys, GetCreate(c, k) PROVE InflightHasCreator'
  BY <1>3 DEF GetCreate, Begin, Await
<1>4. ASSUME NEW c \in Callers, JoinerResumes(c) PROVE InflightHasCreator'
  BY <1>4 DEF JoinerResumes, Return
<1>5. ASSUME NEW c \in Callers, pc[c] = "creator", Finish(c), NEW value, Return(c, value)
      PROVE  InflightHasCreator'
  BY <1>5 DEF Finish, Return, Shape
<1>6. ASSUME NEW doomed \in SUBSET Users, InvalidateMany(doomed), UNCHANGED callers
      PROVE  InflightHasCreator'
  BY <1>6, Zenon DEF InvalidateMany
<1> QED
  BY <1>1, <1>2, <1>3, <1>4, <1>5, <1>6, StepKinds, ZenonT(30)

(* The last creator of a user to leave is the only one. *)
LEMMA LastCreator ==
    ASSUME IInv, NEW c \in Callers, pc[c] = "creator", running[User(key[c])] = 1,
           NEW d \in Callers, pc[d] = "creator", User(key[d]) = User(key[c])
    PROVE  d = c
<1> DEFINE u == User(key[c])
<1>1. u \in Users /\ c \in Creators(u) /\ d \in Creators(u)
  BY UserOfKey, Zenon DEF Creators, IInv, Shape
<1>2. Cardinality(Creators(u)) = 1
  BY <1>1, Zenon DEF IInv, BookkeepingBounded
<1>3. PICK x : Creators(u) = {x}
  BY <1>1, <1>2, CreatorsFinite, FS_Singleton, Zenon
<1> QED
  BY <1>1, <1>3, Zenon

LEMMA BookkeepingStep == IInv /\ [Next]_vars => BookkeepingBounded'
<1> SUFFICES ASSUME IInv, [Next]_vars, NEW u \in Users
             PROVE  /\ running'[u] = Cardinality(Creators(u)')
                    /\ epochs'[u] # 0 => running'[u] # 0
  BY Zenon DEF BookkeepingBounded
<1> DEFINE Goal == /\ running'[u] = Cardinality(Creators(u)')
                   /\ epochs'[u] # 0 => running'[u] # 0
<1> USE CallersFinite, UserOfKey
    DEF IInv, TypeOK, BookkeepingBounded, resolver, callers, environment
<1>f. IsFiniteSet(Creators(u)) /\ Cardinality(Creators(u)) \in Nat
  BY CreatorsFinite
<1>1. CASE Quiet
  <2>1. Creators(u)' = Creators(u)
    BY <1>1, Zenon DEF Quiet, Creators
  <2> QED
    BY <1>1, <2>1, Zenon DEF Quiet
<1>2. ASSUME NEW c \in Callers, NEW k \in Keys, GetJoin(c, k) PROVE Goal
  <2>1. Creators(u)' = Creators(u)
    BY <1>2, Zenon DEF GetJoin, Begin, Await, Creators
  <2> QED
    BY <1>2, <2>1, Zenon DEF GetJoin
<1>3. ASSUME NEW c \in Callers, NEW k \in Keys, GetCreate(c, k) PROVE Goal
  <2>1. CASE User(k) = u
    <3>1. Creators(u)' = Creators(u) \cup {c} /\ c \notin Creators(u)
      BY <1>3, <2>1, Zenon DEF GetCreate, Begin, Await, Creators
    <3>2. Cardinality(Creators(u)') = Cardinality(Creators(u)) + 1
      <4> DEFINE S == Creators(u)
      <4> HIDE DEF S
      <4>1. Cardinality(S \cup {c}) = IF c \in S THEN Cardinality(S) ELSE Cardinality(S) + 1
        BY <1>f, FS_AddElement, ZenonT(30) DEF S
      <4> QED
        BY <3>1, <4>1, Zenon DEF S
    <3> QED
      BY <1>3, <2>1, <3>2, <1>f DEF GetCreate
  <2>2. CASE User(k) # u
    <3>1. Creators(u)' = Creators(u)
      BY <1>3, <2>2, Zenon DEF GetCreate, Begin, Await, Creators
    <3> QED
      BY <1>3, <2>2, <3>1, Zenon DEF GetCreate
  <2> QED
    BY <2>1, <2>2, ZenonT(30)
<1>4. ASSUME NEW c \in Callers, JoinerResumes(c) PROVE Goal
  <2>1. Creators(u)' = Creators(u)
    BY <1>4, Zenon DEF JoinerResumes, Return, Creators
  <2> QED
    BY <1>4, <2>1, Zenon DEF JoinerResumes
<1>5. ASSUME NEW c \in Callers, pc[c] = "creator", Finish(c), NEW value, Return(c, value)
      PROVE  Goal
  <2>1. CASE User(key[c]) = u
    <3>1. Creators(u)' = Creators(u) \ {c} /\ c \in Creators(u)
      BY <1>5, <2>1, Zenon DEF Return, Creators
    <3>2. Cardinality(Creators(u)') = Cardinality(Creators(u)) - 1
      BY <3>1, <1>f, FS_RemoveElement, ZenonT(30)
    <3> QED
      BY <1>5, <2>1, <3>2, <1>f DEF Finish
  <2>2. CASE User(key[c]) # u
    <3>1. Creators(u)' = Creators(u)
      BY <1>5, <2>2, Zenon DEF Return, Creators
    <3>2. User(key[c]) \in Users
      BY <1>5, Zenon DEF Shape
    <3> QED
      BY <1>5, <2>2, <3>1, <3>2, Zenon DEF Finish
  <2> QED
    BY <2>1, <2>2, ZenonT(30)
<1>6. ASSUME NEW doomed \in SUBSET Users, InvalidateMany(doomed), UNCHANGED callers
      PROVE  Goal
  <2>1. Creators(u)' = Creators(u)
    BY <1>6, Zenon DEF Creators
  <2> QED
    BY <1>6, <2>1, Zenon DEF InvalidateMany
<1> QED
  BY <1>1, <1>2, <1>3, <1>4, <1>5, <1>6, StepKinds, ZenonT(30)

LEMMA EpochStep == IInv /\ [Next]_vars => EpochOrder'
<1> SUFFICES ASSUME IInv, [Next]_vars PROVE EpochOrder'
  BY Zenon
<1>0. /\ pc \in [Callers -> {"idle", "creator", "joined"}]
      /\ key \in [Callers -> Keys \cup {NoKey}]
      /\ epoch \in [Callers -> Nat]
      /\ inflight \in [Keys -> Callers \cup {NoTask}]
      /\ epochs \in [Users -> Nat]
      /\ \A c \in Callers : pc[c] = "creator" => key[c] \in Keys
      /\ InflightHasCreator
      /\ EpochOrder
  BY Zenon DEF IInv, TypeOK, Shape
<1> USE <1>0, CallersFinite, UserOfKey
    DEF EpochOrder, InflightHasCreator, resolver, callers, environment
<1>1. CASE Quiet
  BY <1>1, Zenon DEF Quiet
<1>2. ASSUME NEW c \in Callers, NEW k \in Keys, GetJoin(c, k) PROVE EpochOrder'
  BY <1>2, Zenon DEF GetJoin, Begin, Await
<1>3. ASSUME NEW c \in Callers, NEW k \in Keys, GetCreate(c, k) PROVE EpochOrder'
  BY <1>3 DEF GetCreate, Begin, Await
<1>4. ASSUME NEW c \in Callers, JoinerResumes(c) PROVE EpochOrder'
  BY <1>4, SMTT(30) DEF JoinerResumes, Return
<1>5. ASSUME NEW c \in Callers, pc[c] = "creator", Finish(c), NEW value, Return(c, value)
      PROVE  EpochOrder'
  <2>1. ASSUME NEW d \in Callers, pc'[d] = "creator"
        PROVE  d # c /\ pc[d] = "creator" /\ key'[d] = key[d] /\ epoch'[d] = epoch[d]
               /\ epochs'[User(key[d])] = epochs[User(key[d])]
    BY <1>5, <2>1, LastCreator, Zenon DEF Finish, Return
  <2>2. ASSUME NEW k \in Keys, inflight'[k] # NoTask
        PROVE  /\ inflight'[k] = inflight[k]
               /\ inflight[k] # c
               /\ epochs'[User(k)] = epochs[User(k)]
    BY <1>5, <2>2, LastCreator, SMTT(30) DEF Finish
  <2> QED
    BY <1>5, <2>1, <2>2 DEF Return
<1>6. ASSUME NEW doomed \in SUBSET Users, InvalidateMany(doomed), UNCHANGED callers
      PROVE  EpochOrder'
  BY <1>6 DEF InvalidateMany
<1>7. TypeOK
  BY Zenon DEF IInv
<1> QED
  BY <1>1, <1>2, <1>3, <1>4, <1>5, <1>6, <1>7, StepKinds, ZenonT(30)

(* A creator of a user counts in _running. *)
LEMMA CreatorRuns ==
    ASSUME IInv, NEW c \in Callers, pc[c] = "creator"
    PROVE  User(key[c]) \in Users /\ running[User(key[c])] # 0
<1>1. User(key[c]) \in Users /\ c \in Creators(User(key[c]))
  BY UserOfKey, Zenon DEF Creators, IInv, Shape
<1> QED
  BY <1>1, CreatorsFinite, FS_EmptySet, Zenon DEF IInv, BookkeepingBounded

(* Steps that change no answer a creator holds keep the fence. *)
AnswersKept ==
    \A c \in Callers :
        pc'[c] = "creator" /\ fetch'[c].st \in {"read", "ok"} =>
            /\ pc[c] = "creator" /\ fetch[c].st \in {"read", "ok"}
            /\ fetch'[c].entry.seen = fetch[c].entry.seen
            /\ key'[c] = key[c] /\ epoch'[c] = epoch[c]
            /\ epochs'[User(key[c])] = epochs[User(key[c])]

LEMMA FenceKept ==
    ASSUME Fence, AnswersKept, UNCHANGED <<truth, invalidated>>
    PROVE  Fence'
  BY DEF Fence, AnswersKept

LEMMA FenceStep == IInv /\ [Next]_vars => Fence'
<1> SUFFICES ASSUME IInv, [Next]_vars PROVE Fence'
  BY Zenon
<1>a. Fence /\ TypeOK
  BY Zenon DEF IInv
<1>b. /\ pc \in [Callers -> {"idle", "creator", "joined"}]
      /\ fetch \in [Callers -> Fetches]
      /\ key \in [Callers -> Keys \cup {NoKey}]
      /\ task \in [Callers -> Callers \cup {NoTask}]
      /\ epoch \in [Callers -> Nat]
  BY <1>a, Zenon DEF TypeOK
<1>c. /\ truth \in [Users -> Nat]
      /\ invalidated \in [Users -> Nat]
      /\ epochs \in [Users -> Nat]
      /\ \A m \in mail : m.users \in SUBSET Users
  BY <1>a, Zenon DEF TypeOK
<1>d. \A c \in Callers : pc[c] = "creator" => task[c] = c /\ key[c] \in Keys
  BY Zenon DEF IInv, Shape
<1>e. \A c \in Callers : fetch[c].st \in Running => pc[c] = "creator"
  BY Zenon DEF IInv, Shape
<1>f. \A c \in Callers : pc[c] = "creator" => epoch[c] <= epochs[User(key[c])]
  BY Zenon DEF IInv, EpochOrder
<1>g. \A c \in Callers : pc[c] # "idle" => task[c] \in Callers
  BY CallersFinite, <1>b, Zenon DEF IInv, Shape
<1>1. CASE UNCHANGED <<pc, key, epoch, fetch, epochs, truth, invalidated>>
  BY <1>a, <1>1, Zenon DEF Fence
<1>2. ASSUME NEW c \in Callers, NEW k \in Keys, GetJoin(c, k) PROVE Fence'
  <2>1. AnswersKept
    BY <1>2, <1>b, Zenon DEF GetJoin, Begin, Await, AnswersKept, resolver
  <2> QED
    BY <1>a, <1>2, <2>1, FenceKept, Zenon DEF GetJoin, environment
<1>3. ASSUME NEW c \in Callers, NEW k \in Keys, GetCreate(c, k) PROVE Fence'
  <2>1. AnswersKept
    BY <1>3, <1>b, Zenon DEF GetCreate, Begin, Await, AnswersKept
  <2> QED
    BY <1>a, <1>3, <2>1, FenceKept, Zenon DEF GetCreate, environment
<1>4. ASSUME NEW c \in Callers, AuthReads(c) PROVE Fence'
  <2>1. /\ UNCHANGED <<pc, key, epoch, epochs, truth, invalidated>>
        /\ fetch' = [fetch EXCEPT ![c] =
               [st |-> "read", entry |-> [seen |-> truth[User(key[c])], at |-> 0]]]
    BY <1>4, Zenon DEF AuthReads, resolver, environment
  <2>2. invalidated[User(key[c])] <= truth[User(key[c])]
    BY <1>4, <1>a, <1>d, <1>e, UserOfKey, Zenon DEF AuthReads, Fence, Running
  <2> QED
    BY <2>1, <2>2, <1>a, <1>b, Zenon DEF Fence
<1>5. ASSUME NEW c \in Callers, FetchReturns(c) PROVE Fence'
  <2>1. AnswersKept
    BY <1>5, <1>b, Zenon DEF FetchReturns, AnswersKept, resolver
  <2> QED
    BY <1>a, <1>5, <2>1, FenceKept, Zenon DEF FetchReturns, environment
<1>6. ASSUME NEW c \in Callers, FetchRaises(c) PROVE Fence'
  <2>1. AnswersKept
    BY <1>6, <1>b, Zenon DEF FetchRaises, AnswersKept, resolver
  <2> QED
    BY <1>a, <1>6, <2>1, FenceKept, Zenon DEF FetchRaises, environment
<1>7. ASSUME NEW c \in Callers, CancelAwaiting(c) PROVE Fence'
  <2>1. task[c] \in Callers
    BY <1>7, <1>g, Zenon DEF CancelAwaiting
  <2>2. AnswersKept
    BY <1>7, <2>1, <1>b, Zenon DEF CancelAwaiting, AnswersKept, resolver
  <2> QED
    BY <1>a, <1>7, <2>2, FenceKept, ZenonT(30) DEF CancelAwaiting, environment
<1>8. ASSUME NEW c \in Callers, NEW value, Return(c, value), pc[c] # "idle",
             UNCHANGED <<truth, invalidated>>,
             \A d \in Callers : pc[d] = "creator" /\ d # c
                 => epochs'[User(key[d])] = epochs[User(key[d])]
      PROVE  Fence'
  <2>1. ASSUME NEW d \in Callers, pc'[d] = "creator"
        PROVE  d # c /\ pc[d] = "creator" /\ key'[d] = key[d] /\ epoch'[d] = epoch[d]
    BY <1>8, <2>1, <1>b, Zenon DEF Return
  <2>2. \A d \in Callers : fetch'[d] \in {fetch[d], NoFetch}
    BY <1>8, <1>b, <1>g, Zenon DEF Return
  <2>3. AnswersKept
    BY <2>1, <2>2, <1>8 DEF AnswersKept, NoFetch
  <2> QED
    BY <1>a, <1>8, <2>3, FenceKept, Zenon
<1>9. ASSUME NEW c \in Callers, JoinerResumes(c) PROVE Fence'
  <2>1. pc[c] # "idle" /\ UNCHANGED <<epochs, truth, invalidated>>
    BY <1>9, Zenon DEF JoinerResumes, resolver, environment
  <2>2. PICK value : Return(c, value)
    BY <1>9, Zenon DEF JoinerResumes
  <2> QED
    BY <1>8, <2>1, <2>2, Zenon
<1>10. ASSUME NEW c \in Callers, CreatorStores(c) \/ CreatorDiscards(c) \/ CreatorRaises(c)
       PROVE  Fence'
  <2>0. \E value : /\ pc[c] = "creator" /\ Finish(c) /\ Return(c, value)
                   /\ UNCHANGED <<truth, invalidated>>
    <3>1. CASE CreatorStores(c)
      BY <3>1, Zenon DEF CreatorStores, environment
    <3>2. CASE CreatorDiscards(c)
      BY <3>2, Zenon DEF CreatorDiscards, environment
    <3>3. CASE CreatorRaises(c)
      BY <3>3, Zenon DEF CreatorRaises, environment
    <3> QED
      BY <1>10, <3>1, <3>2, <3>3, Zenon
  <2>1. pc[c] = "creator" /\ Finish(c) /\ UNCHANGED <<truth, invalidated>>
    BY <2>0, Zenon
  <2>2. PICK value : Return(c, value)
    BY <2>0, Zenon
  <2>3. ASSUME NEW d \in Callers, pc[d] = "creator", d # c
        PROVE  epochs'[User(key[d])] = epochs[User(key[d])]
    BY <2>1, <2>3, <1>c, <1>d, UserOfKey, LastCreator, Zenon DEF Finish
  <2> QED
    BY <1>8, <2>1, <2>2, <2>3, Zenon
<1>11. ASSUME NEW doomed \in SUBSET Users, InvalidateMany(doomed), UNCHANGED <<callers, truth>>
       PROVE  Fence'
  <2>1. \A u \in Users :
           /\ invalidated'[u] = IF u \in doomed THEN truth[u] ELSE invalidated[u]
           /\ epochs'[u] = IF u \in doomed /\ running[u] # 0 THEN epochs[u] + 1 ELSE epochs[u]
    BY <1>11, Zenon DEF InvalidateMany
  <2>2. UNCHANGED <<pc, key, epoch, fetch, truth>>
    BY <1>11, Zenon DEF callers
  <2>3. \A u \in Users : invalidated'[u] <= truth'[u]
    BY <2>1, <2>2, <1>a, <1>c, SMTT(30) DEF Fence
  <2>4. ASSUME NEW c \in Callers, pc[c] = "creator", fetch[c].st \in {"read", "ok"},
               epoch[c] = epochs'[User(key[c])]
        PROVE  invalidated'[User(key[c])] <= fetch[c].entry.seen
    <3>1. User(key[c]) \in Users /\ running[User(key[c])] # 0
      BY <2>4, CreatorRuns, Zenon
    <3>2. /\ epoch[c] <= epochs[User(key[c])]
          /\ epochs[User(key[c])] \in Nat
          /\ epoch[c] \in Nat
      BY <2>4, <3>1, <1>b, <1>c, <1>f, Zenon
    <3>3. User(key[c]) \notin doomed
      BY <2>4, <3>1, <3>2, <2>1, SMTT(30)
    <3> QED
      BY <2>4, <3>1, <3>3, <2>1, <1>a, Zenon DEF Fence
  <2> QED
    BY <2>2, <2>3, <2>4, Zenon DEF Fence
<1>12. ASSUME NEW m \in mail, HandleInvalidation(m) PROVE Fence'
  <2>1. InvalidateMany(m.users) /\ UNCHANGED <<callers, truth>>
    BY <1>12, Zenon DEF HandleInvalidation
  <2> QED
    BY <1>11, <1>c, <2>1, Zenon
<1>13. CASE Clear
  <2>1. PICK doomed \in SUBSET Users : InvalidateMany(doomed) /\ UNCHANGED <<callers, truth>>
    BY <1>13, Zenon DEF Clear, environment
  <2> QED
    BY <1>11, <2>1, Zenon
<1>14. ASSUME NEW users \in SUBSET Users, ChangePermissions(users) PROVE Fence'
  <2>1. UNCHANGED <<pc, key, epoch, fetch, epochs, invalidated>>
    BY <1>14, Zenon DEF ChangePermissions, callers, resolver
  <2>2. \A u \in Users : truth'[u] \in {truth[u], truth[u] + 1}
    BY <1>14, Zenon DEF ChangePermissions
  <2> QED
    BY <2>1, <2>2, <1>a, <1>c DEF Fence
<1>15. ASSUME NEW c \in Callers, NEW k \in Keys, GetHit(c, k) \/ GetJoinSettled(c, k)
       PROVE  UNCHANGED <<pc, key, epoch, fetch, epochs, truth, invalidated>>
  BY <1>15, Zenon DEF GetHit, GetJoinSettled, resolver, callers, environment
<1>16. ASSUME NEW m \in mail, LoseMessage(m)
       PROVE  UNCHANGED <<pc, key, epoch, fetch, epochs, truth, invalidated>>
  BY <1>16, Zenon DEF LoseMessage, resolver, callers
<1>17. CASE Tick
  BY <1>1, <1>17, Zenon DEF Tick, resolver, callers
<1>18. CASE UNCHANGED vars
  BY <1>1, <1>18, Zenon DEF vars, resolver, callers, environment
<1>19. ASSUME NEW c \in Callers, CallerStep(c) PROVE Fence'
  BY <1>1, <1>2, <1>3, <1>4, <1>5, <1>6, <1>7, <1>9, <1>10, <1>15, <1>19, Zenon DEF CallerStep
<1> QED
  BY <1>1, <1>12, <1>13, <1>14, <1>16, <1>17, <1>18, <1>19, Zenon DEF Next

LEMMA NoStaleStep == IInv /\ [Next]_vars => NoStaleEntry'
<1> SUFFICES ASSUME IInv, [Next]_vars PROVE NoStaleEntry'
  BY Zenon
<1>a. NoStaleEntry /\ Fence /\ TypeOK
  BY Zenon DEF IInv
<1>b. /\ cache \in [Keys -> Entries \cup {NoEntry}]
      /\ \A m \in mail : m.users \in SUBSET Users
  BY <1>a, Zenon DEF TypeOK
<1>c. \A c \in Callers : pc[c] = "creator" => key[c] \in Keys
  BY Zenon DEF IInv, Shape
<1>1. CASE UNCHANGED <<cache, invalidated>>
  BY <1>a, <1>1, Zenon DEF NoStaleEntry
<1>2. ASSUME NEW c \in Callers, CreatorStores(c) PROVE NoStaleEntry'
  <2>1. key[c] \in Keys /\ invalidated[User(key[c])] <= fetch[c].entry.seen
    BY <1>2, <1>a, <1>c, ZenonT(30) DEF CreatorStores, Fence
  <2>2. PICK oldest \in Victims(key[c]) :
            cache' = [cache EXCEPT ![oldest] = NoEntry, ![key[c]] = fetch[c].entry]
    BY <1>2, ZenonT(30) DEF CreatorStores, Store
  <2>3. \A k \in Keys : cache'[k] \in {cache[k], NoEntry} \/ (k = key[c] /\ cache'[k] = fetch[c].entry)
    BY <1>b, <2>1, <2>2, Zenon
  <2>4. UNCHANGED invalidated
    BY <1>2, ZenonT(30) DEF CreatorStores
  <2> QED
    BY <1>a, <2>1, <2>3, <2>4, Zenon DEF NoStaleEntry
<1>3. ASSUME NEW doomed \in SUBSET Users, InvalidateMany(doomed) PROVE NoStaleEntry'
  <2>1. \A k \in Keys : cache'[k] = IF User(k) \in doomed THEN NoEntry ELSE cache[k]
    BY <1>3, Zenon DEF InvalidateMany
  <2>2. \A u \in Users : u \notin doomed => invalidated'[u] = invalidated[u]
    BY <1>3, Zenon DEF InvalidateMany
  <2> QED
    BY <1>a, <2>1, <2>2, UserOfKey, Zenon DEF NoStaleEntry
<1>4. ASSUME NEW c \in Callers, CallerStep(c) PROVE CreatorStores(c) \/ UNCHANGED <<cache, invalidated>>
  <2>1. ASSUME NEW k \in Keys, GetHit(c, k) \/ GetJoinSettled(c, k) \/ GetJoin(c, k) \/ GetCreate(c, k)
        PROVE  UNCHANGED <<cache, invalidated>>
    BY <2>1, ZenonT(30) DEF GetHit, GetJoinSettled, GetJoin, GetCreate, resolver
  <2>2. CASE AuthReads(c) \/ FetchReturns(c) \/ FetchRaises(c) \/ CancelAwaiting(c)
    BY <2>2, Zenon DEF AuthReads, FetchReturns, FetchRaises, CancelAwaiting, resolver
  <2>3. CASE JoinerResumes(c) \/ CreatorDiscards(c) \/ CreatorRaises(c)
    BY <2>3, ZenonT(30) DEF JoinerResumes, CreatorDiscards, CreatorRaises, resolver
  <2> QED
    BY <1>4, <2>1, <2>2, <2>3, Zenon DEF CallerStep
<1>5. ASSUME NEW m \in mail, HandleInvalidation(m) PROVE NoStaleEntry'
  BY <1>b, <1>3, <1>5, Zenon DEF HandleInvalidation
<1>6. CASE Clear
  <2>1. PICK doomed \in SUBSET Users : InvalidateMany(doomed)
    BY <1>6, Zenon DEF Clear
  <2> QED
    BY <1>3, <2>1, Zenon
<1>7. ASSUME NEW m \in mail, LoseMessage(m) PROVE UNCHANGED <<cache, invalidated>>
  BY <1>7, Zenon DEF LoseMessage, resolver
<1>8. ASSUME NEW users, ChangePermissions(users) PROVE UNCHANGED <<cache, invalidated>>
  BY <1>8, Zenon DEF ChangePermissions, resolver
<1>9. CASE Tick \/ UNCHANGED vars
  BY <1>1, <1>9, Zenon DEF Tick, vars, resolver
<1> QED
  BY <1>1, <1>2, <1>4, <1>5, <1>6, <1>7, <1>8, <1>9, Zenon DEF Next

LEMMA Inductive == IInv /\ [Next]_vars => IInv'
  BY TypeStep, ShapeStep, InflightStep, BookkeepingStep, EpochStep, FenceStep, NoStaleStep, Zenon
  DEF IInv

(* The inductive invariant holds of every behaviour of the resolver. *)
THEOREM Invariance == Spec => []IInv
  BY InitIInv, Inductive, PTL DEF Spec

(* Every variable of the resolver keeps its type; in particular the         *)
(* counter of running fetches never goes below zero in the finally block.   *)
THEOREM TypeCorrect == Spec => []TypeOK
<1>1. IInv => TypeOK
  BY Zenon DEF IInv
<1> QED
  BY <1>1, Invariance, PTL

(* The epoch fence of invalidate_many and _fetch_and_cache works: whatever  *)
(* fetches are in flight when users are invalidated, no answer read before  *)
(* a user's last invalidation is ever in the cache.                         *)
THEOREM FenceHolds == Spec => []NoStaleEntry
<1>1. IInv => NoStaleEntry
  BY Zenon DEF IInv
<1> QED
  BY <1>1, Invariance, PTL

(* _running counts the unsettled fetches of a user and _epochs holds no     *)
(* user without one, so both maps are bounded by concurrency.               *)
THEOREM BookkeepingHolds == Spec => []BookkeepingBounded
<1>1. IInv => BookkeepingBounded
  BY Zenon DEF IInv
<1> QED
  BY <1>1, Invariance, PTL

(* No fetch is left in _inflight by a creator that returned, failed or was  *)
(* cancelled.                                                               *)
THEOREM InflightHolds == Spec => []InflightHasCreator
<1>1. IInv => InflightHasCreator
  BY Zenon DEF IInv
<1> QED
  BY <1>1, Invariance, PTL

-----------------------------------------------------------------------------
(***************************************************************************)
(* The resolver implements FencedCache, and what its readers are told is   *)
(* fresh, for every number of users, tenants, callers, changes and ticks.  *)
(***************************************************************************)

Answered == {"read", "ok"}

(* Nothing is ahead of the auth service. *)
NotAhead ==
    /\ \A k \in Keys : cache[k].seen <= truth[User(k)]
    /\ \A c \in Callers : pc[c] = "creator" /\ fetch[c].st \in Answered
                              => fetch[c].entry.seen <= truth[User(key[c])]

Current(c) == pc[c] = "creator" /\ epoch[c] = epochs[User(key[c])]

(* At most one fetch of a subject may still be stored: the one in flight.  *)
CurrentIsInflight == \A c \in Callers : Current(c) => inflight[key[c]] = c

(* Its answer is no older than the one it will replace. *)
ReplacesOlder ==
    \A c \in Callers : Current(c) /\ fetch[c].st \in Answered
                           => cache[key[c]].seen <= fetch[c].entry.seen

(* A caller awaits a fetch of its own subject that will answer from no     *)
(* earlier than the caller's floor.                                        *)
AwaitsFresh ==
    \A c \in Callers : pc[c] # "idle" =>
        /\ fetch[task[c]].st # "none"
        /\ key[c] \in Keys /\ floor[c] <= truth[User(key[c])]
        /\ fetch[task[c]].st \in Running => key[task[c]] = key[c]
        /\ fetch[task[c]].st \in Answered => floor[c] <= fetch[task[c]].entry.seen

(* A user all of whose messages arrived was invalidated after the last     *)
(* change.                                                                 *)
AllDelivered ==
    \A u \in Users : u \notin lost /\ (\A m \in mail : u \notin m.users) => invalidated[u] = truth[u]

JInv == /\ IInv /\ NotAhead /\ CurrentIsInflight /\ ReplacesOlder
        /\ AwaitsFresh /\ AllDelivered /\ FreshAfterInvalidation

LEMMA InitJInv == Init => JInv
<1> SUFFICES ASSUME Init PROVE JInv
  BY Zenon
<1>1. IInv
  BY InitIInv, Zenon
<1>2. NotAhead /\ CurrentIsInflight /\ ReplacesOlder /\ AwaitsFresh
  BY UserOfKey DEF Init, NotAhead, CurrentIsInflight, ReplacesOlder, AwaitsFresh, Current, NoEntry
<1>3. AllDelivered /\ FreshAfterInvalidation
  BY Zenon DEF Init, AllDelivered, FreshAfterInvalidation
<1> QED
  BY <1>1, <1>2, <1>3, Zenon DEF JInv

-----------------------------------------------------------------------------
(* What a step may do to one piece of state. *)

(* The ways a creator leaves get(). *)
Leaves(c) ==
    /\ pc[c] = "creator" /\ fetch[c].st \in Settled /\ Finish(c)
    /\ \E value : Return(c, value)
    /\ UNCHANGED <<environment, invalidated>>

LEMMA CreatorLeaves ==
    ASSUME NEW c \in Callers, CreatorStores(c) \/ CreatorDiscards(c) \/ CreatorRaises(c)
    PROVE  Leaves(c) /\ (CreatorStores(c) \/ UNCHANGED cache)
<1>1. CASE CreatorStores(c)
  BY <1>1, Zenon DEF CreatorStores, Leaves, Settled
<1>2. CASE CreatorDiscards(c)
  BY <1>2, ZenonT(30) DEF CreatorDiscards, Leaves, Settled
<1>3. CASE CreatorRaises(c)
  BY <1>3, ZenonT(30) DEF CreatorRaises, Leaves
<1> QED
  BY <1>1, <1>2, <1>3, Zenon

(* An invalidation, by a message or by clear(). *)
Invalidates(doomed) == InvalidateMany(doomed) /\ UNCHANGED <<callers, now, truth, changes, lost>>

(* Every step is one of these. *)
LEMMA StepForms ==
    ASSUME TypeOK, [Next]_vars
    PROVE  \/ \E c \in Callers, k \in Keys : GetHit(c, k) \/ GetJoinSettled(c, k)
           \/ \E c \in Callers, k \in Keys : GetJoin(c, k)
           \/ \E c \in Callers, k \in Keys : GetCreate(c, k)
           \/ \E c \in Callers : AuthReads(c)
           \/ \E c \in Callers : FetchReturns(c)
           \/ \E c \in Callers : FetchRaises(c) \/ CancelAwaiting(c)
           \/ \E c \in Callers : JoinerResumes(c)
           \/ \E c \in Callers : Leaves(c) /\ (CreatorStores(c) \/ UNCHANGED cache)
           \/ \E users \in SUBSET Users : ChangePermissions(users)
           \/ \E doomed \in SUBSET Users : Invalidates(doomed)
           \/ UNCHANGED <<resolver, callers, truth, invalidated>>
<1>1. ASSUME NEW m \in mail, HandleInvalidation(m) PROVE \E doomed \in SUBSET Users : Invalidates(doomed)
  BY <1>1, Zenon DEF HandleInvalidation, Invalidates, TypeOK
<1>2. ASSUME Clear PROVE \E doomed \in SUBSET Users : Invalidates(doomed)
  BY <1>2, Zenon DEF Clear, Invalidates, environment
<1>3. ASSUME NEW m \in mail, LoseMessage(m) PROVE UNCHANGED <<resolver, callers, truth, invalidated>>
  BY <1>3, Zenon DEF LoseMessage
<1>4. ASSUME Tick \/ UNCHANGED vars PROVE UNCHANGED <<resolver, callers, truth, invalidated>>
  BY <1>4, Zenon DEF Tick, vars, environment
<1>5. ASSUME NEW c \in Callers, CallerStep(c)
      PROVE  \/ \E k \in Keys : GetHit(c, k) \/ GetJoinSettled(c, k) \/ GetJoin(c, k) \/ GetCreate(c, k)
             \/ AuthReads(c) \/ FetchReturns(c) \/ FetchRaises(c) \/ CancelAwaiting(c) \/ JoinerResumes(c)
             \/ Leaves(c) /\ (CreatorStores(c) \/ UNCHANGED cache)
  BY <1>5, CreatorLeaves, ZenonT(30) DEF CallerStep
<1> QED
  BY <1>1, <1>2, <1>3, <1>4, <1>5, ZenonT(30) DEF Next

LEMMA Types ==
    ASSUME IInv
    PROVE  /\ pc \in [Callers -> {"idle", "creator", "joined"}]
           /\ key \in [Callers -> Keys \cup {NoKey}]
           /\ task \in [Callers -> Callers \cup {NoTask}]
           /\ epoch \in [Callers -> Nat] /\ floor \in [Callers -> Nat]
           /\ fetch \in [Callers -> Fetches]
           /\ cache \in [Keys -> Entries \cup {NoEntry}]
           /\ inflight \in [Keys -> Callers \cup {NoTask}]
           /\ epochs \in [Users -> Nat] /\ truth \in [Users -> Nat] /\ invalidated \in [Users -> Nat]
           /\ \A c \in Callers : pc[c] = "creator" => task[c] = c /\ key[c] \in Keys /\ User(key[c]) \in Users
           /\ \A c \in Callers : pc[c] # "idle" => task[c] \in Callers
           /\ \A c \in Callers : fetch[c].st \in Running => pc[c] = "creator"
  BY UserOfKey, CallersFinite, Zenon DEF IInv, TypeOK, Shape

LEMMA TruthGrows ==
    ASSUME IInv, [Next]_vars, NEW u \in Users
    PROVE  truth'[u] \in Nat /\ truth[u] <= truth'[u]
<1>1. TypeOK /\ truth[u] \in Nat
  BY Types, Zenon DEF IInv
<1>2. ASSUME NEW users, ChangePermissions(users) PROVE truth'[u] \in {truth[u], truth[u] + 1}
  BY <1>2, Zenon DEF ChangePermissions
<1>3. (\E users : ChangePermissions(users)) \/ truth' = truth
  BY <1>1, StepForms, ZenonT(60)
  DEF GetHit, GetJoinSettled, GetJoin, GetCreate, AuthReads, FetchReturns, FetchRaises, CancelAwaiting,
      JoinerResumes, Leaves, Invalidates, environment
<1> QED
  BY <1>1, <1>2, <1>3

(* A cached answer stays, is dropped, or is replaced by a creator's. *)
LEMMA CacheMoves ==
    ASSUME IInv, [Next]_vars, NEW k \in Keys
    PROVE  \/ cache'[k] \in {cache[k], NoEntry}
           \/ \E c \in Callers : /\ CreatorStores(c) /\ Leaves(c)
                                 /\ key[c] = k /\ cache'[k] = fetch[c].entry
<1>1. TypeOK
  BY Zenon DEF IInv
<1>2. ASSUME NEW c \in Callers, CreatorStores(c), Leaves(c)
      PROVE  cache'[k] \in {cache[k], NoEntry} \/ (key[c] = k /\ cache'[k] = fetch[c].entry)
  <2>1. PICK oldest \in Victims(key[c]) :
            cache' = [cache EXCEPT ![oldest] = NoEntry, ![key[c]] = fetch[c].entry]
    BY <1>2, ZenonT(30) DEF CreatorStores, Store
  <2> QED
    BY <2>1, Types, Zenon
<1>3. ASSUME NEW doomed, Invalidates(doomed) PROVE cache'[k] \in {cache[k], NoEntry}
  BY <1>3, Zenon DEF Invalidates, InvalidateMany
<1>4. \/ \E c \in Callers : CreatorStores(c) /\ Leaves(c)
      \/ \E doomed : Invalidates(doomed)
      \/ cache' = cache
  BY <1>1, StepForms, ZenonT(60)
  DEF GetHit, GetJoinSettled, GetJoin, GetCreate, AuthReads, FetchReturns, FetchRaises, CancelAwaiting,
      JoinerResumes, ChangePermissions, resolver
<1> QED
  BY <1>2, <1>3, <1>4, ZenonT(30)

(* A creator that is there after a step was made by it, or keeps what it   *)
(* asks; its user's epoch stays, or moves on with an invalidation.         *)
LEMMA CreatorMoves ==
    ASSUME IInv, [Next]_vars, NEW c \in Callers, pc'[c] = "creator"
    PROVE  \/ \E k \in Keys : GetCreate(c, k)
           \/ /\ pc[c] = "creator" /\ key'[c] = key[c] /\ epoch'[c] = epoch[c]
              /\ epochs'[User(key[c])] \in {epochs[User(key[c])], epochs[User(key[c])] + 1}
<1> DEFINE Same == /\ pc[c] = "creator" /\ key'[c] = key[c] /\ epoch'[c] = epoch[c]
                   /\ epochs'[User(key[c])] \in {epochs[User(key[c])], epochs[User(key[c])] + 1}
<1>1. TypeOK
  BY Zenon DEF IInv
<1>2. ASSUME UNCHANGED <<pc, key, epoch, epochs>> PROVE Same
  BY <1>2, Zenon
<1>3. ASSUME NEW d \in Callers, NEW k \in Keys, GetJoin(d, k) PROVE Same
  BY <1>3, Types, Zenon DEF GetJoin, Begin, Await, resolver
<1>4. ASSUME NEW d \in Callers, NEW k \in Keys, GetCreate(d, k) PROVE d = c \/ Same
  BY <1>4, Types, Zenon DEF GetCreate, Begin, Await
<1>5. ASSUME NEW d \in Callers, JoinerResumes(d) PROVE Same
  BY <1>5, Types, Zenon DEF JoinerResumes, Return, resolver
<1>6. ASSUME NEW d \in Callers, Leaves(d) PROVE Same
  <2>1. d # c /\ pc[c] = "creator" /\ key'[c] = key[c] /\ epoch'[c] = epoch[c]
    BY <1>6, Types, Zenon DEF Leaves, Return
  <2>2. epochs'[User(key[c])] = epochs[User(key[c])]
    BY <1>6, <2>1, Types, LastCreator, Zenon DEF Leaves, Finish
  <2> QED
    BY <2>1, <2>2, Zenon
<1>7. ASSUME NEW doomed, Invalidates(doomed) PROVE Same
  BY <1>7, Types, Zenon DEF Invalidates, InvalidateMany, callers
<1>8. \/ UNCHANGED <<pc, key, epoch, epochs>>
      \/ \E d \in Callers, k \in Keys : GetJoin(d, k) \/ GetCreate(d, k)
      \/ \E d \in Callers : JoinerResumes(d) \/ Leaves(d)
      \/ \E doomed : Invalidates(doomed)
  BY <1>1, StepForms, ZenonT(60)
  DEF GetHit, GetJoinSettled, AuthReads, FetchReturns, FetchRaises, CancelAwaiting,
      ChangePermissions, resolver, callers
<1> QED
  BY <1>2, <1>3, <1>4, <1>5, <1>6, <1>7, <1>8, ZenonT(30)

(* An answer is the one that was there, or has just been read. *)
JustRead(t) ==
    /\ AuthReads(t) /\ fetch'[t].entry.seen = truth[User(key[t])]
    /\ UNCHANGED <<cache, inflight, epochs, pc, key, task, epoch, floor, truth, invalidated>>

LEMMA AnswerMoves ==
    ASSUME IInv, [Next]_vars, NEW t \in Callers, fetch'[t].st \in Answered
    PROVE  \/ fetch[t].st \in Answered /\ fetch'[t].entry.seen = fetch[t].entry.seen
           \/ JustRead(t)
<1> DEFINE Same == fetch[t].st \in Answered /\ fetch'[t].entry.seen = fetch[t].entry.seen
<1> USE DEF Answered
<1>1. TypeOK
  BY Zenon DEF IInv
<1>2. ASSUME fetch' = fetch PROVE Same
  BY <1>2, Zenon
<1>3. ASSUME NEW c \in Callers, NEW k \in Keys, GetCreate(c, k) PROVE Same
  BY <1>3, Types, Zenon DEF GetCreate
<1>4. ASSUME NEW c \in Callers, AuthReads(c) PROVE Same \/ JustRead(t)
  <2>1. CASE c = t
    BY <1>4, <2>1, Types, Zenon DEF AuthReads, JustRead, resolver, environment
  <2>2. CASE c # t
    BY <1>4, <2>2, Types, Zenon DEF AuthReads
  <2> QED
    BY <2>1, <2>2, Zenon
<1>5. ASSUME NEW c \in Callers, FetchReturns(c) PROVE Same
  BY <1>5, Types, Zenon DEF FetchReturns
<1>6. ASSUME NEW c \in Callers, FetchRaises(c) \/ CancelAwaiting(c) PROVE Same
  BY <1>6, Types, SMTT(30) DEF FetchRaises, CancelAwaiting
<1>7. ASSUME NEW c \in Callers, NEW value, pc[c] # "idle", Return(c, value) PROVE Same
  BY <1>7, Types, Zenon DEF Return, NoFetch
<1>8. ASSUME NEW c \in Callers, JoinerResumes(c) PROVE Same
  BY <1>7, <1>8, ZenonT(30) DEF JoinerResumes
<1>9. ASSUME NEW c \in Callers, Leaves(c) PROVE Same
  BY <1>7, <1>9, ZenonT(30) DEF Leaves
<1>10. \/ fetch' = fetch
       \/ \E c \in Callers, k \in Keys : GetCreate(c, k)
       \/ \E c \in Callers : \/ AuthReads(c) \/ FetchReturns(c) \/ FetchRaises(c) \/ CancelAwaiting(c)
                             \/ JoinerResumes(c) \/ Leaves(c)
  BY <1>1, StepForms, ZenonT(60)
  DEF GetHit, GetJoinSettled, GetJoin, ChangePermissions, Invalidates, callers
<1> QED
  BY <1>2, <1>3, <1>4, <1>5, <1>6, <1>8, <1>9, <1>10, ZenonT(30)

-----------------------------------------------------------------------------
(* The conjuncts of JInv, step by step. *)

LEMMA NotAheadStep == JInv /\ [Next]_vars => NotAhead'
<1> SUFFICES ASSUME JInv, [Next]_vars PROVE NotAhead'
  BY Zenon
<1>0. IInv /\ NotAhead
  BY Zenon DEF JInv
<1>1. ASSUME NEW k \in Keys PROVE cache'[k].seen <= truth'[User(k)]
  <2>1. /\ User(k) \in Users /\ truth[User(k)] \in Nat /\ truth'[User(k)] \in Nat
        /\ truth[User(k)] <= truth'[User(k)] /\ cache[k].seen <= truth[User(k)]
        /\ cache[k] \in Entries \cup {NoEntry}
    BY <1>0, TruthGrows, Types, UserOfKey, Zenon DEF NotAhead
  <2>2. CASE cache'[k] \in {cache[k], NoEntry}
    BY <2>1, <2>2 DEF NoEntry, Entries
  <2>3. ASSUME NEW c \in Callers, CreatorStores(c), key[c] = k, cache'[k] = fetch[c].entry
        PROVE  cache'[k].seen <= truth'[User(k)]
    <3>1. fetch[c].entry.seen <= truth[User(k)] /\ fetch[c].entry \in Entries
      BY <1>0, <2>3, ZenonT(30) DEF CreatorStores, NotAhead, Answered, IInv, Shape
    <3> QED
      BY <2>1, <2>3, <3>1 DEF Entries
  <2> QED
    BY <1>0, <2>2, <2>3, CacheMoves, ZenonT(30)
<1>2. ASSUME NEW c \in Callers, pc'[c] = "creator", fetch'[c].st \in Answered
      PROVE  fetch'[c].entry.seen <= truth'[User(key'[c])]
  <2>1. CASE JustRead(c)
    <3>1. key[c] \in Keys /\ User(key[c]) \in Users /\ truth[User(key[c])] \in Nat
      BY <1>0, <2>1, Types, Zenon DEF JustRead, AuthReads, Running
    <3> QED
      BY <2>1, <3>1 DEF JustRead
  <2>2. CASE fetch[c].st \in Answered /\ fetch'[c].entry.seen = fetch[c].entry.seen
    <3>1. pc[c] = "creator" /\ key'[c] = key[c]
      <4>1. ASSUME NEW k \in Keys, GetCreate(c, k) PROVE FALSE
        BY <2>2, <4>1 DEF GetCreate, Begin, NoFetch, Answered
      <4> QED
        BY <1>0, <1>2, <4>1, CreatorMoves, ZenonT(30)
    <3>2. fetch[c].entry.seen \in Nat /\ fetch[c].entry.seen <= truth[User(key[c])]
      BY <1>0, <2>2, <3>1, Zenon DEF NotAhead, IInv, Shape, Answered, Entries
    <3>3. User(key[c]) \in Users /\ truth[User(key[c])] \in Nat /\ truth'[User(key[c])] \in Nat
          /\ truth[User(key[c])] <= truth'[User(key[c])]
      BY <1>0, <3>1, Types, TruthGrows, Zenon
    <3> QED
      BY <2>2, <3>1, <3>2, <3>3
  <2> QED
    BY <1>0, <1>2, <2>1, <2>2, AnswerMoves, Zenon
<1> QED
  BY <1>1, <1>2, Zenon DEF NotAhead

(* A creator that carries its user's epoch after a step carried it before, *)
(* unless the step made it.                                                *)
LEMMA CurrentBefore ==
    ASSUME IInv, [Next]_vars, NEW c \in Callers, Current(c)'
    PROVE  \/ \E k \in Keys : GetCreate(c, k)
           \/ /\ Current(c) /\ key'[c] = key[c]
              /\ epochs'[User(key[c])] = epochs[User(key[c])]
<1>1. ASSUME pc[c] = "creator", key'[c] = key[c], epoch'[c] = epoch[c],
             epochs'[User(key[c])] \in {epochs[User(key[c])], epochs[User(key[c])] + 1}
      PROVE  Current(c) /\ epochs'[User(key[c])] = epochs[User(key[c])]
  <2>1. epoch[c] <= epochs[User(key[c])] /\ epoch[c] \in Nat /\ epochs[User(key[c])] \in Nat
    BY <1>1, Types, Zenon DEF IInv, EpochOrder
  <2>2. epoch[c] = epochs'[User(key[c])]
    BY <1>1, Zenon DEF Current
  <2> QED
    BY <1>1, <2>1, <2>2, SMTT(30) DEF Current
<1>2. pc'[c] = "creator"
  BY Zenon DEF Current
<1> QED
  BY <1>1, <1>2, CreatorMoves, ZenonT(30)

LEMMA CurrentIsInflightStep == JInv /\ [Next]_vars => CurrentIsInflight'
<1> SUFFICES ASSUME JInv, [Next]_vars, NEW c \in Callers, Current(c)'
             PROVE  inflight'[key'[c]] = c
  BY Zenon DEF CurrentIsInflight
<1>0. IInv /\ TypeOK /\ CurrentIsInflight
  BY Zenon DEF JInv, IInv
<1>1. ASSUME NEW k \in Keys, GetCreate(c, k) PROVE inflight'[key'[c]] = c
  BY <1>0, <1>1, Types, Zenon DEF GetCreate, Await
<1>2. ASSUME Current(c), key'[c] = key[c], epochs'[User(key[c])] = epochs[User(key[c])]
      PROVE  inflight'[key'[c]] = c
  <2> DEFINE k == key[c]
  <2>1. k \in Keys /\ User(k) \in Users /\ inflight[k] = c /\ c # NoTask /\ pc[c] = "creator" /\ pc'[c] = "creator"
    BY <1>0, <1>2, Types, CallersFinite, Zenon DEF Current, CurrentIsInflight
  <2>2. ASSUME NEW d \in Callers, NEW j \in Keys, GetCreate(d, j) PROVE inflight'[k] = c
    BY <1>0, <2>1, <2>2, Types, Zenon DEF GetCreate
  <2>3. ASSUME NEW d \in Callers, Leaves(d) PROVE inflight'[k] = c
    BY <1>0, <2>1, <2>3, Types, Zenon DEF Leaves, Finish, Return
  <2>4. ASSUME NEW doomed, Invalidates(doomed) PROVE inflight'[k] = c
    <3>1. running[User(k)] # 0
      BY <1>0, <2>1, CreatorRuns, Zenon
    <3>2. User(k) \notin doomed
      BY <1>0, <1>2, <2>1, <2>4, <3>1, Types, SMTT(30) DEF Invalidates, InvalidateMany
    <3> QED
      BY <2>1, <2>4, <3>2, Zenon DEF Invalidates, InvalidateMany
  <2>5. \/ inflight' = inflight
        \/ \E d \in Callers, j \in Keys : GetCreate(d, j)
        \/ \E d \in Callers : Leaves(d)
        \/ \E doomed : Invalidates(doomed)
    BY <1>0, StepForms, ZenonT(60)
    DEF GetHit, GetJoinSettled, GetJoin, AuthReads, FetchReturns, FetchRaises, CancelAwaiting,
        JoinerResumes, ChangePermissions, resolver
  <2> QED
    BY <1>2, <2>1, <2>2, <2>3, <2>4, <2>5, ZenonT(30)
<1> QED
  BY <1>0, <1>1, <1>2, CurrentBefore, Zenon

LEMMA ReplacesOlderStep == JInv /\ [Next]_vars => ReplacesOlder'
<1> SUFFICES ASSUME JInv, [Next]_vars, NEW c \in Callers, Current(c)', fetch'[c].st \in Answered
             PROVE  cache'[key'[c]].seen <= fetch'[c].entry.seen
  BY Zenon DEF ReplacesOlder
<1>0. IInv /\ NotAhead /\ CurrentIsInflight /\ ReplacesOlder
  BY Zenon DEF JInv
<1>1. CASE JustRead(c)
  <2>1. key[c] \in Keys
    BY <1>0, <1>1, Types, Zenon DEF JustRead, AuthReads, Running
  <2> QED
    BY <1>0, <1>1, <2>1, Zenon DEF JustRead, NotAhead
<1>2. CASE fetch[c].st \in Answered /\ fetch'[c].entry.seen = fetch[c].entry.seen
  <2>1. Current(c) /\ key'[c] = key[c]
    <3>1. ASSUME NEW k \in Keys, GetCreate(c, k) PROVE FALSE
      BY <1>2, <3>1 DEF GetCreate, Begin, NoFetch, Answered
    <3> QED
      BY <1>0, <3>1, CurrentBefore, ZenonT(30)
  <2>2. /\ key[c] \in Keys /\ cache[key[c]] \in Entries \cup {NoEntry}
        /\ fetch[c].entry.seen \in Nat
        /\ cache[key[c]].seen <= fetch[c].entry.seen
    BY <1>0, <1>2, <2>1, Types, Zenon DEF ReplacesOlder, Current, IInv, Shape, Answered, Entries
  <2>3. CASE cache'[key[c]] \in {cache[key[c]], NoEntry}
    BY <1>2, <2>1, <2>2, <2>3 DEF NoEntry
  <2>4. ASSUME NEW d \in Callers, CreatorStores(d), Leaves(d), key[d] = key[c] PROVE FALSE
    <3>1. Current(d)
      BY <2>4, Zenon DEF CreatorStores, Current
    <3>2. d = c
      BY <1>0, <2>1, <2>4, <3>1, Zenon DEF CurrentIsInflight
    <3>3. pc'[c] # "creator"
      BY <1>0, <2>4, <3>2, Types, Zenon DEF Leaves, Return
    <3> QED
      BY <3>3, Zenon DEF Current
  <2> QED
    BY <1>0, <2>2, <2>3, <2>4, CacheMoves, ZenonT(30)
<1> QED
  BY <1>0, <1>1, <1>2, AnswerMoves, Zenon

(* What AwaitsFresh says of one caller. *)
Awaits(c) ==
    /\ fetch[task[c]].st # "none"
    /\ key[c] \in Keys /\ floor[c] <= truth[User(key[c])]
    /\ fetch[task[c]].st \in Running => key[task[c]] = key[c]
    /\ fetch[task[c]].st \in Answered => floor[c] <= fetch[task[c]].entry.seen

LEMMA AwaitsFreshStep == JInv /\ [Next]_vars => AwaitsFresh'
<1> SUFFICES ASSUME JInv, [Next]_vars, NEW c \in Callers, pc'[c] # "idle"
             PROVE  Awaits(c)'
  BY Zenon DEF AwaitsFresh, Awaits
<1>0. IInv /\ TypeOK /\ AwaitsFresh
  BY Zenon DEF JInv, IInv
<1>a. pc[c] # "idle" => Awaits(c) /\ task[c] \in Callers
  BY <1>0, Types, Zenon DEF AwaitsFresh, Awaits
<1>b. \A u \in Users : truth'[u] \in Nat /\ truth[u] \in Nat /\ truth[u] <= truth'[u] /\ invalidated[u] <= truth[u]
  BY <1>0, TruthGrows, Types, Zenon DEF IInv, Fence
(* The task stays, with an answer that stays or is new. *)
<1>1. ASSUME pc[c] # "idle", task'[c] = task[c], key'[c] = key[c], floor'[c] = floor[c],
             fetch'[task[c]].st # "none",
             fetch'[task[c]].st \in Running => fetch[task[c]].st \in Running /\ key'[task[c]] = key[task[c]]
      PROVE  Awaits(c)'
  <2>1. /\ key[c] \in Keys /\ User(key[c]) \in Users /\ floor[c] \in Nat /\ floor[c] <= truth[User(key[c])]
        /\ task[c] \in Callers
    BY <1>0, <1>1, <1>a, Types, UserOfKey, Zenon DEF Awaits
  <2>2. floor'[c] <= truth'[User(key'[c])]
    BY <1>1, <1>b, <2>1
  <2>3. ASSUME fetch'[task[c]].st \in Answered PROVE floor[c] <= fetch'[task[c]].entry.seen
    <3>1. CASE JustRead(task[c])
      <4>1. key[task[c]] = key[c]
        BY <1>1, <1>a, <3>1, Zenon DEF JustRead, AuthReads, Awaits, Running
      <4> QED
        BY <2>1, <3>1, <4>1, Zenon DEF JustRead
    <3>2. CASE fetch[task[c]].st \in Answered /\ fetch'[task[c]].entry.seen = fetch[task[c]].entry.seen
      BY <1>1, <1>a, <3>2, Zenon DEF Awaits
    <3> QED
      BY <1>0, <2>1, <2>3, <3>1, <3>2, AnswerMoves, Zenon
  <2> QED
    BY <1>1, <1>a, <2>1, <2>2, <2>3, Zenon DEF Awaits
<1>2. ASSUME UNCHANGED callers PROVE Awaits(c)'
  BY <1>1, <1>2, <1>a, Zenon DEF callers, Awaits
(* Whoever calls get() has no fetch that others await. *)
<1>3. ASSUME NEW d \in Callers, Begin(d), pc[c] # "idle" PROVE task[c] # d
  BY <1>3, <1>a DEF Begin, Awaits, NoFetch
<1>4. ASSUME NEW d \in Callers, NEW k \in Keys, GetJoin(d, k) PROVE Awaits(c)'
  <2>1. CASE d # c
    <3>1. pc[c] # "idle" /\ task'[c] = task[c] /\ key'[c] = key[c] /\ floor'[c] = floor[c]
      BY <1>0, <1>4, <2>1, Types, Zenon DEF GetJoin, Await
    <3>2. task[c] \in Callers /\ task[c] # d /\ key'[task[c]] = key[task[c]] /\ fetch' = fetch
      BY <1>0, <1>3, <1>4, <1>a, <3>1, Types, Zenon DEF GetJoin, Await
    <3> QED
      BY <1>1, <1>a, <3>1, <3>2, Zenon DEF Awaits
  <2>2. CASE d = c
    <3> DEFINE t == inflight[k]
    <3>1. /\ t \in Callers /\ pc[t] = "creator" /\ key[t] = k /\ epoch[t] = epochs[User(k)]
          /\ fetch[t].st \in Running
      BY <1>0, <1>4, Types DEF GetJoin, IInv, InflightHasCreator, EpochOrder
    <3>2. t # c /\ task'[c] = t /\ key'[c] = k /\ key'[t] = k /\ floor'[c] = invalidated[User(k)]
          /\ UNCHANGED <<fetch, truth>>
      BY <1>0, <1>4, <2>2, <3>1, Types, Zenon DEF GetJoin, Begin, Await, environment
    <3>3. fetch[t].st \in Answered => invalidated[User(k)] <= fetch[t].entry.seen
      BY <1>0, <3>1, Zenon DEF IInv, Fence, Answered
    <3>4. invalidated[User(k)] <= truth[User(k)]
      BY <1>b, UserOfKey, Zenon
    <3> QED
      BY <3>1, <3>2, <3>3, <3>4, Zenon DEF Awaits, Running
  <2> QED
    BY <2>1, <2>2, Zenon
<1>5. ASSUME NEW d \in Callers, NEW k \in Keys, GetCreate(d, k) PROVE Awaits(c)'
  <2>1. CASE d # c
    <3>1. pc[c] # "idle" /\ task'[c] = task[c] /\ key'[c] = key[c] /\ floor'[c] = floor[c]
      BY <1>0, <1>5, <2>1, Types, Zenon DEF GetCreate, Await
    <3>2. /\ task[c] \in Callers /\ task[c] # d /\ key'[task[c]] = key[task[c]]
          /\ fetch'[task[c]] = fetch[task[c]]
      BY <1>0, <1>3, <1>5, <1>a, <3>1, Types, Zenon DEF GetCreate, Await
    <3> QED
      BY <1>1, <1>a, <3>1, <3>2, Zenon DEF Awaits
  <2>2. CASE d = c
    <3>1. /\ task'[c] = c /\ key'[c] = k /\ floor'[c] = invalidated[User(k)] /\ truth' = truth
          /\ fetch'[c].st = "sent"
      BY <1>0, <1>5, <2>2, Types, Zenon DEF GetCreate, Await, environment
    <3>2. invalidated[User(k)] <= truth[User(k)]
      BY <1>b, UserOfKey, Zenon
    <3> QED
      BY <3>1, <3>2, Zenon DEF Awaits, Answered
  <2> QED
    BY <2>1, <2>2, Zenon
<1>6. ASSUME NEW d \in Callers, AuthReads(d) \/ FetchReturns(d) \/ FetchRaises(d) \/ CancelAwaiting(d)
      PROVE  Awaits(c)'
  <2>1. UNCHANGED <<pc, task, key, floor>>
    BY <1>6, ZenonT(30) DEF AuthReads, FetchReturns, FetchRaises, CancelAwaiting
  <2>2. \A t \in Callers : /\ fetch[t].st # "none" => fetch'[t].st # "none"
                           /\ fetch'[t].st \in Running => fetch[t].st \in Running
    BY <1>0, <1>6, Types, SMTT(30) DEF AuthReads, FetchReturns, FetchRaises, CancelAwaiting, Running
  <2> QED
    BY <1>1, <1>a, <2>1, <2>2, Zenon DEF Awaits
<1>7. ASSUME NEW d \in Callers, NEW value, Return(d, value), pc[d] # "idle", fetch[d].st \notin Running
      PROVE  Awaits(c)'
  <2>1. d # c /\ pc[c] # "idle" /\ task'[c] = task[c] /\ key'[c] = key[c] /\ floor'[c] = floor[c]
    BY <1>0, <1>7, Types, Zenon DEF Return
  <2>2. fetch'[task[c]] = fetch[task[c]]
    BY <1>0, <1>7, <1>a, <2>1, Types, Zenon DEF Return
  <2>3. task[c] # d => key'[task[c]] = key[task[c]]
    BY <1>0, <1>7, <1>a, <2>1, Types, Zenon DEF Return
  <2> QED
    BY <1>1, <1>7, <1>a, <2>1, <2>2, <2>3, Zenon DEF Awaits
<1>8. ASSUME NEW d \in Callers, JoinerResumes(d) PROVE Awaits(c)'
  <2>1. pc[d] # "idle" /\ fetch[d].st \notin Running /\ \E value : Return(d, value)
    BY <1>0, <1>8, Types, ZenonT(30) DEF JoinerResumes
  <2> QED
    BY <1>7, <2>1, Zenon
<1>9. ASSUME NEW d \in Callers, Leaves(d) PROVE Awaits(c)'
  <2>1. pc[d] # "idle" /\ fetch[d].st \notin Running /\ \E value : Return(d, value)
    BY <1>9, Zenon DEF Leaves, Settled, Running
  <2> QED
    BY <1>7, <2>1, Zenon
<1>10. \/ UNCHANGED callers
       \/ \E d \in Callers, k \in Keys : GetJoin(d, k) \/ GetCreate(d, k)
       \/ \E d \in Callers : \/ AuthReads(d) \/ FetchReturns(d) \/ FetchRaises(d) \/ CancelAwaiting(d)
                             \/ JoinerResumes(d) \/ Leaves(d)
  BY <1>0, StepForms, ZenonT(60)
  DEF GetHit, GetJoinSettled, ChangePermissions, Invalidates
<1> QED
  BY <1>2, <1>4, <1>5, <1>6, <1>8, <1>9, <1>10, ZenonT(30)

LEMMA AllDeliveredStep == JInv /\ [Next]_vars => AllDelivered'
<1> SUFFICES ASSUME JInv, [Next]_vars PROVE AllDelivered'
  BY Zenon
<1>0. TypeOK /\ AllDelivered
  BY Zenon DEF JInv, IInv
<1> USE <1>0 DEF AllDelivered
<1>1. ASSUME UNCHANGED <<truth, invalidated, mail, lost>> PROVE AllDelivered'
  BY <1>1, Zenon
<1>2. ASSUME NEW users \in SUBSET Users, ChangePermissions(users) PROVE AllDelivered'
  <2> DEFINE m == [id |-> changes, users |-> users]
  <2>1. m \in mail' /\ m.users = users /\ mail \subseteq mail' /\ UNCHANGED <<lost, invalidated>>
    BY <1>2, Zenon DEF ChangePermissions
  <2>2. \A u \in Users : u \notin users => truth'[u] = truth[u]
    BY <1>2, Zenon DEF ChangePermissions
  <2> HIDE DEF m
  <2> QED
    BY <2>1, <2>2, Zenon
<1>3. ASSUME NEW m \in mail, HandleInvalidation(m) PROVE AllDelivered'
  BY <1>3, Zenon DEF HandleInvalidation, InvalidateMany, TypeOK
<1>4. ASSUME NEW m \in mail, LoseMessage(m) PROVE AllDelivered'
  BY <1>4, Zenon DEF LoseMessage
<1>5. ASSUME Clear PROVE AllDelivered'
  <2>1. PICK doomed \in SUBSET Users : InvalidateMany(doomed)
    BY <1>5, Zenon DEF Clear
  <2>2. UNCHANGED <<truth, mail, lost>>
    BY <1>5, Zenon DEF Clear, environment
  <2>3. \A u \in Users : invalidated'[u] \in {invalidated[u], truth[u]}
    BY <2>1, Zenon DEF InvalidateMany
  <2> QED
    BY <2>2, <2>3, Zenon
<1>6. ASSUME NEW c \in Callers, CallerStep(c) PROVE UNCHANGED <<truth, invalidated, mail, lost>>
  <2>1. ASSUME NEW k \in Keys, GetHit(c, k) \/ GetJoinSettled(c, k) \/ GetJoin(c, k) \/ GetCreate(c, k)
        PROVE  UNCHANGED <<truth, invalidated, mail, lost>>
    BY <2>1, ZenonT(30) DEF GetHit, GetJoinSettled, GetJoin, GetCreate, environment
  <2>2. CASE AuthReads(c) \/ FetchReturns(c) \/ FetchRaises(c) \/ CancelAwaiting(c) \/ JoinerResumes(c)
    BY <2>2, ZenonT(30) DEF AuthReads, FetchReturns, FetchRaises, CancelAwaiting, JoinerResumes, environment
  <2>3. CASE CreatorStores(c) \/ CreatorDiscards(c) \/ CreatorRaises(c)
    BY <2>3, CreatorLeaves, Zenon DEF Leaves, environment
  <2> QED
    BY <1>6, <2>1, <2>2, <2>3, Zenon DEF CallerStep
<1>7. ASSUME Tick \/ UNCHANGED vars PROVE UNCHANGED <<truth, invalidated, mail, lost>>
  BY <1>7, Zenon DEF Tick, vars, environment
<1> QED
  BY <1>1, <1>2, <1>3, <1>4, <1>5, <1>6, <1>7, ZenonT(30) DEF Next

LEMMA FreshStep == JInv /\ [Next]_vars => FreshAfterInvalidation'
<1> SUFFICES ASSUME JInv, [Next]_vars PROVE FreshAfterInvalidation'
  BY Zenon
<1>0. IInv /\ AwaitsFresh /\ FreshAfterInvalidation
  BY Zenon DEF JInv
<1>1. ASSUME reply' \in {reply, NoReply} PROVE FreshAfterInvalidation'
  BY <1>0, <1>1, Zenon DEF FreshAfterInvalidation
<1>2. ASSUME NEW t \in Callers, NEW least \in Nat, reply' = Outcome(t, least),
             fetch[t].st = "ok" => least <= fetch[t].entry.seen
      PROVE  FreshAfterInvalidation'
  <2>1. fetch[t].st = "ok" => fetch[t].entry.seen \in Nat
    BY <1>0, Zenon DEF IInv, Shape, Entries
  <2> QED
    BY <1>2, <2>1, Zenon DEF FreshAfterInvalidation, Outcome
<1>3. ASSUME NEW c \in Callers, NEW k \in Keys, GetHit(c, k) PROVE FreshAfterInvalidation'
  BY <1>0, <1>3, Zenon DEF GetHit, Fresh, IInv, NoStaleEntry, FreshAfterInvalidation
<1>4. ASSUME NEW c \in Callers, NEW k \in Keys, GetJoinSettled(c, k) PROVE FreshAfterInvalidation'
  <2> DEFINE t == inflight[k]
  <2>1. t \in Callers /\ pc[t] = "creator" /\ key[t] = k /\ epoch[t] = epochs[User(k)]
    BY <1>0, <1>4, Types DEF GetJoinSettled, IInv, InflightHasCreator, EpochOrder
  <2>2. fetch[t].st = "ok" => invalidated[User(k)] <= fetch[t].entry.seen
    BY <1>0, <2>1, Zenon DEF IInv, Fence
  <2>3. invalidated[User(k)] \in Nat
    BY <1>0, Types, UserOfKey, Zenon
  <2> QED
    BY <1>2, <1>4, <2>1, <2>2, <2>3, Zenon DEF GetJoinSettled
<1>5. ASSUME NEW c \in Callers, pc[c] # "idle", reply' \in {NoReply, Outcome(task[c], floor[c])}
      PROVE  FreshAfterInvalidation'
  <2>1. /\ task[c] \in Callers /\ floor[c] \in Nat
        /\ fetch[task[c]].st = "ok" => floor[c] <= fetch[task[c]].entry.seen
    BY <1>0, <1>5, Types, Zenon DEF AwaitsFresh, Answered
  <2> QED
    BY <1>1, <1>2, <1>5, <2>1, Zenon
<1>6. ASSUME NEW c \in Callers, JoinerResumes(c) PROVE FreshAfterInvalidation'
  BY <1>5, <1>6, ZenonT(30) DEF JoinerResumes, Return
<1>7. ASSUME NEW c \in Callers, CreatorStores(c) \/ CreatorDiscards(c) \/ CreatorRaises(c)
      PROVE  FreshAfterInvalidation'
  <2>1. pc[c] = "creator" /\ reply' \in {NoReply, Outcome(c, floor[c])}
    BY <1>7, ZenonT(30) DEF CreatorStores, CreatorDiscards, CreatorRaises, Return
  <2>2. task[c] = c
    BY <1>0, <2>1, Types, Zenon
  <2> QED
    BY <1>5, <2>1, <2>2, Zenon
<1>8. ASSUME NEW c \in Callers, CallerStep(c) PROVE FreshAfterInvalidation'
  <2>1. ASSUME NEW k \in Keys, GetJoin(c, k) \/ GetCreate(c, k) PROVE FreshAfterInvalidation'
    BY <1>1, <2>1, ZenonT(30) DEF GetJoin, GetCreate, Await
  <2>2. CASE AuthReads(c) \/ FetchReturns(c) \/ FetchRaises(c) \/ CancelAwaiting(c)
    BY <1>1, <2>2, ZenonT(30) DEF AuthReads, FetchReturns, FetchRaises, CancelAwaiting
  <2> QED
    BY <1>3, <1>4, <1>6, <1>7, <1>8, <2>1, <2>2, ZenonT(30) DEF CallerStep
<1>9. ASSUME NEW m \in mail, HandleInvalidation(m) \/ LoseMessage(m) PROVE FreshAfterInvalidation'
  BY <1>1, <1>9, ZenonT(30) DEF HandleInvalidation, LoseMessage, InvalidateMany
<1>10. ASSUME Clear \/ Tick \/ (\E users : ChangePermissions(users)) PROVE FreshAfterInvalidation'
  BY <1>1, <1>10, ZenonT(30) DEF Clear, Tick, ChangePermissions, InvalidateMany
<1>11. CASE UNCHANGED vars
  BY <1>1, <1>11, Zenon DEF vars
<1> QED
  BY <1>8, <1>9, <1>10, <1>11, ZenonT(30) DEF Next

LEMMA InductiveJ == JInv /\ [Next]_vars => JInv'
<1>1. JInv /\ [Next]_vars => IInv'
  BY Inductive, Zenon DEF JInv
<1> QED
  BY <1>1, NotAheadStep, CurrentIsInflightStep, ReplacesOlderStep, AwaitsFreshStep, AllDeliveredStep, FreshStep, Zenon
  DEF JInv

(* The inductive invariant holds of every behaviour of the resolver. *)
THEOREM FreshnessInvariance == Spec => []JInv
  BY InitJInv, InductiveJ, PTL DEF Spec

(* A reader that calls get() after an invalidation is never answered from  *)
(* before it, neither from the cache nor by joining a fetch.               *)
THEOREM ReadersAreFresh == Spec => []FreshAfterInvalidation
<1>1. JInv => FreshAfterInvalidation
  BY Zenon DEF JInv
<1> QED
  BY <1>1, FreshnessInvariance, PTL

(* When every message about a user was delivered, what the cache holds     *)
(* about the user is current.                                              *)
THEOREM CacheConverges == Spec => []ConvergedWhenDelivered
<1>1. JInv => ConvergedWhenDelivered
  <2> SUFFICES ASSUME JInv, NEW k \in Keys, cache[k] # NoEntry, User(k) \notin lost,
                      \A m \in mail : User(k) \notin m.users
               PROVE  cache[k].seen = truth[User(k)]
    BY Zenon DEF ConvergedWhenDelivered
  <2>1. User(k) \in Users /\ invalidated[User(k)] = truth[User(k)]
    BY UserOfKey, Zenon DEF JInv, AllDelivered
  <2>2. cache[k].seen >= invalidated[User(k)] /\ cache[k].seen <= truth[User(k)]
    BY Zenon DEF JInv, IInv, NoStaleEntry, NotAhead
  <2>3. cache[k].seen \in Nat /\ truth[User(k)] \in Nat
    BY <2>1, Types, Zenon DEF JInv, Entries
  <2> QED
    BY <2>1, <2>2, <2>3
<1> QED
  BY <1>1, FreshnessInvariance, PTL

-----------------------------------------------------------------------------
(* The refinement. *)

LEMMA InitRefines == Init => Abstract!CacheInit
  BY DEF Init, Abstract!CacheInit, Abstract!Subjects, Abstract!None, Keys, NoEntry

Seen == [k \in Keys |-> cache[k].seen]

(* A step that leaves these alone is a stutter of the abstract cache. *)
Unseen == UNCHANGED <<cache, truth, invalidated>>

(* Storing an answer is a Fill; the victim that made room is its victim.   *)
LEMMA StoringIsFill ==
    ASSUME JInv, NEW c \in Callers, CreatorStores(c), Leaves(c)
    PROVE  \E victim \in Keys : Abstract!Fill(key[c], victim)
<1> DEFINE k == key[c]
<1>0. IInv
  BY Zenon DEF JInv
<1>1. k \in Keys /\ User(k) \in Users /\ fetch[c].st = "ok" /\ Current(c)
  BY <1>0, Types, Zenon DEF Leaves, CreatorStores, Current
<1>2. fetch[c].entry \in Entries /\ fetch[c].entry.seen \in Nat
  BY <1>0, <1>1, Zenon DEF IInv, Shape, Entries
<1>3. /\ invalidated[User(k)] \in Nat /\ truth[User(k)] \in Nat
      /\ invalidated[User(k)] <= fetch[c].entry.seen
      /\ fetch[c].entry.seen <= truth[User(k)]
      /\ cache[k].seen <= fetch[c].entry.seen
  BY <1>0, <1>1, Types, Zenon DEF JInv, IInv, Fence, NotAhead, ReplacesOlder, Current, Answered
<1>4. PICK victim \in Victims(k) : cache' = [cache EXCEPT ![victim] = NoEntry, ![k] = fetch[c].entry]
  BY ZenonT(30) DEF CreatorStores, Store
<1>5. victim \in Keys
  BY <1>1, <1>4, Zenon DEF Victims, Oldest, Cached
<1>6. Seen' = [Seen EXCEPT ![victim] = -1, ![k] = fetch[c].entry.seen]
  <2>1. \A j \in Keys : cache'[j] = IF j = k THEN fetch[c].entry ELSE IF j = victim THEN NoEntry ELSE cache[j]
    BY <1>0, <1>1, <1>4, <1>5, Types, Zenon
  <2>2. NoEntry.seen = -1
    BY Zenon DEF NoEntry
  <2>3. \A j \in Keys : Seen'[j] = IF j = k THEN fetch[c].entry.seen ELSE IF j = victim THEN -1 ELSE Seen[j]
    BY <2>1, <2>2, Zenon DEF Seen
  <2>4. Seen = [j \in Keys |-> Seen[j]] /\ Seen' = [j \in Keys |-> Seen'[j]]
    BY Zenon DEF Seen
  <2> HIDE DEF k
  <2> QED
    BY <1>1, <1>5, <2>3, <2>4, Zenon
<1>7. UNCHANGED <<truth, invalidated>>
  BY Zenon DEF Leaves, environment
<1>8. /\ fetch[c].entry.seen \in invalidated[k[1]] .. truth[k[1]]
      /\ fetch[c].entry.seen >= Seen[k]
  BY <1>0, <1>1, <1>2, <1>3, Types DEF User, Seen, Entries, NoEntry
<1> QED
  BY <1>5, <1>6, <1>7, <1>8, Zenon DEF Abstract!Fill, Abstract!None, Seen

LEMMA InvalidatingIsInvalidate ==
    ASSUME IInv, NEW doomed \in SUBSET Users, Invalidates(doomed)
    PROVE  Abstract!Invalidate(doomed)
<1>1. Seen' = [k \in Keys |-> IF k[1] \in doomed THEN -1 ELSE Seen[k]]
  BY Types, Zenon DEF Invalidates, InvalidateMany, Seen, NoEntry, User
<1>2. truth' = truth /\ invalidated' = [u \in Users |-> IF u \in doomed THEN truth[u] ELSE invalidated[u]]
  BY Zenon DEF Invalidates, InvalidateMany
<1> QED
  BY <1>1, <1>2, Zenon DEF Abstract!Invalidate, Abstract!None, Abstract!Subjects, Seen, Keys

LEMMA StepRefines ==
    ASSUME JInv, [Next]_vars
    PROVE  [Abstract!CacheNext]_(Abstract!cacheVars)
<1>0. IInv /\ TypeOK
  BY Zenon DEF JInv, IInv
<1>1. ASSUME Unseen PROVE UNCHANGED Abstract!cacheVars
  BY <1>1, Zenon DEF Unseen, Abstract!cacheVars
<1>2. ASSUME NEW c \in Callers, CreatorStores(c), Leaves(c) PROVE Abstract!CacheNext
  BY <1>0, <1>2, StoringIsFill, Types, Zenon DEF Abstract!CacheNext, Abstract!Subjects, Keys, Leaves
<1>3. ASSUME NEW doomed \in SUBSET Users, Invalidates(doomed) PROVE Abstract!CacheNext
  BY <1>0, <1>3, InvalidatingIsInvalidate, Zenon DEF Abstract!CacheNext
<1>4. ASSUME NEW users \in SUBSET Users, ChangePermissions(users) PROVE Abstract!CacheNext
  BY <1>4, Zenon DEF ChangePermissions, resolver, Abstract!CacheNext, Abstract!Change
<1>5. ASSUME NEW c \in Callers, Leaves(c), UNCHANGED cache PROVE Unseen
  BY <1>5, Zenon DEF Leaves, environment, Unseen
<1>6. \/ Unseen
      \/ \E c \in Callers : CreatorStores(c) /\ Leaves(c)
      \/ \E users \in SUBSET Users : ChangePermissions(users)
      \/ \E doomed \in SUBSET Users : Invalidates(doomed)
  BY <1>0, <1>5, StepForms, ZenonT(60)
  DEF GetHit, GetJoinSettled, GetJoin, GetCreate, AuthReads, FetchReturns, FetchRaises, CancelAwaiting,
      JoinerResumes, resolver, environment, Unseen
<1> QED
  BY <1>1, <1>2, <1>3, <1>4, <1>6, ZenonT(30)

(* Whatever fetches, failures, cancellations, invalidations and evictions  *)
(* interleave, the cached versions change as those of the abstract cache:  *)
(* none is ever replaced by an older one.                                  *)
THEOREM Refinement == Spec => ImplementsFencedCache
  BY InitRefines, StepRefines, FreshnessInvariance, PTL DEF Spec, ImplementsFencedCache, Abstract!CacheSpec

=============================================================================
