--------------------------- MODULE ServingProofs ----------------------------
(***************************************************************************)
(* What serves a request: the server and its health service, the rows a    *)
(* statement may read, what a PATCH changes, how a call is admitted,       *)
(* served and answered, the contracts its code is generated from, and what *)
(* a conditional GET reads.                                                *)
(***************************************************************************)
EXTENDS GrpcServer, TenantScope, PatchFields, GrpcRequests, ContractSync, ConditionalGet, TLAPS

-----------------------------------------------------------------------------
(***************************************************************************)
(* The health service keeps every watcher informed, and a server is said   *)
(* to be NOT_SERVING before it refuses calls: for any number of            *)
(* lifecycles, services, Watch calls and status changes.                   *)
(***************************************************************************)

(* A change told to the live calls of the names it is about keeps the types. *)
LEMMA TellTypes ==
    ASSUME TypeOK, NEW ns \in SUBSET Names, NEW to \in Statuses, Tell(ns, to)
    PROVE  /\ status' \in [Names -> Statuses \cup {Unknown}]
           /\ held' \in [Watchers -> Statuses \cup {Unknown}]
           /\ changed' \in [Watchers -> BOOLEAN]
<1>1. status' \in [Names -> Statuses \cup {Unknown}]
  BY Zenon DEF TypeOK, Tell
<1>2. held' \in [Watchers -> Statuses \cup {Unknown}]
  BY Zenon DEF TypeOK, Tell
<1>3. changed' \in [Watchers -> BOOLEAN]
  BY Zenon DEF TypeOK, Tell
<1> QED
  BY <1>1, <1>2, <1>3, Zenon

(* It reaches every live call of those names, and no other. *)
LEMMA TellHeld ==
    ASSUME TypeOK, RegistrationsAreCalls, HeldIsCurrent, UNCHANGED <<wpc, target>>,
           NEW ns \in SUBSET Names, NEW to \in Statuses, Tell(ns, to)
    PROVE  HeldIsCurrent'
<1> SUFFICES ASSUME NEW w \in Watchers, Calling(w)
             PROVE  target[w] \in Names /\ held'[w] = status'[target[w]]
  BY Zenon DEF HeldIsCurrent, Calling
<1>1. target[w] \in Names /\ held[w] = status[target[w]]
  BY Zenon DEF HeldIsCurrent
<1>2. (\E n \in ns : w \in watching[n]) <=> target[w] \in ns
  BY <1>1 DEF RegistrationsAreCalls
<1> QED
  BY <1>1, <1>2, Zenon DEF Tell

(* Whoever holds a new status has its event set. *)
LEMMA TellCleared ==
    ASSUME ClearedIsSeen, UNCHANGED <<wpc, sent, writing>>, NEW ns, NEW to, Tell(ns, to)
    PROVE  ClearedIsSeen'
<1> SUFFICES ASSUME NEW w \in Watchers, ~changed'[w]
             PROVE  /\ wpc[w] = "waiting" => sent[w] = held'[w]
                    /\ wpc[w] = "writing" => writing[w] = held'[w]
  BY Zenon DEF ClearedIsSeen
<1>1. ~changed[w] /\ held'[w] = held[w]
  BY Zenon DEF Tell
<1> QED
  BY <1>1, Zenon DEF ClearedIsSeen

(* What the beginning of a server's shutdown does to its health service. *)
LEMMA ShutdownTells ==
    ASSUME NEW srv \in Servers, EnterGracefulShutdown(srv)
    PROVE  \/ UNCHANGED <<status, held, changed, final>>
           \/ \E ns \in SUBSET Names : Tell(ns, "NOT_SERVING")
BY Zenon DEF EnterGracefulShutdown

(* Types are kept. *)
LEMMA TypeStep == IInv /\ [Next]_vars => TypeOK'
<1> SUFFICES ASSUME IInv, [Next]_vars PROVE TypeOK'
  BY Zenon
<1>0. TypeOK
  BY Zenon DEF IInv
<1>1. ASSUME NEW l \in Servers, \E raises \in BOOLEAN : Startup(l, raises)
      PROVE  TypeOK'
  BY <1>0, <1>1
     DEF Startup, CreateGrpcServer, TypeOK, Names, Statuses, Calling, servers, health, watchers
<1>2. ASSUME NEW l \in Servers, Started(l)
      PROVE  TypeOK'
  BY <1>0, <1>2, Zenon DEF Started, TypeOK, Names, Statuses, Calling, servers, health, watchers
<1>3. ASSUME NEW l \in Servers, Shutdown(l, default) \/ Shutdown(l, l)
      PROVE  TypeOK'
  <2>1. PICK srv \in Servers : Shutdown(l, srv)
    BY <1>3, Zenon DEF Shutdown
  <2>2. /\ life' \in [Servers -> {"none", "created", "running", "stopping", "stopped"}]
        /\ known' \subseteq Servers
        /\ shutdown' \in [Servers -> {"idle", "awaiting", "returned"}]
        /\ stopping' \in [Servers -> Servers \cup {NoServer}]
        /\ UNCHANGED <<default, startup, watching, wpc, target, sent, writing, changes>>
    BY <1>0, <2>1, Zenon DEF Shutdown, TypeOK
  <2>3. final' \in [Servers -> BOOLEAN]
    BY <1>0, <2>1, Zenon DEF Shutdown, EnterGracefulShutdown, TypeOK
  <2>4. CASE UNCHANGED <<status, held, changed>>
    BY <1>0, <2>2, <2>3, <2>4, Zenon DEF TypeOK
  <2>5. ASSUME NEW ns \in SUBSET Names, Tell(ns, "NOT_SERVING")
        PROVE  TypeOK'
    <3>1. "NOT_SERVING" \in Statuses
      BY Zenon DEF Statuses
    <3> QED
      BY <1>0, <2>2, <2>3, <2>5, <3>1, TellTypes, Zenon DEF TypeOK
  <2> QED
    BY <2>1, <2>4, <2>5, ShutdownTells, Zenon DEF Shutdown
<1>4. ASSUME NEW l \in Servers, ShutdownOfNone(l)
      PROVE  TypeOK'
  BY <1>0, <1>4, Zenon DEF ShutdownOfNone, TypeOK, Names, Statuses, Calling, servers, health, watchers
<1>5. ASSUME NEW l \in Servers, ServerStops(l)
      PROVE  TypeOK'
  BY <1>0, <1>5, Zenon DEF ServerStops, TypeOK, Names, Statuses, Calling, servers, health, watchers
<1>6. ASSUME NEW l \in Servers, ShutdownReturns(l)
      PROVE  TypeOK'
  BY <1>0, <1>6, Zenon DEF ShutdownReturns, TypeOK, Names, Statuses, Calling, servers, health, watchers
<1>7. ASSUME NEW srv \in Probed, NEW s \in Services, NEW to \in Statuses, Set(srv, s, to)
      PROVE  TypeOK'
  <2>1. /\ changes' \in 0..MaxChanges
        /\ UNCHANGED <<servers, final, watching, wpc, target, sent, writing>>
    BY <1>0, <1>7, MaxChangesNat DEF Set, TypeOK
  <2>2. CASE UNCHANGED <<status, held, changed>>
    BY <1>0, <2>1, <2>2, Zenon DEF TypeOK, servers
  <2>3. CASE Tell({<<srv, s>>}, to)
    <3>1. {<<srv, s>>} \in SUBSET Names
      BY ProbedAreServers DEF Names
    <3> QED
      BY <1>0, <2>1, <2>3, <3>1, TellTypes, Zenon DEF TypeOK, servers
  <2> QED
    BY <1>7, <2>2, <2>3, Zenon DEF Set
<1>8. ASSUME NEW w \in Watchers, NEW srv \in Probed, NEW s \in Services, Watch(w, <<srv, s>>)
      PROVE  TypeOK'
  BY <1>0, <1>8, ProbedAreServers, Zenon
     DEF Watch, TypeOK, Names, Statuses, Calling, servers, health, watchers
<1>9. ASSUME NEW w \in Watchers, Wake(w)
      PROVE  TypeOK'
  BY <1>0, <1>9 DEF Wake, TypeOK, Names, Statuses, Calling, servers, health, watchers
<1>10. ASSUME NEW w \in Watchers, Written(w)
      PROVE  TypeOK'
  BY <1>0, <1>10, Zenon DEF Written, TypeOK, Names, Statuses, Calling, servers, health, watchers
<1>11. ASSUME NEW w \in Watchers, Leave(w)
      PROVE  TypeOK'
  BY <1>0, <1>11, Zenon DEF Leave, TypeOK, Names, Statuses, Calling, servers, health, watchers
<1>12. CASE UNCHANGED vars
  BY <1>0, <1>12, Zenon DEF TypeOK, Names, Statuses, Calling, vars, servers, health, watchers
<1> QED
  BY <1>1, <1>2, <1>3, <1>4, <1>5, <1>6, <1>7, <1>8, <1>9, <1>10, <1>11, <1>12, Zenon DEF Next

(* Registrations stay the live calls. *)
LEMMA RegistrationsStep == IInv /\ [Next]_vars => RegistrationsAreCalls'
<1> SUFFICES ASSUME IInv, [Next]_vars PROVE RegistrationsAreCalls'
  BY Zenon
<1>0. TypeOK /\ RegistrationsAreCalls /\ HeldIsCurrent
  BY Zenon DEF IInv
<1>1. ASSUME NEW l \in Servers, \E raises \in BOOLEAN : Startup(l, raises)
      PROVE  RegistrationsAreCalls'
  BY <1>0, <1>1
     DEF Startup, CreateGrpcServer, TypeOK, RegistrationsAreCalls, HeldIsCurrent, Names,
         Calling, servers, health, watchers
<1>2. ASSUME NEW l \in Servers, Started(l)
      PROVE  RegistrationsAreCalls'
  BY <1>0, <1>2, Zenon
     DEF Started, TypeOK, RegistrationsAreCalls, HeldIsCurrent, Names, Calling, servers,
         health, watchers
<1>3. ASSUME NEW l \in Servers, Shutdown(l, default) \/ Shutdown(l, l)
      PROVE  RegistrationsAreCalls'
  BY <1>0, <1>3
     DEF Shutdown, EnterGracefulShutdown, Tell, TypeOK, RegistrationsAreCalls, HeldIsCurrent,
         Names, Calling, servers, health, watchers
<1>4. ASSUME NEW l \in Servers, ShutdownOfNone(l)
      PROVE  RegistrationsAreCalls'
  BY <1>0, <1>4, Zenon
     DEF ShutdownOfNone, TypeOK, RegistrationsAreCalls, HeldIsCurrent, Names, Calling, servers,
         health, watchers
<1>5. ASSUME NEW l \in Servers, ServerStops(l)
      PROVE  RegistrationsAreCalls'
  BY <1>0, <1>5, Zenon
     DEF ServerStops, TypeOK, RegistrationsAreCalls, HeldIsCurrent, Names, Calling, servers,
         health, watchers
<1>6. ASSUME NEW l \in Servers, ShutdownReturns(l)
      PROVE  RegistrationsAreCalls'
  BY <1>0, <1>6, Zenon
     DEF ShutdownReturns, TypeOK, RegistrationsAreCalls, HeldIsCurrent, Names, Calling,
         servers, health, watchers
<1>7. ASSUME NEW srv \in Probed, NEW s \in Services, NEW to \in Statuses, Set(srv, s, to)
      PROVE  RegistrationsAreCalls'
  BY <1>0, <1>7, ProbedAreServers, Zenon
     DEF Set, Tell, TypeOK, RegistrationsAreCalls, HeldIsCurrent, Names, Calling, servers,
         health, watchers
<1>8. ASSUME NEW w \in Watchers, NEW srv \in Probed, NEW s \in Services, Watch(w, <<srv, s>>)
      PROVE  RegistrationsAreCalls'
  <2>1. <<srv, s>> \in Names /\ wpc[w] = "idle"
    BY <1>8, ProbedAreServers, Zenon DEF Watch, Names
  <2>2. /\ wpc' = [wpc EXCEPT ![w] = "waiting"]
        /\ target' = [target EXCEPT ![w] = <<srv, s>>]
        /\ watching' = [watching EXCEPT ![<<srv, s>>] = @ \cup {w}]
    BY <1>8, Zenon DEF Watch
  <2> SUFFICES ASSUME NEW n \in Names
               PROVE  watching'[n] = {v \in Watchers : Calling(v)' /\ target'[v] = n}
    BY Zenon DEF RegistrationsAreCalls
  <2>3. watching[n] = {v \in Watchers : Calling(v) /\ target[v] = n}
    BY <1>0, Zenon DEF RegistrationsAreCalls
  <2>4. \A v \in Watchers : v # w => Calling(v)' = Calling(v) /\ target'[v] = target[v]
    BY <1>0, <2>2, Zenon DEF TypeOK, Calling
  <2>5. Calling(w)' /\ target'[w] = <<srv, s>> /\ ~Calling(w)
    BY <1>0, <2>1, <2>2, Zenon DEF TypeOK, Calling
  <2>6. watching'[n] = IF n = <<srv, s>> THEN watching[n] \cup {w} ELSE watching[n]
    BY <1>0, <2>1, <2>2, Zenon DEF TypeOK
  <2> QED
    BY <2>3, <2>4, <2>5, <2>6, Zenon
<1>9. ASSUME NEW w \in Watchers, Wake(w)
      PROVE  RegistrationsAreCalls'
  BY <1>0, <1>9
     DEF Wake, TypeOK, RegistrationsAreCalls, HeldIsCurrent, Names, Calling, servers, health,
         watchers
<1>10. ASSUME NEW w \in Watchers, Written(w)
      PROVE  RegistrationsAreCalls'
  BY <1>0, <1>10, Zenon
     DEF Written, TypeOK, RegistrationsAreCalls, HeldIsCurrent, Names, Calling, servers,
         health, watchers
<1>11. ASSUME NEW w \in Watchers, Leave(w)
      PROVE  RegistrationsAreCalls'
  BY <1>0, <1>11
     DEF Leave, TypeOK, RegistrationsAreCalls, HeldIsCurrent, Names, Calling, servers, health,
         watchers
<1>12. CASE UNCHANGED vars
  BY <1>0, <1>12, Zenon
     DEF TypeOK, RegistrationsAreCalls, HeldIsCurrent, Names, Calling, vars, servers, health,
         watchers
<1> QED
  BY <1>1, <1>2, <1>3, <1>4, <1>5, <1>6, <1>7, <1>8, <1>9, <1>10, <1>11, <1>12, Zenon DEF Next

(* A live call is told of every change. *)
LEMMA HeldStep == IInv /\ [Next]_vars => HeldIsCurrent'
<1> SUFFICES ASSUME IInv, [Next]_vars PROVE HeldIsCurrent'
  BY Zenon
<1>0. TypeOK /\ RegistrationsAreCalls /\ HeldIsCurrent /\ OnlyCreated
  BY Zenon DEF IInv
<1>1. ASSUME NEW l \in Servers, \E raises \in BOOLEAN : Startup(l, raises)
      PROVE  HeldIsCurrent'
  BY <1>0, <1>1
     DEF Startup, CreateGrpcServer, TypeOK, RegistrationsAreCalls, HeldIsCurrent, OnlyCreated,
         Names, Calling, servers, health, watchers
<1>2. ASSUME NEW l \in Servers, Started(l)
      PROVE  HeldIsCurrent'
  BY <1>0, <1>2, Zenon
     DEF Started, TypeOK, RegistrationsAreCalls, HeldIsCurrent, OnlyCreated, Names, Calling,
         servers, health, watchers
<1>3. ASSUME NEW l \in Servers, Shutdown(l, default) \/ Shutdown(l, l)
      PROVE  HeldIsCurrent'
  <2>1. PICK srv \in Servers : Shutdown(l, srv)
    BY <1>3, Zenon DEF Shutdown
  <2>2. CASE UNCHANGED <<status, held, changed>>
    BY <1>0, <2>1, <2>2, Zenon DEF Shutdown, EnterGracefulShutdown, HeldIsCurrent, Calling
  <2>3. ASSUME NEW ns \in SUBSET Names, Tell(ns, "NOT_SERVING")
        PROVE  HeldIsCurrent'
    BY <1>0, <2>1, <2>3, TellHeld, Zenon DEF Shutdown, Statuses
  <2> QED
    BY <2>1, <2>2, <2>3, ShutdownTells, Zenon DEF Shutdown
<1>4. ASSUME NEW l \in Servers, ShutdownOfNone(l)
      PROVE  HeldIsCurrent'
  BY <1>0, <1>4, Zenon
     DEF ShutdownOfNone, TypeOK, RegistrationsAreCalls, HeldIsCurrent, OnlyCreated, Names,
         Calling, servers, health, watchers
<1>5. ASSUME NEW l \in Servers, ServerStops(l)
      PROVE  HeldIsCurrent'
  BY <1>0, <1>5, Zenon
     DEF ServerStops, TypeOK, RegistrationsAreCalls, HeldIsCurrent, OnlyCreated, Names,
         Calling, servers, health, watchers
<1>6. ASSUME NEW l \in Servers, ShutdownReturns(l)
      PROVE  HeldIsCurrent'
  BY <1>0, <1>6, Zenon
     DEF ShutdownReturns, TypeOK, RegistrationsAreCalls, HeldIsCurrent, OnlyCreated, Names,
         Calling, servers, health, watchers
<1>7. ASSUME NEW srv \in Probed, NEW s \in Services, NEW to \in Statuses, Set(srv, s, to)
      PROVE  HeldIsCurrent'
  <2>1. CASE UNCHANGED <<status, held, changed>>
    BY <1>0, <1>7, <2>1, Zenon DEF Set, servers, HeldIsCurrent, Calling
  <2>2. CASE Tell({<<srv, s>>}, to)
    <3>1. {<<srv, s>>} \in SUBSET Names
      BY ProbedAreServers DEF Names
    <3> QED
      BY <1>0, <1>7, <2>2, <3>1, TellHeld, Zenon DEF Set, servers, Statuses
  <2> QED
    BY <1>7, <2>1, <2>2, Zenon DEF Set
<1>8. ASSUME NEW w \in Watchers, NEW srv \in Probed, NEW s \in Services, Watch(w, <<srv, s>>)
      PROVE  HeldIsCurrent'
  BY <1>0, <1>8, ProbedAreServers, Zenon
     DEF Watch, TypeOK, RegistrationsAreCalls, HeldIsCurrent, OnlyCreated, Names, Calling,
         servers, health, watchers
<1>9. ASSUME NEW w \in Watchers, Wake(w)
      PROVE  HeldIsCurrent'
  BY <1>0, <1>9, ZenonT(40)
     DEF Wake, TypeOK, RegistrationsAreCalls, HeldIsCurrent, OnlyCreated, Names, Calling,
         servers, health, watchers
<1>10. ASSUME NEW w \in Watchers, Written(w)
      PROVE  HeldIsCurrent'
  BY <1>0, <1>10, Zenon
     DEF Written, TypeOK, RegistrationsAreCalls, HeldIsCurrent, OnlyCreated, Names, Calling,
         servers, health, watchers
<1>11. ASSUME NEW w \in Watchers, Leave(w)
      PROVE  HeldIsCurrent'
  BY <1>0, <1>11, Zenon
     DEF Leave, TypeOK, RegistrationsAreCalls, HeldIsCurrent, OnlyCreated, Names, Calling,
         servers, health, watchers
<1>12. CASE UNCHANGED vars
  BY <1>0, <1>12, Zenon
     DEF TypeOK, RegistrationsAreCalls, HeldIsCurrent, OnlyCreated, Names, Calling, vars,
         servers, health, watchers
<1> QED
  BY <1>1, <1>2, <1>3, <1>4, <1>5, <1>6, <1>7, <1>8, <1>9, <1>10, <1>11, <1>12, Zenon DEF Next

(* A change during a write sets the event again. *)
LEMMA ClearedStep == IInv /\ [Next]_vars => ClearedIsSeen'
<1> SUFFICES ASSUME IInv, [Next]_vars PROVE ClearedIsSeen'
  BY Zenon
<1>0. TypeOK /\ RegistrationsAreCalls /\ ClearedIsSeen
  BY Zenon DEF IInv
<1>1. ASSUME NEW l \in Servers, \E raises \in BOOLEAN : Startup(l, raises)
      PROVE  ClearedIsSeen'
  BY <1>0, <1>1, Zenon
     DEF Startup, CreateGrpcServer, TypeOK, RegistrationsAreCalls, ClearedIsSeen, Names,
         Calling, servers, health, watchers
<1>2. ASSUME NEW l \in Servers, Started(l)
      PROVE  ClearedIsSeen'
  BY <1>0, <1>2, Zenon
     DEF Started, TypeOK, RegistrationsAreCalls, ClearedIsSeen, Names, Calling, servers,
         health, watchers
<1>3. ASSUME NEW l \in Servers, Shutdown(l, default) \/ Shutdown(l, l)
      PROVE  ClearedIsSeen'
  <2>1. PICK srv \in Servers : Shutdown(l, srv)
    BY <1>3, Zenon DEF Shutdown
  <2>2. CASE UNCHANGED <<status, held, changed>>
    BY <1>0, <2>1, <2>2, Zenon DEF Shutdown, EnterGracefulShutdown, ClearedIsSeen
  <2>3. ASSUME NEW ns \in SUBSET Names, Tell(ns, "NOT_SERVING")
        PROVE  ClearedIsSeen'
    BY <1>0, <2>1, <2>3, TellCleared, Zenon DEF Shutdown, Statuses
  <2> QED
    BY <2>1, <2>2, <2>3, ShutdownTells, Zenon DEF Shutdown
<1>4. ASSUME NEW l \in Servers, ShutdownOfNone(l)
      PROVE  ClearedIsSeen'
  BY <1>0, <1>4, Zenon
     DEF ShutdownOfNone, TypeOK, RegistrationsAreCalls, ClearedIsSeen, Names, Calling, servers,
         health, watchers
<1>5. ASSUME NEW l \in Servers, ServerStops(l)
      PROVE  ClearedIsSeen'
  BY <1>0, <1>5, Zenon
     DEF ServerStops, TypeOK, RegistrationsAreCalls, ClearedIsSeen, Names, Calling, servers,
         health, watchers
<1>6. ASSUME NEW l \in Servers, ShutdownReturns(l)
      PROVE  ClearedIsSeen'
  BY <1>0, <1>6, Zenon
     DEF ShutdownReturns, TypeOK, RegistrationsAreCalls, ClearedIsSeen, Names, Calling,
         servers, health, watchers
<1>7. ASSUME NEW srv \in Probed, NEW s \in Services, NEW to \in Statuses, Set(srv, s, to)
      PROVE  ClearedIsSeen'
  <2>1. CASE UNCHANGED <<status, held, changed>>
    BY <1>0, <1>7, <2>1, Zenon DEF Set, servers, ClearedIsSeen
  <2>2. CASE Tell({<<srv, s>>}, to)
    <3>1. {<<srv, s>>} \in SUBSET Names
      BY ProbedAreServers DEF Names
    <3> QED
      BY <1>0, <1>7, <2>2, <3>1, TellCleared, Zenon DEF Set, servers, Statuses
  <2> QED
    BY <1>7, <2>1, <2>2, Zenon DEF Set
<1>8. ASSUME NEW w \in Watchers, NEW srv \in Probed, NEW s \in Services, Watch(w, <<srv, s>>)
      PROVE  ClearedIsSeen'
  BY <1>0, <1>8, ProbedAreServers, Zenon
     DEF Watch, TypeOK, RegistrationsAreCalls, ClearedIsSeen, Names, Calling, servers, health,
         watchers
<1>9. ASSUME NEW w \in Watchers, Wake(w)
      PROVE  ClearedIsSeen'
  BY <1>0, <1>9
     DEF Wake, TypeOK, RegistrationsAreCalls, ClearedIsSeen, Names, Calling, servers, health,
         watchers
<1>10. ASSUME NEW w \in Watchers, Written(w)
      PROVE  ClearedIsSeen'
  BY <1>0, <1>10, Zenon
     DEF Written, TypeOK, RegistrationsAreCalls, ClearedIsSeen, Names, Calling, servers,
         health, watchers
<1>11. ASSUME NEW w \in Watchers, Leave(w)
      PROVE  ClearedIsSeen'
  BY <1>0, <1>11, Zenon
     DEF Leave, TypeOK, RegistrationsAreCalls, ClearedIsSeen, Names, Calling, servers, health,
         watchers
<1>12. CASE UNCHANGED vars
  BY <1>0, <1>12, Zenon
     DEF TypeOK, RegistrationsAreCalls, ClearedIsSeen, Names, Calling, vars, servers, health,
         watchers
<1> QED
  BY <1>1, <1>2, <1>3, <1>4, <1>5, <1>6, <1>7, <1>8, <1>9, <1>10, <1>11, <1>12, Zenon DEF Next

(* No server is named before it is created. *)
LEMMA CreatedStep == IInv /\ [Next]_vars => OnlyCreated'
<1> SUFFICES ASSUME IInv, [Next]_vars PROVE OnlyCreated'
  BY Zenon
<1>0. TypeOK /\ HeldIsCurrent /\ OnlyCreated
  BY Zenon DEF IInv
<1>1. ASSUME NEW l \in Servers, \E raises \in BOOLEAN : Startup(l, raises)
      PROVE  OnlyCreated'
  BY <1>0, <1>1
     DEF Startup, CreateGrpcServer, TypeOK, HeldIsCurrent, OnlyCreated, Names, Calling,
         servers, health, watchers
<1>2. ASSUME NEW l \in Servers, Started(l)
      PROVE  OnlyCreated'
  BY <1>0, <1>2, Zenon
     DEF Started, TypeOK, HeldIsCurrent, OnlyCreated, Names, Calling, servers, health, watchers
<1>3. ASSUME NEW l \in Servers, Shutdown(l, default) \/ Shutdown(l, l)
      PROVE  OnlyCreated'
  <2>1. PICK srv \in Servers : Shutdown(l, srv) /\ startup[srv] # "idle"
    BY <1>0, <1>3, NoServerIsNone, Zenon DEF Shutdown, OnlyCreated
  <2>2. /\ UNCHANGED <<default, startup, wpc, target>>
        /\ \A x \in Servers \ {srv} : life'[x] = life[x]
    BY <1>0, <2>1, Zenon DEF Shutdown, TypeOK
  <2>3. \A x \in Servers \ {srv} : final'[x] = final[x]
    BY <1>0, <2>1, Zenon DEF Shutdown, EnterGracefulShutdown, TypeOK
  <2> QED
    BY <1>0, <2>1, <2>2, <2>3, Zenon DEF OnlyCreated, Calling
<1>4. ASSUME NEW l \in Servers, ShutdownOfNone(l)
      PROVE  OnlyCreated'
  BY <1>0, <1>4, Zenon
     DEF ShutdownOfNone, TypeOK, HeldIsCurrent, OnlyCreated, Names, Calling, servers, health,
         watchers
<1>5. ASSUME NEW l \in Servers, ServerStops(l)
      PROVE  OnlyCreated'
  BY <1>0, <1>5, Zenon
     DEF ServerStops, TypeOK, HeldIsCurrent, OnlyCreated, Names, Calling, servers, health,
         watchers
<1>6. ASSUME NEW l \in Servers, ShutdownReturns(l)
      PROVE  OnlyCreated'
  BY <1>0, <1>6, Zenon
     DEF ShutdownReturns, TypeOK, HeldIsCurrent, OnlyCreated, Names, Calling, servers, health,
         watchers
<1>7. ASSUME NEW srv \in Probed, NEW s \in Services, NEW to \in Statuses, Set(srv, s, to)
      PROVE  OnlyCreated'
  BY <1>0, <1>7, ProbedAreServers, Zenon
     DEF Set, Tell, TypeOK, HeldIsCurrent, OnlyCreated, Names, Calling, servers, health,
         watchers
<1>8. ASSUME NEW w \in Watchers, NEW srv \in Probed, NEW s \in Services, Watch(w, <<srv, s>>)
      PROVE  OnlyCreated'
  BY <1>0, <1>8, ProbedAreServers, Zenon
     DEF Watch, TypeOK, HeldIsCurrent, OnlyCreated, Names, Calling, servers, health, watchers
<1>9. ASSUME NEW w \in Watchers, Wake(w)
      PROVE  OnlyCreated'
  BY <1>0, <1>9, Zenon
     DEF Wake, TypeOK, HeldIsCurrent, OnlyCreated, Names, Calling, servers, health, watchers
<1>10. ASSUME NEW w \in Watchers, Written(w)
      PROVE  OnlyCreated'
  BY <1>0, <1>10, Zenon
     DEF Written, TypeOK, HeldIsCurrent, OnlyCreated, Names, Calling, servers, health, watchers
<1>11. ASSUME NEW w \in Watchers, Leave(w)
      PROVE  OnlyCreated'
  BY <1>0, <1>11, Zenon
     DEF Leave, TypeOK, HeldIsCurrent, OnlyCreated, Names, Calling, servers, health, watchers
<1>12. CASE UNCHANGED vars
  BY <1>0, <1>12, Zenon
     DEF TypeOK, HeldIsCurrent, OnlyCreated, Names, Calling, vars, servers, health, watchers
<1> QED
  BY <1>1, <1>2, <1>3, <1>4, <1>5, <1>6, <1>7, <1>8, <1>9, <1>10, <1>11, <1>12, Zenon DEF Next

(* The shutdown of a server begins with its health service. *)
LEMMA ShutdownStep == IInv /\ [Next]_vars => ShutdownFirst'
<1> SUFFICES ASSUME IInv, [Next]_vars PROVE ShutdownFirst'
  BY Zenon
<1>0. TypeOK /\ OnlyCreated /\ ShutdownFirst
  BY Zenon DEF IInv
<1>1. ASSUME NEW l \in Servers, \E raises \in BOOLEAN : Startup(l, raises)
      PROVE  ShutdownFirst'
  BY <1>0, <1>1
     DEF Startup, CreateGrpcServer, TypeOK, OnlyCreated, ShutdownFirst, Names, servers, health,
         watchers
<1>2. ASSUME NEW l \in Servers, Started(l)
      PROVE  ShutdownFirst'
  BY <1>0, <1>2, Zenon DEF Started, TypeOK, OnlyCreated, ShutdownFirst, Names, servers, health, watchers
<1>3. ASSUME NEW l \in Servers, Shutdown(l, default) \/ Shutdown(l, l)
      PROVE  ShutdownFirst'
  <2>1. PICK srv \in Servers : Shutdown(l, srv) /\ startup[srv] # "idle"
    BY <1>0, <1>3, NoServerIsNone, Zenon DEF Shutdown, OnlyCreated
  <2>2. /\ known' = known \ {srv}
        /\ startup' = startup
        /\ \A x \in Servers \ {srv} : life'[x] = life[x]
    BY <1>0, <2>1, Zenon DEF Shutdown, TypeOK
  <2>3. CASE srv \in known /\ ~final[srv]
    <3>1. final' = [final EXCEPT ![srv] = TRUE]
      BY <2>1, <2>3, Zenon DEF Shutdown, EnterGracefulShutdown
    <3>2. \A n \in Names : status'[n] = IF n[1] = srv /\ status[n] # Unknown THEN "NOT_SERVING" ELSE status[n]
      BY <2>1, <2>3, Zenon DEF Shutdown, EnterGracefulShutdown, Tell
    <3>3. \A n \in Names : n[1] \in Servers
      BY Zenon DEF Names
    <3> QED
      BY <1>0, <2>2, <3>1, <3>2, <3>3 DEF TypeOK, ShutdownFirst
  <2>4. CASE ~(srv \in known /\ ~final[srv])
    <3>1. final[srv] /\ UNCHANGED <<final, status>>
      BY <1>0, <2>1, <2>4, Zenon DEF Shutdown, EnterGracefulShutdown, ShutdownFirst
    <3> QED
      BY <1>0, <2>2, <3>1, Zenon DEF ShutdownFirst
  <2> QED
    BY <2>3, <2>4, Zenon
<1>4. ASSUME NEW l \in Servers, ShutdownOfNone(l)
      PROVE  ShutdownFirst'
  BY <1>0, <1>4, Zenon
     DEF ShutdownOfNone, TypeOK, OnlyCreated, ShutdownFirst, Names, servers, health, watchers
<1>5. ASSUME NEW l \in Servers, ServerStops(l)
      PROVE  ShutdownFirst'
  BY <1>0, <1>5, Zenon
     DEF ServerStops, TypeOK, OnlyCreated, ShutdownFirst, Names, servers, health, watchers
<1>6. ASSUME NEW l \in Servers, ShutdownReturns(l)
      PROVE  ShutdownFirst'
  BY <1>0, <1>6, Zenon
     DEF ShutdownReturns, TypeOK, OnlyCreated, ShutdownFirst, Names, servers, health, watchers
<1>7. ASSUME NEW srv \in Probed, NEW s \in Services, NEW to \in Statuses, Set(srv, s, to)
      PROVE  ShutdownFirst'
  BY <1>0, <1>7, ProbedAreServers
     DEF Set, Tell, TypeOK, OnlyCreated, ShutdownFirst, Names, servers, health, watchers
<1>8. ASSUME NEW w \in Watchers, NEW srv \in Probed, NEW s \in Services, Watch(w, <<srv, s>>)
      PROVE  ShutdownFirst'
  BY <1>0, <1>8, ProbedAreServers, Zenon
     DEF Watch, TypeOK, OnlyCreated, ShutdownFirst, Names, servers, health, watchers
<1>9. ASSUME NEW w \in Watchers, Wake(w)
      PROVE  ShutdownFirst'
  BY <1>0, <1>9, Zenon DEF Wake, TypeOK, OnlyCreated, ShutdownFirst, Names, servers, health, watchers
<1>10. ASSUME NEW w \in Watchers, Written(w)
      PROVE  ShutdownFirst'
  BY <1>0, <1>10, Zenon DEF Written, TypeOK, OnlyCreated, ShutdownFirst, Names, servers, health, watchers
<1>11. ASSUME NEW w \in Watchers, Leave(w)
      PROVE  ShutdownFirst'
  BY <1>0, <1>11, Zenon DEF Leave, TypeOK, OnlyCreated, ShutdownFirst, Names, servers, health, watchers
<1>12. CASE UNCHANGED vars
  BY <1>0, <1>12, Zenon DEF TypeOK, OnlyCreated, ShutdownFirst, Names, vars, servers, health, watchers
<1> QED
  BY <1>1, <1>2, <1>3, <1>4, <1>5, <1>6, <1>7, <1>8, <1>9, <1>10, <1>11, <1>12, Zenon DEF Next

(* Before any lifecycle has begun. *)
LEMMA InitIInv == Init => IInv
<1> SUFFICES ASSUME Init PROVE IInv
  BY Zenon
<1>1. TypeOK
  <2>1. changes \in 0..MaxChanges
    BY MaxChangesNat DEF Init
  <2>2. /\ life \in [Servers -> {"none", "created", "running", "stopping", "stopped"}]
        /\ default \in Servers \cup {NoServer}
        /\ known \subseteq Servers
        /\ startup \in [Servers -> {"idle", "starting", "started", "raised"}]
        /\ shutdown \in [Servers -> {"idle", "awaiting", "returned"}]
        /\ stopping \in [Servers -> Servers \cup {NoServer}]
    BY Zenon DEF Init
  <2>3. /\ status \in [Names -> Statuses \cup {Unknown}]
        /\ final \in [Servers -> BOOLEAN]
        /\ watching \in [Names -> SUBSET Watchers]
        /\ wpc \in [Watchers -> {"idle", "waiting", "writing"}]
    BY Zenon DEF Init
  <2>4. /\ target \in [Watchers -> Names \cup {NoName}]
        /\ held \in [Watchers -> Statuses \cup {Unknown}]
        /\ changed \in [Watchers -> BOOLEAN]
        /\ sent \in [Watchers -> Statuses \cup {Unknown, None}]
        /\ writing \in [Watchers -> Statuses \cup {Unknown, None}]
    BY Zenon DEF Init
  <2> QED
    BY <2>1, <2>2, <2>3, <2>4, Zenon DEF TypeOK
<1>2. RegistrationsAreCalls /\ HeldIsCurrent /\ ClearedIsSeen
  BY Zenon DEF Init, RegistrationsAreCalls, HeldIsCurrent, ClearedIsSeen, Calling
<1>3. OnlyCreated
  BY Zenon DEF Init, OnlyCreated, Calling
<1>4. ShutdownFirst
  BY Zenon DEF Init, ShutdownFirst, Names
<1> QED
  BY <1>1, <1>2, <1>3, <1>4, Zenon DEF IInv

(* The inductive invariant of the lifecycle and the health service. *)
THEOREM Invariance == Spec => []IInv
<1>1. IInv /\ [Next]_vars => IInv'
  BY TypeStep, RegistrationsStep, HeldStep, ClearedStep, CreatedStep, ShutdownStep, Zenon DEF IInv
<1> QED
  BY InitIInv, <1>1, PTL DEF Spec

(* Types, whatever the constants. *)
THEOREM TypesHold == Spec => []TypeOK
<1>1. IInv => TypeOK
  BY Zenon DEF IInv
<1> QED
  BY Invariance, <1>1, PTL

(* A sleeping Watch call has written its service's present status. *)
THEOREM NoWakeupIsMissed == Spec => []NoMissedWakeup
<1>1. IInv => NoMissedWakeup
  BY Zenon DEF IInv, HeldIsCurrent, ClearedIsSeen, NoMissedWakeup, Calling
<1> QED
  BY Invariance, <1>1, PTL

(* Leaving removes one's own registration and nothing else. *)
THEOREM RegistrationsHold == Spec => []RegistrationsAreCalls
<1>1. IInv => RegistrationsAreCalls
  BY Zenon DEF IInv
<1> QED
  BY Invariance, <1>1, PTL

(* NOT_SERVING is reported, and every watcher told, before calls are        *)
(* refused.                                                                 *)
THEOREM WatchersAreTold == Spec => []ToldBeforeRefusing
<1>1. IInv => ToldBeforeRefusing
  BY DEF IInv, TypeOK, HeldIsCurrent, ShutdownFirst, ToldBeforeRefusing, Names, Statuses
<1> QED
  BY Invariance, <1>1, PTL

-----------------------------------------------------------------------------
(* RowsAreTheSubjects for any tables, models, joins and subjects.  The     *)
(* inductive invariant is about the statement before it runs: for every    *)
(* scope it was narrowed by it still carries a condition that is at least  *)
(* as strict, and its stamp tells whether there is one.                    *)

Accounts == UNION {subject.accounts : subject \in Subjects}
Conditions == [model : Models, ids : SUBSET Accounts, kinds : SUBSET (Kinds \cup {OwnerKind})]
Axes == {"none", "owner", "tenant"}
Stamps == {"none", "operator", "denied", "subject", "unscoped"}
Scopes == Models \X Axes

TenancyTypeOK ==
    /\ registry \in [Models -> Axes]
    /\ statement \in [reads : SUBSET Models, conditions : SUBSET Conditions, stamp : Stamps,
                      scopedFor : SUBSET Scopes, by : Subjects \cup {NoSubject}]

\* A condition that lets through no more than a scope of a subject does.
Enforces(c, scope, subject) ==
    /\ c.model = scope[1] /\ c.ids \subseteq subject.accounts
    /\ scope[2] = "owner" => c.kinds \subseteq {OwnerKind}

Narrow ==
    ~statement.by.operator =>
        \A scope \in statement.scopedFor : \E c \in statement.conditions : Enforces(c, scope, statement.by)

StampTells ==
    /\ statement.stamp = "none" => statement.scopedFor = {}
    /\ statement.stamp \in {"subject", "denied"} => statement.scopedFor # {} /\ ~statement.by.operator

TenancyInv == TenancyTypeOK /\ Narrow /\ StampTells /\ RowsAreTheSubjects

(* What scoped() adds for a subject that is no operator enforces the scope *)
(* it was called for, and its stamp is that of a subject.                  *)
LEMMA NarrowedEnforces ==
    ASSUME TenancyTypeOK, NEW m \in statement.reads, NEW subject \in Subjects
    PROVE  /\ Narrowed(m, subject).conditions \subseteq Conditions
           /\ Narrowed(m, subject).stamp \in {"operator", "denied", "subject"}
           /\ Narrowed(m, subject).stamp # "operator" =>
                /\ ~subject.operator
           /\ ~subject.operator =>
                \E c \in Narrowed(m, subject).conditions : Enforces(c, <<m, registry[m]>>, subject)
<1> DEFINE kinds == IF registry[m] = "owner" THEN {OwnerKind} ELSE Kinds
<1>0. m \in Models /\ subject.operator \in BOOLEAN /\ subject.accounts \subseteq Accounts
  BY TenancyAssumption DEF TenancyTypeOK, Accounts
<1>1. CASE subject.operator
  BY <1>1, Zenon DEF Narrowed
<1>2. CASE ~subject.operator /\ subject.accounts = {}
  <2>1. Narrowed(m, subject) = [conditions |-> {NoRow(n) : n \in statement.reads}, stamp |-> "denied"]
    BY <1>2, Zenon DEF Narrowed
  <2>2. \A n \in statement.reads : NoRow(n) \in Conditions
    BY Zenon DEF NoRow, Condition, Conditions, TenancyTypeOK
  <2>3. Enforces(NoRow(m), <<m, registry[m]>>, subject)
    BY Zenon DEF NoRow, Condition, Enforces
  <2> QED
    BY <1>2, <2>1, <2>2, <2>3
<1>3. CASE ~subject.operator /\ subject.accounts # {}
  <2>1. Narrowed(m, subject) = [conditions |-> {Condition(m, subject.accounts, kinds)}, stamp |-> "subject"]
    BY <1>3, Zenon DEF Narrowed
  <2>2. Condition(m, subject.accounts, kinds) \in Conditions
    BY <1>0, Zenon DEF Condition, Conditions
  <2>3. Enforces(Condition(m, subject.accounts, kinds), <<m, registry[m]>>, subject)
    BY Zenon DEF Condition, Enforces
  <2> QED
    BY <1>3, <2>1, <2>2, <2>3
<1> QED
  BY <1>0, <1>1, <1>2, <1>3, Zenon

(* The invariant holds wherever no statement is begun and no row is shown. *)
LEMMA FreshStatement ==
    ASSUME registry' \in [Models -> Axes], statement' = NoStatement, outcome'.rows = {}
    PROVE  TenancyInv'
<1>1. TenancyTypeOK'
  BY Zenon DEF TenancyTypeOK, NoStatement, Conditions, Stamps, Scopes
<1>2. Narrow' /\ StampTells' /\ RowsAreTheSubjects'
  BY Zenon DEF Narrow, StampTells, RowsAreTheSubjects, NoStatement
<1> QED
  BY <1>1, <1>2, Zenon DEF TenancyInv

(* No order of registrations, of installing the guard and of building      *)
(* statements lets a guarded SELECT show a row that its subject does not   *)
(* own of a model it was scoped for, or a row of a registered model that   *)
(* nobody decided on.                                                      *)
THEOREM RowsAlwaysTheSubjects == TenancySpec => []RowsAreTheSubjects
<1>1. TenancyInit => TenancyInv
  BY DEF TenancyInit, TenancyInv, TenancyTypeOK, Narrow, StampTells, RowsAreTheSubjects, NoStatement, NoOutcome,
         Axes, Conditions, Stamps, Scopes
<1>2. TenancyInv /\ [TenancyNext]_tenancyVars => TenancyInv'
  <2> SUFFICES ASSUME TenancyInv, [TenancyNext]_tenancyVars PROVE TenancyInv'
    BY Zenon
  <2> USE DEF TenancyInv
  <2>1. CASE UNCHANGED tenancyVars
    BY <2>1, Zenon DEF tenancyVars, TenancyTypeOK, Narrow, StampTells, RowsAreTheSubjects
  <2>2. ASSUME NEW m \in Models, RegisterOwnerScope(m) \/ RegisterTenantScope(m) PROVE TenancyInv'
    BY <2>2, Zenon DEF RegisterOwnerScope, RegisterTenantScope, TenancyTypeOK, Narrow, StampTells, RowsAreTheSubjects, Axes
  <2>3. CASE InstallScopeGuard
    BY <2>3, Zenon DEF InstallScopeGuard, TenancyTypeOK, Narrow, StampTells, RowsAreTheSubjects
  <2>4. ASSUME NEW models \in Joins, Select(models) PROVE TenancyInv'
    <3>1. statement' = [NoStatement EXCEPT !.reads = models] /\ outcome' = NoOutcome /\ registry' = registry
      BY <2>4, Zenon DEF Select
    <3>2. TenancyTypeOK'
      BY <3>1, TenancyAssumption, Zenon DEF TenancyTypeOK, NoStatement, Conditions, Stamps, Scopes
    <3>3. Narrow' /\ StampTells' /\ RowsAreTheSubjects'
      BY <3>1, Zenon DEF Narrow, StampTells, RowsAreTheSubjects, NoStatement, NoOutcome
    <3> QED
      BY <3>2, <3>3, Zenon
  <2>5. ASSUME NEW m \in Models, NEW subject \in Subjects, Scoped(m, subject) PROVE TenancyInv'
    <3>1. CASE registry[m] = "none"
      BY <2>5, <3>1, FreshStatement, Zenon DEF Scoped, NoOutcome, TenancyTypeOK
    <3>2. CASE registry[m] # "none"
      <4> DEFINE narrowed == Narrowed(m, subject)
                 scope == <<m, registry[m]>>
      <4>1. /\ outcome' = NoOutcome /\ registry' = registry /\ m \in statement.reads
            /\ statement.scopedFor = {} \/ statement.by = subject
            /\ statement' = [statement EXCEPT !.conditions = @ \cup narrowed.conditions, !.stamp = narrowed.stamp,
                                              !.scopedFor = @ \cup {scope}, !.by = subject]
        BY <2>5, <3>2, Zenon DEF Scoped
      <4>2. /\ narrowed.conditions \subseteq Conditions
            /\ narrowed.stamp \in {"operator", "denied", "subject"}
            /\ narrowed.stamp # "operator" => ~subject.operator
            /\ ~subject.operator => \E c \in narrowed.conditions : Enforces(c, scope, subject)
        BY <4>1, NarrowedEnforces, Zenon
      <4>3. scope \in Scopes
        BY Zenon DEF Scopes, TenancyTypeOK
      <4> HIDE DEF narrowed, scope
      <4>4. /\ statement'.conditions = statement.conditions \cup narrowed.conditions
            /\ statement'.stamp = narrowed.stamp /\ statement'.by = subject
            /\ statement'.scopedFor = statement.scopedFor \cup {scope}
        BY <4>1, Zenon DEF TenancyTypeOK
      <4>5. TenancyTypeOK'
        BY <4>1, <4>2, <4>3, Zenon DEF TenancyTypeOK, Stamps
      <4>6. Narrow'
        <5> SUFFICES ASSUME ~subject.operator, NEW s \in statement.scopedFor \cup {scope}
                     PROVE  \E c \in statement.conditions \cup narrowed.conditions : Enforces(c, s, subject)
          BY <4>4, Zenon DEF Narrow
        <5>1. CASE s = scope
          BY <4>2, <5>1, Zenon
        <5>2. CASE s \in statement.scopedFor
          BY <4>1, <5>2, Zenon DEF Narrow
        <5> QED
          BY <5>1, <5>2, Zenon
      <4>7. StampTells'
        BY <4>2, <4>4, Zenon DEF StampTells
      <4>8. RowsAreTheSubjects'
        BY <4>1, Zenon DEF RowsAreTheSubjects, NoOutcome
      <4> QED
        BY <4>5, <4>6, <4>7, <4>8, Zenon
    <3> QED
      BY <3>1, <3>2, Zenon
  <2>6. ASSUME NEW reason \in Reasons, Unscoped(reason) PROVE TenancyInv'
    <3>1. CASE reason = ""
      BY <2>6, <3>1, FreshStatement, Zenon DEF Unscoped, NoOutcome, TenancyTypeOK
    <3>2. CASE reason # ""
      <4>1. outcome' = NoOutcome /\ registry' = registry /\ statement' = [statement EXCEPT !.stamp = "unscoped"]
        BY <2>6, <3>2, Zenon DEF Unscoped
      <4>2. TenancyTypeOK' /\ Narrow' /\ StampTells'
        BY <4>1, Zenon DEF TenancyTypeOK, Narrow, StampTells, Stamps
      <4>3. RowsAreTheSubjects'
        BY <4>1, Zenon DEF RowsAreTheSubjects, NoOutcome
      <4> QED
        BY <4>2, <4>3, Zenon
    <3> QED
      BY <3>1, <3>2, Zenon
  <2>7. CASE Execute
    <3>1. statement' = statement /\ registry' = registry
      BY <2>7, Zenon DEF Execute
    <3>2. TenancyTypeOK' /\ Narrow' /\ StampTells'
      BY <3>1, Zenon DEF TenancyTypeOK, Narrow, StampTells
    <3>3. RowsAreTheSubjects'
      <4> SUFFICES ASSUME outcome'.guarded, outcome'.kind \notin {"unscoped", "operator"}, NEW r \in outcome'.rows
                   PROVE  /\ r.model \in outcome'.registered => statement.scopedFor # {}
                          /\ \A scope \in statement.scopedFor :
                               scope[1] = r.model => /\ r.id \in statement.by.accounts
                                                     /\ scope[2] = "owner" => r.kind = OwnerKind
        BY <3>1, Zenon DEF RowsAreTheSubjects
      <4>1. /\ ~GuardRefuses /\ guard /\ r \in Answer
            /\ outcome'.kind = statement.stamp /\ outcome'.registered = Registered \cap statement.reads
        BY <2>7, Zenon DEF Execute
      <4>2. statement.stamp \in {"none", "subject", "denied"}
        BY <4>1, Zenon DEF TenancyTypeOK, Stamps
      <4>3. r.model \in outcome'.registered => statement.scopedFor # {}
        BY <4>1, <4>2, Zenon DEF GuardRefuses, StampTells
      <4>4. ASSUME NEW scope \in statement.scopedFor, scope[1] = r.model
            PROVE  r.id \in statement.by.accounts /\ (scope[2] = "owner" => r.kind = OwnerKind)
        <5>1. PICK c \in statement.conditions : Enforces(c, scope, statement.by)
          BY <4>2, <4>4, Zenon DEF StampTells, Narrow
        <5>2. Meets(r, statement.conditions)
          BY <4>1, Zenon DEF Answer
        <5> QED
          BY <4>4, <5>1, <5>2, Zenon DEF Enforces, Meets
      <4> QED
        BY <4>3, <4>4, Zenon
    <3> QED
      BY <3>2, <3>3, Zenon
  <2>8. CASE Done
    BY <2>8, FreshStatement, Zenon DEF Done, NoOutcome, TenancyTypeOK
  <2> QED
    BY <2>1, <2>2, <2>3, <2>4, <2>5, <2>6, <2>7, <2>8, Zenon DEF TenancyNext
<1> QED
  BY <1>1, <1>2, PTL DEF TenancySpec, TenancyInv

-----------------------------------------------------------------------------
(* PatchArrives for any fields, values and requests.  The request being    *)
(* built has a field exactly when its caller asked for a value of it.      *)

RequestIsAsked ==
    /\ request \in [PatchNames -> [has : BOOLEAN, value : Int]]
    /\ asked \in [PatchNames -> Int]
    /\ \A f \in PatchNames :
          IF asked[f] = Absent THEN request[f] = [has |-> FALSE, value |-> 0]
          ELSE asked[f] \in Nat /\ request[f] = [has |-> TRUE, value |-> asked[f]]

PatchInv ==
    /\ RequestIsAsked /\ PatchArrives
    /\ record \in [PatchNames -> Int] /\ wanted \in [PatchNames -> Int]

LEMMA Sentinels ==
  NoneValue \in Int /\ Absent \in Int /\ NoneValue \notin Nat /\ Absent \notin Nat /\ Absent # NoneValue
  BY DEF NoneValue, Absent

LEMMA PatchInitially == PatchInit => PatchInv
  BY DEF PatchInit, PatchInv, RequestIsAsked, Blank, Absent, PatchArrives

(* The helpers assign what the caller meant.                               *)
LEMMA HelpersAssignMeant ==
  ASSUME NEW fields \in SUBSET PatchNames, NEW arguments \in [fields -> Arguments], NEW noneValue \in {Absent, 0}
  PROVE  /\ OptionalFields(arguments) = Meant(arguments, Absent)
         /\ PresentFields(arguments, noneValue) = Meant(arguments, noneValue)
         /\ DOMAIN Meant(arguments, noneValue) \subseteq PatchNames
         /\ \A f \in DOMAIN Meant(arguments, noneValue) : Meant(arguments, noneValue)[f] \in Nat
<1>1. \A f \in fields : /\ arguments[f] \in PatchValues \/ arguments[f] = NoneValue \/ arguments[f] = Absent
                        /\ arguments[f] \in PatchValues => arguments[f] \in Nat
  BY PatchAssumption, Zenon DEF Arguments
<1>2. \A g \in fields : arguments[g] \notin {NoneValue, Absent} <=> arguments[g] \in PatchValues
  <2>. SUFFICES ASSUME NEW g \in fields
                PROVE  arguments[g] \notin {NoneValue, Absent} <=> arguments[g] \in PatchValues
    BY Zenon
  <2>1. CASE arguments[g] \in PatchValues
    BY <1>1, <2>1, Sentinels, Zenon
  <2>2. CASE arguments[g] \notin PatchValues
    BY <1>1, <2>2, Zenon
  <2>. QED  BY <2>1, <2>2, Zenon
<1>3. DOMAIN arguments = fields
  BY Zenon
<1>4. OptionalFields(arguments) = Meant(arguments, Absent)
  <2>1. {g \in DOMAIN arguments : arguments[g] \notin {NoneValue, Absent}}
          = {g \in DOMAIN arguments : arguments[g] \in PatchValues \/ (arguments[g] = NoneValue /\ Absent # Absent)}
    BY <1>2, <1>3, Zenon
  <2>2. \A g \in {h \in DOMAIN arguments : arguments[h] \notin {NoneValue, Absent}} :
           arguments[g] = IF arguments[g] = NoneValue THEN Absent ELSE arguments[g]
    BY Zenon
  <2>. QED  BY <2>1, <2>2, Zenon DEF OptionalFields, Meant
<1>5. PresentFields(arguments, noneValue) = Meant(arguments, noneValue)
  <2>1. \A g \in fields : arguments[g] # Absent /\ (arguments[g] = NoneValue => noneValue # Absent)
           <=> arguments[g] \in PatchValues \/ (arguments[g] = NoneValue /\ noneValue # Absent)
    BY <1>2, Sentinels, Zenon
  <2>2. {g \in DOMAIN arguments : arguments[g] # Absent /\ (arguments[g] = NoneValue => noneValue # Absent)}
          = {g \in DOMAIN arguments : arguments[g] \in PatchValues \/ (arguments[g] = NoneValue /\ noneValue # Absent)}
    BY <1>3, <2>1, Zenon
  <2>. QED  BY <2>2, Zenon DEF PresentFields, Meant
<1>6. DOMAIN Meant(arguments, noneValue) \subseteq PatchNames
  BY <1>3, Zenon DEF Meant
<1>7. ASSUME NEW f \in DOMAIN Meant(arguments, noneValue) PROVE Meant(arguments, noneValue)[f] \in Nat
  <2>1. /\ f \in fields /\ (arguments[f] \in PatchValues \/ (arguments[f] = NoneValue /\ noneValue # Absent))
        /\ Meant(arguments, noneValue)[f] = IF arguments[f] = NoneValue THEN noneValue ELSE arguments[f]
    BY <1>3, Zenon DEF Meant
  <2>. QED  BY <1>1, <1>2, <2>1
<1>. QED  BY <1>4, <1>5, <1>6, <1>7, Zenon

LEMMA AssignStep ==
  ASSUME PatchInv, NEW values, DOMAIN values \subseteq PatchNames, \A f \in DOMAIN values : values[f] \in Nat,
         Assign(values), Asks(values), UNCHANGED <<record, wanted>>
  PROVE  PatchInv'
<1>. USE DEF PatchInv, RequestIsAsked
<1>1. \A f \in PatchNames : request'[f] = IF f \in DOMAIN values THEN [has |-> TRUE, value |-> values[f]] ELSE request[f]
  BY Zenon DEF Assign
<1>2. \A f \in PatchNames : asked'[f] = IF f \in DOMAIN values THEN values[f] ELSE asked[f]
  BY Zenon DEF Asks
<1>3. request' \in [PatchNames -> [has : BOOLEAN, value : Int]] /\ asked' \in [PatchNames -> Int]
  <2>1. \A f \in PatchNames : request'[f] \in [has : BOOLEAN, value : Int] /\ asked'[f] \in Int
    <3>. SUFFICES ASSUME NEW f \in PatchNames
                  PROVE  request'[f] \in [has : BOOLEAN, value : Int] /\ asked'[f] \in Int
      BY Zenon
    <3>1. CASE f \in DOMAIN values
      <4>1. values[f] \in Int
        BY <3>1
      <4>2. request'[f] = [has |-> TRUE, value |-> values[f]] /\ asked'[f] = values[f]
        BY <1>1, <1>2, <3>1, Zenon
      <4>. QED  BY <4>1, <4>2
    <3>2. CASE f \notin DOMAIN values
      BY <1>1, <1>2, <3>2, Zenon
    <3>. QED  BY <3>1, <3>2, Zenon
  <2>2. request' = [f \in PatchNames |-> request'[f]] /\ asked' = [f \in PatchNames |-> asked'[f]]
    BY Zenon DEF Assign, Asks
  <2>. QED  BY <2>1, <2>2, Zenon
<1>4. RequestIsAsked'
  BY <1>1, <1>2, <1>3, Sentinels, Zenon
<1>. QED  BY <1>4, Zenon DEF PatchArrives

LEMMA ReceiveStep ==
  ASSUME PatchInv, Receive
  PROVE  PatchInv'
<1>. USE DEF PatchInv, RequestIsAsked
<1>1. RequestIsAsked'
  BY Sentinels DEF Receive, Blank
<1>2. \A f \in PatchNames : OptionalValue(f) \in Int
  <2>1. \A f \in PatchNames : request[f].value \in Int
    BY Zenon
  <2>. QED  BY <2>1, Sentinels, Zenon DEF OptionalValue
<1>3. record' \in [PatchNames -> Int] /\ wanted' \in [PatchNames -> Int]
  BY <1>2, Zenon DEF Receive
<1>4. PatchArrives'
  <2>. SUFFICES ASSUME NEW f \in PatchNames, f \in WithPresence \/ wanted'[f] # 0
                PROVE  record'[f] = wanted'[f]
    BY Zenon DEF PatchArrives
  <2>1. CASE asked[f] = Absent
    BY <2>1 DEF Receive, OptionalValue, FieldIsPresent, PatchArrives
  <2>2. CASE asked[f] # Absent
    <3>1. request[f].has = TRUE /\ request[f].value = asked[f] /\ asked[f] \in Nat
      BY <2>2
    <3>2. wanted'[f] = asked[f]
      BY <2>2, Zenon DEF Receive
    <3>3. OptionalValue(f) = asked[f]
      BY <3>1, <3>2, Zenon DEF OptionalValue, FieldIsPresent
    <3>. QED  BY <3>1, <3>2, <3>3, Sentinels, Zenon DEF Receive
  <2>. QED  BY <2>1, <2>2, Zenon
<1>. QED  BY <1>1, <1>3, <1>4, Zenon

(* calls.py: whatever helpers a request is put together with, the record   *)
(* holds what was last asked for; a plain scalar asked to become its       *)
(* default is the only exception.                                          *)
THEOREM PatchesAlwaysArrive == PatchSpec => []PatchArrives
<1>1. PatchInv /\ [PatchNext]_patchVars => PatchInv'
  <2>. SUFFICES ASSUME PatchInv, [PatchNext]_patchVars PROVE PatchInv'
    BY Zenon
  <2>1. CASE UNCHANGED patchVars
    BY <2>1, Zenon DEF patchVars, PatchInv, RequestIsAsked, PatchArrives
  <2>2. CASE ApplyOptional
    <3>1. PICK fields \in SUBSET PatchNames : \E arguments \in [fields -> Arguments] :
             /\ Assign(OptionalFields(arguments)) /\ Asks(Meant(arguments, Absent))
             /\ UNCHANGED <<record, wanted, patches>>
      BY <2>2, Zenon DEF ApplyOptional
    <3>. QED  BY <3>1, HelpersAssignMeant, AssignStep, Zenon
  <2>3. CASE ApplyPresent
    <3>1. PICK fields \in SUBSET PatchNames, noneValue \in {Absent, 0} : \E arguments \in [fields -> Arguments] :
             /\ Assign(PresentFields(arguments, noneValue)) /\ Asks(Meant(arguments, noneValue))
             /\ UNCHANGED <<record, wanted, patches>>
      BY <2>3, Zenon DEF ApplyPresent
    <3>. QED  BY <3>1, HelpersAssignMeant, AssignStep, Zenon
  <2>. QED  BY <2>1, <2>2, <2>3, ReceiveStep, Zenon DEF PatchNext
<1>2. PatchInv => PatchArrives
  BY Zenon DEF PatchInv
<1>. QED  BY <1>1, <1>2, PatchInitially, PTL DEF PatchSpec

-----------------------------------------------------------------------------
(* ServedOnlyIfAdmitted, ContextOfTheCall and OutcomeIsTold for any number *)
(* of calls, pool threads, methods and gates.  CallOk is what the record   *)
(* of a call says at each of its stages; PoolInv is about the threads:     *)
(* one that runs no call has no caller left in it, and one that does runs  *)
(* one call, whose caller it has.                                          *)

Tokens == {o.token : o \in OwnMetadata} \cup ChannelTokens
Auths == {Nobody, "basic", "user", "bot", "expired"}
Behalves == {f.behalf : f \in Forwarded} \cup {Nobody}
CallerNames == {Nobody} \cup UNION {DOMAIN g.secrets : g \in Gates}
Codes == {"OK", "UNKNOWN", "CANCELLED", "NOT_FOUND", "INVALID_ARGUMENT", "UNAUTHENTICATED",
          "PERMISSION_DENIED", "ALREADY_EXISTS", "RESOURCE_EXHAUSTED", "UNIMPLEMENTED",
          "UNAVAILABLE", "DEADLINE_EXCEEDED", "INTERNAL", "FAILED_PRECONDITION"}
ErrorNames == {e.class : e \in Failures} \cup {Nobody, "CancelledError"}
OutcomeRecords == [failure : ErrorNames \cup {"AbortError", "TypeError"}, code : Codes \cup {Nobody}]

CallMetadata == [token : Tokens, auth : Auths, behalf : Behalves]
Contexts == [caller : CallerNames, payload : Auths, behalf : Behalves]
AskingCalls == [pc : {"asking"}, m : Methods, md : CallMetadata]
LiveCalls == [pc : {"queued", "verifying", "serving"}, m : Methods, md : CallMetadata,
              caller : CallerNames, context : Contexts, before : CallerNames,
              thread : PoolThreads \cup {Nobody}]
EndedCalls == [pc : {"ended"}, unary : {m.unary : m \in Methods}, error : ErrorNames, status : Codes,
               counted : Codes \cup {Nobody}, observed : Codes \cup {Nobody},
               raises : {Nobody, "ResourceNotFoundError", "AuthRequiredError", "AuthPermissionDeniedError",
                         "ServiceUnavailable", "InvalidInputError"}]

Admits(m, token) ==
    IF Listed(m)
    THEN /\ \E a \in gate.rules[m.name] : gate.secrets[a] = token
         /\ \A a \in DOMAIN gate.secrets : gate.secrets[a] = token => a \in gate.rules[m.name]
    ELSE \/ m.system \/ m.exempt \/ token = "platform"
         \/ gate.alternate /\ token = "host"
         \/ ~gate.token /\ ~gate.required
CallerOf(m, token) == IF Listed(m) THEN Resolve(token) ELSE Nobody

OwnContext(r) ==
    /\ r.context.caller = r.caller
    /\ r.context.payload # Nobody => r.context.payload = r.md.auth /\ r.md.auth \in {"user", "bot"}
    /\ r.context.behalf # Nobody => r.context.payload = "bot" /\ r.context.behalf = r.md.behalf
LiveOk(r) ==
    /\ r \in LiveCalls /\ Admits(r.m, r.md.token) /\ r.caller = CallerOf(r.m, r.md.token)
    /\ r.pc = "queued" => r.context = Own /\ r.thread = Nobody
    /\ r.pc = "verifying" => /\ r.context = [Own EXCEPT !.caller = r.caller] /\ r.thread = Nobody
                             /\ r.md.auth \notin {Nobody, "basic"}
    /\ r.pc = "serving" => IF r.thread = Nobody THEN OwnContext(r)
                           ELSE r.thread \in PoolThreads /\ r.before = Nobody
EndedOk(r) ==
    /\ r \in EndedCalls /\ CodesAgree(r)
    /\ r.error \in CallersFault => r.status \notin UpstreamFailureCodes \cup {"OK"}
    /\ r.error = "Overloaded" => r.raises = "ServiceUnavailable"
CallOk(r) ==
    \/ r = NoRpc
    \/ r \in AskingCalls /\ ~Listed(r.m) /\ gate.alternate
    \/ LiveOk(r)
    \/ EndedOk(r)

OnThread(c, t) == rpcs[c].pc = "serving" /\ rpcs[c].thread = t
PoolInv ==
    /\ \A t \in PoolThreads : ~busy[t] => contexts[t] = Own
    /\ \A c \in Rpcs, t \in PoolThreads : OnThread(c, t) =>
          busy[t] /\ contexts[t] = [Own EXCEPT !.caller = rpcs[c].caller]
    /\ \A c, d \in Rpcs, t \in PoolThreads : OnThread(c, t) /\ OnThread(d, t) => c = d
GateInv ==
    /\ server # "up" => \A c \in Rpcs : rpcs[c] = NoRpc
    /\ server = "up" => (gate.required => gate.token) /\ CallerCredentials
RpcInv ==
    /\ gate \in Gates
    /\ rpcs \in [Rpcs -> {NoRpc} \cup AskingCalls \cup LiveCalls \cup EndedCalls]
    /\ contexts \in [PoolThreads -> Contexts] /\ busy \in [PoolThreads -> BOOLEAN]
    /\ \A c \in Rpcs : CallOk(rpcs[c])
    /\ GateInv /\ PoolInv

LEMMA OwnIsContext == Own \in Contexts /\ Nobody \in CallerNames
<1>1. Nobody \in CallerNames /\ Nobody \in Auths /\ Nobody \in Behalves
  BY Zenon DEF CallerNames, Auths, Behalves
<1>. QED  BY <1>1, Zenon DEF Own, Contexts

LEMMA ContextFields ==
  \A caller \in CallerNames, payload \in Auths, behalf \in Behalves :
     [caller |-> caller, payload |-> payload, behalf |-> behalf] \in Contexts
  BY Zenon DEF Contexts

LEMMA NobodyIsNoThread == Nobody \notin PoolThreads
  BY RequestsAssumption, Zenon

LEMMA RpcInitially == RpcInit => RpcInv
<1>. SUFFICES ASSUME RpcInit PROVE RpcInv
  BY Zenon
<1>2. \A c \in Rpcs : rpcs[c] = NoRpc /\ rpcs[c].pc = "idle"
  BY Zenon DEF RpcInit, NoRpc
<1>3. PoolInv
  BY <1>2, Zenon DEF RpcInit, PoolInv, OnThread
<1>4. GateInv
  BY <1>2, Zenon DEF RpcInit, GateInv
<1>. QED  BY <1>2, <1>3, <1>4, OwnIsContext, Zenon DEF RpcInit, RpcInv, CallOk

(* The records of the stages do not overlap.                               *)
LEMMA Stages ==
  /\ NoRpc.pc = "idle"
  /\ \A r \in AskingCalls : r.pc = "asking"
  /\ \A r \in LiveCalls : r.pc \in {"queued", "verifying", "serving"}
  /\ \A r \in EndedCalls : r.pc = "ended"
  BY Zenon DEF NoRpc, AskingCalls, LiveCalls, EndedCalls

LEMMA LiveFields ==
  /\ \A r \in LiveCalls, p \in {"queued", "verifying", "serving"} :
        LET q == [r EXCEPT !.pc = p]
        IN /\ q \in LiveCalls /\ q.pc = p /\ q.m = r.m /\ q.md = r.md /\ q.caller = r.caller
           /\ q.context = r.context /\ q.before = r.before /\ q.thread = r.thread
  /\ \A r \in LiveCalls, o \in Contexts :
        LET q == [r EXCEPT !.context = o]
        IN /\ q \in LiveCalls /\ q.pc = r.pc /\ q.m = r.m /\ q.md = r.md /\ q.caller = r.caller
           /\ q.context = o /\ q.before = r.before /\ q.thread = r.thread
  BY Zenon DEF LiveCalls

LEMMA StageOf ==
  ASSUME RpcInv, NEW c \in Rpcs
  PROVE  /\ CallOk(rpcs[c])
         /\ rpcs[c].pc = "asking" => rpcs[c] \in AskingCalls /\ ~Listed(rpcs[c].m) /\ gate.alternate
         /\ rpcs[c].pc \in {"queued", "verifying", "serving"} => LiveOk(rpcs[c])
         /\ rpcs[c].pc = "ended" => EndedOk(rpcs[c])
         /\ rpcs[c].pc # "idle" => server = "up"
<1>1. CallOk(rpcs[c])
  BY Zenon DEF RpcInv
<1>2. rpcs[c].pc # "idle" => server = "up"
  BY Stages, Zenon DEF RpcInv, GateInv
<1>. QED  BY <1>1, <1>2, Stages, Zenon DEF CallOk, LiveOk, EndedOk

(* CallOk is about the record and the gate, which does not change.         *)
LEMMA CallStaysOk ==
  ASSUME NEW d, NEW r, CallOk(r), r = rpcs'[d], UNCHANGED gate
  PROVE  CallOk(rpcs[d])'
  BY ZenonT(40) DEF CallOk, LiveOk, EndedOk, Listed, Admits, CallerOf, Resolve, OwnContext, CodesAgree

(* A call that is not on a thread goes on, and stays off the threads.      *)
LEMMA CallMoves ==
  ASSUME RpcInv, server = "up", NEW c \in Rpcs, NEW r, rpcs' = [rpcs EXCEPT ![c] = r], CallOk(r),
         rpcs[c].pc # "serving", r.pc = "serving" => r.thread = Nobody,
         UNCHANGED <<gate, server, contexts, busy>>
  PROVE  RpcInv'
<1>. USE DEF RpcInv
<1>1. r \in {NoRpc} \cup AskingCalls \cup LiveCalls \cup EndedCalls
  BY Zenon DEF CallOk, LiveOk, EndedOk
<1>2. /\ rpcs' \in [Rpcs -> {NoRpc} \cup AskingCalls \cup LiveCalls \cup EndedCalls]
      /\ rpcs'[c] = r /\ \A d \in Rpcs \ {c} : rpcs'[d] = rpcs[d]
  BY <1>1, Zenon
<1>4. ASSUME NEW d \in Rpcs PROVE CallOk(rpcs[d])'
  <2>1. PICK q : q = rpcs'[d] /\ CallOk(q)
    BY <1>2, Zenon
  <2>. QED  BY <2>1, CallStaysOk, Zenon
<1>5. \A d \in Rpcs, t \in PoolThreads : OnThread(d, t)' => OnThread(d, t) /\ rpcs'[d] = rpcs[d]
  BY <1>2, NobodyIsNoThread, Zenon DEF OnThread
<1>6. PoolInv'
  BY <1>5 DEF PoolInv
<1>7. GateInv'
  BY Zenon DEF GateInv, CallerCredentials
<1>. QED  BY <1>2, <1>4, <1>6, <1>7, Zenon

(* Every end of a call is told alike.                                      *)
LEMMA EndIsTold ==
  ASSUME NEW m \in Methods, NEW error \in ErrorNames, NEW end \in OutcomeRecords,
         end.failure \in {"CancelledError", "AioRpcError"} => error = end.failure,
         error \in CallersFault => end.code \notin UpstreamFailureCodes \cup {"OK", Nobody},
         error = "Overloaded" => end.code = "UNAVAILABLE" /\ end.failure # "CancelledError"
  PROVE  EndedOk(RpcEnded(m, error, end))
<1>. DEFINE r == RpcEnded(m, error, end)
<1>1. /\ r.pc = "ended" /\ r.unary = m.unary /\ r.error = error /\ r.status = Delivered(end)
      /\ r.counted = IF m.system THEN Nobody ELSE Recorded(end)
      /\ r.raises = Translate(Delivered(end)) /\ r.observed = Nobody
  BY Zenon DEF RpcEnded
<1>2. Delivered(end) \in Codes /\ Recorded(end) \in Codes
  BY Zenon DEF Delivered, Recorded, Or, OutcomeRecords, Codes
<1>3. Translate(Delivered(end)) \in {Nobody, "ResourceNotFoundError", "AuthRequiredError",
                      "AuthPermissionDeniedError", "ServiceUnavailable", "InvalidInputError"}
  BY Zenon DEF Translate
<1>4. r \in EndedCalls
  BY <1>2, <1>3, Zenon DEF RpcEnded, EndedCalls
<1>. HIDE DEF r
<1>5. CodesAgree(r)
  BY <1>1, Zenon DEF CodesAgree, Delivered, Recorded, Nobody
<1>6. error \in CallersFault => r.status \notin UpstreamFailureCodes \cup {"OK"}
  <2>. SUFFICES ASSUME error \in CallersFault PROVE Delivered(end) \notin UpstreamFailureCodes \cup {"OK"}
    BY <1>1, Zenon
  <2>1. end.failure # "CancelledError"
    BY Zenon DEF CallersFault
  <2>. QED  BY <2>1, Zenon DEF Delivered, Or
<1>7. error = "Overloaded" => r.raises = "ServiceUnavailable"
  BY <1>1, Zenon DEF Delivered, Or, Translate, UpstreamFailureCodes, Nobody
<1>. QED  BY <1>1, <1>4, <1>5, <1>6, <1>7, Zenon DEF EndedOk, r

(* A call that a layer refuses.                                            *)
LEMMA RefusedIsTold ==
  ASSUME NEW m \in Methods, NEW code \in Codes
  PROVE  EndedOk(Refused(m, code)) /\ Refused(m, code).pc = "ended"
<1>1. [failure |-> "AbortError", code |-> code] \in OutcomeRecords /\ Nobody \in ErrorNames
  BY Zenon DEF OutcomeRecords, ErrorNames
<1>2. Nobody \notin CallersFault /\ Nobody # "Overloaded"
  BY Zenon DEF Nobody, CallersFault
<1>3. EndedOk(Refused(m, code))
  BY <1>1, <1>2, EndIsTold, Zenon DEF Refused
<1>. QED  BY <1>3, Stages, Zenon DEF EndedOk

(* What the client's interceptors put on a call.                           *)
LEMMA OutboundType ==
  ASSUME NEW m \in Methods, NEW own \in OwnMetadata, NEW fwd \in Forwarded, NEW token \in ChannelTokens
  PROVE  Outbound(m, own, fwd, token) \in CallMetadata
<1>1. own.token \in Tokens /\ token \in Tokens /\ own.auth \in Auths /\ ForwardedJwt(fwd) \in Auths
  <2>1. own.token \in Tokens /\ token \in Tokens
    BY Zenon DEF Tokens
  <2>2. own.auth \in Auths /\ fwd.jwt \in Auths \cup {""}
    BY MetadataAssumption, Zenon DEF Auths
  <2>3. ForwardedJwt(fwd) \in Auths
    BY <2>2, Zenon DEF ForwardedJwt, Auths
  <2>. QED  BY <2>1, <2>2, <2>3, Zenon
<1>2. fwd.behalf \in Behalves /\ Nobody \in Behalves
  BY Zenon DEF Behalves
<1>3. WithForwardedJwt(own, fwd) \in CallMetadata
  BY <1>1, <1>2, Zenon DEF WithForwardedJwt, CallMetadata
<1>4. \A md \in CallMetadata : WithToken(md, token) \in CallMetadata
  BY <1>1, Zenon DEF WithToken, CallMetadata
<1>5. [token |-> own.token, auth |-> own.auth, behalf |-> Nobody] \in CallMetadata
  BY <1>1, <1>2, Zenon DEF CallMetadata
<1>. QED  BY <1>3, <1>4, <1>5, Zenon DEF Outbound

LEMMA CallerOfType ==
  ASSUME RpcInv, NEW m, NEW token
  PROVE  CallerOf(m, token) \in CallerNames
<1>1. DOMAIN gate.secrets \subseteq CallerNames /\ Nobody \in CallerNames
  BY Zenon DEF RpcInv, CallerNames
<1>. QED  BY <1>1, Zenon DEF CallerOf, Resolve

(* What the gate lets through is what it should.                           *)
LEMMA AdmittedIsAdmitted ==
  ASSUME RpcInv, server = "up", NEW m \in Methods, NEW token
  PROVE  /\ Intercept(m, token) = "ADMIT" => Admits(m, token)
         /\ Intercept(m, token) = "ASK" => ~Listed(m) /\ gate.alternate
         /\ Intercept(m, token) \in {"ADMIT", "ASK"} \cup Codes
<1>1. CallerCredentials /\ (gate.required => gate.token)
  BY Zenon DEF RpcInv, GateInv
<1>2. CASE Listed(m)
  <2>1. Intercept(m, token) = Decide(m, token)
    BY <1>2, Zenon DEF Intercept
  <2>2. Decide(m, token) \in {"ADMIT", "UNAUTHENTICATED", "PERMISSION_DENIED"}
    BY Zenon DEF Decide
  <2>3. ASSUME Decide(m, token) = "ADMIT" PROVE Admits(m, token)
    <3>1. Resolve(token) # Nobody /\ Resolve(token) \in gate.rules[m.name]
      BY <2>3, Zenon DEF Decide
    <3>2. Resolve(token) \in DOMAIN gate.secrets /\ gate.secrets[Resolve(token)] = token
      BY <3>1, Zenon DEF Resolve
    <3>3. \A a \in DOMAIN gate.secrets : gate.secrets[a] = token => a = Resolve(token)
      BY <1>1, <3>2, Zenon DEF CallerCredentials
    <3>. QED  BY <1>2, <3>1, <3>2, <3>3, Zenon DEF Admits
  <2>. QED  BY <2>1, <2>2, <2>3, Zenon DEF Codes
<1>3. CASE ~Listed(m)
  BY <1>1, <1>3, Zenon DEF Intercept, PlatformRule, Admits, Codes
<1>. QED  BY <1>2, <1>3, Zenon

LEMMA AdmittedIsLive ==
  ASSUME RpcInv, NEW m \in Methods, NEW md \in CallMetadata, Admits(m, md.token)
  PROVE  LiveOk(Admitted(m, md)) /\ Admitted(m, md).pc = "queued"
<1>1. PICK caller \in CallerNames : caller = CallerOf(m, md.token)
  BY CallerOfType, Zenon
<1>2. Admitted(m, md) = [pc |-> "queued", m |-> m, md |-> md, caller |-> caller,
                         context |-> Own, before |-> Nobody, thread |-> Nobody]
  BY <1>1, Zenon DEF Admitted, CallerOf
<1>3. Admitted(m, md) \in LiveCalls
  BY <1>2, OwnIsContext DEF LiveCalls
<1>. QED  BY <1>1, <1>2, <1>3 DEF LiveOk

(* Making a call, and the alternate verifier's answer.                     *)
LEMMA SendStep ==
  ASSUME RpcInv, NEW c \in Rpcs, Send(c)
  PROVE  RpcInv'
<1>1. PICK m \in Methods, own \in OwnMetadata, fwd \in Forwarded, token \in ChannelTokens :
        LET md == Outbound(m, own, fwd, token)
            verdict == Intercept(m, md.token)
        IN RpcBecomes(c, IF verdict = "ASK" THEN [pc |-> "asking", m |-> m, md |-> md]
                          ELSE IF ~m.served
                          THEN [RpcEnded(m, Nobody, [failure |-> "AbortError", code |-> "UNIMPLEMENTED"])
                                  EXCEPT !.counted = Nobody]
                          ELSE IF verdict = "ADMIT" THEN Admitted(m, md) ELSE Refused(m, verdict))
  BY Zenon DEF Send
<1>2. PICK md \in CallMetadata : md = Outbound(m, own, fwd, token)
  BY OutboundType, Zenon
<1>3. PICK verdict \in {"ADMIT", "ASK"} \cup Codes :
        /\ verdict = Intercept(m, md.token)
        /\ verdict = "ADMIT" => Admits(m, md.token)
        /\ verdict = "ASK" => ~Listed(m) /\ gate.alternate
  BY AdmittedIsAdmitted, Zenon DEF Send
<1>4. /\ server = "up" /\ rpcs[c].pc = "idle" /\ UNCHANGED <<gate, server, contexts, busy>>
  BY Zenon DEF Send, KeepPool
<1>5. CASE verdict = "ASK"
  <2>1. PICK r : r = [pc |-> "asking", m |-> m, md |-> md]
    BY Zenon
  <2>2. r \in AskingCalls /\ r.m = m /\ r.pc = "asking"
    BY <2>1, Zenon DEF AskingCalls
  <2>3. rpcs' = [rpcs EXCEPT ![c] = r]
    BY <1>1, <1>2, <1>3, <1>5, <2>1, Zenon DEF RpcBecomes
  <2>. QED  BY <1>3, <1>4, <1>5, <2>2, <2>3, CallMoves, Zenon DEF CallOk
<1>6. CASE verdict # "ASK" /\ ~m.served
  <2>1. PICK q : q = Refused(m, "UNIMPLEMENTED")
    BY Zenon
  <2>2. EndedOk(q)
    BY <2>1, RefusedIsTold, Zenon DEF Codes
  <2>3. PICK r : r = [q EXCEPT !.counted = Nobody]
    BY Zenon
  <2>4. EndedOk(r) /\ r.pc = "ended"
    BY <2>2, <2>3, Zenon DEF EndedOk, EndedCalls, CodesAgree
  <2>5. rpcs' = [rpcs EXCEPT ![c] = r]
    BY <1>1, <1>2, <1>3, <1>6, <2>1, <2>3, Zenon DEF RpcBecomes, Refused
  <2>. QED  BY <1>4, <2>4, <2>5, CallMoves, Zenon DEF CallOk
<1>7. CASE verdict # "ASK" /\ m.served /\ verdict = "ADMIT"
  <2>1. rpcs' = [rpcs EXCEPT ![c] = Admitted(m, md)]
    BY <1>1, <1>2, <1>3, <1>7, Zenon DEF RpcBecomes
  <2>2. LiveOk(Admitted(m, md)) /\ Admitted(m, md).pc = "queued"
    BY <1>3, <1>7, AdmittedIsLive, Zenon
  <2>. QED  BY <1>4, <2>1, <2>2, CallMoves, Zenon DEF CallOk
<1>8. CASE verdict # "ASK" /\ m.served /\ verdict # "ADMIT"
  <2>1. rpcs' = [rpcs EXCEPT ![c] = Refused(m, verdict)]
    BY <1>1, <1>2, <1>3, <1>8, Zenon DEF RpcBecomes
  <2>2. EndedOk(Refused(m, verdict)) /\ Refused(m, verdict).pc = "ended"
    BY <1>8, RefusedIsTold, Zenon
  <2>. QED  BY <1>4, <2>1, <2>2, CallMoves, Zenon DEF CallOk
<1>. QED  BY <1>5, <1>6, <1>7, <1>8, Zenon

LEMMA AnswersStep ==
  ASSUME RpcInv, NEW c \in Rpcs, Answers(c)
  PROVE  RpcInv'
<1>1. /\ rpcs[c].pc = "asking" /\ server = "up" /\ UNCHANGED <<gate, server, contexts, busy>>
      /\ rpcs[c] \in AskingCalls /\ ~Listed(rpcs[c].m) /\ gate.alternate
  BY StageOf, Zenon DEF Answers, KeepPool
<1>2. PICK m \in Methods, md \in CallMetadata : m = rpcs[c].m /\ md = rpcs[c].md
  BY <1>1, Zenon DEF AskingCalls
<1>3. CASE md.token = "host"
  <2>1. rpcs' = [rpcs EXCEPT ![c] = Admitted(m, md)]
    BY <1>2, <1>3, Zenon DEF Answers, RpcBecomes
  <2>2. Admits(m, md.token)
    BY <1>1, <1>2, <1>3, Zenon DEF Admits
  <2>3. LiveOk(Admitted(m, md)) /\ Admitted(m, md).pc = "queued"
    BY <2>2, AdmittedIsLive, Zenon
  <2>. QED  BY <1>1, <2>1, <2>3, CallMoves, Zenon DEF CallOk
<1>4. CASE md.token # "host"
  <2>1. rpcs' = [rpcs EXCEPT ![c] = Refused(m, "UNAUTHENTICATED")]
    BY <1>2, <1>4, Zenon DEF Answers, RpcBecomes
  <2>2. /\ EndedOk(Refused(m, "UNAUTHENTICATED"))
        /\ Refused(m, "UNAUTHENTICATED").pc = "ended"
    BY RefusedIsTold, Zenon DEF Codes
  <2>. QED  BY <1>1, <2>1, <2>2, CallMoves, Zenon DEF CallOk
<1>. QED  BY <1>3, <1>4, Zenon

(* A handler starts in a context of its own, or the JWT layer refuses it.  *)
LEMMA StartTaskStep ==
  ASSUME RpcInv, NEW c \in Rpcs, StartTask(c)
  PROVE  RpcInv'
<1>1. /\ rpcs[c].pc = "queued" /\ server = "up" /\ LiveOk(rpcs[c]) /\ UNCHANGED <<gate, server, contexts, busy>>
  BY StageOf, Zenon DEF StartTask, KeepPool
<1>2. PICK r \in LiveCalls : r = rpcs[c]
  BY <1>1, Zenon DEF LiveOk
<1>3. r.m \in Methods /\ r.md \in CallMetadata /\ r.caller \in CallerNames
  BY Zenon DEF LiveCalls
<1>4. ASSUME NEW p \in {"serving", "verifying"}, Entered(c) = [r EXCEPT !.pc = p],
             p = "verifying" => r.md.auth \notin {Nobody, "basic"}
      PROVE  RpcInv'
  <2>1. PICK a \in LiveCalls : a = [r EXCEPT !.pc = p]
    BY LiveFields, Zenon
  <2>2. a.pc = p /\ a.m = r.m /\ a.md = r.md /\ a.caller = r.caller /\ a.context = Own /\ a.thread = Nobody
    BY <1>1, <1>2, <2>1, LiveFields DEF LiveOk
  <2>3. PICK o \in Contexts : /\ o = [Own EXCEPT !.caller = r.caller]
                              /\ o.caller = r.caller /\ o.payload = Nobody /\ o.behalf = Nobody
    <3>1. [Own EXCEPT !.caller = r.caller] = [caller |-> r.caller, payload |-> Nobody, behalf |-> Nobody]
      BY DEF Own
    <3>2. Nobody \in Auths /\ Nobody \in Behalves
      BY Zenon DEF Auths, Behalves
    <3>. QED  BY <1>3, <3>1, <3>2, ContextFields, Zenon
  <2>4. PICK q \in LiveCalls : q = [a EXCEPT !.context = o]
    BY LiveFields, Zenon
  <2>5. /\ q.pc = p /\ q.m = r.m /\ q.md = r.md /\ q.caller = r.caller /\ q.context = o /\ q.thread = Nobody
    BY <2>2, <2>4, LiveFields
  <2>6. rpcs' = [rpcs EXCEPT ![c] = q]
    <3>1. [a EXCEPT !.context.caller = r.caller] = [a EXCEPT !.context = [a.context EXCEPT !.caller = r.caller]]
      BY Zenon DEF LiveCalls
    <3>2. q = [a EXCEPT !.context.caller = r.caller]
      BY <2>2, <2>3, <2>4, <3>1, Zenon
    <3>3. Entered(c) = a /\ a.pc # "ended"
      BY <1>4, <2>1, <2>2, Zenon
    <3>. QED  BY <1>2, <3>2, <3>3, Zenon DEF StartTask, RpcBecomes
  <2>7. LiveOk(q)
    BY <1>1, <1>2, <1>4, <2>3, <2>5, Zenon DEF LiveOk, OwnContext
  <2>. QED  BY <1>1, <2>5, <2>6, <2>7, CallMoves, Zenon DEF CallOk
<1>5. CASE Entered(c) = Refused(r.m, "UNAUTHENTICATED")
  <2>1. /\ EndedOk(Refused(r.m, "UNAUTHENTICATED"))
        /\ Refused(r.m, "UNAUTHENTICATED").pc = "ended"
    BY <1>3, RefusedIsTold, Zenon DEF Codes
  <2>2. rpcs' = [rpcs EXCEPT ![c] = Refused(r.m, "UNAUTHENTICATED")]
    BY <1>5, <2>1, Zenon DEF StartTask, RpcBecomes
  <2>. QED  BY <1>1, <2>1, <2>2, CallMoves, Zenon DEF CallOk
<1>6. \/ Entered(c) = [r EXCEPT !.pc = "serving"]
      \/ Entered(c) = [r EXCEPT !.pc = "verifying"] /\ r.md.auth \notin {Nobody, "basic"}
      \/ Entered(c) = Refused(r.m, "UNAUTHENTICATED")
  BY <1>2, Zenon DEF Entered
<1>. QED  BY <1>4, <1>5, <1>6, Zenon

(* The verifier's answer, and a caller that does not wait for it.          *)
LEMMA VerifiedStep ==
  ASSUME RpcInv, NEW c \in Rpcs, Verified(c)
  PROVE  RpcInv'
<1>1. /\ rpcs[c].pc = "verifying" /\ server = "up" /\ LiveOk(rpcs[c]) /\ UNCHANGED <<gate, server, contexts, busy>>
  BY StageOf, Zenon DEF Verified, KeepPool
<1>2. PICK r \in LiveCalls : r = rpcs[c]
  BY <1>1, Zenon DEF LiveOk
<1>3. r.m \in Methods /\ r.md \in CallMetadata /\ r.caller \in CallerNames
  BY Zenon DEF LiveCalls
<1>4. CASE r.md.auth = "expired"
  <2>1. /\ EndedOk(Refused(r.m, "UNAUTHENTICATED"))
        /\ Refused(r.m, "UNAUTHENTICATED").pc = "ended"
    BY <1>3, RefusedIsTold, Zenon DEF Codes
  <2>2. rpcs' = [rpcs EXCEPT ![c] = Refused(r.m, "UNAUTHENTICATED")]
    BY <1>2, <1>4, Zenon DEF Verified, RpcBecomes
  <2>. QED  BY <1>1, <2>1, <2>2, CallMoves, Zenon DEF CallOk
<1>5. CASE r.md.auth # "expired"
  <2>1. PICK behalf \in Behalves : behalf = IF r.md.auth = "bot" THEN r.md.behalf ELSE Nobody
    BY <1>3, Zenon DEF CallMetadata, Behalves
  <2>2. r.md.auth \in {"user", "bot"}
    BY <1>1, <1>2, <1>3, <1>5, Zenon DEF LiveOk, CallMetadata, Auths
  <2>3. PICK o \in Contexts : /\ o = [caller |-> r.caller, payload |-> r.md.auth, behalf |-> behalf]
                              /\ o.caller = r.caller /\ o.payload = r.md.auth /\ o.behalf = behalf
    <3>1. r.md.auth \in Auths
      BY <2>2, Zenon DEF Auths
    <3>. QED  BY <1>3, <3>1, ContextFields, Zenon
  <2>4. PICK a \in LiveCalls : a = [r EXCEPT !.pc = "serving"]
    BY LiveFields, Zenon
  <2>5. PICK q \in LiveCalls : q = [a EXCEPT !.context = o]
    BY LiveFields, Zenon
  <2>6. /\ q.pc = "serving" /\ q.m = r.m /\ q.md = r.md /\ q.caller = r.caller /\ q.context = o
        /\ q.thread = Nobody
    BY <1>1, <1>2, <2>4, <2>5, LiveFields DEF LiveOk
  <2>7. rpcs' = [rpcs EXCEPT ![c] = q]
    <3>1. r.context.caller = r.caller
      BY <1>1, <1>2, Zenon DEF LiveOk, Own
    <3>2. rpcs' = [rpcs EXCEPT ![c] = [r EXCEPT !.pc = "serving", !.context = o]]
      BY <1>2, <1>5, <2>1, <2>3, <3>1, Zenon DEF Verified, RpcBecomes
    <3>3. [r EXCEPT !.pc = "serving", !.context = o] = q
      BY <2>4, <2>5, Zenon DEF LiveCalls
    <3>. QED  BY <3>2, <3>3, Zenon
  <2>8. LiveOk(q)
    BY <1>1, <1>2, <2>1, <2>2, <2>3, <2>6, Zenon DEF LiveOk, OwnContext
  <2>. QED  BY <1>1, <2>6, <2>7, <2>8, CallMoves, Zenon DEF CallOk
<1>. QED  BY <1>4, <1>5, Zenon

LEMMA CancelledStep ==
  ASSUME RpcInv, NEW c \in Rpcs, Cancelled(c)
  PROVE  RpcInv'
<1>1. /\ rpcs[c].pc = "verifying" /\ server = "up" /\ LiveOk(rpcs[c]) /\ UNCHANGED <<gate, server, contexts, busy>>
  BY StageOf, Zenon DEF Cancelled, KeepPool
<1>2. PICK m \in Methods : m = rpcs[c].m
  BY <1>1, Zenon DEF LiveOk, LiveCalls
<1>3. PICK end \in OutcomeRecords : end = [failure |-> "CancelledError", code |-> Nobody]
  BY Zenon DEF OutcomeRecords, ErrorNames
<1>4. EndedOk(RpcEnded(m, "CancelledError", end))
  <2>1. "CancelledError" \in ErrorNames /\ "CancelledError" \notin CallersFault
    BY Zenon DEF ErrorNames, CallersFault
  <2>2. end.failure = "CancelledError"
    BY <1>3, Zenon
  <2>. QED  BY <2>1, <2>2, EndIsTold, Zenon
<1>5. rpcs' = [rpcs EXCEPT ![c] = RpcEnded(m, "CancelledError", end)]
  BY <1>2, <1>3, Zenon DEF Cancelled, RpcBecomes
<1>. QED  BY <1>1, <1>4, <1>5, CallMoves, Stages, Zenon DEF CallOk, EndedOk

(* The client's metrics read the code of the completed call.               *)
LEMMA ObserveStep ==
  ASSUME RpcInv, NEW c \in Rpcs, Observe(c)
  PROVE  RpcInv'
<1>1. /\ rpcs[c].pc = "ended" /\ server = "up" /\ EndedOk(rpcs[c]) /\ UNCHANGED <<gate, server, contexts, busy>>
  BY StageOf, Zenon DEF Observe, KeepPool
<1>2. PICK r \in EndedCalls : r = rpcs[c] /\ EndedOk(r)
  BY <1>1, Zenon DEF EndedOk
<1>3. r.status \in Codes /\ CallStatusCode(r) = r.status
  BY Zenon DEF EndedCalls, CallStatusCode, Or, Codes, Nobody
<1>4. PICK q \in EndedCalls : q = [r EXCEPT !.observed = r.status]
  BY <1>3, Zenon DEF EndedCalls
<1>5. /\ q.pc = "ended" /\ q.error = r.error /\ q.status = r.status /\ q.counted = r.counted
      /\ q.raises = r.raises /\ q.observed = r.status
  BY <1>4, Zenon DEF EndedCalls
<1>6. EndedOk(q)
  BY <1>2, <1>5, Zenon DEF EndedOk, CodesAgree
<1>7. rpcs' = [rpcs EXCEPT ![c] = q]
  BY <1>2, <1>3, <1>4, Zenon DEF Observe, RpcBecomes
<1>. QED  BY <1>1, <1>5, <1>6, <1>7, CallMoves, Zenon DEF CallOk

(* A plain servicer starts on a free thread.                               *)
LEMMA StartOnPoolStep ==
  ASSUME RpcInv, NEW c \in Rpcs, NEW t \in PoolThreads, StartOnPool(c, t)
  PROVE  RpcInv'
<1>1. /\ rpcs[c].pc = "queued" /\ server = "up" /\ LiveOk(rpcs[c]) /\ ~busy[t] /\ contexts[t] = Own
      /\ rpcs' = [rpcs EXCEPT ![c] = [rpcs[c] EXCEPT !.pc = "serving", !.thread = t,
                                                     !.before = contexts[t].caller]]
      /\ busy' = [busy EXCEPT ![t] = TRUE] /\ UNCHANGED <<gate, server>>
  BY StageOf, Zenon DEF StartOnPool, RpcBecomes, RpcInv, PoolInv
<1>2. PICK r \in LiveCalls : r = rpcs[c]
  BY <1>1, Zenon DEF LiveOk
<1>3. r.caller \in CallerNames /\ r.caller = CallerOf(r.m, r.md.token) /\ contexts[t].caller = Nobody
  BY <1>1, <1>2 DEF LiveCalls, LiveOk, Own
<1>4. PICK o \in Contexts : /\ o = [Own EXCEPT !.caller = r.caller]
                            /\ contexts' = [contexts EXCEPT ![t] = o]
  <2>1. [Own EXCEPT !.caller = r.caller] \in Contexts
    BY <1>3, OwnIsContext, Zenon DEF Contexts
  <2>2. CASE Listed(r.m)
    BY <1>1, <1>2, <2>1, <2>2, Zenon DEF StartOnPool
  <2>3. CASE ~Listed(r.m)
    <3>1. [Own EXCEPT !.caller = r.caller] = Own
      BY <1>3, <2>3 DEF CallerOf, Own
    <3>2. contexts = [contexts EXCEPT ![t] = Own]
      BY <1>1, Zenon DEF RpcInv
    <3>. QED  BY <1>2, <2>1, <2>3, <3>1, <3>2, Zenon DEF StartOnPool
  <2>. QED  BY <2>2, <2>3, Zenon
<1>5. PICK q \in LiveCalls : /\ rpcs' = [rpcs EXCEPT ![c] = q]
                             /\ q.pc = "serving" /\ q.m = r.m /\ q.md = r.md /\ q.caller = r.caller
                             /\ q.thread = t /\ q.before = Nobody
  <2>1. PICK a \in LiveCalls : a = [r EXCEPT !.pc = "serving"]
    BY LiveFields, Zenon
  <2>2. PICK b \in LiveCalls : b = [a EXCEPT !.thread = t]
    BY Zenon DEF LiveCalls
  <2>3. PICK q \in LiveCalls : q = [b EXCEPT !.before = Nobody]
    BY OwnIsContext, Zenon DEF LiveCalls
  <2>4. q = [r EXCEPT !.pc = "serving", !.thread = t, !.before = Nobody]
    BY <2>1, <2>2, <2>3, Zenon DEF LiveCalls
  <2>5. /\ q.pc = "serving" /\ q.m = r.m /\ q.md = r.md /\ q.caller = r.caller
        /\ q.thread = t /\ q.before = Nobody
    BY <2>4, Zenon DEF LiveCalls
  <2>. QED  BY <1>1, <1>2, <1>3, <2>4, <2>5, Zenon
<1>6. LiveOk(q)
  BY <1>1, <1>2, <1>5, NobodyIsNoThread, Zenon DEF LiveOk
<1>. USE DEF RpcInv
<1>7. /\ rpcs' \in [Rpcs -> {NoRpc} \cup AskingCalls \cup LiveCalls \cup EndedCalls]
      /\ rpcs'[c] = q /\ \A d \in Rpcs \ {c} : rpcs'[d] = rpcs[d]
  BY <1>5, Zenon
<1>8. /\ contexts' \in [PoolThreads -> Contexts] /\ busy' \in [PoolThreads -> BOOLEAN]
      /\ contexts'[t] = o /\ busy'[t] /\ \A s \in PoolThreads \ {t} : contexts'[s] = contexts[s] /\ busy'[s] = busy[s]
  BY <1>1, <1>4, Zenon
<1>9. ASSUME NEW d \in Rpcs PROVE CallOk(rpcs[d])'
  <2>1. PICK x : x = rpcs'[d] /\ CallOk(x)
    BY <1>6, <1>7, Zenon DEF CallOk
  <2>. QED  BY <1>1, <2>1, CallStaysOk, Zenon
<1>10. PoolInv'
  <2>1. \A d \in Rpcs \ {c}, s \in PoolThreads : OnThread(d, s)' => OnThread(d, s) /\ s # t
    BY <1>1, <1>7, Zenon DEF OnThread, PoolInv
  <2>2. \A s \in PoolThreads : OnThread(c, s)' => s = t
    BY <1>5, <1>7, Zenon DEF OnThread
  <2>3. \A s \in PoolThreads : ~busy'[s] => contexts'[s] = Own
    BY <1>8, Zenon DEF PoolInv
  <2>4. ASSUME NEW d \in Rpcs, NEW s \in PoolThreads, OnThread(d, s)'
        PROVE  busy'[s] /\ contexts'[s] = [Own EXCEPT !.caller = rpcs'[d].caller]
    <3>1. CASE d = c
      BY <1>4, <1>5, <1>7, <1>8, <2>2, <2>4, <3>1, Zenon
    <3>2. CASE d # c
      <4>1. OnThread(d, s) /\ s # t /\ rpcs'[d] = rpcs[d]
        BY <1>7, <2>1, <2>4, <3>2, Zenon
      <4>. QED  BY <1>8, <4>1 DEF PoolInv
    <3>. QED  BY <3>1, <3>2, Zenon
  <2>5. \A d, e \in Rpcs, s \in PoolThreads : OnThread(d, s)' /\ OnThread(e, s)' => d = e
    BY <2>1, <2>2 DEF PoolInv
  <2>. QED  BY <2>3, <2>4, <2>5, Zenon DEF PoolInv
<1>11. GateInv'
  BY <1>1, Zenon DEF GateInv, CallerCredentials
<1>. QED  BY <1>1, <1>7, <1>8, <1>9, <1>10, <1>11, Zenon

(* A servicer ends: its thread is left as it was found.                    *)
LEMMA LeaveStep ==
  ASSUME RpcInv, NEW c \in Rpcs, NEW r, EndedOk(r), rpcs[c].pc = "serving",
         rpcs' = [rpcs EXCEPT ![c] = r], LeaveThread(c), UNCHANGED <<gate, server>>
  PROVE  RpcInv'
<1>1. LiveOk(rpcs[c]) /\ server = "up" /\ r \in EndedCalls /\ r.pc = "ended"
  BY StageOf, Stages, Zenon DEF EndedOk
<1>2. PICK q \in LiveCalls : q = rpcs[c]
  BY <1>1, Zenon DEF LiveOk
<1>. USE DEF RpcInv
<1>3. /\ rpcs' \in [Rpcs -> {NoRpc} \cup AskingCalls \cup LiveCalls \cup EndedCalls]
      /\ rpcs'[c] = r /\ \A d \in Rpcs \ {c} : rpcs'[d] = rpcs[d]
  BY <1>1, Zenon
<1>4. \A t \in PoolThreads : /\ t # q.thread => busy'[t] = busy[t] /\ contexts'[t] = contexts[t]
                             /\ t = q.thread => ~busy'[t] /\ contexts'[t] = Own
  <2>. SUFFICES ASSUME NEW t \in PoolThreads
                PROVE  /\ t # q.thread => busy'[t] = busy[t] /\ contexts'[t] = contexts[t]
                       /\ t = q.thread => ~busy'[t] /\ contexts'[t] = Own
    BY Zenon
  <2>1. CASE t # q.thread
    BY <1>2, <2>1, Zenon DEF LeaveThread
  <2>2. CASE t = q.thread
    <3>1. OnThread(c, t) /\ q.before = Nobody
      BY <1>1, <1>2, <2>2, NobodyIsNoThread, Zenon DEF OnThread, LiveOk
    <3>2. contexts[t] = [Own EXCEPT !.caller = q.caller]
      BY <1>2, <3>1, Zenon DEF PoolInv
    <3>3. contexts'[t] = [contexts[t] EXCEPT !.caller = Nobody] /\ ~busy'[t]
      BY <1>2, <2>2, <3>1, Zenon DEF LeaveThread
    <3>. QED  BY <2>2, <3>2, <3>3, Zenon DEF Own
  <2>. QED  BY <2>1, <2>2, Zenon
<1>5. contexts' \in [PoolThreads -> Contexts] /\ busy' \in [PoolThreads -> BOOLEAN]
  <2>1. \A t \in PoolThreads : contexts'[t] \in Contexts
    BY <1>4, OwnIsContext, Zenon
  <2>2. contexts' = [t \in PoolThreads |-> contexts'[t]]
    BY Zenon DEF LeaveThread
  <2>. QED  BY <2>1, <2>2, Zenon DEF LeaveThread
<1>6. ASSUME NEW d \in Rpcs PROVE CallOk(rpcs[d])'
  <2>1. PICK x : x = rpcs'[d] /\ CallOk(x)
    BY <1>3, Zenon DEF CallOk
  <2>. QED  BY <2>1, CallStaysOk, Zenon
<1>7. PoolInv'
  <2>1. ASSUME NEW d \in Rpcs, NEW s \in PoolThreads, OnThread(d, s)'
        PROVE  OnThread(d, s) /\ rpcs'[d] = rpcs[d] /\ s # q.thread
    <3>1. d # c /\ rpcs'[d] = rpcs[d] /\ OnThread(d, s)
      BY <1>1, <1>3, <2>1, Zenon DEF OnThread
    <3>. QED  BY <1>2, <3>1, Zenon DEF OnThread, PoolInv
  <2>2. \A s \in PoolThreads : ~busy'[s] => contexts'[s] = Own
    BY <1>4, Zenon DEF PoolInv
  <2>3. \A d \in Rpcs, s \in PoolThreads : OnThread(d, s)' =>
          busy'[s] /\ contexts'[s] = [Own EXCEPT !.caller = rpcs'[d].caller]
    BY <1>4, <2>1 DEF PoolInv
  <2>4. \A d, e \in Rpcs, s \in PoolThreads : OnThread(d, s)' /\ OnThread(e, s)' => d = e
    BY <2>1, Zenon DEF PoolInv
  <2>. QED  BY <2>2, <2>3, <2>4, Zenon DEF PoolInv
<1>8. GateInv'
  BY <1>1, Zenon DEF GateInv, CallerCredentials
<1>. QED  BY <1>3, <1>5, <1>6, <1>7, <1>8, Zenon

(* The status a domain error is given.                                     *)
LEMMA StatusOfError ==
  ASSUME NEW error \in Failures
  PROVE  /\ StatusForException(error) \in Codes \cup {Nobody}
         /\ error.class \in CallersFault =>
               StatusForException(error) \notin UpstreamFailureCodes \cup {"OK", Nobody}
         /\ error.class = "Overloaded" => StatusForException(error) = "UNAVAILABLE"
<1>1. CASE error.class \in DOMAIN ErrorClassToStatus
  <2>. DEFINE class == error.class
  <2>1. StatusForException(error) =
          CASE class = "ResourceNotFoundError" -> "NOT_FOUND"
            [] class \in {"InvalidInputError", "InvalidFormatError"} -> "INVALID_ARGUMENT"
            [] class = "AuthPermissionDeniedError" -> "PERMISSION_DENIED"
            [] class = "DuplicateResourceError" -> "ALREADY_EXISTS"
            [] class = "RateLimitError" -> "RESOURCE_EXHAUSTED"
            [] OTHER -> "UNAUTHENTICATED"
    BY <1>1, Zenon DEF StatusForException, ErrorClassToStatus
  <2>2. class # "Overloaded"
    BY <1>1, Zenon DEF ErrorClassToStatus
  <2>. QED  BY <2>1, <2>2, Zenon DEF Codes, CallersFault, UpstreamFailureCodes, Nobody
<1>2. CASE error.class \notin DOMAIN ErrorClassToStatus
  <2>1. StatusForException(error) = HttpStatusToGrpc(error.http)
    BY <1>2, Zenon DEF StatusForException
  <2>2. HttpStatusToGrpc(error.http) \in Codes \cup {Nobody}
    BY DEF HttpStatusToGrpc, Codes
  <2>3. error.class \in CallersFault => error.class = "Teapot"
    BY <1>2, Zenon DEF CallersFault, ErrorClassToStatus
  <2>4. ASSUME error.http \in (400..499) \ {429}
        PROVE  HttpStatusToGrpc(error.http) \notin UpstreamFailureCodes \cup {"OK", Nobody}
    BY <2>4 DEF HttpStatusToGrpc, UpstreamFailureCodes, Nobody
  <2>5. error.http = 503 => HttpStatusToGrpc(error.http) = "UNAVAILABLE"
    BY DEF HttpStatusToGrpc
  <2>. QED  BY <2>1, <2>2, <2>3, <2>4, <2>5, FailuresAssumption
<1>. QED  BY <1>1, <1>2, Zenon

(* What the layers make of a servicer's error.                             *)
LEMMA RaisedEnd ==
  ASSUME NEW m \in Methods, NEW error \in Failures,
         m.system => error.class \in {"AbortError", "CancelledError"}
  PROVE  LET end == DomainErrors(m, error, Decorated(m, error))
         IN /\ end \in OutcomeRecords
            /\ end.failure \in {"CancelledError", "AioRpcError"} => error.class = end.failure
            /\ error.class \in CallersFault => end.code \notin UpstreamFailureCodes \cup {"OK", Nobody}
            /\ error.class = "Overloaded" => end.code = "UNAVAILABLE" /\ end.failure # "CancelledError"
<1>. DEFINE class == error.class
            told == StatusForException(error)
            Good(e) == /\ e.failure \in {"CancelledError", "AioRpcError"} => class = e.failure
                       /\ class \in CallersFault => e.code \notin UpstreamFailureCodes \cup {"OK", Nobody}
                       /\ class = "Overloaded" => e.code = "UNAVAILABLE" /\ e.failure # "CancelledError"
<1>1. class \in ErrorNames /\ class # Nobody /\ Nobody \in ErrorNames
  BY FailuresAssumption DEF ErrorNames
<1>2. /\ told \in Codes \cup {Nobody}
      /\ class \in CallersFault => told \notin UpstreamFailureCodes \cup {"OK", Nobody}
      /\ class = "Overloaded" => told = "UNAVAILABLE"
  BY StatusOfError, Zenon
<1>3. class \in CallersFault \cup {"Overloaded"} => class \notin {"AbortError", "CancelledError", "AioRpcError"}
  BY Zenon DEF CallersFault
<1>4. Nobody \notin {"UNAVAILABLE", "AbortError", "CancelledError", "AioRpcError"}
  BY Zenon DEF Nobody
<1>. HIDE DEF class, told
<1>5. \A f \in ErrorNames \cup {"AbortError", "TypeError"}, s \in Codes \cup {Nobody} :
         [failure |-> f, code |-> s] \in OutcomeRecords
  BY Zenon DEF OutcomeRecords
<1>6. CASE class = "AbortError"
  <2>1. Decorated(m, error) = [failure |-> "AbortError", code |-> "FAILED_PRECONDITION"]
    BY <1>6, Zenon DEF Decorated, class
  <2>2. [failure |-> "AbortError", code |-> "FAILED_PRECONDITION"] \in OutcomeRecords
    BY <1>5, Zenon DEF Codes
  <2>3. \A f \in {Nobody, "AbortError"} : [failure |-> f, code |-> told] \in OutcomeRecords
    BY <1>1, <1>2, <1>5, Zenon
  <2>4. DomainErrors(m, error, Decorated(m, error)) \in
           {Decorated(m, error), [failure |-> Nobody, code |-> told], [failure |-> "AbortError", code |-> told]}
    BY Zenon DEF DomainErrors, told
  <2>. QED  BY <1>3, <1>4, <1>6, <2>1, <2>2, <2>3, <2>4 DEF class
<1>7. CASE class # "AbortError" /\ m.decorated /\ class # "CancelledError"
  <2>. DEFINE code == Or(told, "INTERNAL")
  <2>1. Decorated(m, error) = [failure |-> "AbortError", code |-> code]
    BY <1>7, Zenon DEF Decorated, class, told
  <2>2. code \in Codes
    BY <1>2, Zenon DEF Or, Codes
  <2>3. class \in CallersFault \/ class = "Overloaded" => code = told
    BY <1>2, <1>4, Zenon DEF Or
  <2>. HIDE DEF code
  <2>4. DomainErrors(m, error, Decorated(m, error)) = [failure |-> "AbortError", code |-> code]
    BY <1>7, <2>1 DEF DomainErrors, class
  <2>5. [failure |-> "AbortError", code |-> code] \in OutcomeRecords
    BY <1>5, <2>2, Zenon
  <2>. QED  BY <1>2, <1>3, <2>3, <2>4, <2>5 DEF class
<1>8. CASE class # "AbortError" /\ ~(m.decorated /\ class # "CancelledError")
  <2>1. Decorated(m, error) = [failure |-> class, code |-> Nobody]
    BY <1>8, Zenon DEF Decorated, class
  <2>2. CASE m.system \/ told = Nobody
    <3>1. DomainErrors(m, error, Decorated(m, error)) = [failure |-> class, code |-> Nobody]
      BY <2>1, <2>2, Zenon DEF DomainErrors, class, told
    <3>2. class \notin CallersFault \cup {"Overloaded"}
      BY <1>2, <1>3, <1>4, <2>2, Zenon DEF class
    <3>3. [failure |-> class, code |-> Nobody] \in OutcomeRecords
      BY <1>1, <1>5, Zenon
    <3>. QED  BY <3>1, <3>2, <3>3 DEF class
  <2>3. CASE ~m.system /\ told # Nobody
    <3>1. PICK f \in {Nobody, "AbortError"} :
             DomainErrors(m, error, Decorated(m, error)) = [failure |-> f, code |-> told]
      BY <2>1, <2>3 DEF DomainErrors, class, told
    <3>2. [failure |-> f, code |-> told] \in OutcomeRecords
      BY <1>1, <1>2, <1>5, Zenon
    <3>. QED  BY <1>2, <1>4, <3>1, <3>2 DEF class
  <2>. QED  BY <2>2, <2>3, Zenon
<1>. QED  BY <1>6, <1>7, <1>8, Zenon

(* The JWT layer adds a TypeError at most.                                 *)
LEMMA AwaitedEnd ==
  ASSUME NEW m, NEW end \in OutcomeRecords
  PROVE  /\ Awaited(m, end) \in OutcomeRecords /\ Awaited(m, end).code = end.code
         /\ Awaited(m, end).failure \in {end.failure, "TypeError"}
  BY Zenon DEF Awaited, OutcomeRecords

LEMMA FinishStep ==
  ASSUME RpcInv, NEW c \in Rpcs, Returns(c) \/ Raises(c)
  PROVE  RpcInv'
<1>1. PICK error \in ErrorNames, end \in OutcomeRecords :
        /\ Finish(c, error, end)
        /\ end.failure \in {"CancelledError", "AioRpcError"} => error = end.failure
        /\ error \in CallersFault => end.code \notin UpstreamFailureCodes \cup {"OK", Nobody}
        /\ error = "Overloaded" => end.code = "UNAVAILABLE" /\ end.failure # "CancelledError"
  <2>1. CASE Returns(c)
    <3>1. [failure |-> Nobody, code |-> Nobody] \in OutcomeRecords /\ Nobody \in ErrorNames
      BY Zenon DEF OutcomeRecords, ErrorNames
    <3>2. Nobody \notin CallersFault \cup {"Overloaded", "CancelledError", "AioRpcError"}
      BY Zenon DEF Nobody, CallersFault
    <3>. QED  BY <2>1, <3>1, <3>2, Zenon DEF Returns
  <2>2. CASE Raises(c)
    <3>1. PICK error \in Failures :
             /\ rpcs[c].pc = "serving"
             /\ rpcs[c].m.system => error.class \in {"AbortError", "CancelledError"}
             /\ Finish(c, error.class, DomainErrors(rpcs[c].m, error, Decorated(rpcs[c].m, error)))
      BY <2>2, Zenon DEF Raises
    <3>2. rpcs[c].m \in Methods
      BY <3>1, StageOf, Zenon DEF LiveOk, LiveCalls
    <3>3. error.class \in ErrorNames
      BY Zenon DEF ErrorNames
    <3>. QED  BY <3>1, <3>2, <3>3, RaisedEnd, Zenon
  <2>. QED  BY <2>1, <2>2, Zenon
<1>2. rpcs[c].pc = "serving"
  BY <1>1, Zenon DEF Finish
<1>3. PICK m \in Methods : m = rpcs[c].m
  BY <1>2, StageOf, Zenon DEF LiveOk, LiveCalls
<1>4. EndedOk(RpcEnded(m, error, Awaited(m, end)))
  <2>1. PICK e \in OutcomeRecords : e = Awaited(m, end) /\ e.code = end.code /\ e.failure \in {end.failure, "TypeError"}
    BY AwaitedEnd, Zenon
  <2>. QED  BY <1>1, <2>1, EndIsTold, Zenon
<1>. QED  BY <1>1, <1>2, <1>3, <1>4, LeaveStep, Zenon DEF Finish, RpcBecomes

LEMMA OpenPortStep ==
  ASSUME RpcInv, OpenPort
  PROVE  RpcInv'
<1>. USE DEF RpcInv
<1>1. /\ \A c \in Rpcs : rpcs[c] = NoRpc
      /\ server' = "up" => (gate.required => gate.token) /\ CallerCredentials
      /\ UNCHANGED <<gate, rpcs, contexts, busy>>
  BY Zenon DEF OpenPort, GateInv
<1>2. ASSUME NEW d \in Rpcs PROVE CallOk(rpcs[d])'
  BY <1>1, Zenon DEF CallOk
<1>3. PoolInv'
  BY <1>1, Zenon DEF PoolInv, OnThread
<1>4. GateInv'
  BY <1>1, Zenon DEF GateInv, CallerCredentials
<1>. QED  BY <1>1, <1>2, <1>3, <1>4, Zenon

LEMMA RpcStep == RpcInv /\ [RpcNext]_rpcVars => RpcInv'
<1>. SUFFICES ASSUME RpcInv, [RpcNext]_rpcVars PROVE RpcInv'
  BY Zenon
<1>1. CASE UNCHANGED rpcVars
  <2>. USE DEF RpcInv
  <2>1. UNCHANGED <<gate, server, rpcs, contexts, busy>>
    BY <1>1, Zenon DEF rpcVars
  <2>2. ASSUME NEW d \in Rpcs PROVE CallOk(rpcs[d])'
    <3>1. PICK x : x = rpcs'[d] /\ CallOk(x)
      BY <2>1, Zenon
    <3>. QED  BY <2>1, <3>1, CallStaysOk, Zenon
  <2>3. PoolInv'
    BY <2>1, Zenon DEF PoolInv, OnThread
  <2>4. GateInv'
    BY <2>1, Zenon DEF GateInv, CallerCredentials
  <2>. QED  BY <2>1, <2>2, <2>3, <2>4, Zenon
<1>. QED  BY <1>1, OpenPortStep, SendStep, AnswersStep, StartTaskStep, StartOnPoolStep, VerifiedStep,
             FinishStep, CancelledStep, ObserveStep, Zenon DEF RpcNext

(* auth.py, caller_policy.py: a servicer runs only for a caller that the   *)
(* rules of its gate admit, for any gate, methods and number of calls.     *)
THEOREM AlwaysServedOnlyIfAdmitted == RpcSpec => []ServedOnlyIfAdmitted
<1>1. RpcInv => ServedOnlyIfAdmitted
  <2>. SUFFICES ASSUME RpcInv, NEW c \in Rpcs, Serving(c) PROVE Admits(rpcs[c].m, rpcs[c].md.token)
    BY Zenon DEF ServedOnlyIfAdmitted, Admits
  <2>. QED  BY StageOf, Zenon DEF Serving, LiveOk
<1>. QED  BY <1>1, RpcInitially, RpcStep, PTL DEF RpcSpec

(* context.py, jwt.py: what a servicer reads from its context is its own   *)
(* call's, on any number of reused threads.                                *)
THEOREM AlwaysContextOfTheCall == RpcSpec => []ContextOfTheCall
<1>1. RpcInv => ContextOfTheCall
  <2>. SUFFICES ASSUME RpcInv, NEW c \in Rpcs, Serving(c)
                PROVE  LET read == ContextOf(c)  md == rpcs[c].md
                       IN /\ read.caller = CallerOf(rpcs[c].m, md.token)
                          /\ read.payload # Nobody => read.payload = md.auth /\ md.auth \in {"user", "bot"}
                          /\ read.behalf # Nobody => read.payload = "bot" /\ read.behalf = md.behalf
    BY Zenon DEF ContextOfTheCall, CallerOf
  <2>1. LiveOk(rpcs[c]) /\ rpcs[c].pc = "serving"
    BY StageOf, Zenon DEF Serving
  <2>2. CASE rpcs[c].thread = Nobody
    BY <2>1, <2>2, Zenon DEF LiveOk, OwnContext, ContextOf
  <2>3. CASE rpcs[c].thread # Nobody
    <3>1. PICK t \in PoolThreads : t = rpcs[c].thread /\ OnThread(c, t)
      BY <2>1, <2>3, Zenon DEF LiveOk, OnThread
    <3>2. contexts[t] = [Own EXCEPT !.caller = rpcs[c].caller]
      BY <3>1, Zenon DEF RpcInv, PoolInv
    <3>. QED  BY <2>1, <2>3, <3>1, <3>2, Zenon DEF LiveOk, ContextOf, Own
  <2>. QED  BY <2>2, <2>3, Zenon
<1>. QED  BY <1>1, RpcInitially, RpcStep, PTL DEF RpcSpec

(* handlers.py, calls.py, metrics.py: the caller and the metrics of both   *)
(* sides are told the same end of a call, and an error keeps its side.     *)
THEOREM AlwaysOutcomeIsTold == RpcSpec => []OutcomeIsTold
<1>1. RpcInv => OutcomeIsTold
  BY StageOf, Zenon DEF OutcomeIsTold, EndedOk
<1>. QED  BY <1>1, RpcInitially, RpcStep, PTL DEF RpcSpec

-----------------------------------------------------------------------------
(* The contracts: ContractSync.                                            *)

ToolPcs == {"unstarted", "discard", "discarding", "clone", "install", "compile", "rewrite", "ended"}
ToolResults == {"none", "invalid pin", "override", "override in CI", "exact", "failed", "generated", "killed"}
ToolRecords == [pc : ToolPcs, imports : SUBSET DOMAIN Ships, result : ToolResults]
Modules == [from : {"absent", "exact", "changed"}, imports : [Protos -> {"proto", "own"} \cup DOMAIN Ships]]
Generating(p) == tools[p].pc \in {"compile", "rewrite"}

\* What the two tools and the directories they work on can be.  The output
\* holds modules of the emitted protos only.
ContractType ==
    /\ copy \in {"absent", "exact", "changed"}
    /\ edited \in BOOLEAN /\ overlapped \in BOOLEAN
    /\ tools \in [Tools -> ToolRecords]
    /\ generated = [f \in DOMAIN generated |-> generated[f]] /\ DOMAIN generated \subseteq Emitted
    /\ \A f \in DOMAIN generated : generated[f] \in Modules

\* Only a copy that somebody edited is discarded.
OnlyEditsAreDiscarded ==
    /\ ~edited => copy \in {"absent", "exact"}
    /\ \A p \in Tools : tools[p].pc \in {"discard", "discarding"} => edited

\* Processes start in their order, and only one that has ended has a result.
StartedInTurn ==
    /\ \A p \in Tools : tools[p].pc # "ended" => tools[p].result = "none"
    /\ \A p \in Tools : \A q \in 1..(p - 1) : tools[p].pc # "unstarted" => tools[q].pc # "unstarted"

\* While nothing overlapped, a generation is the last one that began, and
\* what it has compiled is all that is in the output, not yet rewritten.
GenerationAlone ==
    \A p \in Tools : Generating(p) =>
        /\ NotRedefined(tools[p].imports) 
        /\ ~overlapped =>
             \A q \in Tools : q > p => tools[q].result # "generated" /\ ~Generating(q)
        /\ ~overlapped /\ tools[p].pc = "rewrite" =>
             /\ \A f \in DOMAIN generated : \A g \in Protos : generated[f].imports[g] = "proto"
             /\ ~edited => \A f \in DOMAIN generated : generated[f].from = "exact"

ContractInv == ContractType /\ OnlyEditsAreDiscarded /\ StartedInTurn /\ GenerationAlone /\ GeneratedOnce

(* A process that ends keeps what it imports. *)
LEMMA EndedRecord ==
  ASSUME ContractType, NEW p \in Tools, NEW x \in ToolResults, Ends(p, x)
  PROVE  \E r \in ToolRecords : /\ tools' = [tools EXCEPT ![p] = r]
                                /\ r.pc = "ended" /\ r.result = x
<1>1. tools[p] \in ToolRecords
  BY Zenon DEF ContractType
<1>2. [pc |-> "ended", imports |-> tools[p].imports, result |-> x] \in ToolRecords
  BY <1>1, Zenon DEF ToolRecords, ToolPcs
<1>. QED  BY <1>2, Zenon DEF Ends

(* A process that goes on keeps what it imports, and has no new result. *)
LEMMA GoneRecord ==
  ASSUME ContractType, NEW p \in Tools, NEW x \in ToolPcs, Goes(p, x)
  PROVE  \E r \in ToolRecords : /\ tools' = [tools EXCEPT ![p] = r]
                                /\ r.pc = x /\ r.result = tools[p].result /\ r.imports = tools[p].imports
<1>1. tools[p] \in ToolRecords
  BY Zenon DEF ContractType
<1>2. [tools[p] EXCEPT !.pc = x] \in ToolRecords
  BY <1>1, Zenon DEF ToolRecords
<1>3. /\ [tools[p] EXCEPT !.pc = x].pc = x
      /\ [tools[p] EXCEPT !.pc = x].result = tools[p].result /\ [tools[p] EXCEPT !.pc = x].imports = tools[p].imports
  BY <1>1, Zenon DEF ToolRecords
<1>4. tools' = [tools EXCEPT ![p] = [tools[p] EXCEPT !.pc = x]]
  BY Zenon DEF Goes
<1>. QED  BY <1>2, <1>3, <1>4, Zenon

(* What a step of one process, started before or now, leaves of the order  *)
(* in which they start.                                                    *)
LEMMA TurnKept ==
  ASSUME ContractType, StartedInTurn, NEW p \in Tools, tools[p].pc # "unstarted" \/ Startable(p),
         NEW r \in ToolRecords, tools' = [tools EXCEPT ![p] = r], r.pc # "unstarted",
         r.pc # "ended" => r.result = "none"
  PROVE  /\ tools' \in [Tools -> ToolRecords] /\ tools'[p] = r /\ \A q \in Tools \ {p} : tools'[q] = tools[q]
         /\ StartedInTurn'
         /\ \A q \in Tools : tools'[q].pc = "unstarted" => tools[q].pc = "unstarted"
<1>1. tools' \in [Tools -> ToolRecords] /\ tools'[p] = r /\ \A q \in Tools \ {p} : tools'[q] = tools[q]
  BY Zenon DEF ContractType
<1>2. \A q \in Tools : tools'[q].pc = "unstarted" => tools[q].pc = "unstarted"
  BY <1>1, Zenon
<1>3. \A q \in Tools : tools'[q].pc # "ended" => tools'[q].result = "none"
  BY <1>1, Zenon DEF StartedInTurn
<1>4. ASSUME NEW q \in Tools, NEW o \in 1..(q - 1), tools'[q].pc # "unstarted"
      PROVE  tools'[o].pc # "unstarted"
  <2>1. o \in Tools /\ o \in Nat /\ q \in Nat
    BY ContractAssumption DEF Tools
  <2>2. CASE q = p
    <3>1. tools[o].pc # "unstarted"
      BY <1>4, <2>2, Zenon DEF StartedInTurn, Startable
    <3>. QED  BY <1>2, <2>1, <3>1, Zenon
  <2>3. CASE q # p
    <3>1. tools[o].pc # "unstarted"
      BY <1>1, <1>4, <2>3, Zenon DEF StartedInTurn
    <3>. QED  BY <1>2, <2>1, <3>1, Zenon
  <2>. QED  BY <2>2, <2>3, Zenon
<1>. QED  BY <1>1, <1>2, <1>3, <1>4, Zenon DEF StartedInTurn

(* A process that neither generates nor has generated after its step, and  *)
(* leaves the output as it is, disturbs no generation.                     *)
LEMMA ToolStep ==
  ASSUME ContractInv, NEW p \in Tools, tools[p].pc # "unstarted" \/ Startable(p),
         NEW r \in ToolRecords, tools' = [tools EXCEPT ![p] = r],
         r.pc \notin {"unstarted", "compile", "rewrite"}, r.result # "generated",
         r.pc # "ended" => r.result = "none", UNCHANGED <<generated, edited>>, overlapped' \in BOOLEAN, overlapped => overlapped',
         copy' \in {"absent", "exact", "changed"}, ~edited => copy' \in {"absent", "exact"},
         r.pc \in {"discard", "discarding"} => edited
  PROVE  ContractInv'
<1>. USE DEF ContractInv
<1>1. /\ tools' \in [Tools -> ToolRecords] /\ tools'[p] = r /\ \A q \in Tools \ {p} : tools'[q] = tools[q]
      /\ StartedInTurn'
      /\ \A q \in Tools : tools'[q].pc = "unstarted" => tools[q].pc = "unstarted"
  BY TurnKept, Zenon
<1>2. ContractType'
  BY <1>1, Zenon DEF ContractType, Emitted, Modules, Protos
<1>3. OnlyEditsAreDiscarded'
  BY <1>1, Zenon DEF OnlyEditsAreDiscarded
<1>4. GenerationAlone'
  <2>. SUFFICES ASSUME NEW q \in Tools, Generating(q)'
                PROVE  /\ NotRedefined(tools[q].imports)'
                       /\ ~overlapped' => \A o \in Tools : o > q => tools'[o].result # "generated" /\ ~Generating(o)'
                       /\ ~overlapped' /\ tools'[q].pc = "rewrite" =>
                            /\ \A f \in DOMAIN generated' : \A g \in Protos : generated'[f].imports[g] = "proto"
                            /\ ~edited' => \A f \in DOMAIN generated' : generated'[f].from = "exact"
    BY Zenon DEF GenerationAlone, Protos, Emitted
  <2>1. q # p /\ tools'[q] = tools[q] /\ Generating(q)
    BY <1>1, Zenon DEF Generating
  <2>2. \A o \in Tools : /\ tools'[o].result = "generated" => tools[o].result = "generated"
                         /\ Generating(o)' => Generating(o)
    BY <1>1, Zenon DEF Generating
  <2>. QED  BY <2>1, <2>2, Zenon DEF GenerationAlone, NotRedefined, Emitted
<1>5. GeneratedOnce'
  <2>. SUFFICES ASSUME NEW q \in Tools, LastGeneration(q)', ~overlapped', ~edited'
                PROVE  \A f \in DOMAIN generated' :
                         /\ generated'[f].from = "exact"
                         /\ \A a \in tools'[q].imports : f \notin Ships[a]
                         /\ \A a \in tools'[q].imports : \A g \in Ships[a] : generated'[f].imports[g] = a
    BY Zenon DEF GeneratedOnce
  <2>1. q # p /\ tools'[q] = tools[q]
    BY <1>1, Zenon DEF LastGeneration
  <2>2. (q + 1)..MaxTools \subseteq Tools
    BY ContractAssumption DEF Tools
  <2>3. LastGeneration(q)
    BY <1>1, <2>1, <2>2, Zenon DEF LastGeneration
  <2>. QED  BY <2>1, <2>3 DEF GeneratedOnce
<1>. QED  BY <1>1, <1>2, <1>3, <1>4, <1>5, Zenon

(* A process that ends without having generated. *)
LEMMA EndStep ==
  ASSUME ContractInv, NEW p \in Tools, tools[p].pc # "unstarted" \/ Startable(p),
         NEW x \in ToolResults \ {"generated"}, Ends(p, x),
         UNCHANGED <<generated, edited>>, overlapped' \in BOOLEAN, overlapped => overlapped',
         copy' \in {"absent", "exact", "changed"}, ~edited => copy' \in {"absent", "exact"}
  PROVE  ContractInv'
<1>1. PICK r \in ToolRecords : tools' = [tools EXCEPT ![p] = r] /\ r.pc = "ended" /\ r.result = x
  BY EndedRecord DEF ContractInv
<1>. QED  BY <1>1, ToolStep, Zenon

(* A process of lp-sync-contract that goes on. *)
LEMMA GoStep ==
  ASSUME ContractInv, NEW p \in Tools, tools[p].pc # "unstarted" \/ Startable(p), tools[p].pc # "ended",
         NEW x \in {"discard", "discarding", "clone", "install"}, Goes(p, x),
         UNCHANGED <<generated, edited, overlapped>>,
         copy' \in {"absent", "exact", "changed"}, ~edited => copy' \in {"absent", "exact"},
         x \in {"discard", "discarding"} => edited
  PROVE  ContractInv'
<1>1. PICK r \in ToolRecords : tools' = [tools EXCEPT ![p] = r] /\ r.pc = x /\ r.result = tools[p].result
  BY GoneRecord DEF ContractInv, ToolPcs
<1>2. r.result = "none" /\ overlapped' \in BOOLEAN
  BY <1>1, Zenon DEF ContractInv, StartedInTurn, ContractType
<1>. QED  BY <1>1, <1>2, ToolStep, Zenon

(* The steps of lp-sync-contract, and a kill. *)
LEMMA SyncSteps ==
  ASSUME ContractInv, NEW p \in Tools, Sync(p) \/ Discard(p) \/ Discarded(p) \/ Clone(p) \/ Install(p) \/ Kill(p)
  PROVE  ContractInv'
<1>0. /\ copy \in {"absent", "exact", "changed"} /\ overlapped \in BOOLEAN
      /\ ~edited => copy \in {"absent", "exact"} 
      /\ tools[p].pc \in {"discard", "discarding"} => edited
      /\ tools[p].pc # "install other"
  BY Zenon DEF ContractInv, ContractType, OnlyEditsAreDiscarded, ToolRecords, ToolPcs
<1>1. CASE Sync(p)
  <2>1. UNCHANGED <<generated, overlapped, copy, edited>> /\ Startable(p) /\ tools[p].pc # "ended"
    BY <1>1, Zenon DEF Sync, KeepOutput, Startable
  <2>2. \/ \E x \in {"invalid pin", "override", "override in CI", "exact"} : Ends(p, x)
        \/ copy = "absent" /\ Goes(p, "clone")
        \/ copy = "changed" /\ Goes(p, "discard")
    BY <1>0, <1>1, Zenon DEF Sync, ReadPins, OverrideDir, IsIntact
  <2>. QED  BY <1>0, <2>1, <2>2, EndStep, GoStep, Zenon DEF ToolResults
<1>2. CASE Discard(p)
  <2>1. UNCHANGED <<generated, overlapped, edited>> /\ tools[p].pc = "discard"
    BY <1>2, Zenon DEF Discard, KeepOutput, At
  <2>2. \/ Ends(p, "failed") /\ copy' = copy
        \/ Goes(p, "discarding") /\ copy' = "changed"
    BY <1>2, Zenon DEF Discard
  <2>. QED  BY <1>0, <2>1, <2>2, EndStep, GoStep, Zenon DEF ToolResults
<1>3. CASE Discarded(p)
  <2>1. UNCHANGED <<generated, overlapped, edited>> /\ tools[p].pc = "discarding"
    BY <1>3, Zenon DEF Discarded, KeepOutput, At
  <2>2. \/ Ends(p, "failed") /\ copy' = copy
        \/ Goes(p, "clone") /\ copy' = "absent"
    BY <1>3, Zenon DEF Discarded
  <2>. QED  BY <1>0, <2>1, <2>2, EndStep, GoStep, Zenon DEF ToolResults
<1>4. CASE Clone(p)
  <2>1. UNCHANGED <<generated, overlapped, copy, edited>> /\ tools[p].pc = "clone"
    BY <1>4, Zenon DEF Clone, KeepOutput, At
  <2>2. Ends(p, "failed") \/ Goes(p, "install")
    BY <1>4, Zenon DEF Clone
  <2>. QED  BY <1>0, <2>1, <2>2, EndStep, GoStep, Zenon DEF ToolResults
<1>5. CASE Install(p)
  <2>1. UNCHANGED <<generated, overlapped, edited>> /\ tools[p].pc = "install"
    BY <1>0, <1>5, Zenon DEF Install, KeepOutput
  <2>2. \/ Ends(p, "failed") /\ copy' = copy
        \/ Ends(p, "exact") /\ copy' = "exact"
    BY <1>5, <2>1, Zenon DEF Install, At, Ends
  <2>. QED  BY <1>0, <2>1, <2>2, EndStep, Zenon DEF ToolResults
<1>6. CASE Kill(p)
  <2>1. UNCHANGED <<generated, overlapped, copy, edited>> /\ tools[p].pc # "unstarted" /\ Ends(p, "killed")
    BY <1>6, Zenon DEF Kill, KeepOutput
  <2>. QED  BY <1>0, <2>1, EndStep, Zenon DEF ToolResults
<1>. QED  BY <1>1, <1>2, <1>3, <1>4, <1>5, <1>6, Zenon

(* The output is cleaned, and what runs beside it is seen. *)
LEMMA GenerateStep ==
  ASSUME ContractInv, NEW p \in Tools, GenerateTarget(p)
  PROVE  ContractInv'
<1>0. /\ copy \in {"absent", "exact", "changed"} /\ overlapped \in BOOLEAN
      /\ ~edited => copy \in {"absent", "exact"} 
  BY Zenon DEF ContractInv, ContractType, OnlyEditsAreDiscarded
<1>1. /\ Startable(p) /\ UNCHANGED <<copy, edited>>
      /\ overlapped' = (overlapped \/ \E q \in Tools : Generating(q))
  BY Zenon DEF GenerateTarget, Generating
<1>2. overlapped' \in BOOLEAN /\ (overlapped => overlapped')
  BY <1>0, <1>1, Zenon
<1>3. CASE BadTarget(p)
  BY <1>0, <1>1, <1>2, <1>3, EndStep, Zenon DEF BadTarget, ToolResults
<1>4. ASSUME NEW packages \in SUBSET Imports, Resolvable(packages),
             \/ CleanOutput(p, packages, "ended", "failed")
             \/ NotRedefined(packages) /\ CleanOutput(p, packages, "compile", "none")
      PROVE  ContractInv'
  <2>1. PICK r \in ToolRecords : /\ tools' = [tools EXCEPT ![p] = r] /\ r.imports = packages
                                 /\ \/ r.pc = "ended" /\ r.result = "failed"
                                    \/ r.pc = "compile" /\ r.result = "none" /\ NotRedefined(packages)
    <3>1. /\ [pc |-> "ended", imports |-> packages, result |-> "failed"] \in ToolRecords
          /\ [pc |-> "compile", imports |-> packages, result |-> "none"] \in ToolRecords
      BY <1>4, Zenon DEF Resolvable, ToolRecords, ToolPcs, ToolResults
    <3>. QED  BY <1>4, <3>1, Zenon DEF CleanOutput
  <2>2. generated' = Nothing /\ DOMAIN Nothing = {} /\ Nothing = [f \in DOMAIN Nothing |-> Nothing[f]]
    BY <1>4, Zenon DEF CleanOutput, Nothing
  <2>3. /\ tools' \in [Tools -> ToolRecords] /\ tools'[p] = r /\ \A q \in Tools \ {p} : tools'[q] = tools[q]
        /\ StartedInTurn'
        /\ \A q \in Tools : tools'[q].pc = "unstarted" => tools[q].pc = "unstarted"
    BY <1>1, <2>1, TurnKept, Zenon DEF ContractInv
  <2>4. ContractType'
    <3>1. /\ generated' = [f \in DOMAIN generated' |-> generated'[f]] /\ DOMAIN generated' \subseteq Emitted'
          /\ \A f \in DOMAIN generated' : generated'[f] \in Modules'
      BY <2>2, Zenon
    <3>2. copy' \in {"absent", "exact", "changed"} /\ edited' \in BOOLEAN
      BY <1>0, <1>1, Zenon DEF ContractInv, ContractType
    <3>. QED  BY <1>2, <2>3, <3>1, <3>2, Zenon DEF ContractType
  <2>5. OnlyEditsAreDiscarded'
    BY <1>1, <2>1, <2>3, Zenon DEF ContractInv, OnlyEditsAreDiscarded
  <2>6. GenerationAlone'
    <3>. SUFFICES ASSUME NEW q \in Tools, Generating(q)'
                  PROVE  /\ NotRedefined(tools[q].imports)'
                         /\ ~overlapped' => \A o \in Tools : o > q => tools'[o].result # "generated" /\ ~Generating(o)'
                         /\ ~overlapped' /\ tools'[q].pc = "rewrite" =>
                              /\ \A f \in DOMAIN generated' : \A g \in Protos : generated'[f].imports[g] = "proto"
                              /\ ~edited' => \A f \in DOMAIN generated' : generated'[f].from = "exact"
      BY Zenon DEF GenerationAlone, Protos, Emitted
    <3>1. CASE q = p
      <4>1. NotRedefined(tools[q].imports)' /\ tools'[q].pc = "compile"
        BY <2>1, <2>3, <3>1, Zenon DEF Generating, NotRedefined, Emitted
      <4>2. ASSUME NEW o \in Tools, o > q PROVE tools'[o].result # "generated" /\ (~overlapped' => ~Generating(o)')
        <5>1. o # p /\ q \in 1..(o - 1)
          BY <3>1, <4>2 DEF Tools
        <5>2. tools[o].pc = "unstarted"
          BY <1>1, <3>1, <5>1, Zenon DEF ContractInv, StartedInTurn, Startable
        <5>. QED  BY <2>3, <5>1, <5>2, Zenon DEF ContractInv, StartedInTurn, Generating
      <4>. QED  BY <4>1, <4>2, Zenon
    <3>2. CASE q # p
      <4>1. tools'[q] = tools[q] /\ Generating(q) /\ overlapped'
        BY <1>1, <2>3, <3>2, Zenon DEF Generating
      <4>. QED  BY <4>1, Zenon DEF ContractInv, GenerationAlone, NotRedefined, Emitted
    <3>. QED  BY <3>1, <3>2, Zenon
  <2>7. GeneratedOnce'
    BY <2>2, Zenon DEF GeneratedOnce
  <2>. QED  BY <2>3, <2>4, <2>5, <2>6, <2>7, Zenon DEF ContractInv
<1>5. \/ BadTarget(p)
      \/ \E packages \in SUBSET Imports :
           /\ Resolvable(packages)
           /\ \/ CleanOutput(p, packages, "ended", "failed")
              \/ NotRedefined(packages) /\ CleanOutput(p, packages, "compile", "none")
  BY Zenon DEF GenerateTarget
<1>. QED  BY <1>3, <1>4, <1>5, Zenon

(* One generation at a time: whoever runs beside p has neither generated   *)
(* last nor is generating, while nothing overlapped.                       *)
LEMMA AloneWith ==
  ASSUME ContractInv, NEW p \in Tools, Generating(p), ~overlapped, NEW q \in Tools, q # p
  PROVE  ~Generating(q) /\ ~LastGeneration(q)
<1>. p \in Nat /\ q \in Nat /\ p <= MaxTools
  BY ContractAssumption DEF Tools
<1>1. CASE q > p
  BY <1>1, Zenon DEF ContractInv, GenerationAlone, LastGeneration
<1>2. CASE q < p
  <2>1. ~Generating(q)
    BY <1>2, Zenon DEF ContractInv, GenerationAlone
  <2>2. p \in (q + 1)..MaxTools /\ tools[p].pc # "unstarted"
    BY <1>2, ContractAssumption DEF Generating
  <2>. QED  BY <2>1, <2>2, Zenon DEF LastGeneration
<1>. QED  BY <1>1, <1>2

(* protoc ran, whole or in part. *)
LEMMA CompileStep ==
  ASSUME ContractInv, NEW p \in Tools, Compile(p)
  PROVE  ContractInv'
<1>. USE DEF ContractInv
<1>0. /\ copy \in {"absent", "exact", "changed"} /\ (~edited => copy \in {"absent", "exact"})
      /\ tools[p].pc = "compile" /\ Generating(p) /\ UNCHANGED <<copy, edited, overlapped>>
  BY Zenon DEF ContractType, OnlyEditsAreDiscarded, Compile, At, Generating
<1>1. Module \in Modules /\ Module.from = copy /\ \A g \in Protos : Module.imports[g] = "proto"
  <2>1. [g \in Protos |-> "proto"] \in [Protos -> {"proto", "own"} \cup DOMAIN Ships]
    BY Zenon
  <2>. QED  BY <1>0, <2>1, Zenon DEF Module, Modules
<1>2. PICK r \in ToolRecords :
         /\ tools' = [tools EXCEPT ![p] = r]
         /\ \/ r.pc = "ended" /\ r.result = "failed"
            \/ /\ r.pc = "rewrite" /\ r.result = "none" /\ r.imports = tools[p].imports
               /\ copy # "absent" /\ generated' = [f \in Emitted |-> Module]
  <2>1. CASE Ends(p, "failed")
    BY <2>1, EndedRecord, ZenonT(40) DEF ToolResults
  <2>2. CASE copy # "absent" /\ Goes(p, "rewrite") /\ generated' = [f \in Emitted |-> Module]
    <3>1. PICK r \in ToolRecords : /\ tools' = [tools EXCEPT ![p] = r]
                                   /\ r.pc = "rewrite" /\ r.result = tools[p].result /\ r.imports = tools[p].imports
      BY <2>2, GoneRecord, Zenon DEF ToolPcs
    <3>2. tools[p].result = "none"
      BY <1>0, Zenon DEF StartedInTurn
    <3>. QED  BY <2>2, <3>1, <3>2, Zenon
  <2>. QED  BY <2>1, <2>2, Zenon DEF Compile
<1>3. PICK some \in SUBSET Emitted :
         generated' = [f \in some \cup DOMAIN generated |-> IF f \in some THEN Module ELSE generated[f]]
  <2>1. CASE generated' = [f \in Emitted |-> Module]
    <3>1. DOMAIN generated \subseteq Emitted
      BY Zenon DEF ContractType
    <3>2. Emitted \cup DOMAIN generated = Emitted
      BY <3>1, Zenon
    <3>3. generated' = [f \in Emitted \cup DOMAIN generated |-> IF f \in Emitted THEN Module ELSE generated[f]]
      BY <2>1, <3>2, Zenon
    <3>. QED  BY <3>3, Zenon
  <2>2. CASE \E some \in IF copy = "absent" THEN {{}} ELSE SUBSET Emitted :
               generated' = [f \in some \cup DOMAIN generated |-> IF f \in some THEN Module ELSE generated[f]]
    BY <2>2, Zenon
  <2>. QED  BY <2>1, <2>2, Zenon DEF Compile
<1>4. /\ tools' \in [Tools -> ToolRecords] /\ tools'[p] = r /\ \A q \in Tools \ {p} : tools'[q] = tools[q]
      /\ StartedInTurn'
      /\ \A q \in Tools : tools'[q].pc = "unstarted" => tools[q].pc = "unstarted"
  BY <1>0, <1>2, TurnKept, Zenon
<1>5. ContractType'
  <2>1. /\ generated' = [f \in DOMAIN generated' |-> generated'[f]] /\ DOMAIN generated' = some \cup DOMAIN generated
    BY <1>3, Zenon
  <2>2. DOMAIN generated' \subseteq Emitted
    BY <2>1, Zenon DEF ContractType
  <2>3. \A f \in DOMAIN generated' : generated'[f] \in Modules
    BY <1>1, <1>3, <2>1, Zenon DEF ContractType
  <2>. QED  BY <1>0, <1>4, <2>1, <2>2, <2>3, Zenon DEF ContractType, Emitted, Modules, Protos
<1>6. OnlyEditsAreDiscarded'
  BY <1>0, <1>2, <1>4, Zenon DEF OnlyEditsAreDiscarded
<1>7. GenerationAlone'
  <2>. SUFFICES ASSUME NEW q \in Tools, Generating(q)'
                PROVE  /\ NotRedefined(tools[q].imports)'
                       /\ ~overlapped' => \A o \in Tools : o > q => tools'[o].result # "generated" /\ ~Generating(o)'
                       /\ ~overlapped' /\ tools'[q].pc = "rewrite" =>
                            /\ \A f \in DOMAIN generated' : \A g \in Protos : generated'[f].imports[g] = "proto"
                            /\ ~edited' => \A f \in DOMAIN generated' : generated'[f].from = "exact"
    BY Zenon DEF GenerationAlone, Protos, Emitted
  <2>1. CASE q = p
    <3>1. /\ r.pc = "rewrite" /\ r.imports = tools[p].imports /\ copy # "absent"
          /\ generated' = [f \in Emitted |-> Module]
      BY <1>2, <1>4, <2>1, Zenon DEF Generating
    <3>2. NotRedefined(tools[q].imports)'
      BY <1>0, <1>4, <2>1, <3>1, Zenon DEF GenerationAlone, NotRedefined, Emitted
    <3>3. ~overlapped' => \A o \in Tools : o > q => tools'[o].result # "generated" /\ ~Generating(o)'
      BY <1>0, <1>4, <2>1, Zenon DEF GenerationAlone, Generating, Tools
    <3>4. \A f \in DOMAIN generated' : /\ \A g \in Protos : generated'[f].imports[g] = "proto"
                                       /\ ~edited => generated'[f].from = "exact"
      BY <1>0, <1>1, <3>1, Zenon
    <3>. QED  BY <1>0, <3>2, <3>3, <3>4, Zenon
  <2>2. CASE q # p
    <3>1. tools'[q] = tools[q] /\ Generating(q)
      BY <1>4, <2>2, Zenon DEF Generating
    <3>2. overlapped'
      BY <1>0, <2>2, <3>1, AloneWith, Zenon
    <3>. QED  BY <3>1, <3>2, Zenon DEF GenerationAlone, NotRedefined, Emitted
  <2>. QED  BY <2>1, <2>2, Zenon
<1>8. GeneratedOnce'
  <2>. SUFFICES ASSUME NEW q \in Tools, LastGeneration(q)', ~overlapped'  PROVE FALSE
    BY Zenon DEF GeneratedOnce
  <2>1. q # p /\ tools'[q] = tools[q]
    BY <1>2, <1>4, Zenon DEF LastGeneration
  <2>2. (q + 1)..MaxTools \subseteq Tools
    BY ContractAssumption DEF Tools
  <2>3. LastGeneration(q)
    BY <1>4, <2>1, <2>2, Zenon DEF LastGeneration
  <2>. QED  BY <1>0, <2>1, <2>3, AloneWith, Zenon
<1>. QED  BY <1>4, <1>5, <1>6, <1>7, <1>8, Zenon

(* Imports move to the one package that ships the proto. *)
LEMMA RewriteStep ==
  ASSUME ContractInv, NEW p \in Tools, Rewrite(p)
  PROVE  ContractInv'
<1>0. /\ copy \in {"absent", "exact", "changed"} /\ (~edited => copy \in {"absent", "exact"})
      /\ tools[p].pc = "rewrite" /\ Generating(p) /\ UNCHANGED <<copy, edited, overlapped>>
      /\ overlapped \in BOOLEAN /\ tools[p] \in ToolRecords
  BY Zenon DEF ContractInv, ContractType, OnlyEditsAreDiscarded, Rewrite, At, Generating
<1>1. CASE ~OneOwner(tools[p].imports)
  <2>1. Ends(p, "failed") /\ UNCHANGED generated
    BY <1>1, Zenon DEF Rewrite
  <2>. QED  BY <1>0, <2>1, EndStep, Zenon DEF ToolResults
<1>2. CASE OneOwner(tools[p].imports)
  <2>1. PICK r \in ToolRecords : tools' = [tools EXCEPT ![p] = r] /\ r.pc = "ended" /\ r.result = "generated"
                                 /\ r.imports = tools[p].imports
    <3>1. [pc |-> "ended", imports |-> tools[p].imports, result |-> "generated"] \in ToolRecords
      BY <1>0, Zenon DEF ToolRecords, ToolPcs, ToolResults
    <3>. QED  BY <1>2, <3>1, Zenon DEF Rewrite, Ends
  <2>2. /\ tools' \in [Tools -> ToolRecords] /\ tools'[p] = r /\ \A q \in Tools \ {p} : tools'[q] = tools[q]
        /\ StartedInTurn'
        /\ \A q \in Tools : tools'[q].pc = "unstarted" => tools[q].pc = "unstarted"
    BY <1>0, <2>1, TurnKept, Zenon DEF ContractInv
  <2>3. PICK packages \in SUBSET DOMAIN Ships : packages = tools[p].imports
    BY <1>0, Zenon DEF ToolRecords
  <2>4. generated' = [f \in DOMAIN generated |->
                        [generated[f] EXCEPT !.imports = Rewritten(generated[f].imports, packages)]]
    BY <1>2, <2>3, Zenon DEF Rewrite
  <2>5. ASSUME NEW m \in Modules
        PROVE  /\ [m EXCEPT !.imports = Rewritten(m.imports, packages)] \in Modules
               /\ [m EXCEPT !.imports = Rewritten(m.imports, packages)].from = m.from
               /\ [m EXCEPT !.imports = Rewritten(m.imports, packages)].imports = Rewritten(m.imports, packages)
    <3>1. \A g \in Protos : Owner(packages, g) \in {"own"} \cup DOMAIN Ships
      BY Zenon DEF Owner
    <3>2. m.imports \in [Protos -> {"proto", "own"} \cup DOMAIN Ships]
      BY Zenon DEF Modules
    <3>3. Rewritten(m.imports, packages) \in [Protos -> {"proto", "own"} \cup DOMAIN Ships]
      BY <3>1, <3>2, Zenon DEF Rewritten
    <3>4. \A x \in [Protos -> {"proto", "own"} \cup DOMAIN Ships] :
            /\ [m EXCEPT !.imports = x] \in Modules
            /\ [m EXCEPT !.imports = x].from = m.from /\ [m EXCEPT !.imports = x].imports = x
      BY Zenon DEF Modules
    <3>. QED  BY <3>3, <3>4, Zenon
  <2>6. /\ DOMAIN generated' = DOMAIN generated /\ DOMAIN generated \subseteq Emitted
        /\ generated' = [f \in DOMAIN generated' |-> generated'[f]]
        /\ \A f \in DOMAIN generated : generated[f] \in Modules
    BY <2>4, Zenon DEF ContractInv, ContractType
  <2>7. \A f \in DOMAIN generated :
           /\ generated'[f] \in Modules /\ generated'[f].from = generated[f].from
           /\ generated'[f].imports = Rewritten(generated[f].imports, packages)
    BY <2>4, <2>5, <2>6, Zenon
  <2>8. ContractType'
    <3>1. edited' \in BOOLEAN
      BY <1>0, Zenon DEF ContractInv, ContractType
    <3>. QED  BY <1>0, <2>2, <2>6, <2>7, <3>1, Zenon DEF ContractType, Emitted, Modules, Protos
  <2>9. OnlyEditsAreDiscarded'
    BY <1>0, <2>1, <2>2, Zenon DEF ContractInv, OnlyEditsAreDiscarded
  <2>10. GenerationAlone'
    <3>. SUFFICES ASSUME NEW q \in Tools, Generating(q)'
                  PROVE  NotRedefined(tools[q].imports)' /\ overlapped'
      BY Zenon DEF GenerationAlone
    <3>1. q # p /\ tools'[q] = tools[q] /\ Generating(q)
      BY <2>1, <2>2, Zenon DEF Generating
    <3>2. overlapped'
      BY <1>0, <3>1, AloneWith, Zenon
    <3>. QED  BY <3>1, <3>2, Zenon DEF ContractInv, GenerationAlone, NotRedefined, Emitted
  <2>11. GeneratedOnce'
    <3>. SUFFICES ASSUME NEW q \in Tools, LastGeneration(q)', ~overlapped', ~edited', NEW f \in DOMAIN generated'
                  PROVE  /\ generated'[f].from = "exact"
                         /\ \A a \in tools'[q].imports : f \notin Ships[a]
                         /\ \A a \in tools'[q].imports : \A g \in Ships[a] : generated'[f].imports[g] = a
      BY Zenon DEF GeneratedOnce
    <3>1. CASE q = p
      <4>1. tools'[q].imports = packages /\ f \in DOMAIN generated /\ f \in Emitted
        BY <2>1, <2>2, <2>3, <2>6, <3>1, Zenon
      <4>2. /\ generated[f].from = "exact" /\ NotRedefined(packages)
            /\ \A g \in Protos : generated[f].imports[g] = "proto"
        BY <1>0, <2>3, <4>1, Zenon DEF ContractInv, GenerationAlone
      <4>3. ASSUME NEW a \in packages, NEW g \in Ships[a] PROVE generated'[f].imports[g] = a
        <5>1. g \in Protos
          BY Zenon DEF Protos
        <5>2. generated'[f].imports[g] = Owner(packages, g)
          BY <2>7, <4>1, <4>2, <5>1, Zenon DEF Rewritten
        <5>3. \A b \in packages : g \in Ships[b] => b = a
          BY <1>2, <2>3, Zenon DEF OneOwner
        <5>4. Owner(packages, g) = a
          BY <5>3, Zenon DEF Owner
        <5>. QED  BY <5>2, <5>4, Zenon
      <4>4. \A a \in packages : f \notin Ships[a]
        BY <4>1, <4>2, Zenon DEF NotRedefined
      <4>. QED  BY <2>7, <4>1, <4>2, <4>3, <4>4, Zenon
    <3>2. CASE q # p
      <4>1. (q + 1)..MaxTools \subseteq Tools
        BY ContractAssumption DEF Tools
      <4>2. LastGeneration(q)
        BY <2>2, <3>2, <4>1, Zenon DEF LastGeneration
      <4>. QED  BY <1>0, <3>2, <4>2, AloneWith, Zenon
    <3>. QED  BY <3>1, <3>2, Zenon
  <2>. QED  BY <2>2, <2>8, <2>9, <2>10, <2>11, Zenon DEF ContractInv
<1>. QED  BY <1>1, <1>2, Zenon

(* Every step keeps the invariant of the contracts. *)
LEMMA ContractStep == ContractInv /\ [ContractNext]_contractVars => ContractInv'
<1>. SUFFICES ASSUME ContractInv, [ContractNext]_contractVars PROVE ContractInv'
  BY Zenon
<1>1. ASSUME MoveTag \/ Edit \/ UNCHANGED contractVars PROVE ContractInv'
  <2>1. /\ UNCHANGED <<tools, generated, overlapped>> /\ edited' \in BOOLEAN /\ (edited => edited')
        /\ copy' \in {"absent", "exact", "changed"} /\ (~edited' => copy' = copy)
    BY <1>1, Zenon DEF MoveTag, Edit, contractVars, KeepOutput, ContractInv, ContractType
  <2>2. ContractType'
    BY <2>1, Zenon DEF ContractInv, ContractType, Emitted, Modules, Protos
  <2>3. OnlyEditsAreDiscarded'
    BY <2>1, Zenon DEF ContractInv, OnlyEditsAreDiscarded
  <2>4. StartedInTurn'
    BY <2>1, Zenon DEF ContractInv, StartedInTurn
  <2>5. GenerationAlone'
    BY <2>1, Zenon DEF ContractInv, GenerationAlone, Generating, NotRedefined, Emitted, Protos
  <2>6. GeneratedOnce'
    BY <2>1 DEF ContractInv, GeneratedOnce, LastGeneration
  <2>. QED  BY <2>2, <2>3, <2>4, <2>5, <2>6, Zenon DEF ContractInv
<1>. QED  BY <1>1, SyncSteps, GenerateStep, CompileStep, RewriteStep, Zenon DEF ContractNext

(* No process has started yet. *)
LEMMA ContractStart == ContractInit => ContractInv
<1>. SUFFICES ASSUME ContractInit PROVE ContractInv
  BY Zenon
<1>1. Unstarted \in ToolRecords /\ tools = [p \in Tools |-> Unstarted]
  BY Zenon DEF ContractInit, Unstarted, ToolRecords, ToolPcs, ToolResults
<1>2. \A p \in Tools : tools[p].pc = "unstarted" /\ tools[p].result = "none"
  BY <1>1, Zenon DEF Unstarted
<1>3. DOMAIN generated = {} /\ generated = [f \in DOMAIN generated |-> generated[f]]
  BY Zenon DEF ContractInit, Nothing
<1>4. ContractType
  BY <1>1, <1>3, Zenon DEF ContractInit, ContractType
<1>5. OnlyEditsAreDiscarded /\ GenerationAlone /\ GeneratedOnce
  BY <1>2, Zenon DEF ContractInit, OnlyEditsAreDiscarded, GenerationAlone, Generating, GeneratedOnce, LastGeneration
<1>6. StartedInTurn
  <2>1. \A p \in Tools : \A q \in 1..(p - 1) : tools[p].pc # "unstarted" => tools[q].pc # "unstarted"
    BY <1>2, Zenon
  <2>. QED  BY <1>2, <2>1, Zenon DEF StartedInTurn
<1>. QED  BY <1>4, <1>5, <1>6, Zenon DEF ContractInv

(* For any number of processes and protos: a copy that nobody edited is    *)
(* the pinned commit, whichever syncs were killed, overlapped or met a     *)
(* moved tag; and a generation that nothing ran beside leaves code of that *)
(* commit only, with one owner for every proto.                            *)
THEOREM AlwaysBuiltFromThePin == ContractSpec => []BuiltFromThePin
<1>1. ContractInv => BuiltFromThePin
  <2>1. ContractInv => CopyIsThePin
    BY Zenon DEF ContractInv, ContractType, OnlyEditsAreDiscarded, CopyIsThePin, ToolRecords, ToolResults
  <2>. QED  BY <2>1, Zenon DEF ContractInv, BuiltFromThePin
<1>. QED  BY <1>1, ContractStart, ContractStep, PTL DEF ContractSpec

-----------------------------------------------------------------------------
(* Conditional requests: ConditionalGet.                                   *)

\* A route that the middleware tags and that leaves the policy to it.
TaggedRoute == ~Passthrough /\ route.policy = "none" /\ ~route.empty

\* The body a request ends with: its reader's own view, no older than it.
CurrentBody(r, body) == \E v \in r.since..resource : body = <<r.by, v>>

\* What a request knows at each step.  It carries one validator at most, so
\* a 304 can stand for no other body than the one that was rendered.
RequestOk(r) ==
    /\ r.pc # "idle" => r.since \in Nat /\ r.since <= resource
    /\ r.pc \in {"asked", "streaming"} => \A x, y \in r.match : x = y
    /\ r.pc = "streaming" => ~r.sent /\ CurrentBody(r, r.body)
    /\ r.pc = "ended" => r.status # 0 /\ (r.status # 500 => CurrentBody(r, r.got))

\* On such a route every copy on the way is private and must be revalidated.
GetInv ==
    /\ resource \in Nat
    /\ gets = [g \in Gets |-> gets[g]]
    /\ TaggedRoute =>
         /\ \A c \in Readers : copies[c].body # NoBody => copies[c].policy = "private, no-cache"
         /\ \A g \in Gets : RequestOk(gets[g])

(* A request takes a step, and the others stay as they are. *)
LEMMA GetMoves ==
  ASSUME GetInv, NEW g \in Gets, NEW r, GetBecomes(g, r), UNCHANGED <<route, resource>>,
         TaggedRoute => RequestOk(r),
         TaggedRoute => \A c \in Readers : copies'[c].body # NoBody => copies'[c].policy = "private, no-cache"
  PROVE  GetInv'
<1>1. gets' = [gets EXCEPT ![g] = r]
  BY Zenon DEF GetBecomes
<1>2. gets' = [h \in Gets |-> gets'[h]] /\ gets'[g] = r /\ \A h \in Gets \ {g} : gets'[h] = gets[h]
  BY <1>1, Zenon DEF GetInv
<1>3. TaggedRoute' = TaggedRoute /\ \A x : RequestOk(x)' = RequestOk(x)
  BY ZenonT(40) DEF TaggedRoute, Passthrough, RequestOk, CurrentBody
<1>4. TaggedRoute => \A h \in Gets : RequestOk(gets'[h])
  BY <1>2, Zenon DEF GetInv
<1>5. resource' \in Nat
  BY Zenon DEF GetInv
<1>. QED  BY <1>2, <1>3, <1>4, <1>5, Zenon DEF GetInv

(* A reader asks: no copy on the way answers by itself. *)
LEMMA AskStep ==
  ASSUME GetInv, NEW g \in Gets, NEW c \in Readers, Ask(g, c)
  PROVE  GetInv'
<1>0. UNCHANGED <<route, resource, copies>> /\ resource \in Nat
  BY Zenon DEF Ask, GetInv
<1>1. CASE MayReuse(copies[c]) /\ \E x : GetBecomes(g, x) 
  <2>1. ~TaggedRoute
    BY <1>1, Zenon DEF MayReuse, GetInv
  <2>2. PICK x : GetBecomes(g, x)
    BY <1>1, Zenon
  <2>. QED  BY <1>0, <2>1, <2>2, GetMoves, Zenon
<1>2. ASSUME NEW match, match = {IF kept[c] # NoBody THEN kept[c] ELSE copies[c].body} \ {NoBody},
             GetBecomes(g, [pc |-> "asked", by |-> c, since |-> resource, match |-> match])
      PROVE  GetInv'
  <2>1. PICK r : r = [pc |-> "asked", by |-> c, since |-> resource, match |-> match]
    BY Zenon
  <2>2. r.pc = "asked" /\ r.since = resource /\ r.match = match
    BY <2>1, Zenon
  <2>3. \A x, y \in match : x = y
    BY <1>2, Zenon
  <2>4. RequestOk(r)
    BY <1>0, <2>2, <2>3 DEF RequestOk
  <2>. QED  BY <1>0, <1>2, <2>1, <2>4, GetMoves, Zenon DEF GetInv
<1>. QED  BY <1>1, <1>2, Zenon DEF Ask

(* The body is rendered from the resource as it is now. *)
LEMMA RenderStep ==
  ASSUME GetInv, NEW g \in Gets, Render(g)
  PROVE  GetInv'
<1>0. UNCHANGED <<route, resource, copies>> /\ resource \in Nat /\ gets[g].pc = "asked"
  BY Zenon DEF Render, GetInv
<1>1. PICK q : q = gets[g]
  BY Zenon
<1>2. PICK r : r = [pc |-> "streaming", by |-> q.by, since |-> q.since, match |-> q.match, sent |-> Passthrough,
                    body |-> IF route.empty THEN NoBody ELSE <<q.by, resource>>]
  BY Zenon
<1>3. GetBecomes(g, r)
  BY <1>1, <1>2, Zenon DEF Render
<1>4. /\ r.pc = "streaming" /\ r.by = q.by /\ r.since = q.since /\ r.match = q.match
      /\ r.body = IF route.empty THEN NoBody ELSE <<q.by, resource>>
  BY <1>2, Zenon
<1>5. r.sent = Passthrough
  BY <1>2, Zenon
<1>6. TaggedRoute => RequestOk(r)
  <2>. SUFFICES ASSUME TaggedRoute PROVE RequestOk(r)
    BY Zenon
  <2>1. ~r.sent
    BY <1>5, Zenon DEF TaggedRoute
  <2>2. r.body = <<r.by, resource>>
    BY <1>4, Zenon DEF TaggedRoute
  <2>3. RequestOk(q)
    BY <1>1, Zenon DEF GetInv
  <2>4. r.since \in Nat /\ r.since <= resource /\ \A x, y \in r.match : x = y
    BY <1>0, <1>1, <1>4, <2>3, Zenon DEF RequestOk
  <2>. QED  BY <1>0, <1>4, <2>1, <2>2, <2>4 DEF RequestOk, CurrentBody
<1>. QED  BY <1>0, <1>3, <1>6, GetMoves, Zenon DEF GetInv

(* The response leaves whole, with a policy that lets no copy be reused    *)
(* unasked; a 304 stands for the body that was rendered.                   *)
LEMMA LastChunkStep ==
  ASSUME GetInv, NEW g \in Gets, LastChunk(g)
  PROVE  GetInv'
<1>0. UNCHANGED <<route, cacheKind, resource>> /\ gets[g].pc = "streaming"
  BY Zenon DEF LastChunk
<1>1. PICK q : q = gets[g]
  BY Zenon
<1>2. PICK response : response = IF Passthrough THEN [status |-> 200, body |-> q.body, policy |-> route.policy]
                                 ELSE Finalize(q.match, q.body)
  BY Zenon
<1>3. PICK got : got = IF response.status = 200 THEN response.body ELSE CHOOSE validated \in q.match : TRUE
  OBVIOUS
<1>4. PICK r : r = [pc |-> "ended", by |-> q.by, since |-> q.since, status |-> response.status, got |-> got]
  BY Zenon
<1>5. GetBecomes(g, r)
  BY <1>1, <1>2, <1>3, <1>4, Zenon DEF LastChunk, Receives
<1>6. \/ copies' = copies
      \/ \E body : Copy(q.by, body, response.policy)
  BY <1>1, <1>2 DEF LastChunk, Copy
<1>7. CASE ~TaggedRoute
  BY <1>0, <1>5, <1>7, GetMoves, Zenon
<1>8. CASE TaggedRoute
  <2>1. RequestOk(q) /\ q.pc = "streaming"
    BY <1>0, <1>1, <1>8, Zenon DEF GetInv
  <2>2. PICK v \in q.since..resource : q.body = <<q.by, v>>
    BY <2>1, Zenon DEF RequestOk, CurrentBody
  <2>3. q.body # NoBody
    BY <2>2 DEF NoBody
  <2>4. /\ response.policy = "private, no-cache"
        /\ \/ response.status = 200 /\ response.body = q.body
           \/ response.status = 304 /\ q.body \in q.match
    <3>1. response = Finalize(q.match, q.body)
      BY <1>2, <1>8, Zenon DEF TaggedRoute
    <3>2. Policy = "private, no-cache"
      BY <1>8, Zenon DEF TaggedRoute, Policy
    <3>3. CASE q.body \in q.match
      <4>1. response = [status |-> 304, body |-> NoBody, policy |-> Policy]
        BY <2>3, <3>1, <3>3, Zenon DEF Finalize, EtagMatches
      <4>. QED  BY <3>2, <3>3, <4>1, Zenon
    <3>4. CASE q.body \notin q.match
      <4>1. response = [status |-> 200, body |-> q.body, policy |-> Policy]
        BY <2>3, <3>1, <3>4, Zenon DEF Finalize, EtagMatches
      <4>. QED  BY <3>2, <4>1, Zenon
    <3>. QED  BY <3>3, <3>4, Zenon
  <2>5. got = q.body
    <3>1. CASE response.status = 200 /\ response.body = q.body
      BY <1>3, <3>1, Zenon
    <3>2. CASE response.status = 304 /\ q.body \in q.match
      <4>1. (CHOOSE validated \in q.match : TRUE) = q.body
        BY <2>1, <3>2 DEF RequestOk
      <4>2. response.status # 200
        BY <3>2
      <4>. QED  BY <1>3, <4>1, <4>2, Zenon
    <3>. QED  BY <2>4, <3>1, <3>2, Zenon
  <2>6. r.pc = "ended" /\ r.by = q.by /\ r.since = q.since /\ r.status = response.status /\ r.got = q.body
    BY <1>4, <2>5, Zenon
  <2>7. RequestOk(r)
    <3>1. CurrentBody(r, r.got)
      BY <2>2, <2>6, Zenon DEF CurrentBody
    <3>2. r.status = 200 \/ r.status = 304
      BY <2>4, <2>6, ZenonT(40)
    <3>3. r.since \in Nat /\ r.since <= resource
      BY <2>1, <2>6, Zenon DEF RequestOk
    <3>. QED  BY <2>6, <3>1, <3>2, <3>3 DEF RequestOk
  <2>8. \A c \in Readers : copies'[c].body # NoBody => copies'[c].policy = "private, no-cache"
    <3>1. CASE copies' = copies
      BY <1>8, <3>1, Zenon DEF GetInv
    <3>2. ASSUME NEW body, Copy(q.by, body, response.policy), NEW c \in Readers
          PROVE  copies'[c].body # NoBody => copies'[c].policy = "private, no-cache"
      <4>1. copies'[c] = IF c \in OnTheWay(q.by) THEN [body |-> body, policy |-> response.policy] ELSE copies[c]
        BY <3>2, Zenon DEF Copy
      <4>2. [body |-> body, policy |-> response.policy].policy = "private, no-cache"
        BY <2>4, Zenon
      <4>3. copies[c].body # NoBody => copies[c].policy = "private, no-cache"
        BY <1>8, Zenon DEF GetInv
      <4>. QED  BY <4>1, <4>2, <4>3, Zenon
    <3>. QED  BY <1>6, <3>1, <3>2, Zenon
  <2>. QED  BY <1>0, <1>5, <2>7, <2>8, GetMoves, Zenon
<1>. QED  BY <1>7, <1>8, Zenon

(* A stream that fails before the middleware sent anything is an error. *)
LEMMA StreamFailsStep ==
  ASSUME GetInv, NEW g \in Gets, StreamFails(g)
  PROVE  GetInv'
<1>0. UNCHANGED <<route, resource, copies>> /\ gets[g].pc = "streaming"
  BY Zenon DEF StreamFails
<1>1. PICK q : q = gets[g]
  BY Zenon
<1>2. PICK answer : answer = IF q.sent THEN 0 ELSE 500
  BY Zenon
<1>3. PICK r : r = [pc |-> "ended", by |-> q.by, since |-> q.since, status |-> answer, got |-> NoBody]
  BY Zenon
<1>4. GetBecomes(g, r)
  BY <1>1, <1>2, <1>3, Zenon DEF StreamFails, Receives
<1>5. TaggedRoute => answer = 500
  <2>1. TaggedRoute => ~q.sent
    BY <1>0, <1>1, Zenon DEF GetInv, RequestOk
  <2>. QED  BY <1>2, <2>1, Zenon
<1>6. r.pc = "ended" /\ r.status = answer /\ r.since = q.since
  BY <1>3, Zenon
<1>7. TaggedRoute => RequestOk(r)
  <2>1. TaggedRoute => q.since \in Nat /\ q.since <= resource
    BY <1>0, <1>1, Zenon DEF GetInv, RequestOk
  <2>. QED  BY <1>5, <1>6, <2>1 DEF RequestOk
<1>. QED  BY <1>0, <1>4, <1>7, GetMoves, Zenon DEF GetInv

(* Every step keeps the invariant of the reads. *)
LEMMA GetStep == GetInv /\ [GetNext]_getVars => GetInv'
<1>. SUFFICES ASSUME GetInv, [GetNext]_getVars PROVE GetInv'
  BY Zenon
<1>1. ASSUME ResourceChanges \/ UNCHANGED getVars PROVE GetInv'
  <2>1. /\ UNCHANGED <<route, copies, gets>> /\ resource \in Nat /\ resource' \in Nat /\ resource <= resource'
    <3>1. UNCHANGED <<route, copies, gets>> /\ (resource' = resource + 1 \/ resource' = resource)
      BY <1>1, Zenon DEF ResourceChanges, getVars
    <3>2. resource \in Nat
      BY Zenon DEF GetInv
    <3>. QED  BY <3>1, <3>2
  <2>2. TaggedRoute' = TaggedRoute
    BY <2>1, Zenon DEF TaggedRoute, Passthrough
  <2>3. ASSUME NEW x, RequestOk(x) PROVE RequestOk(x)'
    <3>1. x.pc # "idle" => x.since \in Nat /\ x.since <= resource'
      BY <2>1, <2>3 DEF RequestOk
    <3>2. x.pc # "idle" => x.since..resource \subseteq x.since..resource'
      BY <2>1, <2>3, <3>1
    <3>3. \A body : x.pc # "idle" /\ CurrentBody(x, body) => CurrentBody(x, body)'
      BY <3>2, Zenon DEF CurrentBody
    <3>. QED  BY <2>3, <3>1, <3>3, ZenonT(40) DEF RequestOk
  <2>. QED  BY <2>1, <2>2, <2>3, Zenon DEF GetInv
<1>. QED  BY <1>1, AskStep, RenderStep, LastChunkStep, StreamFailsStep, Zenon DEF GetNext

(* Nothing is asked, kept or copied at first. *)
LEMMA GetStart == GetInit => GetInv
<1>. SUFFICES ASSUME GetInit PROVE GetInv
  BY Zenon
<1>1. resource \in Nat /\ gets = [g \in Gets |-> gets[g]] /\ \A c \in Readers : copies[c].body = NoBody
  BY Zenon DEF GetInit, NoCopy
<1>2. \A g \in Gets : gets[g].pc = "idle"
  BY Zenon DEF GetInit, NoGet
<1>3. \A g \in Gets : RequestOk(gets[g])
  BY <1>2, Zenon DEF RequestOk
<1>. QED  BY <1>1, <1>3, Zenon DEF GetInv

(* For any number of readers, requests and changes, and for a cache of     *)
(* either kind: a tagged route without a policy of its own is read as it   *)
(* is, by each reader in its own view and no older than its request.       *)
THEOREM AlwaysReadsAreCurrent == GetSpec => []ReadsAreCurrent
<1>1. GetInv => ReadsAreCurrent
  <2>. SUFFICES ASSUME GetInv, NEW g \in Gets, gets[g].pc = "ended", TaggedRoute
                PROVE  /\ gets[g].status # 0
                       /\ gets[g].status # 500 =>
                            gets[g].got # NoBody /\ gets[g].got[1] = gets[g].by /\ gets[g].got[2] >= gets[g].since
    BY Zenon DEF ReadsAreCurrent, TaggedRoute
  <2>1. gets[g].status # 0 /\ (gets[g].status # 500 => CurrentBody(gets[g], gets[g].got))
    BY Zenon DEF GetInv, RequestOk
  <2>. QED  BY <2>1 DEF CurrentBody, NoBody
<1>. QED  BY <1>1, GetStart, GetStep, PTL DEF GetSpec

=============================================================================
