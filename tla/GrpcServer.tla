---------------------------- MODULE GrpcServer -----------------------------
(***************************************************************************)
(* The gRPC server lifecycle of grpc/server.py and the health service of   *)
(* grpc/health.py.  A lifecycle is one pair of startup and shutdown        *)
(* callables of build_grpc_lifecycle; the server it creates carries its    *)
(* name.  Shutdown does not know its server: it stops the process's        *)
(* default one.  A watcher is one Watch call, with a registration, an      *)
(* event and a status of its own.                                          *)
(*                                                                         *)
(* Everything runs on one event loop; a step is the code between two       *)
(* awaits.                                                                 *)
(***************************************************************************)
EXTENDS Integers, FiniteSets

CONSTANTS
    Servers,       \* lifecycles, and the servers they create
    NoServer,
    Services,      \* names a health request may ask about
    ServiceNames,  \* "" and the service_names of every lifecycle
    Watchers,      \* Watch calls
    Probed,        \* bound: the servers that Watch and set() are called on
    MaxChanges     \* bound: statuses the application sets

ASSUME NamesAreServices == ServiceNames \subseteq Services
ASSUME ProbedAreServers == Probed \subseteq Servers
ASSUME NoServerIsNone == NoServer \notin Servers
ASSUME MaxChangesNat == MaxChanges \in Nat

Statuses == {"SERVING", "NOT_SERVING"}
Unknown == "SERVICE_UNKNOWN"
None == "None"

(* A health status is kept per server and service. *)
Names == Servers \X Services
NoName == << >>

VARIABLES
    life,      \* server -> "none", "created", "running", "stopping" or "stopped"
    default,   \* _SERVER
    known,     \* _HEALTH: the servers whose servicer can be told of the stop
    startup,   \* lifecycle -> "idle", "starting", "started" or "raised"
    shutdown,  \* lifecycle -> "idle", "awaiting" or "returned"
    stopping,  \* lifecycle -> the server its shutdown is stopping
    status,    \* _status: name -> status, or Unknown
    final,     \* _shutting_down: server -> BOOLEAN
    watching,  \* _watchers: name -> its live watchers
    wpc,       \* watcher -> "idle", "waiting" (for its event) or "writing"
    target,    \* watcher -> the name it watches
    held,      \* watcher -> the status it has to see
    changed,   \* watcher -> its event is set
    sent,      \* watcher -> the status it wrote last
    writing,   \* watcher -> the status it is writing
    changes    \* statuses set so far

servers == <<life, default, known, startup, shutdown, stopping>>
health == <<status, final, watching>>
watchers == <<wpc, target, held, changed, sent, writing>>
vars == <<servers, health, watchers, changes>>

(* A lifecycle between the start of its startup and the end of its shutdown. *)
Calling(w) == wpc[w] # "idle"

Init ==
    /\ life = [srv \in Servers |-> "none"]
    /\ default = NoServer
    /\ known = {}
    /\ startup = [l \in Servers |-> "idle"]
    /\ shutdown = [l \in Servers |-> "idle"]
    /\ stopping = [l \in Servers |-> NoServer]
    /\ status = [n \in Names |-> Unknown]
    /\ final = [srv \in Servers |-> FALSE]
    /\ watching = [n \in Names |-> {}]
    /\ wpc = [w \in Watchers |-> "idle"]
    /\ target = [w \in Watchers |-> NoName]
    /\ held = [w \in Watchers |-> Unknown]
    /\ changed = [w \in Watchers |-> FALSE]
    /\ sent = [w \in Watchers |-> None]
    /\ writing = [w \in Watchers |-> None]
    /\ changes = 0

-----------------------------------------------------------------------------
(* _startup: create_grpc_server, the registrars, start *)

(* create_grpc_server: its own health servicer, and the default from now on. *)
CreateGrpcServer(srv) ==
    /\ life' = [life EXCEPT ![srv] = "created"]
    /\ status' = [n \in Names |-> IF n[1] = srv /\ n[2] \in ServiceNames THEN "SERVING" ELSE status[n]]
    /\ known' = known \cup {srv}
    /\ default' = srv

(* One step up to the await of the server's start.  When a registrar or      *)
(* check_served raises, the server has been created and is never started.   *)
Startup(l, raises) ==
    /\ startup[l] = "idle"
    /\ startup' = [startup EXCEPT ![l] = IF raises THEN "raised" ELSE "starting"]
    /\ CreateGrpcServer(l)
    /\ UNCHANGED <<shutdown, stopping, final, watching, watchers, changes>>

Started(l) ==
    /\ startup[l] = "starting"
    /\ startup' = [startup EXCEPT ![l] = "started"]
    /\ life' = [life EXCEPT ![l] = IF @ = "created" THEN "running" ELSE @]
    /\ UNCHANGED <<default, known, shutdown, stopping, health, watchers, changes>>

-----------------------------------------------------------------------------
(* HealthServicer *)

(* What _set tells the watchers of the names in ns. *)
Tell(ns, to) ==
    /\ status' = [n \in Names |-> IF n \in ns THEN to ELSE status[n]]
    /\ held' = [w \in Watchers |-> IF \E n \in ns : w \in watching[n] THEN to ELSE held[w]]
    /\ changed' = [w \in Watchers |-> changed[w] \/ \E n \in ns : w \in watching[n]]

(* set(): ignored once the shutdown has begun. *)
Set(srv, s, to) ==
    /\ life[srv] # "none"
    /\ changes < MaxChanges
    /\ changes' = changes + 1
    /\ IF final[srv] THEN UNCHANGED <<status, held, changed>> ELSE Tell({<<srv, s>>}, to)
    /\ UNCHANGED <<servers, final, watching, wpc, target, sent, writing>>

(* Watch: registered, with its event set. *)
Watch(w, n) ==
    /\ wpc[w] = "idle"
    /\ life[n[1]] = "running"
    /\ wpc' = [wpc EXCEPT ![w] = "waiting"]
    /\ target' = [target EXCEPT ![w] = n]
    /\ held' = [held EXCEPT ![w] = status[n]]
    /\ changed' = [changed EXCEPT ![w] = TRUE]
    /\ watching' = [watching EXCEPT ![n] = @ \cup {w}]
    /\ UNCHANGED <<servers, status, final, sent, writing, changes>>

(* Mutant: a service without a status is not worth a wake-up. *)
WakeIfKnown(w) ==
    /\ wpc[w] = "waiting"
    /\ changed[w]
    /\ held[w] # Unknown
    /\ changed' = [changed EXCEPT ![w] = FALSE]
    /\ wpc' = [wpc EXCEPT ![w] = IF held[w] # sent[w] THEN "writing" ELSE @]
    /\ writing' = [writing EXCEPT ![w] = IF held[w] # sent[w] THEN held[w] ELSE @]
    /\ UNCHANGED <<servers, health, target, held, sent, changes>>
(* The event is cleared before the status is read and written: a change     *)
(* during the write sets it again.                                          *)
Wake(w) ==
    /\ wpc[w] = "waiting"
    /\ changed[w]
    /\ changed' = [changed EXCEPT ![w] = FALSE]
    /\ IF held[w] # sent[w]
       THEN /\ wpc' = [wpc EXCEPT ![w] = "writing"]
            /\ writing' = [writing EXCEPT ![w] = held[w]]
       ELSE UNCHANGED <<wpc, writing>>
    /\ UNCHANGED <<servers, health, target, held, sent, changes>>

(* Mutant: the event is cleared after the write. *)
WrittenClears(w) ==
    /\ wpc[w] = "writing"
    /\ wpc' = [wpc EXCEPT ![w] = "waiting"]
    /\ sent' = [sent EXCEPT ![w] = writing[w]]
    /\ writing' = [writing EXCEPT ![w] = None]
    /\ changed' = [changed EXCEPT ![w] = FALSE]
    /\ UNCHANGED <<servers, health, target, held, changes>>
Written(w) ==
    /\ wpc[w] = "writing"
    /\ wpc' = [wpc EXCEPT ![w] = "waiting"]
    /\ sent' = [sent EXCEPT ![w] = writing[w]]
    /\ writing' = [writing EXCEPT ![w] = None]
    /\ UNCHANGED <<servers, health, target, held, changed, changes>>

(* The caller hangs up, or the stopping server cancels the call, while it   *)
(* waits or writes: the finally of Watch.                                   *)
Leave(w) ==
    /\ Calling(w)
    /\ watching' = [watching EXCEPT ![target[w]] = @ \ {w}]
    /\ wpc' = [wpc EXCEPT ![w] = "idle"]
    /\ target' = [target EXCEPT ![w] = NoName]
    /\ held' = [held EXCEPT ![w] = Unknown]
    /\ changed' = [changed EXCEPT ![w] = FALSE]
    /\ sent' = [sent EXCEPT ![w] = None]
    /\ writing' = [writing EXCEPT ![w] = None]
    /\ UNCHANGED <<servers, status, final, changes>>

-----------------------------------------------------------------------------
(* stop_grpc_server *)

(* Mutant: only the service names it was created with read NOT_SERVING. *)
EnterGracefulShutdownOfNames(srv) ==
    IF srv \in known /\ ~final[srv]
    THEN /\ Tell({n \in Names : n[1] = srv /\ n[2] \in ServiceNames}, "NOT_SERVING")
         /\ final' = [final EXCEPT ![srv] = TRUE]
    ELSE UNCHANGED <<status, held, changed, final>>
(* Every service with a status reads NOT_SERVING from here on. *)
EnterGracefulShutdown(srv) ==
    IF srv \in known /\ ~final[srv]
    THEN /\ Tell({n \in Names : n[1] = srv /\ status[n] # Unknown}, "NOT_SERVING")
         /\ final' = [final EXCEPT ![srv] = TRUE]
    ELSE UNCHANGED <<status, held, changed, final>>

(* _shutdown, or a caller that names its own server. *)
Shutdown(l, srv) ==
    /\ startup[l] \in {"started", "raised"}
    /\ shutdown[l] = "idle"
    /\ srv \in Servers
    /\ known' = known \ {srv}
    /\ EnterGracefulShutdown(srv)
    /\ life' = [life EXCEPT ![srv] = IF @ = "stopped" THEN @ ELSE "stopping"]
    /\ shutdown' = [shutdown EXCEPT ![l] = "awaiting"]
    /\ stopping' = [stopping EXCEPT ![l] = srv]
    /\ UNCHANGED <<default, startup, watching, wpc, target, sent, writing, changes>>

(* There is no default server: nothing to stop. *)
ShutdownOfNone(l) ==
    /\ startup[l] \in {"started", "raised"}
    /\ shutdown[l] = "idle"
    /\ default = NoServer
    /\ shutdown' = [shutdown EXCEPT ![l] = "returned"]
    /\ UNCHANGED <<life, default, known, startup, stopping, health, watchers, changes>>

(* srv.stop() is over when the last call is, which the grace period bounds. *)
ServerStops(srv) ==
    /\ life[srv] = "stopping"
    /\ \A w \in Watchers : Calling(w) => target[w][1] # srv
    /\ life' = [life EXCEPT ![srv] = "stopped"]
    /\ UNCHANGED <<default, known, startup, shutdown, stopping, health, watchers, changes>>

(* The default is forgotten, whichever server it is by now. *)
ShutdownReturns(l) ==
    /\ shutdown[l] = "awaiting"
    /\ life[stopping[l]] = "stopped"
    /\ default' = NoServer
    /\ shutdown' = [shutdown EXCEPT ![l] = "returned"]
    /\ UNCHANGED <<life, known, startup, stopping, health, watchers, changes>>

-----------------------------------------------------------------------------
Next ==
    \/ \E l \in Servers :
          \/ \E raises \in BOOLEAN : Startup(l, raises)
          \/ Started(l)
          \/ Shutdown(l, default)
          \/ Shutdown(l, l)
          \/ ShutdownOfNone(l)
          \/ ServerStops(l)
          \/ ShutdownReturns(l)
    \/ \E srv \in Probed, s \in Services, to \in Statuses : Set(srv, s, to)
    \/ \E w \in Watchers :
          \/ \E srv \in Probed, s \in Services : Watch(w, <<srv, s>>)
          \/ Wake(w)
          \/ Written(w)
          \/ Leave(w)

Spec == Init /\ [][Next]_vars

(* The event loop runs what is ready, and a client that stays connected     *)
(* reads what is written to it.                                             *)
Fairness == \A w \in Watchers : WF_vars(Wake(w)) /\ WF_vars(Written(w))

FairSpec == Spec /\ Fairness

-----------------------------------------------------------------------------
(* The types of the server registry, the health statuses and the watchers. *)
TypeOK ==
    /\ life \in [Servers -> {"none", "created", "running", "stopping", "stopped"}]
    /\ default \in Servers \cup {NoServer}
    /\ known \subseteq Servers
    /\ startup \in [Servers -> {"idle", "starting", "started", "raised"}]
    /\ shutdown \in [Servers -> {"idle", "awaiting", "returned"}]
    /\ stopping \in [Servers -> Servers \cup {NoServer}]
    /\ status \in [Names -> Statuses \cup {Unknown}]
    /\ final \in [Servers -> BOOLEAN]
    /\ watching \in [Names -> SUBSET Watchers]
    /\ wpc \in [Watchers -> {"idle", "waiting", "writing"}]
    /\ target \in [Watchers -> Names \cup {NoName}]
    /\ held \in [Watchers -> Statuses \cup {Unknown}]
    /\ changed \in [Watchers -> BOOLEAN]
    /\ sent \in [Watchers -> Statuses \cup {Unknown, None}]
    /\ writing \in [Watchers -> Statuses \cup {Unknown, None}]
    /\ changes \in 0..MaxChanges

(* A name's registrations are exactly its live Watch calls: a watcher that  *)
(* leaves takes its own away, and nobody else's.                            *)
RegistrationsAreCalls ==
    \A n \in Names : watching[n] = {w \in Watchers : Calling(w) /\ target[w] = n}

(* No wake-up is lost: a Watch call that sleeps has written the status its  *)
(* service has now, however changes, writes and other watchers interleaved. *)
NoMissedWakeup ==
    \A w \in Watchers :
        wpc[w] = "waiting" /\ ~changed[w] => sent[w] = status[target[w]]

(* From the moment the server refuses calls, every service that has a       *)
(* status reads NOT_SERVING, and every live watcher of one has been told.   *)
ToldBeforeRefusing ==
    \A n \in Names :
        /\ life[n[1]] \in {"stopping", "stopped"}
        /\ status[n] # Unknown
        => /\ status[n] = "NOT_SERVING"
           /\ \A w \in Watchers : Calling(w) /\ target[w] = n => held[w] = "NOT_SERVING"

(* Every Watch call that stays catches up with its service's status. *)
WatchersCatchUp ==
    \A w \in Watchers :
        (Calling(w) /\ sent[w] # status[target[w]])
            ~> (~Calling(w) \/ sent[w] = status[target[w]])

-----------------------------------------------------------------------------
(* What makes the safety properties inductive. *)

(* A live Watch call holds its service's status. *)
HeldIsCurrent ==
    \A w \in Watchers : Calling(w) => target[w] \in Names /\ held[w] = status[target[w]]

(* What a call with a cleared event wrote last, or is writing, is what it   *)
(* holds.                                                                   *)
ClearedIsSeen ==
    \A w \in Watchers :
        ~changed[w] => /\ wpc[w] = "waiting" => sent[w] = held[w]
                       /\ wpc[w] = "writing" => writing[w] = held[w]

(* Whatever names a server names one that was created. *)
OnlyCreated ==
    /\ default # NoServer => startup[default] # "idle"
    /\ \A srv \in Servers : life[srv] # "none" \/ final[srv] => startup[srv] # "idle"
    /\ \A w \in Watchers : Calling(w) => startup[target[w][1]] # "idle"

(* A server that is on its way down was told so first. *)
ShutdownFirst ==
    /\ \A srv \in Servers : startup[srv] # "idle" => srv \in known \/ final[srv]
    /\ \A srv \in Servers : life[srv] \in {"stopping", "stopped"} => final[srv]
    /\ \A n \in Names : final[n[1]] => status[n] \in {Unknown, "NOT_SERVING"}

IInv ==
    /\ TypeOK
    /\ RegistrationsAreCalls
    /\ HeldIsCurrent
    /\ ClearedIsSeen
    /\ OnlyCreated
    /\ ShutdownFirst
=============================================================================
