---------------------------- MODULE GrpcRequests ----------------------------
(***************************************************************************)
(* A gRPC call from the helper that sends it to the servicer and back: the *)
(* client interceptors of grpc/channels.py, the server interceptors that   *)
(* build_grpc_lifecycle installs (metrics, internal token and caller       *)
(* policy, JWT context, domain errors, outermost first), the handler       *)
(* wrapping of grpc/handlers.py and the error translation of               *)
(* grpc/calls.py.                                                          *)
(*                                                                         *)
(* A coroutine servicer runs in a context of its own, a plain one on a     *)
(* thread of the pool, whose context outlives the call.  A step is the     *)
(* code between two awaits; leaving a handler unwinds every layer at once. *)
(***************************************************************************)
EXTENDS Integers, FiniteSets

CONSTANTS
    MaxRpcs,       \* bound: calls made
    PoolThreads,   \* the threads plain servicers run on
    Methods,       \* [name, served, unary, plain, decorated, system, exempt]
    Gates,         \* servers: [token, required, alternate, jwt: BOOLEAN,
                   \*   secrets: caller -> secret, rules: method name -> callers]
    OwnMetadata,   \* what the application puts on a call: [token, auth]
    Forwarded,     \* what is bound to its task for forwarding: [jwt, behalf]
    ChannelTokens, \* the token of the channel, or None
    Failures       \* what a servicer may raise: [class, http]

Nobody == "None"
Rpcs == 1..MaxRpcs
Own == [caller |-> Nobody, payload |-> Nobody, behalf |-> Nobody]
NoRpc == [pc |-> "idle"]

ASSUME RequestsAssumption == MaxRpcs \in Nat /\ Nobody \notin PoolThreads

\* The kinds of authorization that the JWT layer tells apart.
ASSUME MetadataAssumption ==
    /\ \A o \in OwnMetadata : o.auth \in {Nobody, "basic", "user", "bot", "expired"}
    /\ \A f \in Forwarded : f.jwt \in {"", "user", "bot", "expired"}

\* Teapot and Overloaded are domain errors of the application, with an HTTP
\* status of their own: one that blames the request, and 503.
ASSUME FailuresAssumption ==
    \A e \in Failures :
        /\ e.class # Nobody /\ e.http \in Nat
        /\ e.class = "Teapot" => e.http \in (400..499) \ {429}
        /\ e.class = "Overloaded" => e.http = 503

VARIABLES
    gate,      \* the server's configuration
    server,    \* "down", "up", or "refused": startup raised
    rpcs,      \* the calls, in the order they are made
    contexts,  \* thread -> the context variables left in it
    busy       \* thread -> it runs a call

rpcVars == <<gate, server, rpcs, contexts, busy>>

RpcInit ==
    /\ gate \in Gates /\ server = "down"
    /\ rpcs = [c \in Rpcs |-> NoRpc]
    /\ contexts = [t \in PoolThreads |-> Own]
    /\ busy = [t \in PoolThreads |-> FALSE]

-----------------------------------------------------------------------------
(* The client's side. *)

\* set_forwarded_jwt binds `jwt or None'.
ForwardedJwt(fwd) == IF fwd.jwt = "" THEN Nobody ELSE fwd.jwt

\* JwtForwardingClientInterceptor: a bound JWT, and the on-behalf id with it,
\* goes along unless the call has an authorization of its own.
WithForwardedJwt(own, fwd) ==
    LET forwards == own.auth = Nobody /\ ForwardedJwt(fwd) # Nobody
    IN [token |-> own.token,
        auth |-> IF forwards THEN ForwardedJwt(fwd) ELSE own.auth,
        behalf |-> IF forwards THEN fwd.behalf ELSE Nobody]

\* InternalTokenClientInterceptor appends the channel's token: the last wins.
WithToken(md, token) == IF token = Nobody THEN md ELSE [md EXCEPT !.token = token]

\* The interceptors of a shared channel, which see unary calls only.
Outbound(m, own, fwd, token) ==
    IF m.unary THEN WithToken(WithForwardedJwt(own, fwd), token)
    ELSE [token |-> own.token, auth |-> own.auth, behalf |-> Nobody]

UpstreamFailureCodes == {"UNAVAILABLE", "DEADLINE_EXCEEDED", "RESOURCE_EXHAUSTED", "INTERNAL"}

\* translate_grpc_error with the default table; Invalid is also its fallback.
Translate(code) ==
    CASE code = "OK" -> Nobody
      [] code = "NOT_FOUND" -> "ResourceNotFoundError"
      [] code = "UNAUTHENTICATED" -> "AuthRequiredError"
      [] code = "PERMISSION_DENIED" -> "AuthPermissionDeniedError"
      [] code \in UpstreamFailureCodes -> "ServiceUnavailable"
      [] OTHER -> "InvalidInputError"

-----------------------------------------------------------------------------
(* The server's gate. *)

\* CallerCredentials: every caller has a secret, and one of its own.
CallerCredentials ==
    \A a, b \in DOMAIN gate.secrets :
        gate.secrets[a] # "" /\ (gate.secrets[a] = gate.secrets[b] => a = b)
Resolve(token) == IF \E a \in DOMAIN gate.secrets : gate.secrets[a] = token
                  THEN CHOOSE a \in DOMAIN gate.secrets : gate.secrets[a] = token ELSE Nobody

\* CallerPolicy: each method it lists admits a caller, and only known ones;
\* check_served: it is a method of the server.
CallerPolicy == \A name \in DOMAIN gate.rules :
    gate.rules[name] # {} /\ gate.rules[name] \subseteq DOMAIN gate.secrets
CheckServed == \A name \in DOMAIN gate.rules : \E m \in Methods : m.name = name /\ m.served

Listed(m) == m.name \in DOMAIN gate.rules
Decide(m, token) ==
    IF Resolve(token) = Nobody THEN "UNAUTHENTICATED"
    ELSE IF Resolve(token) \in gate.rules[m.name] THEN "ADMIT" ELSE "PERMISSION_DENIED"

\* build_grpc_lifecycle, _startup: the port opens only behind a gate that can
\* be enforced.
OpenPort ==
    /\ server = "down"
    /\ server' = IF /\ gate.required => gate.token
                    /\ CallerCredentials /\ CallerPolicy /\ CheckServed
                 THEN "up" ELSE "refused"
    /\ UNCHANGED <<gate, rpcs, contexts, busy>>

\* InternalTokenInterceptor: a listed method is decided by the policy alone.
PlatformRule(m, token) ==
    IF ~gate.token \/ m.system \/ m.exempt \/ token = "platform" THEN "ADMIT"
    ELSE IF gate.alternate /\ token # Nobody THEN "ASK" ELSE "UNAUTHENTICATED"
InterceptExemptFirst(m, token) ==
    IF Listed(m) /\ ~m.exempt THEN Decide(m, token) ELSE PlatformRule(m, token)
Intercept(m, token) ==
    IF Listed(m) THEN Decide(m, token) ELSE PlatformRule(m, token)

\* JwtContextServerInterceptor wraps unary methods, in a coroutine.
WithJwt(m) == gate.jwt /\ m.unary /\ ~m.system
OnPool(m) == m.plain /\ ~WithJwt(m)

-----------------------------------------------------------------------------
(* How a call ends. *)

ErrorClassToStatus ==
    [class \in {"ResourceNotFoundError", "InvalidInputError", "InvalidFormatError",
                "AuthRequiredError", "AuthInvalidTokenError", "NotAuthorizedException",
                "AuthPermissionDeniedError", "DuplicateResourceError", "RateLimitError"} |->
        CASE class = "ResourceNotFoundError" -> "NOT_FOUND"
          [] class \in {"InvalidInputError", "InvalidFormatError"} -> "INVALID_ARGUMENT"
          [] class = "AuthPermissionDeniedError" -> "PERMISSION_DENIED"
          [] class = "DuplicateResourceError" -> "ALREADY_EXISTS"
          [] class = "RateLimitError" -> "RESOURCE_EXHAUSTED"
          [] OTHER -> "UNAUTHENTICATED"]

HttpStatusToGrpc(http) ==
    CASE http = 401 -> "UNAUTHENTICATED"
      [] http = 403 -> "PERMISSION_DENIED"
      [] http = 404 -> "NOT_FOUND"
      [] http = 409 -> "ALREADY_EXISTS"
      [] http = 429 -> "RESOURCE_EXHAUSTED"
      [] http = 501 -> "UNIMPLEMENTED"
      [] http = 503 -> "UNAVAILABLE"
      [] http = 504 -> "DEADLINE_EXCEEDED"
      [] http \in (400..499) \ {401, 403, 404, 409, 429} -> "INVALID_ARGUMENT"
      [] http >= 500 /\ http \notin {501, 503, 504} -> "INTERNAL"
      [] OTHER -> Nobody

\* _grpc_status_for_exception: None for what is not a domain error.
StatusForException(error) ==
    IF error.class \in DOMAIN ErrorClassToStatus THEN ErrorClassToStatus[error.class]
    ELSE HttpStatusToGrpc(error.http)

Or(code, default) == IF code = Nobody THEN default ELSE code

\* What leaves the servicer: the failure raised and the code set on the call's
\* context.  grpc_error_handler aborts with the error's status, or INTERNAL.
Decorated(m, error) ==
    CASE error.class = "AbortError" -> [failure |-> "AbortError", code |-> "FAILED_PRECONDITION"]
      [] m.decorated /\ error.class \notin {"AbortError", "CancelledError"} ->
           [failure |-> "AbortError", code |-> Or(StatusForException(error), "INTERNAL")]
      [] OTHER -> [failure |-> error.class, code |-> Nobody]

\* DomainErrorServerInterceptor: a domain error aborts a coroutine and ends a
\* plain servicer's call; an abort is not judged again.
DomainErrors(m, error, end) ==
    IF m.system \/ end.failure # error.class \/ StatusForException(error) = Nobody THEN end
    ELSE [failure |-> IF m.plain THEN Nobody ELSE "AbortError", code |-> StatusForException(error)]

\* The JWT layer awaits what a plain servicer gave back.
Awaited(m, end) == IF m.plain /\ WithJwt(m) /\ end.failure = Nobody
                   THEN [end EXCEPT !.failure = "TypeError"] ELSE end

Delivered(end) == CASE end.failure = Nobody -> Or(end.code, "OK")
                    [] end.failure = "CancelledError" -> "CANCELLED"
                    [] OTHER -> Or(end.code, "UNKNOWN")
\* The end callback of GrpcServerMetricsInterceptor.
RecordedByFailure(end) == IF end.failure = Nobody THEN "OK" ELSE Or(end.code, "UNKNOWN")
Recorded(end) == CASE end.failure = Nobody -> Or(end.code, "OK")
                   [] end.failure = "AioRpcError" -> "UNAVAILABLE"
                   [] OTHER -> Or(end.code, "UNKNOWN")

\* The call's record once every layer is left.
RpcEnded(m, error, end) ==
    [pc |-> "ended", unary |-> m.unary, error |-> error, status |-> Delivered(end),
     counted |-> IF m.system THEN Nobody ELSE Recorded(end),
     raises |-> Translate(Delivered(end)), observed |-> Nobody]

Refused(m, code) == RpcEnded(m, Nobody, [failure |-> "AbortError", code |-> code])

-----------------------------------------------------------------------------
(* The steps. *)

RpcBecomes(c, r) == rpcs' = [rpcs EXCEPT ![c] = r]
KeepPool == UNCHANGED <<contexts, busy>>

Admitted(m, md) ==
    [pc |-> "queued", m |-> m, md |-> md,
     caller |-> IF Listed(m) THEN Resolve(md.token) ELSE Nobody,
     context |-> Own, before |-> Nobody, thread |-> Nobody]

\* The call is made and goes through intercept_service of every layer.
Send(c) ==
    /\ server = "up" /\ rpcs[c].pc = "idle" /\ \A d \in 1..(c - 1) : rpcs[d].pc # "idle"
    /\ \E m \in Methods, own \in OwnMetadata, fwd \in Forwarded, token \in ChannelTokens :
          LET md == Outbound(m, own, fwd, token)
              verdict == Intercept(m, md.token)
          IN RpcBecomes(c, IF verdict = "ASK" THEN [pc |-> "asking", m |-> m, md |-> md]
                          ELSE IF ~m.served
                          THEN [RpcEnded(m, Nobody, [failure |-> "AbortError", code |-> "UNIMPLEMENTED"])
                                  EXCEPT !.counted = Nobody]
                          ELSE IF verdict = "ADMIT" THEN Admitted(m, md) ELSE Refused(m, verdict))
    /\ KeepPool /\ UNCHANGED <<gate, server>>

\* The alternate verifier knows the token of a host.
Answers(c) ==
    /\ rpcs[c].pc = "asking"
    /\ LET m == rpcs[c].m IN
       RpcBecomes(c, IF rpcs[c].md.token = "host" THEN Admitted(m, rpcs[c].md) ELSE Refused(m, "UNAUTHENTICATED"))
    /\ KeepPool /\ UNCHANGED <<gate, server>>

\* The handler starts: as_caller binds the caller in the context it runs in,
\* then the JWT layer reads the authorization header.
Entered(c) ==
    LET r == rpcs[c] IN
    IF ~WithJwt(r.m) \/ r.md.auth = Nobody THEN [r EXCEPT !.pc = "serving"]
    ELSE IF r.md.auth = "basic" THEN Refused(r.m, "UNAUTHENTICATED")
    ELSE [r EXCEPT !.pc = "verifying"]
StartTask(c) ==
    /\ rpcs[c].pc = "queued" /\ ~OnPool(rpcs[c].m)
    /\ RpcBecomes(c, IF Entered(c).pc = "ended" THEN Entered(c)
                  ELSE [Entered(c) EXCEPT !.context.caller = rpcs[c].caller])
    /\ KeepPool /\ UNCHANGED <<gate, server>>
StartOnPool(c, t) ==
    /\ rpcs[c].pc = "queued" /\ OnPool(rpcs[c].m) /\ ~busy[t]
    /\ RpcBecomes(c, [rpcs[c] EXCEPT !.pc = "serving", !.thread = t, !.before = contexts[t].caller])
    /\ busy' = [busy EXCEPT ![t] = TRUE]
    /\ contexts' = IF Listed(rpcs[c].m) THEN [contexts EXCEPT ![t].caller = rpcs[c].caller] ELSE contexts
    /\ UNCHANGED <<gate, server>>

\* The verifier answers.  The on-behalf id counts for bots only.
Verified(c) ==
    /\ rpcs[c].pc = "verifying"
    /\ LET r == rpcs[c] IN
       RpcBecomes(c, IF r.md.auth = "expired" THEN Refused(r.m, "UNAUTHENTICATED")
                  ELSE [r EXCEPT !.pc = "serving",
                                 !.context = [caller |-> r.context.caller, payload |-> r.md.auth,
                                              behalf |-> IF r.md.auth = "bot" THEN r.md.behalf ELSE Nobody]])
    /\ KeepPool /\ UNCHANGED <<gate, server>>

\* Leaving the layers: as_caller puts back what the context held before.
LeaveThreadAsIs(c) ==
    /\ busy' = [t \in PoolThreads |-> busy[t] /\ t # rpcs[c].thread]
    /\ UNCHANGED contexts
LeaveThread(c) ==
    /\ busy' = [t \in PoolThreads |-> busy[t] /\ t # rpcs[c].thread]
    /\ contexts' = [t \in PoolThreads |-> IF t = rpcs[c].thread
                      THEN [contexts[t] EXCEPT !.caller = rpcs[c].before] ELSE contexts[t]]

Finish(c, error, end) ==
    /\ rpcs[c].pc = "serving"
    /\ RpcBecomes(c, RpcEnded(rpcs[c].m, error, Awaited(rpcs[c].m, end)))
    /\ LeaveThread(c) /\ UNCHANGED <<gate, server>>
Returns(c) == Finish(c, Nobody, [failure |-> Nobody, code |-> Nobody])
Raises(c) == \E error \in Failures :
    /\ rpcs[c].pc = "serving"
    /\ rpcs[c].m.plain => error.class \notin {"AbortError", "CancelledError"}
    /\ rpcs[c].m.system => error.class \in {"AbortError", "CancelledError"}
    /\ Finish(c, error.class, DomainErrors(rpcs[c].m, error, Decorated(rpcs[c].m, error)))

\* The caller goes away while a verifier is asked.
Cancelled(c) ==
    /\ rpcs[c].pc = "verifying"
    /\ RpcBecomes(c, RpcEnded(rpcs[c].m, "CancelledError", [failure |-> "CancelledError", code |-> Nobody]))
    /\ KeepPool /\ UNCHANGED <<gate, server>>

\* The done callback of GrpcClientMetricsInterceptor starts a task that reads
\* the completed call's code.
CallStatusCode(r) == Or(r.status, "UNKNOWN")
Observe(c) ==
    /\ rpcs[c].pc = "ended" /\ rpcs[c].unary /\ rpcs[c].observed = Nobody
    /\ RpcBecomes(c, [rpcs[c] EXCEPT !.observed = CallStatusCode(rpcs[c])])
    /\ KeepPool /\ UNCHANGED <<gate, server>>

RpcNext ==
    \/ OpenPort
    \/ \E c \in Rpcs :
        \/ Send(c) \/ Answers(c) \/ StartTask(c) \/ (\E t \in PoolThreads : StartOnPool(c, t))
        \/ Verified(c) \/ Returns(c) \/ Raises(c) \/ Cancelled(c) \/ Observe(c)
RpcSpec == RpcInit /\ [][RpcNext]_rpcVars

-----------------------------------------------------------------------------
Serving(c) == rpcs[c].pc = "serving"
\* current_caller, current_jwt_payload and current_on_behalf
ContextOf(c) == IF rpcs[c].thread = Nobody THEN rpcs[c].context ELSE contexts[rpcs[c].thread]

(* A servicer runs only for a caller the rules admit: a listed method for  *)
(* a secret that belongs to one caller, whom its rule names, and for no    *)
(* other credential; an unlisted one of a gated server for the platform    *)
(* token, a host's or an exemption; and an ungated one only on purpose.    *)
ServedOnlyIfAdmitted ==
    \A c \in Rpcs : Serving(c) =>
        LET m == rpcs[c].m  token == rpcs[c].md.token
        IN IF Listed(m)
           THEN /\ \E a \in gate.rules[m.name] : gate.secrets[a] = token
                /\ \A a \in DOMAIN gate.secrets : gate.secrets[a] = token => a \in gate.rules[m.name]
           ELSE \/ m.system \/ m.exempt \/ token = "platform"
                \/ gate.alternate /\ token = "host"
                \/ ~gate.token /\ ~gate.required

(* What a servicer reads from its context is its own call's: the caller is *)
(* set for listed methods only, on a reused pool thread too, the payload   *)
(* is the one verified for this call, and only a bot acts for another.     *)
ContextOfTheCall ==
    \A c \in Rpcs : Serving(c) =>
        LET read == ContextOf(c)  md == rpcs[c].md
        IN /\ read.caller = IF Listed(rpcs[c].m) THEN Resolve(md.token) ELSE Nobody
           /\ read.payload # Nobody => read.payload = md.auth /\ md.auth \in {"user", "bot"}
           /\ read.behalf # Nobody => read.payload = "bot" /\ read.behalf = md.behalf

\* The server's metrics, the client's metrics and the client agree on how a
\* call ended, except for a cancelled call and for an upstream's error that
\* the servicer let escape, which the server records as it was.
CodesAgree(r) ==
    /\ r.counted # Nobody /\ r.error \notin {"CancelledError", "AioRpcError"} => r.counted = r.status
    /\ r.observed \in {Nobody, r.status}

CallersFault == {"InvalidInputError", "InvalidFormatError", "AuthRequiredError", "AuthInvalidTokenError",
                 "AuthPermissionDeniedError", "ResourceNotFoundError", "DuplicateResourceError", "Teapot"}

(* How a call ended is told alike to the caller and to the metrics of both *)
(* sides, and keeps its side: an error that is the caller's fault never    *)
(* reaches it as an outage of the upstream or as success, an outage does   *)
(* reach it as one.                                                        *)
OutcomeIsTold ==
    \A c \in Rpcs : rpcs[c].pc = "ended" =>
        /\ CodesAgree(rpcs[c])
        /\ rpcs[c].error \in CallersFault => rpcs[c].status \notin UpstreamFailureCodes \cup {"OK"}
        /\ rpcs[c].error = "Overloaded" => rpcs[c].raises = "ServiceUnavailable"

(* A servicer that answers, plain or not, is answered for: its call does   *)
(* not end as an unknown error.                                            *)
PlainServicersAnswer ==
    \A c \in Rpcs : rpcs[c].pc = "ended" /\ rpcs[c].error = Nobody => rpcs[c].status # "UNKNOWN"
=============================================================================
