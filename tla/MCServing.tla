------------------------------ MODULE MCServing ------------------------------
(* Instances of what serves requests, of the tools that generate its code  *)
(* and of the figures it shows, each component checked by itself: `part'   *)
(* says which one a behaviour is about, and the others stand still.        *)
EXTENDS GrpcServer, GrpcRequests, PatchFields, ConditionalGet, ContractSync, Projection, TenantScope, Segments

VARIABLE part

Method == [name |-> "unary", served |-> TRUE, unary |-> TRUE, plain |-> FALSE,
           decorated |-> FALSE, system |-> FALSE, exempt |-> FALSE]
Stream == [Method EXCEPT !.unary = FALSE]
Served == {[Method EXCEPT !.name = "listed", !.exempt = TRUE],
           [Stream EXCEPT !.name = "listed plain", !.plain = TRUE],
           [Stream EXCEPT !.name = "plain", !.plain = TRUE],
           [Method EXCEPT !.name = "decorated", !.decorated = TRUE],
           [Stream EXCEPT !.name = "watch", !.system = TRUE],
           [Method EXCEPT !.name = "plain unary", !.plain = TRUE],
           [Method EXCEPT !.name = "gone", !.served = FALSE]}

Rules == [n \in {"listed", "listed plain"} |-> IF n = "listed" THEN {"a"} ELSE {"a", "b"}]
Gate == [token |-> TRUE, required |-> TRUE, alternate |-> TRUE, jwt |-> TRUE,
         secrets |-> [a |-> "secret a", b |-> "secret b"], rules |-> Rules]
GateChoices ==
    {Gate,
     [Gate EXCEPT !.token = FALSE, !.required = FALSE, !.alternate = FALSE, !.jwt = FALSE],
     [Gate EXCEPT !.token = FALSE],
     [Gate EXCEPT !.rules = [n \in {"gone"} |-> {"a"}]],
     [Gate EXCEPT !.rules = [n \in {"listed"} |-> {"c"}]],
     [Gate EXCEPT !.secrets = [a |-> "secret a", b |-> "secret a"]]}
Metadata == {[token |-> "None", auth |-> "None"], [token |-> "secret a", auth |-> "None"],
             [token |-> "host", auth |-> "basic"]}
Bound == {[jwt |-> "", behalf |-> "None"], [jwt |-> "bot", behalf |-> "7"],
          [jwt |-> "user", behalf |-> "7"], [jwt |-> "expired", behalf |-> "None"]}
Errors == {[class |-> "AuthRequiredError", http |-> 401], [class |-> "Teapot", http |-> 418],
           [class |-> "Overloaded", http |-> 503], [class |-> "KeyError", http |-> 0],
           [class |-> "AbortError", http |-> 0], [class |-> "CancelledError", http |-> 0],
           [class |-> "AioRpcError", http |-> 0]}

Page == [excluded |-> FALSE, tagged |-> FALSE, policy |-> "none", empty |-> FALSE]
Pages == {Page, [Page EXCEPT !.excluded = TRUE], [Page EXCEPT !.policy = "public"],
          [Page EXCEPT !.empty = TRUE], [Page EXCEPT !.tagged = TRUE]}

Shipped == [x |-> {"s"}, y |-> {"s", "t"}, w |-> {"c"}]

AtMost(n, S) == {T \in SUBSET S : Cardinality(T) <= n}
Paths == {<<"a">>, <<"a", "b">>, <<"a", "b", "c">>, <<"a", "c">>, <<"b">>}
RawPaths == {<<"A">>, <<"a", "b">>, <<"a", "b", "C">>, <<"a", "", "c">>, <<"b">>}
AllFields == [fields |-> {}, include |-> {}, exclude |-> {}, restricted |-> FALSE]
Viewer == [allowed |-> {}, denied |-> {}, all |-> TRUE]
SomeFields == [fields : AtMost(2, RawPaths), include : AtMost(1, RawPaths), exclude : AtMost(1, RawPaths),
               restricted : {TRUE}]
Viewers == [allowed : AtMost(2, Paths), denied : AtMost(1, Paths), all : BOOLEAN]
Projected == (({AllFields} \cup SomeFields) \X {Viewer}) \cup ({AllFields} \X Viewers)
DeclaredPaths == {Paths, {<<"a", "b">>}, {}}
Nested == {<<"a">>, <<"b">>, <<"a", "b">>}
Asked == {<<"b">>, <<"c">>, <<"b", "c">>}
Lowered == [s \in {"a", "b", "c", "A", "C", ""} |-> CASE s = "A" -> "a" [] s = "C" -> "c" [] OTHER -> s]

Table == [model : {"device", "job"}, kind : {"account", "team"}, id : {1, 2}]
Askers == {[accounts |-> {1}, operator |-> FALSE], [accounts |-> {}, operator |-> FALSE],
           [accounts |-> {2}, operator |-> TRUE]}
Statements == {{"device"}, {"device", "job"}}

Sampled == {[online |-> n, plugin |-> n = -1, motd |-> n = 45] : n \in {-1, 0, 45, 300, 302, 304}}
Forcings == {[mode |-> "force_normal", from |-> 2, to |-> 4], [mode |-> "force_suspect", from |-> 0, to |-> 5],
             [mode |-> "force_suspect", from |-> 2, to |-> 3], [mode |-> "force_maintenance", from |-> 3, to |-> 9],
             [mode |-> "paused", from |-> 1, to |-> 5]}

servingVars == <<vars, rpcVars, patchVars, getVars, contractVars, projectionVars, tenancyVars, segmentVars>>

ServingInit ==
    /\ part \in {"lifecycle", "rpc", "patch", "get", "contract", "projection", "tenancy", "segments"}
    /\ Init /\ RpcInit /\ PatchInit /\ GetInit /\ ContractInit /\ ProjectionInit /\ TenancyInit
    /\ SegmentsInit
    /\ part # "rpc" => gate = Gate
    /\ part # "get" => route = Page /\ cacheKind = "browser"

ServingNext ==
    /\ UNCHANGED part
    /\ \/ /\ part = "lifecycle" /\ Next
          /\ UNCHANGED <<rpcVars, patchVars, getVars, contractVars, projectionVars, tenancyVars, segmentVars>>
       \/ /\ part = "rpc" /\ RpcNext
          /\ UNCHANGED <<vars, patchVars, getVars, contractVars, projectionVars, tenancyVars, segmentVars>>
       \/ /\ part = "patch" /\ PatchNext
          /\ UNCHANGED <<vars, rpcVars, getVars, contractVars, projectionVars, tenancyVars, segmentVars>>
       \/ /\ part = "get" /\ GetNext
          /\ UNCHANGED <<vars, rpcVars, patchVars, contractVars, projectionVars, tenancyVars, segmentVars>>
       \/ /\ part = "contract" /\ ContractNext
          /\ UNCHANGED <<vars, rpcVars, patchVars, getVars, projectionVars, tenancyVars, segmentVars>>
       \/ /\ part = "projection" /\ ProjectionNext
          /\ UNCHANGED <<vars, rpcVars, patchVars, getVars, contractVars, tenancyVars, segmentVars>>
       \/ /\ part = "tenancy" /\ TenancyNext
          /\ UNCHANGED <<vars, rpcVars, patchVars, getVars, contractVars, projectionVars, segmentVars>>
       \/ /\ part = "segments" /\ SegmentsNext
          /\ UNCHANGED <<vars, rpcVars, patchVars, getVars, contractVars, projectionVars, tenancyVars>>

\* The fairness of GrpcServer in its own part.
ServingFairness ==
    \A w \in Watchers : WF_vars(part = "lifecycle" /\ Wake(w)) /\ WF_vars(part = "lifecycle" /\ Written(w))

ServingSpec == ServingInit /\ [][ServingNext]_<<part, servingVars>> /\ ServingFairness
=============================================================================
