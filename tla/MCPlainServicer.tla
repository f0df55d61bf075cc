--------------------------- MODULE MCPlainServicer ---------------------------
(* One unary method, implemented by a plain function, behind a server that *)
(* verifies JWTs.                                                          *)
EXTENDS GrpcRequests

PlainUnary == {[name |-> "plain unary", served |-> TRUE, unary |-> TRUE, plain |-> TRUE,
                decorated |-> FALSE, system |-> FALSE, exempt |-> FALSE]}
Verifying == {[token |-> FALSE, required |-> FALSE, alternate |-> FALSE, jwt |-> TRUE,
               secrets |-> [a \in {} |-> "None"], rules |-> [n \in {} |-> {}]]}
NoMetadata == {[token |-> "None", auth |-> "None"]}
NothingBound == {[jwt |-> "", behalf |-> "None"]}
=============================================================================
