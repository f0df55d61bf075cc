----------------------------- MODULE MCMessaging -----------------------------
(* Instances of the messaging components, each checked by itself: `part'   *)
(* says which one a behaviour is about, and the others stand still.        *)
EXTENDS DurableConsumer, NATSClient, EventBus, StreamAdmin

VARIABLE part

OwnSubject == [s \in Members |-> {s}]
MixedDurables ==
    [s \in Members |-> [subject |-> IF s = "a" THEN "" ELSE s, group |-> IF s = "c" THEN "g" ELSE ""]]

MessagingInit ==
    /\ part \in {"consumer", "client", "bus", "stream"}
    /\ Init /\ NatsInit /\ BusInit /\ AdminInit
    /\ part # "bus" => busEnabled

MessagingNext ==
    /\ UNCHANGED part
    /\ \/ part = "consumer" /\ Next /\ UNCHANGED <<natsVars, busVars, adminVars>>
       \/ part = "client" /\ NatsNext /\ UNCHANGED <<vars, busVars, adminVars>>
       \/ part = "bus" /\ BusNext /\ UNCHANGED <<vars, natsVars, adminVars>>
       \/ part = "stream" /\ AdminNext /\ UNCHANGED <<vars, natsVars, busVars>>

\* The fairness of DurableConsumer, in its own part.
MessagingFairness ==
    /\ \A r \in Replicas : /\ WF_vars(part = "consumer" /\ Step(r))
                           /\ WF_vars(part = "consumer" /\ Reconnect(r))
    /\ \A m \in Messages : WF_vars(part = "consumer" /\ Due(m))

MessagingSpec ==
    MessagingInit /\ [][MessagingNext]_<<part, vars, natsVars, busVars, adminVars>> /\ MessagingFairness

\* SettledUnlessClosed, of the consumer's own behaviours.
ConsumerSettles == part = "consumer" => SettledUnlessClosed
=============================================================================
