-------------------------- MODULE MCDurableConsumer --------------------------
(* The consumer by itself. *)
EXTENDS DurableConsumer
=============================================================================
