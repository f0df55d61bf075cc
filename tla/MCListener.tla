----------------------------- MODULE MCListener -----------------------------
(* Instances of LeaderElectedListener; its configurations set the bounds. *)
EXTENDS LeaderElectedListener
=============================================================================
