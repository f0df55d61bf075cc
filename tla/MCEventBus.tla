----------------------------- MODULE MCEventBus -----------------------------
(* A bus by itself: one start() and one stop(). *)
EXTENDS EventBus
=============================================================================
