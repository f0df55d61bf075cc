---------------------- MODULE MCPlatformPermsResolver ----------------------
(* A small instance of PlatformPermsResolver. *)
EXTENDS PlatformPermsResolver
=============================================================================
