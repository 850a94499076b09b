--------------------------- MODULE MCNetworkIdle ----------------------------
(* Small instances of NetworkIdle for TLC. *)
EXTENDS NetworkIdle
=============================================================================
