----------------------------- MODULE MCJsonRpc ------------------------------
(* Small instances of JsonRpc for TLC. *)
EXTENDS JsonRpc
=============================================================================
