--------------------------- MODULE MCSessionState ---------------------------
(* Small instances of SessionState for TLC. *)
EXTENDS SessionState
=============================================================================
