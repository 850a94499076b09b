---------------------------- MODULE MCCdpSession ----------------------------
(* Small instances of CdpSession for TLC. *)
EXTENDS CdpSession
=============================================================================
