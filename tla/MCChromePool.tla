---------------------------- MODULE MCChromePool ----------------------------
(* Small instances of ChromePool for TLC. *)
EXTENDS ChromePool
=============================================================================
