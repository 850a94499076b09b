-------------------------- MODULE MCFlutterCapture --------------------------
(* Small instances of FlutterCapture for TLC. *)
EXTENDS FlutterCapture
=============================================================================
