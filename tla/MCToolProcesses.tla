-------------------------- MODULE MCToolProcesses --------------------------
(* Two launches: two browsers, a browser and a remote one, an emulator and the tool. *)
EXTENDS ToolProcesses

CONSTANTS l1, l2

Pair(a, b) == [l \in Launches |-> IF l = l1 THEN a ELSE b]

MCAssigned == {Pair("chrome", "chrome"), Pair("emulator", "flutter"), Pair("remote", "none")}
=============================================================================
