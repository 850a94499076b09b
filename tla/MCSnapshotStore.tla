-------------------------- MODULE MCSnapshotStore --------------------------
(* Small instances of SnapshotStore for TLC: two captures of one target and one of another,
   with payloads of different lengths. *)
EXTENDS SnapshotStore

CONSTANTS a1, a2, b1, c1, c2

MCTargetOf == [s \in {a1, a2, b1, c1, c2} |-> IF s = b1 THEN "other" ELSE "card"]

MCBlocksOf == [s \in Mcp \cup Cli |-> IF s \in {a2, c1} THEN 1 ELSE 2]
=============================================================================
