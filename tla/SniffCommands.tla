---------------------------- MODULE SniffCommands ----------------------------
(***************************************************************************)
(* The commands of the tool: an invocation is of one verb, and its steps   *)
(* are that verb's.                                                        *)
(***************************************************************************)
EXTENDS DocumentBatch, CaptureCommand, InitCommand

CommandsInit == InvocationInit /\ loaded = NoFiles /\ spent = FALSE /\ ProjectInit

CommandsNext ==
  \/ BatchNext /\ UNCHANGED project
  \/ CaptureNext /\ UNCHANGED <<loaded, spent, project>>
  \/ InitNext /\ UNCHANGED <<loaded, spent>>

CommandsSpec == CommandsInit /\ [][CommandsNext]_<<invocation, loaded, spent, project>>
=============================================================================
