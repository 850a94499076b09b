--------------------------- MODULE FlutterCapture ---------------------------
(***************************************************************************)
(* A Flutter capture, as the MCP tool (crates/sniff-css-mcp/src/server.rs, *)
(* sniff_flutter_page) and the CLI (crates/sniff-css/src/commands/         *)
(* capture.rs, run_flutter) run it, with what it does to the two things it *)
(* shares with every other capture of the device: the window size          *)
(* (crates/sniff-flutter/src/device.rs) and the app's time dilation        *)
(* (crates/sniff-flutter/src/inspector.rs).                                *)
(*                                                                         *)
(* No semaphore bounds these captures: they may overlap.  A capture's      *)
(* requested size is the capture itself; "original" is the size the device *)
(* had.  Every await of a capture may fail or be cancelled, and the        *)
(* guard's Drop then spawns a task that restores the size.                 *)
(***************************************************************************)
EXTENDS Naturals, FiniteSets

CONSTANTS Captures,     \* the captures of one device
          Sized,        \* those with a viewport
          Attached,     \* those that attach to the running app
          Acting,       \* those with actions
          Cli,          \* those that are a process of their own
          MaxAdbFails   \* bound: adb commands that fail while restoring

ASSUME Kinds == /\ Sized \subseteq Captures /\ Attached \subseteq Captures
                /\ Acting \subseteq Captures /\ Cli \subseteq Captures
                /\ MaxAdbFails \in Nat
                /\ "original" \notin Captures

VARIABLES
  pc,        \* where each capture is
  prev,      \* ViewportGuard.prev
  size,      \* the device's window size
  dilation,  \* the app's timeDilation: real (1.0) or frozen (1e6)
  drops,     \* captures whose guard was dropped, and whose restore task has not run
  adbFails,  \* number of restores that failed
  shared,    \* history: captures that did not have the device to themselves
  orphaned   \* history: failed captures that leave nobody to restore the size

history == <<shared, orphaned>>
vars    == <<pc, prev, size, dilation, drops, adbFails, history>>

Finished == {"done", "failed"}
Idle     == {"idle"} \cup Finished
Sizes    == Captures \cup {"original"}

Goto(c, l) == pc' = [pc EXCEPT ![c] = l]

Init ==
  /\ pc = [c \in Captures |-> "idle"]
  /\ prev = [c \in Captures |-> "original"]
  /\ size = "original"
  /\ dilation = "real"
  /\ drops = {}
  /\ adbFails = 0
  /\ shared = {}
  /\ orphaned = {}

-----------------------------------------------------------------------------
Busy == {d \in Captures : pc[d] \notin Idle}

Begin(c) ==
  /\ pc[c] = "idle"
  /\ shared' = IF Busy = {} /\ drops = {} THEN shared ELSE shared \cup Busy \cup {c}
  /\ Goto(c, IF c \in Sized THEN "reading" ELSE "launching")
  /\ UNCHANGED <<prev, size, dilation, drops, adbFails, orphaned>>

(* ViewportGuard::apply *)

\* wm_size(serial)
ReadSize(c) ==
  /\ pc[c] = "reading"
  /\ prev' = [prev EXCEPT ![c] = size]
  /\ Goto(c, "sizing")
  /\ UNCHANGED <<size, dilation, drops, adbFails, history>>

\* set_wm_size(serial, width, height)
SetSize(c) ==
  /\ pc[c] = "sizing"
  /\ size' = c
  /\ Goto(c, "launching")
  /\ UNCHANGED <<prev, dilation, drops, adbFails, history>>

\* Mutated: the guard lives as long as the block that launches the app
LaunchDropsGuard(c) ==
  /\ pc[c] = "launching"
  /\ dilation' = IF c \in Attached THEN dilation ELSE "real"
  /\ drops' = IF c \in Sized THEN drops \cup {c} ELSE drops
  /\ Goto(c, "connected")
  /\ UNCHANGED <<prev, size, adbFails, history>>

\* FlutterMachine, wait_for_vm_service, FlutterInspector::connect.  `flutter run` starts
\* the app anew.
Launch(c) ==
  /\ pc[c] = "launching"
  /\ dilation' = IF c \in Attached THEN dilation ELSE "real"
  /\ Goto(c, "connected")
  /\ UNCHANGED <<prev, size, drops, adbFails, history>>

\* Mutated: nothing is undone before the capture
ConnectKeepsDilation(c) ==
  /\ pc[c] = "connected"
  /\ Goto(c, IF c \in Acting THEN "acting" ELSE "freezing")
  /\ UNCHANGED <<prev, size, dilation, drops, adbFails, history>>

\* "A previous capture may have left the app frozen": set_time_dilation(1.0)
ResetDilation(c) ==
  /\ pc[c] = "connected"
  /\ dilation' = "real"
  /\ Goto(c, IF c \in Acting THEN "acting" ELSE "freezing")
  /\ UNCHANGED <<prev, size, drops, adbFails, history>>

\* The actions succeed at real time only; a frozen app makes the driver time out.
Act(c) ==
  /\ pc[c] = "acting"
  /\ dilation = "real"
  /\ Goto(c, "freezing")
  /\ UNCHANGED <<prev, size, dilation, drops, adbFails, history>>

\* freeze_animations
Freeze(c) ==
  /\ pc[c] = "freezing"
  /\ dilation' = "frozen"
  /\ Goto(c, "extracting")
  /\ UNCHANGED <<prev, size, drops, adbFails, history>>

\* extract is over: set_time_dilation(1.0), then the screenshot, the connection's close,
\* the payload and its files.
Unfreeze(c) ==
  /\ pc[c] = "extracting"
  /\ dilation' = "real"
  /\ Goto(c, "finishing")
  /\ UNCHANGED <<prev, size, drops, adbFails, history>>

(* The end of a capture. *)

\* Mutated: the guard does nothing when it is dropped
DropIdle(c) == UNCHANGED drops

\* ViewportGuard::drop spawns the restore, whether or not it was done already.
Drop(c) == drops' = IF c \in Sized THEN drops \cup {c} ELSE drops

AdbFails == adbFails < MaxAdbFails /\ adbFails' = adbFails + 1

\* guard.restore(), a failure is only a warning; then the guard is dropped.
Restore(c) ==
  /\ pc[c] = "finishing"
  /\ \/ c \in Sized /\ size' = prev[c] /\ UNCHANGED adbFails
     \/ c \in Sized /\ AdbFails /\ UNCHANGED size
     \/ c \notin Sized /\ UNCHANGED <<size, adbFails>>
  /\ Drop(c)
  /\ Goto(c, "done")
  /\ UNCHANGED <<prev, dilation, history>>

\* An error or a cancellation, at any await; before the guard exists nothing is dropped.
Fail(c) ==
  /\ pc[c] \notin Idle \cup {"sizing"}
  /\ IF pc[c] = "reading" THEN UNCHANGED drops ELSE Drop(c)
  /\ Goto(c, "failed")
  /\ UNCHANGED <<prev, size, dilation, adbFails, history>>

\* set_wm_size fails or is cancelled, maybe after adb has done it, and there is no guard yet.
SizingFails(c) ==
  /\ pc[c] = "sizing"
  /\ \/ UNCHANGED <<size, orphaned>>
     \/ size' = c /\ orphaned' = orphaned \cup {c}
  /\ Goto(c, "failed")
  /\ UNCHANGED <<prev, dilation, drops, adbFails, shared>>

\* The spawned task: restore_wm_size, its result ignored.
RestoreDropped(c) ==
  /\ c \in drops
  /\ drops' = drops \ {c}
  /\ \/ size' = prev[c] /\ UNCHANGED adbFails
     \/ AdbFails /\ UNCHANGED size
  /\ UNCHANGED <<pc, prev, dilation, history>>

\* A CLI process exits when its capture has ended; its runtime drops the spawned task.
Exit(c) ==
  /\ c \in Cli \cap drops
  /\ pc[c] \in Finished
  /\ drops' = drops \ {c}
  /\ orphaned' = IF pc[c] = "failed" THEN orphaned \cup {c} ELSE orphaned
  /\ UNCHANGED <<pc, prev, size, dilation, adbFails, shared>>

-----------------------------------------------------------------------------
Capture(c) == \/ Begin(c) \/ ReadSize(c) \/ SetSize(c) \/ Launch(c) \/ ResetDilation(c)
              \/ Act(c) \/ Freeze(c) \/ Unfreeze(c) \/ Restore(c) \/ Fail(c)
              \/ SizingFails(c) \/ RestoreDropped(c) \/ Exit(c)

Next == \E c \in Captures : Capture(c)

Spec == Init /\ [][Next]_vars

-----------------------------------------------------------------------------
(* Properties. *)

TypeOK ==
  /\ pc \in [Captures -> {"reading", "sizing", "launching", "connected", "acting", "freezing",
                          "extracting", "finishing"} \cup Idle]
  /\ prev \in [Captures -> Sizes]
  /\ size \in Sizes
  /\ dilation \in {"real", "frozen"}
  /\ drops \subseteq Sized
  /\ adbFails \in 0..MaxAdbFails
  /\ shared \subseteq Captures /\ orphaned \subseteq Sized

Quiet == drops = {} /\ \A c \in Captures : pc[c] \in Idle

\* Actions are performed on an app that runs at real time, whatever the captures before
\* this one left behind, if this one has the device to itself.
ActsAtRealTime == \A c \in Captures \ shared : pc[c] = "acting" => dilation = "real"

\* "which the captured widget-tree rects reflect": a capture with a viewport reads the tree
\* laid out for that viewport, if neither a capture nor a pending restore is around.
OwnSizeWhileExtracting == \A c \in Sized \ shared : pc[c] = "extracting" => size = c

\* "restaura o tamanho anterior ao final, inclusive em caminhos de erro (Drop backstop)":
\* once nothing is running any more the device has the size it had, if the sized captures had
\* it to themselves, adb worked, and every failed one still had its backstop.
SizeRestored ==
  Quiet /\ Sized \cap shared = {} /\ adbFails = 0 /\ orphaned = {} => size = "original"

\* "o timeDilation é restaurado ao final da captura - o app nunca fica travado": once
\* nothing is running any more the app is not frozen.
LeftAtRealTime == Quiet => dilation = "real"
=============================================================================
