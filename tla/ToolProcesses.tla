---------------------------- MODULE ToolProcesses ----------------------------
(***************************************************************************)
(* The processes that captures start and the endpoints they hand out:      *)
(* Chromium with its profile directory (crates/sniff-cdp/src/browser.rs),  *)
(* `flutter --machine` (crates/sniff-flutter/src/machine.rs), the Android  *)
(* emulator (crates/sniff-flutter/src/device.rs), and a browser that is    *)
(* already running, asked over HTTP (crates/sniff-cdp/src/endpoint.rs).    *)
(*                                                                         *)
(* A child writes lines to a pipe and blocks while the pipe is full and    *)
(* somebody holds its other end.  A line names the endpoint or is noise.   *)
(***************************************************************************)
EXTENDS Integers, Sequences, FiniteSets

CONSTANTS Launches,  \* the launches of one process of sniff
          Assigned,  \* the tools they may launch: a set of functions
          PipeSize,  \* lines that fit in a pipe
          MaxLines,  \* bound: lines that a child writes
          Deadline,  \* bound: the clock ticks of a launch timeout
          Polls      \* how often Drop looks at the child, and tries to remove the directory

Tools == {"none", "chrome", "flutter", "emulator", "remote"}

ASSUME Assignments == Assigned \subseteq [Launches -> Tools]

ASSUME Sizes == /\ PipeSize \in Nat \ {0} /\ MaxLines \in Nat /\ Deadline \in Nat
                /\ Polls \in Nat \ {0}

VARIABLES
  tool,     \* what each launch launches
  stage,    \* where it is
  child,    \* its process
  wants,    \* the line its process is writing: on which stream, and what
  printed,  \* lines it has written, or is writing
  pipe,     \* the lines in each of its pipes
  elapsed,  \* the ticks that the launch has waited
  profile,  \* the number in the name of its profile directory
  disk,     \* the profile directories that exist
  seq,      \* TEMP_SEQ
  tries,    \* how often Drop has looked, or tried
  online    \* the devices that adb lists, in its order

toolVars == <<tool, stage, child, wants, printed, pipe, elapsed, profile, disk, seq, tries, online>>

Streams == {"awaited", "other"}
Lines   == {"noise", "endpoint"}
Silent  == [stream |-> "none", line |-> "none"]

Set(f, l, value) == [f EXCEPT ![l] = value]

ToolsInit ==
  /\ tool \in Assigned
  /\ stage = [l \in Launches |-> "idle"]
  /\ child = [l \in Launches |-> "none"]
  /\ wants = [l \in Launches |-> Silent]
  /\ printed = [l \in Launches |-> 0]
  /\ pipe = [l \in Launches |-> [s \in Streams |-> << >>]]
  /\ elapsed = [l \in Launches |-> 0]
  /\ profile = [l \in Launches |-> 0]
  /\ disk = {}
  /\ seq = 1
  /\ tries = [l \in Launches |-> 0]
  /\ online \in {<< >>, <<"other">>}

-----------------------------------------------------------------------------
(* The processes. *)

\* Who reads a stream: Chromium's stderr and the flutter tool's stdout are read while the
\* launch waits, the emulator's stderr is drained all along, the flutter tool's stderr is
\* piped and never read.  Nobody holds the other end of a stream that was read to the endpoint.
Held(l, stream) ==
  CASE tool[l] = "flutter" /\ stream = "other" -> stage[l] = "waiting"
    [] tool[l] = "emulator" -> TRUE
    [] OTHER -> stage[l] = "waiting"

Wants(l, stream, line) ==
  /\ child[l] = "running"
  /\ wants[l] = Silent
  /\ printed[l] < MaxLines
  /\ (stream = "other") => (tool[l] = "flutter" /\ line = "noise")
  /\ wants' = Set(wants, l, [stream |-> stream, line |-> line])
  /\ printed' = Set(printed, l, printed[l] + 1)
  /\ UNCHANGED <<tool, stage, child, pipe, elapsed, profile, disk, seq, tries, online>>

Write(l) ==
  /\ child[l] = "running"
  /\ wants[l] # Silent
  /\ LET s == wants[l].stream
     IN  IF Held(l, s)
         THEN /\ Len(pipe[l][s]) < PipeSize
              /\ pipe' = [pipe EXCEPT ![l][s] = Append(@, wants[l].line)]
         ELSE UNCHANGED pipe
  /\ wants' = Set(wants, l, Silent)
  /\ UNCHANGED <<tool, stage, child, printed, elapsed, profile, disk, seq, tries, online>>

\* On its own, between two lines, or killed.
Exit(l) ==
  /\ \/ child[l] = "running" /\ wants[l] = Silent
     \/ child[l] = "killed"
  /\ child' = Set(child, l, "exited")
  /\ wants' = Set(wants, l, Silent)
  /\ UNCHANGED <<tool, stage, printed, pipe, elapsed, profile, disk, seq, tries, online>>

Die(l) == child[l] = "killed" /\ Exit(l)

Kill(l) == IF child[l] = "running" THEN Set(child, l, "killed") ELSE child

-----------------------------------------------------------------------------
(* BrowserProcess::launch, FlutterMachine::run and attach, EmulatorProcess::launch,
   resolve_endpoint *)

\* Mutated: the directory is named after the process alone
SameName(n) == 1

\* sniff-cdp-{pid}-{seq}
ProfileName(n) == n

Spawn(l) ==
  /\ stage[l] = "idle"
  /\ tool[l] # "none"
  /\ stage' = Set(stage, l, "waiting")
  /\ child' = Set(child, l, "running")
  /\ IF tool[l] = "chrome"
     THEN /\ profile' = Set(profile, l, ProfileName(seq))
          /\ disk' = disk \cup {ProfileName(seq)}
          /\ seq' = seq + 1
     ELSE UNCHANGED <<profile, disk, seq>>
  /\ UNCHANGED <<tool, wants, printed, pipe, elapsed, tries, online>>

\* The binary is not there: the directory made for it is removed again.
SpawnFails(l) ==
  /\ stage[l] = "idle"
  /\ tool[l] # "none"
  /\ stage' = Set(stage, l, "failed")
  /\ seq' = IF tool[l] = "chrome" THEN seq + 1 ELSE seq
  /\ UNCHANGED <<tool, child, wants, printed, pipe, elapsed, profile, disk, tries, online>>

\* Mutated: the error is returned, and that is all
JustFail(l) == stage' = Set(stage, l, "failed") /\ UNCHANGED <<child, disk>>

\* The child is killed.  Its directory is removed at once and only once, while the child may
\* be writing to it.
FailLaunch(l) ==
  /\ stage' = Set(stage, l, "failed")
  /\ IF tool[l] = "remote" THEN UNCHANGED child ELSE child' = Kill(l)
  /\ IF tool[l] = "chrome"
     THEN \/ disk' = disk \ {profile[l]}
          \/ child[l] # "exited" /\ UNCHANGED disk
     ELSE UNCHANGED disk

Up(l) == stage' = Set(stage, l, "up") /\ UNCHANGED <<child, disk>>

\* The FlutterMachine ends with the block that waited for its URI, before it is connected to.
Answered(l) ==
  IF tool[l] = "flutter" THEN stage' = Set(stage, l, "gone") /\ child' = Kill(l) /\ UNCHANGED disk
  ELSE Up(l)

\* wait_for_endpoint, scan_machine_output, http_get_json: the next line of the child.  After
\* a line of noise Chromium is asked whether it is still there.
Read(l) ==
  /\ stage[l] = "waiting" /\ tool[l] # "emulator"
  /\ LET unread == pipe[l]["awaited"]
     IN  /\ unread # << >>
         /\ pipe' = [pipe EXCEPT ![l]["awaited"] = Tail(@)]
         /\ IF Head(unread) = "endpoint" THEN Answered(l)
            ELSE IF tool[l] = "remote" \/ (tool[l] = "chrome" /\ child[l] = "exited")
            THEN FailLaunch(l)
            ELSE UNCHANGED <<stage, child, disk>>
  /\ UNCHANGED <<tool, wants, printed, elapsed, profile, seq, tries, online>>

\* The end of the output: to Chromium's launch the same as the timeout.
ReadEof(l) ==
  /\ stage[l] = "waiting" /\ tool[l] # "emulator"
  /\ child[l] = "exited" /\ pipe[l]["awaited"] = << >>
  /\ FailLaunch(l)
  /\ UNCHANGED <<tool, wants, printed, pipe, elapsed, profile, seq, tries, online>>

\* wait_for_vm_service, before it reads: a tool that has ended is an error, whatever it said.
FindExited(l) ==
  /\ stage[l] = "waiting" /\ tool[l] = "flutter"
  /\ elapsed[l] = 0 /\ child[l] = "exited"
  /\ FailLaunch(l)
  /\ UNCHANGED <<tool, wants, printed, pipe, elapsed, profile, seq, tries, online>>

\* Mutated: an emulator's stderr is piped, and that is all
NobodyDrains(l) == FALSE /\ UNCHANGED toolVars

\* The task that reads an emulator's stderr.
Drain(l) ==
  /\ tool[l] = "emulator"
  /\ pipe[l]["awaited"] # << >>
  /\ pipe' = [pipe EXCEPT ![l]["awaited"] = Tail(@)]
  /\ UNCHANGED <<tool, stage, child, wants, printed, elapsed, profile, disk, seq, tries, online>>

\* list_devices fails, and wait_for_any_device with it.
AdbFails(l) ==
  /\ stage[l] = "waiting" /\ tool[l] = "emulator"
  /\ FailLaunch(l)
  /\ UNCHANGED <<tool, wants, printed, pipe, elapsed, profile, seq, tries, online>>

\* wait_for_any_device: the first one listed will do.
PollDevices(l) ==
  /\ stage[l] = "waiting" /\ tool[l] = "emulator"
  /\ online # << >>
  /\ Up(l)
  /\ UNCHANGED <<tool, wants, printed, pipe, elapsed, profile, seq, tries, online>>

\* Mutated: the timeout is for an output that has ended
AtEofOnly(l) == elapsed[l] = Deadline /\ child[l] = "exited"

Overdue(l) == elapsed[l] = Deadline

\* A browser that is asked over HTTP has all the time it wants.
Timeout(l) ==
  /\ stage[l] = "waiting" /\ tool[l] # "remote"
  /\ Overdue(l)
  /\ FailLaunch(l)
  /\ UNCHANGED <<tool, wants, printed, pipe, elapsed, profile, seq, tries, online>>

Clock(l) ==
  /\ stage[l] = "waiting"
  /\ elapsed[l] < Deadline
  /\ elapsed' = Set(elapsed, l, elapsed[l] + 1)
  /\ UNCHANGED <<tool, stage, child, wants, printed, pipe, profile, disk, seq, tries, online>>

\* The emulator boots; another device is plugged in.
Boot(l) ==
  /\ tool[l] = "emulator" /\ child[l] = "running"
  /\ \A k \in DOMAIN online : online[k] # "emulator"
  /\ online' = Append(online, "emulator")
  /\ UNCHANGED <<tool, stage, child, wants, printed, pipe, elapsed, profile, disk, seq, tries>>

-----------------------------------------------------------------------------
(* Drop *)

Drop(l) ==
  /\ stage[l] = "up"
  /\ IF tool[l] = "remote" THEN UNCHANGED child ELSE child' = Kill(l)
  /\ stage' = Set(stage, l, IF tool[l] = "chrome" THEN "reaping" ELSE "gone")
  /\ UNCHANGED <<tool, wants, printed, pipe, elapsed, profile, disk, seq, tries, online>>

\* A killed child may still be there after the last look at it: the removal begins all the same.
AwaitExit(l) ==
  /\ stage[l] = "reaping"
  /\ IF child[l] = "exited" \/ tries[l] + 1 = Polls
     THEN stage' = Set(stage, l, "removing") /\ tries' = Set(tries, l, 0)
     ELSE tries' = Set(tries, l, tries[l] + 1) /\ UNCHANGED stage
  /\ UNCHANGED <<tool, child, wants, printed, pipe, elapsed, profile, disk, seq, online>>

\* The browser, or a helper that outlives it, still writes; after the last attempt the
\* directory is left where it is.
RemoveFails(l) ==
  /\ stage[l] = "removing"
  /\ tries' = Set(tries, l, tries[l] + 1)
  /\ stage' = Set(stage, l, IF tries[l] + 1 = Polls THEN "gone" ELSE "removing")
  /\ UNCHANGED <<tool, child, wants, printed, pipe, elapsed, profile, disk, seq, online>>

Remove(l) ==
  /\ stage[l] = "removing"
  /\ disk' = disk \ {profile[l]}
  /\ stage' = Set(stage, l, "gone")
  /\ UNCHANGED <<tool, child, wants, printed, pipe, elapsed, profile, seq, tries, online>>

ToolsNext ==
  \E l \in Launches :
    \/ \E s \in Streams, line \in Lines : Wants(l, s, line)
    \/ Write(l) \/ Exit(l)
    \/ Spawn(l) \/ SpawnFails(l) \/ Read(l) \/ ReadEof(l) \/ Drain(l)
    \/ FindExited(l) \/ AdbFails(l) \/ PollDevices(l) \/ Timeout(l) \/ Clock(l) \/ Boot(l)
    \/ Drop(l) \/ AwaitExit(l) \/ RemoveFails(l) \/ Remove(l)

\* The runtime polls what is ready, the clock goes on, the system runs a process that is not
\* blocked, and ends one that was killed.
ToolsFairness ==
  \A l \in Launches :
    /\ WF_toolVars(Write(l)) /\ WF_toolVars(Die(l)) /\ WF_toolVars(Drain(l))
    /\ WF_toolVars(Read(l)) /\ WF_toolVars(ReadEof(l)) /\ WF_toolVars(Timeout(l)) /\ WF_toolVars(Clock(l))
    /\ WF_toolVars(AwaitExit(l)) /\ WF_toolVars(Remove(l) \/ RemoveFails(l))

ToolsSpec == ToolsInit /\ [][ToolsNext]_toolVars /\ ToolsFairness

-----------------------------------------------------------------------------

ToolsTypeOK ==
  /\ tool \in Assigned
  /\ stage \in [Launches -> {"idle", "waiting", "up", "failed", "reaping", "removing", "gone"}]
  /\ child \in [Launches -> {"none", "running", "killed", "exited"}]
  /\ wants \in [Launches -> {Silent} \cup [stream : Streams, line : Lines]]
  /\ printed \in [Launches -> 0..MaxLines]
  /\ pipe \in [Launches -> [Streams -> Seq(Lines)]]
  /\ \A l \in Launches : \A s \in Streams : Len(pipe[l][s]) <= PipeSize
  /\ elapsed \in [Launches -> 0..Deadline]
  /\ seq \in Nat \ {0} /\ disk \subseteq 1..(seq - 1) /\ profile \in [Launches -> 0..(seq - 1)]
  /\ tries \in [Launches -> 0..Polls]
  /\ \A l \in Launches : stage[l] # "gone" => tries[l] < Polls

\* A launch that failed, and one whose handle was dropped, leave no process behind that
\* nobody has told to end, whatever it was writing.
NoStrays ==
  \A l \in Launches :
    stage[l] \in {"failed", "reaping", "removing", "gone"} /\ tool[l] # "remote" => child[l] # "running"

\* "Temp user-data dir to remove on drop": while a browser may be in use its profile
\* directory is there and no other's, so that dropping one, or failing to launch one, does not
\* remove another's; and one that was dropped leaves its own behind only when every attempt to
\* remove it has failed.
ProfileKept ==
  \A l \in Launches : tool[l] = "chrome" =>
    /\ stage[l] \in {"waiting", "up"} =>
         /\ profile[l] \in disk
         /\ \A k \in Launches \ {l} : stage[k] # "idle" /\ tool[k] = "chrome" => profile[k] # profile[l]
    /\ stage[l] = "gone" => profile[l] \notin disk \/ tries[l] = Polls

\* "Drain stderr in the background so the child never blocks on a full pipe buffer": an
\* emulator, and a browser, writes the line that it is writing, or has been told to end.
NeverStuck ==
  \A l \in Launches :
    (tool[l] \in {"chrome", "emulator"} /\ wants[l] # Silent) ~> (wants[l] = Silent \/ child[l] = "killed")

\* A launch ends, with an endpoint or without, even when the child is silent, blocked on a
\* pipe that nobody reads, or killed; so does dropping a browser; and a child that
\* is used after its launch is never stuck.
LaunchEnds ==
  /\ NeverStuck
  /\ \A l \in Launches :
       /\ (stage[l] = "waiting" /\ tool[l] # "remote") ~> stage[l] # "waiting"
       /\ stage[l] \in {"reaping", "removing"} ~> stage[l] = "gone"
=============================================================================
