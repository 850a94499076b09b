----------------------------- MODULE Invocation -----------------------------
(***************************************************************************)
(* One run of a command: what was asked for, the items of its batch one    *)
(* after another (crates/sniff-css/src/input.rs), its errors and exit code *)
(* (crates/sniff-css/src/output.rs), and the files that it reads and       *)
(* leaves.  DocumentBatch, CaptureCommand and InitCommand are the verbs.   *)
(***************************************************************************)
EXTENDS Integers, Sequences, FiniteSets, TLC

CONSTANTS Runs,      \* the invocations
          BatchMax,  \* sniff.batch_max
          MaxClock   \* bound: the seconds the clock advances

VARIABLES run,      \* the invocation
          files,    \* what was written to files
          results,  \* of the items so far
          phase,    \* where the command is
          exit,
          clock     \* SystemTime::now(), in seconds

invocation == <<run, files, results, phase, exit, clock>>

\* The exit codes of the errors that the commands meet.
Invalid  == 2
NotFound == 3
Io       == 5
Internal == 70

NoFiles == [path \in {} |-> 0]

\* A file is written, whatever was in it.
Overwrite(kept, path, content) == [p \in DOMAIN kept \cup {path} |-> IF p = path THEN content ELSE kept[p]]

InvocationInit ==
  /\ run \in Runs
  /\ files = NoFiles
  /\ results = << >>
  /\ phase = "capture"
  /\ exit = 0
  /\ clock = 0

Fail(code) == phase' = "done" /\ exit' = code

\* requests: the batch as a whole, then --dry-run.
Asked ==
  IF run.batch /\ Len(run.items) \notin 1..BatchMax
  THEN Fail(Invalid) /\ UNCHANGED results
  ELSE IF run.dry_run
  THEN /\ results' = [i \in DOMAIN run.items |-> [ok |-> run.items[i] # "malformed"]]
       /\ phase' = "done"
       /\ UNCHANGED exit
  ELSE phase' = "item" /\ UNCHANGED <<results, exit>>

Item == run.items[Len(results) + 1]

\* Mutated: a batch ends at its first failure
FirstFailureEnds(code) ==
  /\ Fail(code)
  /\ results' = IF run.batch THEN Append(results, [ok |-> FALSE]) ELSE results

\* An item's error is its line of a batch, and the end of a single invocation.
ItemFails(code) ==
  IF run.batch
  THEN results' = Append(results, [ok |-> FALSE]) /\ phase' = "item" /\ UNCHANGED exit
  ELSE Fail(code) /\ UNCHANGED results

Refuse ==
  /\ phase = "item"
  /\ Len(results) < Len(run.items)
  /\ Item \in {"malformed", "both_stdin"}
  /\ ItemFails(Invalid)
  /\ UNCHANGED <<run, files, clock>>

Finish ==
  /\ phase = "item"
  /\ Len(results) = Len(run.items)
  /\ phase' = "done"
  /\ UNCHANGED <<run, files, results, exit, clock>>
=============================================================================
