---------------------------- MODULE SnapshotStore ----------------------------
(***************************************************************************)
(* The snapshot tree sniff/[domain]/[UTC]-[target].[ext]: written by the   *)
(* MCP server through a temporary file and a rename                        *)
(* (crates/sniff-css-mcp/src/store.rs) and by the CLI in place             *)
(* (crates/sniff-css/src/commands/capture.rs, persist_snapshot), named by  *)
(* crates/sniff-core/src/snapshot.rs.                                      *)
(*                                                                         *)
(* The file system is POSIX's: a directory maps paths to files, opening    *)
(* with truncation empties the file every other descriptor of it sees, a   *)
(* rename moves the entry.  A payload is a sequence of blocks, and a block *)
(* is the saver that wrote it.                                             *)
(***************************************************************************)
EXTENDS Naturals, Sequences

CONSTANTS Mcp,        \* the calls of SnapshotStore::save and save_bytes
          Cli,        \* the calls of persist_snapshot
          TargetOf,   \* saver -> domain, path slug, selector slug and extension
          BlocksOf,   \* saver -> length of its payload
          MaxSeconds  \* bound: the seconds the clock advances

Savers == Mcp \cup Cli

ASSUME SaversDisjoint == Mcp \cap Cli = {}
ASSUME PayloadsNat == /\ BlocksOf \in [Savers -> Nat \ {0}]
                      /\ Savers \subseteq DOMAIN TargetOf
                      /\ MaxSeconds \in Nat

VARIABLES
  now,        \* SystemTime::now(), in seconds
  pc,         \* where each saver is
  name,       \* the file name each saver computed
  dir,        \* the directory entries: path -> file
  content,    \* file -> the blocks in it
  open,       \* the file each saver has open for writing
  written,    \* how many blocks each saver has written
  gitignore   \* the root's .gitignore: absent, empty (just created), written

vars == <<now, pc, name, dir, content, open, written, gitignore>>

Finished == {"ok", "error", "dead"}
Names    == [stamp : 0..MaxSeconds, target : {TargetOf[s] : s \in Savers}]
NoName   == [stamp |-> MaxSeconds + 1]

Final(n) == [dir |-> "final", of |-> n]

\* Mutated: the temporary file is named after the target only
TempPerTarget(n) == [dir |-> "temp", of |-> [stamp |-> 0, target |-> n.target]]

\* parent.join(format!(".{name}.tmp"))
Temp(n) == [dir |-> "temp", of |-> n]

Paths    == {Final(n) : n \in Names} \cup {Temp(n) : n \in Names}
Published == {n \in Names : Final(n) \in DOMAIN dir}

Payload(s) == [k \in 1..BlocksOf[s] |-> s]
Whole(c)   == \E s \in Savers : c = Payload(s)

\* A block written at its place; a gap before it is a hole.
Put(c, k, s) ==
  [i \in 1..(IF k > Len(c) THEN k ELSE Len(c)) |->
     IF i = k THEN s ELSE IF i <= Len(c) THEN c[i] ELSE "hole"]

Goto(s, l) == pc' = [pc EXCEPT ![s] = l]

Init ==
  /\ now = 0
  /\ pc = [s \in Savers |-> "start"]
  /\ name = [s \in Savers |-> NoName]
  /\ dir = [p \in {} |-> 0]
  /\ content = << >>
  /\ open = [s \in Savers |-> 0]
  /\ written = [s \in Savers |-> 0]
  /\ gitignore = "absent"

-----------------------------------------------------------------------------
Tick ==
  /\ now < MaxSeconds
  /\ now' = now + 1
  /\ UNCHANGED <<pc, name, dir, content, open, written, gitignore>>

(* ensure_gitignored *)

\* gitignore.exists(), whatever is in it
CheckIgnored(s) ==
  /\ pc[s] = "start"
  /\ Goto(s, IF gitignore = "absent" THEN "missing" ELSE "ready")
  /\ UNCHANGED <<now, name, dir, content, open, written, gitignore>>

\* fs::write opens the file, empty; a saver that found it missing too empties it again
CreateIgnored(s) ==
  /\ pc[s] = "missing"
  /\ gitignore' = "empty"
  /\ Goto(s, "ignoring")
  /\ UNCHANGED <<now, name, dir, content, open, written>>

\* and writes its line.
WriteIgnored(s) ==
  /\ pc[s] = "ignoring"
  /\ gitignore' = "written"
  /\ Goto(s, "ready")
  /\ UNCHANGED <<now, name, dir, content, open, written>>

(* save, save_bytes, persist_snapshot *)

\* snapshot_file_name reads the clock.
ComputeName(s) ==
  /\ pc[s] = "ready"
  /\ name' = [name EXCEPT ![s] = [stamp |-> now, target |-> TargetOf[s]]]
  /\ Goto(s, "named")
  /\ UNCHANGED <<now, dir, content, open, written, gitignore>>

\* File::create: an existing file is emptied, a missing one made.
OpenTruncated(s, path) ==
  IF path \in DOMAIN dir
  THEN /\ content' = [content EXCEPT ![dir[path]] = << >>]
       /\ open' = [open EXCEPT ![s] = dir[path]]
       /\ UNCHANGED dir
  ELSE /\ content' = Append(content, << >>)
       /\ open' = [open EXCEPT ![s] = Len(content) + 1]
       /\ dir' = [p \in DOMAIN dir \cup {path} |-> IF p = path THEN Len(content) + 1 ELSE dir[p]]

\* Mutated: the MCP server writes in place too
CreateInPlace(s) ==
  /\ pc[s] = "named"
  /\ OpenTruncated(s, Final(name[s]))
  /\ Goto(s, "writing")
  /\ UNCHANGED <<now, name, written, gitignore>>

\* The server creates the temporary file, the CLI the final one.
Create(s) ==
  /\ pc[s] = "named"
  /\ OpenTruncated(s, IF s \in Mcp THEN Temp(name[s]) ELSE Final(name[s]))
  /\ Goto(s, "writing")
  /\ UNCHANGED <<now, name, written, gitignore>>

\* write_all, a block at a time.
WriteBlock(s) ==
  /\ pc[s] = "writing"
  /\ written[s] < BlocksOf[s]
  /\ content' = [content EXCEPT ![open[s]] = Put(@, written[s] + 1, s)]
  /\ written' = [written EXCEPT ![s] = @ + 1]
  /\ UNCHANGED <<now, pc, name, dir, open, gitignore>>

\* Creating or writing a file fails, with a full disk, say: the error is returned, what was
\* written stays.
WriteFails(s) ==
  /\ pc[s] \in {"missing", "ignoring", "named", "writing"}
  /\ Goto(s, "error")
  /\ UNCHANGED <<now, name, dir, content, open, written, gitignore>>

\* The CLI is done once everything is written.
FinishInPlace(s) ==
  /\ s \in Cli
  /\ pc[s] = "writing" /\ written[s] = BlocksOf[s]
  /\ Goto(s, "ok")
  /\ UNCHANGED <<now, name, dir, content, open, written, gitignore>>

Move(from, to) ==
  dir' = [p \in (DOMAIN dir \ {from}) \cup {to} |-> IF p = to THEN dir[from] ELSE dir[p]]

\* fs::rename over whatever has the final name; an error when the temporary file is gone.
Rename(s) ==
  /\ s \in Mcp
  /\ pc[s] = "writing" /\ written[s] = BlocksOf[s]
  /\ \/ /\ Temp(name[s]) \in DOMAIN dir
        /\ Move(Temp(name[s]), Final(name[s]))
        /\ Goto(s, "ok")
     \/ /\ Temp(name[s]) \notin DOMAIN dir
        /\ Goto(s, "error")
        /\ UNCHANGED dir
  /\ UNCHANGED <<now, name, content, open, written, gitignore>>

\* The saver's process is killed.
Die(s) ==
  /\ pc[s] \notin {"start"} \cup Finished
  /\ Goto(s, "dead")
  /\ UNCHANGED <<now, name, dir, content, open, written, gitignore>>

-----------------------------------------------------------------------------
Save(s) == \/ CheckIgnored(s) \/ CreateIgnored(s) \/ WriteIgnored(s) \/ ComputeName(s)
           \/ Create(s) \/ WriteBlock(s)
           \/ WriteFails(s) \/ FinishInPlace(s) \/ Rename(s) \/ Die(s)

Next == Tick \/ \E s \in Savers : Save(s)

Spec == Init /\ [][Next]_vars

-----------------------------------------------------------------------------
(* Properties. *)

TypeOK ==
  /\ now \in 0..MaxSeconds
  /\ pc \in [Savers -> {"start", "missing", "ignoring", "ready", "named", "writing"} \cup Finished]
  /\ name \in [Savers -> Names \cup {NoName}]
  /\ DOMAIN dir \subseteq Paths
  /\ \A p \in DOMAIN dir : dir[p] \in 1..Len(content)
  /\ content \in Seq(Seq(Savers \cup {"hole"}))
  /\ open \in [Savers -> 0..Len(content)]
  /\ written \in [Savers -> Nat] /\ \A s \in Savers : written[s] <= BlocksOf[s]
  /\ gitignore \in {"absent", "empty", "written"}

Namesakes(n) == {s \in Savers : name[s] = n}

\* "The write is atomic (temp file + rename)": a file the server alone writes under its
\* name is never seen half written, whatever fails and whoever dies.
AtomicAlone ==
  \A n \in Published : \A s \in Mcp :
    Namesakes(n) = {s} => content[dir[Final(n)]] = Payload(s)

\* A path handed to the caller goes on holding the capture it was returned for, as long as
\* no other capture has the same name.
HandleHolds ==
  \A s \in Savers : pc[s] = "ok" /\ Namesakes(name[s]) = {s} =>
    /\ name[s] \in Published
    /\ content[dir[Final(name[s])]] = Payload(s)

\* "concurrent captures never leave a torn file"
NeverTorn ==
  \A n \in Published : Namesakes(n) \subseteq Mcp => Whole(content[dir[Final(n)]])

\* "nomes de arquivo são intencionalmente únicos por execução", and "Lote nunca descarta
\* payload": what a saver has stored is not replaced by another saver's payload.
PayloadKept ==
  \A s \in Savers : pc[s] = "ok" => content[dir[Final(name[s])]] = Payload(s)

\* "so the generated tree is never tracked by version control": a published file is in a
\* tree that git ignores.
TreeIgnored == Published # {} => gitignore = "written"
=============================================================================
