----------------------------- MODULE InitCommand -----------------------------
(***************************************************************************)
(* `sniff init` (crates/sniff-css/src/commands/init.rs) and the block that *)
(* it manages in a project's AGENTS.md (crates/sniff-core/src/agents.rs),  *)
(* beside a user who edits the file.  A text is its lines, and whether the *)
(* last of them is open, without a newline; a file is the set of its text, *)
(* empty when there is none.                                               *)
(***************************************************************************)
EXTENDS Invocation, SequencesExt

CONSTANTS TextLine, \* what a line may say
          Edits     \* the texts that the user may save, at most one in a second

VARIABLES agents,    \* AGENTS.md
          staging,   \* AGENTS.md.tmp
          original,  \* what apply read
          mine,      \* history: the text whose rest is to be kept
          edited,    \* history: whether the user saved since the last read
          lost       \* history: whether an update replaced what was saved after it read

project == <<agents, staging, original, mine, edited, lost>>

BlankLine   == ""
MarkerBegin == "<!-- sniff:start -->"
MarkerEnd   == "<!-- sniff:end -->"

ProtocolBlock == <<MarkerBegin, "protocol", MarkerEnd>>

Text == [lines : Seq(TextLine), open : BOOLEAN]

ASSUME LinesGiven == {BlankLine, "protocol", MarkerBegin, MarkerEnd} \subseteq TextLine
ASSUME EditsAreTexts == Edits \subseteq Text
ASSUME ItemsOfInit ==
  \A r \in Runs : r.verb = "init" =>
    /\ r.agents = {} \/ \E text \in r.agents : text \in Text /\ r.agents = {text}
    /\ r.items \in Seq({"plain", "force", "malformed"})

Nothing == [lines |-> << >>, open |-> FALSE]
Forced  == [lines |-> ProtocolBlock, open |-> FALSE]
Torn    == [lines |-> <<"torn">>, open |-> TRUE]

Content(file) == IF file = {} THEN Nothing ELSE CHOOSE text \in file : TRUE

-----------------------------------------------------------------------------
(* upsert *)

\* A third newline in a row is dropped.
Settle(out, line) ==
  IF line = BlankLine /\ Len(out) >= 2 /\ Last(out) = BlankLine THEN out ELSE Append(out, line)

Collapse(lines) ==
  LET kept[n \in 0..Len(lines)] == IF n = 0 THEN << >> ELSE Settle(kept[n - 1], lines[n])
  IN  kept[Len(lines)]

Tidy(lines) ==
  LET out == Collapse(lines)
  IN  IF Len(out) > 1 /\ Last(out) = BlankLine THEN Front(out) ELSE out

\* A block gives way to the new one; one without its end, to the end of the file.
Replace(walk, line) ==
  IF walk.inBlock THEN [walk EXCEPT !.inBlock = line # MarkerEnd]
  ELSE IF line = MarkerBegin THEN [out |-> walk.out \o ProtocolBlock, inBlock |-> TRUE, found |-> TRUE]
  ELSE [walk EXCEPT !.out = Append(@, line)]

Walk(lines) ==
  LET walk[n \in 0..Len(lines)] ==
        IF n = 0 THEN [out |-> << >>, inBlock |-> FALSE, found |-> FALSE] ELSE Replace(walk[n - 1], lines[n])
  IN  walk[Len(lines)]

\* The blank line before a block that is added.
Gap(out) == IF out = << >> \/ (Len(out) > 1 /\ Last(out) = BlankLine) THEN << >> ELSE <<BlankLine>>

Upsert(lines) ==
  LET walk == Walk(lines)
  IN  Tidy(IF walk.found THEN walk.out ELSE walk.out \o Gap(walk.out) \o ProtocolBlock)

Updated == IF Item = "force" THEN Forced ELSE [lines |-> Upsert(Content(original).lines), open |-> FALSE]

-----------------------------------------------------------------------------
(* apply *)

ProjectInit ==
  /\ agents = IF run.verb = "init" THEN run.agents ELSE {}
  /\ mine = Content(agents)
  /\ staging = {} /\ original = {}
  /\ edited = FALSE /\ lost = FALSE

InitRequests ==
  /\ phase = "capture"
  /\ Asked
  /\ UNCHANGED <<run, files, clock, project>>

ReadAgents ==
  /\ phase = "item"
  /\ Len(results) < Len(run.items) /\ Item \in {"plain", "force"}
  /\ original' = agents
  /\ edited' = FALSE
  /\ phase' = "apply"
  /\ UNCHANGED <<run, files, results, exit, clock, agents, staging, mine, lost>>

\* A text that is as it is to be is not written.
Matches ==
  /\ phase = "apply"
  /\ Updated = Content(original)
  /\ results' = Append(results, [ok |-> TRUE, state |-> "unchanged"])
  /\ phase' = "item"
  /\ UNCHANGED <<run, files, exit, clock, project>>

\* Mutated: the file is written in place, and then from the staging file
InPlace ==
  /\ phase = "apply"
  /\ Updated # Content(original)
  /\ agents' = {Torn}
  /\ staging' = {Updated}
  /\ phase' = "rename"
  /\ UNCHANGED <<run, files, results, exit, clock, original, mine, edited, lost>>

\* write_atomic
Stage ==
  /\ phase = "apply"
  /\ Updated # Content(original)
  /\ staging' = {Updated}
  /\ phase' = "rename"
  /\ UNCHANGED <<run, files, results, exit, clock>>
  /\ UNCHANGED <<agents, original, mine, edited, lost>>

RenameStaging ==
  /\ phase = "rename"
  /\ agents' = staging
  /\ staging' = {}
  /\ results' = Append(results, [ok |-> TRUE, state |-> IF original = {} THEN "created" ELSE "updated"])
  /\ phase' = "item"
  /\ mine' = IF Item = "force" THEN Forced ELSE mine
  /\ lost' = (lost \/ edited)
  /\ edited' = FALSE
  /\ UNCHANGED <<run, files, exit, clock, original>>

\* A file that cannot be read, a disk that is full, a name that cannot be replaced.
ApplyFails ==
  /\ phase \in {"apply", "rename"}
  /\ ItemFails(Io)
  /\ staging' \in IF phase = "apply" THEN {staging, {Torn}} ELSE {staging}
  /\ UNCHANGED <<run, files, clock, agents, original, mine, edited, lost>>

\* The process is killed before it has replaced the file.
Killed ==
  /\ phase \in {"apply", "rename"}
  /\ staging' \in IF phase = "apply" THEN {staging, {Torn}} ELSE {staging}
  /\ phase' = "killed"
  /\ UNCHANGED <<run, files, results, exit, clock>>
  /\ UNCHANGED <<agents, original, mine, edited, lost>>

\* The user saves the file.
EditAgents ==
  /\ phase \in {"item", "apply", "rename"}
  /\ clock < MaxClock
  /\ clock' = clock + 1
  /\ \E text \in Edits : agents' = {text} /\ mine' = text
  /\ edited' = TRUE
  /\ UNCHANGED <<run, files, results, phase, exit, staging, original, lost>>

InitNext ==
  /\ run.verb = "init"
  /\ \/ InitRequests \/ ReadAgents \/ Matches \/ Stage \/ RenameStaging \/ ApplyFails \/ Killed \/ EditAgents
     \/ (Refuse \/ Finish) /\ UNCHANGED project

-----------------------------------------------------------------------------

\* A line is in a block from its start marker to the next end marker.
InBlock(lines, i) ==
  \E b \in 1..i : lines[b] = MarkerBegin /\ \A e \in b..(i - 1) : lines[e] # MarkerEnd

\* What is outside the blocks of a text, but for blank lines.
Rest(lines) ==
  LET rest[n \in 0..Len(lines)] ==
        IF n = 0 THEN << >>
        ELSE IF lines[n] = BlankLine \/ InBlock(lines, n) THEN rest[n - 1] ELSE Append(rest[n - 1], lines[n])
  IN  rest[Len(lines)]

HasBlock(lines) ==
  \E i \in 0..(Len(lines) - Len(ProtocolBlock)) :
    \A k \in DOMAIN ProtocolBlock : lines[i + k] = ProtocolBlock[k]

\* "Inserted/replaced idempotently": wherever an update fails or is killed, the file holds what
\* the user wrote outside the block, but for an edit that an update did not read; after
\* one that succeeded it holds the block; and another update finds nothing to do.
BlockManaged ==
  run.verb = "init" =>
    /\ ~ lost /\ agents # {} => Rest(Content(agents).lines) = Rest(mine.lines)
    /\ \A i \in DOMAIN results : results[i].ok /\ ~ run.dry_run =>
         /\ i = Len(results) /\ phase = "item" /\ ~ edited =>
              HasBlock(Content(agents).lines) /\ ~ Content(agents).open
         /\ i > 1 /\ results[i - 1].ok /\ run.items[i] = "plain" /\ clock = 0 =>
              results[i].state = "unchanged"

\* "Preserving everything else in the file": what stands before a block stays, blank lines
\* and all.
EverythingElseKept ==
  run.verb = "init" /\ phase = "item" /\ results # << >> /\ Last(results).ok /\ ~ edited /\ ~ lost =>
    \A i \in DOMAIN mine.lines : mine.lines[i] = MarkerBegin /\ (\A k \in 1..(i - 1) : mine.lines[k] # MarkerBegin) =>
      SubSeq(Content(agents).lines, 1, i) = SubSeq(mine.lines, 1, i)
=============================================================================
