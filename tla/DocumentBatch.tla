---------------------------- MODULE DocumentBatch ----------------------------
(***************************************************************************)
(* The items of `sniff diff` and `sniff check`                             *)
(* (crates/sniff-css/src/commands/diff.rs, check.rs), and of the MCP tools *)
(* that do the same: the captures that an item names are read, and an item *)
(* that cannot be answered fails by itself.  What is in a file, what is    *)
(* read from it and what is answered are OfflineCommands'.                 *)
(***************************************************************************)
EXTENDS Invocation, Functions

CONSTANTS Written(_, _),  \* invocation, side -> what a capture of that page was written as
          Read(_),        \* text -> whether a document is in it, and which
          NoText,         \* what is read from a stdin that was read before
          Answer(_, _)    \* invocation, documents -> the report

\* Where the captures come from that an item names: a file, one that is not there, stdin.
Operands ==
  [files         |-> [base |-> "file", head |-> "file"],
   missing       |-> [base |-> "missing", head |-> "missing"],
   stdin         |-> [base |-> "file", head |-> "-"],
   base_stdin    |-> [base |-> "-", head |-> "file"],
   stdin_missing |-> [base |-> "-", head |-> "missing"],
   missing_stdin |-> [base |-> "missing", head |-> "-"],
   both_stdin    |-> [base |-> "-", head |-> "-"]]

Readable == DOMAIN Operands \ {"both_stdin"}

DocumentItems(verb) ==
  {"malformed"} \cup IF verb = "diff" THEN DOMAIN Operands ELSE {"files", "missing", "stdin"}

\* piped: the batch itself, or the parameters, come from stdin.
ASSUME ItemsOfDocuments ==
  \A r \in Runs : r.verb \in {"diff", "check"} =>
    r.items \in Seq(DocumentItems(r.verb)) /\ r.piped \in BOOLEAN

VARIABLES loaded,  \* what the current item has read
          spent    \* stdin has been read

Sides == {"base", "head"}

Offline == run.verb \in {"diff", "check"}

Needed == IF run.verb = "diff" THEN <<"base", "head">> ELSE <<"head">>

\* An earlier `sniff capture` of the next of the pages that the invocation is about.
Capture(side) ==
  /\ phase = "capture"
  /\ Cardinality(DOMAIN files) < Len(Needed) /\ side = Needed[Cardinality(DOMAIN files) + 1]
  /\ files' = Overwrite(files, side, Written(run, side))
  /\ UNCHANGED <<run, loaded, spent, results, phase, exit, clock>>

BatchRequests ==
  /\ phase = "capture"
  /\ DOMAIN files = Range(Needed)
  /\ Asked
  /\ spent' = run.piped
  /\ UNCHANGED <<run, files, loaded, clock>>

Begin ==
  /\ phase = "item"
  /\ Len(results) < Len(run.items)
  /\ Item \in Readable
  /\ loaded' = NoFiles
  /\ phase' = "load"
  /\ UNCHANGED <<run, files, spent, results, exit, clock>>

\* The document that an operand has; what is on stdin is the head's capture, until it is read.
Opened(item, side, gone) ==
  CASE Operands[item][side] = "file"    -> Read(files[side])
    [] Operands[item][side] = "missing" -> [ok |-> FALSE]
    [] Operands[item][side] = "-"       -> Read(IF gone THEN NoText ELSE files["head"])

\* load_doc: the next of the captures that the item names.  To the MCP server, whatever is
\* wrong with them is an invalid parameter.
Load ==
  /\ phase = "load"
  /\ Cardinality(DOMAIN loaded) < Len(Needed)
  /\ LET side == Needed[Cardinality(DOMAIN loaded) + 1]
         from == Operands[Item][side]
         doc  == Opened(Item, side, spent)
     IN  /\ spent' = (spent \/ from = "-")
         /\ IF doc.ok THEN loaded' = Overwrite(loaded, side, doc) /\ UNCHANGED <<results, phase, exit>>
            ELSE /\ ItemFails(IF run.mcp THEN Invalid ELSE IF from = "missing" THEN NotFound ELSE Io)
                 /\ UNCHANGED loaded
  /\ UNCHANGED <<run, files, clock>>

Compute ==
  /\ phase = "load"
  /\ Cardinality(DOMAIN loaded) = Len(Needed)
  /\ results' = Append(results, [ok |-> TRUE] @@ Answer(run, loaded))
  /\ phase' = "item"
  /\ UNCHANGED <<run, files, loaded, spent, exit, clock>>

BatchNext ==
  /\ Offline
  /\ \/ \E side \in Sides : Capture(side)
     \/ BatchRequests \/ Begin \/ Load \/ Compute
     \/ (Refuse \/ Finish) /\ UNCHANGED <<loaded, spent>>

-----------------------------------------------------------------------------

\* What the answer to an item is by itself, with a stdin that was read before or was not.
Alone(item, gone) ==
  LET docs == [side \in Range(Needed) |-> Opened(item, side, gone)]
  IN  IF item \notin Readable \/ \E side \in DOMAIN docs : ~ docs[side].ok THEN [ok |-> FALSE]
      ELSE [ok |-> TRUE] @@ Answer(run, docs)

\* An item that names stdin reads it, unless it fails before it comes to it.
ReadsStdin(item) ==
  /\ item \in Readable
  /\ \E side \in Range(Needed) :
       /\ Operands[item][side] = "-"
       /\ side = "head" /\ run.verb = "diff" => Opened(item, "base", FALSE).ok

\* Nothing is left on stdin for the i-th item.
Drained(i) == run.piped \/ \E j \in 1..(i - 1) : ReadsStdin(run.items[j])

\* An item of a batch is answered as it would be alone, whatever precedes it and whatever
\* fails, but for stdin, which the batch or the first item that comes to it has whole and the
\* others have empty; the batch's results stand in the order of its items.
BatchIsolated ==
  Offline /\ phase = "done" /\ run.batch /\ ~ run.dry_run /\ Len(run.items) \in 1..BatchMax =>
    results = [i \in DOMAIN run.items |-> Alone(run.items[i], Drained(i))]
=============================================================================
