--------------------------- MODULE OfflineCommands ---------------------------
(***************************************************************************)
(* `sniff diff` and `sniff check` (crates/sniff-css/src/commands/diff.rs,  *)
(* check.rs) over two captures of a page: what the extractor saw, the      *)
(* files it was written to, and the items of one invocation or batch.      *)
(***************************************************************************)
EXTENDS TreeDiff, CapturedPages

CONSTANTS TextTags, InteractiveTags, SvgTags

Script == INSTANCE Extractor
Rules  == INSTANCE CheckRules

\* What the extractor returns for a page.
Extracted(page) ==
  [roots |-> Script!Extract(page.html, page.depth), globals |-> page.globals,
   actions |-> [i \in DOMAIN page.steps |-> DOM!Report(page.steps[i])],
   ax |-> page.ax, viewport |-> page.viewport]

\* What is written of it; what was extracted is kept beside the text, and no reader looks at that.
WriteCapture(asked, side) ==
  LET doc == Extracted(Pages[asked.page[side]])
  IN  [extracted |-> doc, text |-> WriteOutput(doc, asked.cfg[side])]

ReadCapture(file) == LoadDoc(file.text)

EmptyCapture == [text |-> << >>]

Extraction(side) == files[side].extracted

\* The two halves of a check: those that a request of sniff_check has on; on the command
\* line each when it is asked for, or when neither is.
RulesAsked(asked)   == asked.opts.rules \/ (~ asked.mcp /\ ~ asked.opts.uniform)
UniformAsked(asked) == asked.opts.uniform \/ (~ asked.mcp /\ ~ asked.opts.rules)

CheckDoc(doc, asked) ==
  [lines |-> IF RulesAsked(asked) THEN Rules!RunRules(doc) ELSE << >>,
   outliers |-> IF UniformAsked(asked) THEN Rules!CheckUniformity(doc.nodes, asked.opts.tolerance) ELSE {}]

\* compute
Computed(asked, documents) ==
  IF asked.verb = "diff" THEN DiffDocs(documents["base"], documents["head"], asked.opts)
                         ELSE CheckDoc(documents["head"], asked)

-----------------------------------------------------------------------------
(* Properties of the file. *)

Lossless(cfg) == cfg.format \in {"jsonl", "jsonl-flat"}

\* "so the emitter can hoist them once and diff can merge them back losslessly": whatever is
\* hoisted, and whether the lines nest or name their parents, the reader has the elements
\* and the styles that each of them would have been written with by itself.
RoundTrip ==
  phase = "load" /\ Item = "files" =>
    \A side \in DOMAIN loaded : Lossless(run.cfg[side]) =>
      loaded[side].nodes =
        NodesToJson(Extraction(side).roots, 1, 0, run.cfg[side], Extraction(side).globals, Empty)

\* "Both `jsonl` (tree) and `jsonl-flat` inputs are supported": what a capture wrote in
\* either, the reader takes.
CapturesLoad ==
  Offline => \A side \in DOMAIN files : Lossless(run.cfg[side]) => LoadStr(files[side].text).ok

-----------------------------------------------------------------------------
(* Properties of the diff. *)

Diffed ==
  /\ phase = "item" /\ results # << >> /\ Last(results).ok /\ run.verb = "diff"
  /\ run.items[Len(results)] = "files"
Report == Last(results).lines
Nodes(side) == Flatten(loaded[side].nodes)

\* What is visible of an element, without its place in the tree.
Visible(n) == [css |-> n.css, pseudo |-> n.pseudo, rect |-> n.rect, facet |-> n.facet]

\* The actions of a capture as JSON without the schema of their rows.
Spelled(actions) ==
  [i \in DOMAIN actions |-> <<actions[i].leaves,
    [list \in DOMAIN actions[i].lists |-> [k \in DOMAIN actions[i].lists[list] |->
       <<actions[i].lists[list][k].leaves, actions[i].lists[list][k].row>>]]>>]

\* A silent report is no accident of the matching: with nothing ignored and no tolerance, it
\* means that both captures hold the same elements, each as many times, and that the same
\* interactions did the same to both pages.
SilenceMeansSame ==
  Diffed /\ Report = << >> /\ run.opts.tolerance = 0 /\ run.opts.ignore = {}
         /\ ~ run.opts.ignore_structural =>
    /\ run.opts.no_actions \/ Spelled(Extraction("base").actions) = Spelled(Extraction("head").actions)
    /\ \A v \in {Visible(n) : n \in Range(Nodes("base")) \cup Range(Nodes("head"))} :
         Len(SelectSeq(Nodes("base"), LAMBDA n : Visible(n) = v))
           = Len(SelectSeq(Nodes("head"), LAMBDA n : Visible(n) = v))

\* The matching favours neither side: read the other way round, additions are removals, and
\* the same pairs have changed.
SwapSymmetric ==
  Diffed =>
    LET there == Last(results).stats
        back  == DiffDocs(loaded["head"], loaded["base"], run.opts).stats
    IN  /\ there.added = back.removed /\ there.removed = back.added
        /\ there.changed = back.changed /\ there.actions_changed = back.actions_changed

\* Siblings as a set.
RECURSIVE Unordered(_)
Unordered(forest) ==
  {[sel |-> n.sel, seen |-> Visible(n), kids |-> Unordered(n.kids)] : n \in Range(forest)}

\* Elements with anchors of their own may change places: a page that only reorders them
\* has no difference to report.
ReorderSilent ==
  Diffed /\ Unordered(loaded["base"].nodes) = Unordered(loaded["head"].nodes)
         /\ (\A side \in Sides : Cardinality({n.sel : n \in Range(Nodes(side))}) = Len(Nodes(side))) =>
    \A i \in DOMAIN Report : Report[i].status \notin {"CHANGED", "ADDED", "REMOVED"}

\* What a diff does not report is the same, whichever capture is the base and in whatever
\* order the captures hold their elements: matching in two passes loses none of this.
DiffSound == SilenceMeansSame /\ SwapSymmetric /\ ReorderSilent

-----------------------------------------------------------------------------
(* Properties of the checks. *)

Checked == phase = "item" /\ results # << >> /\ Last(results).ok /\ run.verb = "check"

\* The elements above each one, from the tree itself.
RECURSIVE Above(_, _)
Above(forest, above) ==
  FlattenSeq([i \in DOMAIN forest |->
    <<above>> \o Above(forest[i].kids, Append(above, forest[i]))])

\* The sweep is an optimisation only: it reports an element exactly when one unrelated
\* element covers half of it and paints above it, and fails it when one covers three quarters.
OcclusionIsPairwise ==
  Checked =>
    LET flat  == Rules!FlatOf(loaded["head"].nodes)
        above == Above(loaded["head"].nodes, << >>)
        cands == Range(Rules!Candidates(flat))
        left(i) == flat[i].node.rect[1]
        share(i, j) == Rules!Shares(flat[i].node.rect, flat[j].node.rect)
        covers(j, i) ==
          /\ i # j /\ share(i, j) > 0 /\ 2 * share(i, j) >= Rules!Area(flat[i].node.rect)
          /\ flat[i].node \notin Range(above[j]) /\ flat[j].node \notin Range(above[i])
          /\ ~ Rules!SameSvgContainer(flat, flat[IF left(i) <= left(j) THEN i ELSE j],
                                            flat[IF left(i) <= left(j) THEN j ELSE i])
          /\ Rules!PaintsAbove(flat, flat[j], flat[i])
    IN  Range(Rules!CheckOcclusion(loaded["head"].nodes)) =
        {<<"occluded", flat[i].node.sel,
           IF \E j \in cands : covers(j, i) /\ 4 * share(i, j) >= 3 * Rules!Area(flat[i].node.rect)
           THEN "fail" ELSE "warn">> : i \in {k \in cands : \E j \in cands : covers(j, k)}}

\* The context carried down the tree is the ancestors': an element is called out for where
\* it stands exactly when one of the elements above it, however far, makes it so.
AncestorsDecide ==
  Checked /\ RulesAsked(run) =>
    LET nodes == Nodes("head")
        above == Above(loaded["head"].nodes, << >>)
        says(i, check) == <<check, nodes[i].sel, "warn">> \in Range(Report)
    IN  \A i \in DOMAIN nodes : nodes[i].facet.visible =>
          /\ says(i, "sticky-in-overflow-hidden") <=>
               /\ Rules!Is(nodes[i], "position", {"sticky"})
               /\ \E a \in Range(above[i]) : Rules!Overflows(a)
          /\ says(i, "fixed-broken-by-transform") <=>
               /\ Rules!Is(nodes[i], "position", {"fixed"})
               /\ \E a \in Range(above[i]) : Rules!Transforms(a)

\* The norm of a group is never that of its minority.
NormIsMajority ==
  Checked /\ UniformAsked(run) =>
    LET roots == loaded["head"].nodes
    IN  Rules!MajorityConforms([i \in DOMAIN roots |-> Rules!FlatProps(roots[i])], run.opts.tolerance)

\* The checks that look at several elements at once, by a sweep, by a context carried down
\* the tree and by a norm, say what looking at all the elements would.
ChecksSound == OcclusionIsPairwise /\ AncestorsDecide /\ NormIsMajority
=============================================================================
