--------------------------- MODULE SnapshotFormat ---------------------------
(***************************************************************************)
(* The capture file: what a capture writes                                 *)
(* (crates/sniff-engine/src/output.rs) and what `diff` and `check` read    *)
(* back (crates/sniff-css-diff/src/model.rs).                              *)
(*                                                                         *)
(* An element is its selector, its computed styles, the styles of its      *)
(* pseudo-element, its rectangle, its other facets in one value, and its   *)
(* children.  A JSON object is a function from its keys.                   *)
(***************************************************************************)
EXTENDS StyleFormat, FiniteSets, SequencesExt

CONSTANT Slim  \* SLIM_PROPS

-----------------------------------------------------------------------------
(* Writing. *)

SlimCss(css, cfg) ==
  Only(IF cfg.compact THEN CompactGroup(css) ELSE Only(css, DOMAIN css \ Variables), Slim)

RECURSIVE Flatten(_)
Flatten(forest) ==
  IF forest = << >> THEN << >>
  ELSE <<Head(forest)>> \o Flatten(Head(forest).kids) \o Flatten(Tail(forest))

Size(forest) == Len(Flatten(forest))

ComputeStyleDefaults(forest, cfg) ==
  LET all == Flatten(forest)
  IN  Hoisted([i \in DOMAIN all |-> all[i].css], cfg)

\* One element of a capture as JSON; the ids are those of the extractor, in pre-order.
\* The pseudo-element's styles are compacted and never hoisted.
Line(id, parent, n, css, pseudo, kids) ==
  [kind |-> "node", id |-> id, parent |-> parent, sel |-> n.sel, styled |-> TRUE,
   css |-> css, pseudo |-> pseudo, rect |-> n.rect, facet |-> n.facet, kids |-> kids]

RECURSIVE NodesToJson(_, _, _, _, _, _)
NodesToJson(forest, id, parent, cfg, globals, defaults) ==
  IF forest = << >> THEN << >>
  ELSE LET n == Head(forest)
       IN  <<Line(id, parent, n,
                  Unhoisted(n.css, cfg, globals, defaults), StylesToJson(n.pseudo, cfg, globals),
                  NodesToJson(n.kids, id + 1, id, cfg, globals, defaults))>>
           \o NodesToJson(Tail(forest), id + Size(<<n>>), parent, cfg, globals, defaults)

\* JsonLinesFlat: the same without children.
FlatToJson(forest, cfg, globals, defaults) ==
  LET lines == Flatten(NodesToJson(forest, 1, 0, cfg, globals, defaults))
  IN  [i \in DOMAIN lines |-> [lines[i] EXCEPT !.kids = << >>]]

\* What the summary says of an element besides its styles: not its metrics, its visibility
\* or the text it renders, under the names the loader reads.
SummaryFacet(f) == [f EXCEPT !.z = {}, !.stacking = FALSE, !.visible = TRUE, !.grade = "none", !.text = FALSE]

\* Summary: a curated subset under another key, which the loader does not read, hoisted
\* over the elements that have any of it.
SummaryDefaults(forest, cfg) ==
  LET flat == Flatten(forest)
      some == SelectSeq([i \in DOMAIN flat |-> SlimCss(flat[i].css, cfg)], LAMBDA css : css # Empty)
  IN  IF cfg.compact /\ Len(some) >= 2 THEN Shared(some) ELSE Empty

SummaryToJson(forest, cfg) ==
  LET flat == Flatten(forest)
      lines == Flatten(NodesToJson(forest, 1, 0, cfg, Empty, Empty))
      defaults == SummaryDefaults(forest, cfg)
  IN  [i \in DOMAIN lines |->
        [lines[i] EXCEPT !.kids = << >>, !.styled = FALSE, !.pseudo = Empty,
           !.facet = SummaryFacet(@), !.css = DedupStyles(SlimCss(flat[i].css, cfg), defaults)]]

\* __meta, __ax_tree and __actions, each when there is something to say.
MetaLine(globals, defaults, viewport) ==
  IF globals = Empty /\ defaults = Empty /\ viewport = 0 THEN << >>
  ELSE <<[kind |-> "meta", defaults |-> defaults, viewport |-> viewport]>>

ActionsLine(actions) ==
  IF actions = << >> THEN << >> ELSE <<[kind |-> "actions", actions |-> actions]>>

AxLine(ax) == IF ax THEN <<[kind |-> "ax"]>> ELSE << >>

\* One document: an object whose keys the loader takes for a __meta or an __actions line
\* when they are there, a bare array otherwise.
JsonDocument(meta, actions, ax, isObject) ==
  IF ~ isObject THEN <<[kind |-> "array"]>>
  ELSE IF meta # << >> THEN <<meta[1] @@ [actions |-> actions]>>
  ELSE IF ax THEN AxLine(ax) ELSE ActionsLine(actions)

WriteOutput(doc, cfg) ==
  LET defaults == ComputeStyleDefaults(doc.roots, cfg)
      meta == MetaLine(doc.globals, defaults, doc.viewport)
      head == meta \o AxLine(doc.ax) \o ActionsLine(doc.actions)
  IN  CASE cfg.format = "jsonl" ->
             head \o NodesToJson(doc.roots, 1, 0, cfg, doc.globals, defaults)
        [] cfg.format = "jsonl-flat" ->
             head \o FlatToJson(doc.roots, cfg, doc.globals, defaults)
        [] cfg.format = "summary" ->
             MetaLine(Empty, SummaryDefaults(doc.roots, cfg), doc.viewport)
             \o SummaryToJson(doc.roots, cfg)
        [] cfg.format = "json" ->
             JsonDocument(meta, doc.actions, doc.ax,
               \/ cfg.compact /\ doc.globals # Empty
               \/ defaults # Empty \/ doc.ax \/ doc.actions # << >> \/ doc.viewport # 0)

-----------------------------------------------------------------------------
(* Reading. *)

NoFacet == [tag |-> "", z |-> {}, stacking |-> FALSE, visible |-> TRUE, grade |-> "none",
            focusable |-> FALSE, named |-> FALSE, text |-> FALSE, contrast |-> [aa |-> "none", aaa |-> "none"]]

\* DiffNode::from_value; a value with none of the keys is a node of defaults.
FromValue(line) ==
  IF line.kind = "node" THEN [line EXCEPT !.css = IF line.styled THEN @ ELSE Empty]
  ELSE [kind |-> "node", id |-> 0, parent |-> 0, sel |-> << >>, styled |-> FALSE, css |-> Empty,
        pseudo |-> Empty, rect |-> << >>, facet |-> NoFacet, kids |-> << >>]

\* The element a line belongs under: the last one of that id.
ParentOf(flat, i) ==
  LET named == {j \in DOMAIN flat : flat[j].id = flat[i].parent}
  IN  IF flat[i].parent = 0 \/ named = {} THEN 0
      ELSE CHOOSE j \in named : \A k \in named : k <= j

RECURSIVE BuildForest(_, _)
BuildForest(flat, above) ==
  LET own == SelectSeq([i \in DOMAIN flat |-> i], LAMBDA i : ParentOf(flat, i) = above)
  IN  [k \in DOMAIN own |-> [flat[own[k]] EXCEPT !.kids = BuildForest(flat, own[k])]]

\* Mutated: the hoisted styles go back to the roots only
RestoreRoots(forest, defaults) ==
  [i \in DOMAIN forest |->
    IF forest[i].styled THEN [forest[i] EXCEPT !.css = OrElse(@, defaults)] ELSE forest[i]]

RECURSIVE ApplyStyleDefaults(_, _)
ApplyStyleDefaults(forest, defaults) ==
  [i \in DOMAIN forest |->
    [forest[i] EXCEPT !.css = IF forest[i].styled THEN OrElse(@, defaults) ELSE @,
                      !.kids = ApplyStyleDefaults(@, defaults)]]

IsNodeLine(line) == line.kind \in {"node", "array"}

\* load_str: the layout is that of the first node line, the defaults those of the last
\* __meta line.
LoadStr(lines) ==
  LET nodes == SelectSeq(lines, IsNodeLine)
      metas == SelectSeq(lines, LAMBDA l : l.kind = "meta")
      values == [i \in DOMAIN nodes |-> FromValue(nodes[i])]
      tree(i) == values[i].kids # << >>
      defaults == IF metas = << >> THEN Empty ELSE Last(metas).defaults
  IN  IF \E i \in DOMAIN values : tree(i) # tree(1)
      THEN [ok |-> FALSE, nodes |-> << >>]
      ELSE [ok |-> TRUE,
            nodes |-> ApplyStyleDefaults(
              IF values # << >> /\ tree(1) THEN values ELSE BuildForest(values, 0), defaults)]

\* extract_actions, extract_viewport
ExtractActions(lines) ==
  FlattenSeq([i \in DOMAIN lines |->
    IF "actions" \in DOMAIN lines[i] THEN lines[i].actions ELSE << >>])

ExtractViewport(lines) ==
  LET metas == SelectSeq(lines, LAMBDA l : l.kind = "meta")
  IN  IF metas = << >> THEN 0 ELSE metas[1].viewport

LoadDoc(lines) ==
  LoadStr(lines) @@ [actions |-> ExtractActions(lines), viewport |-> ExtractViewport(lines)]
=============================================================================
