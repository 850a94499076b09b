------------------------------ MODULE TreeDiff ------------------------------
(***************************************************************************)
(* The structural diff of two loaded captures                              *)
(* (crates/sniff-css-diff/src/diff.rs).  A CSS value is a number and the   *)
(* rest of its text ([n, u]); lengths are in tenths of a pixel.            *)
(***************************************************************************)
EXTENDS SnapshotFormat, SiblingMatching

\* numeric_close, value_equal
NumericClose(a, b, tol) == a.u = b.u /\ a.u \in {"px", ""} /\ a.n - b.n \in (-tol)..tol

ValueEqual(a, b, opts) == a = b \/ (opts.tolerance > 0 /\ NumericClose(a, b, opts.tolerance))

\* The properties of a category that are reported; `ignore` compares property names.
StyleDiff(b, h, opts) ==
  {k \in DOMAIN b \cup DOMAIN h :
     /\ k[2] \notin opts.ignore
     /\ k \in DOMAIN b /\ k \in DOMAIN h => ~ ValueEqual(b[k], h[k], opts)}

FartherThan(b, h, opts) == b - h \notin (-opts.tolerance)..opts.tolerance

\* rect_diff: any coordinate; a rectangle on one side only differs.
RectDiff(b, h, opts) ==
  \/ DOMAIN b # DOMAIN h
  \/ \E k \in DOMAIN b \cap DOMAIN h : FartherThan(b[k], h[k], opts)

\* compute_changes: what is reported of a matched pair.
ComputeChanges(b, h, opts) ==
  {<<"styles", k>> : k \in StyleDiff(b.css, h.css, opts)}
  \cup {<<"pseudo", k>> : k \in StyleDiff(b.pseudo, h.pseudo, opts)}
  \cup (IF RectDiff(b.rect, h.rect, opts) THEN {<<"rect">>} ELSE {})
  \cup (IF b.facet # h.facet THEN {<<"facet">>} ELSE {})

-----------------------------------------------------------------------------
DeltaLine(status, n, changes) ==
  [status |-> status, sel |-> n.sel, changes |-> changes]

RECURSIVE DiffChildren(_, _, _)

\* diff_node: a matched pair, then its children.
DiffNode(b, h, opts) ==
  LET changes == ComputeChanges(b, h, opts)
  IN  (IF changes = {} THEN << >> ELSE <<DeltaLine("CHANGED", h, changes)>>)
      \o DiffChildren(b.kids, h.kids, opts)

\* Mutated: the head's surplus is forgotten
DiffMatched(base, head, opts) ==
  LET match == MatchChildren(base, head)
  IN  FlattenSeq([b \in DOMAIN base |->
        IF match[b] # 0 THEN DiffNode(base[b], head[match[b]], opts)
        ELSE IF opts.ignore_structural THEN << >>
        ELSE <<DeltaLine("REMOVED", base[b], {})>>])

\* diff_children: in the base's order, then what only the head has.
DiffChildren(base, head, opts) ==
  LET match == MatchChildren(base, head)
      surplus == SelectSeq([h \in DOMAIN head |-> h], LAMBDA h : h \in Unused(head, match))
  IN  FlattenSeq([b \in DOMAIN base |->
        IF match[b] # 0 THEN DiffNode(base[b], head[match[b]], opts)
        ELSE IF opts.ignore_structural THEN << >>
        ELSE <<DeltaLine("REMOVED", base[b], {})>>])
      \o (IF opts.ignore_structural THEN << >>
          ELSE [k \in DOMAIN surplus |-> DeltaLine("ADDED", head[surplus[k]], {})])

-----------------------------------------------------------------------------
(* The interaction reports, compared by position, leaf by leaf.            *)

\* expand_action_values: the row of values of an entry by property name, the schema dropped.
ExpandActionValues(entry, keys) ==
  entry.leaves
  @@ [k \in {<<"css", keys[i]>> : i \in DOMAIN keys \cap DOMAIN entry.row} |->
        <<"text", entry.row[CHOOSE i \in DOMAIN keys : keys[i] = k[2]]>>]

\* Only numbers have a tolerance; the values of properties are strings here.
LeafEqual(b, h, opts) ==
  \/ b = h
  \/ /\ b[1] = "number" /\ h[1] = "number"
     /\ opts.tolerance > 0 /\ b[2] - h[2] \in (-opts.tolerance)..opts.tolerance

LeafChanges(b, h, opts) ==
  {k \in DOMAIN b \cup DOMAIN h : ~ (k \in DOMAIN b \cap DOMAIN h /\ LeafEqual(b[k], h[k], opts))}

\* compare_action_value
CompareActionValue(b, h, opts) ==
  LeafChanges(b.leaves, h.leaves, opts)
  \cup UNION {LET bs == b.lists[list] hs == h.lists[list] IN
         {<<list, i>> : i \in {i \in DOMAIN bs \cup DOMAIN hs :
            ~ /\ i \in DOMAIN bs \cap DOMAIN hs
              /\ LeafChanges(ExpandActionValues(bs[i], b.keys),
                             ExpandActionValues(hs[i], h.keys), opts) = {}}} :
       list \in DOMAIN b.lists}

DiffActions(base, head, opts) ==
  LET both == DOMAIN base \cap DOMAIN head
      changes(i) == CompareActionValue(base[i], head[i], opts)
      line(i) ==
        IF i \notin DOMAIN head THEN <<[status |-> "ACTION_REMOVED", sel |-> <<i>>, changes |-> {}]>>
        ELSE IF i \notin DOMAIN base THEN <<[status |-> "ACTION_ADDED", sel |-> <<i>>, changes |-> {}]>>
        ELSE IF changes(i) = {} THEN << >>
        ELSE <<[status |-> "ACTION_CHANGED", sel |-> <<i>>, changes |-> changes(i)]>>
  IN  FlattenSeq([i \in 1..(IF Len(base) > Len(head) THEN Len(base) ELSE Len(head)) |-> line(i)])

-----------------------------------------------------------------------------
\* diff_trees, and what the command counts.
Lines(lines, status) == Cardinality({i \in DOMAIN lines : lines[i].status \in status})

Stats(base, head, lines) ==
  [base_nodes |-> Size(base), head_nodes |-> Size(head),
   changed |-> Lines(lines, {"CHANGED"}), added |-> Lines(lines, {"ADDED"}),
   removed |-> Lines(lines, {"REMOVED"}),
   actions_changed |-> Lines(lines, {"ACTION_CHANGED", "ACTION_ADDED", "ACTION_REMOVED"})]

\* commands/diff.rs, compute
DiffDocs(base, head, opts) ==
  LET lines == DiffChildren(base.nodes, head.nodes, opts)
               \o (IF opts.no_actions THEN << >> ELSE DiffActions(base.actions, head.actions, opts))
  IN  [lines |-> lines, stats |-> Stats(base.nodes, head.nodes, lines)]
=============================================================================
