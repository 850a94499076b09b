----------------------------- MODULE CheckRules -----------------------------
(***************************************************************************)
(* The deterministic checks over a loaded capture: the rules of each       *)
(* element and the occlusion sweep (crates/sniff-css-check/src/rules.rs)   *)
(* and the odd one out (uniformity.rs).  A line is the check, the          *)
(* element's selector and the verdict.  Lengths are in tenths of a pixel,  *)
(* a rectangle is <<x, y, width, height>>.                                 *)
(***************************************************************************)
EXTENDS SnapshotFormat, CrossChecks

Colour == INSTANCE Contrast

CONSTANTS TextTags, InteractiveTags, SvgTags

\* style_val: what the category of an ungrouped capture holds is no object.
StyleVal(n, p) ==
  IF <<Category[p], p>> \in DOMAIN n.css THEN n.css[<<Category[p], p>>] ELSE Colour!Absent

Has(n, p)           == StyleVal(n, p) # Colour!Absent
Is(n, p, keywords)  == StyleVal(n, p).u \in keywords
Not(n, p, keywords) == Has(n, p) /\ StyleVal(n, p).u \notin keywords
Zero(n, p)          == StyleVal(n, p) = [n |-> 0, u |-> "px"]

Measured(n) == n.rect # << >> /\ n.rect[3] > 0 /\ n.rect[4] > 0  \* rect_coords

-----------------------------------------------------------------------------
(* What an element's ancestors decide (AncestorCtx). *)

NoAncestors == [overflow |-> FALSE, transform |-> FALSE, flex |-> FALSE]

Overflows(n)  == \E p \in {"overflow-x", "overflow-y"} : Not(n, p, {"visible", "clip"})
\* will-change is asked for too, but no category captures it.
Transforms(n) == \/ \E p \in {"transform", "perspective", "filter"} : Not(n, p, {"none"})
                 \/ Is(n, "contain", {"paint"})

\* Mutated: only the parent counts
FromParent(n, above) ==
  [overflow |-> Overflows(n), transform |-> Transforms(n),
   flex |-> Is(n, "display", {"flex", "inline-flex", "grid", "inline-grid"})]

\* AncestorCtx::from_node
FromNode(n, above) ==
  [overflow  |-> above.overflow \/ Overflows(n),
   transform |-> above.transform \/ Transforms(n),
   flex      |-> Is(n, "display", {"flex", "inline-flex", "grid", "inline-grid"})]

-----------------------------------------------------------------------------
(* check_node: the rules of one element. *)

When(cond, check, status) == IF cond THEN {<<check, status>>} ELSE {}

Focusable(n)   == n.facet.focusable
IsText(n)      == n.facet.named \/ n.facet.text \/ n.facet.tag \in TextTags
Interactive(n) == n.facet.tag \in InteractiveTags

Verdict(tri) == CASE tri = "pass" -> "pass" [] tri = "fail" -> "fail" [] OTHER -> "warn"

\* The captured facet, or what the element's own styles tell.
ContrastFacet(n) ==
  IF n.facet.contrast # Colour!NotMeasured THEN n.facet.contrast
  ELSE Colour!DeriveContrastValues(
         [p \in {q \in DOMAIN Category : Has(n, q)} |-> StyleVal(n, p)])

ContrastRules(n) ==
  LET c == ContrastFacet(n)
  IN  IF IsText(n) /\ c # Colour!NotMeasured
      THEN {<<"contrast-aa", Verdict(c.aa)>>, <<"contrast-aaa", Verdict(c.aaa)>>} ELSE {}

TargetSize(n) ==
  When(Interactive(n) /\ n.rect # << >> /\ (n.rect[3] < 240 \/ n.rect[4] < 240),
       "target-size", "fail")

FocusIndicator(n) ==
  When(/\ Focusable(n)
       /\ Zero(n, "outline-width")
       /\ Is(n, "outline-style", {"none"})
       /\ Is(n, "box-shadow", {"none", "absent"}),
       "focus-indicator", "warn")

HiddenFocusable(n) ==
  When(Focusable(n) /\ n.facet.grade = "NONE", "hidden-focusable", "warn")

\* position: sticky, fixed and absolute where they cannot do what they say.
PositionRules(n, ctx) ==
  When(Is(n, "position", {"sticky"}) /\ ctx.overflow, "sticky-in-overflow-hidden", "warn")
  \cup When(Is(n, "position", {"fixed"}) /\ ctx.transform, "fixed-broken-by-transform", "warn")
  \cup When(/\ Is(n, "position", {"absolute"})
            /\ \A p \in {"top", "left"} : Has(n, p) => Is(n, p, {"auto"})
            /\ ~ (n.rect # << >> /\ n.rect[3] >= 3000 /\ n.rect[4] >= 3000),
            "absolute-without-insets", "warn")

PointerEvents(n) ==
  When(Interactive(n) /\ Is(n, "pointer-events", {"none"}), "interactive-pointer-events-none", "fail")

EllipsisWithoutClip(n) ==
  When(/\ IsText(n)
       /\ Is(n, "text-overflow", {"ellipsis"})
       /\ \A p \in {"overflow-x", "overflow-y"} : ~ Is(n, p, {"hidden", "clip", "auto", "scroll"})
       /\ ~ Is(n, "white-space", {"nowrap", "pre"}),
       "ellipsis-without-clip", "warn")

FullWidthWithPadding(n) ==
  When(/\ Is(n, "box-sizing", {"content-box"})
       /\ \E p \in {"width", "min-width"} : StyleVal(n, p) = [n |-> 1000, u |-> "%"]
       /\ \E p \in {"padding-left", "padding-right"} : Has(n, p) /\ ~ Zero(n, p),
       "width-100-with-padding", "warn")

SmallText(n) ==
  When(IsText(n) /\ StyleVal(n, "font-size").n \in 1..119, "small-text", "warn")

SmallThumbnail(n) ==
  When(/\ Is(n, "background-image", {"url"})
       /\ Interactive(n) \/ Is(n, "cursor", {"pointer"})
       /\ n.facet.tag \in {"IMG", "DIV", "LI", "A", "FIGURE"}
       /\ Measured(n) /\ (n.rect[3] < 1500 \/ n.rect[4] < 1500),
       "small-thumbnail", "warn")

\* parse_line_height: unitless and normal are multiples of the font's size.
LineHeight(n) ==
  LET size == StyleVal(n, "font-size").n
      line == StyleVal(n, "line-height")
      high == CASE line.u = "normal" -> (size * 12) \div 10
                [] line.u = "" -> (size * line.n) \div 10
                [] OTHER -> line.n
  IN  When(IsText(n) /\ Has(n, "font-size") /\ high > 0 /\ high < size,
           "line-height-below-font-size", "warn")

ZIndexOnStatic(n, ctx) ==
  When(/\ IF Has(n, "z-index") THEN Is(n, "z-index", {""}) ELSE n.facet.z # {}
       /\ Is(n, "position", {"static"})
       /\ ~ ctx.flex,
       "z-index-on-static", "warn")

ControlWithoutName(n) ==
  When(Interactive(n) /\ n.facet.tag # "SUMMARY" /\ ~ n.facet.named /\ ~ n.facet.text,
       "control-without-name", "warn")

TextNotSelectable(n) ==
  When(/\ n.facet.tag \in TextTags \ (InteractiveTags \cup {"A"})
       /\ Is(n, "user-select", {"none", "-webkit-none"}),
       "text-not-selectable", "warn")

Animations(n) ==
  When(/\ Is(n, "animation-iteration-count", {"infinite"})
       /\ Has(n, "animation-duration") /\ StyleVal(n, "animation-duration").n < 5,
       "infinite-fast-animation", "warn")
  \cup When(Is(n, "transition-property", {"all"}), "transition-all", "warn")

HorizontalOverflow(n, ctx, viewport) ==
  When(n.facet.tag \in {"HTML", "BODY"} /\ Is(n, "overflow-x", {"hidden"}),
       "overflow-x-hidden-on-body", "warn")
  \cup When(/\ viewport > 0
            /\ n.rect # << >>
            /\ ~ ctx.overflow
            /\ n.rect[1] + n.rect[3] > viewport + 10,
            "horizontal-overflow", "warn")

\* The rules that a capture can never meet are left out: empty-alt-image asks for an alt
\* that the extractor leaves out, aria-hidden-focusable for a key that it does not write.
CheckNode(n, ctx, viewport) ==
  HiddenFocusable(n) \cup
  (IF n.facet.visible
   THEN ContrastRules(n) \cup TargetSize(n) \cup FocusIndicator(n) \cup PositionRules(n, ctx)
        \cup PointerEvents(n) \cup EllipsisWithoutClip(n) \cup FullWidthWithPadding(n)
        \cup SmallText(n) \cup SmallThumbnail(n) \cup LineHeight(n) \cup ZIndexOnStatic(n, ctx)
        \cup ControlWithoutName(n) \cup TextNotSelectable(n) \cup Animations(n)
        \cup HorizontalOverflow(n, ctx, viewport)
   ELSE {})

RECURSIVE CheckTree(_, _, _)
CheckTree(forest, ctx, viewport) ==
  FlattenSeq([i \in DOMAIN forest |->
    SetToSeq({<<v[1], forest[i].sel, v[2]>> : v \in CheckNode(forest[i], ctx, viewport)})
    \o CheckTree(forest[i].kids, FromNode(forest[i], ctx), viewport)])

-----------------------------------------------------------------------------
(* Occlusion, over the elements in document order; end is the last index   *)
(* of the element's subtree.                                               *)

FlatOf(forest) ==
  LET all == Flatten(forest)
  IN  [i \in DOMAIN all |-> [node |-> all[i], idx |-> i, end |-> i + Size(all[i].kids)]]

Related(a, b) == \/ a.idx <= b.idx /\ b.idx <= a.end
                 \/ b.idx <= a.idx /\ a.idx <= b.end

\* The nearest svg before a, whether or not a is in it.
SameSvgContainer(flat, a, b) ==
  LET before == {k \in 1..(a.idx - 1) : flat[k].node.facet.tag = "svg"}
      svg == flat[CHOOSE k \in before : \A j \in before : j <= k]
  IN  /\ a.node.facet.tag \in SvgTags
      /\ b.node.facet.tag \in SvgTags
      /\ before # {}
      /\ svg.idx <= b.idx /\ b.end <= svg.end

NodeZIndex(n) ==
  IF n.facet.z # {} THEN n.facet.z
  ELSE IF Is(n, "z-index", {""}) THEN {StyleVal(n, "z-index").n} ELSE {}

\* What the page said of it is trusted; without it, the element's own styles tell.
CreatesStackingContext(n) ==
  \/ n.facet.stacking
  \/ Not(n, "position", {"static"}) /\ NodeZIndex(n) # {}
  \/ Has(n, "opacity") /\ StyleVal(n, "opacity").n < 10
  \/ \E p \in {"transform", "filter"} : Not(n, p, {"none"})
  \/ Is(n, "isolation", {"isolate"})

\* The z-index of the nearest stacking context, the element's own first.
EffectiveZIndex(flat, a) ==
  LET contexts == {k \in 1..a.idx : a.idx <= flat[k].end /\ CreatesStackingContext(flat[k].node)}
  IN  IF contexts = {} THEN {}
      ELSE NodeZIndex(flat[CHOOSE k \in contexts : \A j \in contexts : j <= k].node)

PaintsAbove(flat, a, b) ==
  LET za == EffectiveZIndex(flat, a)
      zb == EffectiveZIndex(flat, b)
  IN  IF za # {} /\ zb # {} /\ za # zb
      THEN (CHOOSE z \in za : TRUE) > (CHOOSE z \in zb : TRUE)
      ELSE IF (za = {}) # (zb = {}) THEN za # {} ELSE a.idx > b.idx

Candidates(flat) ==
  SelectSeq([i \in DOMAIN flat |-> i], LAMBDA i :
    /\ Measured(flat[i].node)
    /\ flat[i].node.facet.visible
    /\ ~ (Has(flat[i].node, "opacity") /\ StyleVal(flat[i].node, "opacity").n = 0))

\* In order of x; the sort keeps equals in document order.
ByX(flat) ==
  LET c == Candidates(flat)
  IN  SortSeq(c, LAMBDA i, j :
        \/ flat[i].node.rect[1] < flat[j].node.rect[1]
        \/ flat[i].node.rect[1] = flat[j].node.rect[1] /\ i < j)

\* What the sweep asks of the elements: neither one in the other nor the parts of one
\* drawing are compared.
PageOf(flat) ==
  [rect   |-> [i \in DOMAIN flat |-> flat[i].node.rect],
   exempt |-> {<<i, j>> \in (DOMAIN flat) \X (DOMAIN flat) :
                 Related(flat[i], flat[j]) \/ SameSvgContainer(flat, flat[i], flat[j])},
   above  |-> {<<i, j>> \in (DOMAIN flat) \X (DOMAIN flat) : PaintsAbove(flat, flat[i], flat[j])}]

CheckOcclusion(forest) ==
  LET flat  == FlatOf(forest)
      covered == Sweep(PageOf(flat), ByX(flat))
      hidden == SelectSeq([i \in DOMAIN flat |-> i], LAMBDA i : covered[i].by # 0)
  IN  [k \in DOMAIN hidden |->
        <<"occluded", flat[hidden[k]].node.sel,
          IF 4 * covered[hidden[k]].share >= 3 * Area(flat[hidden[k]].node.rect)
          THEN "fail" ELSE "warn">>]

\* check_backdrop_over_modal: a dark translucent element that covers its own content.
IsBackdrop(n, viewport) ==
  /\ n.rect # << >> /\ Measured(n)
  /\ \/ Is(n, "position", {"fixed"})
     \/ 10 * n.rect[3] >= 8 * viewport /\ 10 * n.rect[4] >= 8 * viewport
  /\ Is(n, "background-color", {"translucent"}) /\ StyleVal(n, "background-color").n < 10
  /\ n.facet.visible

CheckBackdropOverModal(forest, viewport) ==
  LET flat == FlatOf(forest)
      over(b, m) ==
        /\ b # m
        /\ IsBackdrop(flat[b].node, viewport)
        /\ Interactive(flat[m].node) \/ flat[m].node.facet.text \/ flat[m].node.facet.tag \in TextTags
        /\ Related(flat[b], flat[m])
        /\ Measured(flat[m].node)
        /\ Shares(flat[b].node.rect, flat[m].node.rect) > 0
        /\ 2 * Shares(flat[b].node.rect, flat[m].node.rect) >= Area(flat[m].node.rect)
        /\ \E z \in NodeZIndex(flat[m].node) : z < 0
  IN  IF viewport = 0 THEN << >>
      ELSE FlattenSeq([b \in DOMAIN flat |->
             LET below == SelectSeq([m \in DOMAIN flat |-> m], LAMBDA m : over(b, m))
             IN  [k \in DOMAIN below |->
                   <<"backdrop-over-modal", flat[below[k]].node.sel, "fail">>]])

RunRules(doc) ==
  CheckTree(doc.nodes, NoAncestors, doc.viewport) \o CheckOcclusion(doc.nodes)
  \o CheckBackdropOverModal(doc.nodes, doc.viewport)

-----------------------------------------------------------------------------
(* Uniformity: the captured roots are instances of one thing. *)

Text(t) == [n |-> 0, u |-> t]

\* flat_props: what is grouped in categories, the size, and the visibility if captured.
FlatProps(n) ==
  [k \in {k \in DOMAIN n.css : k[2] # "_value"} |-> n.css[k]]
  @@ (IF n.rect = << >> THEN Empty
      ELSE [k \in {<<"rect", "width">>, <<"rect", "height">>} |->
             [n |-> n.rect[IF k[2] = "width" THEN 3 ELSE 4], u |-> ""]])
  @@ (IF n.facet.grade = "none" THEN Empty
      ELSE <<"noticeable", "visible">> :> Text(IF n.facet.visible THEN "true" ELSE "false")
           @@ <<"noticeable", "grade">> :> Text(n.facet.grade))

\* The outliers by selector, with what each deviates in.
CheckUniformity(nodes, tolerance) ==
  LET instances == [i \in DOMAIN nodes |-> FlatProps(nodes[i])]
      keys == UNION {DOMAIN instances[i] : i \in DOMAIN instances}
  IN  IF Len(nodes) < 2 THEN {}
      ELSE UNION {{<<nodes[i].sel, k>> : i \in Deviants(instances, k, tolerance)} : k \in keys}
=============================================================================
