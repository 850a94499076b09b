----------------------------- MODULE EffectReport -----------------------------
(***************************************************************************)
(* The report of what an interaction did to the page                       *)
(* (crates/sniff-engine/src/effects.rs): a snapshot of the whole page      *)
(* before it and one after, and what differs.                              *)
(*                                                                         *)
(* Lengths are in tenths of a pixel.  A leaf of the report's JSON is a     *)
(* number or a text, and an entry is a function from the keys of its       *)
(* leaves.                                                                 *)
(***************************************************************************)
EXTENDS PageTree, FiniteSets, FiniteSetsExt

CONSTANTS Signature,      \* EFFECT_SIGNATURE_PROPS, in order
          RootSignature,  \* ROOT_SIGNATURE_PROPS
          RoleTags        \* the tags with an implicit role

Number(n) == <<"number", n>>
Text(v)   == <<"text", v>>

\* RECT_TOLERANCE, SIGNATURE_TOLERANCE
Beyond(a, b) == a - b \notin -5..5

-----------------------------------------------------------------------------
(* A snapshot. *)

Skipped == {"SCRIPT", "STYLE", "NOSCRIPT", "TEMPLATE", "TITLE"}

Rect(el) == IF el.rect = << >> THEN <<0, 0, 0, 0>> ELSE el.rect

Shown(el) ==
  /\ Css(el.css, "display").u # "none"
  /\ Css(el.css, "visibility").u # "hidden"
  /\ "opacity" \in DOMAIN el.css => el.css["opacity"].n > 0
  /\ Rect(el)[3] > 0 \/ Rect(el)[4] > 0

\* What the script records of an element.  Its path has four steps at most; its text and its
\* role are of an element of two pixels each way.
Record(chain, at) ==
  LET el == chain[1].el
      large == Shown(el) /\ Rect(el)[3] >= 20 /\ Rect(el)[4] >= 20
  IN  [at |-> at, path |-> Path(chain, 4), tag |-> el.facet.tag, root |-> el.tag \in {"html", "body"},
       rect |-> Rect(el), visible |-> Shown(el),
       css |-> [p \in Range(Signature) |-> Css(el.css, p)],
       text |-> large /\ el.facet.text,
       aria |-> large /\ (el.facet.named \/ el.facet.tag \in RoleTags)]

\* ownerSVGElement: of what an SVG holds, but for what a foreignObject in it does.
OwnedBySvg(chain) ==
  \E k \in 2..Len(chain) :
    /\ chain[k].el.facet.tag = "svg"
    /\ \A j \in 2..(k - 1) : chain[j].el.facet.tag # "foreignObject"

LookedAt(chain) == ~ OwnedBySvg(chain) /\ chain[1].el.facet.tag \notin Skipped

\* The elements that are looked at, in document order.
Seen(html) ==
  LET chains == Chains(html)
  IN  FlattenSeq([i \in DOMAIN chains |-> IF LookedAt(chains[i]) THEN <<chains[i]>> ELSE << >>])

Records(html) == LET seen == Seen(html) IN [i \in DOMAIN seen |-> Record(seen[i], i)]

\* keyed: of the elements of one path, the last.
PathsOf(recs) == {recs[i].path : i \in DOMAIN recs}

Keyed(recs) ==
  [p \in PathsOf(recs) |-> recs[Max({i \in DOMAIN recs : recs[i].path = p})]]

-----------------------------------------------------------------------------
(* Where an element is. *)

AtLeast(n, low) == IF n < low THEN low ELSE n

Onscreen(r, view) ==
  r[1] < view[1] /\ r[2] < view[2] /\ r[1] + r[3] > 0 /\ r[2] + r[4] > 0

\* Tenths of a pixel to the nearest pixel, in tenths.
Rounded(n) == 10 * ((n + 5) \div 10)

\* out_of_view: beyond each edge of the viewport, when it is more than half a pixel.
OutOfView(r, view) ==
  LET by == [above |-> -r[2], below |-> r[2] + r[4] - view[2],
             left |-> -r[1], right |-> r[1] + r[3] - view[1]]
  IN  [d \in {d \in DOMAIN by : by[d] > 5} |-> Rounded(by[d])]

\* distance_from_point: the hypotenuse, in whole tenths.
Distance(r, point) ==
  LET dx == AtLeast(AtLeast(r[1] - point[1], 0), point[1] - (r[1] + r[3]))
      dy == AtLeast(AtLeast(r[2] - point[2], 0), point[2] - (r[2] + r[4]))
  IN  CHOOSE d \in 0..(dx + dy) : d * d <= dx * dx + dy * dy /\ dx * dx + dy * dy < (d + 1) * (d + 1)

\* direction_from_point: of the element's centre, in halves of a tenth.
Direction(r, point) ==
  LET dx == 2 * r[1] + r[3] - 2 * point[1]
      dy == 2 * r[2] + r[4] - 2 * point[2]
  IN  <<IF dy > 10 THEN "below" ELSE IF dy < -10 THEN "above" ELSE "",
        IF dx > 10 THEN "right" ELSE IF dx < -10 THEN "left" ELSE "">>

Centre(r) == <<r[1] + r[3] \div 2, r[2] + r[4] \div 2>>

RectLeaves(name, r) == [k \in {name} \X (1..4) |-> Number(r[k[2]])]

-----------------------------------------------------------------------------
(* Entries. *)

Area(r) == AtLeast(r[3], 0) * AtLeast(r[4], 0)

BaseEntry(rec, point, view) ==
  LET out == OutOfView(rec.rect, view)
  IN  RectLeaves("rect", rec.rect)
      @@ [k \in {"out_of_view"} \X DOMAIN out |-> Number(out[k[2]])]
      @@ <<"tag">> :> Text(rec.tag) @@ <<"path">> :> Text(rec.path)
      @@ <<"onscreen">> :> Text(Onscreen(rec.rect, view))
      @@ <<"distance_from_action">> :> Number(Rounded(Distance(rec.rect, point)))
      @@ <<"direction">> :> Text(Direction(rec.rect, point))
      @@ <<"z_index">> :> Text(rec.css["z-index"])
      @@ (IF rec.text THEN <<"text">> :> Text(rec.tag) ELSE << >>)
      @@ (IF rec.aria THEN <<"aria">> :> Text(rec.tag) ELSE << >>)

\* css_diff: the properties that an entry lists, whose values are among its leaves.
Entry(rec, leaves, css_diff, visible_changed, row) ==
  [path |-> rec.path, tag |-> rec.tag, rect |-> rec.rect, at |-> rec.at, css_diff |-> css_diff,
   semantic |-> css_diff # {} \/ visible_changed, leaves |-> leaves, row |-> row]

\* appeared_entry, removed_entry: with the whole signature as a row of values.
WholeEntry(rec, point, view) ==
  Entry(rec, BaseEntry(rec, point, view), {}, FALSE, [i \in DOMAIN Signature |-> rec.css[Signature[i]]])

\* css_value_equal: numbers of one unit may differ by half a unit.
CssValueEqual(a, b) == a = b \/ (a.u = b.u /\ a.u \in {"px", ""} /\ ~ Beyond(a.n, b.n))

SignatureDiff(b, a) ==
  {p \in IF a.root THEN RootSignature \cap DOMAIN a.css ELSE DOMAIN a.css :
     ~ CssValueEqual(b.css[p], a.css[p])}

\* Mutated: only a change of size is a move
Resized(b, a) == ~ a.root /\ \E k \in 3..4 : Beyond(b.rect[k], a.rect[k])

\* The document element and the body never count as moved.
Moved(b, a) == ~ a.root /\ \E k \in 1..4 : Beyond(b.rect[k], a.rect[k])

Differs(b, a) == b.visible # a.visible \/ SignatureDiff(b, a) # {} \/ Moved(b, a)

ChangedEntry(b, a, point, view) ==
  LET props == SignatureDiff(b, a)
  IN  Entry(a,
        BaseEntry(a, point, view)
        @@ (IF Moved(b, a) THEN RectLeaves("rect_before", b.rect) @@ RectLeaves("rect_after", a.rect)
                           ELSE << >>)
        @@ (IF b.visible = a.visible THEN << >>
            ELSE <<"visible_before">> :> Text(b.visible) @@ <<"visible_after">> :> Text(a.visible))
        @@ [k \in {"css_diff"} \X props \X {"before", "after"} |->
              Text(IF k[3] = "before" THEN b.css[k[2]] ELSE a.css[k[2]])],
        props, b.visible # a.visible, << >>)

-----------------------------------------------------------------------------
(* The report. *)

\* The entries in the order of the report: the largest first, changes of style or visibility
\* before those of place alone; ties, which the code breaks by path, by place in the page.
Before(x, y) ==
  IF x.semantic # y.semantic THEN x.semantic
  ELSE IF Area(x.rect) # Area(y.rect) THEN Area(x.rect) > Area(y.rect) ELSE x.at < y.at

\* Mutated: changes are listed by size alone
BySize(entries, limit) ==
  LET above(x, y) == Area(x.rect) > Area(y.rect) \/ (Area(x.rect) = Area(y.rect) /\ x.at < y.at)
      listed == [k \in 1..Cardinality(entries) |->
                  CHOOSE x \in entries : Cardinality({y \in entries : above(y, x)}) = k - 1]
  IN  IF limit > 0 /\ limit < Len(listed) THEN SubSeq(listed, 1, limit) ELSE listed

Listed(entries, limit) ==
  LET listed == [k \in 1..Cardinality(entries) |->
                  CHOOSE x \in entries : Cardinality({y \in entries : Before(y, x)}) = k - 1]
  IN  IF limit > 0 /\ limit < Len(listed) THEN SubSeq(listed, 1, limit) ELSE listed

HasStyles(entry) == entry.css_diff # {}

ClassifyEffect(found) ==
  IF found.appeared # << >> \/ found.revealed > 0 THEN "revealed"
  ELSE IF found.removed # << >> \/ found.hidden > 0 THEN "hidden"
  ELSE IF \E i \in DOMAIN found.changed : HasStyles(found.changed[i]) THEN "changed"
  ELSE IF found.changed # << >> THEN "moved"
  ELSE "no_effect"

\* Where the summary says that the largest newcomer is: the first of the directions that it
\* is farthest out of view in, and its distance, in whole pixels.
Biggest(entry, point, view) ==
  LET out == OutOfView(entry.rect, view)
      far == {d \in DOMAIN out : \A e \in DOMAIN out : out[d] >= out[e]}
      named == SelectSeq(<<"above", "below", "left", "right">>, LAMBDA d : d \in far)
  IN  <<entry.tag, IF Onscreen(entry.rect, view) \/ out = << >> THEN << >> ELSE <<named[1], out[named[1]]>>,
        Distance(entry.rect, point) \div 10>>

\* build_summary: what the sentence is made of; the one for no effect is fixed.
Summary(effect, counts, appeared, point, view) ==
  IF effect = "no_effect" THEN << >>
  ELSE <<counts, IF appeared = << >> THEN << >> ELSE Biggest(appeared[1], point, view)>>

\* The elements of both snapshots that are now visible, or now hidden.
Turned(b, a, visible) ==
  {p \in DOMAIN b \cap DOMAIN a : b[p].visible # a[p].visible /\ a[p].visible = visible}

\* diff: what it finds, in the lists that it reports.
Differences(step) ==
  LET b == Keyed(Records(step.before))
      a == Keyed(Records(step.after))
      point == Centre(step.target.rect)
      whole(recs, paths) == {WholeEntry(recs[p], point, step.view) : p \in paths}
  IN  [appeared |-> Listed(whole(a, DOMAIN a \ DOMAIN b), step.limit),
       removed  |-> Listed(whole(b, DOMAIN b \ DOMAIN a), step.limit),
       changed  |-> Listed({ChangedEntry(b[p], a[p], point, step.view) :
                              p \in {q \in DOMAIN b \cap DOMAIN a : Differs(b[q], a[q])}}, step.limit),
       revealed |-> Cardinality(Turned(b, a, TRUE)),
       hidden   |-> Cardinality(Turned(b, a, FALSE))]

\* What the report of an interaction calls its effect.
Effect(step) == ClassifyEffect(Differences(step))

\* diff
Report(step) ==
  LET found == Differences(step)
      effect == ClassifyEffect(found)
      counts == <<Len(found.appeared), found.revealed, Len(found.removed), found.hidden, Len(found.changed)>>
  IN  [leaves |->
         RectLeaves("target_rect", step.target.rect)
         @@ <<"action">> :> Text(step.kind) @@ <<"selector">> :> Text(step.selector)
         @@ <<"target_path">> :> Text(step.target.path)
         @@ <<"target_onscreen">> :> Text(Onscreen(step.target.rect, step.view))
         @@ <<"effect">> :> Text(effect)
         @@ <<"summary">> :> Text(Summary(effect, counts, found.appeared, Centre(step.target.rect), step.view)),
       keys |-> IF found.appeared = << >> /\ found.removed = << >> THEN << >> ELSE Signature,
       lists |-> [appeared |-> found.appeared, removed |-> found.removed, changed |-> found.changed]]
=============================================================================
