------------------------------- MODULE PageTree -------------------------------
(***************************************************************************)
(* The page's DOM as the scripts of the extractor and of the effect        *)
(* capture walk it (crates/sniff-engine/src/extractor.rs, effects.rs): the *)
(* elements in document order, each with the chain of those above it, and  *)
(* the paths by which it is named.                                         *)
(*                                                                         *)
(* A DOM element is its tag or first class, its anchor (id or stable key,  *)
(* "" when it has none), whether it matches the capture's selector, whether *)
(* it passes the filter, its styles and facets, and its children.          *)
(***************************************************************************)
EXTENDS Contrast, SequencesExt

CONSTANTS MaxClimb,  \* how many ancestors selectorOf climbs
          Deepest    \* bound: how far below the document element elements are

Token(el) == IF el.anchor # "" THEN el.anchor ELSE el.tag

\* An element's place among its siblings, 0 when it has none.
Nth(siblings, i) == IF Len(siblings) > 1 THEN i ELSE 0

\* Mutated: the place is left out
SelectorByClass(chain) == [k \in 1..Len(chain) |-> <<Token(chain[k].el), 0>>]

\* Up the chain, the element first, to the first one with an anchor, which stands without
\* its place, or for so many steps.
Path(chain, steps) ==
  LET anchored == {k \in DOMAIN chain : chain[k].el.anchor # ""}
      top == IF anchored = {} THEN Len(chain)
             ELSE CHOOSE k \in anchored : \A j \in anchored : k <= j
  IN  [k \in 1..(IF top < steps THEN top ELSE steps) |->
        <<Token(chain[k].el), IF chain[k].el.anchor # "" THEN 0 ELSE chain[k].nth>>]

\* selectorOf
SelectorOf(chain) == Path(chain, MaxClimb)

Link(siblings, i, above) == <<[el |-> siblings[i], nth |-> Nth(siblings, i)]>> \o above

Offspring(chain) ==
  [i \in DOMAIN chain[1].el.kids |-> Link(chain[1].el.kids, i, chain)]

\* The elements of one more generation take their places, each after its parent.
Unfold(chains, depth) ==
  FlattenSeq([i \in DOMAIN chains |->
    <<chains[i]>> \o (IF Len(chains[i]) = depth THEN Offspring(chains[i]) ELSE << >>)])

\* querySelectorAll, in document order: an element inside a matched one is matched again.
Chains(html) ==
  LET to[depth \in 0..Deepest] ==
        IF depth = 0 THEN <<Link(<<html>>, 1, << >>)>> ELSE Unfold(to[depth - 1], depth)
  IN  to[Deepest]

\* The document element's last child is the body.
CanvasOf(html) == Canvas(html.css, Last(html.kids).css)

\* The styles of an element and of those above it.
StylesOf(chain) == [k \in DOMAIN chain |-> chain[k].el.css]
=============================================================================
