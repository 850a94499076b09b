------------------------------ MODULE Extractor ------------------------------
(***************************************************************************)
(* The extraction pass (crates/sniff-engine/src/extractor.rs): a script    *)
(* that walks the page's DOM and returns a snapshot of each matched        *)
(* element and its subtree, and the verdicts on contrast that the captured *)
(* tree adds (crates/sniff-core/src/contrast.rs).                          *)
(***************************************************************************)
EXTENDS PageTree

\* apply_contrast_node: elements without text of their own are passed over; where the page
\* resolved nothing the captured ancestors decide.
RECURSIVE ApplyContrast(_, _)
ApplyContrast(forest, inherited) ==
  [i \in DOMAIN forest |->
    LET n == forest[i]
        own == IF n.facet.text /\ n.bg.kind # "unknown" THEN n.bg
               ELSE ResolveBackground(n.css, inherited)
    IN  [n EXCEPT !.facet.contrast = IF n.facet.text THEN ContrastOn(n.css, own) ELSE @,
                  !.kids = ApplyContrast(@, own)]]

\* stackingContext, by the properties that the pages here have.
StackingContext(css) ==
  LET is(p, words) == Css(css, p).u \in words
  IN  \/ ~ is("z-index", {"absent", "auto"}) /\ ~ is("position", {"absent", "static"})
      \/ is("position", {"fixed", "sticky"})
      \/ "opacity" \in DOMAIN css /\ css["opacity"].n < 10
      \/ \E p \in {"transform", "perspective", "filter"} : ~ is(p, {"absent", "none"})
      \/ is("isolation", {"isolate"})
      \/ is("contain", {"layout", "paint", "strict", "content"})

\* buildNode: an element that does not pass takes its subtree with it.
RECURSIVE BuildNode(_, _, _)
BuildNode(chain, depth, maxDepth) ==
  LET el == chain[1].el
      kept == IF depth < maxDepth
              THEN SelectSeq([i \in DOMAIN el.kids |-> i], LAMBDA i : el.kids[i].passes)
              ELSE << >>
  IN  [sel |-> SelectorOf(chain), css |-> el.css, pseudo |-> el.pseudo, rect |-> el.rect,
       facet |-> [el.facet EXCEPT !.stacking = StackingContext(el.css)],
       bg |-> EffectiveBackground(StylesOf(chain), CanvasOf(Last(chain).el)),
       kids |-> [k \in DOMAIN kept |->
                  BuildNode(Link(el.kids, kept[k], chain), depth + 1, maxDepth)]]

Extract(html, maxDepth) ==
  LET roots == SelectSeq(Chains(html), LAMBDA c : c[1].el.match /\ c[1].el.passes)
  IN  ApplyContrast([i \in DOMAIN roots |-> BuildNode(roots[i], 0, maxDepth)], Unknown)
=============================================================================
