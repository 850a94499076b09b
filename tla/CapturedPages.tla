---------------------------- MODULE CapturedPages ----------------------------
(***************************************************************************)
(* The pages that `sniff diff` and `sniff check` have captures of, and     *)
(* what the two passes over their elements, the extraction and the effect  *)
(* capture, say about them: the selectors, the backgrounds and the effects *)
(* of interactions.                                                        *)
(***************************************************************************)
EXTENDS DocumentBatch

CONSTANTS Pages,     \* the pages that there are captures of
          Elements,  \* the elements that they consist of
          MaxClimb, Deepest, Signature, RootSignature, RoleTags

DOM == INSTANCE EffectReport

ASSUME BoundsGiven == MaxClimb \in Nat \ {0} /\ Deepest \in Nat

\* The children of an element are elements; a rectangle is four numbers.
ASSUME ElementsGiven ==
  /\ \A el \in Elements :
       /\ el.kids = [i \in 1..Len(el.kids) |-> el.kids[i]]
       /\ Len(el.kids) \in Nat
       /\ el.rect = << >> \/ el.rect \in [1..4 -> Int]
  /\ UNION {Range(el.kids) : el \in Elements} \subseteq Elements

\* The documents that a page has been: as it is, and about each of its interactions.
DocumentsOf(page) ==
  {page.html} \cup UNION {{page.steps[i].before, page.steps[i].after} : i \in DOMAIN page.steps}

ASSUME PagesGiven ==
  /\ \A r \in Runs : r.verb \in {"diff", "check"} => \A side \in Sides : r.page[side] \in DOMAIN Pages
  /\ UNION {DocumentsOf(Pages[p]) : p \in DOMAIN Pages} \subseteq Elements
  /\ \A p \in DOMAIN Pages :
       /\ \A i \in DOMAIN Pages[p].steps :
            /\ {"before", "after", "target", "view", "limit"} \subseteq DOMAIN Pages[p].steps[i]
            /\ Pages[p].steps[i].limit \in Nat
       /\ \A html \in DocumentsOf(Pages[p]) : \A chain \in Range(DOM!Chains(html)) :
            Len(chain) > Deepest => chain[1].el.kids = << >>

\* EFFECT_SIGNATURE_PROPS and ROOT_SIGNATURE_PROPS both have what shows at once.
ASSUME SignatureGiven ==
  {"color", "background-color", "display"} \subseteq Range(Signature) \cap RootSignature

\* The captures, as soon as they are all there.
Captured == IF Offline /\ phase = "capture" /\ DOMAIN files = Range(Needed) THEN DOMAIN files ELSE {}

PageOf(side) == Pages[run.page[side]]

-----------------------------------------------------------------------------

\* selectorOf reaches an anchor or the document element before it has climbed enough, and
\* no two elements have one anchor, nor a tag that reads like another's.
Anchored(link) == link.el.anchor # ""

Told(chains) ==
  /\ \A c \in chains : \E k \in DOMAIN c : k <= MaxClimb /\ (k = Len(c) \/ Anchored(c[k]))
  /\ \A c, d \in chains :
       Anchored(c[1]) /\ DOM!Token(c[1].el) = DOM!Token(d[1].el) => c = d

\* The selectors that matching relies on tell the elements of a page apart, as long as its
\* anchors are unique: captures of disjoint elements never repeat one.
SelectorsUnique ==
  \A side \in Captured :
    LET chains == DOM!Chains(PageOf(side).html)
    IN  Told(Range(chains)) =>
          \A i, j \in DOMAIN chains :
            DOM!SelectorOf(chains[i]) = DOM!SelectorOf(chains[j]) => i = j

\* The background behind an element as resolve_background has it, of a capture that starts at the
\* root-th of the element and those above it: what is behind the capture is not known.
Resolved(styles, root) ==
  LET walk[k \in 1..(root + 1)] ==
        IF k > root THEN DOM!Unknown ELSE DOM!ResolveBackground(styles[k], walk[k + 1])
  IN  walk[1]

InBody(chain) == Len(chain) > 1 /\ chain[Len(chain) - 1].el = DOM!Last(DOM!Last(chain).el.kids)

\* Wherever the capture starts, the walk over it resolves the background that the page's script
\* does behind an element, or none; and in the body the same, when it starts at the document
\* element, though only the script knows of the canvas.
BackgroundsAgree ==
  \A side \in Captured : \A chain \in Range(DOM!Chains(PageOf(side).html)) :
    \A root \in DOMAIN chain :
      LET script == DOM!EffectiveBackground(DOM!StylesOf(chain), DOM!CanvasOf(DOM!Last(chain).el))
          walk == Resolved(DOM!StylesOf(chain), root)
      IN  \/ walk = script
          \/ walk = DOM!Unknown /\ ~ (root = Len(chain) /\ InBody(chain))

-----------------------------------------------------------------------------
(* The reports of effects. *)

\* --actions-limit trims what a report lists and never changes what it says happened: the
\* effect is classified after the lists are cut, and keeps.
LimitKeepsEffect ==
  \A side \in Captured :
    LET steps == PageOf(side).steps
    IN  \A i \in DOMAIN steps :
          DOM!Effect(steps[i]) = DOM!Effect([steps[i] EXCEPT !.limit = 0])

Distinct(html) == Cardinality(DOM!PathsOf(DOM!Records(html))) = Len(DOM!Seen(html))

Same(b, a) ==
  /\ DOM!Path(b, 4) = DOM!Path(a, 4)
  /\ DOM!Shown(b[1].el) = DOM!Shown(a[1].el)
  /\ a[1].el.tag \notin {"html", "body"} =>
       \A k \in 1..4 : ~ DOM!Beyond(DOM!Rect(b[1].el)[k], DOM!Rect(a[1].el)[k])
  /\ \A p \in {"color", "background-color", "display"} :
       DOM!CssValueEqual(DOM!Css(b[1].el.css, p), DOM!Css(a[1].el.css, p))

\* "no_effect" is the truth about what is looked at, which the inside of an SVG is not, when four
\* steps of a path tell those elements apart: they are the same, each where it was and as it
\* was but for half a unit.
NoEffectTruthful ==
  \A side \in Captured :
    LET steps == PageOf(side).steps
    IN  \A i \in DOMAIN steps :
          /\ DOM!Effect(steps[i]) = "no_effect"
          /\ Distinct(steps[i].before) /\ Distinct(steps[i].after)
          => LET before == DOM!Seen(steps[i].before)
                 after == DOM!Seen(steps[i].after)
             IN  /\ Len(before) = Len(after)
                 /\ \A j \in DOMAIN before : \E k \in DOMAIN after : Same(before[j], after[k])

\* What a report of an interaction calls its effect is the truth about what is looked at of the
\* page, however little of it the report has room for.
EffectsTruthful == LimitKeepsEffect /\ NoEffectTruthful
=============================================================================
