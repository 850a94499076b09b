---------------------------- MODULE StyleFormat ----------------------------
(***************************************************************************)
(* The styles of an element in a capture file: which of them are written   *)
(* (crates/sniff-engine/src/output.rs, StylesToJson and                    *)
(* compute_style_defaults), and how the styles that all of a capture's     *)
(* elements have are hoisted out of their lines.                           *)
(***************************************************************************)
EXTENDS Integers, Sequences

CONSTANTS Category,   \* property -> its category; "css_variables" for a custom property
          Kept,       \* KEEP_DEFAULTS
          Physical,   \* physical_equivalent: logical property -> physical property
          Noise       \* is_noise_value

Empty == << >>  \* the function of no key

\* No property's physical equivalent is a custom property.
ASSUME PhysicalGiven ==
  \A p \in DOMAIN Physical :
    Physical[p] \in DOMAIN Category => Category[Physical[p]] # "css_variables"

Variables == {p \in DOMAIN Category : Category[p] = "css_variables"}

Only(f, keys) == [k \in DOMAIN f \cap keys |-> f[k]]

\* f with the entries of g whose keys it lacks.
OrElse(f, g) == [k \in DOMAIN f \cup DOMAIN g |-> IF k \in DOMAIN f THEN f[k] ELSE g[k]]

\* Logical properties that repeat their physical one go, default values go.
CompactGroup(css) ==
  Only(css, {p \in DOMAIN css \ Variables :
    /\ ~ /\ p \in DOMAIN Physical
         /\ Physical[p] \in DOMAIN css
         /\ css[Physical[p]] = css[p]
    /\ p \in Kept \/ css[p] \notin Noise})

\* Variables that the element inherits unchanged from the document go.
ScopeVariables(css, globals) ==
  Only(css, {p \in DOMAIN css \cap Variables :
    p \notin DOMAIN globals \/ globals[p] # css[p]})

\* A value of a grouped object is found under its category and its name; of an ungrouped
\* one under its name alone, which a reader takes for a category.
Key(p, cfg) == IF cfg.grouped THEN <<Category[p], p>> ELSE <<p, "_value">>

Keyed(css, cfg) ==
  [k \in {Key(p, cfg) : p \in DOMAIN css} |-> css[IF cfg.grouped THEN k[2] ELSE k[1]]]

StylesToJson(css, cfg, globals) ==
  Keyed(IF cfg.compact THEN OrElse(CompactGroup(css), ScopeVariables(css, globals)) ELSE css, cfg)

\* What all of the objects in the sequence agree on.
Shared(objects) ==
  IF objects = << >> THEN Empty
  ELSE Only(objects[1], {k \in DOMAIN objects[1] :
         \A i \in DOMAIN objects :
           k \in DOMAIN objects[i] /\ objects[i][k] = objects[1][k]})

\* compacted_styles: the variables are scoped, never hoisted.
Constant(css) == CompactGroup(Only(css, DOMAIN css \ Variables))

\* compute_style_defaults: what is hoisted out of the elements.
Hoisted(styles, cfg) ==
  IF cfg.compact /\ cfg.grouped /\ Len(styles) >= 2
  THEN Shared([i \in DOMAIN styles |-> Keyed(Constant(styles[i]), cfg)]) ELSE Empty

DedupStyles(css, defaults) ==
  Only(css, {k \in DOMAIN css : k \notin DOMAIN defaults \/ css[k] # defaults[k]})

\* The styles of an element that are not hoisted, in its own line.
Unhoisted(css, cfg, globals, defaults) ==
  LET all == StylesToJson(css, cfg, globals)
  IN  IF cfg.compact /\ cfg.grouped THEN DedupStyles(all, defaults) ELSE all
=============================================================================
