--------------------------- MODULE SiblingMatching ---------------------------
(***************************************************************************)
(* The matching of two lists of siblings (crates/sniff-css-diff/src/       *)
(* diff.rs, diff_children): a function from the base's positions to the    *)
(* head's, 0 for none.  An element is a record whose field sel is its      *)
(* selector, << >> when it has none.                                       *)
(***************************************************************************)
EXTENDS Integers, Sequences, Functions

FirstOf(candidates) ==
  IF candidates = {} THEN 0 ELSE CHOOSE i \in candidates : \A j \in candidates : i <= j

Unused(head, match) == DOMAIN head \ Range(match)

\* Mutated: siblings are paired by their places alone
InOrder(base, head) == [b \in DOMAIN base |-> IF b \in DOMAIN head THEN b ELSE 0]

\* Pass 1: the first unused head of the same selector.
BySelector(base, head) ==
  LET to[n \in 0..Len(base)] ==
        IF n = 0 THEN << >>
        ELSE LET match == to[n - 1]
             IN  Append(match, IF base[n].sel = << >> THEN 0
                               ELSE FirstOf({h \in Unused(head, match) : head[h].sel = base[n].sel}))
  IN  to[Len(base)]

\* Mutated: the rest is paired with the head's last elements first
FromTheEnd(base, head) ==
  LET to[n \in 0..Len(base)] ==
        IF n = 0 THEN BySelector(base, head)
        ELSE LET match == to[n - 1]
                 unused == Unused(head, match)
             IN  IF match[n] # 0 \/ unused = {} THEN match
                 ELSE [match EXCEPT ![n] = CHOOSE i \in unused : \A j \in unused : i >= j]
  IN  to[Len(base)]

\* Pass 2: for the rest, the first unused head of any selector.
MatchChildren(base, head) ==
  LET to[n \in 0..Len(base)] ==
        IF n = 0 THEN BySelector(base, head)
        ELSE LET match == to[n - 1]
             IN  IF match[n] # 0 THEN match
                 ELSE [match EXCEPT ![n] = FirstOf(Unused(head, match))]
  IN  to[Len(base)]
=============================================================================
