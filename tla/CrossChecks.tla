----------------------------- MODULE CrossChecks -----------------------------
(***************************************************************************)
(* The checks that compare the elements of a page with each other: the     *)
(* sweep that finds which of them others cover                             *)
(* (crates/sniff-css-check/src/rules.rs, check_occlusion), and the norm of *)
(* a group and who deviates from it (crates/sniff-css-check/src/           *)
(* uniformity.rs).                                                         *)
(***************************************************************************)
EXTENDS Integers, Sequences, FiniteSets, Functions

-----------------------------------------------------------------------------
(* The sweep.  A page is what it asks of one: rect, the rectangle of each element, <<x, y,
   width, height>>; exempt, the pairs <<i, j>>, i to the left, that are not compared; above,
   the pairs of an element and one that it paints over. *)

Nearest(a, b)  == IF a < b THEN a ELSE b
Farthest(a, b) == IF a > b THEN a ELSE b

\* The length that two intervals share, and the area that two rectangles do.
Overlap(p, plen, q, qlen) == Farthest(0, Nearest(p + plen, q + qlen) - Farthest(p, q))
Shares(r, s) == Overlap(r[1], r[3], s[1], s[3]) * Overlap(r[2], r[4], s[2], s[4])
Area(r) == r[3] * r[4]

ShareOf(page, i, j) == Shares(page.rect[i], page.rect[j])

\* record_cover: the largest share wins, the first of equals.
RecordCover(covered, below, above, share) ==
  IF covered[below].by # 0 /\ covered[below].share >= share THEN covered
  ELSE [covered EXCEPT ![below] = [by |-> above, share |-> share]]

\* One of the two is at least half covered by the other and paints below it.
Cover(page, covered, below, above) ==
  LET share == ShareOf(page, below, above)
  IN  IF 2 * share >= Area(page.rect[below]) /\ <<above, below>> \in page.above
      THEN RecordCover(covered, below, above, share) ELSE covered

Pair(page, covered, i, j) ==
  IF ShareOf(page, i, j) = 0 \/ <<i, j>> \in page.exempt THEN covered
  ELSE Cover(page, Cover(page, covered, i, j), j, i)

Left(page, i)  == page.rect[i][1]
Right(page, i) == page.rect[i][1] + page.rect[i][3]

\* Mutated: the sweep stops at the first element that leaves earlier
Stops(page, i, j) == Right(page, j) <= Right(page, i)

\* Past the right edge of i, no later element overlaps it.
Passed(page, i, j) == Left(page, j) >= Right(page, i)

\* The inner loop, over the elements after the k-th, until it breaks.
SweepFrom(page, order, k, covered) ==
  LET to[n \in 0..Len(order)] ==
        IF n = 0 THEN covered
        ELSE IF n <= k \/ \E m \in (k + 1)..n : Passed(page, order[k], order[m]) THEN to[n - 1]
        ELSE Pair(page, to[n - 1], order[k], order[n])
  IN  to[Len(order)]

\* What covers each element; by is 0 where nothing does.
Sweep(page, order) ==
  LET to[k \in 0..Len(order)] ==
        IF k = 0 THEN [i \in DOMAIN page.rect |-> [by |-> 0, share |-> 0]]
        ELSE SweepFrom(page, order, k, to[k - 1])
  IN  to[Len(order)]

-----------------------------------------------------------------------------
(* The norm.  An instance is a function from its properties to their values, numbers with a
   unit ([n, u]). *)

\* The value that stands at place k when the values are sorted.
Sorted(values, k) ==
  CHOOSE v \in Range(values) :
    /\ Cardinality({i \in DOMAIN values : values[i] < v}) < k
    /\ Cardinality({i \in DOMAIN values : values[i] <= v}) >= k

\* The value in the middle of the sorted values, or between the two in the middle.
Median(values) ==
  LET mid == Len(values) \div 2
  IN  IF Len(values) % 2 = 1 THEN Sorted(values, mid + 1)
      ELSE (Sorted(values, mid) + Sorted(values, mid + 1)) \div 2

\* strip_number finds a number in each value, of one unit in all.
AreNumbers(values) ==
  \A i \in DOMAIN values : values[i].u = values[1].u /\ values[i].u \in {"", "px", "%"}

Occurs(values, v) == Cardinality({i \in DOMAIN values : values[i] = v})

\* Mutated: the first instance is the norm
NormIsFirst(values) == values[1]

\* group_norm: the median of numbers, else the commonest (of equals, one that does not
\* depend on the instances' order).
GroupNorm(values) ==
  IF AreNumbers(values)
  THEN [n |-> Median([i \in DOMAIN values |-> values[i].n]), u |-> values[1].u]
  ELSE CHOOSE v \in Range(values) : \A w \in Range(values) : Occurs(values, v) >= Occurs(values, w)

\* The instances that deviate in a property.
Deviants(instances, k, tolerance) ==
  LET having == {i \in DOMAIN instances : k \in DOMAIN instances[i]}
      values == [i \in DOMAIN instances |-> instances[i][k]]
      norm   == GroupNorm(values)
  IN  IF having # DOMAIN instances THEN DOMAIN instances \ having
      ELSE {i \in DOMAIN instances :
              /\ \E j \in DOMAIN instances : values[j] # values[1]
              /\ values[i] # norm
              /\ ~ (AreNumbers(values) /\ values[i].n - norm.n \in (-tolerance)..tolerance)}

\* Of instances that all have a property, those that share the value of more than half are
\* never the odd ones.
MajorityConforms(instances, tolerance) ==
  \A i \in DOMAIN instances : \A k \in DOMAIN instances[i] :
    /\ \A j \in DOMAIN instances : k \in DOMAIN instances[j]
    /\ 2 * Cardinality({j \in DOMAIN instances : instances[j][k] = instances[i][k]}) > Len(instances)
    => i \notin Deviants(instances, k, tolerance)
=============================================================================
