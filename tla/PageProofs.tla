------------------------------ MODULE PageProofs ------------------------------
(***************************************************************************)
(* Proofs about the functions on pages: for any pages, as deep as they     *)
(* are, what is extracted of an element, and what a report says of an      *)
(* action (CapturedPages); for any lists, how siblings are matched         *)
(* (SiblingMatching), which value is the norm of a group and which element *)
(* covers which (CrossChecks), and what the hoisting of styles gives back  *)
(* (StyleFormat).                                                          *)
(***************************************************************************)
EXTENDS CapturedPages, SiblingMatching, CrossChecks, StyleFormat,
        SequenceTheorems, FiniteSetTheorems, FunctionTheorems, WellFoundedInduction, TLAPS

-----------------------------------------------------------------------------
(* Induction.  The library's induction theorems take an operator; these take the set of what
   it is true of. *)

\* Induction over the numbers, for a set of them.
LEMMA NatInduct ==
  ASSUME NEW P \in SUBSET Nat, 0 \in P, \A n \in P : n + 1 \in P
  PROVE  P = Nat
<1>1. SUFFICES ASSUME P # Nat PROVE FALSE
  OBVIOUS
<1>2. Nat \ P \subseteq Nat /\ Nat \ P # {}
  BY <1>1
<1>3. PICK least \in Nat \ P : \A n \in Nat \ P : ~ (<<n, least>> \in OpToRel(<, Nat))
  BY <1>2, WFMin, NatLessThanWellFounded
<1>4. \A n \in Nat \ P : ~ (n < least)
  BY <1>2, <1>3 DEF OpToRel
<1>5. least # 0 /\ least - 1 \in Nat /\ least - 1 < least
  OBVIOUS
<1>6. least - 1 \in P
  BY <1>4, <1>5
<1> QED
  BY <1>5, <1>6

\* and over the sequences, built from the front.
LEMMA SeqInduct ==
  ASSUME NEW X, NEW P \in SUBSET Seq(X), << >> \in P,
         \A q \in P : \A x \in X : Append(q, x) \in P
  PROVE  P = Seq(X)
<1> DEFINE N == {n \in Nat : \A q \in Seq(X) : Len(q) = n => q \in P}
<1>1. 0 \in N
  BY EmptySeq
<1>2. ASSUME NEW n \in N PROVE n + 1 \in N
  <2>1. SUFFICES ASSUME NEW q \in Seq(X), Len(q) = n + 1 PROVE q \in P
    OBVIOUS
  <2>2. PICK s \in Seq(X), x \in X : q = Append(s, x)
    <3>1. n \in Nat
      OBVIOUS
    <3>2. q # << >>
      BY <2>1, <3>1
    <3> QED
      BY <3>2, SequenceEmptyOrAppend
  <2>3. Len(s) = n
    BY <2>1, <2>2
  <2> QED
    BY <2>2, <2>3, <1>2
<1>3. N = Nat
  <2> HIDE DEF N
  <2> QED BY <1>1, <1>2, NatInduct DEF N
<1>4. \A q \in Seq(X) : q \in P
  <2>1. TAKE q \in Seq(X)
  <2>2. Len(q) \in N
    <3> HIDE DEF N
    <3> QED  BY <1>3
  <2> QED
    BY <2>2
<1> QED
  BY <1>4

\* Values that follow from each other, a step at a time.
Stepwise(f, n, step) == \A k \in 1..n : f[k] = step[k][f[k - 1]]

LEMMA FoldExists ==
  ASSUME NEW S, NEW base \in S, NEW n \in Nat, NEW step \in [1..n -> [S -> S]]
  PROVE  \E f \in [0..n -> S] : f[0] = base /\ Stepwise(f, n, step)
<1> DEFINE Computed(m) == \E f \in [0..m -> S] : f[0] = base /\ \A k \in 1..m : f[k] = step[k][f[k - 1]]
           P == {m \in Nat : m <= n => Computed(m)}
<1>1. 0 \in P
  <2>1. [k \in 0..0 |-> base] \in [0..0 -> S]
    OBVIOUS
  <2> DEFINE f == [k \in 0..0 |-> base]
  <2>2. f[0] = base /\ \A k \in 1..0 : f[k] = step[k][f[k - 1]]
    OBVIOUS
  <2>3. Computed(0)
    BY <2>1, <2>2
  <2> QED
    BY <2>3
<1>2. ASSUME NEW m \in P PROVE m + 1 \in P
  <2>1. SUFFICES ASSUME m + 1 <= n PROVE Computed(m + 1)
    <3> HIDE DEF Computed
    <3> QED  OBVIOUS
  <2>0. m \in Nat /\ m <= n /\ Computed(m)
    <3> HIDE DEF Computed
    <3> QED  BY <2>1
  <2>2. PICK f \in [0..m -> S] : f[0] = base /\ \A k \in 1..m : f[k] = step[k][f[k - 1]]
    BY <2>0
  <2> DEFINE g == [k \in 0..(m + 1) |-> IF k = m + 1 THEN step[m + 1][f[m]] ELSE f[k]]
  <2>3. step[m + 1][f[m]] \in S
    BY <2>0, <2>1, <2>2
  <2>4. g \in [0..(m + 1) -> S]
    BY <2>0, <2>2, <2>3
  <2>5. g[0] = base /\ \A k \in 1..(m + 1) : g[k] = step[k][g[k - 1]]
    BY <2>0, <2>2
  <2> QED
    BY <2>4, <2>5
<1>3. P = Nat
  <2> HIDE DEF P
  <2> QED BY <1>1, <1>2, NatInduct DEF P
<1>4. Computed(n)
  <2> HIDE DEF Computed
  <2>1. n \in P
    <3> HIDE DEF P
    <3> QED  BY <1>3
  <2> QED  BY <2>1
<1> QED
  BY <1>4 DEF Stepwise

LEMMA FoldUnique ==
  ASSUME NEW n \in Nat, NEW step, NEW f, NEW g, f[0] = g[0], Stepwise(f, n, step), Stepwise(g, n, step)
  PROVE  f[n] = g[n]
<1> DEFINE P == {k \in Nat : k <= n => f[k] = g[k]}
<1>1. 0 \in P
  OBVIOUS
<1>2. ASSUME NEW k \in P PROVE k + 1 \in P
  <2>1. SUFFICES ASSUME k + 1 <= n PROVE f[k + 1] = g[k + 1]
    OBVIOUS
  <2>2. f[k] = g[k]
    BY <2>1
  <2>3. k + 1 \in 1..n /\ (k + 1) - 1 = k
    BY <2>1
  <2> QED
    BY <2>2, <2>3 DEF Stepwise
<1>3. P = Nat
  <2> HIDE DEF P
  <2> QED BY <1>1, <1>2, NatInduct DEF P
<1> QED
  BY <1>3

\* A set of numbers has a least one.
LEMMA Least ==
  ASSUME NEW S \in SUBSET Nat, S # {}
  PROVE  \E k \in S : \A j \in S : k <= j
<1>1. PICK least \in S : \A n \in S : ~ (<<n, least>> \in OpToRel(<, Nat))
  BY WFMin, NatLessThanWellFounded
<1>2. \A n \in S : ~ (n < least)
  BY <1>1 DEF OpToRel
<1> QED  BY <1>2

\* What is true at first and follows at each step is true at last.
LEMMA Along ==
  ASSUME NEW n \in Nat, NEW g, NEW P, <<0, g[0]>> \in P,
         \A k \in 1..n : <<k - 1, g[k - 1]>> \in P => <<k, g[k]>> \in P
  PROVE  <<n, g[n]>> \in P
<1> DEFINE Q == {k \in Nat : k <= n => <<k, g[k]>> \in P}
<1>1. 0 \in Q
  OBVIOUS
<1>2. ASSUME NEW k \in Q PROVE k + 1 \in Q
  <2>1. SUFFICES ASSUME k + 1 <= n PROVE <<k + 1, g[k + 1]>> \in P
    OBVIOUS
  <2>2. k \in Nat /\ <<k, g[k]>> \in P /\ k + 1 \in 1..n /\ (k + 1) - 1 = k
    BY <2>1
  <2> QED  BY <2>2
<1>3. Q = Nat
  <2> HIDE DEF Q
  <2> QED BY <1>1, <1>2, NatInduct DEF Q
<1> QED  BY <1>3

-----------------------------------------------------------------------------
(* The lists that are strung together into one. *)

\* What is strung together so far, part by part.
LEMMA FlattenSteps ==
  ASSUME NEW X, NEW q \in Seq(Seq(X)), q # << >>
  PROVE  \E f \in [1..Len(q) -> Seq(X)] :
           /\ f[1] = q[1] /\ \A k \in 2..Len(q) : f[k] = f[k - 1] \o q[k]
           /\ DOM!FlattenSeq(q) = f[Len(q)]
<1> DEFINE n == Len(q)
           Rec(h) == h = [i \in 1..n |-> IF i = 1 THEN q[i] ELSE h[i - 1] \o q[i]]
           step == [k \in 1..n |-> [s \in Seq(X) |-> s \o q[k]]]
<1>1. n \in Nat /\ n >= 1 /\ q \in [1..n -> Seq(X)]
  BY EmptySeq
<1>2. DOM!FlattenSeq(q) = (CHOOSE h : Rec(h))[n]
  BY <1>1 DEF DOM!FlattenSeq
<1> HIDE DEF n
<1>3. step \in [1..n -> [Seq(X) -> Seq(X)]]
  <2>1. ASSUME NEW k \in 1..n, NEW s \in Seq(X) PROVE s \o q[k] \in Seq(X)
    BY <1>1
  <2> QED  BY <2>1
<1>4. << >> \in Seq(X)
  OBVIOUS
<1>5. PICK f \in [0..n -> Seq(X)] : f[0] = << >> /\ Stepwise(f, n, step)
  <2> HIDE DEF step
  <2> QED  BY <1>1, <1>3, <1>4, FoldExists
<1>6. ASSUME NEW k \in 1..n PROVE f[k] = f[k - 1] \o q[k] /\ f[k - 1] \in Seq(X)
  <2>1. k - 1 \in 0..n
    BY <1>1
  <2> QED  BY <1>5, <2>1 DEF Stepwise
<1>7. f[1] = q[1]
  <2>1. 1 \in 1..n /\ 1 - 1 = 0
    BY <1>1
  <2>2. f[1] = << >> \o q[1] /\ q[1] \in Seq(X)
    BY <1>1, <1>5, <1>6, <2>1, Zenon
  <2> QED  BY <2>2
<1> DEFINE e == [k \in 1..n |-> f[k]]
<1>8. e \in [1..n -> Seq(X)] /\ e[1] = q[1] /\ \A k \in 2..n : e[k] = e[k - 1] \o q[k]
  <2>1. \A k \in 1..n : f[k] \in Seq(X)
    BY <1>1
  <2>2. ASSUME NEW k \in 2..n PROVE k \in 1..n /\ k - 1 \in 1..n
    BY <1>1
  <2>3. e \in [1..n -> Seq(X)] /\ 1 \in 1..n
    BY <1>1, <2>1
  <2>4. ASSUME NEW k \in 2..n PROVE e[k] = e[k - 1] \o q[k]
    <3>1. e[k] = f[k] /\ e[k - 1] = f[k - 1]
      BY <2>2, Zenon
    <3> QED  BY <1>6, <2>2, <3>1, Zenon
  <2> QED  BY <1>7, <2>3, <2>4
<1>9. Rec(e)
  <2> HIDE DEF e
  <2>1. ASSUME NEW k \in 1..n PROVE e[k] = IF k = 1 THEN q[k] ELSE e[k - 1] \o q[k]
    <3>1. k = 1 \/ k \in 2..n
      BY <1>1
    <3>2. k \in 2..n => k # 1
      OBVIOUS
    <3> QED  BY <1>8, <3>1, <3>2, Zenon
  <2>2. e = [k \in 1..n |-> e[k]]
    BY <1>8
  <2> QED  BY <2>1, <2>2, Zenon
<1> DEFINE g == CHOOSE h : Rec(h)
<1>10. Rec(g)
  <2>1. \E h : Rec(h)
    BY <1>9
  <2> QED  BY <2>1
<1>11. g[n] = e[n]
  <2> DEFINE P == {k \in Nat : k + 1 \in 1..n => g[k + 1] = e[k + 1]}
  <2> HIDE DEF g, e
  <2>0. \A k \in 1..n : g[k] = IF k = 1 THEN q[k] ELSE g[k - 1] \o q[k]
    BY <1>10
  <2>1. 0 \in P
    BY <1>1, <1>8, <2>0
  <2>2. ASSUME NEW k \in P PROVE k + 1 \in P
    <3>1. SUFFICES ASSUME k + 2 \in 1..n PROVE g[k + 2] = e[k + 2]
      OBVIOUS
    <3>2. k \in Nat /\ k + 1 \in 1..n /\ k + 2 \in 2..n /\ (k + 2) - 1 = k + 1 /\ k + 2 # 1
      BY <1>1, <3>1
    <3>3. g[k + 1] = e[k + 1]
      BY <3>2
    <3>4. g[k + 2] = g[k + 1] \o q[k + 2] /\ e[k + 2] = e[k + 1] \o q[k + 2]
      BY <1>8, <2>0, <3>1, <3>2
    <3> QED  BY <3>3, <3>4
  <2>3. P = Nat
    <3> HIDE DEF P
    <3> QED  BY <2>1, <2>2, NatInduct DEF P
  <2>4. n - 1 \in Nat /\ (n - 1) + 1 = n /\ n \in 1..n
    BY <1>1
  <2>5. n - 1 \in P
    BY <2>3, <2>4
  <2> QED  BY <2>4, <2>5, Zenon
<1> QED
  BY <1>2, <1>8, <1>11 DEF n

LEMMA FlattenEmpty == DOM!FlattenSeq(<< >>) = << >>
BY DEF DOM!FlattenSeq

LEMMA FlattenAppend ==
  ASSUME NEW X, NEW q \in Seq(Seq(X)), NEW s \in Seq(X)
  PROVE  DOM!FlattenSeq(q) \in Seq(X) /\ DOM!FlattenSeq(Append(q, s)) = DOM!FlattenSeq(q) \o s
<1> DEFINE r == Append(q, s)
           n == Len(q)
<1>0. n \in Nat
  OBVIOUS
<1>1. /\ r \in Seq(Seq(X)) /\ r # << >> /\ Len(r) = n + 1 /\ n \in Nat /\ r[n + 1] = s
      /\ \A k \in 1..n : r[k] = q[k]
  <2>1. r \in Seq(Seq(X)) /\ Len(r) = n + 1 /\ r[n + 1] = s
    OBVIOUS
  <2>2. \A k \in 1..n : r[k] = q[k]
    OBVIOUS
  <2>3. r # << >>
    <3> HIDE DEF r, n
    <3> QED  BY <1>0, <2>1, EmptySeq
  <2> QED  BY <1>0, <2>1, <2>2, <2>3
<1> HIDE DEF r, n
<1>2. PICK g \in [1..(n + 1) -> Seq(X)] :
        /\ g[1] = r[1] /\ \A k \in 2..(n + 1) : g[k] = g[k - 1] \o r[k]
        /\ DOM!FlattenSeq(r) = g[n + 1]
  <2>1. \E g \in [1..Len(r) -> Seq(X)] :
          /\ g[1] = r[1] /\ \A k \in 2..Len(r) : g[k] = g[k - 1] \o r[k]
          /\ DOM!FlattenSeq(r) = g[Len(r)]
    BY <1>1, FlattenSteps
  <2> QED  BY <1>1, <2>1
<1>3. CASE q = << >>
  <2>1. n = 0
    BY <1>3 DEF n
  <2>2. DOM!FlattenSeq(r) = s /\ << >> \in Seq(X) /\ << >> \o s = s
    BY <1>1, <1>2, <2>1
  <2> QED  BY <1>3, <2>2, FlattenEmpty DEF r
<1>4. CASE q # << >>
  <2>1. PICK f \in [1..n -> Seq(X)] :
          /\ f[1] = q[1] /\ \A k \in 2..n : f[k] = f[k - 1] \o q[k]
          /\ DOM!FlattenSeq(q) = f[n]
    BY <1>4, FlattenSteps DEF n
  <2>2. n >= 1
    BY <1>1, <1>4, EmptySeq DEF n
  <2> DEFINE P == {k \in Nat : k + 1 \in 1..n => f[k + 1] = g[k + 1]}
  <2>3. 0 \in P
    BY <1>1, <1>2, <2>1
  <2>4. ASSUME NEW k \in P PROVE k + 1 \in P
    <3>1. SUFFICES ASSUME k + 2 \in 1..n PROVE f[k + 2] = g[k + 2]
      OBVIOUS
    <3>2. k \in Nat /\ k + 1 \in 1..n /\ k + 2 \in 2..n /\ k + 2 \in 2..(n + 1) /\ (k + 2) - 1 = k + 1
      BY <1>1, <3>1
    <3>3. f[k + 1] = g[k + 1] /\ r[k + 2] = q[k + 2]
      BY <1>1, <3>1, <3>2
    <3>4. f[k + 2] = f[k + 1] \o q[k + 2] /\ g[k + 2] = g[k + 1] \o r[k + 2]
      BY <1>2, <2>1, <3>2
    <3> QED  BY <3>3, <3>4
  <2>5. P = Nat
    <3> HIDE DEF P
    <3> QED  BY <2>3, <2>4, NatInduct DEF P
  <2>6. f[n] = g[n]
    <3>1. n - 1 \in Nat /\ (n - 1) + 1 = n /\ n \in 1..n
      BY <1>1, <2>2
    <3>2. n - 1 \in P
      BY <2>5, <3>1
    <3> QED  BY <3>1, <3>2, Zenon
  <2>7. n + 1 \in 2..(n + 1) /\ (n + 1) - 1 = n /\ n \in 1..n
    BY <1>1, <2>2
  <2>8. g[n + 1] = f[n] \o s /\ f[n] \in Seq(X)
    <3>1. g[n + 1] = g[n] \o r[n + 1]
      BY <1>2, <2>7
    <3> QED  BY <1>1, <2>1, <2>6, <2>7, <3>1
  <2> QED  BY <1>2, <2>1, <2>8 DEF r
<1> QED  BY <1>3, <1>4
\* Whatever is in it is in one of the parts.
Once(s) == \A i, j \in DOMAIN s : s[i] = s[j] => i = j

LEMMA Strung ==
  ASSUME NEW X, NEW s \in Seq(X), NEW t \in Seq(X)
  PROVE  /\ Range(s \o t) = Range(s) \cup Range(t)
         /\ Once(s) /\ Once(t) /\ Range(s) \cap Range(t) = {} => Once(s \o t)
<1> DEFINE m == Len(s)
           n == Len(t)
           r == s \o t
<1>1. m \in Nat /\ n \in Nat /\ DOMAIN s = 1..m /\ DOMAIN t = 1..n
  OBVIOUS
<1>2. DOMAIN r = 1..(m + n) /\ (\A i \in 1..m : r[i] = s[i]) /\ (\A i \in 1..n : r[m + i] = t[i])
  <2>1. r \in Seq(X) /\ Len(r) = m + n
    OBVIOUS
  <2>2. \A i \in 1..m : r[i] = s[i]
    OBVIOUS
  <2>3. ASSUME NEW i \in 1..n PROVE r[m + i] = t[i]
    OBVIOUS
  <2>4. DOMAIN r = 1..Len(r)
    <3> HIDE DEF r
    <3> QED  BY <2>1
  <2> QED  BY <2>1, <2>2, <2>3, <2>4
<1> HIDE DEF m, n, r
<1>3. \A i \in DOMAIN r : i \in 1..m \/ (i - m \in 1..n /\ m + (i - m) = i)
  BY <1>1, <1>2
<1>4. \A i \in 1..m : i \in DOMAIN r
  BY <1>1, <1>2
<1>5. \A i \in 1..n : m + i \in DOMAIN r
  BY <1>1, <1>2
<1>6. Range(r) = Range(s) \cup Range(t)
  <2>1. \A i \in DOMAIN r : r[i] \in Range(s) \cup Range(t)
    BY <1>1, <1>2, <1>3 DEF Range
  <2>2. \A i \in 1..m : s[i] \in Range(r)
    BY <1>2, <1>4 DEF Range
  <2>3. \A i \in 1..n : t[i] \in Range(r)
    BY <1>2, <1>5 DEF Range
  <2> QED  BY <1>1, <2>1, <2>2, <2>3 DEF Range
<1>7. ASSUME Once(s), Once(t), Range(s) \cap Range(t) = {} PROVE Once(r)
  <2>1. SUFFICES ASSUME NEW i \in DOMAIN r, NEW j \in DOMAIN r, r[i] = r[j] PROVE i = j
    BY DEF Once
  <2>2. CASE i \in 1..m /\ j \in 1..m
    BY <1>1, <1>2, <1>7, <2>1, <2>2 DEF Once
  <2>3. CASE i \notin 1..m /\ j \notin 1..m
    <3>1. i - m \in 1..n /\ m + (i - m) = i /\ j - m \in 1..n /\ m + (j - m) = j
      BY <1>3, <2>3
    <3>2. t[i - m] = t[j - m]
      BY <1>2, <2>1, <3>1
    <3>3. i - m = j - m
      BY <1>1, <1>7, <3>1, <3>2 DEF Once
    <3> QED  BY <3>1, <3>3
  <2>4. ASSUME NEW a \in 1..m, NEW b \in 1..n PROVE r[a] # r[m + b]
    BY <1>1, <1>2, <1>7 DEF Range
  <2>5. CASE i \in 1..m /\ j \notin 1..m
    BY <1>3, <2>1, <2>4, <2>5
  <2>6. CASE i \notin 1..m /\ j \in 1..m
    BY <1>3, <2>1, <2>4, <2>6
  <2> QED  BY <2>2, <2>3, <2>5, <2>6
<1> QED  BY <1>6, <1>7 DEF r

\* Of parts that have nothing twice, nor anything in common, nothing is twice in the whole.
Apart(q) ==
  /\ \A i \in DOMAIN q : Once(q[i])
  /\ \A i, j \in DOMAIN q : i # j => Range(q[i]) \cap Range(q[j]) = {}

LEMMA FlattenedFrom ==
  ASSUME NEW X, NEW q \in Seq(Seq(X))
  PROVE  /\ DOM!FlattenSeq(q) \in Seq(X)
         /\ Range(DOM!FlattenSeq(q)) = UNION {Range(q[i]) : i \in DOMAIN q}
         /\ Apart(q) => Once(DOM!FlattenSeq(q))
<1> DEFINE Good(r) ==
             /\ DOM!FlattenSeq(r) \in Seq(X)
             /\ Range(DOM!FlattenSeq(r)) = UNION {Range(r[i]) : i \in DOMAIN r}
             /\ Apart(r) => Once(DOM!FlattenSeq(r))
           P == {r \in Seq(Seq(X)) : Good(r)}
<1>1. << >> \in P
  <2>1. << >> \in Seq(Seq(X)) /\ << >> \in Seq(X) /\ DOMAIN << >> = {}
    OBVIOUS
  <2> QED  BY <2>1, FlattenEmpty, Zenon DEF Range, Once
<1>2. ASSUME NEW r \in P, NEW s \in Seq(X) PROVE Append(r, s) \in P
  <2> DEFINE w == Append(r, s)
             n == Len(r)
             f == DOM!FlattenSeq(r)
  <2>0. r \in Seq(Seq(X)) /\ n \in Nat /\ DOMAIN r = 1..n
    OBVIOUS
  <2>1. w \in Seq(Seq(X)) /\ DOMAIN w = 1..(n + 1) /\ w[n + 1] = s
    BY <2>0
  <2>2. \A i \in 1..n : w[i] = r[i]
    BY <2>0
  <2>3. f \in Seq(X) /\ DOM!FlattenSeq(w) = f \o s
    BY <2>0, FlattenAppend
  <2>4. Range(f) = UNION {Range(r[i]) : i \in DOMAIN r} /\ (Apart(r) => Once(f))
    OBVIOUS
  <2> HIDE DEF w, n, f, P
  <2>5. 1..(n + 1) = 1..n \cup {n + 1} /\ n + 1 \notin 1..n
    BY <2>0
  <2>6. /\ f \o s \in Seq(X)
        /\ Range(f \o s) = Range(f) \cup Range(s)
        /\ Once(f) /\ Once(s) /\ Range(f) \cap Range(s) = {} => Once(f \o s)
    <3>1. f \o s \in Seq(X)
      BY <2>3
    <3> QED  BY <2>3, <3>1, Strung
  <2>7. Range(f) \cup Range(s) = UNION {Range(w[i]) : i \in DOMAIN w}
    BY <2>0, <2>1, <2>2, <2>4, <2>5
  <2>8. ASSUME Apart(w) PROVE Once(f \o s)
    <3>1. Apart(r)
      BY <2>0, <2>1, <2>2, <2>5, <2>8 DEF Apart
    <3>2. Once(s)
      BY <2>1, <2>5, <2>8 DEF Apart
    <3>3. \A i \in 1..n : Range(r[i]) \cap Range(s) = {}
      BY <2>1, <2>2, <2>5, <2>8 DEF Apart
    <3>4. Range(f) \cap Range(s) = {}
      BY <2>0, <2>4, <3>3
    <3> QED  BY <2>4, <2>6, <3>1, <3>2, <3>4
  <2>9. Good(w)
    BY <2>3, <2>6, <2>7, <2>8
  <2> QED  BY <2>1, <2>9 DEF P, w
<1>3. P = Seq(Seq(X))
  <2>1. P \subseteq Seq(Seq(X))
    OBVIOUS
  <2> DEFINE Y == Seq(X)
  <2>2. \A r \in P : \A s \in Y : Append(r, s) \in P
    <3> HIDE DEF P
    <3> QED  BY <1>2
  <2> HIDE DEF P, Y
  <2>3. P = Seq(Y)
    BY <1>1, <2>1, <2>2, SeqInduct DEF Y
  <2> QED  BY <2>3 DEF Y
<1> QED  BY <1>3
-----------------------------------------------------------------------------
(* The elements of a page, each with the chain of those above it. *)

Links  == [el : Elements, nth : Nat]
Lines  == Seq(Links) \ {<< >>}
Child(el, i) == [el |-> el.kids[i], nth |-> DOM!Nth(el.kids, i)]

LEMMA Children ==
  ASSUME NEW el \in Elements
  PROVE  /\ Len(el.kids) \in Nat /\ DOMAIN el.kids = 1..Len(el.kids)
         /\ \A i \in DOMAIN el.kids : Child(el, i) \in Links
         /\ \A i, j \in DOMAIN el.kids : Child(el, i) = Child(el, j) => i = j
<1> DEFINE n == Len(el.kids)
<1>1. el.kids = [i \in 1..n |-> el.kids[i]] /\ n \in Nat
  BY ElementsGiven
<1> HIDE DEF n
<1>2. DOMAIN el.kids = 1..n
  <2>1. DOMAIN [i \in 1..n |-> el.kids[i]] = 1..n
    OBVIOUS
  <2> QED  BY <1>1, <2>1, Zenon
<1>3. \A i \in DOMAIN el.kids : el.kids[i] \in Elements
  BY ElementsGiven DEF Range
<1>4. \A i \in DOMAIN el.kids : DOM!Nth(el.kids, i) \in Nat
  BY <1>1, <1>2 DEF DOM!Nth
<1>5. ASSUME NEW i \in DOMAIN el.kids, NEW j \in DOMAIN el.kids, DOM!Nth(el.kids, i) = DOM!Nth(el.kids, j)
      PROVE  i = j
  BY <1>1, <1>2, <1>5 DEF DOM!Nth, n
<1> QED  BY <1>1, <1>2, <1>3, <1>4, <1>5 DEF Child, Links, n

LEMMA NthTells ==
  ASSUME NEW el \in Elements, NEW i \in DOMAIN el.kids, NEW j \in DOMAIN el.kids,
         DOM!Nth(el.kids, i) = DOM!Nth(el.kids, j)
  PROVE  i = j
<1>1. Len(el.kids) \in Nat /\ DOMAIN el.kids = 1..Len(el.kids)
  BY Children
<1> QED  BY <1>1 DEF DOM!Nth

LEMMA LinkIs ==
  ASSUME NEW l \in Links, NEW above \in Seq(Links)
  PROVE  /\ <<l>> \o above \in Lines /\ Len(<<l>> \o above) = Len(above) + 1
         /\ (<<l>> \o above)[1] = l /\ Tail(<<l>> \o above) = above
         /\ above # << >> => (<<l>> \o above)[2] = above[1]
<1> DEFINE c == <<l>> \o above
<1>1. Len(above) \in Nat /\ <<l>> \in Seq(Links) /\ Len(<<l>>) = 1
  OBVIOUS
<1>2. c \in Seq(Links) /\ Len(c) = Len(above) + 1 /\ c[1] = l
  OBVIOUS
<1>3. c # << >>
  <2> HIDE DEF c
  <2> QED  BY <1>1, <1>2, EmptySeq
<1>4. Tail(c) = above
  OBVIOUS
<1>5. above # << >> => c[2] = above[1]
  <2>1. above # << >> => 1 \in 1..Len(above)
    BY EmptySeq
  <2> QED  BY <2>1
<1> QED  BY <1>2, <1>3, <1>4, <1>5 DEF Lines

LEMMA OffspringIs ==
  ASSUME NEW c \in Lines
  PROVE  /\ c[1] \in Links /\ c[1].el \in Elements
         /\ DOM!Offspring(c) \in Seq(Lines) /\ Once(DOM!Offspring(c))
         /\ \A d \in Range(DOM!Offspring(c)) :
              /\ Len(d) = Len(c) + 1 /\ Tail(d) = c /\ d[2] = c[1]
              /\ \E i \in DOMAIN c[1].el.kids : d[1] = Child(c[1].el, i)
<1> DEFINE el == c[1].el
           off == DOM!Offspring(c)
<1>1. c \in Seq(Links) /\ c # << >> /\ c[1] \in Links
  <2>1. c \in Seq(Links) /\ c # << >>
    BY DEF Lines
  <2>2. 1 \in 1..Len(c)
    BY <2>1, EmptySeq
  <2> QED  BY <2>1, <2>2
<1>2. el \in Elements
  BY <1>1 DEF Links
<1>3. off = [i \in DOMAIN el.kids |-> <<Child(el, i)>> \o c]
  BY DEF DOM!Offspring, DOM!Link, Child
<1> HIDE DEF el, off
<1>4. \A i \in DOMAIN el.kids : <<Child(el, i)>> \o c \in Lines
  BY <1>1, <1>2, Children, LinkIs
<1>5. off \in Seq(Lines)
  <2>1. DOMAIN el.kids = 1..Len(el.kids) /\ Len(el.kids) \in Nat
    BY <1>2, Children
  <2> QED  BY <1>3, <1>4, <2>1
<1>6. Once(off)
  <2>1. SUFFICES ASSUME NEW i \in DOMAIN el.kids, NEW j \in DOMAIN el.kids, off[i] = off[j] PROVE i = j
    BY <1>3 DEF Once
  <2>2. off[i][1] = Child(el, i) /\ off[j][1] = Child(el, j)
    BY <1>1, <1>2, <1>3, Children, LinkIs
  <2> QED  BY <1>2, <2>1, <2>2, Children
<1>7. ASSUME NEW d \in Range(off)
      PROVE  /\ Len(d) = Len(c) + 1 /\ Tail(d) = c /\ d[2] = c[1]
             /\ \E i \in DOMAIN el.kids : d[1] = Child(el, i)
  <2>1. PICK i \in DOMAIN el.kids : d = <<Child(el, i)>> \o c
    BY <1>3 DEF Range
  <2> QED  BY <1>1, <1>2, <2>1, Children, LinkIs
<1> QED  BY <1>1, <1>2, <1>5, <1>6, <1>7 DEF off, el

\* The chains so far: no chain twice, all within the depth, each hanging from another but that
\* of the document element.
Grown(html, depth, t) ==
  /\ t \in Seq(Lines) /\ Once(t)
  /\ \A c \in Range(t) :
       /\ Len(c) \in 1..(depth + 1)
       /\ Len(c) = 1 => c = <<[el |-> html, nth |-> 0]>>
       /\ Len(c) > 1 => /\ Tail(c) \in Range(t) /\ Tail(c)[1] = c[2]
                        /\ \E i \in DOMAIN c[2].el.kids : c[1] = Child(c[2].el, i)

LEMMA GrownStart ==
  ASSUME NEW html \in Elements
  PROVE  Grown(html, 0, <<DOM!Link(<<html>>, 1, << >>)>>)
<1> DEFINE l == [el |-> html, nth |-> 0]
           t == <<<<l>>>>
<1>1. DOM!Link(<<html>>, 1, << >>) = <<l>>
  <2>1. Len(<<html>>) = 1 /\ <<html>>[1] = html
    OBVIOUS
  <2>2. DOM!Nth(<<html>>, 1) = 0
    BY <2>1 DEF DOM!Nth
  <2>3. <<l>> \o << >> = <<l>>
    OBVIOUS
  <2> QED  BY <2>1, <2>2, <2>3 DEF DOM!Link
<1>2. l \in Links
  BY DEF Links
<1> HIDE DEF l
<1>3. <<l>> \in Lines /\ Len(<<l>>) = 1
  <2>1. <<l>> \in Seq(Links) /\ Len(<<l>>) = 1
    BY <1>2
  <2> QED  BY <2>1, EmptySeq DEF Lines
<1>4. t \in Seq(Lines) /\ DOMAIN t = {1} /\ t[1] = <<l>>
  BY <1>3
<1> HIDE DEF t
<1>5. Range(t) = {<<l>>} /\ Once(t)
  BY <1>4 DEF Range, Once
<1>6. Grown(html, 0, t)
  BY <1>3, <1>4, <1>5 DEF Grown, l
<1> QED  BY <1>1, <1>6 DEF t

LEMMA UnfoldIs ==
  ASSUME NEW t \in Seq(Lines), NEW depth \in Nat
  PROVE  LET part == [i \in DOMAIN t |->
                        <<t[i]>> \o (IF Len(t[i]) = depth THEN DOM!Offspring(t[i]) ELSE << >>)]
         IN  /\ part \in Seq(Seq(Lines)) /\ DOMAIN part = DOMAIN t
             /\ DOM!Unfold(t, depth) = DOM!FlattenSeq(part)
             /\ \A i \in DOMAIN t :
                  /\ Range(part[i]) = {t[i]} \cup (IF Len(t[i]) = depth THEN Range(DOM!Offspring(t[i])) ELSE {})
                  /\ Once(part[i])
<1> DEFINE new(i) == IF Len(t[i]) = depth THEN DOM!Offspring(t[i]) ELSE << >>
           part == [i \in DOMAIN t |-> <<t[i]>> \o new(i)]
<1>1. DOMAIN t = 1..Len(t) /\ Len(t) \in Nat /\ \A i \in DOMAIN t : t[i] \in Lines
  OBVIOUS
<1>2. \A i \in DOMAIN t : new(i) \in Seq(Lines) /\ Once(new(i)) /\ t[i] \notin Range(new(i))
  <2>1. TAKE i \in DOMAIN t
  <2>2. t[i] \in Lines /\ t[i] \in Seq(Links)
    BY <1>1 DEF Lines
  <2>3. CASE Len(t[i]) = depth
    <3>1. \A d \in Range(DOM!Offspring(t[i])) : Len(d) = Len(t[i]) + 1
      BY <2>2, OffspringIs
    <3>2. t[i] \notin Range(DOM!Offspring(t[i]))
      BY <2>2, <3>1
    <3> QED  BY <2>2, <2>3, <3>2, OffspringIs
  <2>4. CASE Len(t[i]) # depth
    <3>1. << >> \in Seq(Lines) /\ DOMAIN << >> = {}
      OBVIOUS
    <3> QED  BY <2>4, <3>1 DEF Once, Range
  <2> QED  BY <2>3, <2>4
<1>3. \A i \in DOMAIN t : /\ <<t[i]>> \o new(i) \in Seq(Lines)
                          /\ Range(<<t[i]>> \o new(i)) = {t[i]} \cup Range(new(i))
                          /\ Once(<<t[i]>> \o new(i))
  <2>1. TAKE i \in DOMAIN t
  <2> DEFINE n == new(i)
             o == <<t[i]>>
  <2>2. n \in Seq(Lines) /\ Once(n) /\ t[i] \notin Range(n) /\ t[i] \in Lines
    BY <1>1, <1>2
  <2>3. o \in Seq(Lines) /\ DOMAIN o = {1} /\ o[1] = t[i]
    BY <2>2
  <2> HIDE DEF n, o
  <2>4. Range(o) = {t[i]} /\ Once(o)
    BY <2>3 DEF Range, Once
  <2>5. o \o n \in Seq(Lines)
    BY <2>2, <2>3
  <2>6. Range(o \o n) = Range(o) \cup Range(n) /\ Once(o \o n)
    BY <2>2, <2>3, <2>4, Strung
  <2> QED  BY <2>4, <2>5, <2>6 DEF n, o
<1>4. DOM!Unfold(t, depth) = DOM!FlattenSeq(part)
  BY DEF DOM!Unfold
<1>5. part \in Seq(Seq(Lines)) /\ DOMAIN part = DOMAIN t
  <2> DEFINE S == Seq(Lines)
             n == Len(t)
  <2>1. DOMAIN t = 1..n /\ n \in Nat /\ \A i \in DOMAIN t : <<t[i]>> \o new(i) \in S
    BY <1>1, <1>3
  <2> HIDE DEF new, S, n
  <2>2. part \in [1..n -> S] /\ DOMAIN part = DOMAIN t
    BY <2>1
  <2>3. part \in Seq(S)
    <3> HIDE DEF part
    <3> QED  BY <2>1, <2>2
  <2> QED  BY <2>2, <2>3 DEF S
<1>6. \A i \in DOMAIN t : Range(new(i)) = IF Len(t[i]) = depth THEN Range(DOM!Offspring(t[i])) ELSE {}
  BY DEF Range
<1>7. \A i \in DOMAIN t : part[i] = <<t[i]>> \o new(i)
  OBVIOUS
<1> HIDE DEF new, part
<1>8. \A i \in DOMAIN t :
        /\ Range(part[i]) = {t[i]} \cup (IF Len(t[i]) = depth THEN Range(DOM!Offspring(t[i])) ELSE {})
        /\ Once(part[i])
  BY <1>3, <1>6, <1>7
<1> QED  BY <1>4, <1>5, <1>8 DEF part, new
LEMMA GrownStep ==
  ASSUME NEW html, NEW depth \in Nat, NEW t, Grown(html, depth, t)
  PROVE  Grown(html, depth + 1, DOM!Unfold(t, depth + 1))
<1> DEFINE d == depth + 1
           u == DOM!Unfold(t, d)
           part == [i \in DOMAIN t |->
                      <<t[i]>> \o (IF Len(t[i]) = d THEN DOM!Offspring(t[i]) ELSE << >>)]
           new(i) == IF Len(t[i]) = d THEN Range(DOM!Offspring(t[i])) ELSE {}
<1>0. t \in Seq(Lines) /\ Once(t) /\ d \in Nat
  BY DEF Grown
<1>1. /\ part \in Seq(Seq(Lines)) /\ DOMAIN part = DOMAIN t /\ u = DOM!FlattenSeq(part)
      /\ \A i \in DOMAIN t : Range(part[i]) = {t[i]} \cup new(i) /\ Once(part[i])
  <2> HIDE DEF d
  <2> QED  BY <1>0, UnfoldIs
<1>2. \A i \in DOMAIN t : t[i] \in Lines /\ Len(t[i]) \in 1..d /\ t[i] \in Range(t)
  <2>1. \A i \in DOMAIN t : t[i] \in Range(t)
    BY DEF Range
  <2>2. \A i \in DOMAIN t : t[i] \in Lines
    BY <1>0
  <2> QED  BY <2>1, <2>2 DEF Grown
<1>3. \A i \in DOMAIN t : \A c \in new(i) :
        /\ Len(t[i]) = d /\ Len(c) = d + 1 /\ Tail(c) = t[i] /\ c[2] = t[i][1]
        /\ \E k \in DOMAIN c[2].el.kids : c[1] = Child(c[2].el, k)
  <2>1. TAKE i \in DOMAIN t
  <2>2. TAKE c \in new(i)
  <2>3. Len(t[i]) = d /\ c \in Range(DOM!Offspring(t[i])) /\ t[i] \in Lines
    BY <1>2
  <2>4. /\ Len(c) = Len(t[i]) + 1 /\ Tail(c) = t[i] /\ c[2] = t[i][1]
        /\ \E k \in DOMAIN t[i][1].el.kids : c[1] = Child(t[i][1].el, k)
    BY <2>3, OffspringIs
  <2> QED  BY <2>3, <2>4
<1> HIDE DEF part, u, new
<1>4. u \in Seq(Lines) /\ Range(u) = UNION {Range(part[i]) : i \in DOMAIN part} /\ (Apart(part) => Once(u))
  BY <1>1, FlattenedFrom
<1>5. Apart(part)
  <2>1. SUFFICES ASSUME NEW i \in DOMAIN t, NEW j \in DOMAIN t, i # j,
                        NEW c \in Range(part[i]) \cap Range(part[j])
                 PROVE  FALSE
    BY <1>1 DEF Apart
  <2>2. t[i] # t[j]
    BY <1>0, <2>1 DEF Once
  <2>3. c \in {t[i]} \cup new(i) /\ c \in {t[j]} \cup new(j)
    BY <1>1, <2>1
  <2>4. Len(t[i]) \in 1..d /\ Len(t[j]) \in 1..d
    BY <1>2
  <2>5. CASE c = t[i] /\ c \in new(j)
    <3>1. Len(c) = d + 1
      BY <1>3, <2>5
    <3> QED  BY <1>0, <2>4, <2>5, <3>1
  <2>6. CASE c = t[j] /\ c \in new(i)
    <3>1. Len(c) = d + 1
      BY <1>3, <2>6
    <3> QED  BY <1>0, <2>4, <2>6, <3>1
  <2>7. CASE c \in new(i) /\ c \in new(j)
    BY <1>3, <2>2, <2>7
  <2> QED  BY <2>2, <2>3, <2>5, <2>6, <2>7
<1>6. \A i \in DOMAIN t : t[i] \in Range(u)
  BY <1>1, <1>4
<1>7. ASSUME NEW c \in Range(u)
      PROVE  /\ Len(c) \in 1..(d + 1)
             /\ Len(c) = 1 => c = <<[el |-> html, nth |-> 0]>>
             /\ Len(c) > 1 => /\ Tail(c) \in Range(u) /\ Tail(c)[1] = c[2]
                              /\ \E i \in DOMAIN c[2].el.kids : c[1] = Child(c[2].el, i)
  <2>1. PICK i \in DOMAIN t : c \in {t[i]} \cup new(i)
    BY <1>1, <1>4
  <2>2. CASE c = t[i]
    <3>1. /\ Len(c) \in 1..d
          /\ Len(c) = 1 => c = <<[el |-> html, nth |-> 0]>>
          /\ Len(c) > 1 => /\ Tail(c) \in Range(t) /\ Tail(c)[1] = c[2]
                           /\ \E k \in DOMAIN c[2].el.kids : c[1] = Child(c[2].el, k)
      BY <1>2, <2>2 DEF Grown
    <3>2. Len(c) \in 1..(d + 1)
      BY <1>0, <3>1
    <3>3. \A e \in Range(t) : e \in Range(u)
      BY <1>6 DEF Range
    <3> QED  BY <3>1, <3>2, <3>3
  <2>3. CASE c \in new(i)
    <3>1. /\ Len(c) = d + 1 /\ Tail(c) = t[i] /\ c[2] = t[i][1]
          /\ \E k \in DOMAIN c[2].el.kids : c[1] = Child(c[2].el, k)
      BY <1>3, <2>3
    <3>2. d + 1 \in 1..(d + 1) /\ d + 1 # 1
      BY <1>0
    <3> QED  BY <1>6, <3>1, <3>2
  <2> QED  BY <2>1, <2>2, <2>3
<1>8. Grown(html, d, u)
  BY <1>4, <1>5, <1>7 DEF Grown
<1> QED  BY <1>8 DEF u

LEMMA UnfoldTyped ==
  ASSUME NEW t \in Seq(Lines), NEW depth \in Nat
  PROVE  DOM!Unfold(t, depth) \in Seq(Lines)
<1> DEFINE part == [i \in DOMAIN t |->
                      <<t[i]>> \o (IF Len(t[i]) = depth THEN DOM!Offspring(t[i]) ELSE << >>)]
<1>1. part \in Seq(Seq(Lines)) /\ DOM!Unfold(t, depth) = DOM!FlattenSeq(part)
  BY UnfoldIs
<1> HIDE DEF part
<1> QED  BY <1>1, FlattenedFrom

LEMMA ChainsGrown ==
  ASSUME NEW html \in Elements
  PROVE  Grown(html, Deepest, DOM!Chains(html))
<1> DEFINE n == Deepest
           base == <<DOM!Link(<<html>>, 1, << >>)>>
           Rec(h) == h = [depth \in 0..n |-> IF depth = 0 THEN base ELSE DOM!Unfold(h[depth - 1], depth)]
           step == [k \in 1..n |-> [t \in Seq(Lines) |-> DOM!Unfold(t, k)]]
<1>0. n \in Nat
  BY BoundsGiven
<1>1. DOM!Chains(html) = (CHOOSE h : Rec(h))[n]
  BY DEF DOM!Chains
<1> HIDE DEF n
<1>2. Grown(html, 0, base)
  BY GrownStart
<1> HIDE DEF base
<1>3. base \in Seq(Lines)
  BY <1>2 DEF Grown
<1>4. step \in [1..n -> [Seq(Lines) -> Seq(Lines)]]
  BY <1>0, UnfoldTyped
<1>5. PICK f \in [0..n -> Seq(Lines)] : f[0] = base /\ Stepwise(f, n, step)
  <2> HIDE DEF step
  <2> QED  BY <1>0, <1>3, <1>4, FoldExists
<1>6. ASSUME NEW k \in 1..n PROVE f[k] = DOM!Unfold(f[k - 1], k)
  <2>1. k - 1 \in 0..n
    BY <1>0
  <2> QED  BY <1>5, <2>1 DEF Stepwise
<1>7. Rec(f)
  <2>1. \A k \in 0..n : f[k] = IF k = 0 THEN base ELSE DOM!Unfold(f[k - 1], k)
    BY <1>0, <1>5, <1>6
  <2>2. f = [k \in 0..n |-> f[k]]
    OBVIOUS
  <2> QED  BY <2>1, <2>2, Zenon
<1> DEFINE g == CHOOSE h : Rec(h)
<1>8. Rec(g)
  <2>1. \E h : Rec(h)
    BY <1>7
  <2> QED  BY <2>1
<1> DEFINE P == {k \in Nat : k <= n => Grown(html, k, g[k])}
<1>9. \A k \in 0..n : g[k] = IF k = 0 THEN base ELSE DOM!Unfold(g[k - 1], k)
  <2> HIDE DEF g
  <2> QED  BY <1>8
<1> HIDE DEF g
<1>10. 0 \in P
  BY <1>0, <1>2, <1>9
<1>11. ASSUME NEW k \in P PROVE k + 1 \in P
  <2>1. SUFFICES ASSUME k + 1 <= n PROVE Grown(html, k + 1, g[k + 1])
    OBVIOUS
  <2>2. k \in Nat /\ Grown(html, k, g[k]) /\ k + 1 \in 0..n /\ k + 1 # 0 /\ (k + 1) - 1 = k
    BY <1>0, <2>1
  <2>3. g[k + 1] = DOM!Unfold(g[k], k + 1)
    BY <1>9, <2>2
  <2> QED  BY <2>2, <2>3, GrownStep
<1>12. P = Nat
  <2> HIDE DEF P
  <2> QED BY <1>10, <1>11, NatInduct DEF P
<1>13. Grown(html, n, g[n])
  <2>1. n \in P
    BY <1>0, <1>12
  <2> QED  BY <1>0, <2>1
<1> QED  BY <1>1, <1>13 DEF n, g
-----------------------------------------------------------------------------
(* The paths that name them. *)

\* A path goes up to the first anchor.
TopOf(c, m) ==
  /\ m \in 1..Len(c) /\ \A k \in 1..(m - 1) : ~ Anchored(c[k])
  /\ Anchored(c[m]) \/ m = Len(c)

StepOf(link) == <<DOM!Token(link.el), IF Anchored(link) THEN 0 ELSE link.nth>>

LEMMA PathIs ==
  ASSUME NEW c \in Lines, NEW steps \in Nat
  PROVE  \E m \in 1..Len(c) : /\ TopOf(c, m)
                              /\ DOM!Path(c, steps) = [k \in 1..(IF m < steps THEN m ELSE steps) |-> StepOf(c[k])]
<1> DEFINE anchored == {k \in DOMAIN c : c[k].el.anchor # ""}
           first == CHOOSE k \in anchored : \A j \in anchored : k <= j
           top == IF anchored = {} THEN Len(c) ELSE first
           long == IF top < steps THEN top ELSE steps
<1>1. Len(c) \in Nat /\ Len(c) >= 1 /\ DOMAIN c = 1..Len(c)
  BY EmptySeq DEF Lines
<1>2. anchored = {k \in 1..Len(c) : Anchored(c[k])}
  BY <1>1 DEF Anchored
<1>3. DOM!Path(c, steps) = [k \in 1..long |-> StepOf(c[k])]
  BY Zenon DEF DOM!Path, StepOf, Anchored
<1> HIDE DEF anchored
<1>4. CASE anchored = {}
  <2>1. top = Len(c) /\ top \in 1..Len(c) /\ \A k \in 1..(top - 1) : k \in 1..Len(c)
    BY <1>1, <1>4
  <2>2. TopOf(c, top)
    BY <1>2, <1>4, <2>1 DEF TopOf
  <2> QED  BY <1>3, <2>1, <2>2, Zenon
<1>5. CASE anchored # {}
  <2>1. anchored \in SUBSET Nat
    BY <1>1, <1>2
  <2>2. first \in anchored /\ \A j \in anchored : first <= j
    BY <1>5, <2>1, Least
  <2> HIDE DEF first
  <2>3. top = first /\ top \in 1..Len(c) /\ Anchored(c[top])
    BY <1>2, <1>5, <2>2
  <2>4. \A k \in 1..(top - 1) : ~ Anchored(c[k])
    <3>1. TAKE k \in 1..(top - 1)
    <3>2. k \in 1..Len(c) /\ ~ (top <= k)
      BY <1>1, <2>3
    <3> QED  BY <1>2, <2>2, <2>3, <3>2
  <2>5. TopOf(c, top)
    BY <2>3, <2>4 DEF TopOf
  <2> QED  BY <1>3, <2>3, <2>5, Zenon
<1> QED  BY <1>4, <1>5

LEMMA TopUnique ==
  ASSUME NEW c \in Lines, NEW m, NEW n, TopOf(c, m), TopOf(c, n)
  PROVE  m = n
<1>1. Len(c) \in Nat
  BY DEF Lines
<1> QED  BY <1>1 DEF TopOf

LEMMA TailIs ==
  ASSUME NEW c \in Lines, Len(c) > 1
  PROVE  /\ Tail(c) \in Lines /\ Len(Tail(c)) = Len(c) - 1
         /\ \A k \in 1..(Len(c) - 1) : Tail(c)[k] = c[k + 1]
         /\ c = <<c[1]>> \o Tail(c)
<1>1. c \in Seq(Links) /\ Len(c) \in Nat
  BY DEF Lines
<1>2. Tail(c) \in Seq(Links) /\ Len(Tail(c)) = Len(c) - 1 /\ \A k \in 1..(Len(c) - 1) : Tail(c)[k] = c[k + 1]
  BY <1>1, EmptySeq
<1>3. Tail(c) # << >>
  <2> DEFINE t == Tail(c)
  <2>1. Len(t) = Len(c) - 1 /\ Len(c) - 1 # 0
    BY <1>1, <1>2
  <2> HIDE DEF t
  <2>2. t # << >>
    BY <2>1, EmptySeq
  <2> QED  BY <2>2 DEF t
<1>4. c = <<c[1]>> \o Tail(c)
  BY <1>1, EmptySeq
<1> QED  BY <1>2, <1>3, <1>4 DEF Lines

LEMMA TopOfTail ==
  ASSUME NEW c \in Lines, NEW m, TopOf(c, m), m > 1
  PROVE  Len(c) > 1 /\ TopOf(Tail(c), m - 1) /\ ~ Anchored(c[1])
<1>1. Len(c) \in Nat /\ m \in 1..Len(c) /\ m - 1 \in 1..(Len(c) - 1) /\ Len(c) > 1 /\ 1 \in 1..(m - 1)
  BY DEF Lines, TopOf
<1>2. /\ Tail(c) \in Lines /\ Len(Tail(c)) = Len(c) - 1
      /\ \A k \in 1..(Len(c) - 1) : Tail(c)[k] = c[k + 1]
  BY <1>1, TailIs
<1>3. Tail(c)[m - 1] = c[m]
  <2>1. (m - 1) + 1 = m
    BY <1>1
  <2> QED  BY <1>1, <1>2, <2>1
<1>4. ASSUME NEW k \in 1..((m - 1) - 1) PROVE ~ Anchored(Tail(c)[k])
  <2>1. k \in 1..(Len(c) - 1) /\ k + 1 \in 1..(m - 1)
    BY <1>1
  <2> QED  BY <1>2, <2>1 DEF TopOf
<1>5. m = Len(c) => m - 1 = Len(Tail(c))
  BY <1>1, <1>2
<1> QED  BY <1>1, <1>2, <1>3, <1>4, <1>5 DEF TopOf
\* Chains that hang from each other, on anchors of their own, are told apart by their paths.
LEMMA PathsTell ==
  ASSUME NEW html, NEW depth \in Nat, NEW t, Grown(html, depth, t), Told(Range(t)),
         NEW c \in Range(t), NEW d \in Range(t), DOM!SelectorOf(c) = DOM!SelectorOf(d)
  PROVE  c = d
<1> DEFINE Up(a, m) == TopOf(a, m) /\ m <= MaxClimb
           Alike(a, b) == \E m \in Nat : /\ TopOf(a, m) /\ TopOf(b, m)
                                         /\ \A k \in 1..m : StepOf(a[k]) = StepOf(b[k])
           P == {n \in Nat : \A a, b \in Range(t) : Len(a) <= n /\ Alike(a, b) => a = b}
<1>0. /\ MaxClimb \in Nat
      /\ \A a \in Range(t) : a \in Lines /\ Len(a) \in Nat /\ Len(a) >= 1
  <2>1. \A a \in Range(t) : a \in Lines
    BY DEF Grown, Range
  <2> QED  BY <2>1, BoundsGiven DEF Grown
<1>1. ASSUME NEW a \in Range(t)
      PROVE  \E m \in 1..Len(a) : /\ TopOf(a, m) /\ m \in Nat
                                  /\ DOM!SelectorOf(a) = [k \in 1..m |-> StepOf(a[k])]
  <2>1. PICK m \in 1..Len(a) : /\ TopOf(a, m)
                   /\ DOM!Path(a, MaxClimb) = [k \in 1..(IF m < MaxClimb THEN m ELSE MaxClimb) |-> StepOf(a[k])]
    BY <1>0, PathIs
  <2>2. PICK k \in DOMAIN a : k <= MaxClimb /\ (k = Len(a) \/ Anchored(a[k]))
    BY DEF Told
  <2>3. k \in 1..Len(a) /\ m \in 1..Len(a)
    BY <1>0, <2>1 DEF TopOf, Lines
  <2>4. m <= k
    BY <1>0, <2>1, <2>2, <2>3 DEF TopOf
  <2>5. (IF m < MaxClimb THEN m ELSE MaxClimb) = m
    BY <1>0, <2>2, <2>3, <2>4
  <2> QED  BY <1>0, <2>1, <2>3, <2>5 DEF DOM!SelectorOf
<1>2. Alike(c, d)
  <2>1. PICK m \in Nat : TopOf(c, m) /\ DOM!SelectorOf(c) = [k \in 1..m |-> StepOf(c[k])]
    BY <1>1
  <2>2. PICK n \in Nat : TopOf(d, n) /\ DOM!SelectorOf(d) = [k \in 1..n |-> StepOf(d[k])]
    BY <1>1
  <2> DEFINE f == [k \in 1..m |-> StepOf(c[k])]
             g == [k \in 1..n |-> StepOf(d[k])]
  <2>3. f = g /\ DOMAIN f = 1..m /\ DOMAIN g = 1..n
    BY <2>1, <2>2
  <2>4. 1..m = 1..n
    BY <2>3
  <2>5. m = n
    BY <2>4
  <2>6. \A k \in 1..m : f[k] = StepOf(c[k]) /\ g[k] = StepOf(d[k])
    BY <2>5
  <2> HIDE DEF f, g
  <2>7. \A k \in 1..m : StepOf(c[k]) = StepOf(d[k])
    BY <2>3, <2>6
  <2> QED  BY <2>1, <2>2, <2>5, <2>7
<1>3. 0 \in P
  BY <1>0
<1>4. ASSUME NEW n \in P PROVE n + 1 \in P
  <2>1. SUFFICES ASSUME NEW a \in Range(t), NEW b \in Range(t), Len(a) <= n + 1, Alike(a, b) PROVE a = b
    OBVIOUS
  <2>2. PICK m \in Nat : /\ TopOf(a, m) /\ TopOf(b, m)
                         /\ \A k \in 1..m : StepOf(a[k]) = StepOf(b[k])
    BY <2>1
  <2>3. m \in 1..Len(a) /\ m \in 1..Len(b) /\ 1 \in 1..m /\ a \in Lines /\ b \in Lines
    BY <1>0, <2>2 DEF TopOf
  <2>4. DOM!Token(a[1].el) = DOM!Token(b[1].el)
    BY <2>2, <2>3 DEF StepOf
  <2>5. CASE Anchored(a[1]) \/ Anchored(b[1])
    BY <2>1, <2>4, <2>5 DEF Told
  <2>6. CASE ~ Anchored(a[1]) /\ ~ Anchored(b[1]) /\ m = 1
    <3>1. Len(a) = 1 /\ Len(b) = 1
      BY <2>2, <2>6 DEF TopOf
    <3> QED  BY <2>1, <3>1 DEF Grown
  <2>7. CASE ~ Anchored(a[1]) /\ ~ Anchored(b[1]) /\ m > 1
    <3>1. /\ Len(a) > 1 /\ Len(b) > 1
          /\ TopOf(Tail(a), m - 1) /\ TopOf(Tail(b), m - 1)
      BY <2>2, <2>3, <2>7, TopOfTail
    <3>2. /\ Tail(a) \in Range(t) /\ Tail(b) \in Range(t)
          /\ Tail(a)[1] = a[2] /\ Tail(b)[1] = b[2]
          /\ \E i \in DOMAIN a[2].el.kids : a[1] = Child(a[2].el, i)
          /\ \E i \in DOMAIN b[2].el.kids : b[1] = Child(b[2].el, i)
      BY <2>1, <3>1 DEF Grown
    <3>3. ASSUME NEW k \in 1..(m - 1) PROVE StepOf(Tail(a)[k]) = StepOf(Tail(b)[k])
      <4>1. k \in 1..(Len(a) - 1) /\ k \in 1..(Len(b) - 1) /\ k + 1 \in 1..m
        BY <1>0, <2>2, <2>3
      <4>2. Tail(a)[k] = a[k + 1] /\ Tail(b)[k] = b[k + 1]
        BY <2>3, <3>1, <4>1, TailIs
      <4> QED  BY <2>2, <4>1, <4>2
    <3>4. Alike(Tail(a), Tail(b))
      <4>1. m - 1 \in Nat
        BY <2>2, <2>7
      <4> QED  BY <3>1, <3>3, <4>1
    <3>5. Len(Tail(a)) <= n
      <4>1. Len(Tail(a)) = Len(a) - 1 /\ n \in Nat /\ Len(a) \in Nat
        BY <1>0, <2>3, <3>1, TailIs
      <4> QED  BY <2>1, <4>1
    <3>6. Tail(a) = Tail(b)
      <4> HIDE DEF Alike
      <4> QED  BY <3>2, <3>4, <3>5
    <3>7. StepOf(a[1]) = StepOf(b[1]) /\ a[2] = b[2]
      BY <2>2, <2>3, <3>2, <3>6
    <3>8. a[1].nth = b[1].nth
      BY <2>7, <3>7 DEF StepOf
    <3>9. a[1] = b[1]
      <4>1. PICK i \in DOMAIN a[2].el.kids : a[1] = Child(a[2].el, i)
        BY <3>2
      <4>2. PICK j \in DOMAIN a[2].el.kids : b[1] = Child(a[2].el, j)
        BY <3>2, <3>7
      <4>3. DOM!Nth(a[2].el.kids, i) = DOM!Nth(a[2].el.kids, j)
        BY <3>8, <4>1, <4>2 DEF Child
      <4>4. a[2].el \in Elements
        <5>1. Tail(a) \in Lines
          BY <1>0, <3>2
        <5> QED  BY <3>2, <5>1, OffspringIs
      <4>5. i = j
        BY <4>3, <4>4, NthTells
      <4> QED  BY <4>1, <4>2, <4>5
    <3> QED  BY <2>3, <3>1, <3>6, <3>9, TailIs
  <2> QED  BY <2>3, <2>5, <2>6, <2>7
<1>5. P = Nat
  <2> HIDE DEF P
  <2> QED BY <1>3, <1>4, NatInduct DEF P
<1>6. Len(c) \in P
  <2> HIDE DEF P
  <2> QED  BY <1>0, <1>5
<1> HIDE DEF Alike
<1> QED  BY <1>0, <1>2, <1>6

\* No two elements of a page whose anchors are unique have one selector.
LEMMA SelectorsTell ==
  ASSUME NEW html \in Elements, Told(Range(DOM!Chains(html))),
         NEW i \in DOMAIN DOM!Chains(html), NEW j \in DOMAIN DOM!Chains(html),
         DOM!SelectorOf(DOM!Chains(html)[i]) = DOM!SelectorOf(DOM!Chains(html)[j])
  PROVE  i = j
<1> DEFINE t == DOM!Chains(html)
<1>1. Grown(html, Deepest, t) /\ Deepest \in Nat
  BY ChainsGrown, BoundsGiven
<1>2. t[i] \in Range(t) /\ t[j] \in Range(t)
  BY DEF Range
<1> HIDE DEF t
<1>3. t[i] = t[j]
  BY <1>1, <1>2, PathsTell DEF t
<1> QED  BY <1>1, <1>3 DEF Grown, Once, t
-----------------------------------------------------------------------------
(* The pairs of siblings. *)

\* A pair is of a base's place and a head's, and no head is in two of them.
Pairing(base, head, k, match) ==
  /\ match \in Seq(Nat) /\ Len(match) = k
  /\ \A i \in 1..k : match[i] \in {0} \cup 1..Len(head)
  /\ \A i, j \in 1..k : match[i] # 0 /\ match[i] = match[j] => i = j

\* After the first pass a pair has one selector, and who has none found its own taken.
Selected(base, head, k, match) ==
  /\ \A i \in 1..k : match[i] # 0 => base[i].sel # << >> /\ head[match[i]].sel = base[i].sel
  /\ \A i \in 1..k : base[i].sel # << >> /\ match[i] = 0 =>
       \A h \in 1..Len(head) : head[h].sel = base[i].sel => \E j \in 1..k : match[j] = h

\* After the second one who has none found them all taken.
Completed(base, head, k, first, match) ==
  /\ \A i \in 1..Len(base) : (first[i] # 0 \/ i > k) => match[i] = first[i]
  /\ \A i \in 1..k : match[i] = 0 => Unused(head, match) = {}

LEMMA FirstIs ==
  ASSUME NEW S \in SUBSET Nat
  PROVE  FirstOf(S) \in Nat /\ (S # {} => FirstOf(S) \in S) /\ (S = {} => FirstOf(S) = 0)
<1>1. CASE S = {}
  BY <1>1 DEF FirstOf
<1>2. CASE S # {}
  <2>1. \E k \in S : \A j \in S : k <= j
    BY <1>2, Least
  <2>2. FirstOf(S) = CHOOSE k \in S : \A j \in S : k <= j
    BY <1>2 DEF FirstOf
  <2> QED  BY <1>2, <2>1, <2>2
<1> QED  BY <1>1, <1>2

LEMMA UnusedIs ==
  ASSUME NEW H, NEW head \in Seq(H), NEW match \in Seq(Nat)
  PROVE  /\ Unused(head, match) \in SUBSET Nat
         /\ \A h : h \in Unused(head, match) <=> h \in 1..Len(head) /\ \A i \in 1..Len(match) : match[i] # h
<1>1. DOMAIN head = 1..Len(head) /\ DOMAIN match = 1..Len(match) /\ Len(head) \in Nat
  OBVIOUS
<1> QED  BY <1>1 DEF Unused, Range

LEMMA FirstPass ==
  ASSUME NEW B, NEW H, NEW base \in Seq(B), NEW head \in Seq(H)
  PROVE  /\ Pairing(base, head, Len(base), BySelector(base, head))
         /\ Selected(base, head, Len(base), BySelector(base, head))
<1> DEFINE n == Len(base)
           own(k, x) == {h \in Unused(head, x) : head[h].sel = base[k].sel}
           next(k, x) == Append(x, IF base[k].sel = << >> THEN 0 ELSE FirstOf(own(k, x)))
           step == [k \in 1..n |-> [x \in Seq(Nat) |-> next(k, x)]]
           P == {p \in Nat \X Seq(Nat) : Pairing(base, head, p[1], p[2]) /\ Selected(base, head, p[1], p[2])}
<1>1. n \in Nat /\ << >> \in Seq(Nat) /\ Len(<< >>) = 0
  OBVIOUS
<1>2. ASSUME NEW k \in 1..n, NEW x \in Seq(Nat)
      PROVE  /\ own(k, x) \in SUBSET Nat
             /\ next(k, x) \in Seq(Nat)
  <2>1. own(k, x) \in SUBSET Nat
    BY UnusedIs
  <2>2. FirstOf(own(k, x)) \in Nat
    <3> HIDE DEF own
    <3> QED  BY <2>1, FirstIs
  <2> QED  BY <2>1, <2>2
<1>3. step \in [1..n -> [Seq(Nat) -> Seq(Nat)]]
  <2> HIDE DEF next
  <2> QED  BY <1>2
<1>4. <<0, << >>>> \in P
  <2>1. 1..0 = {}
    OBVIOUS
  <2>2. Pairing(base, head, 0, << >>)
    BY <1>1, <2>1 DEF Pairing
  <2>3. Selected(base, head, 0, << >>)
    BY <2>1 DEF Selected
  <2> DEFINE none == << >>
  <2>4. none \in Seq(Nat) /\ Pairing(base, head, 0, none) /\ Selected(base, head, 0, none)
    BY <1>1, <2>2, <2>3
  <2> HIDE DEF none
  <2>5. <<0, none>> \in P
    BY <2>4
  <2> QED  BY <2>5 DEF none
<1>5. ASSUME NEW k \in 1..n, NEW x \in Seq(Nat), <<k - 1, x>> \in P
      PROVE  <<k, next(k, x)>> \in P
  <2> DEFINE to == IF base[k].sel = << >> THEN 0 ELSE FirstOf(own(k, x))
  <2>1. k \in Nat /\ k - 1 \in Nat /\ Pairing(base, head, k - 1, x) /\ Selected(base, head, k - 1, x)
    BY <1>1, <1>5
  <2>2. to \in Nat
    <3>1. FirstOf(own(k, x)) \in Nat
      <4> HIDE DEF own
      <4> QED  BY <1>2, FirstIs
    <3> QED  BY <3>1
  <2>3. to # 0 => base[k].sel # << >> /\ to \in own(k, x)
    <3> HIDE DEF own
    <3> QED  BY <1>2, FirstIs
  <2>4. to = 0 /\ base[k].sel # << >> => own(k, x) = {}
    <3>1. 0 \notin own(k, x)
      BY UnusedIs
    <3> HIDE DEF own
    <3> QED  BY <1>2, <3>1, FirstIs
  <2>5. to # 0 => /\ to \in 1..Len(head) /\ head[to].sel = base[k].sel
                  /\ \A i \in 1..(k - 1) : x[i] # to
    <3>1. to # 0 => to \in Unused(head, x) /\ head[to].sel = base[k].sel
      <4> HIDE DEF to
      <4> QED  BY <2>3
    <3> HIDE DEF to
    <3> QED  BY <3>1, <2>1, UnusedIs DEF Pairing
  <2>6. to = 0 /\ base[k].sel # << >> =>
          \A h \in 1..Len(head) : head[h].sel = base[k].sel => \E j \in 1..(k - 1) : x[j] = h
    BY <2>4, <2>1, UnusedIs DEF Pairing
  <2> HIDE DEF own, to
  <2> DEFINE y == Append(x, to)
  <2>7. y \in Seq(Nat) /\ Len(y) = k /\ y[k] = to /\ \A i \in 1..(k - 1) : y[i] = x[i]
    BY <2>1, <2>2 DEF Pairing
  <2>8. next(k, x) = y
    BY DEF to
  <2> HIDE DEF y, next
  <2>9. \A i \in 1..k : i = k \/ i \in 1..(k - 1)
    BY <2>1
  <2>10. \A i \in 1..(k - 1) : i \in 1..k /\ i # k
    BY <2>1
  <2>11. \A i \in 1..k : y[i] \in {0} \cup 1..Len(head)
    BY <2>1, <2>5, <2>7, <2>9 DEF Pairing
  <2>12. \A i, j \in 1..k : y[i] # 0 /\ y[i] = y[j] => i = j
    <3>1. ASSUME NEW i \in 1..(k - 1), NEW j \in 1..(k - 1), y[i] # 0, y[i] = y[j] PROVE i = j
      BY <2>1, <2>7, <3>1 DEF Pairing
    <3>2. \A i \in 1..(k - 1) : y[i] # 0 => y[i] # to
      BY <2>5, <2>7
    <3> QED  BY <2>7, <2>9, <3>1, <3>2
  <2>13. \A i \in 1..k : y[i] # 0 => base[i].sel # << >> /\ head[y[i]].sel = base[i].sel
    <3>1. \A i \in 1..(k - 1) : y[i] # 0 => base[i].sel # << >> /\ head[y[i]].sel = base[i].sel
      BY <2>1, <2>7 DEF Selected
    <3> QED  BY <2>3, <2>5, <2>7, <2>9, <3>1
  <2>14. ASSUME NEW i \in 1..k, base[i].sel # << >>, y[i] = 0, NEW h \in 1..Len(head), head[h].sel = base[i].sel
         PROVE  \E j \in 1..k : y[j] = h
    <3>1. \E j \in 1..(k - 1) : x[j] = h
      <4>1. CASE i = k
        BY <2>6, <2>7, <2>14, <4>1
      <4>2. CASE i \in 1..(k - 1)
        BY <2>1, <2>7, <2>14, <4>2 DEF Selected
      <4> QED  BY <2>9, <4>1, <4>2
    <3> QED  BY <2>7, <2>10, <3>1
  <2>15. Pairing(base, head, k, y)
    BY <2>7, <2>11, <2>12 DEF Pairing
  <2>16. Selected(base, head, k, y)
    BY <2>13, <2>14 DEF Selected
  <2> QED  BY <2>1, <2>7, <2>8, <2>15, <2>16
<1> DEFINE Rec(h) == h = [k \in 0..n |-> IF k = 0 THEN << >> ELSE next(k, h[k - 1])]
           g == CHOOSE h : Rec(h)
<1>6. BySelector(base, head) = g[n]
  BY DEF BySelector
<1> HIDE DEF n, P
<1>7. Rec(g)
  <2> HIDE DEF next
  <2>1. PICK f \in [0..n -> Seq(Nat)] : f[0] = << >> /\ Stepwise(f, n, step)
    <3> DEFINE S == Seq(Nat)
               none == << >>
    <3>0. n \in Nat
      BY <1>1
    <3>1. none \in S /\ step \in [1..n -> [S -> S]]
      BY <1>1, <1>3
    <3> HIDE DEF step, S, none
    <3>2. \E f \in [0..n -> S] : f[0] = none /\ Stepwise(f, n, step)
      BY <3>0, <3>1, FoldExists
    <3> QED  BY <3>2 DEF S, none
  <2>2. \A k \in 1..n : f[k] = next(k, f[k - 1])
    <3>1. TAKE k \in 1..n
    <3>2. k - 1 \in 0..n
      BY <1>1
    <3> QED  BY <2>1, <3>2 DEF Stepwise
  <2>3. Rec(f)
    <3>1. \A k \in 0..n : f[k] = IF k = 0 THEN << >> ELSE next(k, f[k - 1])
      BY <1>1, <2>1, <2>2
    <3>2. f = [k \in 0..n |-> f[k]]
      OBVIOUS
    <3> QED  BY <3>1, <3>2, Zenon
  <2> QED  BY <2>3
<1>8. \A k \in 0..n : g[k] = IF k = 0 THEN << >> ELSE next(k, g[k - 1])
  <2> HIDE DEF g, next
  <2> QED  BY <1>7
<1> HIDE DEF g, next
<1>9. \A k \in 1..n : <<k - 1, g[k - 1]>> \in P => <<k, g[k]>> \in P
  <2>1. ASSUME NEW k \in 1..n, <<k - 1, g[k - 1]>> \in P PROVE <<k, g[k]>> \in P
    <3>1. g[k - 1] \in Seq(Nat)
      BY <2>1 DEF P
    <3>2. g[k] = next(k, g[k - 1])
      BY <1>1, <1>8
    <3> QED  BY <1>5, <2>1, <3>1, <3>2
  <2> QED  BY <2>1
<1>10. <<n, g[n]>> \in P
  <2>1. <<0, g[0]>> \in P
    BY <1>1, <1>4, <1>8
  <2> QED  BY <1>1, <1>9, <2>1, Along
<1> QED
  BY <1>6, <1>10 DEF P, n

LEMMA SecondPass ==
  ASSUME NEW B, NEW H, NEW base \in Seq(B), NEW head \in Seq(H)
  PROVE  /\ Pairing(base, head, Len(base), MatchChildren(base, head))
         /\ Completed(base, head, Len(base), BySelector(base, head), MatchChildren(base, head))
<1> DEFINE n == Len(base)
           first == BySelector(base, head)
           next(k, x) == IF x[k] # 0 THEN x ELSE [x EXCEPT ![k] = FirstOf(Unused(head, x))]
           step == [k \in 1..n |-> [x \in Seq(Nat) |-> next(k, x)]]
           P == {p \in Nat \X Seq(Nat) : Pairing(base, head, n, p[2]) /\ Completed(base, head, p[1], first, p[2])}
<1>1. n \in Nat
  OBVIOUS
<1>2. Pairing(base, head, n, first)
  BY FirstPass
<1> DEFINE Rec(h) == h = [k \in 0..n |-> IF k = 0 THEN first ELSE next(k, h[k - 1])]
           g == CHOOSE h : Rec(h)
<1>3. MatchChildren(base, head) = g[n]
  BY DEF MatchChildren
<1> HIDE DEF first
<1>4. first \in Seq(Nat)
  BY <1>2 DEF Pairing
<1>5. ASSUME NEW k \in 1..n, NEW x \in Seq(Nat) PROVE next(k, x) \in Seq(Nat)
  <2> DEFINE to == FirstOf(Unused(head, x))
             y == [x EXCEPT ![k] = to]
  <2>1. to \in Nat
    BY UnusedIs, FirstIs
  <2> HIDE DEF to
  <2>2. y \in Seq(Nat)
    <3>1. CASE k \in 1..Len(x)
      BY <2>1, <3>1, ExceptSeq
    <3>2. CASE k \notin 1..Len(x)
      <4>1. DOMAIN x = 1..Len(x)
        OBVIOUS
      <4>2. y = [i \in DOMAIN x |-> x[i]]
        BY <3>2, <4>1
      <4>3. x = [i \in DOMAIN x |-> x[i]]
        OBVIOUS
      <4> QED  BY <4>2, <4>3
    <3> QED  BY <3>1, <3>2
  <2>3. next(k, x) = IF x[k] # 0 THEN x ELSE y
    BY DEF to
  <2> HIDE DEF y, next
  <2> QED  BY <2>2, <2>3
<1>6. step \in [1..n -> [Seq(Nat) -> Seq(Nat)]]
  <2> HIDE DEF next
  <2> QED  BY <1>5
<1>7. <<0, first>> \in P
  <2>1. Completed(base, head, 0, first, first)
    BY DEF Completed
  <2> QED  BY <1>2, <1>4, <2>1
<1>8. ASSUME NEW k \in 1..n, NEW x \in Seq(Nat), <<k - 1, x>> \in P
      PROVE  <<k, next(k, x)>> \in P
  <2>1. k \in Nat /\ Pairing(base, head, n, x) /\ Completed(base, head, k - 1, first, x)
    BY <1>1, <1>8
  <2>2. \A i \in 1..k : i = k \/ i \in 1..(k - 1)
    BY <2>1
  <2>3. CASE x[k] # 0
    <3>1. Completed(base, head, k, first, x)
      <4>1. \A i \in 1..n : i > k => i > k - 1
        BY <1>1
      <4>2. \A i \in 1..k : x[i] = 0 => Unused(head, x) = {}
        BY <2>1, <2>2, <2>3 DEF Completed
      <4> QED  BY <2>1, <4>1, <4>2 DEF Completed
    <3> QED  BY <2>1, <2>3, <3>1
  <2>4. CASE x[k] = 0 /\ Unused(head, x) = {}
    <3>1. next(k, x) = x
      <4>1. FirstOf(Unused(head, x)) = 0
        BY <2>4 DEF FirstOf
      <4>2. x = [x EXCEPT ![k] = 0]
        BY <2>4
      <4> QED  BY <2>4, <4>1, <4>2
    <3>2. Completed(base, head, k, first, x)
      <4>1. \A i \in 1..n : i > k => i > k - 1
        BY <1>1
      <4> QED  BY <2>1, <2>4, <4>1 DEF Completed
    <3> HIDE DEF next
    <3> QED  BY <2>1, <3>1, <3>2
  <2>5. CASE x[k] = 0 /\ Unused(head, x) # {}
    <3> DEFINE to == FirstOf(Unused(head, x))
               y == [x EXCEPT ![k] = to]
    <3>1. to \in Unused(head, x)
      BY <2>5, UnusedIs, FirstIs
    <3>2. next(k, x) = y
      BY <2>5
    <3> HIDE DEF to
    <3>3. to \in 1..Len(head) /\ to # 0 /\ \A i \in 1..n : x[i] # to
      BY <2>1, <3>1, UnusedIs DEF Pairing
    <3>4. y \in Seq(Nat) /\ Len(y) = n /\ y[k] = to /\ \A i \in 1..n : i # k => y[i] = x[i]
      BY <1>1, <2>1, <3>3 DEF Pairing
    <3> HIDE DEF y, next
    <3>5. \A i \in 1..n : y[i] \in {0} \cup 1..Len(head)
      BY <2>1, <3>3, <3>4 DEF Pairing
    <3>6. \A i, j \in 1..n : y[i] # 0 /\ y[i] = y[j] => i = j
      <4>1. TAKE i, j \in 1..n
      <4>2. CASE i = k \/ j = k
        BY <3>3, <3>4, <4>2
      <4>3. CASE i # k /\ j # k
        BY <2>1, <3>4, <4>3 DEF Pairing
      <4> QED  BY <4>2, <4>3
    <3>7. Pairing(base, head, n, y)
      BY <3>4, <3>5, <3>6 DEF Pairing
    <3>8. first[k] = 0
      BY <2>1, <2>5 DEF Completed
    <3>9. \A i \in 1..n : (first[i] # 0 \/ i > k) => i # k /\ (first[i] # 0 \/ i > k - 1)
      BY <1>1, <3>8
    <3>10. \A i \in 1..n : (first[i] # 0 \/ i > k) => y[i] = first[i]
      BY <2>1, <3>4, <3>9 DEF Completed
    <3>11. \A i \in 1..k : y[i] # 0
      <4>1. \A i \in 1..(k - 1) : i # k /\ i \in 1..n /\ x[i] # 0
        BY <2>1, <2>5, <1>1 DEF Completed
      <4> QED  BY <2>2, <3>3, <3>4, <4>1
    <3>12. Completed(base, head, k, first, y)
      BY <3>10, <3>11 DEF Completed
    <3> QED  BY <2>1, <3>2, <3>4, <3>7, <3>12
  <2> QED  BY <2>3, <2>4, <2>5
<1> HIDE DEF n, P
<1>9. Rec(g)
  <2> HIDE DEF next
  <2>1. PICK f \in [0..n -> Seq(Nat)] : f[0] = first /\ Stepwise(f, n, step)
    <3> HIDE DEF step
    <3> QED  BY <1>1, <1>4, <1>6, FoldExists
  <2>2. \A k \in 1..n : f[k] = next(k, f[k - 1])
    <3>1. TAKE k \in 1..n
    <3>2. k - 1 \in 0..n
      BY <1>1
    <3> QED  BY <2>1, <3>2 DEF Stepwise
  <2>3. Rec(f)
    <3>1. \A k \in 0..n : f[k] = IF k = 0 THEN first ELSE next(k, f[k - 1])
      BY <1>1, <2>1, <2>2
    <3>2. f = [k \in 0..n |-> f[k]]
      OBVIOUS
    <3> QED  BY <3>1, <3>2, Zenon
  <2> QED  BY <2>3
<1>10. \A k \in 0..n : g[k] = IF k = 0 THEN first ELSE next(k, g[k - 1])
  <2> HIDE DEF g, next
  <2> QED  BY <1>9
<1> HIDE DEF g, next
<1>11. \A k \in 1..n : <<k - 1, g[k - 1]>> \in P => <<k, g[k]>> \in P
  <2>1. ASSUME NEW k \in 1..n, <<k - 1, g[k - 1]>> \in P PROVE <<k, g[k]>> \in P
    <3>1. g[k - 1] \in Seq(Nat)
      BY <2>1 DEF P
    <3>2. g[k] = next(k, g[k - 1])
      BY <1>1, <1>10
    <3> QED  BY <1>8, <2>1, <3>1, <3>2
  <2> QED  BY <2>1
<1>12. <<n, g[n]>> \in P
  <2>1. <<0, g[0]>> \in P
    BY <1>1, <1>7, <1>10
  <2> QED  BY <1>1, <1>11, <2>1, Along
<1> QED
  BY <1>3, <1>12 DEF P, n, first

\* What a matching owes to siblings: each head is one base's at most, all of the shorter list
\* are matched, and an element loses a namesake only to another of the same selector.
Fair(base, head, match) ==
  /\ match \in [DOMAIN base -> {0} \cup DOMAIN head]
  /\ \A i, j \in DOMAIN base : match[i] # 0 /\ match[i] = match[j] => i = j
  /\ \A i \in DOMAIN base : match[i] = 0 => Unused(head, match) = {}
  /\ \A i \in DOMAIN base : \A h \in DOMAIN head :
       /\ base[i].sel # << >> /\ head[h].sel = base[i].sel
       /\ match[i] # 0 => head[match[i]].sel # base[i].sel
       => \E j \in DOMAIN base : match[j] = h /\ base[j].sel = base[i].sel

\* Whatever the siblings of the two trees, those that are paired (diff_children) are paired
\* fairly: the second pass takes nothing that the first gave, and leaves nobody aside while a
\* head is free.
THEOREM MatchingFair ==
  ASSUME NEW B, NEW H, NEW base \in Seq(B), NEW head \in Seq(H)
  PROVE  Fair(base, head, MatchChildren(base, head))
<1> DEFINE n == Len(base)
           first == BySelector(base, head)
           match == MatchChildren(base, head)
<1>1. n \in Nat /\ DOMAIN base = 1..n /\ DOMAIN head = 1..Len(head)
  OBVIOUS
<1>2. Selected(base, head, n, first)
  BY FirstPass
<1>3. Pairing(base, head, n, match) /\ Completed(base, head, n, first, match)
  BY SecondPass
<1> HIDE DEF n, first, match
<1>4. match \in [1..n -> {0} \cup 1..Len(head)]
  <2>1. match \in [1..n -> Nat]
    BY <1>3 DEF Pairing
  <2> QED  BY <1>3, <2>1 DEF Pairing
<1>5. ASSUME NEW i \in 1..n, NEW h \in 1..Len(head), base[i].sel # << >>, head[h].sel = base[i].sel,
             match[i] # 0 => head[match[i]].sel # base[i].sel
      PROVE  \E j \in 1..n : match[j] = h /\ base[j].sel = base[i].sel
  <2>1. \A j \in 1..n : first[j] # 0 => match[j] = first[j]
    BY <1>3 DEF Completed, n
  <2>2. first[i] = 0
    BY <1>2, <1>5, <2>1 DEF Selected
  <2>3. PICK j \in 1..n : first[j] = h
    BY <1>2, <1>5, <2>2 DEF Selected
  <2>4. first[j] # 0 /\ head[first[j]].sel = base[j].sel
    BY <1>2, <2>3 DEF Selected
  <2> QED  BY <1>5, <2>1, <2>3, <2>4
<1>6. \A i, j \in 1..n : match[i] # 0 /\ match[i] = match[j] => i = j
  BY <1>3 DEF Pairing
<1>7. \A i \in 1..n : match[i] = 0 => Unused(head, match) = {}
  BY <1>3 DEF Completed
<1>8. Fair(base, head, match)
  <2>1. match \in [DOMAIN base -> {0} \cup DOMAIN head]
    BY <1>1, <1>4
  <2>2. \A i \in DOMAIN base : \A h \in DOMAIN head :
          /\ base[i].sel # << >> /\ head[h].sel = base[i].sel
          /\ match[i] # 0 => head[match[i]].sel # base[i].sel
          => \E j \in DOMAIN base : match[j] = h /\ base[j].sel = base[i].sel
    BY <1>1, <1>5
  <2>3. \A i, j \in DOMAIN base : match[i] # 0 /\ match[i] = match[j] => i = j
    BY <1>1, <1>6
  <2>4. \A i \in DOMAIN base : match[i] = 0 => Unused(head, match) = {}
    BY <1>1, <1>7
  <2> QED  BY <2>1, <2>2, <2>3, <2>4 DEF Fair
<1> QED  BY <1>8 DEF match

-----------------------------------------------------------------------------
(* The norm of a group. *)

\* The value at a place of the sorted ones is the one with so few below it and so many up to it.
LEMMA SortedIs ==
  ASSUME NEW values \in Seq(Int), NEW k \in Int, NEW x \in Range(values),
         Cardinality({i \in DOMAIN values : values[i] < x}) < k,
         Cardinality({i \in DOMAIN values : values[i] <= x}) >= k
  PROVE  Sorted(values, k) = x
<1> DEFINE below(w) == {i \in DOMAIN values : values[i] < w}
           upto(w)  == {i \in DOMAIN values : values[i] <= w}
           At(w) == Cardinality(below(w)) < k /\ Cardinality(upto(w)) >= k
<1>1. IsFiniteSet(DOMAIN values) /\ Range(values) \in SUBSET Int
  BY FS_Interval DEF Range
<1>2. ASSUME NEW w \in Int
      PROVE  /\ IsFiniteSet(below(w)) /\ Cardinality(below(w)) \in Nat
             /\ IsFiniteSet(upto(w)) /\ Cardinality(upto(w)) \in Nat
  BY <1>1, FS_Subset, FS_CardinalityType
<1>3. At(x)
  OBVIOUS
<1>4. ASSUME NEW w \in Range(values), At(w) PROVE w = x
  <2>0. w \in Int /\ x \in Int /\ \A i \in DOMAIN values : values[i] \in Int
    BY <1>1
  <2>1. CASE w < x
    <3>1. upto(w) \in SUBSET below(x)
      BY <2>0, <2>1
    <3>2. Cardinality(upto(w)) <= Cardinality(below(x))
      BY <1>2, <2>0, <3>1, FS_Subset
    <3>3. Cardinality(upto(w)) >= k /\ Cardinality(below(x)) < k
      BY <1>4, <1>3
    <3>4. Cardinality(upto(w)) \in Nat /\ Cardinality(below(x)) \in Nat
      BY <1>2, <2>0
    <3> HIDE DEF upto, below
    <3> QED  BY <3>2, <3>3, <3>4
  <2>2. CASE x < w
    <3>1. upto(x) \in SUBSET below(w)
      BY <2>0, <2>2
    <3>2. Cardinality(upto(x)) <= Cardinality(below(w))
      BY <1>2, <2>0, <3>1, FS_Subset
    <3>3. Cardinality(upto(x)) >= k /\ Cardinality(below(w)) < k
      BY <1>4, <1>3
    <3>4. Cardinality(upto(x)) \in Nat /\ Cardinality(below(w)) \in Nat
      BY <1>2, <2>0
    <3> HIDE DEF upto, below
    <3> QED  BY <3>2, <3>3, <3>4
  <2> QED  BY <2>0, <2>1, <2>2
<1>5. Sorted(values, k) = CHOOSE w \in Range(values) : At(w)
  BY DEF Sorted
<1> HIDE DEF At
<1> QED  BY <1>3, <1>4, <1>5

\* What is shared by more than half of some things, and how many are on its two sides.
LEMMA BothSides ==
  ASSUME NEW values \in Seq(Int), NEW x \in Int,
         NEW L, L = Cardinality({i \in DOMAIN values : values[i] < x}),
         NEW E, E = Cardinality({i \in DOMAIN values : values[i] = x}),
         NEW T, T = Cardinality({i \in DOMAIN values : values[i] <= x})
  PROVE  L \in Nat /\ E \in Nat /\ T = L + E /\ T <= Len(values)
<1> DEFINE D == DOMAIN values
           less == {i \in D : values[i] < x}
           same == {i \in D : values[i] = x}
           both == {i \in D : values[i] <= x}
<1>0. D = 1..Len(values) /\ Len(values) \in Nat /\ \A i \in D : values[i] \in Int
  OBVIOUS
<1>1. IsFiniteSet(D) /\ Cardinality(D) = Len(values)
  BY <1>0, FS_Interval
<1> HIDE DEF D
<1>2. less \in SUBSET D /\ same \in SUBSET D /\ both \in SUBSET D
  OBVIOUS
<1>3. both = less \cup same /\ less \cap same = {}
  BY <1>0
<1> HIDE DEF less, same, both
<1>4. IsFiniteSet(less) /\ IsFiniteSet(same) /\ IsFiniteSet(both) /\ Cardinality(both) <= Cardinality(D)
  BY <1>1, <1>2, FS_Subset
<1>5. Cardinality(less) \in Nat /\ Cardinality(same) \in Nat
  BY <1>4, FS_CardinalityType
<1>6. Cardinality(both) = Cardinality(less) + Cardinality(same)
  <2>1. Cardinality(both) = Cardinality(less) + Cardinality(same) - Cardinality(less \cap same)
    BY <1>3, <1>4, FS_Union
  <2>2. Cardinality(less \cap same) = 0
    BY <1>3, FS_EmptySet
  <2> QED  BY <1>5, <2>1, <2>2
<1>7. /\ Cardinality(less) \in Nat /\ Cardinality(same) \in Nat
      /\ Cardinality(both) = Cardinality(less) + Cardinality(same) /\ Cardinality(both) <= Len(values)
  BY <1>1, <1>4, <1>5, <1>6
<1> QED  BY <1>7 DEF less, same, both, D

\* The value of more than half is in the middle.
LEMMA MedianIs ==
  ASSUME NEW values \in Seq(Int), NEW x \in Int,
         2 * Cardinality({i \in DOMAIN values : values[i] = x}) > Len(values)
  PROVE  Median(values) = x
<1> DEFINE L == Cardinality({i \in DOMAIN values : values[i] < x})
           E == Cardinality({i \in DOMAIN values : values[i] = x})
           T == Cardinality({i \in DOMAIN values : values[i] <= x})
           n == Len(values)
           mid == n \div 2
<1>1. L \in Nat /\ E \in Nat /\ T = L + E /\ T <= n /\ n \in Nat /\ 2 * E > n
  <2>1. n \in Nat /\ 2 * E > n
    OBVIOUS
  <2>2. L \in Nat /\ E \in Nat /\ T = L + E /\ T <= n
    BY BothSides
  <2> QED  BY <2>1, <2>2
<1>2. x \in Range(values)
  <2>1. {i \in DOMAIN values : values[i] = x} # {}
    <3>1. E # 0
      BY <1>1
    <3> QED  BY <3>1, FS_EmptySet
  <2> QED  BY <2>1 DEF Range
<1>3. ASSUME NEW k \in Int, L < k, T >= k PROVE Sorted(values, k) = x
  BY <1>2, <1>3, SortedIs
<1>4. Median(values) = IF n % 2 = 1 THEN Sorted(values, mid + 1)
                       ELSE (Sorted(values, mid) + Sorted(values, mid + 1)) \div 2
  BY DEF Median
<1> HIDE DEF L, E, T, n
<1>5. mid \in Nat /\ (n % 2 = 1 => n = 2 * mid + 1) /\ (n % 2 # 1 => n = 2 * mid)
  BY <1>1
<1> HIDE DEF mid
<1>6. Sorted(values, mid + 1) = x
  <2>1. L < mid + 1 /\ T >= mid + 1
    BY <1>1, <1>5
  <2> QED  BY <1>3, <1>5, <2>1
<1>7. n % 2 # 1 => Sorted(values, mid) = x
  <2>1. SUFFICES ASSUME n % 2 # 1 PROVE Sorted(values, mid) = x
    OBVIOUS
  <2>2. L < mid /\ T >= mid
    BY <1>1, <1>5, <2>1
  <2> QED  BY <1>3, <1>5, <2>2
<1>8. (x + x) \div 2 = x
  OBVIOUS
<1> QED  BY <1>4, <1>6, <1>7, <1>8

\* The commonest value, when one is that of more than half.
LEMMA MostIs ==
  ASSUME NEW V, NEW values \in Seq(V), NEW x \in V, 2 * Occurs(values, x) > Len(values)
  PROVE  (CHOOSE v \in Range(values) : \A w \in Range(values) : Occurs(values, v) >= Occurs(values, w)) = x
<1> DEFINE D == DOMAIN values
           at(v) == {i \in D : values[i] = v}
           n == Len(values)
<1>0. D = 1..n /\ n \in Nat
  OBVIOUS
<1>1. IsFiniteSet(D) /\ Cardinality(D) = n /\ n \in Nat
  <2> HIDE DEF D, n
  <2> QED  BY <1>0, FS_Interval
<1>2. \A v : Occurs(values, v) = Cardinality(at(v))
  BY DEF Occurs
<1> HIDE DEF D, n
<1>3. \A v : IsFiniteSet(at(v)) /\ Cardinality(at(v)) \in Nat
  BY <1>1, FS_Subset, FS_CardinalityType
<1>4. ASSUME NEW v, v # x PROVE Cardinality(at(v)) + Cardinality(at(x)) <= n
  <2>1. at(v) \cap at(x) = {} /\ at(v) \cup at(x) \in SUBSET D
    BY <1>4
  <2> HIDE DEF at
  <2>2. Cardinality(at(v) \cup at(x)) <= n
    BY <1>1, <2>1, FS_Subset
  <2>3. Cardinality(at(v) \cup at(x)) = Cardinality(at(v)) + Cardinality(at(x)) - Cardinality(at(v) \cap at(x))
    BY <1>3, FS_Union
  <2>4. Cardinality(at(v) \cap at(x)) = 0
    BY <2>1, FS_EmptySet
  <2> QED  BY <1>1, <1>3, <2>2, <2>3, <2>4
<1>5. 2 * Cardinality(at(x)) > n
  BY <1>2 DEF n
<1>6. x \in Range(values)
  <2>1. at(x) # {}
    <3>1. Cardinality(at(x)) # 0
      BY <1>1, <1>5
    <3> QED  BY <3>1, FS_EmptySet
  <2> QED  BY <2>1 DEF Range, D
<1> HIDE DEF at
<1>7. \A v : v # x => Occurs(values, v) < Occurs(values, x)
  <2>1. TAKE v
  <2>2. SUFFICES ASSUME v # x PROVE Cardinality(at(v)) < Cardinality(at(x))
    BY <1>2
  <2> QED  BY <1>1, <1>3, <1>4, <1>5, <2>2
<1>8. \A v : Occurs(values, v) \in Nat
  BY <1>2, <1>3
<1> DEFINE Most(v) == \A w \in Range(values) : Occurs(values, v) >= Occurs(values, w)
<1>9. Most(x)
  BY <1>7, <1>8
<1>10. \A v \in Range(values) : Most(v) => v = x
  <2>1. TAKE v \in Range(values)
  <2>2. SUFFICES ASSUME Most(v), v # x PROVE FALSE
    OBVIOUS
  <2> QED  BY <1>6, <1>7, <1>8, <2>2
<1> HIDE DEF Most
<1>11. (CHOOSE v \in Range(values) : Most(v)) = x
  BY <1>6, <1>9, <1>10
<1> QED  BY <1>11 DEF Most

\* In a group of instances (check_uniformity), whatever its size and whatever their values, an
\* instance whose value is that of more than half is no outlier: the norm, a median or a mode,
\* is then that value.
THEOREM MajorityKept ==
  ASSUME NEW U, NEW Keys, NEW instances \in Seq(UNION {[K -> [n : Int, u : U]] : K \in SUBSET Keys}),
         NEW tolerance \in Nat
  PROVE  MajorityConforms(instances, tolerance)
<1> DEFINE Value == [n : Int, u : U]
           D == DOMAIN instances
<1>0. D = 1..Len(instances) /\ Len(instances) \in Nat
  OBVIOUS
<1>1. SUFFICES ASSUME NEW i \in D, NEW k \in DOMAIN instances[i],
                      \A j \in D : k \in DOMAIN instances[j],
                      2 * Cardinality({j \in D : instances[j][k] = instances[i][k]}) > Len(instances)
               PROVE  i \notin Deviants(instances, k, tolerance)
  BY DEF MajorityConforms
<1> DEFINE values == [j \in D |-> instances[j][k]]
           x == values[i]
<1>2. \A j \in D : values[j] \in Value
  <2>1. TAKE j \in D
  <2>2. PICK K \in SUBSET Keys : instances[j] \in [K -> Value]
    OBVIOUS
  <2>3. k \in K
    BY <1>1, <2>2
  <2> QED  BY <2>2, <2>3
<1>3. values \in Seq(Value) /\ Len(values) = Len(instances) /\ DOMAIN values = D
  <2>1. values \in [1..Len(instances) -> Value]
    BY <1>0, <1>2
  <2> HIDE DEF values, Value
  <2> QED  BY <1>0, <2>1
<1>4. 2 * Cardinality({j \in D : values[j] = x}) > Len(values)
  <2>1. {j \in D : instances[j][k] = instances[i][k]} = {j \in D : values[j] = x}
    OBVIOUS
  <2> HIDE DEF values
  <2> QED  BY <1>1, <1>3, <2>1
<1>5. x \in Value
  BY <1>2
<1>6. Deviants(instances, k, tolerance) =
        {j \in D : /\ \E m \in D : values[m] # values[1]
                   /\ values[j] # GroupNorm(values)
                   /\ ~ (AreNumbers(values) /\ values[j].n - GroupNorm(values).n \in (-tolerance)..tolerance)}
  BY <1>1 DEF Deviants
<1> HIDE DEF values, x
<1>7. GroupNorm(values) = x
  <2>1. CASE ~ AreNumbers(values)
    <3>1. 2 * Occurs(values, x) > Len(values)
      BY <1>3, <1>4 DEF Occurs
    <3>2. (CHOOSE v \in Range(values) : \A w \in Range(values) : Occurs(values, v) >= Occurs(values, w)) = x
      BY <1>3, <1>5, <3>1, MostIs
    <3> QED  BY <2>1, <3>2 DEF GroupNorm
  <2>2. CASE AreNumbers(values)
    <3> DEFINE ns == [j \in DOMAIN values |-> values[j].n]
    <3>1. ns \in Seq(Int) /\ Len(ns) = Len(values) /\ DOMAIN ns = D
      <4>1. ns \in [1..Len(instances) -> Int]
        BY <1>0, <1>2, <1>3
      <4> DEFINE m == Len(instances)
      <4>2. m \in Nat /\ D = 1..m /\ Len(values) = m /\ ns \in [1..m -> Int]
        BY <1>0, <1>3, <4>1
      <4> HIDE DEF ns, m, D
      <4> QED  BY <4>2
    <3>2. \A j \in D : values[j].u = values[1].u
      BY <1>3, <2>2 DEF AreNumbers
    <3>3. x = values[i] /\ x.n \in Int /\ x.u = values[1].u /\ x = [n |-> x.n, u |-> x.u]
      BY <1>5, <3>2 DEF x
    <3>4. \A j \in D : ns[j] = x.n <=> values[j] = x
      <4>1. TAKE j \in D
      <4>2. values[j] = [n |-> values[j].n, u |-> values[j].u]
        BY <1>2
      <4>3. ns[j] = values[j].n
        BY <1>3
      <4> HIDE DEF ns
      <4> QED  BY <3>2, <3>3, <4>2, <4>3
    <3> HIDE DEF ns
    <3>5. 2 * Cardinality({j \in DOMAIN ns : ns[j] = x.n}) > Len(ns)
      <4>1. {j \in DOMAIN ns : ns[j] = x.n} = {j \in D : values[j] = x}
        BY <3>1, <3>4
      <4> QED  BY <1>4, <3>1, <4>1
    <3>6. Median(ns) = x.n
      BY <3>1, <3>3, <3>5, MedianIs
    <3>7. GroupNorm(values) = [n |-> Median(ns), u |-> values[1].u]
      BY <2>2 DEF GroupNorm, ns
    <3> QED  BY <3>3, <3>6, <3>7
  <2> QED  BY <2>1, <2>2
<1> QED  BY <1>6, <1>7 DEF x

-----------------------------------------------------------------------------
(* The styles that are hoisted. *)

\* A function whose entries are all another's.
Within(f, g) == \A k \in DOMAIN f : k \in DOMAIN g /\ f[k] = g[k]

LEMMA GroupWithin ==
  ASSUME NEW css, NEW globals, css = [p \in DOMAIN css |-> css[p]]
  PROVE  Within(Constant(css), OrElse(CompactGroup(css), ScopeVariables(css, globals)))
<1> DEFINE own == Only(css, DOMAIN css \ Variables)
           all == OrElse(CompactGroup(css), ScopeVariables(css, globals))
<1>1. DOMAIN own = DOMAIN css \ Variables /\ \A p \in DOMAIN own : own[p] = css[p]
  BY DEF Only
<1>2. \A p \in DOMAIN CompactGroup(css) : p \in DOMAIN all /\ all[p] = CompactGroup(css)[p]
  BY DEF OrElse
<1> HIDE DEF own, all
<1>3. \A p : p \in DOMAIN CompactGroup(css) <=>
               /\ p \in DOMAIN css \ Variables
               /\ ~ (p \in DOMAIN Physical /\ Physical[p] \in DOMAIN css /\ css[Physical[p]] = css[p])
               /\ p \in Kept \/ css[p] \notin Noise
  BY DEF CompactGroup, Only
<1>4. \A p : p \in DOMAIN CompactGroup(own) <=>
               /\ p \in DOMAIN own \ Variables
               /\ ~ (p \in DOMAIN Physical /\ Physical[p] \in DOMAIN own /\ own[Physical[p]] = own[p])
               /\ p \in Kept \/ own[p] \notin Noise
  BY DEF CompactGroup, Only
<1>5. /\ \A p \in DOMAIN CompactGroup(css) : CompactGroup(css)[p] = css[p]
      /\ \A p \in DOMAIN CompactGroup(own) : CompactGroup(own)[p] = own[p]
  BY DEF CompactGroup, Only
<1>6. \A p \in DOMAIN Physical : Physical[p] \notin Variables
  BY PhysicalGiven DEF Variables
<1>7. ASSUME NEW p \in DOMAIN CompactGroup(own)
      PROVE  p \in DOMAIN CompactGroup(css) /\ CompactGroup(own)[p] = CompactGroup(css)[p]
  <2>1. p \in DOMAIN css \ Variables /\ own[p] = css[p]
    BY <1>1, <1>4
  <2>2. p \in DOMAIN Physical /\ Physical[p] \in DOMAIN css =>
          Physical[p] \in DOMAIN own /\ own[Physical[p]] = css[Physical[p]]
    BY <1>1, <1>6
  <2>3. p \in DOMAIN CompactGroup(css)
    BY <1>3, <1>4, <2>1, <2>2
  <2> QED  BY <1>5, <2>1, <2>3
<1>8. Constant(css) = CompactGroup(own)
  BY DEF Constant, own
<1> QED  BY <1>2, <1>7, <1>8 DEF Within, all

LEMMA KeyedWithin ==
  ASSUME NEW f, NEW g, Within(f, g), NEW cfg, cfg.grouped
  PROVE  Within(Keyed(f, cfg), Keyed(g, cfg))
<1>1. \A k : k \in DOMAIN Keyed(f, cfg) <=> \E p \in DOMAIN f : k = <<Category[p], p>>
  BY DEF Keyed, Key
<1>2. \A k : k \in DOMAIN Keyed(g, cfg) <=> \E p \in DOMAIN g : k = <<Category[p], p>>
  BY DEF Keyed, Key
<1>3. ASSUME NEW p \in DOMAIN f PROVE Keyed(f, cfg)[<<Category[p], p>>] = f[p]
  BY <1>1 DEF Keyed, Key
<1>4. ASSUME NEW p \in DOMAIN g PROVE Keyed(g, cfg)[<<Category[p], p>>] = g[p]
  BY <1>2 DEF Keyed, Key
<1>5. ASSUME NEW k \in DOMAIN Keyed(f, cfg)
      PROVE  k \in DOMAIN Keyed(g, cfg) /\ Keyed(f, cfg)[k] = Keyed(g, cfg)[k]
  <2>1. PICK p \in DOMAIN f : k = <<Category[p], p>>
    BY <1>1
  <2>2. p \in DOMAIN g /\ f[p] = g[p]
    BY DEF Within
  <2> QED  BY <1>2, <1>3, <1>4, <2>1, <2>2
<1> QED  BY <1>5 DEF Within

\* What is hoisted is in every element.
LEMMA SharedWithin ==
  ASSUME NEW objects, NEW i \in DOMAIN objects, objects # << >>
  PROVE  Within(Shared(objects), objects[i])
<1>1. Shared(objects) = Only(objects[1], {k \in DOMAIN objects[1] :
         \A j \in DOMAIN objects : k \in DOMAIN objects[j] /\ objects[j][k] = objects[1][k]})
  BY DEF Shared
<1> QED  BY <1>1 DEF Only, Within

LEMMA Restored ==
  ASSUME NEW all, all = [k \in DOMAIN all |-> all[k]], NEW d, Within(d, all)
  PROVE  OrElse(DedupStyles(all, d), d) = all
<1> DEFINE left == DedupStyles(all, d)
<1>1. \A k : k \in DOMAIN left <=> k \in DOMAIN all /\ (k \notin DOMAIN d \/ all[k] # d[k])
  BY DEF DedupStyles, Only
<1>2. \A k \in DOMAIN left : left[k] = all[k]
  BY DEF DedupStyles, Only
<1>3. DOMAIN all = DOMAIN left \cup DOMAIN d
  BY <1>1 DEF Within
<1>4. \A k \in DOMAIN all : (IF k \in DOMAIN left THEN left[k] ELSE d[k]) = all[k]
  BY <1>1, <1>2, <1>3 DEF Within
<1>5. OrElse(left, d) = [k \in DOMAIN all |-> IF k \in DOMAIN left THEN left[k] ELSE d[k]]
  BY <1>3 DEF OrElse
<1> HIDE DEF left
<1> QED  BY <1>4, <1>5 DEF left

\* Whatever the elements of a capture, and whatever is shared, scoped or left out, an element
\* that is given back what was hoisted (apply_style_defaults) has the styles that it would
\* have been written with by itself.
THEOREM HoistingLossless ==
  ASSUME NEW V, NEW styles \in Seq(UNION {[P -> V] : P \in SUBSET DOMAIN Category}),
         NEW i \in DOMAIN styles, NEW cfg, NEW globals
  PROVE  OrElse(Unhoisted(styles[i], cfg, globals, Hoisted(styles, cfg)), Hoisted(styles, cfg))
           = Unhoisted(styles[i], cfg, globals, Empty)
<1> DEFINE css == styles[i]
           all == StylesToJson(css, cfg, globals)
           d == Hoisted(styles, cfg)
<1>1. css = [p \in DOMAIN css |-> css[p]]
  <2>1. PICK P \in SUBSET DOMAIN Category : css \in [P -> V]
    OBVIOUS
  <2> QED  BY <2>1
<1>2. all = [k \in DOMAIN all |-> all[k]]
  BY DEF StylesToJson, Keyed
<1>3. Within(d, all)
  <2>1. CASE cfg.compact /\ cfg.grouped /\ Len(styles) >= 2
    <3> DEFINE objects == [j \in DOMAIN styles |-> Keyed(Constant(styles[j]), cfg)]
    <3>1. d = Shared(objects)
      BY <2>1 DEF Hoisted
    <3>2. objects # << >> /\ i \in DOMAIN objects /\ objects[i] = Keyed(Constant(css), cfg)
      OBVIOUS
    <3> HIDE DEF objects
    <3>3. Within(d, Keyed(Constant(css), cfg))
      BY <3>1, <3>2, SharedWithin
    <3>4. all = Keyed(OrElse(CompactGroup(css), ScopeVariables(css, globals)), cfg)
      BY <2>1 DEF StylesToJson
    <3> HIDE DEF d, all, css
    <3>5. Within(Keyed(Constant(css), cfg), all)
      BY <1>1, <2>1, <3>4, GroupWithin, KeyedWithin
    <3> QED  BY <3>3, <3>5 DEF Within
  <2>2. CASE ~ (cfg.compact /\ cfg.grouped /\ Len(styles) >= 2)
    <3>1. d = Empty
      BY <2>2 DEF Hoisted
    <3> QED  BY <3>1 DEF Within, Empty
  <2> QED  BY <2>1, <2>2
<1> HIDE DEF all, d, css
<1>4. CASE cfg.compact /\ cfg.grouped
  <2>1. Within(Empty, all)
    BY DEF Within, Empty
  <2>2. OrElse(DedupStyles(all, d), d) = all
    BY <1>2, <1>3, Restored
  <2>3. DedupStyles(all, Empty) = all
    <3>1. DedupStyles(all, Empty) = [k \in DOMAIN all |-> all[k]]
      <4> DEFINE S == {k \in DOMAIN all : k \notin DOMAIN Empty \/ all[k] # Empty[k]}
      <4>1. DedupStyles(all, Empty) = [k \in DOMAIN all \cap S |-> all[k]]
        BY DEF DedupStyles, Only
      <4>2. DOMAIN all \cap S = DOMAIN all
        <5>1. \A k : k \notin DOMAIN Empty
          BY DEF Empty
        <5> QED  BY <5>1
      <4> HIDE DEF S
      <4> QED  BY <4>1, <4>2
    <3> QED  BY <1>2, <3>1
  <2>4. Unhoisted(css, cfg, globals, d) = DedupStyles(all, d)
    BY <1>4 DEF Unhoisted, all
  <2>5. Unhoisted(css, cfg, globals, Empty) = DedupStyles(all, Empty)
    BY <1>4 DEF Unhoisted, all
  <2> QED  BY <2>2, <2>3, <2>4, <2>5 DEF css, d
<1>5. CASE ~ (cfg.compact /\ cfg.grouped)
  <2>1. d = Empty
    BY <1>5 DEF Hoisted, d
  <2>2. Unhoisted(css, cfg, globals, Empty) = all
    BY <1>5 DEF Unhoisted, all
  <2>3. OrElse(all, Empty) = [k \in DOMAIN all |-> all[k]]
    BY DEF OrElse, Empty
  <2> QED  BY <1>2, <2>1, <2>2, <2>3 DEF css, d
<1> QED  BY <1>4, <1>5
-----------------------------------------------------------------------------
(* The sweep over the elements. *)

\* An element hides another that is compared with it, of which it covers half at least, and
\* over which it paints; p and q are their places in the order of the sweep.
Hides(page, order, p, q) ==
  LET i == order[IF p < q THEN p ELSE q]
      j == order[IF p < q THEN q ELSE p]
  IN  /\ p # q
      /\ ShareOf(page, i, j) # 0 /\ <<i, j>> \notin page.exempt
      /\ 2 * ShareOf(page, order[q], order[p]) >= Area(page.rect[order[q]])
      /\ <<order[p], order[q]>> \in page.above

\* Elements are numbered; some have a rectangle.
Laid(page) == \E n \in Nat : DOMAIN page.rect = 1..n

Boxes(page) == {i \in DOMAIN page.rect : page.rect[i] \in [1..4 -> Int]}

\* The covers that are told of are the largest of those that there are: hiding is a set of
\* pairs, of an element and one that it hides.
Largest(page, hiding, covered) ==
  /\ hiding \in SUBSET (Boxes(page) \X Boxes(page))
  /\ covered \in [DOMAIN page.rect -> [by : Nat, share : Int]]
  /\ \A b \in DOMAIN page.rect :
       /\ (\A a : <<a, b>> \notin hiding) => covered[b].by = 0
       /\ (\E a : <<a, b>> \in hiding) =>
            covered[b].by # 0 /\ <<covered[b].by, b>> \in hiding
            /\ covered[b].share = ShareOf(page, b, covered[b].by)
       /\ \A a : <<a, b>> \in hiding => ShareOf(page, b, a) <= covered[b].share

LEMMA ShareTyped ==
  ASSUME NEW page, Laid(page), NEW i \in Boxes(page), NEW j \in Boxes(page)
  PROVE  ShareOf(page, i, j) \in Int /\ Area(page.rect[i]) \in Int
<1> DEFINE r == page.rect[i]
           s == page.rect[j]
<1>1. r \in [1..4 -> Int] /\ s \in [1..4 -> Int]
  BY DEF Boxes
<1> HIDE DEF r, s
<1>2. r[1] \in Int /\ r[2] \in Int /\ r[3] \in Int /\ r[4] \in Int
  BY <1>1
<1>3. s[1] \in Int /\ s[2] \in Int /\ s[3] \in Int /\ s[4] \in Int
  BY <1>1
<1>4. Overlap(r[1], r[3], s[1], s[3]) \in Int /\ Overlap(r[2], r[4], s[2], s[4]) \in Int
  BY <1>2, <1>3 DEF Overlap, Nearest, Farthest
<1>5. Shares(r, s) \in Int /\ Area(r) \in Int
  BY <1>2, <1>4 DEF Shares, Area
<1> QED  BY <1>5 DEF ShareOf, r, s

\* Beyond an element's right edge nothing overlaps it.
LEMMA PassedShares ==
  ASSUME NEW page, Laid(page), NEW i \in Boxes(page), NEW j \in Boxes(page),
         Left(page, j) >= Right(page, i)
  PROVE  ShareOf(page, i, j) = 0
<1> DEFINE r == page.rect[i]
           s == page.rect[j]
<1>1. r \in [1..4 -> Int] /\ s \in [1..4 -> Int]
  BY DEF Boxes
<1>0. s[1] >= r[1] + r[3]
  BY DEF Left, Right
<1> HIDE DEF r, s
<1>2. r[1] \in Int /\ r[2] \in Int /\ r[3] \in Int /\ r[4] \in Int
  BY <1>1
<1>3. s[1] \in Int /\ s[2] \in Int /\ s[3] \in Int /\ s[4] \in Int
  BY <1>1
<1>4. Overlap(r[1], r[3], s[1], s[3]) = 0 /\ Overlap(r[2], r[4], s[2], s[4]) \in Int
  <2>1. Nearest(r[1] + r[3], s[1] + s[3]) \in Int /\ Nearest(r[1] + r[3], s[1] + s[3]) <= r[1] + r[3]
    BY <1>2, <1>3 DEF Nearest
  <2>2. Farthest(r[1], s[1]) \in Int /\ Farthest(r[1], s[1]) >= s[1]
    BY <1>2, <1>3 DEF Farthest
  <2>3. Nearest(r[1] + r[3], s[1] + s[3]) - Farthest(r[1], s[1]) <= 0
    BY <1>0, <1>2, <1>3, <2>1, <2>2
  <2>4. Overlap(r[1], r[3], s[1], s[3]) = 0
    BY <2>1, <2>2, <2>3 DEF Overlap, Farthest
  <2>5. Overlap(r[2], r[4], s[2], s[4]) \in Int
    BY <1>2, <1>3 DEF Overlap, Nearest, Farthest
  <2> QED  BY <2>4, <2>5
<1>5. Shares(r, s) = 0
  BY <1>4 DEF Shares
<1> QED  BY <1>5 DEF ShareOf, r, s

LEMMA CoverKeeps ==
  ASSUME NEW page, Laid(page), NEW hiding, NEW covered, Largest(page, hiding, covered),
         NEW b \in Boxes(page), NEW a \in Boxes(page)
  PROVE  Largest(page,
                 hiding \cup (IF 2 * ShareOf(page, b, a) >= Area(page.rect[b]) /\ <<a, b>> \in page.above
                              THEN {<<a, b>>} ELSE {}),
                 Cover(page, covered, b, a))
<1> DEFINE share == ShareOf(page, b, a)
           ok == 2 * share >= Area(page.rect[b]) /\ <<a, b>> \in page.above
           h == hiding \cup {<<a, b>>}
           e == [by |-> a, share |-> share]
           D == DOMAIN page.rect
           B == Boxes(page)
<1>0. b \in D /\ a \in D /\ b \in B /\ a \in B
  BY DEF Boxes
<1>1. a \in Nat /\ a # 0 /\ share \in Int
  <2>1. PICK n \in Nat : DOMAIN page.rect = 1..n
    BY DEF Laid
  <2>2. a \in Nat /\ a # 0
    BY <1>0, <2>1
  <2> QED  BY <1>0, <2>2, ShareTyped
<1>2. covered \in [D -> [by : Nat, share : Int]]
  BY DEF Largest
<1>5. hiding \in SUBSET (B \X B) /\ h \in SUBSET (B \X B)
  BY DEF Largest
<1>6. \A x, y \in B : ShareOf(page, y, x) \in Int
  BY ShareTyped
<1>7. \A y \in D : covered[y].by \in Nat /\ covered[y].share \in Int
  BY <1>2
<1>3. CASE ~ ok
  <2>1. Cover(page, covered, b, a) = covered
    BY <1>3 DEF Cover
  <2>2. hiding \cup (IF ok THEN {<<a, b>>} ELSE {}) = hiding
    BY <1>3
  <2> QED  BY <2>1, <2>2
<1>4. CASE ok
  <2>1. Cover(page, covered, b, a) = RecordCover(covered, b, a, share)
    BY <1>4 DEF Cover
  <2>2. hiding \cup (IF ok THEN {<<a, b>>} ELSE {}) = h
    BY <1>4
  <2>0. SUFFICES Largest(page, h, RecordCover(covered, b, a, share))
    BY <2>1, <2>2
  <2> HIDE DEF share, ok, D, B
  <2>3. \A x, y : <<x, y>> \in h <=> <<x, y>> \in hiding \/ (x = a /\ y = b)
    OBVIOUS
  <2> HIDE DEF h
  <2>4. CASE covered[b].by # 0 /\ covered[b].share >= share
    <3>1. RecordCover(covered, b, a, share) = covered
      BY <2>4 DEF RecordCover
    <3>2. \E x : <<x, b>> \in hiding
      BY <1>0, <2>4 DEF Largest, D
    <3>3. \A y \in D : /\ (\A x : <<x, y>> \notin h) => covered[y].by = 0
                       /\ (\E x : <<x, y>> \in h) => \E x : <<x, y>> \in hiding
      BY <2>3, <3>2 DEF Largest, D
    <3>4. \A y \in D : \A x : <<x, y>> \in h => ShareOf(page, y, x) <= covered[y].share
      BY <2>3, <2>4, <1>1, <1>2 DEF Largest, D, share
    <3>6. \A y \in D : (\E x : <<x, y>> \in h) =>
            covered[y].by # 0 /\ <<covered[y].by, y>> \in h
            /\ covered[y].share = ShareOf(page, y, covered[y].by)
      BY <2>3, <3>3 DEF Largest, D
    <3>5. Largest(page, h, covered)
      BY <1>2, <1>5, <3>3, <3>4, <3>6 DEF Largest, D, B
    <3> QED  BY <3>1, <3>5
  <2>5. CASE ~ (covered[b].by # 0 /\ covered[b].share >= share)
    <3> DEFINE c == [covered EXCEPT ![b] = e]
    <3>1. RecordCover(covered, b, a, share) = c
      BY <2>5 DEF RecordCover
    <3>2. c \in [D -> [by : Nat, share : Int]]
      BY <1>1, <1>2
    <3>3. /\ c[b].by = a /\ c[b].share = share
          /\ \A y \in D : y # b => c[y] = covered[y]
      BY <1>0, <1>2
    <3> HIDE DEF c, e
    <3>4. \A x : <<x, b>> \in hiding => ShareOf(page, b, x) <= share
      <4>1. TAKE x
      <4>2. SUFFICES ASSUME <<x, b>> \in hiding PROVE ShareOf(page, b, x) <= share
        OBVIOUS
      <4>3. covered[b].by # 0 /\ covered[b].share = ShareOf(page, b, covered[b].by)
            /\ ShareOf(page, b, x) <= covered[b].share
        BY <1>0, <4>2 DEF Largest, D
      <4>4. ~ (covered[b].share >= share)
        BY <2>5, <4>3
      <4>5. covered[b].share \in Int
        BY <1>0, <1>7
      <4>6. ShareOf(page, b, x) \in Int
        BY <1>5, <1>6, <4>2
      <4> QED  BY <1>1, <4>3, <4>4, <4>5, <4>6
    <3>6. \A y \in D : (\A x : <<x, y>> \notin h) => c[y].by = 0
      <4>1. TAKE y \in D
      <4>2. CASE y = b
        BY <2>3, <4>2
      <4>3. CASE y # b
        <5>1. (\A x : <<x, y>> \notin h) => \A x : <<x, y>> \notin hiding
          BY <2>3
        <5>2. (\A x : <<x, y>> \notin hiding) => covered[y].by = 0
          BY DEF Largest, D
        <5> QED  BY <3>3, <4>3, <5>1, <5>2
      <4> QED  BY <4>2, <4>3
    <3>7. \A y \in D : (\E x : <<x, y>> \in h) =>
            c[y].by # 0 /\ <<c[y].by, y>> \in h /\ c[y].share = ShareOf(page, y, c[y].by)
      <4>1. TAKE y \in D
      <4>2. CASE y = b
        BY <1>1, <2>3, <3>3, <4>2 DEF share
      <4>3. CASE y # b
        BY <2>3, <3>3, <4>3 DEF Largest, D
      <4> QED  BY <4>2, <4>3
    <3>8. \A y \in D : \A x : <<x, y>> \in h => ShareOf(page, y, x) <= c[y].share
      <4>1. TAKE y \in D
      <4>2. CASE y = b
        BY <1>1, <2>3, <3>3, <3>4, <4>2 DEF share
      <4>3. CASE y # b
        BY <2>3, <3>3, <4>3 DEF Largest, D
      <4> QED  BY <4>2, <4>3
    <3>5. Largest(page, h, c)
      BY <1>5, <3>2, <3>6, <3>7, <3>8 DEF Largest, D, B
    <3> QED  BY <3>1, <3>5
  <2> QED  BY <2>4, <2>5
<1> QED  BY <1>3, <1>4

\* What a comparison adds to the pairs.
Compared(page, i, j) ==
  IF ShareOf(page, i, j) = 0 \/ <<i, j>> \in page.exempt THEN {}
  ELSE {x \in {<<j, i>>, <<i, j>>} :
          2 * ShareOf(page, x[2], x[1]) >= Area(page.rect[x[2]]) /\ x \in page.above}

LEMMA PairKeeps ==
  ASSUME NEW page, Laid(page), NEW hiding, NEW covered, Largest(page, hiding, covered),
         NEW i \in Boxes(page), NEW j \in Boxes(page)
  PROVE  Largest(page, hiding \cup Compared(page, i, j), Pair(page, covered, i, j))
<1>1. CASE ShareOf(page, i, j) = 0 \/ <<i, j>> \in page.exempt
  <2>1. Pair(page, covered, i, j) = covered /\ Compared(page, i, j) = {}
    BY <1>1 DEF Pair, Compared
  <2> QED  BY <2>1
<1>2. CASE ~ (ShareOf(page, i, j) = 0 \/ <<i, j>> \in page.exempt)
  <2> DEFINE one == IF 2 * ShareOf(page, i, j) >= Area(page.rect[i]) /\ <<j, i>> \in page.above
                    THEN {<<j, i>>} ELSE {}
             two == IF 2 * ShareOf(page, j, i) >= Area(page.rect[j]) /\ <<i, j>> \in page.above
                    THEN {<<i, j>>} ELSE {}
  <2>1. Largest(page, hiding \cup one, Cover(page, covered, i, j))
    BY CoverKeeps
  <2>2. Largest(page, (hiding \cup one) \cup two, Cover(page, Cover(page, covered, i, j), j, i))
    <3> HIDE DEF one
    <3> QED  BY <2>1, CoverKeeps
  <2>3. Pair(page, covered, i, j) = Cover(page, Cover(page, covered, i, j), j, i)
    BY <1>2 DEF Pair
  <2>4. Compared(page, i, j) = one \cup two
    BY <1>2 DEF Compared
  <2>5. (hiding \cup one) \cup two = hiding \cup Compared(page, i, j)
    BY <2>4
  <2> HIDE DEF one, two
  <2> QED  BY <2>2, <2>3, <2>5
<1> QED  BY <1>1, <1>2

\* An order of the sweep: elements from left to right, each once.
Permuted(page, order) ==
  /\ order \in Seq(Boxes(page))
  /\ \A p, q \in DOMAIN order : order[p] = order[q] => p = q
  /\ \A p, q \in DOMAIN order : p < q => Left(page, order[p]) <= Left(page, order[q])

\* The pairs of the first k places with all the later ones, and of the next place up to the n-th.
Found(page, order, k, n) ==
  {x \in Boxes(page) \X Boxes(page) :
     \E p, q \in DOMAIN order :
       /\ x = <<order[p], order[q]>> /\ Hides(page, order, p, q)
       /\ \/ p < k \/ q < k
          \/ p = k /\ q <= n
          \/ q = k /\ p <= n}

LEMMA ComparedHide ==
  ASSUME NEW page, Laid(page), NEW order, Permuted(page, order),
         NEW k \in DOMAIN order, NEW n \in DOMAIN order, k < n
  PROVE  Compared(page, order[k], order[n]) =
           {x \in Boxes(page) \X Boxes(page) :
              \/ x = <<order[k], order[n]>> /\ Hides(page, order, k, n)
              \/ x = <<order[n], order[k]>> /\ Hides(page, order, n, k)}
<1> DEFINE i == order[k]
           j == order[n]
<1>1. i \in Boxes(page) /\ j \in Boxes(page)
  BY DEF Permuted
<1>2. k \in Int /\ n \in Int /\ k # n /\ ~ (n < k)
  BY DEF Permuted
<1>3. Hides(page, order, k, n) <=>
        /\ ShareOf(page, i, j) # 0 /\ <<i, j>> \notin page.exempt
        /\ 2 * ShareOf(page, j, i) >= Area(page.rect[j]) /\ <<i, j>> \in page.above
  BY <1>2 DEF Hides
<1>4. Hides(page, order, n, k) <=>
        /\ ShareOf(page, i, j) # 0 /\ <<i, j>> \notin page.exempt
        /\ 2 * ShareOf(page, i, j) >= Area(page.rect[i]) /\ <<j, i>> \in page.above
  BY <1>2 DEF Hides
<1> HIDE DEF i, j
<1>5. \A x : x \in Compared(page, i, j) <=>
               \/ x = <<i, j>> /\ Hides(page, order, k, n)
               \/ x = <<j, i>> /\ Hides(page, order, n, k)
  BY <1>3, <1>4 DEF Compared
<1> QED  BY <1>1, <1>5 DEF i, j

LEMMA FoundGrows ==
  ASSUME NEW page, Laid(page), NEW order, Permuted(page, order),
         NEW k \in DOMAIN order, NEW n \in DOMAIN order
  PROVE  /\ n <= k => Found(page, order, k, n) = Found(page, order, k, n - 1)
         /\ k < n => Found(page, order, k, n) =
                       Found(page, order, k, n - 1) \cup Compared(page, order[k], order[n])
<1> DEFINE D == Boxes(page)
           new(x) == \/ x = <<order[k], order[n]>> /\ Hides(page, order, k, n)
                     \/ x = <<order[n], order[k]>> /\ Hides(page, order, n, k)
<1>1. k \in Nat /\ n \in Nat /\ \A p \in DOMAIN order : p \in Nat
  BY DEF Permuted
<1>2. \A p : ~ Hides(page, order, p, p)
  BY DEF Hides
<1>3. \A p \in DOMAIN order : p <= n <=> p <= n - 1 \/ p = n
  BY <1>1
<1>4. CASE n <= k
  <2>1. \A p, q \in DOMAIN order : Hides(page, order, p, q) =>
          ((p < k \/ q < k \/ (p = k /\ q <= n) \/ (q = k /\ p <= n))
            <=> (p < k \/ q < k \/ (p = k /\ q <= n - 1) \/ (q = k /\ p <= n - 1)))
    BY <1>1, <1>2, <1>4
  <2> QED  BY <1>1, <1>4, <2>1 DEF Found
<1>5. CASE k < n
  <2>1. \A x \in D \X D : x \in Found(page, order, k, n) <=> x \in Found(page, order, k, n - 1) \/ new(x)
    BY <1>1, <1>3, <1>5 DEF Found
  <2>2. Compared(page, order[k], order[n]) = {x \in D \X D : new(x)}
    BY <1>5, ComparedHide
  <2>3. Found(page, order, k, n) \in SUBSET (D \X D) /\ Found(page, order, k, n - 1) \in SUBSET (D \X D)
    BY DEF Found
  <2> HIDE DEF new, D
  <2> QED  BY <1>1, <1>5, <2>1, <2>2, <2>3
<1> QED  BY <1>1, <1>4, <1>5

Covers(page) == [DOMAIN page.rect -> [by : Nat, share : Int]]

LEMMA PairTyped ==
  ASSUME NEW page, Laid(page), NEW i \in Boxes(page), NEW j \in Boxes(page),
         NEW covered \in Covers(page)
  PROVE  Pair(page, covered, i, j) \in Covers(page)
<1>1. ASSUME NEW c \in Covers(page), NEW b \in Boxes(page), NEW a \in Boxes(page)
      PROVE  Cover(page, c, b, a) \in Covers(page)
  <2> DEFINE e == [by |-> a, share |-> ShareOf(page, b, a)]
  <2>1. PICK n \in Nat : DOMAIN page.rect = 1..n
    BY DEF Laid
  <2>2. a \in Nat
    BY <2>1 DEF Boxes
  <2>3. e \in [by : Nat, share : Int]
    BY <2>2, ShareTyped
  <2>4. Cover(page, c, b, a) = c \/ Cover(page, c, b, a) = [c EXCEPT ![b] = e]
    BY DEF Cover, RecordCover
  <2> HIDE DEF e
  <2> QED  BY <2>3, <2>4 DEF Covers
<1>2. Cover(page, Cover(page, covered, i, j), j, i) \in Covers(page)
  BY <1>1
<1> QED  BY <1>2 DEF Pair

LEMMA SweepFromKeeps ==
  ASSUME NEW page, Laid(page), NEW order, Permuted(page, order), NEW k \in DOMAIN order,
         NEW covered \in Covers(page)
  PROVE  /\ SweepFrom(page, order, k, covered) \in Covers(page)
         /\ Largest(page, Found(page, order, k, 0), covered) =>
              Largest(page, Found(page, order, k + 1, 0), SweepFrom(page, order, k, covered))
<1> DEFINE len == Len(order)
           S == Covers(page)
           skipped(n) == n <= k \/ \E m \in (k + 1)..n : Passed(page, order[k], order[m])
           next(n, c) == IF skipped(n) THEN c ELSE Pair(page, c, order[k], order[n])
           step == [n \in 1..len |-> [c \in S |-> next(n, c)]]
           before == Largest(page, Found(page, order, k, 0), covered)
           P == {x \in Nat \X S : before => Largest(page, Found(page, order, k, x[1]), x[2])}
           Rec(h) == h = [n \in 0..len |-> IF n = 0 THEN covered
                                           ELSE IF skipped(n) THEN h[n - 1]
                                           ELSE Pair(page, h[n - 1], order[k], order[n])]
           g == CHOOSE h : Rec(h)
<1>1. len \in Nat /\ DOMAIN order = 1..len /\ \A n \in 1..len : order[n] \in Boxes(page)
  BY DEF Permuted
<1>2. SweepFrom(page, order, k, covered) = g[len]
  BY DEF SweepFrom
<1> HIDE DEF len
<1>3. covered \in S
  OBVIOUS
<1>4. ASSUME NEW n \in 1..len, NEW c \in S PROVE next(n, c) \in S
  <2>1. Pair(page, c, order[k], order[n]) \in S
    BY <1>1, PairTyped
  <2> HIDE DEF S, skipped
  <2> QED  BY <2>1
<1>5. step \in [1..len -> [S -> S]]
  <2> HIDE DEF next, S
  <2> QED  BY <1>4
<1>6. <<0, covered>> \in P
  <2> HIDE DEF S
  <2> QED  BY <1>3
<1>7. ASSUME NEW n \in 1..len, NEW c \in S, Largest(page, Found(page, order, k, n - 1), c)
      PROVE  Largest(page, Found(page, order, k, n), next(n, c))
  <2>0. n \in DOMAIN order /\ k \in Nat /\ n \in Nat /\ k \in 1..len
    BY <1>1
  <2>1. CASE n <= k
    <3>1. next(n, c) = c
      BY <2>1
    <3> HIDE DEF next, S
    <3> QED  BY <1>7, <2>0, <2>1, <3>1, FoundGrows
  <2>2. CASE k < n /\ skipped(n)
    <3>1. next(n, c) = c
      BY <2>2
    <3>2. PICK m \in (k + 1)..n : Passed(page, order[k], order[m])
      BY <2>0, <2>2
    <3>3. m \in DOMAIN order /\ m \in Nat /\ m <= n
      BY <1>1, <2>0
    <3> HIDE DEF next, skipped, S
    <3>4. Left(page, order[m]) <= Left(page, order[n])
      <4>1. CASE m = n
        <5>1. Left(page, order[n]) \in Int
          <6>1. page.rect[order[n]] \in [1..4 -> Int]
            BY <1>1 DEF Boxes
          <6> QED  BY <6>1 DEF Left
        <5> QED  BY <4>1, <5>1
      <4>2. CASE m < n
        BY <2>0, <3>3, <4>2 DEF Permuted
      <4> QED  BY <2>0, <3>3, <4>1, <4>2
    <3>5. Left(page, order[n]) >= Right(page, order[k])
      <4>1. /\ page.rect[order[n]] \in [1..4 -> Int] /\ page.rect[order[m]] \in [1..4 -> Int]
            /\ page.rect[order[k]] \in [1..4 -> Int]
        BY <1>1, <2>0, <3>3 DEF Boxes
      <4>2. Left(page, order[n]) \in Int /\ Left(page, order[m]) \in Int /\ Right(page, order[k]) \in Int
        BY <4>1 DEF Left, Right
      <4> QED  BY <3>2, <3>4, <4>2 DEF Passed
    <3>6. ShareOf(page, order[k], order[n]) = 0
      BY <1>1, <2>0, <3>5, PassedShares
    <3>7. Compared(page, order[k], order[n]) = {}
      BY <3>6 DEF Compared
    <3>8. Found(page, order, k, n) = Found(page, order, k, n - 1)
      <4>1. Found(page, order, k, n) = Found(page, order, k, n - 1) \cup Compared(page, order[k], order[n])
        BY <2>0, <2>2, FoundGrows
      <4> QED  BY <3>7, <4>1
    <3> QED  BY <1>7, <3>1, <3>8
  <2>3. CASE k < n /\ ~ skipped(n)
    <3>1. next(n, c) = Pair(page, c, order[k], order[n])
      BY <2>3
    <3>2. Found(page, order, k, n) = Found(page, order, k, n - 1) \cup Compared(page, order[k], order[n])
      BY <2>0, <2>3, FoundGrows
    <3> HIDE DEF next, skipped, S
    <3> QED  BY <1>1, <1>7, <2>0, <3>1, <3>2, PairKeeps
  <2>4. n <= k \/ k < n
    BY <2>0
  <2> HIDE DEF skipped, next, S
  <2> QED  BY <2>1, <2>2, <2>3, <2>4
<1>8. Rec(g)
  <2> HIDE DEF skipped, S
  <2>1. PICK f \in [0..len -> S] : f[0] = covered /\ Stepwise(f, len, step)
    <3> HIDE DEF step
    <3> QED  BY <1>1, <1>3, <1>5, FoldExists
  <2>2. \A n \in 1..len : f[n] = next(n, f[n - 1])
    <3>1. TAKE n \in 1..len
    <3>2. n - 1 \in 0..len
      BY <1>1
    <3> QED  BY <2>1, <3>2 DEF Stepwise
  <2>3. Rec(f)
    <3>1. \A n \in 0..len : f[n] = IF n = 0 THEN covered
                                   ELSE IF skipped(n) THEN f[n - 1]
                                   ELSE Pair(page, f[n - 1], order[k], order[n])
      BY <1>1, <2>1, <2>2
    <3>2. f = [n \in 0..len |-> f[n]]
      OBVIOUS
    <3> QED  BY <3>1, <3>2, Zenon
  <2> QED  BY <2>3
<1>9. g[0] = covered /\ \A n \in 1..len : g[n] = next(n, g[n - 1])
  <2> HIDE DEF g, skipped
  <2> QED  BY <1>1, <1>8
<1> HIDE DEF g, next, skipped, S, P, before
<1>10. \A n \in 1..len : <<n - 1, g[n - 1]>> \in P => <<n, g[n]>> \in P
  <2>1. ASSUME NEW n \in 1..len, <<n - 1, g[n - 1]>> \in P PROVE <<n, g[n]>> \in P
    <3>1. g[n - 1] \in S /\ (before => Largest(page, Found(page, order, k, n - 1), g[n - 1]))
      BY <2>1 DEF P
    <3>2. g[n] \in S
      BY <1>4, <1>9, <3>1
    <3>3. before => Largest(page, Found(page, order, k, n), g[n])
      BY <1>7, <1>9, <3>1
    <3>4. n \in Nat
      BY <1>1
    <3> QED  BY <3>2, <3>3, <3>4 DEF P
  <2> QED  BY <2>1
<1>11. <<len, g[len]>> \in P
  BY <1>1, <1>6, <1>9, <1>10, Along
<1>12. Found(page, order, k, len) = Found(page, order, k + 1, 0)
  <2>1. k \in Nat /\ \A p \in DOMAIN order : p \in Nat /\ p <= len /\ ~ (p <= 0)
    BY <1>1
  <2>2. \A p, q \in DOMAIN order :
          (p < k \/ q < k \/ (p = k /\ q <= len) \/ (q = k /\ p <= len))
            <=> (p < k + 1 \/ q < k + 1 \/ (p = k + 1 /\ q <= 0) \/ (q = k + 1 /\ p <= 0))
    BY <1>1, <2>1
  <2> QED  BY <2>2 DEF Found
<1> QED  BY <1>2, <1>11, <1>12 DEF P, S, before

\* The pairs of an element and one that it hides.
Hiding(page, order) ==
  {x \in Boxes(page) \X Boxes(page) :
     \E p, q \in DOMAIN order : x = <<order[p], order[q]>> /\ Hides(page, order, p, q)}

\* Whatever the elements and wherever they are, the sweep (check_occlusion), which leaves out
\* every pair after the first element past the right edge, tells of the covers that comparing
\* each with each would: an element is covered if another hides it, and the cover told of is
\* the largest.
THEOREM SweepPairwise ==
  ASSUME NEW page, Laid(page), NEW order, Permuted(page, order)
  PROVE  Largest(page, Hiding(page, order), Sweep(page, order))
<1> DEFINE len == Len(order)
           S == Covers(page)
           start == [i \in DOMAIN page.rect |-> [by |-> 0, share |-> 0]]
           step == [k \in 1..len |-> [c \in S |-> SweepFrom(page, order, k, c)]]
           Rec(h) == h = [k \in 0..len |-> IF k = 0 THEN start ELSE SweepFrom(page, order, k, h[k - 1])]
           g == CHOOSE h : Rec(h)
<1>1. len \in Nat /\ DOMAIN order = 1..len
  BY DEF Permuted
<1>2. Sweep(page, order) = g[len]
  BY DEF Sweep
<1>3. start \in S /\ Largest(page, Found(page, order, 1, 0), start)
  <2>1. start \in S
    BY DEF Covers
  <2>2. Found(page, order, 1, 0) = {}
    BY <1>1 DEF Found
  <2>3. \A b \in DOMAIN page.rect : start[b].by = 0
    OBVIOUS
  <2> HIDE DEF start
  <2> QED  BY <2>1, <2>2, <2>3 DEF Largest, Covers
<1> DEFINE P == {x \in Nat \X S : Largest(page, Found(page, order, x[1] + 1, 0), x[2])}
<1> HIDE DEF len, S, start
<1>4. <<0, start>> \in P
  BY <1>3
<1>5. step \in [1..len -> [S -> S]]
  BY <1>1, SweepFromKeeps DEF S
<1>6. Rec(g)
  <2>1. PICK f \in [0..len -> S] : f[0] = start /\ Stepwise(f, len, step)
    <3> HIDE DEF step
    <3> QED  BY <1>1, <1>3, <1>5, FoldExists
  <2>2. \A k \in 1..len : f[k] = SweepFrom(page, order, k, f[k - 1])
    <3>1. TAKE k \in 1..len
    <3>2. k - 1 \in 0..len
      BY <1>1
    <3> QED  BY <2>1, <3>2 DEF Stepwise
  <2>3. Rec(f)
    <3>1. \A k \in 0..len : f[k] = IF k = 0 THEN start ELSE SweepFrom(page, order, k, f[k - 1])
      BY <1>1, <2>1, <2>2
    <3>2. f = [k \in 0..len |-> f[k]]
      OBVIOUS
    <3> QED  BY <3>1, <3>2, Zenon
  <2> QED  BY <2>3
<1>7. g[0] = start /\ \A k \in 1..len : g[k] = SweepFrom(page, order, k, g[k - 1])
  <2> HIDE DEF g
  <2> QED  BY <1>1, <1>6
<1> HIDE DEF g, P
<1>8. \A k \in 1..len : <<k - 1, g[k - 1]>> \in P => <<k, g[k]>> \in P
  <2>1. ASSUME NEW k \in 1..len, <<k - 1, g[k - 1]>> \in P PROVE <<k, g[k]>> \in P
    <3>1. k \in Nat /\ k \in DOMAIN order /\ (k - 1) + 1 = k
      BY <1>1
    <3>2. g[k - 1] \in S /\ Largest(page, Found(page, order, k, 0), g[k - 1])
      BY <2>1, <3>1 DEF P
    <3>3. g[k] \in S /\ Largest(page, Found(page, order, k + 1, 0), g[k])
      BY <1>7, <3>1, <3>2, SweepFromKeeps DEF S
    <3> QED  BY <3>1, <3>3 DEF P
  <2> QED  BY <2>1
<1>9. <<len, g[len]>> \in P
  BY <1>1, <1>4, <1>7, <1>8, Along
<1>10. Found(page, order, len + 1, 0) = Hiding(page, order)
  <2>1. \A p \in DOMAIN order : p < len + 1
    BY <1>1
  <2> QED  BY <2>1 DEF Found, Hiding
<1> QED  BY <1>2, <1>9, <1>10 DEF P
-----------------------------------------------------------------------------
(* The backgrounds behind them. *)

\* One layer over what is below: the script's branches are the tree walk's.
LEMMA LayersAgree ==
  ASSUME NEW css, NEW below
  PROVE  DOM!ResolveBackground(css, below) =
           IF DOM!HasImage(css) THEN DOM!Image
           ELSE IF DOM!Css(css, "background-color").u = "opaque" THEN DOM!Solid(DOM!Css(css, "background-color").n)
           ELSE IF DOM!Css(css, "background-color").u = "translucent" /\ below.kind = "solid"
           THEN DOM!Solid(DOM!Blend(DOM!Css(css, "background-color").n, below.lum)) ELSE below
<1> DEFINE bg == DOM!Css(css, "background-color")
           image == DOM!Image
           over == DOM!Solid(bg.n)
           mix == DOM!Solid(DOM!Blend(bg.n, below.lum))
           has == DOM!HasImage(css)
           opaque == bg.u = "opaque"
           through == bg.u = "translucent" /\ below.kind = "solid"
<1>1. opaque => bg.u # "translucent"
  OBVIOUS
<1>2. CASE has
  BY <1>2 DEF DOM!ResolveBackground
<1>3. CASE ~ has /\ opaque
  BY <1>3 DEF DOM!ResolveBackground
<1>4. CASE ~ has /\ ~ opaque /\ through
  BY <1>4 DEF DOM!ResolveBackground
<1>5. CASE ~ has /\ ~ opaque /\ ~ through
  BY <1>5 DEF DOM!ResolveBackground
<1> QED  BY <1>2, <1>3, <1>4, <1>5

\* The layers of the first n styles over what is behind them, from the last one down.
Layered(styles, n, seed, h) ==
  h = [k \in 1..(n + 1) |-> IF k > n THEN seed ELSE DOM!ResolveBackground(styles[k], h[k + 1])]

LEMMA LayeredExists ==
  ASSUME NEW styles, NEW n \in Nat, NEW seed
  PROVE  \E h : Layered(styles, n, seed, h)
<1> DEFINE Down(m, e) == e = [j \in 0..m |-> IF j = 0 THEN seed
                                            ELSE DOM!ResolveBackground(styles[n + 1 - j], e[j - 1])]
           P == {m \in Nat : \E e : Down(m, e)}
<1>1. 0 \in P
  <2> DEFINE e == [j \in 0..0 |-> seed]
  <2>1. \A j \in 0..0 : e[j] = IF j = 0 THEN seed ELSE DOM!ResolveBackground(styles[n + 1 - j], e[j - 1])
    OBVIOUS
  <2>2. e = [j \in 0..0 |-> e[j]]
    OBVIOUS
  <2> HIDE DEF e
  <2>3. Down(0, e)
    BY <2>1, <2>2
  <2> QED  BY <2>3
<1>2. ASSUME NEW m \in P PROVE m + 1 \in P
  <2>1. m \in Nat
    OBVIOUS
  <2>2. PICK e : Down(m, e)
    OBVIOUS
  <2> DEFINE d == [j \in 0..(m + 1) |-> IF j = m + 1 THEN DOM!ResolveBackground(styles[n + 1 - j], e[m]) ELSE e[j]]
  <2>3. \A j \in 0..m : e[j] = IF j = 0 THEN seed ELSE DOM!ResolveBackground(styles[n + 1 - j], e[j - 1])
    BY <2>2
  <2>4. \A j \in 0..(m + 1) : d[j] = IF j = 0 THEN seed ELSE DOM!ResolveBackground(styles[n + 1 - j], d[j - 1])
    <3> SUFFICES ASSUME NEW j \in 0..(m + 1)
                 PROVE  d[j] = IF j = 0 THEN seed ELSE DOM!ResolveBackground(styles[n + 1 - j], d[j - 1])
      OBVIOUS
    <3>1. CASE j = m + 1
      <4>1. j # 0 /\ j - 1 = m /\ m \in 0..(m + 1) /\ m # m + 1
        BY <2>1, <3>1
      <4>2. d[j - 1] = e[m] /\ d[j] = DOM!ResolveBackground(styles[n + 1 - j], e[m])
        BY <3>1, <4>1
      <4> HIDE DEF d
      <4> QED  BY <4>1, <4>2
    <3>2. CASE j \in 0..m
      <4>1. j # m + 1 /\ d[j] = e[j]
        BY <2>1, <3>2
      <4>2. CASE j = 0
        BY <2>3, <3>2, <4>1, <4>2
      <4>3. CASE j # 0
        <5>1. j - 1 \in 0..(m + 1) /\ j - 1 # m + 1
          BY <2>1, <3>2, <4>3
        <5>2. d[j - 1] = e[j - 1]
          BY <5>1
        <5> HIDE DEF d
        <5> QED  BY <2>3, <3>2, <4>1, <4>3, <5>2
      <4> QED  BY <4>2, <4>3
    <3> QED  BY <2>1, <3>1, <3>2
  <2>5. d = [j \in 0..(m + 1) |-> d[j]]
    OBVIOUS
  <2> HIDE DEF d
  <2>6. Down(m + 1, d)
    BY <2>4, <2>5
  <2> QED  BY <2>1, <2>6
<1>3. P = Nat
  <2> HIDE DEF P
  <2> QED  BY <1>1, <1>2, NatInduct DEF P
<1>4. PICK e : Down(n, e)
  BY <1>3
<1> DEFINE h == [k \in 1..(n + 1) |-> e[n + 1 - k]]
<1>5. \A j \in 0..n : e[j] = IF j = 0 THEN seed ELSE DOM!ResolveBackground(styles[n + 1 - j], e[j - 1])
  BY <1>4
<1>6. \A k \in 1..(n + 1) : h[k] = IF k > n THEN seed ELSE DOM!ResolveBackground(styles[k], h[k + 1])
  <2> SUFFICES ASSUME NEW k \in 1..(n + 1)
               PROVE  h[k] = IF k > n THEN seed ELSE DOM!ResolveBackground(styles[k], h[k + 1])
    OBVIOUS
  <2>1. CASE k > n
    <3>1. h[k] = e[n + 1 - k] /\ n + 1 - k = 0 /\ 0 \in 0..n
      BY <2>1
    <3> HIDE DEF h
    <3> QED  BY <1>5, <2>1, <3>1
  <2>2. CASE ~ (k > n)
    <3>1. n + 1 - k \in 0..n /\ n + 1 - k # 0 /\ n + 1 - (n + 1 - k) = k
          /\ k + 1 \in 1..(n + 1) /\ (n + 1 - k) - 1 = n + 1 - (k + 1)
      BY <2>2
    <3>2. h[k] = e[n + 1 - k] /\ h[k + 1] = e[(n + 1 - k) - 1]
      BY <3>1
    <3> HIDE DEF h
    <3>3. e[n + 1 - k] = DOM!ResolveBackground(styles[k], e[(n + 1 - k) - 1])
      BY <1>5, <3>1
    <3> QED  BY <2>2, <3>2, <3>3
  <2> QED  BY <2>1, <2>2
<1>7. h = [k \in 1..(n + 1) |-> h[k]]
  OBVIOUS
<1> HIDE DEF h
<1>8. Layered(styles, n, seed, h)
  BY <1>6, <1>7 DEF Layered
<1> QED  BY <1>8

\* The script and the walk both lay the layers over one another.
LEMMA ScriptLayers ==
  ASSUME NEW styles, NEW canvas, Len(styles) \in Nat
  PROVE  \E h : Layered(styles, Len(styles), canvas, h) /\ DOM!EffectiveBackground(styles, canvas) = h[1]
<1> DEFINE layer(k, below) ==
             IF DOM!HasImage(styles[k]) THEN DOM!Image
             ELSE IF DOM!Css(styles[k], "background-color").u = "opaque"
             THEN DOM!Solid(DOM!Css(styles[k], "background-color").n)
             ELSE IF DOM!Css(styles[k], "background-color").u = "translucent" /\ below.kind = "solid"
             THEN DOM!Solid(DOM!Blend(DOM!Css(styles[k], "background-color").n, below.lum)) ELSE below
           Script(h) == h = [k \in 1..(Len(styles) + 1) |->
                               IF k > Len(styles) THEN canvas ELSE layer(k, h[k + 1])]
           walks(h) == Layered(styles, Len(styles), canvas, h)
<1>1. DOM!EffectiveBackground(styles, canvas) = (CHOOSE h : Script(h))[1]
  BY Zenon DEF DOM!EffectiveBackground
<1>3. \A k, below : DOM!ResolveBackground(styles[k], below) = layer(k, below)
  BY LayersAgree
<1> HIDE DEF layer
<1>4. \A h : Script(h) <=> walks(h)
  BY <1>3 DEF Layered
<1>6. \E h : walks(h)
  BY LayeredExists
<1> HIDE DEF Script, walks
<1>5. Script(CHOOSE h : Script(h))
  BY <1>4, <1>6
<1> QED  BY <1>1, <1>4, <1>5 DEF walks

LEMMA WalkLayers ==
  ASSUME NEW styles, NEW root \in Nat
  PROVE  \E h : Layered(styles, root, DOM!Unknown, h) /\ Resolved(styles, root) = h[1]
<1> DEFINE Walks(h) == h = [k \in 1..(root + 1) |->
                              IF k > root THEN DOM!Unknown ELSE DOM!ResolveBackground(styles[k], h[k + 1])]
<1>1. Resolved(styles, root) = (CHOOSE h : Walks(h))[1]
  BY Zenon DEF Resolved
<1>2. \E h : Walks(h)
  <2>1. PICK h : Layered(styles, root, DOM!Unknown, h)
    BY LayeredExists
  <2>2. Walks(h)
    BY <2>1 DEF Layered
  <2> QED  BY <2>2
<1> HIDE DEF Walks
<1>3. Walks(CHOOSE h : Walks(h))
  BY <1>2
<1> QED  BY <1>1, <1>3 DEF Walks, Layered

\* Over something unknown a layer is what it is over anything else, or unknown.
LEMMA LayerOverUnknown ==
  ASSUME NEW css, NEW below
  PROVE  \/ DOM!ResolveBackground(css, DOM!Unknown) = DOM!ResolveBackground(css, below)
         \/ DOM!ResolveBackground(css, DOM!Unknown) = DOM!Unknown
<1>1. DOM!Unknown.kind # "solid"
  BY DEF DOM!Unknown
<1>2. CASE DOM!HasImage(css)
  BY <1>2, LayersAgree
<1>3. CASE ~ DOM!HasImage(css) /\ DOM!Css(css, "background-color").u = "opaque"
  BY <1>3, LayersAgree
<1>4. CASE ~ DOM!HasImage(css) /\ DOM!Css(css, "background-color").u # "opaque"
  BY <1>1, <1>4, LayersAgree
<1> QED  BY <1>2, <1>3, <1>4

\* Layers that are the same from some point on are the same at the top.
LEMMA LayersMeet ==
  ASSUME NEW styles, NEW n \in Nat, NEW m \in Nat, NEW a, NEW b, NEW f, NEW g,
         Layered(styles, n, a, f), Layered(styles, m, b, g), m <= n,
         NEW from \in 1..(m + 1), f[from] = g[from]
  PROVE  f[1] = g[1]
<1>1. /\ \A k \in 1..n : f[k] = DOM!ResolveBackground(styles[k], f[k + 1])
      /\ \A k \in 1..m : g[k] = DOM!ResolveBackground(styles[k], g[k + 1])
  <2>1. \A k \in 1..n : k \in 1..(n + 1) /\ ~ (k > n)
    OBVIOUS
  <2>2. \A k \in 1..m : k \in 1..(m + 1) /\ ~ (k > m)
    OBVIOUS
  <2> QED  BY <2>1, <2>2 DEF Layered
<1> DEFINE P == {j \in Nat : j < from => f[from - j] = g[from - j]}
<1>2. 0 \in P
  OBVIOUS
<1>3. ASSUME NEW j \in P PROVE j + 1 \in P
  <2>1. SUFFICES ASSUME j + 1 < from PROVE f[from - (j + 1)] = g[from - (j + 1)]
    OBVIOUS
  <2> DEFINE k == from - (j + 1)
  <2>2. k \in 1..n /\ k \in 1..m /\ k + 1 = from - j /\ j < from
    BY <2>1
  <2>3. f[k + 1] = g[k + 1]
    BY <2>2
  <2> HIDE DEF k
  <2>4. f[k] = g[k]
    BY <1>1, <2>2, <2>3
  <2> QED  BY <2>4 DEF k
<1>4. P = Nat
  <2> HIDE DEF P
  <2> QED  BY <1>2, <1>3, NatInduct DEF P
<1>5. from - 1 \in P
  <2> HIDE DEF P
  <2> QED  BY <1>4
<1>6. from - 1 < from /\ from - (from - 1) = 1
  OBVIOUS
<1> QED  BY <1>5, <1>6

\* What is resolved without knowing what is behind is the same as with it, or nothing.
LEMMA LayersKnown ==
  ASSUME NEW styles, NEW n \in Nat, NEW m \in Nat, NEW a, NEW f, NEW g, m <= n,
         Layered(styles, n, a, f), Layered(styles, m, DOM!Unknown, g)
  PROVE  g[1] = f[1] \/ g[1] = DOM!Unknown
<1>1. /\ \A k \in 1..m : f[k] = DOM!ResolveBackground(styles[k], f[k + 1])
      /\ \A k \in 1..m : g[k] = DOM!ResolveBackground(styles[k], g[k + 1])
      /\ g[m + 1] = DOM!Unknown
  <2>1. \A k \in 1..m : k \in 1..(n + 1) /\ ~ (k > n) /\ k \in 1..(m + 1) /\ ~ (k > m)
    OBVIOUS
  <2>2. m + 1 \in 1..(m + 1) /\ m + 1 > m
    OBVIOUS
  <2> QED  BY <2>1, <2>2 DEF Layered
<1> DEFINE P == {j \in Nat : j <= m => \/ g[m + 1 - j] = f[m + 1 - j]
                                       \/ g[m + 1 - j] = DOM!Unknown}
<1>2. 0 \in P
  BY <1>1
<1>3. ASSUME NEW j \in P PROVE j + 1 \in P
  <2>1. SUFFICES ASSUME j + 1 <= m
                 PROVE  g[m + 1 - (j + 1)] = f[m + 1 - (j + 1)] \/ g[m + 1 - (j + 1)] = DOM!Unknown
    OBVIOUS
  <2> DEFINE k == m + 1 - (j + 1)
  <2>2. k \in 1..m /\ k + 1 = m + 1 - j /\ j <= m
    BY <2>1
  <2>3. g[k + 1] = f[k + 1] \/ g[k + 1] = DOM!Unknown
    BY <2>2
  <2> HIDE DEF k
  <2>4. g[k] = f[k] \/ g[k] = DOM!Unknown
    <3>1. CASE g[k + 1] = f[k + 1]
      BY <1>1, <2>2, <3>1
    <3>2. CASE g[k + 1] = DOM!Unknown
      BY <1>1, <2>2, <3>2, LayerOverUnknown
    <3> QED  BY <2>3, <3>1, <3>2
  <2> QED  BY <2>4 DEF k
<1>4. P = Nat
  <2> HIDE DEF P
  <2> QED  BY <1>2, <1>3, NatInduct DEF P
<1>5. m \in P
  <2> HIDE DEF P
  <2> QED  BY <1>4
<1>6. m <= m /\ m + 1 - m = 1
  OBVIOUS
<1> QED  BY <1>5, <1>6

LEMMA SameBackground ==
  ASSUME NEW chain, Len(chain) \in Nat, DOMAIN chain = 1..Len(chain), NEW root \in DOMAIN chain
  PROVE  LET script == DOM!EffectiveBackground(DOM!StylesOf(chain), DOM!CanvasOf(DOM!Last(chain).el))
             walk == Resolved(DOM!StylesOf(chain), root)
         IN  \/ walk = script
             \/ walk = DOM!Unknown /\ ~ (root = Len(chain) /\ InBody(chain))
<1> DEFINE n == Len(chain)
           styles == DOM!StylesOf(chain)
           canvas == DOM!CanvasOf(DOM!Last(chain).el)
<1>1. /\ n \in Nat /\ n # 0 /\ root \in 1..n
      /\ styles = [k \in 1..n |-> chain[k].el.css] /\ Len(styles) = n
  <2>1. styles = [k \in 1..n |-> chain[k].el.css]
    BY DEF DOM!StylesOf
  <2>2. Len([k \in 1..n |-> chain[k].el.css]) = n
    OBVIOUS
  <2> QED  BY <2>1, <2>2
<1>2. DOM!Last(chain) = chain[n]
  BY DEF DOM!Last
<1>3. PICK f : Layered(styles, n, canvas, f) /\ DOM!EffectiveBackground(styles, canvas) = f[1]
  <2> HIDE DEF styles, canvas
  <2>1. Len(styles) \in Nat
    BY <1>1
  <2>2. \E f : Layered(styles, Len(styles), canvas, f) /\ DOM!EffectiveBackground(styles, canvas) = f[1]
    BY <2>1, ScriptLayers
  <2> QED  BY <1>1, <2>2
<1>4. PICK g : Layered(styles, root, DOM!Unknown, g) /\ Resolved(styles, root) = g[1]
  <2> HIDE DEF styles
  <2>1. root \in Nat
    BY <1>1
  <2> QED  BY <2>1, WalkLayers
<1>5. g[1] = f[1] \/ g[1] = DOM!Unknown
  BY <1>1, <1>3, <1>4, LayersKnown
<1>6. ASSUME root = n, InBody(chain) PROVE g[1] = f[1]
  <2> DEFINE html == chain[n].el.css
             body == chain[n - 1].el.css
             opaque(css) == DOM!Css(css, "background-color").u = "opaque"
  <2>1. n - 1 \in 1..n /\ chain[n - 1].el = DOM!Last(chain[n].el.kids) /\ canvas = DOM!Canvas(html, body)
    BY <1>1, <1>2, <1>6 DEF InBody, DOM!CanvasOf
  <2>2. styles[n] = html /\ styles[n - 1] = body
    BY <1>1, <2>1
  <2>3. /\ f[n] = DOM!ResolveBackground(html, f[n + 1]) /\ f[n - 1] = DOM!ResolveBackground(body, f[n])
        /\ g[n] = DOM!ResolveBackground(html, g[n + 1]) /\ g[n - 1] = DOM!ResolveBackground(body, g[n])
        /\ f[n + 1] = canvas /\ g[n + 1] = DOM!Unknown
    <3>1. n \in 1..(n + 1) /\ n - 1 \in 1..(n + 1) /\ n + 1 \in 1..(n + 1) /\ ~ (n > n) /\ ~ (n - 1 > n)
          /\ n + 1 > n /\ (n - 1) + 1 = n
      BY <1>1, <2>1
    <3> QED  BY <1>3, <1>4, <1>6, <2>2, <3>1 DEF Layered
  <2>4. ASSUME NEW css, opaque(css), NEW x, NEW y
        PROVE  DOM!ResolveBackground(css, x) = DOM!ResolveBackground(css, y)
    BY <2>4, LayersAgree
  <2>5. CASE opaque(html)
    <3>1. f[n] = g[n]
      BY <2>3, <2>4, <2>5
    <3> QED  BY <1>1, <1>3, <1>4, <1>6, <3>1, LayersMeet
  <2>6. CASE opaque(body)
    <3>1. f[n - 1] = g[n - 1]
      BY <2>3, <2>4, <2>6
    <3> QED  BY <1>1, <1>3, <1>4, <1>6, <2>1, <3>1, LayersMeet
  <2>7. CASE ~ opaque(html) /\ ~ opaque(body)
    <3>1. canvas = DOM!Unknown
      BY <2>1, <2>7 DEF DOM!Canvas
    <3>2. f[n + 1] = g[n + 1]
      BY <2>3, <3>1
    <3> QED  BY <1>1, <1>3, <1>4, <1>6, <3>2, LayersMeet
  <2> QED  BY <2>5, <2>6, <2>7
<1> HIDE DEF styles, canvas
<1>7. \/ Resolved(styles, root) = DOM!EffectiveBackground(styles, canvas)
      \/ Resolved(styles, root) = DOM!Unknown /\ ~ (root = n /\ InBody(chain))
  BY <1>3, <1>4, <1>5, <1>6
<1> QED  BY <1>7 DEF styles, canvas

-----------------------------------------------------------------------------
(* The reports of effects. *)

\* In a finite set that is strictly ordered, there is an element of every rank.
Ordered(S, R) ==
  /\ IsFiniteSet(S) /\ R \subseteq S \X S
  /\ \A x \in S : <<x, x>> \notin R
  /\ \A x, y, z \in S : <<x, y>> \in R /\ <<y, z>> \in R => <<x, z>> \in R
  /\ \A x, y \in S : x = y \/ <<x, y>> \in R \/ <<y, x>> \in R

Ahead(S, R, x) == {y \in S : <<y, x>> \in R}

LEMMA AheadLess ==
  ASSUME NEW S, NEW R, Ordered(S, R), NEW x \in S, NEW y \in S, <<x, y>> \in R
  PROVE  Cardinality(Ahead(S, R, x)) < Cardinality(Ahead(S, R, y))
<1> DEFINE A == Ahead(S, R, x)
           B == Ahead(S, R, y)
<1>1. A \subseteq B /\ x \in B /\ x \notin A /\ A \in SUBSET S /\ B \in SUBSET S
  BY DEF Ordered, Ahead
<1> HIDE DEF A, B
<1>2. IsFiniteSet(A) /\ IsFiniteSet(B)
  BY <1>1, FS_Subset DEF Ordered
<1>3. Cardinality(A) <= Cardinality(B) /\ Cardinality(A) # Cardinality(B)
  BY <1>1, <1>2, FS_Subset
<1>4. Cardinality(A) \in Nat /\ Cardinality(B) \in Nat
  BY <1>2, FS_CardinalityType
<1> QED  BY <1>3, <1>4 DEF A, B

LEMMA Ranks ==
  ASSUME NEW S, NEW R, Ordered(S, R)
  PROVE  /\ Cardinality(S) \in Nat
         /\ \A k \in 1..Cardinality(S) : \E x \in S : Cardinality(Ahead(S, R, x)) = k - 1
<1> DEFINE n == Cardinality(S)
           T == 0..(n - 1)
           f == [x \in S |-> Cardinality(Ahead(S, R, x))]
<1>1. n \in Nat /\ IsFiniteSet(S)
  BY FS_CardinalityType DEF Ordered
<1>2. ASSUME NEW x \in S PROVE Cardinality(Ahead(S, R, x)) \in T
  <2> DEFINE A == Ahead(S, R, x)
  <2>1. A \in SUBSET S /\ x \notin A
    BY DEF Ordered, Ahead
  <2> HIDE DEF A
  <2>2. IsFiniteSet(A) /\ Cardinality(A) <= n /\ Cardinality(A) # n
    BY <1>1, <2>1, FS_Subset
  <2>3. Cardinality(A) \in Nat
    BY <2>2, FS_CardinalityType
  <2> QED  BY <1>1, <2>2, <2>3 DEF A
<1>3. ASSUME NEW x \in S, NEW y \in S, f[x] = f[y] PROVE x = y
  <2>1. <<x, y>> \notin R
    <3>1. SUFFICES ASSUME <<x, y>> \in R PROVE FALSE
      OBVIOUS
    <3>2. Cardinality(Ahead(S, R, x)) < Cardinality(Ahead(S, R, y))
      BY <3>1, AheadLess
    <3> QED  BY <1>2, <1>3, <3>2
  <2>2. <<y, x>> \notin R
    <3>1. SUFFICES ASSUME <<y, x>> \in R PROVE FALSE
      OBVIOUS
    <3>2. Cardinality(Ahead(S, R, y)) < Cardinality(Ahead(S, R, x))
      BY <3>1, AheadLess
    <3> QED  BY <1>2, <1>3, <3>2
  <2> QED  BY <2>1, <2>2 DEF Ordered
<1>4. f \in Injection(S, T)
  <2>1. f \in [S -> T]
    BY <1>2
  <2> QED  BY <1>3, <2>1, Fun_IsInj
<1>5. IsFiniteSet(T) /\ Cardinality(T) = n
  <2>1. 0 \in Int /\ n - 1 \in Int /\ (IF 0 > n - 1 THEN 0 ELSE (n - 1) - 0 + 1) = n
    BY <1>1
  <2> QED  BY <2>1, FS_Interval
<1> HIDE DEF T, f
<1>6. f \in Surjection(S, T)
  BY <1>4, <1>5, FS_Injection
<1>7. \A k \in T : \E x \in S : f[x] = k
  BY <1>6, Fun_SurjectionProperties
<1>8. ASSUME NEW k \in 1..n PROVE \E x \in S : Cardinality(Ahead(S, R, x)) = k - 1
  <2>1. k - 1 \in T
    BY <1>1 DEF T
  <2> QED  BY <1>7, <2>1 DEF f
<1> QED  BY <1>1, <1>8
\* The entries of a list, as far as their order goes: of each place there is one.
Entries(S) ==
  /\ IsFiniteSet(S)
  /\ \A x \in S : x.semantic \in BOOLEAN /\ DOM!Area(x.rect) \in Int /\ x.at \in Nat
  /\ \A x, y \in S : x.at = y.at => x = y

InFront(S) == {p \in S \X S : DOM!Before(p[1], p[2])}

LEMMA EntriesOrdered ==
  ASSUME NEW S, Entries(S)
  PROVE  /\ Ordered(S, InFront(S))
         /\ \A x \in S : Ahead(S, InFront(S), x) = {y \in S : DOM!Before(y, x)}
<1>0. \A x, y \in S : <<x, y>> \in InFront(S) <=> DOM!Before(x, y)
  BY DEF InFront
<1>1. \A x \in S : x.semantic \in BOOLEAN /\ DOM!Area(x.rect) \in Int /\ x.at \in Nat
  BY DEF Entries
<1>2. \A x \in S : ~ DOM!Before(x, x)
  BY <1>1 DEF DOM!Before
<1>3. ASSUME NEW x \in S, NEW y \in S, NEW z \in S, DOM!Before(x, y), DOM!Before(y, z)
      PROVE  DOM!Before(x, z)
  <2> DEFINE a(w) == DOM!Area(w.rect)
  <2>1. /\ x.semantic \in BOOLEAN /\ y.semantic \in BOOLEAN /\ z.semantic \in BOOLEAN
        /\ a(x) \in Int /\ a(y) \in Int /\ a(z) \in Int /\ x.at \in Nat /\ y.at \in Nat /\ z.at \in Nat
    BY <1>1
  <2>2. /\ IF x.semantic # y.semantic THEN x.semantic ELSE IF a(x) # a(y) THEN a(x) > a(y) ELSE x.at < y.at
        /\ IF y.semantic # z.semantic THEN y.semantic ELSE IF a(y) # a(z) THEN a(y) > a(z) ELSE y.at < z.at
    BY <1>3 DEF DOM!Before
  <2> HIDE DEF a
  <2>3. IF x.semantic # z.semantic THEN x.semantic ELSE IF a(x) # a(z) THEN a(x) > a(z) ELSE x.at < z.at
    BY <2>1, <2>2
  <2> QED  BY <2>3 DEF DOM!Before, a
<1>4. ASSUME NEW x \in S, NEW y \in S, x # y
      PROVE  DOM!Before(x, y) \/ DOM!Before(y, x)
  <2>1. x.at # y.at
    BY <1>4 DEF Entries
  <2> DEFINE a(w) == DOM!Area(w.rect)
  <2>2. /\ x.semantic \in BOOLEAN /\ y.semantic \in BOOLEAN
        /\ a(x) \in Int /\ a(y) \in Int /\ x.at \in Nat /\ y.at \in Nat
    BY <1>1
  <2> HIDE DEF a
  <2>3. \/ IF x.semantic # y.semantic THEN x.semantic ELSE IF a(x) # a(y) THEN a(x) > a(y) ELSE x.at < y.at
        \/ IF y.semantic # x.semantic THEN y.semantic ELSE IF a(y) # a(x) THEN a(y) > a(x) ELSE y.at < x.at
    BY <2>1, <2>2
  <2> QED  BY <2>3 DEF DOM!Before, a
<1>5. Ordered(S, InFront(S))
  <2>1. InFront(S) \subseteq S \X S /\ IsFiniteSet(S)
    BY DEF InFront, Entries
  <2>2. \A x \in S : <<x, x>> \notin InFront(S)
    BY <1>0, <1>2
  <2>3. \A x, y, z \in S : <<x, y>> \in InFront(S) /\ <<y, z>> \in InFront(S) => <<x, z>> \in InFront(S)
    BY <1>0, <1>3
  <2>4. \A x, y \in S : x = y \/ <<x, y>> \in InFront(S) \/ <<y, x>> \in InFront(S)
    BY <1>0, <1>4
  <2> QED  BY <2>1, <2>2, <2>3, <2>4 DEF Ordered
<1> QED  BY <1>0, <1>5 DEF Ahead

\* The list of them all: each of its places has the element of its rank.
LEMMA SameCardinality == \A S : DOM!Cardinality(S) = Cardinality(S)
BY DEF DOM!Cardinality, Cardinality

LEMMA ListedAll ==
  ASSUME NEW S, Entries(S), NEW limit \in Nat
  PROVE  \E listed \in [1..Cardinality(S) -> S] :
           /\ \A k \in 1..Cardinality(S) : Cardinality({y \in S : DOM!Before(y, listed[k])}) = k - 1
           /\ DOM!Listed(S, limit) =
                IF limit > 0 /\ limit < Cardinality(S) THEN SubSeq(listed, 1, limit) ELSE listed
<1> DEFINE n == DOM!Cardinality(S)
           rank(x) == DOM!Cardinality({y \in S : DOM!Before(y, x)})
           listed == [k \in 1..n |-> CHOOSE x \in S : rank(x) = k - 1]
<1>1. n = Cardinality(S) /\ n \in Nat
  BY SameCardinality, FS_CardinalityType DEF Entries
<1>2. \A x : rank(x) = Cardinality({y \in S : DOM!Before(y, x)})
  BY SameCardinality
<1>3. \A k \in 1..n : \E x \in S : rank(x) = k - 1
  <2>1. \A k \in 1..Cardinality(S) : \E x \in S : Cardinality(Ahead(S, InFront(S), x)) = k - 1
    BY EntriesOrdered, Ranks
  <2>2. \A x \in S : Cardinality(Ahead(S, InFront(S), x)) = rank(x)
    BY <1>2, EntriesOrdered
  <2> HIDE DEF rank, n
  <2> QED  BY <1>1, <2>1, <2>2
<1>4. DOM!Listed(S, limit) = IF limit > 0 /\ limit < n THEN SubSeq(listed, 1, limit) ELSE listed
  <2>2. DOM!Listed(S, limit) = IF limit > 0 /\ limit < Len(listed) THEN SubSeq(listed, 1, limit) ELSE listed
    BY Zenon DEF DOM!Listed
  <2> HIDE DEF rank, n
  <2>1. Len(listed) = n
    BY <1>1
  <2> HIDE DEF listed
  <2> QED  BY <2>1, <2>2
<1> HIDE DEF rank, n
<1>5. \A k \in 1..n : listed[k] \in S /\ rank(listed[k]) = k - 1
  <2>1. TAKE k \in 1..n
  <2>2. listed[k] = CHOOSE x \in S : rank(x) = k - 1
    OBVIOUS
  <2> QED  BY <1>3, <2>2
<1>6. listed \in [1..n -> S]
  BY <1>5
<1> HIDE DEF listed
<1>7. \A k \in 1..n : Cardinality({y \in S : DOM!Before(y, listed[k])}) = k - 1
  BY <1>2, <1>5
<1> QED  BY <1>1, <1>4, <1>6, <1>7

\* What a cut list says of its entries' styles is what the whole list says: those with
\* semantic changes come first.
LEMMA CutKeeps ==
  ASSUME NEW S, Entries(S), NEW limit \in Nat
  PROVE  LET cut == DOM!Listed(S, limit)
         IN  /\ cut = << >> <=> S = {}
             /\ (\A x \in S : x.semantic <=> DOM!HasStyles(x))
                  => ((\E i \in DOMAIN cut : DOM!HasStyles(cut[i])) <=> (\E x \in S : DOM!HasStyles(x)))
<1> DEFINE n == Cardinality(S)
           cut == DOM!Listed(S, limit)
           m == IF limit > 0 /\ limit < n THEN limit ELSE n
<1>0. n \in Nat /\ (n = 0 <=> S = {})
  BY FS_CardinalityType, FS_EmptySet DEF Entries
<1> HIDE DEF cut
<1>1. PICK listed \in [1..n -> S] :
        /\ \A k \in 1..n : Cardinality({y \in S : DOM!Before(y, listed[k])}) = k - 1
        /\ cut = IF limit > 0 /\ limit < n THEN SubSeq(listed, 1, limit) ELSE listed
  BY ListedAll DEF cut
<1> HIDE DEF n
<1>2. m \in Nat /\ m <= n /\ (m = 0 <=> n = 0)
  BY <1>0, <1>1
<1>3. /\ Len(cut) = m /\ DOMAIN cut = 1..m
      /\ \A k \in 1..m : cut[k] = listed[k] /\ k \in 1..n
  <2>1. listed \in Seq(S) /\ Len(listed) = n
    BY <1>0, <1>1
  <2>2. CASE limit > 0 /\ limit < n
    <3>1. cut = SubSeq(listed, 1, limit) /\ m = limit
      BY <1>0, <1>1, <2>2
    <3>2. Len(SubSeq(listed, 1, limit)) = limit /\ \A k \in 1..limit : SubSeq(listed, 1, limit)[k] = listed[k]
      BY <1>0, <1>1, <2>1, <2>2
    <3>3. DOMAIN SubSeq(listed, 1, limit) = 1..limit
      BY <1>0, <1>1, <2>1, <2>2
    <3> QED  BY <1>0, <1>1, <2>2, <3>1, <3>2, <3>3
  <2>3. CASE ~ (limit > 0 /\ limit < n)
    BY <1>0, <1>1, <2>1, <2>3
  <2> QED  BY <2>2, <2>3
<1>4. cut = << >> <=> S = {}
  <2>1. cut \in Seq(S)
    <3>1. cut = IF limit > 0 /\ limit < n THEN SubSeq(listed, 1, limit) ELSE listed
      BY <1>0, <1>1
    <3>2. listed \in Seq(S)
      BY <1>0, <1>1
    <3>3. CASE limit > 0 /\ limit < n
      <4>1. SubSeq(listed, 1, limit) \in Seq(S)
        BY <1>0, <1>1, <3>2, <3>3
      <4> QED  BY <3>1, <3>3, <4>1
    <3> QED  BY <3>1, <3>2, <3>3
  <2> QED  BY <1>0, <1>1, <1>2, <1>3, <2>1, EmptySeq
<1>5. ASSUME \A x \in S : x.semantic <=> DOM!HasStyles(x)
      PROVE  (\E i \in DOMAIN cut : DOM!HasStyles(cut[i])) <=> (\E x \in S : DOM!HasStyles(x))
  <2>1. (\E i \in DOMAIN cut : DOM!HasStyles(cut[i])) => (\E x \in S : DOM!HasStyles(x))
    BY <1>0, <1>1, <1>3
  <2>2. ASSUME NEW x \in S, DOM!HasStyles(x) PROVE \E i \in DOMAIN cut : DOM!HasStyles(cut[i])
    <3>1. 1 \in 1..m /\ 1 \in 1..n
      BY <1>0, <1>1, <1>2
    <3>2. cut[1] = listed[1] /\ listed[1] \in S
      BY <1>0, <1>1, <1>3, <3>1
    <3> DEFINE first == {y \in S : DOM!Before(y, listed[1])}
    <3>3. Cardinality(first) = 0 /\ first \in SUBSET S
      BY <1>0, <1>1, <3>1
    <3>4. first = {}
      <4> HIDE DEF first
      <4>1. IsFiniteSet(first)
        BY <3>3, FS_Subset DEF Entries
      <4> QED  BY <3>3, <4>1, FS_EmptySet
    <3>5. ~ DOM!Before(x, listed[1])
      BY <3>4
    <3>6. listed[1].semantic
      BY <1>5, <2>2, <3>2, <3>5 DEF DOM!Before, Entries
    <3> QED  BY <1>3, <1>5, <3>1, <3>2, <3>6
  <2> QED  BY <2>1, <2>2
<1> QED  BY <1>4, <1>5 DEF cut

LEMMA SeenIs ==
  ASSUME NEW html \in Elements
  PROVE  DOM!Seen(html) \in Seq(Lines)
<1> DEFINE chains == DOM!Chains(html)
           part == [i \in DOMAIN chains |->
                      IF DOM!LookedAt(chains[i]) THEN <<chains[i]>> ELSE << >>]
           S == Seq(Lines)
<1>1. chains \in Seq(Lines)
  BY ChainsGrown DEF Grown
<1>2. DOM!Seen(html) = DOM!FlattenSeq(part)
  BY Zenon DEF DOM!Seen
<1> HIDE DEF chains
<1>3. part \in [1..Len(chains) -> S] /\ Len(chains) \in Nat
  <2>1. DOMAIN chains = 1..Len(chains) /\ Len(chains) \in Nat /\ \A i \in DOMAIN chains : chains[i] \in Lines
    BY <1>1
  <2>2. \A x \in Lines : <<x>> \in S
    OBVIOUS
  <2>3. << >> \in S
    OBVIOUS
  <2> HIDE DEF S
  <2> QED  BY <2>1, <2>2, <2>3
<1> HIDE DEF part
<1>4. part \in Seq(S)
  <2> HIDE DEF S
  <2> QED  BY <1>3
<1> QED  BY <1>2, <1>4, FlattenedFrom

\* The records of the elements that are looked at.
LEMMA RecordsAre ==
  ASSUME NEW html \in Elements
  PROVE  /\ Len(DOM!Seen(html)) \in Nat
         /\ DOM!Records(html) = [i \in 1..Len(DOM!Seen(html)) |-> DOM!Record(DOM!Seen(html)[i], i)]
         /\ \A i \in 1..Len(DOM!Seen(html)) : DOM!Seen(html)[i] \in Lines
<1> DEFINE seen == DOM!Seen(html)
<1>1. DOM!Records(html) = [i \in DOMAIN seen |-> DOM!Record(seen[i], i)]
  BY Zenon DEF DOM!Records
<1>2. seen \in Seq(Lines)
  BY SeenIs
<1> HIDE DEF seen
<1>3. DOMAIN seen = 1..Len(seen) /\ Len(seen) \in Nat /\ \A i \in 1..Len(seen) : seen[i] \in Lines
  BY <1>2
<1> QED  BY <1>1, <1>3 DEF seen

LEMMA RecordIs ==
  ASSUME NEW c, NEW at
  PROVE  LET rec == DOM!Record(c, at)
         IN  /\ rec.at = at /\ rec.path = DOM!Path(c, 4)
             /\ rec.root = (c[1].el.tag \in {"html", "body"})
             /\ rec.rect = DOM!Rect(c[1].el)
             /\ rec.visible = DOM!Shown(c[1].el)
             /\ rec.css = [p \in DOM!Range(Signature) |-> DOM!Css(c[1].el.css, p)]
BY DEF DOM!Record

LEMMA RectIs ==
  ASSUME NEW el \in Elements
  PROVE  DOM!Rect(el) \in [1..4 -> Int] /\ DOM!Area(DOM!Rect(el)) \in Int
<1> DEFINE r == DOM!Rect(el)
<1>1. r \in [1..4 -> Int]
  <2>1. el.rect = << >> \/ el.rect \in [1..4 -> Int]
    BY ElementsGiven
  <2>2. <<0, 0, 0, 0>> \in [1..4 -> Int]
    OBVIOUS
  <2> QED  BY <2>1, <2>2 DEF DOM!Rect
<1> HIDE DEF r
<1>2. DOM!Area(r) \in Int
  <2>1. r[3] \in Int /\ r[4] \in Int
    BY <1>1
  <2> DEFINE w == DOM!AtLeast(r[3], 0)
             h == DOM!AtLeast(r[4], 0)
  <2>2. w \in Int /\ h \in Int
    BY <2>1 DEF DOM!AtLeast
  <2> HIDE DEF w, h
  <2>3. w * h \in Int
    BY <2>2
  <2> QED  BY <2>3 DEF DOM!Area, w, h
<1> QED  BY <1>1, <1>2 DEF r

LEMMA Greatest ==
  ASSUME NEW n \in Nat, NEW S \in SUBSET 1..n, S # {}
  PROVE  DOM!Max(S) \in S
<1> DEFINE T == {n - k : k \in S}
<1>0. \A k \in S : k \in Nat /\ k <= n /\ n - k \in Nat
  OBVIOUS
<1>1. T \in SUBSET Nat /\ T # {}
  BY <1>0
<1>2. PICK least \in T : \A j \in T : least <= j
  BY <1>1, Least
<1>3. PICK k \in S : least = n - k
  OBVIOUS
<1>4. \A j \in S : k >= j
  <2>1. TAKE j \in S
  <2>2. j \in Nat /\ k \in Nat
    BY <1>0
  <2>4. n - j \in T
    OBVIOUS
  <2>3. n - k <= n - j
    BY <1>2, <1>3, <2>4
  <2> QED  BY <2>2, <2>3
<1> QED  BY <1>4 DEF DOM!Max

\* Of the elements of one path, one stands for them.
Stands(html, p, rec) ==
  \E i \in 1..Len(DOM!Seen(html)) :
    rec = DOM!Record(DOM!Seen(html)[i], i) /\ DOM!Path(DOM!Seen(html)[i], 4) = p

LEMMA KeyedIs ==
  ASSUME NEW html \in Elements
  PROVE  /\ DOMAIN DOM!Keyed(DOM!Records(html)) = DOM!PathsOf(DOM!Records(html))
         /\ DOM!PathsOf(DOM!Records(html)) =
              {DOM!Path(DOM!Seen(html)[i], 4) : i \in 1..Len(DOM!Seen(html))}
         /\ IsFiniteSet(DOM!PathsOf(DOM!Records(html)))
         /\ \A p \in DOM!PathsOf(DOM!Records(html)) : Stands(html, p, DOM!Keyed(DOM!Records(html))[p])
<1> DEFINE recs == DOM!Records(html)
           seen == DOM!Seen(html)
           n == Len(seen)
           paths == DOM!PathsOf(recs)
<1>1. n \in Nat /\ recs = [i \in 1..n |-> DOM!Record(seen[i], i)]
  BY RecordsAre
<1>2. DOM!Keyed(recs) = [p \in paths |-> recs[DOM!Max({i \in DOMAIN recs : recs[i].path = p})]]
  BY DEF DOM!Keyed
<1> HIDE DEF recs, seen, n
<1>3. \A i \in 1..n : recs[i] = DOM!Record(seen[i], i) /\ recs[i].path = DOM!Path(seen[i], 4)
  BY <1>1, RecordIs
<1>4. DOMAIN recs = 1..n
  BY <1>1
<1>5. paths = {DOM!Path(seen[i], 4) : i \in 1..n}
  BY <1>3, <1>4 DEF DOM!PathsOf
<1> HIDE DEF paths
<1>6. IsFiniteSet(paths)
  <2> DEFINE f == [i \in 1..n |-> DOM!Path(seen[i], 4)]
  <2>1. f \in Surjection(1..n, paths)
    BY <1>5, Fun_IsSurj
  <2>2. IsFiniteSet(1..n)
    BY <1>1, FS_Interval
  <2> HIDE DEF f
  <2> QED  BY <2>1, <2>2, FS_Surjection
<1>7. ASSUME NEW p \in paths PROVE Stands(html, p, DOM!Keyed(recs)[p])
  <2> DEFINE at == {i \in DOMAIN recs : recs[i].path = p}
  <2>1. at \in SUBSET 1..n /\ at # {}
    BY <1>3, <1>4, <1>5
  <2>2. DOM!Max(at) \in at
    BY <1>1, <2>1, Greatest
  <2>3. DOM!Keyed(recs)[p] = recs[DOM!Max(at)]
    BY <1>2
  <2> HIDE DEF at
  <2>4. DOM!Max(at) \in 1..n /\ recs[DOM!Max(at)].path = p
    BY <2>1, <2>2 DEF at
  <2>5. /\ DOM!Keyed(recs)[p] = DOM!Record(seen[DOM!Max(at)], DOM!Max(at))
        /\ DOM!Path(seen[DOM!Max(at)], 4) = p
    BY <1>3, <2>3, <2>4
  <2> QED  BY <2>4, <2>5 DEF Stands, seen, n
<1>8. DOMAIN DOM!Keyed(recs) = paths
  BY <1>2
<1> QED  BY <1>5, <1>6, <1>7, <1>8 DEF paths, recs, seen, n

\* The snapshots before and after an interaction, and the entries of its report.
Then(step) == DOM!Keyed(DOM!Records(step.before))
Now(step)  == DOM!Keyed(DOM!Records(step.after))

Wholes(html, P, point, view) == {DOM!WholeEntry(DOM!Keyed(DOM!Records(html))[p], point, view) : p \in P}

Came(step) == Wholes(step.after, DOMAIN Now(step) \ DOMAIN Then(step), DOM!Centre(step.target.rect), step.view)
Went(step) == Wholes(step.before, DOMAIN Then(step) \ DOMAIN Now(step), DOM!Centre(step.target.rect), step.view)
Touched(step) == {p \in DOMAIN Then(step) \cap DOMAIN Now(step) : DOM!Differs(Then(step)[p], Now(step)[p])}
Altered(step) == {DOM!ChangedEntry(Then(step)[p], Now(step)[p], DOM!Centre(step.target.rect), step.view) :
                    p \in Touched(step)}
Turned(step, visible) == DOM!Turned(Then(step), Now(step), visible)

LEMMA DifferencesAre ==
  ASSUME NEW step
  PROVE  LET found == DOM!Differences(step)
         IN  /\ found.appeared = DOM!Listed(Came(step), step.limit)
             /\ found.removed = DOM!Listed(Went(step), step.limit)
             /\ found.changed = DOM!Listed(Altered(step), step.limit)
             /\ found.revealed = DOM!Cardinality(Turned(step, TRUE))
             /\ found.hidden = DOM!Cardinality(Turned(step, FALSE))
BY DEF DOM!Differences, Wholes, Came, Went, Altered, Touched, Turned, Then, Now

LEMMA RecordTold ==
  ASSUME NEW c, NEW at, NEW rec, rec = DOM!Record(c, at)
  PROVE  rec.at = at /\ rec.path = DOM!Path(c, 4) /\ rec.rect = DOM!Rect(c[1].el) /\ rec.visible = DOM!Shown(c[1].el)
BY DEF DOM!Record

LEMMA StandsTyped ==
  ASSUME NEW html \in Elements, NEW p, NEW rec, Stands(html, p, rec)
  PROVE  DOM!Area(rec.rect) \in Int /\ rec.at \in Nat /\ rec.visible \in BOOLEAN
<1>1. PICK i \in 1..Len(DOM!Seen(html)) :
        rec = DOM!Record(DOM!Seen(html)[i], i) /\ DOM!Path(DOM!Seen(html)[i], 4) = p
  BY DEF Stands
<1> DEFINE c == DOM!Seen(html)[i]
<1>2. c \in Lines /\ i \in Nat
  BY RecordsAre
<1>9. rec = DOM!Record(c, i)
  BY <1>1
<1> HIDE DEF c
<1>3. c[1].el \in Elements
  BY <1>2, OffspringIs
<1>4. rec.at = i /\ rec.rect = DOM!Rect(c[1].el) /\ rec.visible = DOM!Shown(c[1].el)
  BY <1>9, RecordTold
<1>5. DOM!Shown(c[1].el) \in BOOLEAN
  BY DEF DOM!Shown
<1> QED  BY <1>2, <1>3, <1>4, <1>5, RectIs

LEMMA StandsAlone ==
  ASSUME NEW html, NEW p, NEW rec, Stands(html, p, rec), NEW q, NEW other, Stands(html, q, other),
         rec.at = other.at
  PROVE  rec = other /\ p = q
<1>1. PICK i \in 1..Len(DOM!Seen(html)) :
        rec = DOM!Record(DOM!Seen(html)[i], i) /\ DOM!Path(DOM!Seen(html)[i], 4) = p
  BY DEF Stands
<1>2. PICK j \in 1..Len(DOM!Seen(html)) :
        other = DOM!Record(DOM!Seen(html)[j], j) /\ DOM!Path(DOM!Seen(html)[j], 4) = q
  BY DEF Stands
<1> DEFINE c == DOM!Seen(html)[i]
           d == DOM!Seen(html)[j]
<1>4. rec = DOM!Record(c, i) /\ other = DOM!Record(d, j)
  BY <1>1, <1>2
<1> HIDE DEF c, d
<1>5. rec.at = i
  BY <1>4, RecordTold
<1>6. other.at = j
  BY <1>4, RecordTold
<1>3. i = j
  BY <1>5, <1>6
<1> QED  BY <1>1, <1>2, <1>3

\* The entries of a set of paths are as many at most, each of an element of its own.
LEMMA EntriesOf ==
  ASSUME NEW P, IsFiniteSet(P), NEW entry, DOMAIN entry = P,
         \A p \in P : entry[p].semantic \in BOOLEAN /\ DOM!Area(entry[p].rect) \in Int /\ entry[p].at \in Nat,
         \A p, q \in P : entry[p].at = entry[q].at => entry[p] = entry[q]
  PROVE  Entries({entry[p] : p \in P})
<1> DEFINE S == {entry[p] : p \in P}
           f == [p \in P |-> entry[p]]
<1>1. f \in Surjection(P, S)
  BY Fun_IsSurj
<1>2. IsFiniteSet(S)
  <2> HIDE DEF f, S
  <2> QED  BY <1>1, FS_Surjection
<1> QED  BY <1>2 DEF Entries

LEMMA WholeEntryTold ==
  ASSUME NEW rec, NEW point, NEW view, NEW e, e = DOM!WholeEntry(rec, point, view)
  PROVE  e.at = rec.at /\ e.rect = rec.rect /\ e.semantic \in BOOLEAN
BY DEF DOM!WholeEntry, DOM!Entry

LEMMA WholeEntries ==
  ASSUME NEW html \in Elements, NEW P, P \subseteq DOM!PathsOf(DOM!Records(html)), NEW point, NEW view
  PROVE  Entries(Wholes(html, P, point, view))
<1> DEFINE k == DOM!Keyed(DOM!Records(html))
           entry == [p \in P |-> DOM!WholeEntry(k[p], point, view)]
<1>1. IsFiniteSet(P)
  BY KeyedIs, FS_Subset
<1>2. \A p \in P : Stands(html, p, k[p])
  BY KeyedIs
<1> HIDE DEF k
<1>3. \A p \in P : entry[p].semantic \in BOOLEAN /\ entry[p].rect = k[p].rect /\ entry[p].at = k[p].at
  <2>1. TAKE p \in P
  <2> DEFINE e == DOM!WholeEntry(k[p], point, view)
  <2>2. entry[p] = e
    OBVIOUS
  <2> DEFINE rec == k[p]
  <2>3. e = DOM!WholeEntry(rec, point, view)
    OBVIOUS
  <2> HIDE DEF rec, e, entry
  <2>4. e.semantic \in BOOLEAN /\ e.rect = rec.rect /\ e.at = rec.at
    BY <2>3, WholeEntryTold
  <2> QED  BY <2>2, <2>4 DEF rec
<1>4. \A p \in P : entry[p].semantic \in BOOLEAN /\ DOM!Area(entry[p].rect) \in Int /\ entry[p].at \in Nat
  BY <1>2, <1>3, StandsTyped
<1>5. \A p, q \in P : entry[p].at = entry[q].at => entry[p] = entry[q]
  <2>1. TAKE p, q \in P
  <2>2. SUFFICES ASSUME entry[p].at = entry[q].at PROVE entry[p] = entry[q]
    OBVIOUS
  <2>3. k[p].at = k[q].at
    BY <1>3, <2>2
  <2>4. k[p] = k[q]
    BY <1>2, <2>3, StandsAlone
  <2> QED  BY <2>4
<1>6. DOMAIN entry = P
  OBVIOUS
<1>7. {DOM!WholeEntry(k[p], point, view) : p \in P} = {entry[p] : p \in P}
  OBVIOUS
<1> HIDE DEF entry
<1>8. Entries({entry[p] : p \in P})
  BY <1>1, <1>4, <1>5, <1>6, EntriesOf
<1> QED  BY <1>7, <1>8 DEF k, Wholes

LEMMA ChangedEntryIs ==
  ASSUME NEW b, NEW a, NEW point, NEW view
  PROVE  LET e == DOM!ChangedEntry(b, a, point, view)
         IN  /\ e.at = a.at /\ e.rect = a.rect
             /\ e.css_diff = DOM!SignatureDiff(b, a)
             /\ e.semantic = (e.css_diff # {} \/ b.visible # a.visible)
BY DEF DOM!ChangedEntry, DOM!Entry

LEMMA ChangedEntries ==
  ASSUME NEW step, step.before \in Elements, step.after \in Elements
  PROVE  Entries(Altered(step))
<1> DEFINE P == Touched(step)
           point == DOM!Centre(step.target.rect)
           a == Now(step)
           b == Then(step)
           entry == [p \in P |-> DOM!ChangedEntry(b[p], a[p], point, step.view)]
<1>1. P \subseteq DOM!PathsOf(DOM!Records(step.after))
  BY KeyedIs DEF Touched, Now
<1>2. IsFiniteSet(P)
  BY <1>1, KeyedIs, FS_Subset
<1>3. \A p \in P : Stands(step.after, p, a[p])
  BY <1>1, KeyedIs DEF Now
<1>4. {DOM!ChangedEntry(b[p], a[p], point, step.view) : p \in P} = {entry[p] : p \in P}
  OBVIOUS
<1>5. Altered(step) = {DOM!ChangedEntry(b[p], a[p], point, step.view) : p \in P}
  BY DEF Altered
<1> HIDE DEF P, a, b, point
<1>6. \A p \in P : entry[p].rect = a[p].rect /\ entry[p].at = a[p].at /\ entry[p].semantic \in BOOLEAN
  <2>1. TAKE p \in P
  <2> DEFINE e == DOM!ChangedEntry(b[p], a[p], point, step.view)
  <2>2. entry[p] = e
    OBVIOUS
  <2>3. e.rect = a[p].rect /\ e.at = a[p].at /\ e.semantic = (e.css_diff # {} \/ b[p].visible # a[p].visible)
    BY ChangedEntryIs
  <2> HIDE DEF e, entry
  <2>4. e.semantic \in BOOLEAN
    BY <2>3
  <2> QED  BY <2>2, <2>3, <2>4
<1>7. \A p \in P : entry[p].semantic \in BOOLEAN /\ DOM!Area(entry[p].rect) \in Int /\ entry[p].at \in Nat
  BY <1>3, <1>6, StandsTyped
<1>8. \A p, q \in P : entry[p].at = entry[q].at => entry[p] = entry[q]
  <2>1. TAKE p, q \in P
  <2>2. SUFFICES ASSUME entry[p].at = entry[q].at PROVE entry[p] = entry[q]
    OBVIOUS
  <2>3. a[p].at = a[q].at
    BY <1>6, <2>2
  <2>4. p = q
    BY <1>3, <2>3, StandsAlone
  <2> QED  BY <2>4
<1>9. DOMAIN entry = P
  OBVIOUS
<1> HIDE DEF entry
<1>10. Entries({entry[p] : p \in P})
  BY <1>2, <1>7, <1>8, <1>9, EntriesOf
<1> QED  BY <1>4, <1>5, <1>10

\* What a report calls the effect, of the sets of entries that its lists are cut from.
Verdict(step) ==
  IF Came(step) # {} \/ Turned(step, TRUE) # {} THEN "revealed"
  ELSE IF Went(step) # {} \/ Turned(step, FALSE) # {} THEN "hidden"
  ELSE IF \E x \in Altered(step) : DOM!HasStyles(x) THEN "changed"
  ELSE IF Altered(step) # {} THEN "moved"
  ELSE "no_effect"


LEMMA KeysAre ==
  ASSUME NEW step, step.before \in Elements, step.after \in Elements
  PROVE  /\ DOMAIN Then(step) = DOM!PathsOf(DOM!Records(step.before)) /\ IsFiniteSet(DOMAIN Then(step))
         /\ DOMAIN Now(step) = DOM!PathsOf(DOM!Records(step.after)) /\ IsFiniteSet(DOMAIN Now(step))
         /\ \A p \in DOMAIN Then(step) : Stands(step.before, p, Then(step)[p])
         /\ \A p \in DOMAIN Now(step) : Stands(step.after, p, Now(step)[p])
BY KeyedIs DEF Then, Now

LEMMA CutLists ==
  ASSUME NEW step, step.before \in Elements, step.after \in Elements, step.limit \in Nat
  PROVE  /\ DOM!Listed(Came(step), step.limit) = << >> <=> Came(step) = {}
         /\ DOM!Listed(Went(step), step.limit) = << >> <=> Went(step) = {}
         /\ DOM!Listed(Altered(step), step.limit) = << >> <=> Altered(step) = {}
<1>1. Entries(Came(step))
  <2> DEFINE P == DOMAIN Now(step) \ DOMAIN Then(step)
  <2>1. P \subseteq DOM!PathsOf(DOM!Records(step.after))
    BY KeysAre
  <2> HIDE DEF P
  <2>2. Entries(Wholes(step.after, P, DOM!Centre(step.target.rect), step.view))
    BY <2>1, WholeEntries
  <2> QED  BY <2>2 DEF Came, P
<1>2. Entries(Went(step))
  <2> DEFINE P == DOMAIN Then(step) \ DOMAIN Now(step)
  <2>1. P \subseteq DOM!PathsOf(DOM!Records(step.before))
    BY KeysAre
  <2> HIDE DEF P
  <2>2. Entries(Wholes(step.before, P, DOM!Centre(step.target.rect), step.view))
    BY <2>1, WholeEntries
  <2> QED  BY <2>2 DEF Went, P
<1>3. Entries(Altered(step))
  BY ChangedEntries
<1>4. DOM!Listed(Came(step), step.limit) = << >> <=> Came(step) = {}
  BY <1>1, CutKeeps
<1>5. DOM!Listed(Went(step), step.limit) = << >> <=> Went(step) = {}
  BY <1>2, CutKeeps
<1>6. DOM!Listed(Altered(step), step.limit) = << >> <=> Altered(step) = {}
  BY <1>3, CutKeeps
<1> QED  BY <1>4, <1>5, <1>6

LEMMA SomeTurned ==
  ASSUME NEW step, step.before \in Elements, step.after \in Elements, NEW visible
  PROVE  DOM!Cardinality(Turned(step, visible)) > 0 <=> Turned(step, visible) # {}
<1> DEFINE S == Turned(step, visible)
<1>1. S \in SUBSET DOMAIN Now(step)
  BY DEF Turned, DOM!Turned
<1> HIDE DEF S
<1>2. IsFiniteSet(S)
  BY <1>1, KeysAre, FS_Subset
<1>3. Cardinality(S) \in Nat /\ (Cardinality(S) = 0 <=> S = {})
  BY <1>2, FS_CardinalityType, FS_EmptySet
<1>4. DOM!Cardinality(S) = Cardinality(S)
  BY SameCardinality
<1> QED  BY <1>3, <1>4 DEF S

\* Where nothing is shown or hidden, what counts in an entry is its styles.
LEMMA StylesCount ==
  ASSUME NEW step, step.before \in Elements, step.after \in Elements,
         Turned(step, TRUE) = {}, Turned(step, FALSE) = {}
  PROVE  \A x \in Altered(step) : x.semantic <=> DOM!HasStyles(x)
<1>1. ASSUME NEW p \in DOMAIN Then(step) \cap DOMAIN Now(step)
      PROVE  Then(step)[p].visible = Now(step)[p].visible
  <2> DEFINE b == Then(step)[p]
             a == Now(step)[p]
  <2>1. Stands(step.before, p, b) /\ Stands(step.after, p, a)
    BY KeysAre
  <2>2. b.visible \in BOOLEAN /\ a.visible \in BOOLEAN
    <3> HIDE DEF a, b
    <3> QED  BY <2>1, StandsTyped
  <2>3. ~ (b.visible # a.visible /\ a.visible = TRUE)
    BY DEF Turned, DOM!Turned
  <2>4. ~ (b.visible # a.visible /\ a.visible = FALSE)
    BY DEF Turned, DOM!Turned
  <2> HIDE DEF a, b
  <2>5. b.visible = a.visible
    BY <2>2, <2>3, <2>4
  <2> QED  BY <2>5 DEF a, b
<1>2. ASSUME NEW x \in Altered(step) PROVE x.semantic <=> DOM!HasStyles(x)
  <2>1. PICK p \in Touched(step) :
          x = DOM!ChangedEntry(Then(step)[p], Now(step)[p], DOM!Centre(step.target.rect), step.view)
    BY DEF Altered
  <2> DEFINE b == Then(step)[p]
             a == Now(step)[p]
             point == DOM!Centre(step.target.rect)
             e == DOM!ChangedEntry(b, a, point, step.view)
  <2>2. x = e
    BY <2>1
  <2>3. b.visible = a.visible
    BY <1>1 DEF Touched
  <2> HIDE DEF a, b, point
  <2>4. e.css_diff = DOM!SignatureDiff(b, a) /\ e.semantic = (e.css_diff # {} \/ b.visible # a.visible)
    BY ChangedEntryIs
  <2> HIDE DEF e
  <2>5. e.semantic <=> e.css_diff # {}
    BY <2>3, <2>4
  <2>6. DOM!HasStyles(e) <=> e.css_diff # {}
    BY DEF DOM!HasStyles
  <2> QED  BY <2>2, <2>5, <2>6
<1> QED  BY <1>2

LEMMA EffectIs ==
  ASSUME NEW step, step.before \in Elements, step.after \in Elements, step.limit \in Nat
  PROVE  DOM!Effect(step) = Verdict(step)
<1> DEFINE found == DOM!Differences(step)
           cut == DOM!Listed(Altered(step), step.limit)
<1>1. DOM!Effect(step) =
        IF found.appeared # << >> \/ found.revealed > 0 THEN "revealed"
        ELSE IF found.removed # << >> \/ found.hidden > 0 THEN "hidden"
        ELSE IF \E i \in DOMAIN found.changed : DOM!HasStyles(found.changed[i]) THEN "changed"
        ELSE IF found.changed # << >> THEN "moved"
        ELSE "no_effect"
  BY DEF DOM!Effect, DOM!ClassifyEffect
<1>2. /\ found.appeared = DOM!Listed(Came(step), step.limit)
      /\ found.removed = DOM!Listed(Went(step), step.limit)
      /\ found.changed = cut
      /\ found.revealed = DOM!Cardinality(Turned(step, TRUE))
      /\ found.hidden = DOM!Cardinality(Turned(step, FALSE))
  BY DifferencesAre
<1> HIDE DEF found
<1>3. /\ found.appeared # << >> <=> Came(step) # {}
      /\ found.removed # << >> <=> Went(step) # {}
      /\ cut # << >> <=> Altered(step) # {}
  BY <1>2, CutLists
<1>4. /\ found.revealed > 0 <=> Turned(step, TRUE) # {}
      /\ found.hidden > 0 <=> Turned(step, FALSE) # {}
  BY <1>2, SomeTurned
<1>5. ASSUME Turned(step, TRUE) = {}, Turned(step, FALSE) = {}
      PROVE  (\E i \in DOMAIN cut : DOM!HasStyles(cut[i])) <=> \E x \in Altered(step) : DOM!HasStyles(x)
  <2>1. Entries(Altered(step))
    BY ChangedEntries
  <2>2. \A x \in Altered(step) : x.semantic <=> DOM!HasStyles(x)
    BY <1>5, StylesCount
  <2> QED  BY <2>1, <2>2, CutKeeps
<1> HIDE DEF cut
<1> DEFINE styled == \E i \in DOMAIN cut : DOM!HasStyles(cut[i])
           styled2 == \E x \in Altered(step) : DOM!HasStyles(x)
<1>6. DOM!Effect(step) =
        IF Came(step) # {} \/ Turned(step, TRUE) # {} THEN "revealed"
        ELSE IF Went(step) # {} \/ Turned(step, FALSE) # {} THEN "hidden"
        ELSE IF styled THEN "changed"
        ELSE IF Altered(step) # {} THEN "moved"
        ELSE "no_effect"
  BY <1>1, <1>2, <1>3, <1>4
<1>7. Verdict(step) =
        IF Came(step) # {} \/ Turned(step, TRUE) # {} THEN "revealed"
        ELSE IF Went(step) # {} \/ Turned(step, FALSE) # {} THEN "hidden"
        ELSE IF styled2 THEN "changed"
        ELSE IF Altered(step) # {} THEN "moved"
        ELSE "no_effect"
  BY DEF Verdict
<1>8. Turned(step, TRUE) = {} /\ Turned(step, FALSE) = {} => (styled <=> styled2)
  BY <1>5
<1>9. styled \in BOOLEAN /\ styled2 \in BOOLEAN
  OBVIOUS
<1> HIDE DEF styled, styled2
<1>10. CASE Turned(step, TRUE) = {} /\ Turned(step, FALSE) = {}
  <2>1. styled <=> styled2
    BY <1>8, <1>10
  <2>2. CASE styled
    BY <1>6, <1>7, <1>10, <2>1, <2>2
  <2>3. CASE ~ styled
    <3>1. ~ styled2
      BY <2>1, <2>3
    <3>2. DOM!Effect(step) =
            IF Came(step) # {} THEN "revealed" ELSE IF Went(step) # {} THEN "hidden"
            ELSE IF Altered(step) # {} THEN "moved" ELSE "no_effect"
      BY <1>6, <1>10, <2>3
    <3>3. Verdict(step) =
            IF Came(step) # {} THEN "revealed" ELSE IF Went(step) # {} THEN "hidden"
            ELSE IF Altered(step) # {} THEN "moved" ELSE "no_effect"
      BY <1>7, <1>10, <3>1
    <3> QED  BY <3>2, <3>3
  <2> QED  BY <2>2, <2>3
<1>11. CASE Turned(step, TRUE) # {}
  BY <1>6, <1>7, <1>11
<1>12. CASE Turned(step, TRUE) = {} /\ Turned(step, FALSE) # {}
  BY <1>6, <1>7, <1>12
<1> QED  BY <1>10, <1>11, <1>12

LEMMA LimitKeeps ==
  ASSUME NEW step, step.before \in Elements, step.after \in Elements, step.limit \in Nat,
         {"before", "after", "target", "view", "limit"} \subseteq DOMAIN step
  PROVE  DOM!Effect(step) = DOM!Effect([step EXCEPT !.limit = 0])
<1> DEFINE all == [step EXCEPT !.limit = 0]
<1>1. /\ all.before = step.before /\ all.after = step.after /\ all.target = step.target
      /\ all.view = step.view /\ all.limit = 0
  OBVIOUS
<1> HIDE DEF all
<1>2. Then(all) = Then(step) /\ Now(all) = Now(step)
  BY <1>1 DEF Then, Now
<1>3. Came(all) = Came(step) /\ Went(all) = Went(step)
  BY <1>1, <1>2 DEF Came, Went
<1>4. Touched(all) = Touched(step)
  BY <1>2 DEF Touched
<1>5. Altered(all) = Altered(step)
  BY <1>1, <1>2, <1>4 DEF Altered
<1>6. Turned(all, TRUE) = Turned(step, TRUE) /\ Turned(all, FALSE) = Turned(step, FALSE)
  BY <1>2 DEF Turned
<1>7. Verdict(all) = Verdict(step)
  BY <1>3, <1>5, <1>6 DEF Verdict
<1>8. DOM!Effect(all) = Verdict(all)
  <2>1. all.before \in Elements /\ all.after \in Elements /\ all.limit \in Nat
    BY <1>1
  <2> QED  BY <2>1, EffectIs
<1>9. DOM!Effect(step) = Verdict(step)
  BY EffectIs
<1> QED  BY <1>7, <1>8, <1>9 DEF all

LEMMA OfOnePath ==
  ASSUME NEW html \in Elements, Distinct(html)
  PROVE  /\ Cardinality(DOM!PathsOf(DOM!Records(html))) = Len(DOM!Seen(html))
         /\ \A i, j \in 1..Len(DOM!Seen(html)) :
              DOM!Path(DOM!Seen(html)[i], 4) = DOM!Path(DOM!Seen(html)[j], 4) => i = j
<1> DEFINE seen == DOM!Seen(html)
           n == Len(seen)
           paths == DOM!PathsOf(DOM!Records(html))
           f == [i \in 1..n |-> DOM!Path(seen[i], 4)]
<1>1. n \in Nat /\ paths = {DOM!Path(seen[i], 4) : i \in 1..n}
  BY RecordsAre, KeyedIs
<1>2. Cardinality(paths) = n
  BY DEF Distinct
<1> HIDE DEF paths, n, seen
<1>3. f \in Surjection(1..n, paths)
  BY <1>1, Fun_IsSurj
<1>4. IsFiniteSet(1..n) /\ Cardinality(1..n) = n
  BY <1>1, FS_Interval
<1> HIDE DEF f
<1>5. f \in Injection(1..n, paths)
  BY <1>2, <1>3, <1>4, FS_Surjection
<1>6. \A i, j \in 1..n : f[i] = f[j] => i = j
  BY <1>5, Fun_InjectionProperties
<1>7. \A i, j \in 1..n : DOM!Path(seen[i], 4) = DOM!Path(seen[j], 4) => i = j
  BY <1>6 DEF f
<1> QED  BY <1>2, <1>7 DEF n, seen, paths

LEMMA RecordHas ==
  ASSUME NEW c, NEW at, NEW rec, rec = DOM!Record(c, at)
  PROVE  /\ rec.root <=> c[1].el.tag \in {"html", "body"}
         /\ DOMAIN rec.css = Range(Signature)
         /\ \A q \in Range(Signature) : rec.css[q] = DOM!Css(c[1].el.css, q)
<1>1. rec.css = [p \in DOM!Range(Signature) |-> DOM!Css(c[1].el.css, p)]
  BY DEF DOM!Record
<1>2. DOM!Range(Signature) = Range(Signature)
  BY DEF DOM!Range, Range
<1>3. rec.root = (c[1].el.tag \in {"html", "body"})
  BY DEF DOM!Record
<1>4. rec.root <=> c[1].el.tag \in {"html", "body"}
  BY <1>3
<1> QED  BY <1>1, <1>2, <1>4

LEMMA SameIf ==
  ASSUME NEW c, NEW d, NEW i, NEW k, DOM!Path(c, 4) = DOM!Path(d, 4), NEW b, NEW a,
         b = DOM!Record(c, i), a = DOM!Record(d, k), ~ DOM!Differs(b, a)
  PROVE  Same(c, d)
<1>1. b.visible = a.visible /\ DOM!SignatureDiff(b, a) = {} /\ ~ DOM!Moved(b, a)
  BY DEF DOM!Differs
<1>2. /\ b.rect = DOM!Rect(c[1].el) /\ a.rect = DOM!Rect(d[1].el)
      /\ b.visible = DOM!Shown(c[1].el) /\ a.visible = DOM!Shown(d[1].el)
  BY RecordTold
<1>3. /\ a.root <=> d[1].el.tag \in {"html", "body"}
      /\ DOMAIN a.css = Range(Signature)
      /\ \A q \in Range(Signature) : a.css[q] = DOM!Css(d[1].el.css, q)
  BY RecordHas
<1>4. \A q \in Range(Signature) : b.css[q] = DOM!Css(c[1].el.css, q)
  BY RecordHas
<1>5. d[1].el.tag \notin {"html", "body"} =>
        \A n \in 1..4 : ~ DOM!Beyond(DOM!Rect(c[1].el)[n], DOM!Rect(d[1].el)[n])
  <2>1. ~ a.root => \A n \in 1..4 : ~ DOM!Beyond(b.rect[n], a.rect[n])
    BY <1>1 DEF DOM!Moved
  <2> QED  BY <1>2, <1>3, <2>1
<1>6. ASSUME NEW q \in {"color", "background-color", "display"}
      PROVE  DOM!CssValueEqual(DOM!Css(c[1].el.css, q), DOM!Css(d[1].el.css, q))
  <2>1. q \in Range(Signature) /\ q \in RootSignature
    BY SignatureGiven
  <2>2. q \in IF a.root THEN RootSignature \cap DOMAIN a.css ELSE DOMAIN a.css
    BY <1>3, <2>1
  <2>3. DOM!CssValueEqual(b.css[q], a.css[q])
    BY <1>1, <2>2 DEF DOM!SignatureDiff
  <2> QED  BY <1>3, <1>4, <2>1, <2>3
<1> QED  BY <1>1, <1>2, <1>5, <1>6 DEF Same

LEMMA NothingDiffers ==
  ASSUME NEW step, step.before \in Elements, step.after \in Elements, step.limit \in Nat,
         DOM!Effect(step) = "no_effect"
  PROVE  /\ DOMAIN Then(step) = DOMAIN Now(step)
         /\ \A p \in DOMAIN Now(step) : ~ DOM!Differs(Then(step)[p], Now(step)[p])
<1>1. Verdict(step) = "no_effect"
  BY EffectIs
<1>2. Came(step) = {} /\ Went(step) = {} /\ Altered(step) = {}
  <2> DEFINE styled == \E x \in Altered(step) : DOM!HasStyles(x)
  <2>1. (IF Came(step) # {} \/ Turned(step, TRUE) # {} THEN "revealed"
         ELSE IF Went(step) # {} \/ Turned(step, FALSE) # {} THEN "hidden"
         ELSE IF styled THEN "changed"
         ELSE IF Altered(step) # {} THEN "moved" ELSE "no_effect") = "no_effect"
    BY <1>1 DEF Verdict
  <2> HIDE DEF styled
  <2> QED  BY <2>1
<1>3. DOMAIN Then(step) = DOMAIN Now(step)
  BY <1>2 DEF Came, Went, Wholes
<1>4. Touched(step) = {}
  BY <1>2 DEF Altered
<1> QED  BY <1>3, <1>4 DEF Touched

LEMMA NothingTrue ==
  ASSUME NEW step, step.before \in Elements, step.after \in Elements, step.limit \in Nat,
         DOM!Effect(step) = "no_effect", Distinct(step.before), Distinct(step.after)
  PROVE  /\ Len(DOM!Seen(step.before)) = Len(DOM!Seen(step.after))
         /\ \A j \in DOMAIN DOM!Seen(step.before) : \E k \in DOMAIN DOM!Seen(step.after) :
              Same(DOM!Seen(step.before)[j], DOM!Seen(step.after)[k])
<1> DEFINE before == DOM!Seen(step.before)
           after == DOM!Seen(step.after)
<1>1. /\ DOMAIN Then(step) = DOMAIN Now(step)
      /\ \A p \in DOMAIN Now(step) : ~ DOM!Differs(Then(step)[p], Now(step)[p])
  BY NothingDiffers
<1>2. Len(before) = Len(after)
  <2>1. Cardinality(DOM!PathsOf(DOM!Records(step.before))) = Len(before)
    BY OfOnePath
  <2>2. Cardinality(DOM!PathsOf(DOM!Records(step.after))) = Len(after)
    BY OfOnePath
  <2> QED  BY <1>1, <2>1, <2>2, KeysAre
<1>3. DOMAIN before = 1..Len(before) /\ DOMAIN after = 1..Len(after)
  <2>1. before \in Seq(Lines) /\ after \in Seq(Lines)
    BY SeenIs
  <2> QED  BY <2>1
<1>4. ASSUME NEW j \in 1..Len(before)
      PROVE  \E k \in 1..Len(after) : Same(before[j], after[k])
  <2> DEFINE p == DOM!Path(before[j], 4)
             b == Then(step)[p]
             a == Now(step)[p]
  <2>1. p \in DOMAIN Then(step) /\ p \in DOMAIN Now(step)
    BY <1>1, KeysAre, KeyedIs
  <2>2. Stands(step.before, p, b) /\ Stands(step.after, p, a)
    BY <2>1, KeysAre
  <2>3. ~ DOM!Differs(b, a)
    BY <1>1, <2>1
  <2> HIDE DEF a, b
  <2>4. PICK i \in 1..Len(before) : b = DOM!Record(before[i], i) /\ DOM!Path(before[i], 4) = p
    BY <2>2 DEF Stands
  <2>5. i = j
    BY <2>4, OfOnePath
  <2>6. PICK k \in 1..Len(after) : a = DOM!Record(after[k], k) /\ DOM!Path(after[k], 4) = p
    BY <2>2 DEF Stands
  <2> DEFINE c == before[j]
             d == after[k]
  <2>7. DOM!Path(c, 4) = DOM!Path(d, 4) /\ b = DOM!Record(c, j) /\ a = DOM!Record(d, k)
    BY <2>4, <2>5, <2>6
  <2> HIDE DEF c, d
  <2>8. Same(c, d)
    BY <2>3, <2>7, SameIf
  <2> QED  BY <2>6, <2>8 DEF c, d
<1> QED  BY <1>2, <1>3, <1>4
=============================================================================
