------------------------------ MODULE FileProofs ------------------------------
(***************************************************************************)
(* Proofs about what an invocation asks for and about the files that the   *)
(* tool leaves: the configuration of a capture, whichever surface is asked *)
(* for it; the files of SnapshotStore, for any savers on either surface,   *)
(* any targets, payloads of any length and any time; those of              *)
(* SniffCommands, for any invocations, batches of any length, any texts    *)
(* and any time; and what captures say of their pages, for any pages, as   *)
(* deep as they are.                                                       *)
(***************************************************************************)
EXTENDS PageProofs, SnapshotStore, SniffCommands, SequenceTheorems, FiniteSetTheorems, FunctionTheorems, TLAPS

-----------------------------------------------------------------------------
(* CaptureCommand: a request of sniff_page and the command line that spells it out.  Of its
   interactions, the parsers find in the tokens what was put there (ActionsAgree); of its
   headers, the order in which the flags list them does not matter (HeadersAgree); the other
   options are handed on by both surfaces (ConfigsAgree). *)

\* A sequence is the function of its places.
LEMMA SeqIs ==
  ASSUME NEW S, NEW q \in Seq(S)
  PROVE  Len(q) \in Nat /\ q \in [1..Len(q) -> S] /\ DOMAIN q = 1..Len(q) /\ q = [k \in 1..Len(q) |-> q[k]]
OBVIOUS

\* Of the first n numbers, k are no more than k.
LEMMA CountTo ==
  ASSUME NEW n \in Nat
  PROVE  /\ Cardinality(1..n) = n /\ IsFiniteSet(1..n)
         /\ \A k \in 1..n : Cardinality({j \in 1..n : j <= k}) = k
<1>1. Cardinality(1..n) = n /\ IsFiniteSet(1..n)
  BY FS_Interval
<1>2. ASSUME NEW k \in 1..n PROVE Cardinality({j \in 1..n : j <= k}) = k
  <2>1. {j \in 1..n : j <= k} = 1..k /\ k \in Nat /\ 1 <= k
    OBVIOUS
  <2>2. Cardinality(1..k) = k
    BY <2>1, FS_Interval
  <2> QED BY <2>1, <2>2
<1> QED BY <1>1, <1>2

\* Nothing is dropped from a list without empty parts.
LEMMA NonEmptyAll ==
  ASSUME NEW S, "" \notin S, NEW q \in Seq(S)
  PROVE  NonEmpty(q) = q
<1> DEFINE kept == {i \in DOMAIN q : q[i] # ""}
           nth(k) == CHOOSE i \in kept : Cardinality({j \in kept : j <= i}) = k
           n == Len(q)
<1>0. n \in Nat /\ q \in [1..n -> S] /\ DOMAIN q = 1..n /\ q = [k \in 1..n |-> q[k]]
  BY SeqIs
<1>1. kept = 1..n
  BY ONLY <1>0, "" \notin S, Zenon
<1>5. NonEmpty(q) = [k \in 1..Cardinality(kept) |-> q[nth(k)]]
  BY DEF NonEmpty
<1> HIDE DEF kept, n
<1>2. Cardinality(kept) = n /\ \A k \in 1..n : Cardinality({j \in kept : j <= k}) = k
  BY <1>0, <1>1, CountTo
<1>4. \A k \in 1..n : nth(k) = k
  BY <1>1, <1>2
<1> QED
  BY <1>0, <1>2, <1>4, <1>5, Zenon

\* What comes first in two sequences, one after the other.
LEMMA Parts ==
  ASSUME NEW S, NEW s \in Seq(S), NEW t \in Seq(S), s # << >>
  PROVE  /\ Len(s) \in Nat \ {0} /\ Len(t) \in Nat /\ s \o t \in Seq(S) /\ Len(s \o t) = Len(s) + Len(t)
         /\ DOMAIN (s \o t) = 1..(Len(s) + Len(t))
         /\ \A i \in 1..Len(s) : (s \o t)[i] = s[i]
         /\ \A i \in 1..Len(t) : (s \o t)[Len(s) + i] = t[i]
         /\ SubSeq(s \o t, 1, Len(s)) = s
<1>1. Len(s) \in Nat \ {0} /\ Len(t) \in Nat
  OBVIOUS
<1>2. s \o t \in Seq(S) /\ Len(s \o t) = Len(s) + Len(t)
  OBVIOUS
<1>3. DOMAIN (s \o t) = 1..(Len(s) + Len(t))
  BY <1>1, <1>2
<1>4. \A i \in 1..Len(s) : (s \o t)[i] = s[i]
  BY <1>1
<1>5. \A i \in 1..Len(t) : (s \o t)[Len(s) + i] = t[i]
  <2>1. TAKE i \in 1..Len(t)
  <2> QED BY <1>1
<1>6. SubSeq(s \o t, 1, Len(s)) = s
  BY <1>1, SubSeqOfConcat1, SubSeqFull
<1> QED  BY <1>1, <1>2, <1>3, <1>4, <1>5, <1>6

\* What comes after it.
LEMMA PartsAfter ==
  ASSUME NEW S, NEW s \in Seq(S), NEW t \in Seq(S), s # << >>
  PROVE  SubSeq(s \o t, Len(s) + 1, Len(s \o t)) = t
<1>1. Len(s) \in Nat \ {0} /\ Len(t) \in Nat /\ Len(s \o t) = Len(s) + Len(t)
  BY Parts
<1>2. CASE t = << >>
  <2>1. Len(t) = 0
    BY <1>2
  <2>2. SubSeq(s \o t, Len(s) + 1, Len(s \o t)) = << >>
    BY <1>1, <2>1, SubSeqEmpty
  <2> QED BY <2>2, <1>2
<1>3. CASE t # << >>
  <2>1. Len(t) > 0
    BY <1>3
  <2>2. SubSeq(s \o t, Len(s) + 1, Len(s \o t)) = SubSeq(t, Len(s) + 1 - Len(s), Len(s) + Len(t) - Len(s))
    BY <1>1, <2>1, SubSeqOfConcat2
  <2>3. Len(s) + 1 - Len(s) = 1 /\ Len(s) + Len(t) - Len(s) = Len(t)
    BY <1>1
  <2> QED BY <2>2, <2>3, SubSeqFull
<1> QED BY <1>2, <1>3

\* n numbers follow on m.
LEMMA CountUpTo ==
  ASSUME NEW m \in Nat, NEW n \in Nat
  PROVE  Cardinality((m + 1)..(m + n)) = n
<1>1. m + 1 \in Int /\ m + n \in Int /\ (IF m + 1 > m + n THEN 0 ELSE (m + n) - (m + 1) + 1) = n
  OBVIOUS
<1> QED BY <1>1, FS_Interval

\* A selector that ends in no number is followed by its options alone.
LEMMA OptionsTrail ==
  ASSUME NEW S, NEW s \in Seq(S), s # << >>, ~ Last(s).digits,
         NEW t \in Seq(S), \A i \in 1..Len(t) : t[i].digits
  PROVE  Trailing(s \o t) = Len(t)
<1> DEFINE q == s \o t
           ends(i) == \A j \in i..Len(q) : q[j].digits
<1>1. /\ Len(s) \in Nat \ {0} /\ Len(t) \in Nat /\ Len(q) = Len(s) + Len(t)
      /\ DOMAIN q = 1..(Len(s) + Len(t))
      /\ \A i \in 1..Len(s) : q[i] = s[i]
      /\ \A i \in 1..Len(t) : q[Len(s) + i] = t[i]
  BY Parts
<1>2. Last(s) = s[Len(s)]
  BY DEF Last
<1> HIDE DEF q
<1>3. ASSUME NEW i \in 1..Len(s) PROVE ~ ends(i)
  <2>1. Len(s) \in i..Len(q) /\ q[Len(s)] = s[Len(s)]
    BY <1>1
  <2> QED BY <1>2, <2>1
<1>4. ASSUME NEW i \in (Len(s) + 1)..(Len(s) + Len(t)) PROVE ends(i)
  <2>1. TAKE j \in i..Len(q)
  <2>2. j - Len(s) \in 1..Len(t) /\ Len(s) + (j - Len(s)) = j
    BY <1>1
  <2> QED BY <1>1, <2>2
<1>5. {i \in DOMAIN q : ends(i)} = (Len(s) + 1)..(Len(s) + Len(t))
  <2>1. DOMAIN q = 1..Len(s) \cup (Len(s) + 1)..(Len(s) + Len(t))
    BY <1>1
  <2> HIDE DEF ends
  <2> QED BY <1>3, <1>4, <2>1, Zenon
<1>6. Trailing(q) = Cardinality((Len(s) + 1)..(Len(s) + Len(t)))
  BY <1>5 DEF Trailing
<1> QED BY <1>1, <1>6, CountUpTo DEF q

\* So the parser of click: and hover: finds the selector and each of the options.
LEMMA PointerParsed ==
  ASSUME NEW S, NEW s \in Seq(S), s \notin {<< >>, <<Blank>>}, ~ Last(s).digits,
         NEW t \in Seq(S), \A i \in 1..Len(t) : t[i].digits, Len(t) <= 2, NEW kind
  PROVE  ParsePointer([kind |-> kind, tokens |-> s \o t]) =
           Ok(Action(kind, s, << >>, IF Len(t) >= 1 THEN t[1].n ELSE DefaultTimeoutMs,
                                     IF Len(t) = 2 THEN t[2].n ELSE DefaultSettleMs))
<1> DEFINE q == s \o t
<1>1. /\ Len(s) \in Nat \ {0} /\ Len(t) \in Nat /\ Len(q) = Len(s) + Len(t)
      /\ \A i \in 1..Len(t) : q[Len(s) + i] = t[i]
      /\ SubSeq(q, 1, Len(s)) = s
  BY Parts
<1>2. Trailing(q) = Len(t)
  BY OptionsTrail
<1> HIDE DEF q
<1>3. Len(q) - Trailing(q) = Len(s)
  BY <1>1, <1>2
<1> DEFINE spec == [kind |-> kind, tokens |-> q]
<1>4. spec.kind = kind /\ spec.tokens = q
  OBVIOUS
<1> HIDE DEF spec
<1>5. ParsePointer(spec) =
        Ok(Action(kind, s, << >>, IF Len(t) >= 1 THEN q[Len(s) + 1].n ELSE DefaultTimeoutMs,
                                  IF Len(t) = 2 THEN q[Len(s) + 2].n ELSE DefaultSettleMs))
  <2>1. ~ (Len(t) > 2)
    BY <1>1
  <2> QED BY <1>1, <1>2, <1>3, <1>4, <2>1 DEF ParsePointer
<1>6. Len(t) >= 1 => q[Len(s) + 1] = t[1]
  BY <1>1
<1>7. Len(t) = 2 => q[Len(s) + 2] = t[2]
  BY <1>1
<1> QED
  BY <1>5, <1>6, <1>7 DEF q, spec

\* A sequence of one element.
LEMMA OneIs ==
  ASSUME NEW S, NEW s \in Seq(S), Len(s) = 1
  PROVE  s # << >> /\ s = <<s[1]>>
OBVIOUS

\* The parser of type: and upload: finds the selector and what is to be entered.
LEMMA EntryParsed ==
  ASSUME NEW S, NEW s \in Seq(S), Len(s) = 1, s # <<Blank>>, NEW t \in Seq(S), NEW kind
  PROVE  ParseEntry([kind |-> kind, tokens |-> s \o t]) =
           IF t \in {<< >>, <<Blank>>} THEN Failed
           ELSE Ok(Action(kind, s, IF kind = "type" THEN t ELSE NonEmpty(t[1].parts),
                          DefaultTimeoutMs, DefaultSettleMs))
<1> DEFINE q == s \o t
<1>1. /\ Len(t) \in Nat /\ Len(q) = 1 + Len(t) /\ q[1] = s[1] /\ SubSeq(q, 1, 1) = s
      /\ SubSeq(q, 2, Len(q)) = t /\ s = <<s[1]>>
  <2>1. s # << >> /\ s = <<s[1]>>
    BY OneIs
  <2> QED BY <2>1, Parts, PartsAfter
<1>2. s[1] # Blank /\ q # << >> /\ q # <<Blank>>
  <2>1. s[1] # Blank
    BY <1>1
  <2>2. Len(<< >>) = 0
    OBVIOUS
  <2>3. <<Blank>>[1] = Blank
    OBVIOUS
  <2> HIDE DEF q
  <2> QED BY <1>1, <2>1, <2>2, <2>3
<1> HIDE DEF q
<1> DEFINE spec == [kind |-> kind, tokens |-> q]
<1>4. spec.kind = kind /\ spec.tokens = q
  OBVIOUS
<1> HIDE DEF spec
<1>5. ParseEntry(spec) =
           IF t \in {<< >>, <<Blank>>} THEN Failed
           ELSE Ok(Action(kind, s, IF kind = "type" THEN t ELSE NonEmpty(t[1].parts),
                          DefaultTimeoutMs, DefaultSettleMs))
  BY <1>1, <1>2, <1>4 DEF ParseEntry
<1> QED BY <1>5 DEF q, spec

\* Options one after the other.
LEMMA Pairs ==
  ASSUME NEW x, NEW y
  PROVE  <<x>> \o <<y>> = <<x, y>> /\ <<x>> \o << >> = <<x>> /\ << >> \o << >> = << >>
<1> DEFINE S == {x, y}
<1>1. x \in S /\ y \in S
  OBVIOUS
<1> HIDE DEF S
<1>2. <<x>> \in Seq(S) /\ <<y>> \in Seq(S) /\ << >> \in Seq(S)
  BY <1>1
<1>3. <<x>> \o << >> = <<x>> /\ << >> \o << >> = << >>
  BY <1>2, ConcatEmptySeq
<1>4. Append(<<x>>, y) = <<x, y>>
  <2> DEFINE q == Append(<<x>>, y)
             r == <<x, y>>
  <2>1. q \in Seq(S) /\ Len(q) = 2 /\ q[1] = x /\ q[2] = y
    BY <1>1, <1>2, AppendProperties
  <2>2. r \in Seq(S) /\ Len(r) = 2 /\ r[1] = x /\ r[2] = y
    BY <1>1
  <2> HIDE DEF q, r
  <2>3. q = [k \in 1..2 |-> q[k]] /\ r = [k \in 1..2 |-> r[k]]
    BY <2>1, <2>2, SeqIs
  <2>4. \A k \in 1..2 : q[k] = r[k]
    BY <2>1, <2>2
  <2> QED BY <2>3, <2>4 DEF q, r
<1>5. <<x>> \o <<y>> = Append(<<x>>, y)
  BY <1>1, <1>2, AppendIsConcat
<1> QED BY <1>3, <1>4, <1>5

\* An interaction written out on the command line is parsed as the interaction of the request.
LEMMA ActionsAgree ==
  ASSUME NEW input, Expressible(input)
  PROVE  ParseAction(SpecOf(input)) = ActionFromInput(input)
<1> DEFINE s == input.selector
           tail(k) == [kind |-> input.kind, tokens |-> s \o k]
<1>0. s \in Seq(Token) /\ s \notin {<< >>, <<Blank>>}
  BY DEF Expressible
<1>1. CASE input.kind \notin {"click", "hover", "type", "upload"}
  <2>1. SpecOf(input).kind = input.kind
    BY DEF SpecOf
  <2> QED BY <1>1, <2>1 DEF ParseAction, ActionFromInput
<1>2. CASE input.kind \in {"click", "hover"}
  <2> DEFINE a == IF input.timeout = {} THEN DefaultTimeoutMs ELSE CHOOSE n \in input.timeout : TRUE
             b == IF input.settle = {} THEN DefaultSettleMs ELSE CHOOSE n \in input.settle : TRUE
             t == IF input.settle # {} THEN <<Ms(a), Ms(b)>>
                  ELSE IF input.timeout # {} THEN <<Ms(a)>> ELSE << >>
             S == Token \cup {Ms(a), Ms(b)}
  <2>1. SpecOf(input) = tail(t)
    <3>1. SpecOf(input) =
            tail((IF input.timeout \cup input.settle = {} THEN << >> ELSE <<Ms(a)>>)
                 \o (IF input.settle = {} THEN << >> ELSE <<Ms(b)>>))
      BY <1>2 DEF SpecOf
    <3>2. (IF input.timeout \cup input.settle = {} THEN << >> ELSE <<Ms(a)>>)
            \o (IF input.settle = {} THEN << >> ELSE <<Ms(b)>>) = t
      <4> HIDE DEF a, b
      <4>1. <<Ms(a)>> \o <<Ms(b)>> = <<Ms(a), Ms(b)>> /\ <<Ms(a)>> \o << >> = <<Ms(a)>> /\ << >> \o << >> = << >>
        BY Pairs
      <4>2. CASE input.settle # {}
        BY <4>1, <4>2
      <4>3. CASE input.settle = {} /\ input.timeout # {}
        BY <4>1, <4>3
      <4>4. CASE input.settle = {} /\ input.timeout = {}
        BY <4>1, <4>4
      <4> QED BY <4>2, <4>3, <4>4
    <3> QED BY <3>1, <3>2
  <2>2. ~ Last(s).digits
    BY <1>2 DEF Expressible
  <2> HIDE DEF a, b
  <2>3. /\ t \in Seq(S) /\ \A i \in 1..Len(t) : t[i].digits
        /\ Len(t) = IF input.settle # {} THEN 2 ELSE IF input.timeout # {} THEN 1 ELSE 0
        /\ Len(t) >= 1 => t[1].n = a
        /\ Len(t) = 2 => t[2].n = b
    <3>1. Ms(a).digits /\ Ms(b).digits /\ Ms(a).n = a /\ Ms(b).n = b
      BY DEF Ms
    <3>2. Ms(a) \in S /\ Ms(b) \in S
      OBVIOUS
    <3> HIDE DEF S
    <3>3. CASE input.settle # {}
      <4>1. t = <<Ms(a), Ms(b)>>
        BY <3>3
      <4> HIDE DEF t
      <4> QED BY <3>1, <3>2, <3>3, <4>1
    <3>4. CASE input.settle = {} /\ input.timeout # {}
      <4>1. t = <<Ms(a)>>
        BY <3>4
      <4> HIDE DEF t
      <4> QED BY <3>1, <3>2, <3>4, <4>1
    <3>5. CASE input.settle = {} /\ input.timeout = {}
      <4>1. t = << >>
        BY <3>5
      <4> HIDE DEF t
      <4> QED BY <3>5, <4>1
    <3> QED BY <3>3, <3>4, <3>5
  <2>4. s \in Seq(S)
    <3>1. Token \subseteq S
      OBVIOUS
    <3> HIDE DEF S, s
    <3> QED BY <1>0, <3>1
  <2> HIDE DEF t, s, S
  <2>5. Len(t) \in Nat /\ Len(t) <= 2
    BY <2>3
  <2>6. ParsePointer(tail(t)) =
           Ok(Action(input.kind, s, << >>, IF Len(t) >= 1 THEN t[1].n ELSE DefaultTimeoutMs,
                                           IF Len(t) = 2 THEN t[2].n ELSE DefaultSettleMs))
    BY <1>0, <2>2, <2>3, <2>4, <2>5, PointerParsed
  <2>7. /\ (IF Len(t) >= 1 THEN t[1].n ELSE DefaultTimeoutMs) = a
        /\ (IF Len(t) = 2 THEN t[2].n ELSE DefaultSettleMs) = b
    <3>1. CASE input.settle # {}
      BY <2>3, <3>1
    <3>2. CASE input.settle = {} /\ input.timeout # {}
      BY <2>3, <3>2 DEF b
    <3>3. CASE input.settle = {} /\ input.timeout = {}
      BY <2>3, <3>3 DEF a, b
    <3> QED BY <3>1, <3>2, <3>3
  <2>8. ActionFromInput(input) = Ok(Action(input.kind, s, << >>, a, b))
    BY <1>2 DEF ActionFromInput, a, b, s
  <2>9. ParseAction(tail(t)) = ParsePointer(tail(t))
    BY <1>2 DEF ParseAction
  <2> QED BY <2>1, <2>6, <2>7, <2>8, <2>9
<1>3. CASE input.kind \in {"type", "upload"}
  <2>1. Len(s) = 1 /\ s # <<Blank>>
    BY <1>0, <1>3 DEF Expressible
  <2>2. CASE input.given = {}
    <3>1. SpecOf(input) = tail(<< >>)
      BY <1>3, <2>2 DEF SpecOf
    <3>2. << >> \in Seq(Token)
      OBVIOUS
    <3> HIDE DEF s
    <3>3. ParseEntry(tail(<< >>)) = Failed
      BY <1>0, <2>1, <3>2, EntryParsed
    <3>4. ParseAction(tail(<< >>)) = Failed
      BY <1>3, <3>3 DEF ParseAction
    <3> QED BY <1>3, <2>2, <3>1, <3>4 DEF ActionFromInput
  <2>3. ASSUME NEW given, input.given = {given}
        PROVE  ParseAction(SpecOf(input)) = ActionFromInput(input)
    <3>0. (CHOOSE g \in input.given : TRUE) = given
      BY <2>3
    <3>1. input.timeout = {} /\ input.settle = {}
      BY <1>3 DEF Expressible
    <3>2. ActionFromInput(input) =
            IF input.kind = "upload" /\ given = << >> THEN Failed
            ELSE Ok(Action(input.kind, s, given, DefaultTimeoutMs, DefaultSettleMs))
      <4>1. input.given = {<< >>} <=> given = << >>
        BY <2>3
      <4>2. input.given # {}
        BY <2>3
      <4> QED BY <1>3, <3>0, <3>1, <4>1, <4>2 DEF ActionFromInput
    <3>3. CASE input.kind = "type"
      <4>1. given \in Seq(Token) /\ given \notin {<< >>, <<Blank>>}
        BY <2>3, <3>3 DEF Expressible
      <4>2. SpecOf(input) = tail(given)
        BY <2>3, <3>0, <3>3 DEF SpecOf
      <4> HIDE DEF s
      <4>3. ParseEntry(tail(given)) = Ok(Action(input.kind, s, given, DefaultTimeoutMs, DefaultSettleMs))
        BY <1>0, <2>1, <3>3, <4>1, EntryParsed
      <4>4. ParseAction(tail(given)) = ParseEntry(tail(given))
        BY <3>3 DEF ParseAction
      <4> QED BY <3>2, <3>3, <4>2, <4>3, <4>4
    <3>4. CASE input.kind = "upload"
      <4> DEFINE part == IF given = << >> THEN Blank ELSE List(given)
                 S == Token \cup {part}
      <4>1. given \in Seq(STRING \ {""})
        BY <2>3, <3>4 DEF Expressible
      <4>2. SpecOf(input) = tail(<<part>>)
        BY <2>3, <3>0, <3>4 DEF SpecOf
      <4>3. given # << >> => part # Blank /\ part.parts = given
        <5>1. SUFFICES ASSUME given # << >> PROVE part # Blank /\ part.parts = given
          OBVIOUS
        <5>2. part = List(given)
          BY <5>1
        <5>3. List(given).parts = given /\ Blank.parts = <<"">>
          BY DEF List, Blank, Word
        <5>4. given # <<"">>
          <6>1. <<"">>[1] = "" /\ Len(<<"">>) = 1
            OBVIOUS
          <6>2. Len(given) = 1 => given[1] \in STRING \ {""}
            <7>1. given \in [1..Len(given) -> STRING \ {""}]
              BY <4>1, SeqIs, Zenon
            <7>2. 1 \in 1..1
              OBVIOUS
            <7> QED BY <7>1, <7>2, Zenon
          <6> QED BY <6>1, <6>2
        <5> QED BY <5>2, <5>3, <5>4
      <4>4. part \in S /\ Token \subseteq S
        OBVIOUS
      <4> HIDE DEF part, S, s
      <4>5. <<part>> \in Seq(S) /\ <<part>> # << >> /\ (<<part>> = <<Blank>> <=> part = Blank) /\ <<part>>[1] = part
        BY <4>4
      <4>6. s \in Seq(S)
        BY <1>0, <4>4
      <4>7. ParseEntry(tail(<<part>>)) =
              IF part = Blank THEN Failed
              ELSE Ok(Action(input.kind, s, NonEmpty(part.parts), DefaultTimeoutMs, DefaultSettleMs))
        BY <2>1, <3>4, <4>5, <4>6, EntryParsed
      <4>8. given = << >> => part = Blank
        BY DEF part
      <4>9. NonEmpty(given) = given
        BY <4>1, NonEmptyAll
      <4>10. ParseAction(tail(<<part>>)) = ParseEntry(tail(<<part>>))
        BY <3>4 DEF ParseAction
      <4> QED BY <3>2, <3>4, <4>2, <4>3, <4>7, <4>8, <4>9, <4>10
    <3> QED BY <1>3, <3>3, <3>4
  <2> QED BY <1>3, <2>2, <2>3 DEF Expressible
<1> QED BY <1>1, <1>2, <1>3

\* A finite set is listed with each of its elements once.
LEMMA Listing ==
  ASSUME NEW S, IsFiniteSet(S)
  PROVE  /\ Cardinality(S) \in Nat
         /\ SetToSeq(S) \in [1..Cardinality(S) -> S]
         /\ \A i, j \in 1..Cardinality(S) : SetToSeq(S)[i] = SetToSeq(S)[j] => i = j
         /\ \A x \in S : \E i \in 1..Cardinality(S) : SetToSeq(S)[i] = x
<1> DEFINE n == Cardinality(S)
           f == SetToSeq(S)
<1>1. n \in Nat /\ ExistsBijection(1..n, S)
  BY FS_CardinalityType
<1>2. PICK g \in Bijection(1..n, S) : TRUE
  BY <1>1 DEF ExistsBijection
<1>3. g \in [1..n -> S] /\ IsInjective(g)
  BY <1>2 DEF Bijection, Injection
<1>4. f \in [1..n -> S] /\ IsInjective(f)
  BY <1>3 DEF SetToSeq
<1>5. Cardinality(1..n) = n
  BY <1>1, FS_Interval
<1>6. f \in Injection(1..n, S)
  BY <1>4 DEF Injection
<1>7. f \in Surjection(1..n, S)
  BY <1>5, <1>6, FS_Injection
<1> QED BY <1>1, <1>4, <1>7 DEF Surjection, IsInjective

\* A pair.
LEMMA PairIs ==
  ASSUME NEW x, NEW y
  PROVE  <<x, y>>[1] = x /\ <<x, y>>[2] = y /\ Range(<<x, y>>) = {x, y}
<1>1. 1..2 = {1, 2} /\ DOMAIN <<x, y>> = 1..2 /\ <<x, y>>[1] = x /\ <<x, y>>[2] = y
  OBVIOUS
<1> QED BY ONLY <1>1 DEF Range

\* The headers of a request, written out as flags, go over those of the environment as its own do.
LEMMA HeadersAgree ==
  ASSUME NEW own, NEW env, IsFiniteSet(DOMAIN own),
         \A h \in DOMAIN own : h # "" /\ own[h] # "",
         ~ env.malformed, "number" \notin Range(env.headers)
  PROVE  MergeHeaders(env, SetToSeq({<<h, own[h]>> : h \in DOMAIN own})) =
           Ok([h \in DOMAIN own \cup DOMAIN env.headers |->
                 IF h \in DOMAIN own THEN own[h] ELSE env.headers[h]])
<1> DEFINE S == {<<h, own[h]>> : h \in DOMAIN own}
           specs == SetToSeq(S)
           n == Cardinality(S)
           named(h) == {i \in DOMAIN specs : specs[i][1] = h}
           strings == {h \in DOMAIN env.headers : env.headers[h] # "number"}
           flags == {specs[i][1] : i \in DOMAIN specs}
           last(h) == CHOOSE i \in named(h) : \A j \in named(h) : j <= i
<1>0. \A x \in S : x[1] \in DOMAIN own /\ x[2] = own[x[1]] /\ x = <<x[1], own[x[1]]>>
  <2>1. TAKE x \in S
  <2>2. PICK h \in DOMAIN own : x = <<h, own[h]>>
    OBVIOUS
  <2>3. <<h, own[h]>>[1] = h /\ <<h, own[h]>>[2] = own[h]
    BY PairIs
  <2> QED BY ONLY <2>2, <2>3
<1>1. IsFiniteSet(S)
  <2> DEFINE pair == [h \in DOMAIN own |-> <<h, own[h]>>]
  <2>1. pair \in Surjection(DOMAIN own, S)
    BY Zenon DEF Surjection
  <2> QED BY <2>1, FS_Surjection
<1>2. /\ DOMAIN specs = 1..n
      /\ \A i \in 1..n : specs[i] \in S
      /\ \A i, j \in 1..n : specs[i] = specs[j] => i = j
      /\ \A x \in S : \E i \in 1..n : specs[i] = x
  BY <1>1, Listing
<1>3. \A i \in 1..n : specs[i][1] \in DOMAIN own /\ specs[i] = <<specs[i][1], own[specs[i][1]]>>
  <2> HIDE DEF S, specs, n
  <2> QED BY ONLY <1>0, <1>2
<1>4. \A h \in DOMAIN own : \E i \in 1..n : specs[i] = <<h, own[h]>>
  BY <1>2
<1> HIDE DEF specs, S, n
<1>5. \A i \in DOMAIN specs : "" \notin Range(specs[i])
  <2>1. TAKE i \in DOMAIN specs
  <2>2. PICK h \in DOMAIN own : specs[i] = <<h, own[h]>>
    BY ONLY <1>2, <1>3, i \in DOMAIN specs
  <2>3. Range(<<h, own[h]>>) = {h, own[h]}
    BY PairIs
  <2> QED BY <2>2, <2>3
<1>6. flags = DOMAIN own
  <2>1. \A i \in DOMAIN specs : specs[i][1] \in DOMAIN own
    BY <1>2, <1>3
  <2>2. \A h \in DOMAIN own : \E i \in DOMAIN specs : specs[i][1] = h
    <3>1. TAKE h \in DOMAIN own
    <3>2. PICK i \in 1..n : specs[i] = <<h, own[h]>>
      BY <1>4
    <3>3. <<h, own[h]>>[1] = h
      BY PairIs
    <3> QED BY <1>2, <3>2, <3>3
  <2> QED BY ONLY <2>1, <2>2
<1>7. strings = DOMAIN env.headers
  BY DEF Range
<1>8. \A h \in DOMAIN own : named(h) # {} /\ specs[last(h)][2] = own[h]
  <2>1. TAKE h \in DOMAIN own
  <2>2. PICK i \in 1..n : specs[i] = <<h, own[h]>>
    BY <1>4
  <2>3. \A j \in 1..n : specs[j][1] = h => j = i
    BY ONLY <1>2, <1>3, <2>2
  <2>4. <<h, own[h]>>[1] = h /\ <<h, own[h]>>[2] = own[h]
    BY PairIs
  <2>5. named(h) = {i}
    <3>1. \A j \in DOMAIN specs : specs[j][1] = h <=> j = i
      BY <1>2, <2>2, <2>3, <2>4
    <3>2. i \in DOMAIN specs
      BY <1>2
    <3> QED BY <3>1, <3>2, Zenon
  <2>6. i <= i
    <3>1. i \in Int
      BY ONLY <1>2, <2>2
    <3> QED BY ONLY <3>1
  <2> HIDE DEF named
  <2>7. last(h) = i
    BY <2>5, <2>6
  <2> QED BY <2>2, <2>4, <2>5, <2>7
<1>9. \A h : h \notin DOMAIN own => named(h) = {}
  BY ONLY <1>2, <1>3
<1>10. MergeHeaders(env, specs) =
         Ok([h \in strings \cup flags |-> IF named(h) = {} THEN env.headers[h] ELSE specs[last(h)][2]])
  <2> HIDE DEF last
  <2> QED BY <1>5 DEF MergeHeaders, last
<1> HIDE DEF named, last, strings, flags
<1>11. [h \in strings \cup flags |-> IF named(h) = {} THEN env.headers[h] ELSE specs[last(h)][2]] =
       [h \in DOMAIN own \cup DOMAIN env.headers |-> IF h \in DOMAIN own THEN own[h] ELSE env.headers[h]]
  <2>1. strings \cup flags = DOMAIN own \cup DOMAIN env.headers
    BY <1>6, <1>7
  <2> QED BY <1>8, <1>9, <2>1
<1> QED BY <1>10, <1>11 DEF specs, S

\* The specs of the command line are those of the request's interactions.
LEMMA SpecsAgree ==
  ASSUME NEW request
  PROVE  ActionSpecs(CommandLine(request)) = [k \in DOMAIN request.actions |-> SpecOf(request.actions[k])]
<1> DEFINE args == CommandLine(request)
           specs == [k \in DOMAIN request.actions |-> SpecOf(request.actions[k])]
<1>1. args.actions = specs /\ args.shortcuts = [click |-> << >>, hover |-> << >>, type |-> << >>, upload |-> << >>]
  BY DEF CommandLine
<1> SUFFICES ActionSpecs(args) = specs
  OBVIOUS
<1> HIDE DEF args
<1>2. CASE specs # << >>
  <2> HIDE DEF specs
  <2> QED BY ONLY <1>1, <1>2, Zenon DEF ActionSpecs
<1>3. CASE specs = << >>
  <2>1. \A kind, f : [i \in DOMAIN << >> |-> f[i]] = << >>
    OBVIOUS
  <2>2. << >> \o << >> \o << >> \o << >> = << >>
    OBVIOUS
  <2>3. ActionSpecs(args) =
          LET of(kind) == [i \in DOMAIN args.shortcuts[kind] |-> [kind |-> kind, tokens |-> args.shortcuts[kind][i]]]
          IN  of("click") \o of("hover") \o of("type") \o of("upload")
    <3> HIDE DEF specs
    <3> QED BY ONLY <1>1, <1>3, Zenon DEF ActionSpecs
  <2> QED BY <1>1, <1>3, <2>2, <2>3
<1> QED BY <1>2, <1>3

\* A request and the command line that spells it out are the same configuration.
LEMMA ConfigsAgree ==
  ASSUME NEW request, NEW env,
         request.url.scheme # "none", request.selector # Blank, IsFiniteSet(DOMAIN request.headers),
         \A h \in DOMAIN request.headers : h # "" /\ request.headers[h] # "",
         \A k \in DOMAIN request.actions : Expressible(request.actions[k]),
         env.base_url = "", env.storage_state = "", ~ env.malformed, "number" \notin Range(env.headers)
  PROVE  IntoConfig(CommandLine(request), env) = BuildSniffConfigWith(request, FromEnv(env))
<1> DEFINE args == CommandLine(request)
           defaults == FromEnv(env)
           own == request.headers
           wait == IF request.wait = << >> THEN Ok(DefaultPipeline(request.selector))
                   ELSE Collect([i \in DOMAIN request.wait |-> ParseWaitStrategy(request.wait[i])])
           actions == Collect([i \in DOMAIN request.actions |-> ActionFromInput(request.actions[i])])
           merged == [h \in DOMAIN own \cup DOMAIN env.headers |->
                        IF h \in DOMAIN own THEN own[h] ELSE env.headers[h]]
           viewport == ParseViewport(request.viewport)
           format == ParseFormat(request.format)
           categories == ParseCategories(request.categories)
           toggles == [t \in Toggles |-> \/ t \in request.on /\ ~ request.full
                                         \/ t = "ax" /\ request.ax_tree]
           config == [url |-> request.url, selector |-> request.selector, categories |-> categories.value,
                      custom_properties |-> << >>, wait |-> wait.value, actions |-> actions.value,
                      headers |-> merged, viewport |-> viewport.value, format |-> format.value,
                      toggles |-> toggles, ax_tree |-> request.ax_tree, effects |-> request.effects,
                      pretty |-> FALSE, hidden |-> {}, storage_state |-> request.storage_state,
                      rest |-> request.rest]
           allOk == wait.ok /\ actions.ok /\ viewport.ok /\ format.ok /\ categories.ok
<1>1. BuildSniffConfigWith(request, defaults) = IF ~ allOk THEN Failed ELSE Ok(config)
  <2>1. defaults.headers = env.headers /\ defaults.storage_state = "" /\ defaults.base_url = ""
    BY DEF FromEnv
  <2>2. ResolveUrl(request.url, defaults.base_url) = request.url
    BY <2>1 DEF ResolveUrl
  <2>3. (IF request.storage_state # "" THEN request.storage_state ELSE defaults.storage_state) = request.storage_state
    BY <2>1
  <2> HIDE DEF defaults
  <2> QED BY <2>1, <2>2, <2>3, Zenon DEF BuildSniffConfigWith
<1>2. /\ args.url = request.url /\ args.selector = request.selector /\ args.categories = request.categories
      /\ args.props = << >> /\ args.wait = request.wait
      /\ args.header = SetToSeq({<<h, own[h]>> : h \in DOMAIN own})
      /\ args.storage_state = request.storage_state /\ args.viewport = {request.viewport}
      /\ args.output = request.format /\ args.summary = FALSE /\ args.no_summary = FALSE
      /\ args.pretty = FALSE /\ args.hidden = {} /\ args.on = request.on /\ args.off = Toggles \ request.on
      /\ args.full = request.full /\ args.ax_tree = request.ax_tree /\ args.effects = request.effects
      /\ args.rest = request.rest
  BY DEF CommandLine
<1> DEFINE specs == ActionSpecs(args)
           parsed == [i \in DOMAIN specs |-> ParseAction(specs[i])]
<1>3. Collect(parsed) = actions
  <2> DEFINE given == request.actions
  <2>1. specs = [k \in DOMAIN given |-> SpecOf(given[k])]
    BY SpecsAgree
  <2>2. \A k \in DOMAIN given : ParseAction(SpecOf(given[k])) = ActionFromInput(given[k])
    BY ActionsAgree
  <2> HIDE DEF specs, args
  <2>3. parsed = [i \in DOMAIN given |-> ActionFromInput(given[i])]
    BY ONLY <2>1, <2>2
  <2> QED BY <2>3
<1>4. MergeHeaders(env, args.header) = Ok(merged)
  <2>1. MergeHeaders(env, SetToSeq({<<h, own[h]>> : h \in DOMAIN own})) = Ok(merged)
    BY HeadersAgree
  <2> QED BY <1>2, <2>1
<1> DEFINE ownSelector == IF args.selector = Blank /\ IsFlutter(args) THEN Word("root") ELSE args.selector
           ownWait == IF args.wait = << >> THEN Ok(DefaultPipeline(ownSelector))
                      ELSE Collect([i \in DOMAIN args.wait |-> ParseWaitStrategy(args.wait[i])])
           ownViewport == IF args.viewport = {} THEN Ok(<<1366, 768>>)
                          ELSE ParseViewport(CHOOSE v \in args.viewport : TRUE)
           ownFormat == IF args.no_summary THEN Ok("JsonLines")
                        ELSE IF args.summary THEN Ok("Summary") ELSE ParseFormat(args.output)
           ownToggles == [t \in Toggles |-> \/ t \in args.on \ args.off /\ ~ args.full
                                            \/ t = "ax" /\ args.ax_tree]
           ownHeaders == MergeHeaders(env, args.header)
           ownActions == Collect(parsed)
           ownCategories == ParseCategories(args.categories)
<1> HIDE DEF args
<1>5. IntoConfig(args, env) =
        IF \/ args.url.scheme = "none" \/ ownSelector = Blank
           \/ ~ (ownWait.ok /\ ownActions.ok /\ ownHeaders.ok /\ ownViewport.ok /\ ownFormat.ok /\ ownCategories.ok)
        THEN Failed
        ELSE Ok([url |-> args.url, selector |-> ownSelector, categories |-> ownCategories.value,
                 custom_properties |-> args.props, wait |-> ownWait.value, actions |-> ownActions.value,
                 headers |-> ownHeaders.value, viewport |-> ownViewport.value, format |-> ownFormat.value,
                 toggles |-> ownToggles, ax_tree |-> args.ax_tree, effects |-> args.effects,
                 pretty |-> args.pretty, hidden |-> args.hidden, storage_state |-> args.storage_state,
                 rest |-> args.rest])
  BY Zenon DEF IntoConfig
<1>6. ownSelector = request.selector
  BY <1>2
<1>7. ownWait = wait
  <2> HIDE DEF ownSelector
  <2> QED BY <1>2, <1>6
<1>8. ownViewport = viewport
  <2>1. (CHOOSE v \in args.viewport : TRUE) = request.viewport /\ args.viewport # {}
    BY <1>2
  <2> DEFINE v0 == CHOOSE v \in args.viewport : TRUE
  <2>2. ownViewport = ParseViewport(v0)
    <3>1. args.viewport # {}
      BY <2>1
    <3> DEFINE default == Ok(<<1366, 768>>)
               asked == ParseViewport(v0)
    <3> HIDE DEF default, asked
    <3>2. (IF args.viewport = {} THEN default ELSE asked) = asked
      BY ONLY <3>1
    <3> USE DEF default, asked
    <3> QED BY <3>2
  <2>3. v0 = request.viewport
    BY <2>1
  <2> HIDE DEF v0, ownViewport
  <2> QED BY <2>2, <2>3
<1>9. ownFormat = format /\ ownCategories = categories /\ args.url.scheme # "none"
  BY <1>2
<1>10. ownToggles = toggles
  BY <1>2
<1>11. ownHeaders.ok /\ ownHeaders.value = merged
  <2>1. ownHeaders = Ok(merged)
    BY <1>4
  <2> HIDE DEF ownHeaders, merged
  <2>2. Ok(merged).ok /\ Ok(merged).value = merged
    BY DEF Ok
  <2> QED BY ONLY <2>1, <2>2
<1> HIDE DEF ownSelector, ownWait, ownViewport, ownFormat, ownToggles, ownHeaders, ownActions, ownCategories,
             wait, actions, merged, viewport, format, categories, toggles
<1>12. IntoConfig(args, env) = IF ~ allOk THEN Failed ELSE Ok(config)
  BY <1>2, <1>3, <1>5, <1>6, <1>7, <1>8, <1>9, <1>10, <1>11 DEF ownActions
<1> QED BY <1>1, <1>12 DEF args

\* A call of sniff_page is answered once, from the configuration of its request if that has one.
PageInv ==
  run.verb = "page" =>
    /\ run \in Runs /\ phase \in {"capture", "done"}
    /\ results # << >> /\ results[1].ok =>
         LET built == BuildSniffConfigWith(run.request, FromEnv(run.env))
         IN  built.ok /\ results[1].config = built.value

\* Only sniff_page answers it.
LEMMA PageKeeps ==
  ASSUME PageInv, [CommandsNext]_<<invocation, loaded, spent, project>> PROVE PageInv'
<1>1. SUFFICES ASSUME run'.verb = "page" PROVE PageInv'
  BY DEF PageInv
<1>2. run' = run
  BY DEF CommandsNext, BatchNext, Capture, BatchRequests, Begin, Load, Compute, Refuse, Finish,
         CaptureNext, CaptureRequests, Operation, Complete, ClockTicks, SniffPage,
         InitNext, InitRequests, ReadAgents, Matches, Stage, RenameStaging, ApplyFails, Killed, EditAgents, invocation
<1>3. run.verb = "page" /\ phase \in {"capture", "done"}
  BY <1>1, <1>2 DEF PageInv
<1>4. CASE UNCHANGED <<run, results, phase>>
  BY <1>4 DEF PageInv
<1>5. CASE BatchNext \/ InitNext
  BY <1>3, <1>5 DEF BatchNext, InitNext, Offline
<1>6. CASE CaptureNext
  <2>1. \E works \in BOOLEAN : SniffPage(works)
    BY <1>3, <1>6 DEF CaptureNext, CaptureRequests, Complete, ClockTicks, Operation
  <2>2. PICK works \in BOOLEAN : SniffPage(works)
    BY <2>1
  <2> DEFINE built == BuildSniffConfigWith(run.request, FromEnv(run.env))
             answer == [ok |-> TRUE, config |-> built.value]
  <2>3. /\ phase' = "done"
        /\ \/ results' = <<[ok |-> FALSE]>>
           \/ built.ok /\ results' = <<answer>>
    <3> HIDE DEF built
    <3> QED BY <2>2 DEF SniffPage, built
  <2>4. built' = built
    BY <1>2
  <2> HIDE DEF built
  <2>5. results' # << >> /\ results'[1].ok => built.ok /\ results'[1].config = built.value
    <3>1. <<[ok |-> FALSE]>>[1] = [ok |-> FALSE] /\ <<answer>>[1] = answer
      OBVIOUS
    <3>2. ~ [ok |-> FALSE].ok /\ answer.ok /\ answer.config = built.value
      OBVIOUS
    <3> HIDE DEF answer
    <3> QED BY <2>3, <3>1, <3>2
  <2> QED BY <1>1, <1>2, <2>3, <2>5 DEF PageInv, built
<1> QED
  BY <1>4, <1>5, <1>6 DEF CommandsNext, invocation

\* Captures of the two surfaces compare (server.rs build_sniff_config_with, cli/capture.rs
\* into_config): for every request that a command line can say, with interactions, headers and
\* waits in any number, both make the same configuration of it, or both refuse it.
THEOREM SurfacesSame == CommandsSpec => []SurfacesAgree
<1>1. CommandsInit => PageInv
  BY DEF CommandsInit, InvocationInit, PageInv
<1>2. PageInv /\ [CommandsNext]_<<invocation, loaded, spent, project>> => PageInv'
  BY PageKeeps
<1>3. PageInv => SurfacesAgree
  <2> DEFINE cli == IntoConfig(CommandLine(run.request), run.env)
             mcp == BuildSniffConfigWith(run.request, FromEnv(run.env))
  <2>1. SUFFICES ASSUME PageInv, run.verb = "page", results # << >>, run.env.base_url = "",
                        run.env.storage_state = "", ~ run.env.malformed, "number" \notin Range(run.env.headers)
                 PROVE  cli.ok = mcp.ok /\ (results[1].ok => results[1].config = cli.value)
    BY DEF SurfacesAgree
  <2>2. /\ run.request.url.scheme # "none" /\ run.request.selector # Blank
        /\ IsFiniteSet(DOMAIN run.request.headers)
        /\ \A h \in DOMAIN run.request.headers : h # "" /\ run.request.headers[h] # ""
        /\ \A k \in DOMAIN run.request.actions : Expressible(run.request.actions[k])
    BY <2>1, RequestsExpressible DEF PageInv
  <2>3. cli = mcp
    BY <2>1, <2>2, ConfigsAgree
  <2>4. results[1].ok => results[1].config = mcp.value
    BY <2>1 DEF PageInv
  <2> HIDE DEF cli, mcp
  <2> QED BY <2>3, <2>4
<1> QED
  BY <1>1, <1>2, <1>3, PTL DEF CommandsSpec

-----------------------------------------------------------------------------
(* SnapshotStore.  A file belongs to the name of the savers that have it open and of the
   paths that lead to it (Owned), so that a saver whose name is its own is the only one to
   write to its file: what is in it is what it has written so far (Safe), and the server's
   final name leads nowhere until all of it is. *)


Early == {"start", "missing", "ignoring", "ready"}

\* What a saver has before it opens its file.
Fresh ==
  \A s \in Savers :
    /\ pc[s] \in Early => name[s] = NoName /\ open[s] = 0 /\ written[s] = 0
    /\ pc[s] = "named" => name[s] # NoName /\ open[s] = 0 /\ written[s] = 0
    /\ pc[s] \in {"writing", "ok"} => open[s] # 0
    /\ open[s] # 0 => name[s] # NoName

\* Paths and descriptors of one file are of one name, and somebody made it.
Owned ==
  /\ \A p \in DOMAIN dir : \E t \in Savers : open[t] # 0 /\ name[t] = p.of
  /\ \A p \in DOMAIN dir : \A t \in Savers : open[t] = dir[p] => name[t] = p.of
  /\ \A p, q \in DOMAIN dir : dir[p] = dir[q] => p.of = q.of
  /\ \A s, t \in Savers : open[s] # 0 /\ open[s] = open[t] => name[s] = name[t]

Lone(s) == \A t \in Savers : name[t] = name[s] => t = s

\* What a saver creates.
Path(s) == IF s \in Mcp THEN Temp(name[s]) ELSE Final(name[s])

Prefix(s, n) == [k \in 1..n |-> s]

Safe ==
  \A s \in Savers : Lone(s) =>
    /\ pc[s] = "writing" =>
         /\ Path(s) \in DOMAIN dir /\ dir[Path(s)] = open[s]
         /\ content[open[s]] = Prefix(s, written[s])
    /\ pc[s] = "ok" =>
         /\ Final(name[s]) \in DOMAIN dir
         /\ content[dir[Final(name[s])]] = Payload(s)
    /\ s \in Mcp /\ pc[s] # "ok" => Final(name[s]) \notin DOMAIN dir

IInv == TypeOK /\ Fresh /\ Owned /\ Safe

USE SaversDisjoint, PayloadsNat DEF Finished, Goto

-----------------------------------------------------------------------------
(* Blocks. *)

Blocks == Seq(Savers \cup {"hole"})

LEMMA PutTyped ==
  ASSUME NEW c \in Blocks, NEW k \in Nat \ {0}, NEW s \in Savers
  PROVE  Put(c, k, s) \in Blocks
<1>1. Len(c) \in Nat /\ \A i \in 1..Len(c) : c[i] \in Savers \cup {"hole"}
  BY DEF Blocks
<1> DEFINE n == IF k > Len(c) THEN k ELSE Len(c)
<1>2. n \in Nat
  BY <1>1
<1>3. \A i \in 1..n : (IF i = k THEN s ELSE IF i <= Len(c) THEN c[i] ELSE "hole") \in Savers \cup {"hole"}
  BY <1>1
<1> QED  BY <1>2, <1>3 DEF Put, Blocks

\* The next block of a payload goes to the end of what is there of it.
LEMMA PutPrefix ==
  ASSUME NEW n \in Nat, NEW s \in Savers
  PROVE  Put(Prefix(s, n), n + 1, s) = Prefix(s, n + 1)
<1>1. Prefix(s, n) \in Seq(Savers) /\ Len(Prefix(s, n)) = n
  BY DEF Prefix
<1>2. \A i \in 1..n : Prefix(s, n)[i] = s
  BY DEF Prefix
<1> QED  BY <1>1, <1>2 DEF Put, Prefix

-----------------------------------------------------------------------------
(* Types. *)

LEMMA PathTyped ==
  ASSUME NEW n \in Names
  PROVE  Final(n) \in Paths /\ Temp(n) \in Paths
BY DEF Paths

LEMMA OpenTyped ==
  ASSUME TypeOK, NEW s \in Savers, NEW path \in Paths, OpenTruncated(s, path)
  PROVE  /\ content' \in Seq(Blocks) /\ Len(content') \in {Len(content), Len(content) + 1}
         /\ DOMAIN dir' \subseteq Paths
         /\ \A p \in DOMAIN dir' : dir'[p] \in 1..Len(content')
         /\ open' \in [Savers -> 0..Len(content')]
<1>0. << >> \in Blocks /\ content \in Seq(Blocks) /\ Len(content) \in Nat
  BY DEF TypeOK, Blocks
<1>1. CASE path \in DOMAIN dir
  <2>1. /\ content' = [content EXCEPT ![dir[path]] = << >>] /\ dir' = dir
        /\ open' = [open EXCEPT ![s] = dir[path]] /\ dir[path] \in 1..Len(content)
    BY <1>1 DEF OpenTruncated, TypeOK
  <2>2. content' \in Seq(Blocks) /\ Len(content') = Len(content)
    BY <2>1, <1>0
  <2> QED  BY <2>1, <2>2 DEF TypeOK
<1>2. CASE path \notin DOMAIN dir
  <2>1. /\ content' = Append(content, << >>)
        /\ open' = [open EXCEPT ![s] = Len(content) + 1]
        /\ dir' = [p \in DOMAIN dir \cup {path} |-> IF p = path THEN Len(content) + 1 ELSE dir[p]]
    BY <1>2 DEF OpenTruncated
  <2>2. content' \in Seq(Blocks) /\ Len(content') = Len(content) + 1
    BY <2>1, <1>0
  <2> QED  BY <2>1, <2>2, <1>0 DEF TypeOK
<1> QED  BY <1>1, <1>2

LEMMA TypeInit == Init => TypeOK
<1>1. ASSUME Init PROVE TypeOK
  <2>1. content = << >> /\ Len(content) = 0 /\ DOMAIN dir = {}
    BY <1>1 DEF Init
  <2> QED  BY <1>1, <2>1 DEF Init, TypeOK
<1> QED  BY <1>1

LEMMA TypeStep == TypeOK /\ Fresh /\ [Next]_vars => TypeOK'
<1> SUFFICES ASSUME TypeOK, Fresh, [Next]_vars PROVE TypeOK'
  OBVIOUS
<1>1. CASE Tick
  BY <1>1 DEF TypeOK, Tick
<1>2. ASSUME NEW s \in Savers, CheckIgnored(s) \/ CreateIgnored(s) \/ WriteIgnored(s) PROVE TypeOK'
  BY <1>2 DEF TypeOK, CheckIgnored, CreateIgnored, WriteIgnored
<1>3. ASSUME NEW s \in Savers, ComputeName(s) PROVE TypeOK'
  <2>1. [stamp |-> now, target |-> TargetOf[s]] \in Names
    BY DEF TypeOK, Names
  <2> QED  BY <1>3, <2>1 DEF TypeOK, ComputeName
<1>4. ASSUME NEW s \in Savers, Create(s) PROVE TypeOK'
  <2>1. (IF s \in Mcp THEN Temp(name[s]) ELSE Final(name[s])) \in Paths
    BY <1>4, PathTyped DEF TypeOK, Fresh, Create
  <2>2. /\ content' \in Seq(Blocks) /\ DOMAIN dir' \subseteq Paths
        /\ \A p \in DOMAIN dir' : dir'[p] \in 1..Len(content')
        /\ open' \in [Savers -> 0..Len(content')]
    BY <1>4, <2>1, OpenTyped DEF Create
  <2> QED  BY <1>4, <2>2 DEF TypeOK, Create, Blocks
<1>5. ASSUME NEW s \in Savers, WriteBlock(s) PROVE TypeOK'
  <2> DEFINE c == Put(content[open[s]], written[s] + 1, s)
  <2>1. open[s] \in 1..Len(content) /\ content[open[s]] \in Blocks
    BY <1>5 DEF TypeOK, Fresh, WriteBlock, Blocks
  <2>2. c \in Blocks
    BY <1>5, <2>1, PutTyped DEF TypeOK, WriteBlock
  <2> HIDE DEF c
  <2>3. content' = [content EXCEPT ![open[s]] = c]
    BY <1>5 DEF WriteBlock, c
  <2>4. content' \in Seq(Blocks) /\ Len(content') = Len(content)
    BY <2>1, <2>2, <2>3 DEF TypeOK, Blocks
  <2>5. written' \in [Savers -> Nat] /\ \A t \in Savers : written'[t] <= BlocksOf[t]
    BY <1>5 DEF TypeOK, WriteBlock
  <2> QED  BY <1>5, <2>4, <2>5 DEF TypeOK, WriteBlock, Blocks
<1>6. ASSUME NEW s \in Savers, WriteFails(s) \/ FinishInPlace(s) \/ Die(s) PROVE TypeOK'
  BY <1>6 DEF TypeOK, WriteFails, FinishInPlace, Die
<1>7. ASSUME NEW s \in Savers, Rename(s) PROVE TypeOK'
  <2>1. /\ DOMAIN dir' \subseteq Paths
        /\ \A p \in DOMAIN dir' : dir'[p] \in 1..Len(content)
    <3>1. name[s] \in Names
      BY <1>7 DEF TypeOK, Fresh, Rename
    <3> QED  BY <1>7, <3>1, PathTyped DEF TypeOK, Rename, Move
  <2> QED  BY <1>7, <2>1 DEF TypeOK, Rename
<1>8. CASE UNCHANGED vars
  BY <1>8 DEF TypeOK, vars
<1> QED
  BY <1>1, <1>2, <1>3, <1>4, <1>5, <1>6, <1>7, <1>8 DEF Next, Save

-----------------------------------------------------------------------------
(* Names and files. *)

LEMMA FreshStep == TypeOK /\ Fresh /\ [Next]_vars => Fresh'
<1> SUFFICES ASSUME TypeOK, Fresh, [Next]_vars PROVE Fresh'
  OBVIOUS
<1> USE DEF Fresh, Early
<1>1. CASE Tick
  BY <1>1 DEF Tick
<1>2. ASSUME NEW s \in Savers,
             \/ CheckIgnored(s) \/ CreateIgnored(s) \/ WriteIgnored(s)
             \/ WriteFails(s) \/ FinishInPlace(s) \/ Die(s)
      PROVE  Fresh'
  BY <1>2 DEF TypeOK, CheckIgnored, CreateIgnored, WriteIgnored, WriteFails, FinishInPlace, Die
<1>3. ASSUME NEW s \in Savers, ComputeName(s) PROVE Fresh'
  <2>1. [stamp |-> now, target |-> TargetOf[s]] # NoName
    <3>1. [stamp |-> now, target |-> TargetOf[s]].stamp # NoName.stamp
      BY DEF TypeOK, NoName
    <3> QED  BY <3>1
  <2> QED  BY <1>3, <2>1 DEF TypeOK, ComputeName
<1>4. ASSUME NEW s \in Savers, Create(s) PROVE Fresh'
  <2>1. \E f \in Nat \ {0} : open' = [open EXCEPT ![s] = f]
    BY <1>4 DEF TypeOK, Create, OpenTruncated
  <2> QED  BY <1>4, <2>1 DEF TypeOK, Create
<1>5. ASSUME NEW s \in Savers, WriteBlock(s) PROVE Fresh'
  BY <1>5 DEF TypeOK, WriteBlock
<1>6. ASSUME NEW s \in Savers, Rename(s) PROVE Fresh'
  BY <1>6 DEF TypeOK, Rename
<1>7. CASE UNCHANGED vars
  BY <1>7 DEF vars
<1> QED  BY <1>1, <1>2, <1>3, <1>4, <1>5, <1>6, <1>7 DEF Next, Save

LEMMA OwnedStep == TypeOK /\ Fresh /\ Owned /\ [Next]_vars => Owned'
<1> SUFFICES ASSUME TypeOK, Fresh, Owned, [Next]_vars PROVE Owned'
  OBVIOUS
<1>1. CASE UNCHANGED <<name, dir, open>>
  BY <1>1 DEF Owned
\* Nobody has a file open, or made one, under the name that a saver gets.
<1>2. ASSUME NEW s \in Savers, ComputeName(s) PROVE Owned'
  <2>1. open[s] = 0 /\ \A t \in Savers \ {s} : name'[t] = name[t]
    BY <1>2 DEF TypeOK, Fresh, Early, ComputeName
  <2>2. \A p \in DOMAIN dir : dir[p] # 0
    BY DEF TypeOK
  <2>3. dir' = dir /\ open' = open
    BY <1>2 DEF ComputeName
  <2> QED  BY <2>1, <2>2, <2>3 DEF Owned
<1>3. ASSUME NEW s \in Savers, Create(s) PROVE Owned'
  <2> DEFINE path == Path(s)
  <2>1. OpenTruncated(s, path) /\ name' = name /\ path.of = name[s]
    BY <1>3 DEF Create, Path, Temp, Final
  <2>2. \A p \in DOMAIN dir : dir[p] \in Nat /\ dir[p] # 0 /\ dir[p] # Len(content) + 1
    BY DEF TypeOK
  <2>3. \A t \in Savers : open[t] \in Nat /\ open[t] # Len(content) + 1
    BY DEF TypeOK
  <2> HIDE DEF path
  <2>4. CASE path \in DOMAIN dir
    <3>1. dir' = dir /\ open' = [open EXCEPT ![s] = dir[path]]
      BY <2>1, <2>4 DEF OpenTruncated
    <3>2. \A t \in Savers : open'[t] = IF t = s THEN dir[path] ELSE open[t]
      BY <3>1 DEF TypeOK
    <3>3. \A p \in DOMAIN dir : \E t \in Savers : open'[t] # 0 /\ name[t] = p.of
      BY <3>2, <2>2, <2>4 DEF Owned
    <3>4. \A p \in DOMAIN dir : \A t \in Savers : open'[t] = dir[p] => name[t] = p.of
      BY <3>2, <2>1, <2>4 DEF Owned
    <3>5. \A t, u \in Savers : open'[t] # 0 /\ open'[t] = open'[u] => name[t] = name[u]
      BY <3>2, <2>1, <2>4 DEF Owned
    <3> QED  BY <3>1, <3>3, <3>4, <3>5, <2>1 DEF Owned
  <2>5. CASE path \notin DOMAIN dir
    <3> DEFINE f == Len(content) + 1
    <3>0. f \in Nat /\ f # 0
      BY DEF TypeOK
    <3>1. /\ dir' = [p \in DOMAIN dir \cup {path} |-> IF p = path THEN f ELSE dir[p]]
          /\ open' = [open EXCEPT ![s] = f]
      BY <2>1, <2>5 DEF OpenTruncated
    <3>2. \A t \in Savers : open'[t] = IF t = s THEN f ELSE open[t]
      BY <3>1 DEF TypeOK
    <3>3. /\ DOMAIN dir' = DOMAIN dir \cup {path} /\ dir'[path] = f
          /\ \A p \in DOMAIN dir : dir'[p] = dir[p]
      BY <3>1, <2>5
    <3> HIDE DEF f
    <3>4. \A p \in DOMAIN dir : dir[p] # f
      BY <2>2 DEF f
    <3>5. \A t \in Savers : open[t] # f
      BY <2>3 DEF f
    <3>6. \A p \in DOMAIN dir' : \E t \in Savers : open'[t] # 0 /\ name[t] = p.of
      BY <3>0, <3>2, <3>3, <2>1 DEF Owned
    <3>7. \A p \in DOMAIN dir' : \A t \in Savers : open'[t] = dir'[p] => name[t] = p.of
      BY <3>2, <3>3, <3>4, <3>5, <2>1 DEF Owned
    <3>8. \A p, q \in DOMAIN dir' : dir'[p] = dir'[q] => p.of = q.of
      BY <3>3, <3>4 DEF Owned
    <3>9. \A t, u \in Savers : open'[t] # 0 /\ open'[t] = open'[u] => name[t] = name[u]
      BY <3>2, <3>5, <2>1 DEF Owned
    <3> QED  BY <3>6, <3>7, <3>8, <3>9, <2>1 DEF Owned
  <2> QED  BY <2>4, <2>5
<1>4. ASSUME NEW s \in Savers, Rename(s) PROVE Owned'
  <2>1. CASE UNCHANGED dir
    BY <1>1, <1>4, <2>1 DEF Rename
  <2>2. CASE /\ Temp(name[s]) \in DOMAIN dir
             /\ Move(Temp(name[s]), Final(name[s]))
    <3>1. \A p \in DOMAIN dir' : \E q \in DOMAIN dir : p.of = q.of /\ dir'[p] = dir[q]
      BY <2>2 DEF Move, Temp, Final
    <3>2. name' = name /\ open' = open
      BY <1>4 DEF Rename
    <3> QED  BY <3>1, <3>2 DEF Owned
  <2> QED  BY <1>4, <2>1, <2>2 DEF Rename
<1> QED
  BY <1>1, <1>2, <1>3, <1>4
     DEF Next, Save, vars, Tick, CheckIgnored, CreateIgnored, WriteIgnored, WriteBlock, WriteFails,
         FinishInPlace, Die

-----------------------------------------------------------------------------
(* Contents. *)

\* A path that leads somewhere is of the name of one who has opened a file.
LEMMA NoPathBefore ==
  ASSUME TypeOK, Owned, NEW s \in Savers, open[s] = 0, Lone(s), NEW p \in DOMAIN dir
  PROVE  p.of # name[s]
BY DEF Owned, Lone

\* Nobody else has the file open that a saver writes, or published, under a name of its own.
LEMMA NobodyElse ==
  ASSUME TypeOK, Owned, NEW s \in Savers, Lone(s), NEW t \in Savers, t # s,
         NEW p \in DOMAIN dir, p.of = name[s]
  PROVE  /\ open[t] # dir[p]
         /\ \A q \in DOMAIN dir : q.of = name[t] => dir[q] # dir[p]
BY DEF Owned, Lone

LEMMA SafeInit == Init => Fresh /\ Owned /\ Safe
BY DEF Init, Fresh, Early, Owned, Safe, Final

LEMMA SafeCompute ==
  ASSUME IInv, NEW s \in Savers, ComputeName(s)
  PROVE  Safe'
<1> USE DEF IInv
<1>1. /\ pc' = [pc EXCEPT ![s] = "named"] /\ dir' = dir /\ content' = content
      /\ open' = open /\ written' = written
      /\ \A t \in Savers \ {s} : name'[t] = name[t]
  BY DEF TypeOK, ComputeName
<1>2. open[s] = 0 /\ name[s] = NoName
  BY DEF Fresh, Early, ComputeName
\* The saver itself: nothing leads to its name yet.
<1>3. Lone(s)' => Final(name'[s]) \notin DOMAIN dir
  BY <1>1, <1>2 DEF Owned, Lone, Final
\* The others: those that have opened a file have had a name, and no other one.
<1>4. ASSUME NEW t \in Savers, t # s, Lone(t)', open[t] # 0 PROVE Lone(t)
  BY <1>1, <1>2, <1>4 DEF Lone, Fresh
<1>5. ASSUME NEW t \in Savers, t # s, Lone(t)', open[t] = 0 PROVE Final(name[t]) \notin DOMAIN dir
  BY <1>1, <1>2, <1>5 DEF Lone, Owned, Final
<1>6. ASSUME NEW t \in Savers, t # s, Lone(t)'
      PROVE  /\ pc'[t] = "writing" =>
                  /\ Path(t)' \in DOMAIN dir' /\ dir'[Path(t)'] = open'[t]
                  /\ content'[open'[t]] = Prefix(t, written'[t])
             /\ pc'[t] = "ok" =>
                  /\ Final(name'[t]) \in DOMAIN dir'
                  /\ content'[dir'[Final(name'[t])]] = Payload(t)
             /\ t \in Mcp /\ pc'[t] # "ok" => Final(name'[t]) \notin DOMAIN dir'
  <2>1. pc'[t] = pc[t] /\ name'[t] = name[t] /\ Path(t)' = Path(t)
    BY <1>1, <1>6 DEF TypeOK, Path
  <2>2. CASE open[t] = 0
    <3>1. pc[t] \notin {"writing", "ok"}
      BY <2>2 DEF Fresh
    <3> QED  BY <1>1, <1>5, <1>6, <2>1, <2>2, <3>1
  <2>3. CASE open[t] # 0
    <3>1. Lone(t)
      BY <1>4, <1>6, <2>3
    <3> QED  BY <1>1, <2>1, <3>1 DEF Safe
  <2> QED  BY <2>2, <2>3
<1>7. pc'[s] = "named"
  BY <1>1 DEF TypeOK
<1> QED  BY <1>1, <1>3, <1>6, <1>7 DEF Safe

LEMMA SafeCreate ==
  ASSUME IInv, NEW s \in Savers, Create(s)
  PROVE  Safe'
<1> USE DEF IInv
<1> DEFINE path == Path(s)
<1>1. /\ OpenTruncated(s, path) /\ path.of = name[s] /\ name' = name /\ written' = written
      /\ pc[s] = "named" /\ pc' = [pc EXCEPT ![s] = "writing"]
  BY DEF Create, Path, Temp, Final
<1>2. open[s] = 0 /\ written[s] = 0
  BY <1>1 DEF Fresh
<1>3. \A t \in Savers : Lone(t)' <=> Lone(t)
  BY <1>1 DEF Lone
<1>4. \A t \in Savers : Path(t)' = Path(t)
  BY <1>1 DEF Path
<1>5. content \in Seq(Blocks) /\ Len(content) \in Nat
  BY DEF TypeOK, Blocks
\* The saver itself, under a name of its own, makes a new file.
<1>6. ASSUME Lone(s)
      PROVE  /\ path \in DOMAIN dir' /\ dir'[path] = open'[s] /\ content'[open'[s]] = Prefix(s, 0)
             /\ s \in Mcp => Final(name[s]) \notin DOMAIN dir'
  <2>1. path \notin DOMAIN dir /\ Final(name[s]) \notin DOMAIN dir
    BY <1>1, <1>2, <1>6, NoPathBefore DEF Final
  <2>2. /\ content' = Append(content, << >>) /\ open' = [open EXCEPT ![s] = Len(content) + 1]
        /\ dir' = [p \in DOMAIN dir \cup {path} |-> IF p = path THEN Len(content) + 1 ELSE dir[p]]
    BY <1>1, <2>1 DEF OpenTruncated
  <2>3. open'[s] = Len(content) + 1 /\ content'[Len(content) + 1] = << >>
    BY <1>5, <2>2 DEF TypeOK
  <2>4. Prefix(s, 0) = << >>
    BY DEF Prefix
  <2>5. s \in Mcp => Final(name[s]) # path
    BY DEF Path, Temp, Final
  <2> QED  BY <2>1, <2>2, <2>3, <2>4, <2>5
\* The others keep their files.
<1>7. ASSUME NEW t \in Savers, t # s, Lone(t), NEW p \in DOMAIN dir, p.of = name[t]
      PROVE  p \in DOMAIN dir' /\ dir'[p] = dir[p] /\ content'[dir[p]] = content[dir[p]]
  <2>1. p # path /\ name[t] # name[s]
    BY <1>1, <1>7 DEF Lone
  <2>2. dir[p] \in 1..Len(content)
    BY DEF TypeOK
  <2>3. CASE path \in DOMAIN dir
    <3>1. dir[path] # dir[p]
      BY <1>1, <1>7, <2>3, NobodyElse
    <3>2. dir' = dir /\ content' = [content EXCEPT ![dir[path]] = << >>]
      BY <1>1, <2>3 DEF OpenTruncated
    <3> QED  BY <3>1, <3>2, <2>2, <1>5
  <2>4. CASE path \notin DOMAIN dir
    <3>1. /\ content' = Append(content, << >>)
          /\ dir' = [q \in DOMAIN dir \cup {path} |-> IF q = path THEN Len(content) + 1 ELSE dir[q]]
      BY <1>1, <2>4 DEF OpenTruncated
    <3> QED  BY <3>1, <2>1, <2>2, <1>5
  <2> QED  BY <2>3, <2>4
<1>8. \A t \in Savers \ {s} : open'[t] = open[t] /\ pc'[t] = pc[t]
  BY <1>1 DEF TypeOK, OpenTruncated
<1>9. \A p \in DOMAIN dir' : p \in DOMAIN dir \/ p = path
  BY <1>1 DEF OpenTruncated
<1>10. ASSUME NEW t \in Savers, t # s, Lone(t)
       PROVE  /\ pc[t] = "writing" =>
                   /\ Path(t) \in DOMAIN dir' /\ dir'[Path(t)] = open[t]
                   /\ content'[open[t]] = Prefix(t, written[t])
              /\ pc[t] = "ok" =>
                   /\ Final(name[t]) \in DOMAIN dir'
                   /\ content'[dir'[Final(name[t])]] = Payload(t)
              /\ t \in Mcp /\ pc[t] # "ok" => Final(name[t]) \notin DOMAIN dir'
  <2>1. Path(t).of = name[t] /\ Final(name[t]).of = name[t]
    BY DEF Path, Temp, Final
  <2>2. name[t] # name[s]
    BY <1>10 DEF Lone
  <2>3. CASE pc[t] = "writing"
    <3>1. /\ Path(t) \in DOMAIN dir /\ dir[Path(t)] = open[t]
          /\ content[open[t]] = Prefix(t, written[t])
          /\ t \in Mcp => Final(name[t]) \notin DOMAIN dir
      BY <1>10, <2>3 DEF Safe
    <3> QED  BY <1>1, <1>7, <1>9, <1>10, <2>1, <2>2, <2>3, <3>1
  <2>4. CASE pc[t] = "ok"
    <3>1. Final(name[t]) \in DOMAIN dir /\ content[dir[Final(name[t])]] = Payload(t)
      BY <1>10, <2>4 DEF Safe
    <3> QED  BY <1>7, <1>10, <2>1, <2>4, <3>1
  <2>5. CASE pc[t] \notin {"writing", "ok"}
    BY <1>1, <1>9, <1>10, <2>1, <2>2, <2>5 DEF Safe
  <2> QED  BY <2>3, <2>4, <2>5
<1>11. pc'[s] = "writing" /\ written'[s] = 0
  BY <1>1, <1>2 DEF TypeOK
<1> QED  BY <1>1, <1>3, <1>4, <1>6, <1>8, <1>10, <1>11 DEF Safe

LEMMA SafeWrite ==
  ASSUME IInv, NEW s \in Savers, WriteBlock(s)
  PROVE  Safe'
<1> USE DEF IInv
<1> DEFINE c == Put(content[open[s]], written[s] + 1, s)
<1>1. /\ pc[s] = "writing" /\ content' = [content EXCEPT ![open[s]] = c]
      /\ written' = [written EXCEPT ![s] = written[s] + 1]
      /\ pc' = pc /\ name' = name /\ dir' = dir /\ open' = open
  BY DEF WriteBlock
<1>2. open[s] \in 1..Len(content) /\ content \in Seq(Blocks) /\ open[s] # 0
  BY <1>1 DEF TypeOK, Fresh, Blocks
<1>3. Lone(s) => c = Prefix(s, written[s] + 1)
  BY <1>1, PutPrefix DEF Safe, TypeOK
<1> HIDE DEF c
<1>4. \A t \in Savers : (Lone(t)' <=> Lone(t)) /\ Path(t)' = Path(t)
  BY <1>1 DEF Lone, Path
<1>5. content'[open[s]] = c /\ \A f \in 1..Len(content) \ {open[s]} : content'[f] = content[f]
  BY <1>1, <1>2
<1>6. ASSUME NEW t \in Savers, t # s, Lone(t), NEW p \in DOMAIN dir, p.of = name[t]
      PROVE  content'[dir[p]] = content[dir[p]]
  <2>1. open[s] # dir[p]
    BY <1>6, NobodyElse
  <2>2. dir[p] \in 1..Len(content)
    BY DEF TypeOK
  <2> QED  BY <1>5, <2>1, <2>2
<1>7. written'[s] = written[s] + 1 /\ \A t \in Savers \ {s} : written'[t] = written[t]
  BY <1>1 DEF TypeOK
<1>8. ASSUME NEW t \in Savers, t # s, Lone(t)
      PROVE  /\ pc[t] = "writing" => content'[open[t]] = content[open[t]]
             /\ pc[t] = "ok" => content'[dir[Final(name[t])]] = content[dir[Final(name[t])]]
  <2>1. Path(t).of = name[t] /\ Final(name[t]).of = name[t]
    BY DEF Path, Temp, Final
  <2> QED  BY <1>6, <1>8, <2>1 DEF Safe
<1>9. ASSUME NEW t \in Savers, Lone(t)
      PROVE  /\ pc[t] = "writing" => content'[open[t]] = Prefix(t, written'[t])
             /\ pc[t] = "ok" => content'[dir[Final(name[t])]] = Payload(t)
  <2>1. CASE t = s
    BY <1>1, <1>3, <1>5, <1>7, <1>9, <2>1
  <2>2. CASE t # s
    BY <1>7, <1>8, <1>9, <2>2 DEF Safe
  <2> QED  BY <2>1, <2>2
<1> QED  BY <1>1, <1>4, <1>9 DEF Safe

LEMMA PrefixPayload ==
  ASSUME NEW s \in Savers
  PROVE  Prefix(s, BlocksOf[s]) = Payload(s)
BY DEF Prefix, Payload

LEMMA SafeFinish ==
  ASSUME IInv, NEW s \in Savers, FinishInPlace(s)
  PROVE  Safe'
<1> USE DEF IInv
<1>1. /\ s \in Cli /\ pc[s] = "writing" /\ written[s] = BlocksOf[s]
      /\ pc' = [pc EXCEPT ![s] = "ok"]
      /\ UNCHANGED <<name, dir, content, open, written>>
  BY DEF FinishInPlace
<1>2. \A t \in Savers : (Lone(t)' <=> Lone(t)) /\ Path(t)' = Path(t)
  BY <1>1 DEF Lone, Path
<1>3. \A t \in Savers : pc'[t] = IF t = s THEN "ok" ELSE pc[t]
  BY <1>1 DEF TypeOK
<1>4. s \notin Mcp /\ Path(s) = Final(name[s])
  BY <1>1 DEF Path
<1>5. Lone(s) => Final(name[s]) \in DOMAIN dir /\ content[dir[Final(name[s])]] = Payload(s)
  BY <1>1, <1>4, PrefixPayload DEF Safe
<1> QED  BY <1>1, <1>2, <1>3, <1>4, <1>5 DEF Safe

LEMMA SafeRename ==
  ASSUME IInv, NEW s \in Savers, Rename(s)
  PROVE  Safe'
<1> USE DEF IInv
<1> DEFINE from == Temp(name[s])
           to   == Final(name[s])
<1>1. /\ s \in Mcp /\ pc[s] = "writing" /\ written[s] = BlocksOf[s]
      /\ UNCHANGED <<name, content, open, written>>
  BY DEF Rename
<1>2. \A t \in Savers : (Lone(t)' <=> Lone(t)) /\ Path(t)' = Path(t)
  BY <1>1 DEF Lone, Path
<1>3. from.of = name[s] /\ to.of = name[s] /\ from # to
  BY DEF Temp, Final
<1>4. \A t \in Savers : Path(t).of = name[t] /\ Final(name[t]).of = name[t]
  BY DEF Path, Temp, Final
<1>5. \A t \in Savers \ {s} : pc'[t] = pc[t]
  BY DEF Rename, TypeOK
<1>6. CASE from \in DOMAIN dir /\ Move(from, to) /\ pc' = [pc EXCEPT ![s] = "ok"]
  <2>1. /\ DOMAIN dir' = (DOMAIN dir \ {from}) \cup {to} /\ dir'[to] = dir[from]
        /\ \A p \in DOMAIN dir \ {from, to} : dir'[p] = dir[p]
    BY <1>3, <1>6 DEF Move
  <2>2. pc'[s] = "ok"
    BY <1>6 DEF TypeOK
  <2>3. Lone(s) => content[dir'[to]] = Payload(s)
    BY <1>1, <2>1, PrefixPayload DEF Safe, Path
  <2>4. ASSUME NEW t \in Savers, t # s, Lone(t), NEW p, p.of = name[t]
        PROVE  (p \in DOMAIN dir' <=> p \in DOMAIN dir) /\ (p \in DOMAIN dir => dir'[p] = dir[p])
    <3>1. name[s] # name[t]
      BY <2>4 DEF Lone
    <3> QED  BY <1>3, <2>1, <2>4, <3>1
  <2> HIDE DEF from, to
  <2>5. ASSUME NEW t \in Savers, t # s, Lone(t)
        PROVE  /\ pc[t] = "writing" =>
                    /\ Path(t) \in DOMAIN dir' /\ dir'[Path(t)] = open[t]
                    /\ content[open[t]] = Prefix(t, written[t])
               /\ pc[t] = "ok" =>
                    /\ Final(name[t]) \in DOMAIN dir'
                    /\ content[dir'[Final(name[t])]] = Payload(t)
               /\ t \in Mcp /\ pc[t] # "ok" => Final(name[t]) \notin DOMAIN dir'
    BY <1>4, <2>4, <2>5 DEF Safe
  <2>6. to = Final(name[s])
    BY DEF to
  <2> QED  BY <1>1, <1>2, <1>5, <2>1, <2>2, <2>3, <2>5, <2>6 DEF Safe
\* The temporary file is there unless somebody shares the name.
<1>7. CASE from \notin DOMAIN dir /\ dir' = dir /\ pc' = [pc EXCEPT ![s] = "error"]
  <2>1. ~ Lone(s)
    BY <1>1, <1>7 DEF Safe, Path
  <2> QED  BY <1>1, <1>2, <1>5, <1>7, <2>1 DEF Safe
<1> QED  BY <1>6, <1>7 DEF Rename

LEMMA SafeStep == IInv /\ [Next]_vars => Safe'
<1> SUFFICES ASSUME IInv, [Next]_vars PROVE Safe'
  OBVIOUS
\* Steps of a saver that is neither done nor writing afterwards, or no step of one.
<1>1. CASE /\ UNCHANGED <<name, dir, content, open, written>>
           /\ \A t \in Savers : pc'[t] = pc[t] \/ (pc'[t] \notin {"writing", "ok"} /\ pc[t] # "ok")
  <2>1. \A t \in Savers : (Lone(t)' <=> Lone(t)) /\ Path(t)' = Path(t)
    BY <1>1 DEF Lone, Path
  <2> QED  BY <1>1, <2>1 DEF IInv, Safe
<1>2. ASSUME NEW s \in Savers,
             CheckIgnored(s) \/ CreateIgnored(s) \/ WriteIgnored(s) \/ WriteFails(s) \/ Die(s)
      PROVE  Safe'
  <2>1. UNCHANGED <<name, dir, content, open, written>>
    BY <1>2 DEF CheckIgnored, CreateIgnored, WriteIgnored, WriteFails, Die
  <2>2. \A t \in Savers : pc'[t] = pc[t] \/ (pc'[t] \notin {"writing", "ok"} /\ pc[t] # "ok")
    BY <1>2 DEF IInv, TypeOK, CheckIgnored, CreateIgnored, WriteIgnored, WriteFails, Die
  <2> QED  BY <1>1, <2>1, <2>2
<1>3. CASE Tick \/ UNCHANGED vars
  BY <1>1, <1>3 DEF Tick, vars
<1> QED
  BY <1>2, <1>3, SafeCompute, SafeCreate, SafeWrite, SafeFinish, SafeRename DEF Next, Save

-----------------------------------------------------------------------------

LEMMA Invariant == Spec => []IInv
<1>1. Init => IInv
  BY TypeInit, SafeInit DEF IInv
<1>2. IInv /\ [Next]_vars => IInv'
  BY TypeStep, FreshStep, OwnedStep, SafeStep DEF IInv
<1> QED  BY <1>1, <1>2, PTL DEF Spec

LEMMA NamesakesAlone ==
  ASSUME NEW s \in Savers, Namesakes(name[s]) = {s}
  PROVE  Lone(s)
BY DEF Namesakes, Lone

\* The types, for any savers.
THEOREM TypeCorrect == Spec => []TypeOK
<1>1. IInv => TypeOK
  BY DEF IInv
<1> QED  BY <1>1, Invariant, PTL

\* Any number of savers may fail and die anywhere: a file that the server alone writes
\* under its name is whole from the moment on that it has that name.
THEOREM PublishedWhole == Spec => []AtomicAlone
<1>1. ASSUME IInv, NEW n \in Published, NEW s \in Mcp, Namesakes(n) = {s}
      PROVE  content[dir[Final(n)]] = Payload(s)
  <2>1. s \in Savers /\ name[s] = n /\ Lone(s)
    BY <1>1, NamesakesAlone DEF Namesakes, Savers
  <2>2. Final(n) \in DOMAIN dir
    BY DEF Published
  <2> QED  BY <1>1, <2>1, <2>2 DEF IInv, Safe
<1>2. IInv => AtomicAlone
  BY <1>1 DEF AtomicAlone
<1> QED  BY <1>2, Invariant, PTL

\* On either surface: what a returned path leads to stays the capture it was returned for,
\* unless another capture gets the same name.
THEOREM HandlesHold == Spec => []HandleHolds
<1>1. ASSUME IInv, NEW s \in Savers, pc[s] = "ok", Namesakes(name[s]) = {s}
      PROVE  name[s] \in Published /\ content[dir[Final(name[s])]] = Payload(s)
  <2>1. Lone(s)
    BY <1>1, NamesakesAlone
  <2>2. name[s] \in Names
    BY <1>1 DEF IInv, TypeOK, Fresh
  <2> QED  BY <1>1, <2>1, <2>2 DEF IInv, Safe, Published
<1>2. IInv => HandleHolds
  BY <1>1 DEF HandleHolds
<1> QED  BY <1>2, Invariant, PTL

-----------------------------------------------------------------------------
(* The text of AGENTS.md, a line at a time: walking it (Replace), collapsing its blank lines
   (Settle), and its rest (Keep).  What walking and collapsing make of a text is clean: a
   block where there is to be one, and nothing that either would change again. *)

Walks == [out : Seq(TextLine), inBlock : BOOLEAN, found : BOOLEAN]
Start == [out |-> << >>, inBlock |-> FALSE, found |-> FALSE]

LEMMA Markers ==
  /\ MarkerBegin \in TextLine /\ MarkerEnd \in TextLine /\ "protocol" \in TextLine /\ BlankLine \in TextLine
  /\ MarkerBegin # MarkerEnd /\ MarkerBegin # BlankLine /\ MarkerEnd # BlankLine /\ MarkerBegin # "protocol"
  /\ MarkerEnd # "protocol" /\ "protocol" # BlankLine
BY LinesGiven, Zenon DEF BlankLine, MarkerBegin, MarkerEnd

LEMMA BlockAppended ==
  ASSUME NEW q \in Seq(TextLine)
  PROVE  /\ q \o ProtocolBlock = Append(Append(Append(q, MarkerBegin), "protocol"), MarkerEnd)
         /\ q \o ProtocolBlock \in Seq(TextLine)
<1> DEFINE a == Append(q, MarkerBegin)
           b == Append(a, "protocol")
           c == Append(b, MarkerEnd)
           d == q \o ProtocolBlock
<1>1. ProtocolBlock \in Seq(TextLine) /\ Len(ProtocolBlock) = 3
  BY Markers DEF ProtocolBlock
<1>2. ProtocolBlock[1] = MarkerBegin /\ ProtocolBlock[2] = "protocol" /\ ProtocolBlock[3] = MarkerEnd
  BY DEF ProtocolBlock
<1>3. a \in Seq(TextLine) /\ b \in Seq(TextLine) /\ c \in Seq(TextLine)
  BY Markers
<1>4. /\ d \in Seq(TextLine) /\ Len(d) = Len(q) + 3
      /\ \A i \in 1..(Len(q) + 3) : d[i] = IF i <= Len(q) THEN q[i] ELSE ProtocolBlock[i - Len(q)]
  <2>1. /\ d \in Seq(TextLine) /\ Len(d) = Len(q) + Len(ProtocolBlock)
        /\ \A i \in 1..(Len(q) + Len(ProtocolBlock)) :
             d[i] = IF i <= Len(q) THEN q[i] ELSE ProtocolBlock[i - Len(q)]
    <3>1. ProtocolBlock \in Seq(TextLine)
      BY <1>1
    <3> QED  BY ONLY q \in Seq(TextLine), <3>1, ConcatProperties
  <2> HIDE DEF d
  <2> QED
    BY <2>1, <1>1
<1>5. Len(c) = Len(d) /\ \A i \in 1..Len(c) : c[i] = d[i]
  <2>1. Len(q) \in Nat
    OBVIOUS
  <2>2. Len(c) = Len(q) + 3
    BY Markers
  <2>3. ASSUME NEW i \in 1..(Len(q) + 3) PROVE c[i] = d[i]
    <3>1. CASE i <= Len(q)
      <4>1. c[i] = b[i] /\ b[i] = a[i] /\ a[i] = q[i]
        BY <2>1, <3>1, Markers, <1>3, AppendProperties
      <4> QED
        BY <4>1, <3>1, <1>4
    <3>2. CASE i = Len(q) + 1
      <4>1. c[i] = b[i] /\ b[i] = a[i] /\ a[i] = MarkerBegin
        BY <2>1, <3>2, Markers, <1>3, AppendProperties
      <4> QED
        BY <4>1, <3>2, <1>4, <1>2, <2>1
    <3>3. CASE i = Len(q) + 2
      <4>1. c[i] = b[i] /\ b[i] = "protocol"
        BY <2>1, <3>3, Markers, <1>3, AppendProperties
      <4> QED
        BY <4>1, <3>3, <1>4, <1>2, <2>1
    <3>4. CASE i = Len(q) + 3
      <4>1. c[i] = MarkerEnd
        BY <2>1, <3>4, Markers, <1>3, AppendProperties
      <4> QED
        BY <4>1, <3>4, <1>4, <1>2, <2>1
    <3> HIDE DEF c, d
    <3> QED
      BY <2>1, <3>1, <3>2, <3>3, <3>4
  <2> QED
    BY <2>2, <2>3, <1>4
<1> QED
  <2> HIDE DEF c, d
  <2>1. c = d
    BY <1>3, <1>4, <1>5, SeqEqual
  <2> QED
    BY <2>1, <1>3 DEF c, d

LEMMA ReplaceType ==
  ASSUME NEW w \in Walks, NEW x \in TextLine
  PROVE  Replace(w, x) \in Walks
<1>1. w.out \in Seq(TextLine) /\ w.inBlock \in BOOLEAN /\ w.found \in BOOLEAN
  BY DEF Walks
<1>2. CASE w.inBlock
  BY <1>1, <1>2 DEF Replace, Walks
<1>3. CASE ~ w.inBlock /\ x = MarkerBegin
  BY <1>1, <1>3, BlockAppended DEF Replace, Walks
<1>4. CASE ~ w.inBlock /\ x # MarkerBegin
  <2>1. Append(w.out, x) \in Seq(TextLine)
    BY <1>1
  <2> QED  BY <1>1, <1>4, <2>1 DEF Replace, Walks
<1> QED
  BY <1>1, <1>2, <1>3, <1>4

LEMMA WalkSteps ==
  ASSUME NEW q \in Seq(TextLine)
  PROVE  \E f \in [0..Len(q) -> Walks] :
           /\ f[0] = Start /\ \A k \in 1..Len(q) : f[k] = Replace(f[k - 1], q[k])
           /\ Walk(q) = f[Len(q)]
<1> DEFINE Rec(h) == h = [n \in 0..Len(q) |-> IF n = 0 THEN Start ELSE Replace(h[n - 1], q[n])]
           step == [k \in 1..Len(q) |-> [w \in Walks |-> Replace(w, q[k])]]
<1>1. Walk(q) = (CHOOSE h : Rec(h))[Len(q)]
  BY DEF Walk, Start
<1>2. step \in [1..Len(q) -> [Walks -> Walks]]
  BY ReplaceType
<1>3. Start \in Walks
  BY DEF Start, Walks
<1>4. PICK f \in [0..Len(q) -> Walks] : f[0] = Start /\ \A k \in 1..Len(q) : f[k] = step[k][f[k - 1]]
  <2> HIDE DEF step
  <2> DEFINE n == Len(q)
  <2>1. n \in Nat
    OBVIOUS
  <2>2. step \in [1..n -> [Walks -> Walks]]
    BY <1>2
  <2> HIDE DEF n
  <2>3. \E f \in [0..n -> Walks] : f[0] = Start /\ Stepwise(f, n, step)
    BY <2>1, <2>2, <1>3, FoldExists
  <2> QED  BY <2>3 DEF n, Stepwise
<1>5. \A k \in 1..Len(q) : f[k] = Replace(f[k - 1], q[k])
  BY <1>4
<1>6. Rec(f)
  BY <1>4, <1>5
<1>7. \E h : Rec(h)
  BY <1>6
<1> DEFINE g == CHOOSE h : Rec(h)
<1>8. Rec(g)
  BY <1>7
<1>9. g[0] = Start /\ \A k \in 1..Len(q) : g[k] = Replace(g[k - 1], q[k])
  <2> HIDE DEF g
  <2> QED  BY <1>8
<1>10. g[Len(q)] = f[Len(q)]
  <2> DEFINE P == {k \in Nat : k <= Len(q) => g[k] = f[k]}
  <2> HIDE DEF g
  <2>1. Len(q) \in Nat
    OBVIOUS
  <2>2. 0 \in P
    BY <1>4, <1>9
  <2>3. ASSUME NEW k \in P PROVE k + 1 \in P
    <3>1. SUFFICES ASSUME k + 1 <= Len(q) PROVE g[k + 1] = f[k + 1]
      OBVIOUS
    <3>2. g[k] = f[k] /\ k + 1 \in 1..Len(q) /\ (k + 1) - 1 = k
      BY <2>1, <3>1
    <3> QED
      BY <1>5, <1>9, <3>2
  <2>4. P = Nat
    <3> HIDE DEF P
    <3> QED  BY <2>2, <2>3, NatInduct DEF P
  <2> QED
    BY <2>1, <2>4
<1> QED
  BY <1>1, <1>4, <1>5, <1>10

LEMMA WalkEmpty ==
  Walk(<< >>) = Start
<1>1. << >> \in Seq(TextLine) /\ Len(<< >>) = 0
  OBVIOUS
<1> QED
  BY <1>1, WalkSteps

LEMMA WalkAppend ==
  ASSUME NEW q \in Seq(TextLine), NEW x \in TextLine
  PROVE  Walk(q) \in Walks /\ Walk(Append(q, x)) = Replace(Walk(q), x)
<1> DEFINE r == Append(q, x)
           step == [k \in 1..Len(q) |-> [w \in Walks |-> Replace(w, q[k])]]
<1>1. /\ r \in Seq(TextLine) /\ Len(r) = Len(q) + 1 /\ Len(q) \in Nat /\ r[Len(q) + 1] = x
      /\ \A k \in 1..Len(q) : r[k] = q[k]
  OBVIOUS
<1>2. PICK f \in [0..Len(q) -> Walks] :
        /\ f[0] = Start /\ \A k \in 1..Len(q) : f[k] = Replace(f[k - 1], q[k])
        /\ Walk(q) = f[Len(q)]
  BY WalkSteps
<1> HIDE DEF r
<1>3. PICK g \in [0..Len(r) -> Walks] :
        /\ g[0] = Start /\ \A k \in 1..Len(r) : g[k] = Replace(g[k - 1], r[k])
        /\ Walk(r) = g[Len(r)]
  BY <1>1, WalkSteps
<1>4. \A k \in 1..Len(q) : f[k] = step[k][f[k - 1]]
  <2>1. TAKE k \in 1..Len(q)
  <2>2. k - 1 \in 0..Len(q)
    BY <1>1, <2>1
  <2> QED
    BY <1>2, <2>2
<1>5. \A k \in 1..Len(q) : g[k] = step[k][g[k - 1]]
  <2>1. TAKE k \in 1..Len(q)
  <2>2. k \in 1..Len(r) /\ k - 1 \in 0..Len(r)
    BY <1>1, <2>1
  <2> QED
    BY <1>1, <1>3, <2>2
<1>6. f[Len(q)] = g[Len(q)]
  <2> DEFINE n == Len(q)
  <2>1. n \in Nat /\ n <= n /\ f[0] = g[0]
    BY <1>1, <1>2, <1>3
  <2>2. Stepwise(f, n, step) /\ Stepwise(g, n, step)
    BY <1>4, <1>5 DEF Stepwise
  <2> HIDE DEF n, step
  <2>3. f[n] = g[n]
    BY <2>1, <2>2, FoldUnique
  <2> QED  BY <2>3 DEF n
<1> QED
  BY <1>1, <1>2, <1>3, <1>6 DEF r

LEMMA SettleType ==
  ASSUME NEW w \in Seq(TextLine), NEW x \in TextLine
  PROVE  Settle(w, x) \in Seq(TextLine)
  BY DEF Settle

LEMMA CollapseSteps ==
  ASSUME NEW q \in Seq(TextLine)
  PROVE  \E f \in [0..Len(q) -> Seq(TextLine)] :
           /\ f[0] = << >> /\ \A k \in 1..Len(q) : f[k] = Settle(f[k - 1], q[k])
           /\ Collapse(q) = f[Len(q)]
<1> DEFINE Rec(h) == h = [n \in 0..Len(q) |-> IF n = 0 THEN << >> ELSE Settle(h[n - 1], q[n])]
           step == [k \in 1..Len(q) |-> [w \in Seq(TextLine) |-> Settle(w, q[k])]]
<1>1. Collapse(q) = (CHOOSE h : Rec(h))[Len(q)]
  BY DEF Collapse
<1>2. step \in [1..Len(q) -> [Seq(TextLine) -> Seq(TextLine)]]
  <2>1. ASSUME NEW w \in Seq(TextLine), NEW k \in 1..Len(q) PROVE Settle(w, q[k]) \in Seq(TextLine)
    BY SettleType
  <2> DEFINE S == Seq(TextLine)
  <2> HIDE DEF S
  <2>2. \A w \in S : \A k \in 1..Len(q) : Settle(w, q[k]) \in S
    BY <2>1 DEF S
  <2>3. step = [k \in 1..Len(q) |-> [w \in S |-> Settle(w, q[k])]]
    BY DEF S
  <2> HIDE DEF step
  <2>4. step \in [1..Len(q) -> [S -> S]]
    BY <2>2, <2>3
  <2> QED  BY <2>4 DEF S
<1>4. PICK f \in [0..Len(q) -> Seq(TextLine)] : f[0] = << >> /\ \A k \in 1..Len(q) : f[k] = step[k][f[k - 1]]
  <2> DEFINE n == Len(q)
         S == Seq(TextLine)
         none == << >>
  <2>1. n \in Nat
    OBVIOUS
  <2>4. none \in S
    OBVIOUS
  <2>2. step \in [1..n -> [S -> S]]
    BY <1>2
  <2> HIDE DEF n, step, S, none
  <2>3. \E f \in [0..n -> S] : f[0] = none /\ Stepwise(f, n, step)
    BY <2>1, <2>4, <2>2, FoldExists
  <2> QED  BY <2>3 DEF n, S, none, Stepwise
<1>5. \A k \in 1..Len(q) : f[k] = Settle(f[k - 1], q[k])
  <2>1. TAKE k \in 1..Len(q)
  <2>2. f[k - 1] \in Seq(TextLine)
    <3>1. k - 1 \in 0..Len(q)
      BY <2>1
    <3> QED  BY <1>4, <3>1
  <2> QED  BY <1>4, <2>2
<1>6. Rec(f)
  BY <1>4, <1>5
<1>7. \E h : Rec(h)
  BY <1>6
<1> DEFINE g == CHOOSE h : Rec(h)
<1>8. Rec(g)
  BY <1>7
<1>9. g[0] = << >> /\ \A k \in 1..Len(q) : g[k] = Settle(g[k - 1], q[k])
  <2> HIDE DEF g
  <2>1. 0 \in 0..Len(q) /\ \A k \in 1..Len(q) : k \in 0..Len(q) /\ k # 0
    OBVIOUS
  <2>2. g = [n \in 0..Len(q) |-> IF n = 0 THEN << >> ELSE Settle(g[n - 1], q[n])]
    BY <1>8
  <2> QED  BY <2>1, <2>2
<1>10. g[Len(q)] = f[Len(q)]
  <2> DEFINE P == {k \in Nat : k <= Len(q) => g[k] = f[k]}
  <2> HIDE DEF g
  <2>1. Len(q) \in Nat
    OBVIOUS
  <2>2. 0 \in P
    BY <1>4, <1>9
  <2>3. ASSUME NEW k \in P PROVE k + 1 \in P
    <3>1. SUFFICES ASSUME k + 1 <= Len(q) PROVE g[k + 1] = f[k + 1]
      OBVIOUS
    <3>2. g[k] = f[k] /\ k + 1 \in 1..Len(q) /\ (k + 1) - 1 = k
      BY <2>1, <3>1
    <3> QED
      BY <1>5, <1>9, <3>2
  <2>4. P = Nat
    <3> HIDE DEF P
    <3> QED  BY <2>2, <2>3, NatInduct DEF P
  <2> QED
    BY <2>1, <2>4
<1> QED
  BY <1>1, <1>4, <1>5, <1>10

LEMMA CollapseEmpty ==
  Collapse(<< >>) = << >>
<1>1. << >> \in Seq(TextLine) /\ Len(<< >>) = 0
  OBVIOUS
<1> QED
  BY <1>1, CollapseSteps

LEMMA CollapseAppend ==
  ASSUME NEW q \in Seq(TextLine), NEW x \in TextLine
  PROVE  Collapse(q) \in Seq(TextLine) /\ Collapse(Append(q, x)) = Settle(Collapse(q), x)
<1> DEFINE r == Append(q, x)
           step == [k \in 1..Len(q) |-> [w \in Seq(TextLine) |-> Settle(w, q[k])]]
<1>1. /\ r \in Seq(TextLine) /\ Len(r) = Len(q) + 1 /\ Len(q) \in Nat /\ r[Len(q) + 1] = x
      /\ \A k \in 1..Len(q) : r[k] = q[k]
  OBVIOUS
<1>2. PICK f \in [0..Len(q) -> Seq(TextLine)] :
        /\ f[0] = << >> /\ \A k \in 1..Len(q) : f[k] = Settle(f[k - 1], q[k])
        /\ Collapse(q) = f[Len(q)]
  BY CollapseSteps
<1> HIDE DEF r
<1>3. PICK g \in [0..Len(r) -> Seq(TextLine)] :
        /\ g[0] = << >> /\ \A k \in 1..Len(r) : g[k] = Settle(g[k - 1], r[k])
        /\ Collapse(r) = g[Len(r)]
  BY <1>1, CollapseSteps
<1>4. \A k \in 1..Len(q) : f[k] = step[k][f[k - 1]]
  <2>1. TAKE k \in 1..Len(q)
  <2>2. k - 1 \in 0..Len(q)
    BY <1>1, <2>1
  <2> QED
    BY <1>2, <2>2
<1>5. \A k \in 1..Len(q) : g[k] = step[k][g[k - 1]]
  <2>1. TAKE k \in 1..Len(q)
  <2>2. k \in 1..Len(r) /\ k - 1 \in 0..Len(r)
    BY <1>1, <2>1
  <2> QED
    BY <1>1, <1>3, <2>2
<1>6. f[Len(q)] = g[Len(q)]
  <2> DEFINE n == Len(q)
  <2>1. n \in Nat /\ n <= n /\ f[0] = g[0]
    BY <1>1, <1>2, <1>3
  <2>2. Stepwise(f, n, step) /\ Stepwise(g, n, step)
    BY <1>4, <1>5 DEF Stepwise
  <2> HIDE DEF n, step
  <2>3. f[n] = g[n]
    BY <2>1, <2>2, FoldUnique
  <2> QED  BY <2>3 DEF n, Stepwise
<1>7. Collapse(r) = Settle(g[Len(q)], x)
  <2>1. Len(r) \in 1..Len(r) /\ Len(r) - 1 = Len(q) /\ r[Len(r)] = x
    BY <1>1
  <2> QED  BY <1>3, <2>1
<1>8. Collapse(q) \in Seq(TextLine)
  <2>1. Len(q) \in 0..Len(q)
    BY <1>1
  <2> QED  BY <1>2, <2>1
<1> QED
  BY <1>2, <1>6, <1>7, <1>8 DEF r

\* What a line adds to the rest of a text.
Keep(w, q, k) == IF q[k] = BlankLine \/ InBlock(q, k) THEN w ELSE Append(w, q[k])

LEMMA RestSteps ==
  ASSUME NEW q \in Seq(TextLine)
  PROVE  \E f \in [0..Len(q) -> Seq(TextLine)] :
           /\ f[0] = << >> /\ \A k \in 1..Len(q) : f[k] = Keep(f[k - 1], q, k)
           /\ Rest(q) = f[Len(q)]
<1> DEFINE Rec(h) == h = [n \in 0..Len(q) |-> IF n = 0 THEN << >> ELSE Keep(h[n - 1], q, n)]
           step == [k \in 1..Len(q) |-> [w \in Seq(TextLine) |-> Keep(w, q, k)]]
<1>1. Rest(q) = (CHOOSE h : Rec(h))[Len(q)]
  BY DEF Rest, Keep
<1>2. step \in [1..Len(q) -> [Seq(TextLine) -> Seq(TextLine)]]
  <2>1. ASSUME NEW w \in Seq(TextLine), NEW k \in 1..Len(q) PROVE Keep(w, q, k) \in Seq(TextLine)
    BY DEF Keep
  <2> QED  BY <2>1
<1>4. PICK f \in [0..Len(q) -> Seq(TextLine)] : f[0] = << >> /\ \A k \in 1..Len(q) : f[k] = step[k][f[k - 1]]
  <2> DEFINE n == Len(q)
         S == Seq(TextLine)
         none == << >>
  <2>1. n \in Nat
    OBVIOUS
  <2>4. none \in S
    OBVIOUS
  <2>2. step \in [1..n -> [S -> S]]
    BY <1>2
  <2> HIDE DEF n, step, S, none
  <2>3. \E f \in [0..n -> S] : f[0] = none /\ Stepwise(f, n, step)
    BY <2>1, <2>4, <2>2, FoldExists
  <2> QED  BY <2>3 DEF n, S, none, Stepwise
<1>5. \A k \in 1..Len(q) : f[k] = Keep(f[k - 1], q, k)
  <2>1. TAKE k \in 1..Len(q)
  <2>2. f[k - 1] \in Seq(TextLine)
    <3>1. k - 1 \in 0..Len(q)
      BY <2>1
    <3> QED  BY <1>4, <3>1
  <2> QED  BY <1>4, <2>2
<1>6. Rec(f)
  BY <1>4, <1>5
<1>7. \E h : Rec(h)
  BY <1>6
<1> DEFINE g == CHOOSE h : Rec(h)
<1>8. Rec(g)
  BY <1>7
<1>9. g[0] = << >> /\ \A k \in 1..Len(q) : g[k] = Keep(g[k - 1], q, k)
  <2> HIDE DEF g
  <2>1. 0 \in 0..Len(q) /\ \A k \in 1..Len(q) : k \in 0..Len(q) /\ k # 0
    OBVIOUS
  <2>2. g = [n \in 0..Len(q) |-> IF n = 0 THEN << >> ELSE Keep(g[n - 1], q, n)]
    BY <1>8
  <2> QED  BY <2>1, <2>2
<1>10. g[Len(q)] = f[Len(q)]
  <2> DEFINE P == {k \in Nat : k <= Len(q) => g[k] = f[k]}
  <2> HIDE DEF g
  <2>1. Len(q) \in Nat
    OBVIOUS
  <2>2. 0 \in P
    BY <1>4, <1>9
  <2>3. ASSUME NEW k \in P PROVE k + 1 \in P
    <3>1. SUFFICES ASSUME k + 1 <= Len(q) PROVE g[k + 1] = f[k + 1]
      OBVIOUS
    <3>2. g[k] = f[k] /\ k + 1 \in 1..Len(q) /\ (k + 1) - 1 = k
      BY <2>1, <3>1
    <3> QED
      BY <1>5, <1>9, <3>2
  <2>4. P = Nat
    <3> HIDE DEF P
    <3> QED  BY <2>2, <2>3, NatInduct DEF P
  <2> QED
    BY <2>1, <2>4
<1> QED
  BY <1>1, <1>4, <1>5, <1>10

LEMMA RestEmpty ==
  Rest(<< >>) = << >>
<1>1. << >> \in Seq(TextLine) /\ Len(<< >>) = 0
  OBVIOUS
<1> QED
  BY <1>1, RestSteps

LEMMA RestAppend ==
  ASSUME NEW q \in Seq(TextLine), NEW x \in TextLine
  PROVE  Rest(q) \in Seq(TextLine) /\ Rest(Append(q, x)) = Keep(Rest(q), Append(q, x), Len(q) + 1)
<1> DEFINE r == Append(q, x)
           step == [k \in 1..Len(q) |-> [w \in Seq(TextLine) |-> Keep(w, q, k)]]
<1>1. /\ r \in Seq(TextLine) /\ Len(r) = Len(q) + 1 /\ Len(q) \in Nat /\ r[Len(q) + 1] = x
      /\ \A k \in 1..Len(q) : r[k] = q[k]
  OBVIOUS
<1>2. PICK f \in [0..Len(q) -> Seq(TextLine)] :
        /\ f[0] = << >> /\ \A k \in 1..Len(q) : f[k] = Keep(f[k - 1], q, k)
        /\ Rest(q) = f[Len(q)]
  BY RestSteps
<1> HIDE DEF r
<1>3. PICK g \in [0..Len(r) -> Seq(TextLine)] :
        /\ g[0] = << >> /\ \A k \in 1..Len(r) : g[k] = Keep(g[k - 1], r, k)
        /\ Rest(r) = g[Len(r)]
  BY <1>1, RestSteps
<1>4. \A k \in 1..Len(q) : f[k] = step[k][f[k - 1]]
  <2>1. TAKE k \in 1..Len(q)
  <2>2. k - 1 \in 0..Len(q)
    BY <1>1, <2>1
  <2> QED
    BY <1>2, <2>2
<1>5. \A k \in 1..Len(q) : g[k] = step[k][g[k - 1]]
  <2>1. TAKE k \in 1..Len(q)
  <2>2. k \in 1..Len(r) /\ k - 1 \in 0..Len(r)
    BY <1>1, <2>1
  <2>3. InBlock(r, k) <=> InBlock(q, k)
    <3>1. \A j \in 1..k : j \in 1..Len(q) /\ r[j] = q[j]
      <4>1. Len(q) \in Nat /\ \A j \in 1..Len(q) : r[j] = q[j]
        BY <1>1
      <4>2. \A j \in 1..k : j \in 1..Len(q)
        BY <2>1, <4>1
      <4> QED  BY <4>1, <4>2
    <3>2. \A b \in 1..k : \A e \in b..(k - 1) : e \in 1..k
      BY <2>1
    <3> QED
      BY <3>1, <3>2 DEF InBlock
  <2> QED
    BY <1>1, <1>3, <2>2, <2>3 DEF Keep
<1>6. f[Len(q)] = g[Len(q)]
  <2> DEFINE n == Len(q)
  <2>1. n \in Nat /\ n <= n /\ f[0] = g[0]
    BY <1>1, <1>2, <1>3
  <2>2. Stepwise(f, n, step) /\ Stepwise(g, n, step)
    BY <1>4, <1>5 DEF Stepwise
  <2> HIDE DEF n, step
  <2>3. f[n] = g[n]
    BY <2>1, <2>2, FoldUnique
  <2> QED  BY <2>3 DEF n, Stepwise
<1> QED
  BY <1>1, <1>2, <1>3, <1>6 DEF r

\* A text ends inside a block that has no end yet.
Inside(q) == \E b \in 1..Len(q) : q[b] = MarkerBegin /\ \A e \in b..Len(q) : q[e] # MarkerEnd

LEMMA InsideEmpty == ~ Inside(<< >>)
  BY DEF Inside

LEMMA InsideAppend ==
  ASSUME NEW q \in Seq(TextLine), NEW x \in TextLine
  PROVE  /\ InBlock(Append(q, x), Len(q) + 1) <=> x = MarkerBegin \/ Inside(q)
         /\ x = MarkerBegin => Inside(Append(q, x))
         /\ x = MarkerEnd => ~ Inside(Append(q, x))
         /\ x # MarkerBegin /\ x # MarkerEnd => (Inside(Append(q, x)) <=> Inside(q))
<1> DEFINE r == Append(q, x)
           n == Len(q)
<1>1. /\ n \in Nat /\ Len(r) = n + 1 /\ r[n + 1] = x
      /\ \A k \in 1..n : r[k] = q[k]
  OBVIOUS
<1>2. n = Len(q)
  OBVIOUS
<1> HIDE DEF r, n
<1>3. ASSUME NEW b \in 1..n
      PROVE  /\ b \in 1..(n + 1) /\ r[b] = q[b]
             /\ \A e \in b..n : e \in 1..n /\ r[e] = q[e]
             /\ b..((n + 1) - 1) = b..n
             /\ \A e \in b..(n + 1) : e \in b..n \/ e = n + 1
  BY <1>1
<1>4. InBlock(r, n + 1) <=> x = MarkerBegin \/ Inside(q)
  <2>1. ASSUME InBlock(r, n + 1), x # MarkerBegin PROVE Inside(q)
    <3>1. PICK b \in 1..(n + 1) : r[b] = MarkerBegin /\ \A e \in b..((n + 1) - 1) : r[e] # MarkerEnd
      BY <2>1 DEF InBlock
    <3>2. b \in 1..n
      BY <1>1, <2>1, <3>1
    <3> QED  BY <1>2, <1>3, <3>1, <3>2 DEF Inside
  <2>2. ASSUME x = MarkerBegin PROVE InBlock(r, n + 1)
    <3>1. n + 1 \in 1..(n + 1) /\ (n + 1)..((n + 1) - 1) = {}
      BY <1>1
    <3> QED  BY <1>1, <2>2, <3>1 DEF InBlock
  <2>3. ASSUME Inside(q) PROVE InBlock(r, n + 1)
    <3>1. PICK b \in 1..n : q[b] = MarkerBegin /\ \A e \in b..n : q[e] # MarkerEnd
      BY <1>2, <2>3 DEF Inside
    <3>2. b \in 1..(n + 1) /\ r[b] = MarkerBegin /\ \A e \in b..((n + 1) - 1) : r[e] # MarkerEnd
      BY <1>3, <3>1
    <3> QED  BY <3>2 DEF InBlock
  <2> QED  BY <2>1, <2>2, <2>3
<1>5. ASSUME x = MarkerBegin PROVE Inside(r)
  <2>1. n + 1 \in 1..Len(r) /\ \A e \in (n + 1)..Len(r) : e = n + 1
    BY <1>1
  <2>2. x # MarkerEnd
    BY <1>5, Markers
  <2> QED  BY <1>1, <1>5, <2>1, <2>2 DEF Inside
<1>6. ASSUME x = MarkerEnd PROVE ~ Inside(r)
  <2>1. \A b \in 1..Len(r) : n + 1 \in b..Len(r)
    BY <1>1
  <2> QED  BY <1>1, <1>6, <2>1 DEF Inside
<1>7. ASSUME x # MarkerBegin, x # MarkerEnd, Inside(r) PROVE Inside(q)
  <2>1. PICK b \in 1..(n + 1) : r[b] = MarkerBegin /\ \A e \in b..(n + 1) : r[e] # MarkerEnd
    BY <1>1, <1>7 DEF Inside
  <2>2. b \in 1..n /\ \A e \in b..n : e \in b..(n + 1)
    BY <1>1, <1>7, <2>1
  <2> QED  BY <1>2, <1>3, <2>1, <2>2 DEF Inside
<1>8. ASSUME x # MarkerEnd, Inside(q) PROVE Inside(r)
  <2>1. PICK b \in 1..n : q[b] = MarkerBegin /\ \A e \in b..n : q[e] # MarkerEnd
    BY <1>2, <1>8 DEF Inside
  <2> QED  BY <1>1, <1>3, <1>8, <2>1 DEF Inside
<1> QED
  BY <1>2, <1>4, <1>5, <1>6, <1>7, <1>8 DEF r

LEMMA WalkInside ==
  ASSUME NEW q \in Seq(TextLine)
  PROVE  Walk(q).inBlock <=> Inside(q)
<1> DEFINE P == {s \in Seq(TextLine) : Walk(s).inBlock <=> Inside(s)}
<1>1. << >> \in P
  BY WalkEmpty, InsideEmpty DEF Start
<1>2. ASSUME NEW s \in P, NEW x \in TextLine PROVE Append(s, x) \in P
  <2>1. /\ s \in Seq(TextLine) /\ Append(s, x) \in Seq(TextLine)
        /\ Walk(s).inBlock <=> Inside(s)
    OBVIOUS
  <2>2. /\ Walk(s) \in Walks /\ Walk(Append(s, x)) = Replace(Walk(s), x)
    BY <2>1, WalkAppend
  <2>3. Replace(Walk(s), x).inBlock <=> IF Walk(s).inBlock THEN x # MarkerEnd ELSE x = MarkerBegin
    BY <2>2 DEF Replace, Walks
  <2>4. Walk(Append(s, x)).inBlock <=> Inside(Append(s, x))
    BY <2>1, <2>2, <2>3, InsideAppend, Markers
  <2> QED  BY <2>1, <2>4
<1>3. P = Seq(TextLine)
  <2> HIDE DEF P
  <2> QED  BY <1>1, <1>2, SeqInduct DEF P
<1> QED
  BY <1>3

LEMMA RestStep ==
  ASSUME NEW q \in Seq(TextLine), NEW x \in TextLine
  PROVE  Rest(Append(q, x)) = IF x = BlankLine \/ x = MarkerBegin \/ Walk(q).inBlock
                              THEN Rest(q) ELSE Append(Rest(q), x)
<1>1. Append(q, x)[Len(q) + 1] = x
  OBVIOUS
<1> QED
  BY <1>1, RestAppend, InsideAppend, WalkInside DEF Keep

\* A text that walking leaves as it is, outside a block.
Walked(t, found) == [out |-> t, inBlock |-> FALSE, found |-> found]

\* A text that neither walking nor collapsing changes.
Clean(t, found) == t \in Seq(TextLine) /\ Walk(t) = Walked(t, found) /\ Collapse(t) = t

LEMMA ReplaceFields ==
  ASSUME NEW w \in Walks, NEW x \in TextLine
  PROVE  /\ w.inBlock => Replace(w, x) = [out |-> w.out, inBlock |-> x # MarkerEnd, found |-> w.found]
         /\ ~ w.inBlock /\ x = MarkerBegin =>
              Replace(w, x) = [out |-> w.out \o ProtocolBlock, inBlock |-> TRUE, found |-> TRUE]
         /\ ~ w.inBlock /\ x # MarkerBegin =>
              Replace(w, x) = Walked(Append(w.out, x), w.found)
  BY DEF Replace, Walks, Walked

\* A block at the end of a text that is not in one.
LEMMA BlockWalked ==
  ASSUME NEW q \in Seq(TextLine), ~ Walk(q).inBlock
  PROVE  /\ q \o ProtocolBlock \in Seq(TextLine)
         /\ Walk(q \o ProtocolBlock) = Walked(Walk(q).out \o ProtocolBlock, TRUE)
         /\ Rest(q \o ProtocolBlock) = Rest(q)
         /\ Collapse(q \o ProtocolBlock) = Collapse(q) \o ProtocolBlock
<1> DEFINE a == Append(q, MarkerBegin)
           b == Append(a, "protocol")
           c == Append(b, MarkerEnd)
           w == Walk(q)
           o == Walk(q).out \o ProtocolBlock
<1>1. /\ a \in Seq(TextLine) /\ b \in Seq(TextLine) /\ c \in Seq(TextLine) /\ c = q \o ProtocolBlock
  <2>0. c = q \o ProtocolBlock
    BY BlockAppended
  <2>1. a \in Seq(TextLine)
    BY Markers
  <2> HIDE DEF a
  <2>2. b \in Seq(TextLine)
    BY <2>1, Markers
  <2> HIDE DEF b
  <2>3. c \in Seq(TextLine)
    BY <2>2, Markers
  <2> QED  BY <2>0, <2>1, <2>2, <2>3 DEF a, b
<1>2. w \in Walks /\ w.inBlock = FALSE
  BY Markers, WalkAppend DEF Walks
<1>3. Walk(a) = Replace(w, MarkerBegin) /\ Walk(b) = Replace(Walk(a), "protocol") /\ Walk(c) = Replace(Walk(b), MarkerEnd)
  BY <1>1, Markers, WalkAppend
<1>4. /\ Rest(a) = Rest(q)
      /\ Rest(b) = IF Walk(a).inBlock THEN Rest(a) ELSE Append(Rest(a), "protocol")
      /\ Rest(c) = IF Walk(b).inBlock THEN Rest(b) ELSE Append(Rest(b), MarkerEnd)
  BY <1>1, Markers, RestStep
<1>5. /\ Collapse(q) \in Seq(TextLine) /\ Collapse(a) = Settle(Collapse(q), MarkerBegin)
      /\ Collapse(b) = Settle(Collapse(a), "protocol")
      /\ Collapse(c) = Settle(Collapse(b), MarkerEnd)
  BY <1>1, Markers, CollapseAppend
<1>6. Collapse(c) = Append(Append(Append(Collapse(q), MarkerBegin), "protocol"), MarkerEnd)
  BY <1>5, Markers DEF Settle
<1>7. Collapse(c) = Collapse(q) \o ProtocolBlock
  BY <1>5, <1>6, BlockAppended
<1> HIDE DEF a, b, c, w
<1>8. Walk(a) = [out |-> o, inBlock |-> TRUE, found |-> TRUE]
  BY <1>2, <1>3, Markers, ReplaceFields DEF w
<1>11. Walk(a) \in Walks /\ Walk(b) \in Walks
  BY <1>1, Markers, WalkAppend
<1> HIDE DEF o
<1>9. Walk(b) = [out |-> o, inBlock |-> TRUE, found |-> TRUE]
  <2>1. Walk(b) = [out |-> o, inBlock |-> "protocol" # MarkerEnd, found |-> TRUE]
    <3>1. Walk(a).inBlock /\ Walk(a).out = o /\ Walk(a).found = TRUE
      BY <1>8
    <3> QED  BY <1>3, <1>11, <3>1, Markers, ReplaceFields
  <2>2. ("protocol" # MarkerEnd) = TRUE
    BY Markers
  <2> QED  BY <2>1, <2>2, Zenon
<1>10. Walk(c) = Walked(o, TRUE)
  <2>1. Walk(c) = [out |-> o, inBlock |-> MarkerEnd # MarkerEnd, found |-> TRUE]
    <3>1. Walk(b).inBlock /\ Walk(b).out = o /\ Walk(b).found = TRUE
      BY <1>9
    <3> QED  BY <1>3, <1>11, <3>1, Markers, ReplaceFields
  <2>2. (MarkerEnd # MarkerEnd) = FALSE
    OBVIOUS
  <2> QED  BY <2>1, <2>2, Zenon DEF Walked
<1> QED
  BY <1>1, <1>4, <1>7, <1>8, <1>9, <1>10 DEF o

LEMMA RestCollapse ==
  ASSUME NEW q \in Seq(TextLine)
  PROVE  /\ Collapse(q) \in Seq(TextLine) /\ Len(Collapse(q)) <= Len(q)
         /\ Rest(Collapse(q)) = Rest(q)
         /\ Walk(Collapse(q)).inBlock <=> Walk(q).inBlock
<1> DEFINE P == {s \in Seq(TextLine) : /\ Collapse(s) \in Seq(TextLine) /\ Len(Collapse(s)) <= Len(s)
                                       /\ Rest(Collapse(s)) = Rest(s)
                                       /\ Inside(Collapse(s)) <=> Inside(s)}
<1>1. << >> \in P
  <2>1. << >> \in Seq(TextLine) /\ Len(<< >>) <= Len(<< >>)
    OBVIOUS
  <2> QED  BY <2>1, CollapseEmpty
<1>2. ASSUME NEW s \in P, NEW x \in TextLine PROVE Append(s, x) \in P
  <2> DEFINE t == Collapse(s)
             r == Append(s, x)
  <2>1. /\ s \in Seq(TextLine) /\ r \in Seq(TextLine) /\ t \in Seq(TextLine) /\ Len(t) <= Len(s)
        /\ Rest(t) = Rest(s) /\ (Inside(t) <=> Inside(s))
    OBVIOUS
  <2>2. Collapse(r) = Settle(t, x)
    BY <2>1, CollapseAppend
  <2>3. /\ Rest(r) = IF x = BlankLine \/ x = MarkerBegin \/ Inside(s) THEN Rest(s) ELSE Append(Rest(s), x)
        /\ Rest(Append(t, x)) = IF x = BlankLine \/ x = MarkerBegin \/ Inside(t) THEN Rest(t) ELSE Append(Rest(t), x)
    BY <2>1, RestStep, WalkInside
  <2>4. /\ Inside(r) <=> x = MarkerBegin \/ (x # MarkerEnd /\ Inside(s))
        /\ Inside(Append(t, x)) <=> x = MarkerBegin \/ (x # MarkerEnd /\ Inside(t))
    BY <2>1, InsideAppend, Markers
  <2>5. Len(r) = Len(s) + 1 /\ Len(Append(t, x)) = Len(t) + 1 /\ Len(s) \in Nat /\ Len(t) \in Nat
    BY <2>1
  <2> HIDE DEF t, r, P
  <2>6. CASE Settle(t, x) = t /\ x = BlankLine
    <3>1. Rest(r) = Rest(s) /\ (Inside(r) <=> Inside(s))
      BY <2>3, <2>4, <2>6, Markers
    <3>2. Collapse(r) = t /\ Len(t) <= Len(r)
      BY <2>1, <2>2, <2>5, <2>6
    <3>3. r \in Seq(TextLine) /\ Collapse(r) \in Seq(TextLine) /\ Len(Collapse(r)) <= Len(r)
      BY <2>1, <3>2
    <3>4. Rest(Collapse(r)) = Rest(r) /\ (Inside(Collapse(r)) <=> Inside(r))
      BY <2>1, <3>1, <3>2
    <3> QED  BY <3>3, <3>4 DEF P, r
  <2>7. CASE Settle(t, x) = Append(t, x)
    <3>1. Append(t, x) \in Seq(TextLine)
      BY <2>1
    <3>2. Rest(Append(t, x)) = Rest(r) /\ (Inside(Append(t, x)) <=> Inside(r))
      <4>1. Inside(t) <=> Inside(s)
        BY <2>1
      <4>2. Rest(Append(t, x)) = Rest(r)
        BY <2>1, <2>3, <4>1
      <4> QED  BY <2>4, <4>1, <4>2
    <3>3. Collapse(r) = Append(t, x) /\ Len(Append(t, x)) <= Len(r)
      BY <2>1, <2>2, <2>5, <2>7
    <3>4. r \in Seq(TextLine) /\ Collapse(r) \in Seq(TextLine) /\ Len(Collapse(r)) <= Len(r)
      BY <2>1, <3>1, <3>3
    <3>5. Rest(Collapse(r)) = Rest(r) /\ (Inside(Collapse(r)) <=> Inside(r))
      BY <3>2, <3>3
    <3> QED  BY <3>4, <3>5 DEF P, r
  <2> QED  BY <2>6, <2>7 DEF Settle, r
<1>3. P = Seq(TextLine)
  <2> HIDE DEF P
  <2> QED  BY <1>1, <1>2, SeqInduct DEF P
<1> QED
  BY <1>3, WalkInside

LEMMA WalkedFields ==
  ASSUME NEW t \in Seq(TextLine), NEW f \in BOOLEAN
  PROVE  /\ Walked(t, f) \in Walks
         /\ Walked(t, f).out = t /\ ~ Walked(t, f).inBlock
         /\ Walked(t, f).found <=> f
  BY DEF Walked, Walks

LEMMA HasBlockGrows ==
  ASSUME NEW t \in Seq(TextLine)
  PROVE  /\ HasBlock(t) => Len(t) >= 3 /\ \A x \in TextLine : HasBlock(Append(t, x))
         /\ HasBlock(t \o ProtocolBlock)
<1>1. ProtocolBlock \in Seq(TextLine) /\ Len(ProtocolBlock) = 3 /\ DOMAIN ProtocolBlock = 1..3
  BY Markers DEF ProtocolBlock
<1>2. ASSUME HasBlock(t), NEW x \in TextLine PROVE Len(t) >= 3 /\ HasBlock(Append(t, x))
  <2>1. PICK i \in 0..(Len(t) - 3) : \A k \in 1..3 : t[i + k] = ProtocolBlock[k]
    BY <1>1, <1>2 DEF HasBlock
  <2>2. /\ i \in Nat /\ Len(t) \in Nat /\ Len(t) >= 3 /\ i \in 0..(Len(Append(t, x)) - 3)
        /\ \A k \in 1..3 : i + k \in 1..Len(t)
        /\ \A j \in 1..Len(t) : Append(t, x)[j] = t[j]
    OBVIOUS
  <2>3. \A k \in 1..3 : Append(t, x)[i + k] = ProtocolBlock[k]
    BY <2>1, <2>2
  <2> QED  BY <1>1, <2>2, <2>3 DEF HasBlock
<1>3. HasBlock(t \o ProtocolBlock)
  <2> DEFINE d == t \o ProtocolBlock
  <2>1. /\ d \in Seq(TextLine) /\ Len(d) = Len(t) + Len(ProtocolBlock)
        /\ \A i \in 1..(Len(t) + Len(ProtocolBlock)) :
             d[i] = IF i <= Len(t) THEN t[i] ELSE ProtocolBlock[i - Len(t)]
    <3>1. ProtocolBlock \in Seq(TextLine)
      BY <1>1
    <3> QED  BY ONLY t \in Seq(TextLine), <3>1, ConcatProperties
  <2> HIDE DEF d
  <2>2. Len(t) \in Nat /\ Len(t) \in 0..(Len(d) - 3)
    BY <1>1, <2>1
  <2>3. \A k \in 1..3 : d[Len(t) + k] = ProtocolBlock[k]
    <3>1. TAKE k \in 1..3
    <3>2. Len(t) + k \in 1..(Len(t) + 3) /\ ~ (Len(t) + k <= Len(t)) /\ (Len(t) + k) - Len(t) = k
      BY <2>2
    <3> QED  BY <1>1, <2>1, <3>2
  <2>4. HasBlock(d)
    BY <1>1, <2>2, <2>3 DEF HasBlock
  <2> QED  BY <2>4 DEF d
<1>4. ASSUME HasBlock(t) PROVE Len(t) >= 3
  BY <1>1, <1>4 DEF HasBlock
<1> QED
  BY <1>2, <1>3, <1>4

\* What walking makes of a text: walking it again changes nothing, and it has the same rest.
LEMMA WalkClean ==
  ASSUME NEW q \in Seq(TextLine)
  PROVE  /\ Walk(q) \in Walks
         /\ Walk(Walk(q).out) = Walked(Walk(q).out, Walk(q).found)
         /\ Rest(Walk(q).out) = Rest(q)
         /\ ~ Walk(q).found => Walk(q).out = q /\ ~ Walk(q).inBlock
         /\ Walk(q).found => HasBlock(Walk(q).out)
<1> DEFINE Good(s, w) ==
             /\ Walk(w.out) = Walked(w.out, w.found)
             /\ Rest(w.out) = Rest(s)
             /\ ~ w.found => w.out = s /\ ~ w.inBlock
             /\ w.found => HasBlock(w.out)
           P == {s \in Seq(TextLine) : Good(s, Walk(s))}
<1>1. << >> \in P
  <2>1. Walk(<< >>) = Start /\ Start.out = << >> /\ ~ Start.inBlock /\ Start.found = FALSE
    BY WalkEmpty DEF Start
  <2>2. Walked(<< >>, FALSE) = Start
    BY DEF Walked, Start
  <2>3. << >> \in Seq(TextLine)
    OBVIOUS
  <2> QED  BY <2>1, <2>2, <2>3
<1>2. ASSUME NEW s \in P, NEW x \in TextLine PROVE Append(s, x) \in P
  <2> DEFINE w == Walk(s)
             v == Walk(Append(s, x))
             o == w.out
  <2>1. s \in Seq(TextLine) /\ Append(s, x) \in Seq(TextLine) /\ Good(s, w)
    OBVIOUS
  <2>2. w \in Walks /\ v = Replace(w, x)
    BY <2>1, WalkAppend
  <2>3. Rest(Append(s, x)) = IF x = BlankLine \/ x = MarkerBegin \/ w.inBlock THEN Rest(s) ELSE Append(Rest(s), x)
    BY <2>1, RestStep
  <2>4. o \in Seq(TextLine) /\ w.found \in BOOLEAN /\ w.inBlock \in BOOLEAN
    BY <2>2 DEF Walks
  <2>5. ~ Walk(o).inBlock /\ Walk(o).out = o
    BY <2>1, <2>4, WalkedFields
  <2> HIDE DEF w, v
  <2>6. CASE w.inBlock
    <3>1. v.out = o /\ v.found = w.found /\ w.found
      BY <2>1, <2>2, <2>6, ReplaceFields
    <3> QED  BY <2>1, <2>3, <2>6, <3>1 DEF v
  <2>7. CASE ~ w.inBlock /\ x = MarkerBegin
    <3>1. v.out = o \o ProtocolBlock /\ v.found = TRUE
      BY <2>2, <2>7, ReplaceFields
    <3>2. Walk(v.out) = Walked(v.out, v.found)
      BY <2>4, <2>5, <3>1, BlockWalked
    <3>3. Rest(v.out) = Rest(Append(s, x))
      BY <2>1, <2>3, <2>4, <2>5, <2>7, <3>1, BlockWalked
    <3>4. HasBlock(v.out)
      BY <2>4, <3>1, HasBlockGrows
    <3> QED  BY <2>1, <3>1, <3>2, <3>3, <3>4 DEF v
  <2>8. CASE ~ w.inBlock /\ x # MarkerBegin
    <3>1. v = Walked(Append(o, x), w.found) /\ Append(o, x) \in Seq(TextLine)
      BY <2>2, <2>4, <2>8, ReplaceFields
    <3>2. v.out = Append(o, x) /\ (v.found <=> w.found) /\ ~ v.inBlock /\ v.found \in BOOLEAN
      BY <2>4, <3>1, WalkedFields DEF Walked
    <3>3. Walk(v.out) = Replace(Walk(o), x)
      BY <2>4, <3>2, WalkAppend
    <3>4. Walk(o) \in Walks
      BY <2>4, WalkAppend
    <3>5. Walk(o).found <=> w.found
      BY <2>1, <2>4, WalkedFields
    <3>6. Replace(Walk(o), x) = Walked(Append(o, x), Walk(o).found)
      BY <2>5, <2>8, <3>4, ReplaceFields
    <3>7. Walk(o).found = w.found /\ v.found = w.found
      <4>1. Walk(o).found \in BOOLEAN
        BY <3>4 DEF Walks
      <4> QED  BY <2>4, <3>2, <3>5, <4>1
    <3>8. Walk(v.out) = Walked(v.out, v.found)
      BY <3>2, <3>3, <3>6, <3>7
    <3>9. Rest(v.out) = Rest(Append(s, x))
      <4>1. Rest(v.out) = IF x = BlankLine \/ x = MarkerBegin \/ Walk(o).inBlock THEN Rest(o) ELSE Append(Rest(o), x)
        BY <2>4, <3>2, RestStep
      <4>2. Rest(o) = Rest(s)
        BY <2>1
      <4> QED  BY <2>3, <2>5, <2>8, <4>1, <4>2
    <3>10. v.found => HasBlock(v.out)
      BY <2>1, <2>4, <3>2, HasBlockGrows
    <3>11. ~ v.found => v.out = Append(s, x)
      BY <2>1, <3>2
    <3> QED  BY <2>1, <3>2, <3>8, <3>9, <3>10, <3>11 DEF v
  <2> QED  BY <2>6, <2>7, <2>8
<1>3. P = Seq(TextLine)
  <2> HIDE DEF P
  <2> QED  BY <1>1, <1>2, SeqInduct DEF P
<1>4. Good(q, Walk(q))
  BY <1>3
<1> QED
  BY <1>4, Markers, WalkAppend

LEMMA CleanSettle ==
  ASSUME NEW t, NEW f \in BOOLEAN, NEW x \in TextLine, Clean(t, f), x # MarkerBegin
  PROVE  Clean(Settle(t, x), f)
<1>1. t \in Seq(TextLine) /\ Walk(t) = Walked(t, f) /\ Collapse(t) = t
  BY DEF Clean
<1>2. CASE Settle(t, x) = t
  BY <1>2
<1>3. CASE Settle(t, x) = Append(t, x)
  <2>1. Append(t, x) \in Seq(TextLine)
    BY <1>1
  <2>2. Walk(Append(t, x)) = Replace(Walk(t), x) /\ Walk(t) \in Walks
    BY <1>1, WalkAppend
  <2>3. Walk(t).out = t /\ ~ Walk(t).inBlock /\ Walk(t).found = f
    BY <1>1, WalkedFields DEF Walked
  <2>4. Walk(Append(t, x)) = Walked(Append(t, x), f)
    BY <2>2, <2>3, ReplaceFields
  <2>5. Collapse(Append(t, x)) = Append(t, x)
    BY <1>1, <1>3, CollapseAppend
  <2> QED  BY <1>3, <2>1, <2>4, <2>5 DEF Clean
<1> QED
  BY <1>2, <1>3 DEF Settle

LEMMA CleanBlock ==
  ASSUME NEW t, NEW f \in BOOLEAN, Clean(t, f)
  PROVE  Clean(t \o ProtocolBlock, TRUE)
<1>1. t \in Seq(TextLine) /\ Walk(t) = Walked(t, f) /\ Collapse(t) = t
  BY DEF Clean
<1>2. Walk(t).out = t /\ ~ Walk(t).inBlock
  BY <1>1, WalkedFields
<1> QED
  BY <1>1, <1>2, BlockWalked DEF Clean

LEMMA CleanEmpty == Clean(<< >>, FALSE)
<1>1. << >> \in Seq(TextLine)
  OBVIOUS
<1> QED
  BY <1>1, WalkEmpty, CollapseEmpty DEF Clean, Walked, Start

LEMMA CleanCollapse ==
  ASSUME NEW q \in Seq(TextLine)
  PROVE  Clean(Collapse(Walk(q).out), Walk(q).found)
<1> DEFINE P == {s \in Seq(TextLine) : Clean(Collapse(Walk(s).out), Walk(s).found)}
<1>1. << >> \in P
  <2>1. << >> \in Seq(TextLine)
    OBVIOUS
  <2>2. Walk(<< >>).out = << >> /\ Walk(<< >>).found = FALSE
    BY WalkEmpty DEF Start
  <2> QED  BY <2>1, <2>2, CleanEmpty, CollapseEmpty
<1>2. ASSUME NEW s \in P, NEW x \in TextLine PROVE Append(s, x) \in P
  <2> DEFINE w == Walk(s)
             v == Walk(Append(s, x))
             o == w.out
  <2>1. s \in Seq(TextLine) /\ Append(s, x) \in Seq(TextLine) /\ Clean(Collapse(o), w.found)
    OBVIOUS
  <2>2. w \in Walks /\ v = Replace(w, x)
    BY <2>1, WalkAppend
  <2>4. o \in Seq(TextLine) /\ w.found \in BOOLEAN
    BY <2>2 DEF Walks
  <2>5. ~ Walk(o).inBlock
    BY <2>1, <2>4, WalkClean, WalkedFields
  <2> HIDE DEF w, v
  <2>6. CASE w.inBlock
    <3>1. v.out = o /\ v.found = w.found
      BY <2>2, <2>6, ReplaceFields
    <3> QED  BY <2>1, <3>1 DEF v
  <2>7. CASE ~ w.inBlock /\ x = MarkerBegin
    <3>1. v.out = o \o ProtocolBlock /\ v.found = TRUE
      BY <2>2, <2>7, ReplaceFields
    <3>2. Collapse(v.out) = Collapse(o) \o ProtocolBlock
      BY <2>4, <2>5, <3>1, BlockWalked
    <3>3. Clean(Collapse(v.out), v.found)
      BY <2>1, <2>4, <3>1, <3>2, CleanBlock
    <3> QED  BY <2>1, <3>3 DEF v
  <2>8. CASE ~ w.inBlock /\ x # MarkerBegin
    <3>1. v.out = Append(o, x) /\ v.found = w.found
      BY <2>2, <2>8, ReplaceFields DEF Walked
    <3>2. Collapse(v.out) = Settle(Collapse(o), x)
      BY <2>4, <3>1, CollapseAppend
    <3>3. Clean(Collapse(v.out), v.found)
      BY <2>1, <2>4, <2>8, <3>1, <3>2, CleanSettle
    <3> QED  BY <2>1, <3>3 DEF v
  <2> QED  BY <2>6, <2>7, <2>8
<1>3. P = Seq(TextLine)
  <2> HIDE DEF P
  <2> QED  BY <1>1, <1>2, SeqInduct DEF P
<1> QED
  BY <1>3

\* A text that an update leaves as it is.
Steady(t) == Clean(t, TRUE) /\ Tidy(t) = t

LEMMA SteadyUpsert ==
  ASSUME NEW t, Steady(t)
  PROVE  t \in Seq(TextLine) /\ Upsert(t) = t /\ HasBlock(t)
<1>1. t \in Seq(TextLine) /\ Walk(t) = Walked(t, TRUE) /\ Tidy(t) = t
  BY DEF Steady, Clean
<1>2. Walk(t).out = t /\ Walk(t).found
  BY <1>1, WalkedFields
<1>3. HasBlock(t)
  BY <1>1, <1>2, WalkClean
<1> QED
  BY <1>1, <1>2, <1>3 DEF Upsert

\* The last blank line of a clean text can go.
LEMMA TidySteady ==
  ASSUME NEW q, Collapse(q) \in Seq(TextLine), Clean(Collapse(q), TRUE)
  PROVE  Steady(Tidy(q)) /\ Rest(Tidy(q)) = Rest(Collapse(q))
<1> DEFINE c == Collapse(q)
<1>1. c \in Seq(TextLine) /\ Walk(c) = Walked(c, TRUE) /\ Collapse(c) = c
  BY DEF Clean
<1>2. CASE ~ (Len(c) > 1 /\ Last(c) = BlankLine)
  <2>1. Tidy(q) = c
    BY <1>2 DEF Tidy
  <2>2. Tidy(c) = c
    BY <1>1, <1>2 DEF Tidy
  <2> QED  BY <2>1, <2>2 DEF Steady
<1>3. CASE Len(c) > 1 /\ Last(c) = BlankLine
  <2> DEFINE u == Front(c)
  <2>1. Tidy(q) = u
    BY <1>3 DEF Tidy
  <2>2. u \in Seq(TextLine) /\ c = Append(u, BlankLine)
    <3>1. c # << >>
      BY <1>3
    <3>2. c = Append(u, c[Len(c)]) /\ u \in Seq(TextLine)
      <4>1. Front(c) = [i \in 1..(Len(c) - 1) |-> c[i]] /\ Len(c) \in Nat
        BY <1>1 DEF Front
      <4>2. u \in Seq(TextLine) /\ Len(u) = Len(c) - 1 /\ \A i \in 1..Len(u) : u[i] = c[i]
        BY <1>1, <1>3, <4>1
      <4> HIDE DEF u
      <4>3. c[Len(c)] \in TextLine
        BY <1>1, <1>3
      <4> DEFINE d == Append(u, c[Len(c)])
      <4>4. d \in Seq(TextLine) /\ Len(d) = Len(c) /\ \A i \in 1..Len(c) : d[i] = c[i]
        BY <1>1, <1>3, <4>1, <4>2, <4>3
      <4> HIDE DEF d, c
      <4>5. c = d
        BY <1>1, <4>4, SeqEqual
      <4> QED  BY <4>2, <4>5 DEF d
    <3> QED  BY <1>3, <3>2 DEF Last
  <2> HIDE DEF u, c
  <2>3. Walk(u) \in Walks /\ Walk(c) = Replace(Walk(u), BlankLine)
    BY <2>2, Markers, WalkAppend
  <2>4. Walk(c).out = c /\ ~ Walk(c).inBlock /\ Walk(c).found = TRUE
    BY <1>1, WalkedFields DEF Walked
  <2>5. ~ Walk(u).inBlock
    <3>1. Walk(u).inBlock => Replace(Walk(u), BlankLine).inBlock = (BlankLine # MarkerEnd)
      BY <2>3, Markers, ReplaceFields
    <3> QED  BY <2>3, <2>4, <3>1, Markers
  <2>6. Walk(c) = Walked(Append(Walk(u).out, BlankLine), Walk(u).found)
    BY <2>3, <2>5, Markers, ReplaceFields
  <2>7. /\ Walk(u).out \in Seq(TextLine) /\ Append(Walk(u).out, BlankLine) = Append(u, BlankLine)
        /\ Walk(u).found = TRUE /\ Walk(u).inBlock = FALSE
    <3>1. Walk(u).out \in Seq(TextLine) /\ Walk(u).found \in BOOLEAN /\ Walk(u).inBlock \in BOOLEAN
      BY <2>3 DEF Walks
    <3>2. Append(Walk(u).out, BlankLine) \in Seq(TextLine)
      BY <3>1, Markers
    <3>3. Walk(c).out = Append(Walk(u).out, BlankLine) /\ (Walk(c).found <=> Walk(u).found)
      <4> DEFINE o == Append(Walk(u).out, BlankLine)
                 f == Walk(u).found
      <4>1. o \in Seq(TextLine) /\ f \in BOOLEAN /\ Walk(c) = Walked(o, f)
        BY <2>6, <3>1, <3>2
      <4> HIDE DEF o, f
      <4>2. Walk(c).out = o /\ (Walk(c).found <=> f)
        BY <4>1, WalkedFields
      <4> QED  BY <4>2 DEF o, f
    <3> QED  BY <2>2, <2>4, <2>5, <3>1, <3>3
  <2>8. Walk(u).out = u
    BY <2>2, <2>7, Markers, AppendInjective
  <2>9. Walk(u) = Walked(u, TRUE)
    BY <2>3, <2>7, <2>8 DEF Walks, Walked
  <2>10. Append(u, BlankLine) = Settle(Collapse(u), BlankLine)
    BY <1>1, <2>2, Markers, CollapseAppend
  <2>11. Collapse(u) \in Seq(TextLine) /\ Len(Collapse(u)) <= Len(u)
    BY <2>2, RestCollapse
  <2>12. Settle(Collapse(u), BlankLine) # Collapse(u)
    BY <2>2, <2>10, <2>11, Markers
  <2>13. Append(u, BlankLine) = Append(Collapse(u), BlankLine) /\ ~ (Len(Collapse(u)) >= 2 /\ Last(Collapse(u)) = BlankLine)
    BY <2>10, <2>12 DEF Settle
  <2>14. Collapse(u) = u
    BY <2>2, <2>11, <2>13, Markers, AppendInjective
  <2>15. Clean(u, TRUE)
    BY <2>2, <2>9, <2>14 DEF Clean
  <2>16. HasBlock(u)
    <3>1. Walk(u).found
      BY <2>7
    <3> QED  BY <2>2, <2>8, <3>1, WalkClean
  <2>17. Len(u) >= 2 /\ Len(u) >= 3
    BY <2>2, <2>16, HasBlockGrows
  <2>18. Last(u) # BlankLine
    BY <2>13, <2>14, <2>17
  <2>19. Tidy(u) = u
    BY <2>14, <2>18 DEF Tidy
  <2>20. Rest(c) = Rest(u)
    BY <2>2, Markers, RestStep
  <2> QED  BY <2>1, <2>15, <2>19, <2>20 DEF Steady, c
<1> QED
  BY <1>2, <1>3

\* An update finds a block where it puts one: what it makes of a text has the rest of the
\* text, holds the block, and is what another update makes of it (agents.rs upsert).
THEOREM UpsertCorrect ==
  ASSUME NEW q \in Seq(TextLine)
  PROVE  /\ Upsert(q) \in Seq(TextLine) /\ Rest(Upsert(q)) = Rest(q)
         /\ HasBlock(Upsert(q)) /\ Upsert(Upsert(q)) = Upsert(q)
<1> DEFINE w == Walk(q)
           e == w.out \o Gap(w.out)
           core == IF w.found THEN w.out ELSE w.out \o Gap(w.out) \o ProtocolBlock
<1>1. w \in Walks /\ w.out \in Seq(TextLine) /\ w.found \in BOOLEAN
  BY WalkClean DEF Walks
<1>2. core \in Seq(TextLine) /\ Clean(Collapse(core), TRUE) /\ Rest(core) = Rest(q)
  <2>1. CASE w.found
    <3>1. core = w.out /\ w.found = TRUE
      BY <1>1, <2>1
    <3> HIDE DEF core
    <3>2. Clean(Collapse(w.out), w.found)
      BY CleanCollapse
    <3>3. Rest(w.out) = Rest(q)
      BY WalkClean
    <3> QED  BY <1>1, <3>1, <3>2, <3>3
  <2>2. CASE ~ w.found
    <3>1. w.out = q /\ ~ w.inBlock
      BY <2>2, WalkClean
    <3>2. core = e \o ProtocolBlock
      BY <2>2
    <3>3. e = q \/ e = Append(q, BlankLine)
      <4>1. q \o << >> = q /\ q \o <<BlankLine>> = Append(q, BlankLine)
        <5>1. q \o << >> = q
          BY ConcatEmptySeq
        <5>2. q \o <<BlankLine>> = Append(q, BlankLine)
          BY Markers, AppendIsConcat
        <5> QED  BY <5>1, <5>2
      <4> QED  BY <3>1, <4>1 DEF Gap
    <3> HIDE DEF core, e
    <3>4. Clean(Collapse(q), FALSE)
      <4>1. w.found = FALSE
        BY <1>1, <2>2
      <4> QED  BY <3>1, <4>1, CleanCollapse
    <3>5. e \in Seq(TextLine) /\ Clean(Collapse(e), FALSE) /\ Rest(e) = Rest(q) /\ ~ Walk(e).inBlock
      <4>1. CASE e = q
        BY <3>1, <3>4, <4>1
      <4>2. CASE e = Append(q, BlankLine)
        <5>1. e \in Seq(TextLine) /\ Rest(e) = Rest(q)
          BY <4>2, Markers, RestStep
        <5>2. Collapse(e) = Settle(Collapse(q), BlankLine)
          BY <4>2, Markers, CollapseAppend
        <5>3. Clean(Collapse(e), FALSE)
          BY <3>4, <5>2, Markers, CleanSettle
        <5>4. Walk(e) = Replace(w, BlankLine)
          BY <4>2, Markers, WalkAppend
        <5>5. Replace(w, BlankLine) = Walked(Append(w.out, BlankLine), w.found)
          BY <1>1, <3>1, Markers, ReplaceFields
        <5>6. ~ Walk(e).inBlock
          BY <5>4, <5>5 DEF Walked
        <5> QED  BY <5>1, <5>3, <5>6
      <4> QED  BY <3>3, <4>1, <4>2
    <3>6. Collapse(core) = Collapse(e) \o ProtocolBlock /\ Rest(core) = Rest(e) /\ core \in Seq(TextLine)
      BY <3>2, <3>5, BlockWalked
    <3>7. Clean(Collapse(core), TRUE)
      BY <3>5, <3>6, CleanBlock
    <3> QED  BY <3>5, <3>6, <3>7
  <2> QED  BY <2>1, <2>2
<1>3. Upsert(q) = Tidy(core)
  BY DEF Upsert
<1> HIDE DEF core
<1>4. Collapse(core) \in Seq(TextLine) /\ Rest(Collapse(core)) = Rest(core)
  BY <1>2, RestCollapse
<1>5. Steady(Upsert(q)) /\ Rest(Upsert(q)) = Rest(q)
  BY <1>2, <1>3, <1>4, TidySteady
<1> QED
  BY <1>5, SteadyUpsert

\* The block alone, which `init --force` writes, is such a text.
LEMMA BlockSteady ==
  ProtocolBlock \in Seq(TextLine) /\ Upsert(ProtocolBlock) = ProtocolBlock /\ HasBlock(ProtocolBlock)
<1>1. << >> \in Seq(TextLine) /\ << >> \o ProtocolBlock = ProtocolBlock
  BY Markers DEF ProtocolBlock
<1>2. Clean(ProtocolBlock, TRUE)
  BY <1>1, CleanEmpty, CleanBlock
<1>3. ProtocolBlock \in Seq(TextLine) /\ Collapse(ProtocolBlock) = ProtocolBlock
  BY <1>2 DEF Clean
<1>4. Last(ProtocolBlock) = MarkerEnd
  BY DEF ProtocolBlock, Last
<1>5. Tidy(ProtocolBlock) = ProtocolBlock
  BY <1>3, <1>4, Markers DEF Tidy
<1> QED
  BY <1>2, <1>5, SteadyUpsert DEF Steady

-----------------------------------------------------------------------------
(* init.  What the file holds has the rest of what the user saved last (HoldsRest), and once
   an update has worked it holds the block and nothing that another would change
   (HoldsBlock): what that one would make of it is what it has read (AsRead). *)

\* AGENTS.md is one text, or is not there.
IsFile(file) == file = {} \/ (Content(file) \in Text /\ file = {Content(file)})

Outcomes == [ok : {FALSE}] \cup [ok : {TRUE}, state : {"unchanged", "created", "updated"}]

LastWorked == ~ run.dry_run /\ results # << >> /\ results[Len(results)].ok

InitTypeOK ==
  /\ run \in Runs
  /\ phase \in {"capture", "item", "apply", "rename", "killed", "done"}
  /\ phase \in {"apply", "rename"} => ~ run.dry_run /\ Item \in {"plain", "force"} /\ Len(results) < Len(run.items)
  /\ ~ run.dry_run => results \in Seq(Outcomes)
  /\ phase = "capture" => results = << >>
  /\ phase = "item" => ~ run.dry_run
  /\ clock \in Nat /\ edited \in BOOLEAN /\ lost \in BOOLEAN
  /\ IsFile(agents) /\ IsFile(original) /\ mine \in Text

\* What was read is what is there until the user saves, and what is staged is to change it.
AsRead ==
  /\ phase \in {"apply", "rename"} /\ ~ edited => original = agents
  /\ phase = "rename" => staging = {Updated} /\ Updated # Content(original)
  /\ clock = 0 => ~ edited

\* The file has the rest of what the user saved.
HoldsRest ==
  /\ agents = {} => mine = Nothing
  /\ ~ lost => Rest(Content(agents).lines) = Rest(mine.lines)

\* After an update that worked the file holds the block, and stays so until the user saves.
Managed(text) == HasBlock(text.lines) /\ ~ text.open /\ Upsert(text.lines) = text.lines

HoldsBlock ==
  LastWorked => \/ phase \in {"capture", "killed", "done"}
                \/ phase = "item" /\ edited
                \/ phase \in {"apply", "rename"} /\ clock # 0
                \/ Managed(Content(agents))

SecondIdle ==
  ~ run.dry_run =>
    \A i \in DOMAIN results :
      results[i].ok /\ i > 1 /\ results[i - 1].ok /\ run.items[i] = "plain" /\ clock = 0 =>
        results[i].state = "unchanged"

InitInv == run.verb = "init" => InitTypeOK /\ AsRead /\ HoldsRest /\ HoldsBlock /\ SecondIdle

LEMMA ContentOf ==
  /\ \A text : Content({text}) = text
  /\ \A file : IsFile(file) => Content(file) \in Text
<1>1. ASSUME NEW text PROVE Content({text}) = text
  <2>1. {text} # {} /\ (CHOOSE t \in {text} : TRUE) \in {text}
    OBVIOUS
  <2> QED  BY <2>1 DEF Content
<1>2. Nothing \in Text
  <2>1. << >> \in Seq(TextLine)
    OBVIOUS
  <2> QED  BY <2>1 DEF Nothing, Text
<1> QED
  BY <1>1, <1>2 DEF IsFile, Content

\* An update has the rest of what it read, or is the block alone.
LEMMA UpdatedText ==
  ASSUME Content(original) \in Text, Item \in {"plain", "force"}
  PROVE  /\ Updated \in Text /\ Managed(Updated)
         /\ Item = "force" => Updated = Forced
         /\ Item # "force" => Rest(Updated.lines) = Rest(Content(original).lines)
         /\ Item # "force" /\ Managed(Content(original)) => Updated = Content(original)
<1>1. Content(original).lines \in Seq(TextLine) /\ Content(original).open \in BOOLEAN
  BY DEF Text
<1>2. CASE Item = "force"
  <2>1. Updated = Forced
    BY <1>2 DEF Updated
  <2>2. Forced.lines = ProtocolBlock /\ Forced.open = FALSE /\ Forced \in Text
    BY BlockSteady DEF Forced, Text
  <2> QED  BY <1>2, <2>1, <2>2, BlockSteady DEF Managed
<1>3. CASE Item # "force"
  <2> DEFINE u == Upsert(Content(original).lines)
  <2>1. Updated = [lines |-> u, open |-> FALSE]
    BY <1>3 DEF Updated
  <2>2. u \in Seq(TextLine) /\ Rest(u) = Rest(Content(original).lines) /\ HasBlock(u) /\ Upsert(u) = u
    BY <1>1, UpsertCorrect
  <2> HIDE DEF u
  <2>3. Updated \in Text /\ Updated.lines = u /\ Updated.open = FALSE
    BY <2>1, <2>2 DEF Text
  <2>4. ASSUME Managed(Content(original)) PROVE Updated = Content(original)
    <3>1. u = Content(original).lines /\ ~ Content(original).open
      BY <2>4 DEF Managed, u
    <3>2. Content(original).open = FALSE
      BY <1>1, <3>1
    <3>3. Content(original) = [lines |-> Content(original).lines, open |-> Content(original).open]
      BY DEF Text
    <3> QED  BY <2>1, <3>1, <3>2, <3>3
  <2> QED  BY <1>3, <2>2, <2>3, <2>4 DEF Managed
<1> QED
  BY <1>2, <1>3

LEMMA InitStarts == CommandsInit => InitInv
<1> SUFFICES ASSUME CommandsInit, run.verb = "init" PROVE InitTypeOK /\ AsRead /\ HoldsRest /\ HoldsBlock /\ SecondIdle
  BY DEF InitInv
<1>1. /\ run \in Runs /\ results = << >> /\ phase = "capture" /\ clock = 0
      /\ agents = run.agents /\ mine = Content(agents) /\ original = {} /\ edited = FALSE /\ lost = FALSE
  BY DEF CommandsInit, InvocationInit, ProjectInit
<1>2. IsFile(agents)
  <2>1. run.agents = {} \/ \E text \in run.agents : text \in Text /\ run.agents = {text}
    BY <1>1, ItemsOfInit
  <2> QED  BY <1>1, <2>1, ContentOf DEF IsFile
<1>3. mine \in Text /\ IsFile(original)
  BY <1>1, <1>2, ContentOf DEF IsFile
<1>4. InitTypeOK
  <2>1. << >> \in Seq(Outcomes) /\ 0 \in Nat
    OBVIOUS
  <2> QED  BY <1>1, <1>2, <1>3, <2>1 DEF InitTypeOK
<1>5. HoldsRest
  BY <1>1 DEF HoldsRest, Content
<1> QED
  BY <1>1, <1>4, <1>5 DEF AsRead, HoldsBlock, SecondIdle

\* A result that says that the item failed changes nothing that the earlier ones say.
LEMMA ResultAdded ==
  ASSUME NEW result \in Outcomes, ~ run.dry_run, InitTypeOK, results' = Append(results, result)
  PROVE  /\ results' \in Seq(Outcomes) /\ results' # << >> /\ Len(results') = Len(results) + 1 /\ Len(results) \in Nat
         /\ results'[Len(results')] = result
         /\ DOMAIN results = 1..Len(results) /\ DOMAIN results' = 1..(Len(results) + 1)
         /\ \A i \in 1..Len(results) : results'[i] = results[i]
<1>1. results \in Seq(Outcomes)
  BY DEF InitTypeOK
<1> QED
  BY <1>1

LEMMA IdleKept ==
  ASSUME NEW result \in Outcomes, ~ run.dry_run, InitTypeOK, SecondIdle, results' = Append(results, result),
         run' = run, clock' = clock,
         result.ok /\ LastWorked /\ Item = "plain" /\ clock = 0 => result.state = "unchanged"
  PROVE  SecondIdle'
<1>1. /\ Len(results) \in Nat /\ DOMAIN results = 1..Len(results) /\ DOMAIN results' = 1..(Len(results) + 1)
      /\ \A i \in 1..Len(results) : results'[i] = results[i]
      /\ results'[Len(results) + 1] = result
  BY ResultAdded
<1>2. SUFFICES ASSUME NEW i \in 1..(Len(results) + 1), results'[i].ok, i > 1, results'[i - 1].ok,
                      run.items[i] = "plain", clock = 0
               PROVE  results'[i].state = "unchanged"
  BY <1>1 DEF SecondIdle
<1>3. CASE i \in 1..Len(results)
  <2>1. i - 1 \in 1..Len(results)
    BY <1>1, <1>2, <1>3
  <2> QED  BY <1>1, <1>2, <1>3, <2>1 DEF SecondIdle
<1>4. CASE i = Len(results) + 1
  <2>1. i - 1 = Len(results) /\ Len(results) \in 1..Len(results)
    <3>1. Len(results) \in Nat /\ i > 1
      BY <1>1, <1>2
    <3> QED  BY <1>4, <3>1
  <2>3. results # << >>
    BY <2>1
  <2>2. LastWorked /\ Item = "plain"
    BY <1>1, <1>2, <1>4, <2>1, <2>3 DEF LastWorked, Item
  <2> QED  BY <1>1, <1>2, <1>4, <2>2
<1> QED
  BY <1>1, <1>3, <1>4

InitParts == InitTypeOK /\ AsRead /\ HoldsRest /\ HoldsBlock /\ SecondIdle

LEMMA ReadAgentsKeeps ==
  ASSUME InitParts, ReadAgents PROVE InitParts'
<1> USE DEF InitParts, ReadAgents
<1>1. /\ phase = "item" /\ phase' = "apply" /\ original' = agents /\ edited' = FALSE
      /\ run' = run /\ results' = results /\ clock' = clock /\ agents' = agents /\ mine' = mine /\ lost' = lost
      /\ Len(results) < Len(run.items) /\ Item \in {"plain", "force"}
  OBVIOUS
<1>2. Item' = Item
  BY <1>1 DEF Item
<1>3. InitTypeOK'
  BY <1>1, <1>2 DEF InitTypeOK, IsFile, Content
<1>4. AsRead'
  BY <1>1 DEF AsRead
<1>5. HoldsRest'
  BY <1>1 DEF HoldsRest, Content
<1>6. HoldsBlock'
  BY <1>1 DEF HoldsBlock, LastWorked, Managed, Content, AsRead
<1>7. SecondIdle'
  BY <1>1 DEF SecondIdle
<1> QED
  BY <1>3, <1>4, <1>5, <1>6, <1>7

LEMMA MatchesKeeps ==
  ASSUME InitParts, Matches PROVE InitParts'
<1>1. /\ phase = "apply" /\ phase' = "item" /\ original' = original /\ edited' = edited
      /\ run' = run /\ clock' = clock /\ agents' = agents /\ mine' = mine /\ lost' = lost
      /\ Updated = Content(original)
  BY DEF Matches, project
<1> DEFINE result == [ok |-> TRUE, state |-> "unchanged"]
<1>2. result \in Outcomes /\ result.ok = TRUE /\ result.state = "unchanged"
  BY DEF Outcomes
<1>3. results' = Append(results, result)
  BY DEF Matches
<1> HIDE DEF result
<1>4. /\ InitTypeOK /\ ~ run.dry_run /\ Item \in {"plain", "force"} /\ Content(original) \in Text
      /\ IsFile(agents)
  BY <1>1, ContentOf DEF InitParts, InitTypeOK
<1>5. /\ results' \in Seq(Outcomes) /\ results' # << >>
      /\ results'[Len(results')] = result
  BY <1>2, <1>3, <1>4, ResultAdded
<1>6. InitTypeOK'
  BY <1>1, <1>4, <1>5 DEF InitTypeOK, IsFile, Content
<1>7. AsRead'
  BY <1>1 DEF InitParts, AsRead
<1>8. HoldsRest'
  BY <1>1 DEF InitParts, HoldsRest, Content
<1>9. HoldsBlock'
  <2>1. edited \/ agents = original
    BY <1>1 DEF InitParts, AsRead
  <2>2. Managed(Content(original))
    BY <1>1, <1>4, UpdatedText
  <2>3. edited \/ Managed(Content(agents))
    BY <2>1, <2>2
  <2> QED  BY <1>1, <2>3 DEF HoldsBlock, Managed, Content
<1>10. SecondIdle'
  BY <1>1, <1>2, <1>3, <1>4, IdleKept DEF InitParts
<1> QED
  BY <1>6, <1>7, <1>8, <1>9, <1>10 DEF InitParts

LEMMA StageKeeps ==
  ASSUME InitParts, Stage PROVE InitParts'
<1>1. /\ phase = "apply" /\ phase' = "rename" /\ staging' = {Updated} /\ Updated # Content(original)
      /\ run' = run /\ results' = results /\ clock' = clock /\ agents' = agents /\ mine' = mine /\ lost' = lost
      /\ original' = original /\ edited' = edited
  BY DEF Stage
<1>2. Item' = Item /\ Updated' = Updated /\ Content(original)' = Content(original) /\ Content(agents)' = Content(agents)
  BY <1>1 DEF Item, Updated, Content
<1>3. InitTypeOK'
  BY <1>1, <1>2 DEF InitParts, InitTypeOK, IsFile, Content
<1>4. AsRead'
  BY <1>1, <1>2 DEF InitParts, AsRead
<1>5. HoldsRest'
  BY <1>1, <1>2 DEF InitParts, HoldsRest
<1>6. HoldsBlock'
  BY <1>1, <1>2 DEF InitParts, HoldsBlock, LastWorked, Managed
<1>7. SecondIdle'
  BY <1>1 DEF InitParts, SecondIdle
<1> QED
  BY <1>3, <1>4, <1>5, <1>6, <1>7 DEF InitParts

LEMMA RenameStagingKeeps ==
  ASSUME InitParts, RenameStaging PROVE InitParts'
<1>1. /\ phase = "rename" /\ phase' = "item" /\ agents' = staging /\ original' = original /\ edited' = FALSE
      /\ run' = run /\ clock' = clock /\ (lost' <=> lost \/ edited)
      /\ mine' = IF Item = "force" THEN Forced ELSE mine
  BY DEF RenameStaging, InitParts, InitTypeOK
<1> DEFINE result == [ok |-> TRUE, state |-> IF original = {} THEN "created" ELSE "updated"]
<1>2. result \in Outcomes /\ result.ok = TRUE
  BY DEF Outcomes
<1>3. results' = Append(results, result)
  BY DEF RenameStaging
<1> HIDE DEF result
<1>4. /\ InitTypeOK /\ ~ run.dry_run /\ Item \in {"plain", "force"} /\ Content(original) \in Text
      /\ IsFile(agents) /\ mine \in Text /\ edited \in BOOLEAN /\ lost \in BOOLEAN
      /\ staging = {Updated} /\ Updated # Content(original)
      /\ edited \/ original = agents
  BY <1>1, ContentOf DEF InitParts, InitTypeOK, AsRead
<1>5. /\ results' \in Seq(Outcomes) /\ results' # << >>
      /\ results'[Len(results')] = result
  BY <1>2, <1>3, <1>4, ResultAdded
<1>6. /\ Updated \in Text /\ Managed(Updated)
      /\ Item = "force" => Updated = Forced
      /\ Item # "force" => Rest(Updated.lines) = Rest(Content(original).lines)
      /\ Item # "force" => ~ Managed(Content(original))
  BY <1>4, UpdatedText
<1>7. agents' = {Updated} /\ Content(agents') = Updated
  BY <1>1, <1>4, ContentOf
<1>8. InitTypeOK'
  <2>1. IsFile(agents')
    BY <1>6, <1>7 DEF IsFile
  <2>2. mine' \in Text
    BY <1>1, <1>4, <1>6
  <2>3. lost' \in BOOLEAN
    BY DEF RenameStaging
  <2> QED  BY <1>1, <1>4, <1>5, <2>1, <2>2, <2>3 DEF InitTypeOK, IsFile, Content
<1>9. AsRead'
  BY <1>1 DEF AsRead
<1>10. HoldsRest'
  <2>1. CASE Item = "force"
    <3>1. mine' = Updated
      BY <1>1, <1>6, <2>1
    <3> QED  BY <1>7, <3>1 DEF HoldsRest, Content
  <2>2. CASE Item # "force"
    <3>1. ~ lost' => ~ lost /\ original = agents
      BY <1>1, <1>4
    <3>2. ~ lost => Rest(Content(agents).lines) = Rest(mine.lines)
      BY DEF InitParts, HoldsRest
    <3>3. ~ lost' => Rest(Updated.lines) = Rest(mine.lines)
      BY <1>6, <2>2, <3>1, <3>2
    <3> QED  BY <1>1, <1>7, <2>2, <3>3 DEF HoldsRest, Content
  <2> QED  BY <2>1, <2>2
<1>11. HoldsBlock'
  <2>1. Managed(Content(agents))'
    BY <1>6, <1>7 DEF Managed, Content
  <2> QED  BY <2>1 DEF HoldsBlock
<1>12. SecondIdle'
  <2>1. ~ (LastWorked /\ Item = "plain" /\ clock = 0)
    <3>1. SUFFICES ASSUME LastWorked, Item = "plain", clock = 0 PROVE FALSE
      OBVIOUS
    <3>2. ~ edited /\ Managed(Content(agents))
      BY <1>1, <3>1 DEF InitParts, AsRead, HoldsBlock
    <3> QED  BY <1>4, <1>6, <3>1, <3>2
  <2>2. SecondIdle
    BY DEF InitParts
  <2> QED  BY <1>1, <1>2, <1>3, <1>4, <2>1, <2>2, IdleKept
<1> QED
  BY <1>8, <1>9, <1>10, <1>11, <1>12 DEF InitParts

\* An item that fails.
LEMMA ItemFailsKeeps ==
  ASSUME NEW code, InitParts, phase \in {"item", "apply", "rename"}, ItemFails(code),
         UNCHANGED <<run, clock, agents, original, mine, edited, lost>>
  PROVE  InitParts'
<1>1. InitTypeOK /\ ~ run.dry_run /\ results \in Seq(Outcomes) /\ SecondIdle
  BY DEF InitParts, InitTypeOK
<1>2. CASE run.batch
  <2> DEFINE result == [ok |-> FALSE]
  <2>1. result \in Outcomes /\ result.ok = FALSE
    BY DEF Outcomes
  <2>2. results' = Append(results, result) /\ phase' = "item"
    BY <1>2 DEF ItemFails
  <2> HIDE DEF result
  <2>3. /\ results' \in Seq(Outcomes) /\ results' # << >>
        /\ results'[Len(results')] = result
    BY <1>1, <2>1, <2>2, ResultAdded
  <2>4. InitTypeOK'
    BY <1>1, <2>2, <2>3 DEF InitTypeOK, IsFile, Content
  <2>5. AsRead'
    BY <2>2 DEF InitParts, AsRead
  <2>6. HoldsRest'
    BY DEF InitParts, HoldsRest, Content
  <2>7. HoldsBlock'
    BY <2>1, <2>3 DEF HoldsBlock, LastWorked
  <2>8. SecondIdle'
    BY <1>1, <2>1, <2>2, IdleKept
  <2> QED  BY <2>4, <2>5, <2>6, <2>7, <2>8 DEF InitParts
<1>3. CASE ~ run.batch
  <2>1. results' = results /\ phase' = "done"
    BY <1>3 DEF ItemFails, Fail
  <2>2. InitTypeOK'
    BY <1>1, <2>1 DEF InitTypeOK, IsFile, Content
  <2>3. AsRead'
    BY <2>1 DEF InitParts, AsRead
  <2>4. HoldsRest'
    BY DEF InitParts, HoldsRest, Content
  <2>5. HoldsBlock'
    BY <2>1 DEF HoldsBlock
  <2>6. SecondIdle'
    BY <2>1 DEF InitParts, SecondIdle
  <2> QED  BY <2>2, <2>3, <2>4, <2>5, <2>6 DEF InitParts
<1> QED
  BY <1>2, <1>3

\* A step to the end of the command, which leaves the file and the results.
LEMMA EndKeeps ==
  ASSUME InitParts, phase' \in {"killed", "done"},
         UNCHANGED <<run, results, clock, agents, original, mine, edited, lost>>
  PROVE  InitParts'
<1>1. InitTypeOK'
  BY DEF InitParts, InitTypeOK, IsFile, Content
<1>2. AsRead'
  BY DEF InitParts, AsRead
<1>3. HoldsRest'
  BY DEF InitParts, HoldsRest, Content
<1>4. HoldsBlock'
  BY DEF HoldsBlock
<1>5. SecondIdle'
  BY DEF InitParts, SecondIdle
<1> QED
  BY <1>1, <1>2, <1>3, <1>4, <1>5 DEF InitParts

LEMMA EditAgentsKeeps ==
  ASSUME InitParts, EditAgents PROVE InitParts'
<1>1. PICK text \in Edits : agents' = {text} /\ mine' = text
  BY DEF EditAgents
<1>2. text \in Text /\ Content(agents') = text
  BY <1>1, EditsAreTexts, ContentOf
<1>3. /\ clock' = clock + 1 /\ clock \in Nat /\ edited' = TRUE /\ run' = run /\ results' = results /\ phase' = phase
      /\ phase \in {"item", "apply", "rename"} /\ staging' = staging /\ original' = original /\ lost' = lost
  BY DEF EditAgents, InitParts, InitTypeOK
<1>4. clock' \in Nat /\ clock' # 0
  BY <1>3
<1>5. Item' = Item /\ Updated' = Updated /\ Content(original)' = Content(original)
  BY <1>3 DEF Item, Updated, Content
<1>6. InitTypeOK'
  <2>1. IsFile(agents)' /\ (mine \in Text)'
    BY <1>1, <1>2 DEF IsFile, Content
  <2> QED  BY <1>3, <1>4, <1>5, <2>1 DEF InitParts, InitTypeOK, IsFile, Content
<1>7. AsRead'
  BY <1>3, <1>4, <1>5 DEF InitParts, AsRead
<1>8. HoldsRest'
  BY <1>1, <1>2 DEF HoldsRest, Content
<1>9. HoldsBlock'
  BY <1>3, <1>4 DEF HoldsBlock
<1>10. SecondIdle'
  BY <1>4 DEF SecondIdle
<1> QED
  BY <1>6, <1>7, <1>8, <1>9, <1>10 DEF InitParts

LEMMA InitRequestsKeeps ==
  ASSUME InitParts, InitRequests PROVE InitParts'
<1>1. /\ phase = "capture" /\ results = << >> /\ Asked
      /\ UNCHANGED <<run, clock, agents, original, mine, edited, lost>>
  BY DEF InitRequests, project, InitParts, InitTypeOK
<1>2. CASE run.batch /\ Len(run.items) \notin 1..BatchMax
  <2>1. phase' = "done" /\ results' = results
    BY <1>1, <1>2 DEF Asked, Fail
  <2> QED  BY <1>1, <2>1, EndKeeps
<1>3. CASE ~ (run.batch /\ Len(run.items) \notin 1..BatchMax) /\ run.dry_run
  <2>1. phase' = "done"
    BY <1>1, <1>3 DEF Asked
  <2>2. InitTypeOK'
    BY <1>1, <1>3, <2>1 DEF InitParts, InitTypeOK, IsFile, Content
  <2>3. AsRead'
    BY <1>1, <2>1 DEF InitParts, AsRead
  <2>4. HoldsRest'
    BY <1>1 DEF InitParts, HoldsRest, Content
  <2>5. HoldsBlock' /\ SecondIdle'
    BY <1>1, <1>3, <2>1 DEF HoldsBlock, SecondIdle
  <2> QED  BY <2>2, <2>3, <2>4, <2>5 DEF InitParts
<1>4. CASE ~ (run.batch /\ Len(run.items) \notin 1..BatchMax) /\ ~ run.dry_run
  <2>1. phase' = "item" /\ results' = results
    BY <1>1, <1>4 DEF Asked
  <2>2. InitTypeOK'
    BY <1>1, <1>4, <2>1 DEF InitParts, InitTypeOK, IsFile, Content
  <2>3. AsRead'
    BY <1>1, <2>1 DEF InitParts, AsRead
  <2>4. HoldsRest'
    BY <1>1 DEF InitParts, HoldsRest, Content
  <2>5. HoldsBlock'
    BY <1>1, <2>1 DEF HoldsBlock, LastWorked
  <2>6. SecondIdle'
    BY <1>1, <2>1 DEF InitParts, SecondIdle
  <2> QED  BY <2>2, <2>3, <2>4, <2>5, <2>6 DEF InitParts
<1> QED
  BY <1>2, <1>3, <1>4

LEMMA InitKeeps ==
  ASSUME InitInv, [CommandsNext]_<<invocation, loaded, spent, project>> PROVE InitInv'
<1>1. SUFFICES ASSUME run'.verb = "init" PROVE InitParts'
  BY DEF InitInv, InitParts
<1>2. run' = run
  BY DEF CommandsNext, BatchNext, Capture, BatchRequests, Begin, Load, Compute, Refuse, Finish,
         CaptureNext, CaptureRequests, Operation, Complete, ClockTicks, SniffPage,
         InitNext, InitRequests, ReadAgents, Matches, Stage, RenameStaging, ApplyFails, Killed, EditAgents, invocation
<1>3. InitParts
  BY <1>1, <1>2 DEF InitInv, InitParts
<1>4. CASE UNCHANGED <<invocation, loaded, spent, project>>
  <2>1. UNCHANGED <<run, results, phase, clock, agents, staging, original, mine, edited, lost>>
    BY <1>4 DEF invocation, project
  <2>2. InitTypeOK'
    BY <1>3, <2>1 DEF InitParts, InitTypeOK, IsFile, Content, Item
  <2>3. AsRead'
    BY <1>3, <2>1 DEF InitParts, AsRead, Content, Updated, Item
  <2>4. HoldsRest'
    BY <1>3, <2>1 DEF InitParts, HoldsRest, Content
  <2>5. HoldsBlock'
    BY <1>3, <2>1 DEF InitParts, HoldsBlock, LastWorked, Managed, Content
  <2>6. SecondIdle'
    BY <1>3, <2>1 DEF InitParts, SecondIdle
  <2> QED  BY <2>2, <2>3, <2>4, <2>5, <2>6 DEF InitParts
<1>5. CASE BatchNext
  BY <1>1, <1>2, <1>5 DEF BatchNext, Offline
<1>6. CASE CaptureNext
  <2>1. phase # "operation"
    BY <1>3 DEF InitParts, InitTypeOK
  <2> QED  BY <1>1, <1>2, <1>6, <2>1 DEF CaptureNext, CaptureRequests, Operation, Complete, ClockTicks, SniffPage
<1>7. CASE InitNext
  <2>1. CASE InitRequests
    BY <1>3, <2>1, InitRequestsKeeps
  <2>2. CASE ReadAgents
    BY <1>3, <2>2, ReadAgentsKeeps
  <2>3. CASE Matches
    BY <1>3, <2>3, MatchesKeeps
  <2>4. CASE Stage
    BY <1>3, <2>4, StageKeeps
  <2>5. CASE RenameStaging
    BY <1>3, <2>5, RenameStagingKeeps
  <2>6. CASE ApplyFails
    BY <1>3, <2>6, ItemFailsKeeps DEF ApplyFails
  <2>7. CASE Killed
    BY <1>3, <2>7, EndKeeps DEF Killed
  <2>8. CASE EditAgents
    BY <1>3, <2>8, EditAgentsKeeps
  <2>9. CASE Refuse /\ UNCHANGED project
    BY <1>3, <2>9, ItemFailsKeeps DEF Refuse, project
  <2>10. CASE Finish /\ UNCHANGED project
    BY <1>3, <2>10, EndKeeps DEF Finish, project
  <2> QED  BY <1>7, <2>1, <2>2, <2>3, <2>4, <2>5, <2>6, <2>7, <2>8, <2>9, <2>10 DEF InitNext
<1> QED
  BY <1>4, <1>5, <1>6, <1>7 DEF CommandsNext

LEMMA InitInvariant == CommandsSpec => []InitInv
<1>1. CommandsInit => InitInv
  BY InitStarts
<1>2. InitInv /\ [CommandsNext]_<<invocation, loaded, spent, project>> => InitInv'
  BY InitKeeps
<1> QED
  BY <1>1, <1>2, PTL DEF CommandsSpec

\* init manages one block of AGENTS.md and nothing else (agents.rs apply): wherever it fails or
\* is killed the file has what the user wrote outside the block, after an update that worked it
\* holds the block, and another update is idle; for every text, and whatever the user saves.
THEOREM AgentsBlockManaged == CommandsSpec => []BlockManaged
<1>1. InitInv => BlockManaged
  <2>1. SUFFICES ASSUME run.verb = "init", InitParts PROVE BlockManaged
    BY DEF InitInv, InitParts, BlockManaged
  <2>2. ~ lost => Rest(Content(agents).lines) = Rest(mine.lines)
    BY <2>1 DEF InitParts, HoldsRest
  <2>3. ASSUME NEW i \in DOMAIN results, results[i].ok, ~ run.dry_run, i = Len(results), phase = "item", ~ edited
        PROVE  HasBlock(Content(agents).lines) /\ ~ Content(agents).open
    <3>1. results \in Seq(Outcomes)
      BY <2>1, <2>3 DEF InitParts, InitTypeOK
    <3>2. results # << >>
      BY <2>3, <3>1
    <3> QED  BY <2>1, <2>3, <3>2 DEF InitParts, HoldsBlock, LastWorked, Managed
  <2>4. ASSUME NEW i \in DOMAIN results, results[i].ok, ~ run.dry_run, i > 1, results[i - 1].ok,
               run.items[i] = "plain", clock = 0
        PROVE  results[i].state = "unchanged"
    BY <2>1, <2>4 DEF InitParts, SecondIdle
  <2> QED  BY <2>2, <2>3, <2>4 DEF BlockManaged
<1> QED
  BY <1>1, InitInvariant, PTL

\* Whatever is appended to a sequence of whatever.
Listed(q) == \E S : q \in Seq(S)

LEMMA AppendListed ==
  ASSUME NEW q, NEW x, Listed(q)
  PROVE  /\ Listed(Append(q, x)) /\ Len(q) \in Nat /\ Len(Append(q, x)) = Len(q) + 1
         /\ DOMAIN q = 1..Len(q) /\ DOMAIN Append(q, x) = 1..(Len(q) + 1)
         /\ Append(q, x)[Len(q) + 1] = x
         /\ \A i \in 1..Len(q) : Append(q, x)[i] = q[i]
<1>1. PICK S : q \in Seq(S)
  BY DEF Listed
<1> DEFINE T == S \cup {x}
<1>2. S \subseteq T /\ x \in T
  OBVIOUS
<1> HIDE DEF T
<1>3. q \in Seq(T)
  <2>1. Len(q) \in Nat /\ q \in [1..Len(q) -> S]
    BY <1>1
  <2>2. q \in [1..Len(q) -> T]
    BY <1>2, <2>1
  <2> DEFINE n == Len(q)
  <2>3. n \in Nat /\ q \in [1..n -> T]
    BY <2>1, <2>2
  <2> HIDE DEF n
  <2> QED  BY <2>3
<1>4. Append(q, x) \in Seq(T)
  BY <1>2, <1>3
<1>5. Listed(Append(q, x))
  BY <1>4 DEF Listed
<1> QED
  BY <1>2, <1>3, <1>5

LEMMA EmptyListed == Listed(<< >>)
  <1>1. << >> \in Seq({})
    OBVIOUS
  <1> QED  BY <1>1 DEF Listed

-----------------------------------------------------------------------------
(* Payloads. *)

\* The result of an item that was captured names a file with its payload, or a later one's.
Reached(i) ==
  /\ results[i].path \in DOMAIN files
  /\ \/ files[results[i].path] = i
     \/ \E j \in DOMAIN results : j > i /\ results[j].ok /\ results[j].path = results[i].path

PayloadInv ==
  run.verb = "capture" /\ run.batch /\ ~ run.dry_run =>
    /\ Listed(results)
    /\ \A i \in DOMAIN results : results[i].ok => Reached(i)

LEMMA EmitReaches ==
  ASSUME NEW args, NEW config, PayloadInv, run.verb = "capture", run.batch, ~ run.dry_run,
         run' = run, Emit(Len(results) + 1, args, config)
  PROVE  PayloadInv'
<1> DEFINE n == Len(results) + 1
<1>1. Destination(args) # {}
  BY DEF Destination
<1>2. PICK path : /\ results' = Append(results, [ok |-> TRUE, path |-> path])
                  /\ files' = Overwrite(files, path, n)
  BY <1>1 DEF Emit
<1> DEFINE result == [ok |-> TRUE, path |-> path]
<1>3. result.ok = TRUE /\ result.path = path
  OBVIOUS
<1> HIDE DEF result
<1>4. /\ Listed(results') /\ Len(results) \in Nat
      /\ DOMAIN results = 1..Len(results) /\ DOMAIN results' = 1..n
      /\ results'[n] = result
      /\ \A i \in 1..Len(results) : results'[i] = results[i]
  BY <1>2, AppendListed DEF PayloadInv, result
<1>5. /\ DOMAIN files' = {path} \cup DOMAIN files /\ files'[path] = n
      /\ \A p \in DOMAIN files : p # path => files'[p] = files[p]
  BY <1>2 DEF Overwrite
<1>6. ASSUME NEW i \in DOMAIN results', results'[i].ok PROVE Reached(i)'
  <2>1. CASE i = n
    BY <1>3, <1>4, <1>5, <2>1 DEF Reached
  <2>2. CASE i \in 1..Len(results)
    <3>1. results'[i] = results[i] /\ Reached(i) /\ i < n /\ n \in DOMAIN results'
      BY <1>4, <1>6, <2>2 DEF PayloadInv
    <3>2. results[i].path \in DOMAIN files /\ results[i].path \in DOMAIN files'
      BY <1>5, <3>1 DEF Reached
    <3>3. CASE results[i].path = path
      BY <1>3, <1>4, <3>1, <3>2, <3>3 DEF Reached
    <3>4. CASE results[i].path # path /\ files[results[i].path] = i
      BY <1>5, <3>1, <3>2, <3>4 DEF Reached
    <3>5. CASE \E j \in DOMAIN results : j > i /\ results[j].ok /\ results[j].path = results[i].path
      <4>1. PICK j \in DOMAIN results : j > i /\ results[j].ok /\ results[j].path = results[i].path
        BY <3>5
      <4>2. j \in DOMAIN results' /\ results'[j] = results[j]
        BY <1>4
      <4> QED  BY <3>1, <3>2, <4>1, <4>2 DEF Reached
    <3> QED  BY <3>1, <3>3, <3>4, <3>5 DEF Reached
  <2> QED  BY <1>4, <1>6, <2>1, <2>2
<1> QED
  BY <1>4, <1>6 DEF PayloadInv

LEMMA OperationReaches ==
  ASSUME NEW works \in BOOLEAN, PayloadInv, Operation(works), run.verb = "capture", run.batch, ~ run.dry_run
  PROVE  PayloadInv'
<1>1. run' = run
  BY DEF Operation
<1> DEFINE args == ApplyGlobal(Merge(run.args, run.items[Len(results) + 1]))
<1>2. CASE Emit(Len(results) + 1, args, IntoConfig(args, run.env).value)
  <2> HIDE DEF args
  <2> QED  BY <1>1, <1>2, EmitReaches
<1>3. CASE results' = Append(results, [ok |-> FALSE]) /\ files' = files
  <2> DEFINE result == [ok |-> FALSE]
  <2>0. result.ok = FALSE
    OBVIOUS
  <2> HIDE DEF result
  <2>1. /\ Listed(results') /\ Len(results) \in Nat
        /\ DOMAIN results = 1..Len(results) /\ DOMAIN results' = 1..(Len(results) + 1)
        /\ results'[Len(results) + 1] = result
        /\ \A i \in 1..Len(results) : results'[i] = results[i]
    BY <1>3, AppendListed DEF PayloadInv, result
  <2>2. ASSUME NEW i \in DOMAIN results', results'[i].ok PROVE Reached(i)'
    <3>1. i \in DOMAIN results /\ results'[i] = results[i]
      BY <2>0, <2>1, <2>2
    <3>2. Reached(i)
      BY <2>2, <3>1 DEF PayloadInv
    <3>3. DOMAIN results \subseteq DOMAIN results'
      BY <2>1
    <3> QED  BY <1>3, <2>1, <3>1, <3>2, <3>3 DEF Reached
  <2> QED  BY <2>1, <2>2 DEF PayloadInv
<1> QED
  BY <1>2, <1>3 DEF Operation

\* A batch of captures never throws a payload away (capture.rs run_batch, "Lote nunca descarta
\* payload"), for every invocation and every length of a batch.
THEOREM PayloadsReachable == CommandsSpec => []PayloadReachable
<1>1. CommandsInit => PayloadInv
  BY EmptyListed DEF CommandsInit, InvocationInit, PayloadInv
<1>2. PayloadInv /\ [CommandsNext]_<<invocation, loaded, spent, project>> => PayloadInv'
  <2>1. SUFFICES ASSUME PayloadInv, [CommandsNext]_<<invocation, loaded, spent, project>>,
                        run'.verb = "capture", run'.batch, ~ run'.dry_run
                 PROVE  PayloadInv'
    BY DEF PayloadInv
  <2>2. run' = run
    BY <2>1 DEF CommandsNext, BatchNext, Capture, BatchRequests, Begin, Load, Compute, Refuse, Finish,
           CaptureNext, CaptureRequests, Operation, Complete, ClockTicks, SniffPage,
           InitNext, InitRequests, ReadAgents, Matches, Stage, RenameStaging, ApplyFails, Killed, EditAgents, invocation
  <2>3. CASE UNCHANGED <<run, files, results>>
    BY <2>1, <2>3 DEF PayloadInv, Reached
  <2>4. CASE \E works \in BOOLEAN : Operation(works)
    BY <2>1, <2>2, <2>4, OperationReaches
  <2>5. CASE CaptureRequests
    <3>1. UNCHANGED <<run, files, results>>
      BY <2>1, <2>2, <2>5 DEF CaptureRequests, Fail
    <3> QED  BY <2>3, <3>1
  <2>6. CASE ClockTicks \/ Complete
    <3>1. UNCHANGED <<run, files, results>>
      BY <2>6 DEF ClockTicks, Complete
    <3> QED  BY <2>3, <3>1
  <2>7. ~ InitNext /\ ~ BatchNext /\ \A works \in BOOLEAN : ~ SniffPage(works)
    BY <2>1, <2>2 DEF InitNext, BatchNext, Offline, SniffPage
  <2> QED  BY <2>1, <2>3, <2>4, <2>5, <2>6, <2>7 DEF CommandsNext, CaptureNext, invocation
<1>3. PayloadInv => PayloadReachable
  BY DEF PayloadInv, PayloadReachable, Reached
<1> QED
  BY <1>1, <1>2, <1>3, PTL DEF CommandsSpec

-----------------------------------------------------------------------------
(* Batches. *)

NeededSides == Range(Needed)

\* The sides that are read, in their order.
FirstSides == {{Needed[k] : k \in 1..n} : n \in 0..Len(Needed)}

LEMMA SidesNeeded ==
  ASSUME Offline
  PROVE  /\ Len(Needed) \in {1, 2} /\ NeededSides = {Needed[k] : k \in 1..Len(Needed)}
         /\ \A read \in FirstSides :
              /\ Cardinality(read) \in 0..Len(Needed) /\ (Cardinality(read) = 0 <=> read = {})
              /\ Cardinality(read) = Len(Needed) => read = NeededSides
              /\ read \subseteq NeededSides
              /\ Cardinality(read) < Len(Needed) =>
                   /\ Needed[Cardinality(read) + 1] \in NeededSides \ read
                   /\ read \cup {Needed[Cardinality(read) + 1]} \in FirstSides
<1>1. CASE run.verb = "diff"
  <2>1. Needed = <<"base", "head">> /\ Len(Needed) = 2 /\ Needed[1] = "base" /\ Needed[2] = "head"
    BY <1>1 DEF Needed
  <2>2. DOMAIN Needed = {1, 2} /\ NeededSides = {"base", "head"}
    <3>1. DOMAIN Needed = 1..2
      BY <2>1
    <3>2. 1..2 = {1, 2}
      OBVIOUS
    <3> QED  BY <2>1, <3>1, <3>2 DEF NeededSides, Range
  <2>3. FirstSides = {{}, {"base"}, {"base", "head"}}
    <3>1. /\ {Needed[k] : k \in 1..0} = {} /\ {Needed[k] : k \in 1..1} = {"base"}
          /\ {Needed[k] : k \in 1..2} = {"base", "head"}
      BY <2>1
    <3>2. 0..Len(Needed) = {0, 1, 2}
      BY <2>1
    <3> QED  BY <3>1, <3>2 DEF FirstSides
  <2>4. Cardinality({}) = 0 /\ Cardinality({"base"}) = 1 /\ Cardinality({"base", "head"}) = 2
    <3>1. Cardinality({}) = 0 /\ IsFiniteSet({})
      BY FS_EmptySet
    <3>2. Cardinality({"base"}) = 1 /\ IsFiniteSet({"base"})
      BY FS_Singleton
    <3>3. Cardinality({"base"} \cup {"head"}) = 1 + 1
      BY <3>2, FS_AddElement
    <3>4. {"base"} \cup {"head"} = {"base", "head"}
      OBVIOUS
    <3> QED  BY <3>1, <3>2, <3>3, <3>4
  <2>5. {Needed[k] : k \in 1..Len(Needed)} = {"base", "head"}
    BY <2>1
  <2>6. {} \cup {"base"} = {"base"} /\ {"base"} \cup {"head"} = {"base", "head"} /\ "base" # "head"
    OBVIOUS
  <2> QED  BY <2>1, <2>2, <2>3, <2>4, <2>5, <2>6
<1>2. CASE run.verb # "diff"
  <2>1. Needed = <<"head">> /\ Len(Needed) = 1 /\ Needed[1] = "head"
    BY <1>2 DEF Needed
  <2>2. DOMAIN Needed = {1} /\ NeededSides = {"head"}
    <3>1. DOMAIN Needed = 1..1
      BY <2>1
    <3>2. 1..1 = {1}
      OBVIOUS
    <3> QED  BY <2>1, <3>1, <3>2 DEF NeededSides, Range
  <2>3. FirstSides = {{}, {"head"}}
    <3>1. {Needed[k] : k \in 1..0} = {} /\ {Needed[k] : k \in 1..1} = {"head"}
      BY <2>1
    <3>2. 0..Len(Needed) = {0, 1}
      BY <2>1
    <3> QED  BY <3>1, <3>2 DEF FirstSides
  <2>4. Cardinality({}) = 0 /\ Cardinality({"head"}) = 1
    BY FS_EmptySet, FS_Singleton
  <2>5. {Needed[k] : k \in 1..Len(Needed)} = {"head"}
    BY <2>1
  <2>6. {} \cup {"head"} = {"head"}
    OBVIOUS
  <2> QED  BY <2>1, <2>2, <2>3, <2>4, <2>5, <2>6
<1> QED
  BY <1>1, <1>2

\* Stdin is as the items before the current one left it, and what it has read so far.
Here == Drained(Len(results) + 1)
Dashed(item, sides) == \E side \in sides : Operands[item][side] = "-"

\* What the current item has read, a document from each operand.
Loading ==
  /\ Item \in Readable /\ Len(results) < Len(run.items)
  /\ DOMAIN loaded \in FirstSides /\ loaded = [side \in DOMAIN loaded |-> Opened(Item, side, Here)]
  /\ \A side \in DOMAIN loaded : Opened(Item, side, Here).ok
  /\ spent <=> Here \/ Dashed(Item, DOMAIN loaded)

\* Of a batch, the results so far are those of its items alone.
BatchInv ==
  Offline =>
    /\ run \in Runs
    /\ phase \in {"capture", "item", "load", "done"}
    /\ phase = "capture" => results = << >>
    /\ run.batch /\ ~ run.dry_run =>
         /\ Listed(results) /\ Len(results) <= Len(run.items)
         /\ phase # "capture" => \A i \in DOMAIN results : results[i] = Alone(run.items[i], Drained(i))
         /\ phase = "item" => (spent <=> Here)
         /\ phase = "load" => Loading
         /\ phase = "done" /\ Len(run.items) \in 1..BatchMax => Len(results) = Len(run.items)

LEMMA ItemsListed ==
  ASSUME Offline, run \in Runs
  PROVE  Len(run.items) \in Nat /\ DOMAIN run.items = 1..Len(run.items)
<1>1. run.items \in Seq(DocumentItems(run.verb))
  BY ItemsOfDocuments DEF Offline
<1> QED
  BY <1>1

\* Only of one operand does stdin matter.
LEMMA OneDash ==
  ASSUME NEW item \in Readable, NEW side \in Sides
  PROVE  /\ Operands[item][side] \in {"file", "missing", "-"}
         /\ Operands[item][side] = "-" => \A s \in Sides : Operands[item][s] = "-" => s = side
         /\ \A a, b \in BOOLEAN : Operands[item][side] # "-" => Opened(item, side, a) = Opened(item, side, b)
<1>1. /\ Operands[item][side] \in {"file", "missing", "-"}
      /\ Operands[item][side] = "-" => \A s \in Sides : Operands[item][s] = "-" => s = side
  BY DEF Operands, Readable, Sides
<1>2. ASSUME NEW a \in BOOLEAN, NEW b \in BOOLEAN, Operands[item][side] # "-"
      PROVE  Opened(item, side, a) = Opened(item, side, b)
  <2> DEFINE from == Operands[item][side]
  <2>1. from \in {"file", "missing"}
    BY <1>1, <1>2
  <2> QED  BY <2>1 DEF Opened
<1> QED
  BY <1>1, <1>2

\* Who has read stdin is who had a dash among the operands that it came to.
LEMMA DashRead ==
  ASSUME Offline, NEW item \in Readable, NEW gone \in BOOLEAN, NEW sides, NEW next \in sides,
         sides \in FirstSides, sides \ {next} \in FirstSides,
         \A s \in sides \ {next} : Opened(item, s, gone).ok,
         sides = NeededSides \/ ~ Opened(item, next, gone).ok
  PROVE  Dashed(item, sides) <=> ReadsStdin(item)
<1>1. sides \subseteq NeededSides /\ NeededSides = Range(Needed) /\ NeededSides \subseteq Sides
  <2>1. sides \subseteq NeededSides
    BY SidesNeeded
  <2>2. NeededSides = Range(Needed) /\ NeededSides \subseteq Sides
    BY DEF NeededSides, Needed, Sides, Range
  <2> QED  BY <2>1, <2>2
<1>2. run.verb = "diff" => (\A read \in FirstSides : "head" \in read => "base" \in read)
  <2>1. SUFFICES ASSUME run.verb = "diff", NEW n \in 0..Len(Needed), "head" \in {Needed[k] : k \in 1..n}
                 PROVE  "base" \in {Needed[k] : k \in 1..n}
    BY DEF FirstSides
  <2>2. Needed[1] = "base" /\ n # 0
    BY <2>1 DEF Needed
  <2> QED  BY <2>1, <2>2
<1>3. run.verb # "diff" => NeededSides = {"head"}
  BY DEF NeededSides, Needed, Range
<1>4. CASE Dashed(item, sides)
  <2>1. PICK side \in sides : Operands[item][side] = "-"
    BY <1>4 DEF Dashed
  <2>2. ASSUME side = "head", run.verb = "diff" PROVE Opened(item, "base", FALSE).ok
    <3>1. "base" \in sides /\ "base" # side
      BY <1>2, <2>1, <2>2
    <3>2. Operands[item]["base"] # "-"
      BY <1>1, <2>1, <3>1, OneDash
    <3>3. next # "base"
      <4>1. SUFFICES ASSUME next = "base" PROVE FALSE
        OBVIOUS
      <4>2. "head" \in sides \ {next}
        BY <2>1, <2>2, <4>1
      <4> QED  BY <1>2, <2>2, <4>1, <4>2
    <3>4. Opened(item, "base", gone).ok
      BY <3>1, <3>3
    <3> QED  BY <1>1, <3>1, <3>2, <3>4, OneDash
  <2> QED  BY <1>1, <1>4, <2>1, <2>2 DEF ReadsStdin
<1>5. ASSUME ReadsStdin(item) PROVE Dashed(item, sides)
  <2>1. PICK side \in NeededSides :
          /\ Operands[item][side] = "-"
          /\ side = "head" /\ run.verb = "diff" => Opened(item, "base", FALSE).ok
    BY <1>1, <1>5 DEF ReadsStdin
  <2>2. CASE side \in sides
    BY <2>1, <2>2 DEF Dashed
  <2>3. CASE side \notin sides
    <3>1. sides # NeededSides /\ ~ Opened(item, next, gone).ok
      BY <2>3
    <3>2. run.verb = "diff"
      BY <1>1, <1>3, <2>3
    <3>3. side \in {"base", "head"} /\ next \in {"base", "head"} /\ side # next
      BY <1>1, <2>3 DEF Sides
    <3>4. side = "head" /\ next = "base"
      BY <1>2, <2>3, <3>2, <3>3
    <3>5. Operands[item]["base"] # "-"
      BY <1>1, <2>1, <3>4, OneDash
    <3>6. Opened(item, "base", gone).ok
      BY <1>1, <2>1, <3>2, <3>4, <3>5, OneDash
    <3> QED  BY <3>1, <3>4, <3>6
  <2> QED  BY <2>2, <2>3
<1> QED
  BY <1>4, <1>5

\* Nothing of this changes with what an item does.
LEMMA FilesStay ==
  ASSUME UNCHANGED <<run, files>>
  PROVE  /\ \A item, side, gone : Opened(item, side, gone)' = Opened(item, side, gone)
         /\ \A item, gone : Alone(item, gone)' = Alone(item, gone)
         /\ \A item : ReadsStdin(item)' = ReadsStdin(item)
         /\ \A i : Drained(i)' = Drained(i)
         /\ \A i : Alone(run.items[i], Drained(i))' = Alone(run.items[i], Drained(i))
<1>1. \A item, side, gone : Opened(item, side, gone)' = Opened(item, side, gone)
  BY DEF Opened
<1>2. \A item, gone : Alone(item, gone)' = Alone(item, gone)
  BY DEF Alone, Needed, Opened
<1>3. \A item : ReadsStdin(item)' = ReadsStdin(item)
  BY DEF ReadsStdin, Needed, Opened
<1>4. \A i : Drained(i)' = Drained(i)
  BY <1>3 DEF Drained
<1>5. \A i : Alone(run.items[i], Drained(i))' = Alone(run.items[i], Drained(i))
  BY DEF Alone, Needed, Opened, Drained, ReadsStdin
<1> QED  BY <1>1, <1>2, <1>3, <1>4, <1>5

LEMMA DrainedNext ==
  ASSUME Offline, run \in Runs, NEW i \in Nat \ {0}
  PROVE  /\ Drained(i) \in BOOLEAN
         /\ Drained(i + 1) <=> Drained(i) \/ ReadsStdin(run.items[i])
<1>1. run.piped \in BOOLEAN
  BY ItemsOfDocuments DEF Offline
<1>2. 1..((i + 1) - 1) = 1..(i - 1) \cup {i}
  OBVIOUS
<1> QED  BY <1>1, <1>2 DEF Drained

\* An item is answered as it is alone.
LEMMA Answered ==
  ASSUME NEW result, BatchInv, Offline, run.batch, ~ run.dry_run, phase \in {"item", "load"},
         Len(results) < Len(run.items), result = Alone(Item, Here),
         spent' <=> Here \/ ReadsStdin(Item),
         UNCHANGED <<run, files>>, results' = Append(results, result), phase' = "item"
  PROVE  BatchInv'
<1>1. /\ Listed(results') /\ Len(results) \in Nat /\ Len(results') = Len(results) + 1
      /\ DOMAIN results = 1..Len(results) /\ DOMAIN results' = 1..(Len(results) + 1)
      /\ results'[Len(results) + 1] = result
      /\ \A i \in 1..Len(results) : results'[i] = results[i]
  BY AppendListed DEF BatchInv
<1>2. run \in Runs /\ Len(run.items) \in Nat
  BY ItemsListed DEF BatchInv
<1>3. /\ \A i : Alone(run.items[i], Drained(i))' = Alone(run.items[i], Drained(i))
      /\ \A i : Drained(i)' = Drained(i)
  BY FilesStay
<1>4. Len(results') <= Len(run.items)
  BY <1>1, <1>2
<1>5. \A i \in DOMAIN results' : results'[i] = Alone(run.items[i], Drained(i))
  BY <1>1 DEF BatchInv, Item, Here
<1>6. spent' <=> Here'
  <2>1. Len(results) + 1 \in Nat \ {0}
    BY <1>1
  <2>2. Drained(Len(results) + 2) <=> Drained(Len(results) + 1) \/ ReadsStdin(run.items[Len(results) + 1])
    <3>1. (Len(results) + 1) + 1 = Len(results) + 2
      BY <1>1
    <3> QED  BY <1>2, <2>1, <3>1, DrainedNext
  <2>3. Here' = Drained(Len(results) + 2)
    <3>1. Len(results') + 1 = Len(results) + 2
      BY <1>1
    <3> QED  BY <1>3, <3>1 DEF Here
  <2> QED  BY <2>2, <2>3 DEF Here, Item
<1>7. \A i \in DOMAIN results' : results'[i] = Alone(run.items[i], Drained(i))'
  BY <1>3, <1>5
<1> QED
  BY <1>1, <1>2, <1>4, <1>6, <1>7 DEF BatchInv, Offline

LEMMA FailsAlone ==
  ASSUME NEW code, BatchInv, Offline, run.batch, ~ run.dry_run, phase \in {"item", "load"},
         Len(results) < Len(run.items), Alone(Item, Here) = [ok |-> FALSE],
         spent' <=> Here \/ ReadsStdin(Item),
         UNCHANGED <<run, files>>, ItemFails(code)
  PROVE  BatchInv'
  BY Answered DEF ItemFails

LEMMA LoadKeeps ==
  ASSUME BatchInv, Offline, run.batch, ~ run.dry_run, Load PROVE BatchInv'
<1> DEFINE side == Needed[Cardinality(DOMAIN loaded) + 1]
           doc  == Opened(Item, side, Here)
           read == DOMAIN loaded \cup {side}
<1>1. /\ phase = "load" /\ UNCHANGED <<run, files>> /\ Cardinality(DOMAIN loaded) < Len(Needed) /\ Loading
      /\ run \in Runs /\ Listed(results) /\ Len(results) <= Len(run.items) /\ Len(results) < Len(run.items)
      /\ DOMAIN loaded \in FirstSides /\ Item \in Readable
  BY DEF BatchInv, Load, Loading
<1>2. /\ side \in NeededSides \ DOMAIN loaded /\ read \in FirstSides
      /\ NeededSides \subseteq Sides /\ read \subseteq Sides /\ DOMAIN loaded \subseteq Sides
  <2>1. side \in NeededSides \ DOMAIN loaded /\ read \in FirstSides /\ read \subseteq NeededSides
    BY <1>1, SidesNeeded
  <2>2. NeededSides \subseteq Sides
    BY DEF NeededSides, Needed, Sides, Range
  <2> QED  BY <2>1, <2>2
<1>3. Here \in BOOLEAN
  <2>1. Len(results) + 1 \in Nat \ {0}
    <3>1. Len(results) \in Nat
      BY <1>1 DEF Listed
    <3> QED  BY <3>1
  <2> QED  BY <1>1, <2>1, DrainedNext DEF Here
<1>4. Opened(Item, side, spent) = doc
  <2>1. CASE Operands[Item][side] = "-"
    <3>1. ~ Dashed(Item, DOMAIN loaded)
      BY <1>1, <1>2, <2>1, OneDash DEF Dashed
    <3>2. (IF spent THEN NoText ELSE files["head"]) = (IF Here THEN NoText ELSE files["head"])
      BY <1>1, <3>1 DEF Loading
    <3> QED  BY <2>1, <3>2 DEF Opened
  <2>2. CASE Operands[Item][side] # "-"
    <3>1. Operands[Item][side] \in {"file", "missing"}
      BY <1>1, <1>2, <2>2, OneDash
    <3> QED  BY <3>1 DEF Opened
  <2> QED  BY <2>1, <2>2
<1>5. /\ \/ ~ doc.ok /\ \E code : ItemFails(code)
         \/ doc.ok /\ loaded' = Overwrite(loaded, side, doc) /\ UNCHANGED <<results, phase>>
      /\ spent' = (spent \/ Operands[Item][side] = "-")
  BY <1>4 DEF Load
<1>6. spent' <=> Here \/ Dashed(Item, read)
  BY <1>1, <1>5 DEF Loading, Dashed
<1> HIDE DEF side
<1>7. CASE ~ doc.ok /\ \E code : ItemFails(code)
  <2>1. Alone(Item, Here) = [ok |-> FALSE]
    BY <1>2, <1>7 DEF Alone, NeededSides
  <2>2. Dashed(Item, read) <=> ReadsStdin(Item)
    <3>1. read \ {side} = DOMAIN loaded
      BY <1>2
    <3>2. \A s \in read \ {side} : Opened(Item, s, Here).ok
      BY <1>1, <3>1 DEF Loading
    <3>3. side \in read /\ read \in FirstSides /\ read \ {side} \in FirstSides
      BY <1>1, <1>2, <3>1
    <3>4. ~ Opened(Item, side, Here).ok
      BY <1>7
    <3>5. Item \in Readable
      BY <1>1
    <3> HIDE DEF read
    <3> QED  BY ONLY Offline, <1>3, <3>2, <3>3, <3>4, <3>5, DashRead
  <2> QED  BY <1>1, <1>6, <1>7, <2>1, <2>2, FailsAlone
<1>8. CASE doc.ok /\ loaded' = Overwrite(loaded, side, doc) /\ UNCHANGED <<results, phase>>
  <2>1. Item' = Item /\ FirstSides' = FirstSides /\ Here' = Here
    <3>1. Item' = Item /\ FirstSides' = FirstSides
      BY <1>1, <1>8 DEF Item, FirstSides, Needed
    <3> QED  BY <1>1, <1>8, <3>1, FilesStay DEF Here
  <2>2. loaded' = [s \in read |-> IF s = side THEN doc ELSE loaded[s]]
    BY <1>8 DEF Overwrite
  <2>3. \A s \in DOMAIN loaded : loaded[s] = Opened(Item, s, Here) /\ Opened(Item, s, Here).ok
    BY <1>1 DEF Loading
  <2>4. DOMAIN loaded' = read /\ loaded' = [s \in read |-> Opened(Item, s, Here)]
    BY <2>2, <2>3
  <2>5. \A s \in DOMAIN loaded' : Opened(Item, s, Here).ok
    BY <1>8, <2>3, <2>4
  <2>6. \A item, s, gone : Opened(item, s, gone)' = Opened(item, s, gone)
    BY <1>1, FilesStay
  <2>7. loaded' = [s \in DOMAIN loaded' |-> Opened(Item, s, Here)']
    BY <2>1, <2>4, <2>6
  <2>8. \A s \in DOMAIN loaded' : Opened(Item, s, Here)'.ok
    BY <2>1, <2>5, <2>6
  <2>9. spent' <=> Here' \/ Dashed(Item, DOMAIN loaded)'
    BY <1>6, <2>1, <2>4 DEF Dashed
  <2>10. Loading'
    BY <1>1, <1>2, <1>8, <2>1, <2>4, <2>7, <2>8, <2>9 DEF Loading
  <2>11. \A i \in DOMAIN results' : results'[i] = Alone(run.items[i], Drained(i))'
    <3>1. results' = results /\ \A i \in DOMAIN results : results[i] = Alone(run.items[i], Drained(i))
      BY <1>1, <1>8 DEF BatchInv
    <3>2. \A i : Alone(run.items[i], Drained(i))' = Alone(run.items[i], Drained(i))
      BY <1>1, FilesStay
    <3> QED  BY <3>1, <3>2
  <2> QED  BY <1>1, <1>8, <2>10, <2>11 DEF BatchInv, Offline
<1> QED
  BY <1>5, <1>7, <1>8

LEMMA ComputeKeeps ==
  ASSUME BatchInv, Offline, run.batch, ~ run.dry_run, Compute PROVE BatchInv'
<1>1. /\ phase = "load" /\ phase' = "item" /\ UNCHANGED <<run, files>> /\ Loading
      /\ Cardinality(DOMAIN loaded) = Len(Needed)
      /\ results' = Append(results, [ok |-> TRUE] @@ Answer(run, loaded))
  BY DEF BatchInv, Compute
<1>2. DOMAIN loaded = NeededSides /\ DOMAIN loaded # {}
  <2>1. DOMAIN loaded \in FirstSides
    BY <1>1 DEF Loading
  <2>2. Len(Needed) # 0
    BY SidesNeeded
  <2> QED  BY <1>1, <2>1, <2>2, SidesNeeded
<1>3. Item \in Readable /\ Len(results) < Len(run.items) /\ run \in Runs
  BY <1>1 DEF Loading, BatchInv
<1>4. /\ loaded = [side \in Range(Needed) |-> Opened(Item, side, Here)]
      /\ \A side \in Range(Needed) : Opened(Item, side, Here).ok
  BY <1>1, <1>2 DEF Loading, NeededSides
<1>5. Alone(Item, Here) = [ok |-> TRUE] @@ Answer(run, loaded)
  BY <1>3, <1>4 DEF Alone
<1>6. spent' = spent /\ (spent <=> Here \/ Dashed(Item, NeededSides))
  BY <1>1, <1>2 DEF Loading, Compute
<1>7. Dashed(Item, NeededSides) <=> ReadsStdin(Item)
  <2>1. Here \in BOOLEAN
    <3>1. Len(results) \in Nat
      BY DEF BatchInv, Compute, Listed
    <3>2. Len(results) + 1 \in Nat \ {0}
      BY <3>1
    <3> QED  BY <1>3, <3>2, DrainedNext DEF Here
  <2>2. \E next \in NeededSides : NeededSides \ {next} \in FirstSides
    <3>1. PICK k \in {1, 2} : k = Len(Needed)
      BY SidesNeeded
    <3>2. NeededSides = {Needed[m] : m \in 1..k} /\ NeededSides \ {Needed[k]} = {Needed[m] : m \in 1..(k - 1)}
      BY <3>1 DEF NeededSides, Needed, Range
    <3>3. Needed[k] \in NeededSides /\ k - 1 \in 0..Len(Needed)
      BY <3>1, <3>2
    <3> QED  BY <3>2, <3>3 DEF FirstSides
  <2>3. PICK next \in NeededSides : NeededSides \ {next} \in FirstSides
    BY <2>2
  <2>4. NeededSides \in FirstSides
    BY <1>1, <1>2 DEF Loading
  <2>5. \A s \in NeededSides \ {next} : Opened(Item, s, Here).ok
    BY <1>4 DEF NeededSides
  <2>6. Item \in Readable
    BY <1>3
  <2> QED  BY ONLY Offline, <2>1, <2>3, <2>4, <2>5, <2>6, DashRead
<1>8. spent' <=> Here \/ ReadsStdin(Item)
  BY <1>6, <1>7
<1> QED
  BY <1>1, <1>3, <1>5, <1>8, Answered

LEMMA BatchStarts == CommandsInit => BatchInv
<1> SUFFICES ASSUME CommandsInit, Offline PROVE BatchInv
  BY DEF BatchInv
<1>1. run \in Runs /\ results = << >> /\ phase = "capture"
  BY DEF CommandsInit, InvocationInit
<1>2. Listed(results) /\ Len(results) = 0
  BY <1>1, EmptyListed
<1>3. Len(run.items) \in Nat
  BY <1>1, ItemsListed
<1> QED
  BY <1>1, <1>2, <1>3 DEF BatchInv

LEMMA BatchKeeps ==
  ASSUME BatchInv, [CommandsNext]_<<invocation, loaded, spent, project>> PROVE BatchInv'
<1>1. SUFFICES ASSUME Offline' PROVE BatchInv'
  BY DEF BatchInv
<1>2. run' = run
  BY DEF CommandsNext, BatchNext, Capture, BatchRequests, Begin, Load, Compute, Refuse, Finish,
         CaptureNext, CaptureRequests, Operation, Complete, ClockTicks, SniffPage,
         InitNext, InitRequests, ReadAgents, Matches, Stage, RenameStaging, ApplyFails, Killed, EditAgents, invocation
<1>3. /\ Offline /\ run \in Runs /\ phase \in {"capture", "item", "load", "done"}
      /\ phase = "capture" => results = << >>
  BY <1>1, <1>2 DEF BatchInv, Offline
<1>4. Len(run.items) \in Nat
  BY <1>3, ItemsListed
<1>5. CASE UNCHANGED <<run, files, results, phase, loaded, spent>>
  <2>1. /\ \A i : Alone(run.items[i], Drained(i))' = Alone(run.items[i], Drained(i))
        /\ \A i : Drained(i)' = Drained(i)
        /\ \A item, side, gone : Opened(item, side, gone)' = Opened(item, side, gone)
    BY <1>5, FilesStay
  <2>2. Item' = Item /\ FirstSides' = FirstSides /\ Here' = Here
    BY <1>5, <2>1 DEF FirstSides, Needed, Item, Here
  <2>3. \A side : Opened(Item, side, Here)' = Opened(Item, side, Here)
    BY <2>1, <2>2
  <2>4. Dashed(Item, DOMAIN loaded)' = Dashed(Item, DOMAIN loaded)
    BY <1>5, <2>2 DEF Dashed
  <2>5. Loading => Loading'
    BY <1>5, <2>2, <2>3, <2>4 DEF Loading
  <2> QED  BY <1>5, <2>1, <2>2, <2>5 DEF BatchInv, Offline
<1>6. CASE InitNext \/ CaptureNext
  BY <1>2, <1>3, <1>6 DEF InitNext, CaptureNext, CaptureRequests, Operation, Complete, ClockTicks, SniffPage, Offline
<1>7. CASE BatchNext
  <2>1. CASE \E side \in Sides : Capture(side)
    <3>1. phase = "capture" /\ phase' = "capture" /\ results' = results
      BY <2>1 DEF Capture
    <3> QED  BY <1>2, <1>3, <3>1 DEF BatchInv, Offline
  <2>2. CASE BatchRequests
    <3>2. phase' \in {"item", "done"}
      BY <2>2 DEF BatchRequests, Asked, Fail
    <3>3. ASSUME run.batch, ~ run.dry_run
          PROVE  /\ results' = << >>
                 /\ phase' = "done" => Len(run.items) \notin 1..BatchMax
      BY <1>3, <2>2, <3>3 DEF BatchRequests, Asked, Fail
    <3>4. Listed(<< >>) /\ Len(<< >>) = 0 /\ DOMAIN << >> = {}
      BY EmptyListed
    <3>5. ASSUME run.batch, ~ run.dry_run PROVE spent' <=> Here'
      <4>1. spent' = run.piped /\ Len(results') + 1 = 1
        BY <2>2, <3>3, <3>4, <3>5 DEF BatchRequests
      <4>2. 1..(1 - 1) = {}
        OBVIOUS
      <4> QED  BY <1>2, <4>1, <4>2 DEF Here, Drained
    <3> QED  BY <1>2, <1>3, <1>4, <3>2, <3>3, <3>4, <3>5 DEF BatchInv, Offline
  <2>3. CASE Begin
    <3>1. /\ phase = "item" /\ phase' = "load" /\ UNCHANGED <<run, files, results, spent>> /\ loaded' = NoFiles
          /\ Len(results) < Len(run.items) /\ Item \in Readable
      BY <2>3 DEF Begin
    <3>2. /\ \A i : Alone(run.items[i], Drained(i))' = Alone(run.items[i], Drained(i))
          /\ \A i : Drained(i)' = Drained(i)
      BY <3>1, FilesStay
    <3>3. Item' = Item /\ FirstSides' = FirstSides /\ Here' = Here
      BY <3>1, <3>2 DEF Needed, Item, FirstSides, Here
    <3>4. DOMAIN loaded' = {} /\ loaded' = [side \in DOMAIN loaded' |-> Opened(Item, side, Here)']
      BY <3>1 DEF NoFiles
    <3>5. {} \in FirstSides
      <4>1. 0 \in 0..Len(Needed) /\ {Needed[k] : k \in 1..0} = {}
        BY <1>3, SidesNeeded
      <4> QED  BY <4>1 DEF FirstSides
    <3>6. ASSUME run.batch, ~ run.dry_run PROVE Loading'
      <4>1. spent <=> Here
        BY <1>3, <3>1, <3>6 DEF BatchInv
      <4>2. ~ Dashed(Item, DOMAIN loaded)'
        BY <3>4 DEF Dashed
      <4> QED  BY <3>1, <3>3, <3>4, <3>5, <4>1, <4>2 DEF Loading
    <3> QED  BY <1>3, <3>1, <3>2, <3>6 DEF BatchInv, Offline
  <2>4. CASE (Load \/ Compute) /\ run.batch /\ ~ run.dry_run
    BY <1>3, <2>4, LoadKeeps, ComputeKeeps
  <2>5. CASE (Load \/ Compute) /\ ~ (run.batch /\ ~ run.dry_run)
    <3>1. phase = "load" /\ phase' \in {"item", "load", "done"}
      BY <2>5 DEF Load, Compute, ItemFails, Fail
    <3> QED  BY <1>2, <1>3, <2>5, <3>1 DEF BatchInv, Offline
  <2>6. CASE Refuse /\ UNCHANGED <<loaded, spent>>
    <3>1. /\ phase = "item" /\ Len(results) < Len(run.items) /\ Item \notin Readable
          /\ UNCHANGED <<run, files>> /\ ItemFails(Invalid)
      BY <2>6 DEF Refuse, Readable, Operands
    <3>2. CASE run.batch /\ ~ run.dry_run
      <4>1. Alone(Item, Here) = [ok |-> FALSE] /\ ~ ReadsStdin(Item)
        BY <3>1 DEF Alone, ReadsStdin
      <4>2. spent' <=> Here \/ ReadsStdin(Item)
        BY <1>3, <2>6, <3>1, <3>2, <4>1 DEF BatchInv
      <4> QED  BY <1>3, <3>1, <3>2, <4>1, <4>2, FailsAlone
    <3>3. CASE ~ (run.batch /\ ~ run.dry_run)
      <4>1. phase' \in {"item", "done"}
        BY <3>1 DEF ItemFails, Fail
      <4> QED  BY <1>2, <1>3, <3>3, <4>1 DEF BatchInv, Offline
    <3> QED  BY <3>2, <3>3
  <2>7. CASE Finish /\ UNCHANGED <<loaded, spent>>
    <3>1. /\ phase = "item" /\ phase' = "done" /\ UNCHANGED <<run, files, results>>
          /\ Len(results) = Len(run.items)
      BY <2>7 DEF Finish
    <3>2. \A i : Alone(run.items[i], Drained(i))' = Alone(run.items[i], Drained(i))
      BY <3>1, FilesStay
    <3> QED  BY <1>3, <3>1, <3>2 DEF BatchInv, Offline
  <2> QED  BY <1>7, <2>1, <2>2, <2>3, <2>4, <2>5, <2>6, <2>7 DEF BatchNext
<1> QED
  BY <1>5, <1>6, <1>7 DEF CommandsNext, invocation

\* The items of a batch are answered each by itself, whatever fails, but for stdin, which only
\* the first that comes to it has (diff.rs, check.rs): for every reader of captures and every
\* answer to them.
THEOREM BatchesIsolated == CommandsSpec => []BatchIsolated
<1>1. CommandsInit => BatchInv
  BY BatchStarts
<1>2. BatchInv /\ [CommandsNext]_<<invocation, loaded, spent, project>> => BatchInv'
  BY BatchKeeps
<1>3. BatchInv => BatchIsolated
  <2>1. SUFFICES ASSUME BatchInv, Offline, phase = "done", run.batch, ~ run.dry_run, Len(run.items) \in 1..BatchMax
                 PROVE  results = [i \in DOMAIN run.items |-> Alone(run.items[i], Drained(i))]
    BY DEF BatchIsolated
  <2>2. /\ Listed(results) /\ Len(results) = Len(run.items) /\ DOMAIN run.items = 1..Len(run.items)
        /\ \A i \in DOMAIN results : results[i] = Alone(run.items[i], Drained(i))
    BY <2>1, ItemsListed DEF BatchInv
  <2>3. DOMAIN results = 1..Len(results) /\ results = [i \in DOMAIN results |-> results[i]]
    <3>1. PICK S : results \in Seq(S)
      BY <2>2 DEF Listed
    <3> QED  BY <3>1
  <2> QED  BY <2>2, <2>3
<1> QED
  BY <1>1, <1>2, <1>3, PTL DEF CommandsSpec

-----------------------------------------------------------------------------
(* What captures say of their pages. *)

\* A side that there is a capture of is a page, and all that it has been is made of elements.
LEMMA PagesCaptured ==
  ASSUME BatchInv, NEW side \in Captured
  PROVE  /\ PageOf(side).html \in Elements
         /\ \A i \in DOMAIN PageOf(side).steps :
              LET step == PageOf(side).steps[i]
              IN  /\ step.before \in Elements /\ step.after \in Elements /\ step.limit \in Nat
                  /\ {"before", "after", "target", "view", "limit"} \subseteq DOMAIN step
<1> DEFINE p == run.page[side]
<1>1. Offline /\ side \in Range(Needed)
  BY DEF Captured
<1>2. side \in Sides
  BY <1>1 DEF Needed, Sides, Range
<1>3. p \in DOMAIN Pages
  BY <1>1, <1>2, PagesGiven DEF BatchInv, Offline
<1> HIDE DEF p
<1>4. DocumentsOf(Pages[p]) \subseteq Elements
  BY <1>3, PagesGiven
<1>5. Pages[p].html \in Elements
  BY <1>4 DEF DocumentsOf
<1>6. ASSUME NEW i \in DOMAIN Pages[p].steps
      PROVE  /\ Pages[p].steps[i].before \in Elements /\ Pages[p].steps[i].after \in Elements
             /\ Pages[p].steps[i].limit \in Nat
             /\ {"before", "after", "target", "view", "limit"} \subseteq DOMAIN Pages[p].steps[i]
  <2>1. {Pages[p].steps[i].before, Pages[p].steps[i].after} \subseteq DocumentsOf(Pages[p])
    BY DEF DocumentsOf
  <2>2. /\ {"before", "after", "target", "view", "limit"} \subseteq DOMAIN Pages[p].steps[i]
        /\ Pages[p].steps[i].limit \in Nat
    BY <1>3, PagesGiven
  <2> QED  BY <1>4, <2>1, <2>2
<1>7. PageOf(side) = Pages[p]
  BY DEF PageOf, p
<1> QED  BY <1>5, <1>6, <1>7

\* The selectors of the extraction (extractor.rs selectorOf) tell the elements of a page
\* apart when its anchors are unique: for every page, and every climb that reaches an anchor
\* or the document element.
THEOREM SelectorsApart == CommandsSpec => []SelectorsUnique
<1>1. CommandsInit => BatchInv
  BY BatchStarts
<1>2. BatchInv /\ [CommandsNext]_<<invocation, loaded, spent, project>> => BatchInv'
  BY BatchKeeps
<1>3. BatchInv => SelectorsUnique
  <2>1. SUFFICES ASSUME BatchInv, NEW side \in Captured, Told(Range(DOM!Chains(PageOf(side).html))),
                        NEW i \in DOMAIN DOM!Chains(PageOf(side).html), NEW j \in DOMAIN DOM!Chains(PageOf(side).html),
                        DOM!SelectorOf(DOM!Chains(PageOf(side).html)[i]) = DOM!SelectorOf(DOM!Chains(PageOf(side).html)[j])
                 PROVE  i = j
    BY DEF SelectorsUnique
  <2> DEFINE html == PageOf(side).html
  <2>2. html \in Elements
    BY <2>1, PagesCaptured
  <2>3. /\ Told(Range(DOM!Chains(html))) /\ i \in DOMAIN DOM!Chains(html) /\ j \in DOMAIN DOM!Chains(html)
        /\ DOM!SelectorOf(DOM!Chains(html)[i]) = DOM!SelectorOf(DOM!Chains(html)[j])
    BY <2>1
  <2> HIDE DEF html
  <2> QED  BY <2>2, <2>3, SelectorsTell
<1> QED
  BY <1>1, <1>2, <1>3, PTL DEF CommandsSpec

\* For any page, the tree walk (contrast.rs resolve_background), which starts where the capture
\* does and knows of nothing behind it, resolves the background of an element that the page's
\* script (extractor.rs effectiveBackground) does, which looks up to the canvas, or none; and in
\* the body of a document that is all captured, the same.
THEOREM BackgroundsSame == CommandsSpec => []BackgroundsAgree
<1>1. CommandsInit => BatchInv
  BY BatchStarts
<1>2. BatchInv /\ [CommandsNext]_<<invocation, loaded, spent, project>> => BatchInv'
  BY BatchKeeps
<1>3. BatchInv => BackgroundsAgree
  <2>1. SUFFICES ASSUME BatchInv, NEW side \in Captured, NEW chain \in Range(DOM!Chains(PageOf(side).html)),
                        NEW root \in DOMAIN chain
                 PROVE  LET script == DOM!EffectiveBackground(DOM!StylesOf(chain), DOM!CanvasOf(DOM!Last(chain).el))
                            walk == Resolved(DOM!StylesOf(chain), root)
                        IN  \/ walk = script
                            \/ walk = DOM!Unknown /\ ~ (root = Len(chain) /\ InBody(chain))
    BY Zenon DEF BackgroundsAgree
  <2> DEFINE html == PageOf(side).html
  <2>2. html \in Elements
    BY <2>1, PagesCaptured
  <2>3. DOM!Chains(html) \in Seq(Lines)
    BY <2>2, ChainsGrown DEF Grown
  <2>4. chain \in Seq(Links)
    BY <2>1, <2>3 DEF Range, Lines
  <2>5. Len(chain) \in Nat /\ DOMAIN chain = 1..Len(chain)
    BY <2>4
  <2> QED  BY <2>1, <2>5, SameBackground
<1> QED
  BY <1>1, <1>2, <1>3, PTL DEF CommandsSpec

\* What a report of an interaction calls its effect (effects.rs classify_effect) is the truth
\* about what is looked at of the page: of any two snapshots, whatever the limit of its lists.
THEOREM EffectsTrue == CommandsSpec => []EffectsTruthful
<1>1. CommandsInit => BatchInv
  BY BatchStarts
<1>2. BatchInv /\ [CommandsNext]_<<invocation, loaded, spent, project>> => BatchInv'
  BY BatchKeeps
<1>3. BatchInv => LimitKeepsEffect
  <2>1. SUFFICES ASSUME BatchInv, NEW side \in Captured, NEW i \in DOMAIN PageOf(side).steps
                 PROVE  DOM!Effect(PageOf(side).steps[i]) = DOM!Effect([PageOf(side).steps[i] EXCEPT !.limit = 0])
    BY DEF LimitKeepsEffect
  <2> DEFINE step == PageOf(side).steps[i]
  <2>2. /\ step.before \in Elements /\ step.after \in Elements /\ step.limit \in Nat
        /\ {"before", "after", "target", "view", "limit"} \subseteq DOMAIN step
    BY <2>1, PagesCaptured
  <2> HIDE DEF step
  <2>3. DOM!Effect(step) = DOM!Effect([step EXCEPT !.limit = 0])
    BY <2>2, LimitKeeps
  <2> QED  BY <2>3 DEF step
<1>4. BatchInv => NoEffectTruthful
  <2>1. SUFFICES ASSUME BatchInv, NEW side \in Captured, NEW i \in DOMAIN PageOf(side).steps,
                        DOM!Effect(PageOf(side).steps[i]) = "no_effect",
                        Distinct(PageOf(side).steps[i].before), Distinct(PageOf(side).steps[i].after)
                 PROVE  LET before == DOM!Seen(PageOf(side).steps[i].before)
                            after == DOM!Seen(PageOf(side).steps[i].after)
                        IN  /\ Len(before) = Len(after)
                            /\ \A j \in DOMAIN before : \E k \in DOMAIN after : Same(before[j], after[k])
    BY Zenon DEF NoEffectTruthful
  <2> DEFINE step == PageOf(side).steps[i]
  <2>2. step.before \in Elements /\ step.after \in Elements /\ step.limit \in Nat
    BY <2>1, PagesCaptured
  <2>3. DOM!Effect(step) = "no_effect" /\ Distinct(step.before) /\ Distinct(step.after)
    BY <2>1
  <2> HIDE DEF step
  <2>4. /\ Len(DOM!Seen(step.before)) = Len(DOM!Seen(step.after))
        /\ \A j \in DOMAIN DOM!Seen(step.before) : \E k \in DOMAIN DOM!Seen(step.after) :
             Same(DOM!Seen(step.before)[j], DOM!Seen(step.after)[k])
    BY <2>2, <2>3, NothingTrue
  <2> QED  BY <2>4 DEF step
<1>5. BatchInv => EffectsTruthful
  BY <1>3, <1>4 DEF EffectsTruthful
<1> QED
  BY <1>1, <1>2, <1>5, PTL DEF CommandsSpec
=============================================================================
