------------------------- MODULE PagePipelineProofs -------------------------
(***************************************************************************)
(* Proofs about PagePipeline, for any interactions and waits, on any page; *)
(* and about the wait for its network (NetworkIdle), for any requests,     *)
(* times and capacity.                                                     *)
(*                                                                         *)
(* The invariants of the pipeline say what holds at each of its steps of   *)
(* the page that goes on changing under it: how far the target is aimed    *)
(* at, what is still due, what the first capture saw, and what was waited  *)
(* for.  That of the wait (IdleInv) compares the counter with the events   *)
(* that are still to be read.                                              *)
(***************************************************************************)
EXTENDS PagePipeline, NetworkIdle, FiniteSetTheorems, WellFoundedInduction, TLAPS

(* Sequences. *)

LEMMA ElementsOfSeq ==
  ASSUME NEW S, NEW s \in Seq(S)
  PROVE  Len(s) \in Nat /\ DOMAIN s = 1..Len(s) /\ \A k \in 1..Len(s) : s[k] \in S
OBVIOUS

LEMMA SeqOfElements ==
  ASSUME NEW S, NEW n \in Nat, NEW f, f = [k \in 1..n |-> f[k]], \A k \in 1..n : f[k] \in S
  PROVE  f \in Seq(S) /\ Len(f) = n
OBVIOUS

(* The interactions. *)

LEMMA TurnsDiffer ==
  /\ \A k \in Kinds : Turn[k] \in 1..4
  /\ \A k, l \in Kinds : Turn[k] = Turn[l] => k = l
<1>1. Turn["click"] = 1 /\ Turn["hover"] = 2 /\ Turn["type"] = 3 /\ Turn["upload"] = 4
  BY DEF Turn
<1> QED  BY <1>1 DEF Kinds

\* Of two interactions, the one that comes first comes at a lower position.
LEMMA PositionsDiffer ==
  ASSUME NEW i \in DOMAIN Given, NEW j \in DOMAIN Given, i # j,
         NotAfter(i, j)
  PROVE  Position(i) < Position(j)
<1> DEFINE Upto(k) == {h \in DOMAIN Given : NotAfter(h, k)}
<1>1. Given \in Seq([kind : Kinds, target : Elements]) /\ DOMAIN Given = 1..Len(Given) /\ Len(Given) \in Nat
  BY GivenActions
<1>2. \A h \in DOMAIN Given : Given[h].kind \in Kinds /\ Turn[Given[h].kind] \in 1..4
  <2> TAKE h \in DOMAIN Given
  <2>1. Given[h] \in [kind : Kinds, target : Elements]
    BY GivenActions, ElementsOfSeq
  <2> QED  BY <2>1, TurnsDiffer
<1>3. \A h \in DOMAIN Given : NotAfter(h, i) => NotAfter(h, j)
  BY <1>1, <1>2 DEF NotAfter
<1>4. j \in Upto(j) /\ j \notin Upto(i)
  <2>1. Given[i].kind # Given[j].kind => Turn[Given[i].kind] # Turn[Given[j].kind]
    BY <1>2, TurnsDiffer
  <2> QED  BY <1>1, <1>2, <2>1 DEF NotAfter
<1>5. IsFiniteSet(Upto(j)) /\ Upto(i) \in SUBSET Upto(j) /\ Upto(i) # Upto(j)
  <2>1. IsFiniteSet(DOMAIN Given)
    BY <1>1, FS_Interval
  <2> QED  BY <2>1, <1>3, <1>4, FS_Subset
<1>6. Cardinality(Upto(i)) < Cardinality(Upto(j))
  BY <1>5, FS_Subset, FS_CardinalityType
<1> QED  BY <1>6 DEF Position

LEMMA GivenType ==
  /\ Given \in Seq([kind : Kinds, target : Elements]) /\ Len(Given) \in Nat /\ DOMAIN Given = 1..Len(Given)
  /\ \A j \in DOMAIN Given : Given[j] \in [kind : Kinds, target : Elements] /\ Turn[Given[j].kind] \in 1..4
<1>1. \A j \in DOMAIN Given : Given[j] \in [kind : Kinds, target : Elements]
  BY GivenActions, ElementsOfSeq
<1> QED  BY <1>1, GivenActions, TurnsDiffer

\* Each interaction has a position of its own, and each position is taken.
LEMMA PositionsTaken ==
  /\ \A j \in DOMAIN Given : Position(j) \in DOMAIN Given
  /\ \A k \in DOMAIN Given : \E j \in DOMAIN Given : Position(j) = k
<1> DEFINE D == DOMAIN Given
           place1 == [j \in D |-> Position(j)]
<1>1. Given \in Seq([kind : Kinds, target : Elements]) /\ D = 1..Len(Given) /\ Len(Given) \in Nat
  BY GivenType
<1>2. IsFiniteSet(D) /\ Cardinality(D) = Len(Given)
  BY <1>1, FS_Interval
<1>3. \A j \in D : Position(j) \in D
  <2> TAKE j \in D
  <2> DEFINE Upto == {h \in D : NotAfter(h, j)}
  <2>1. IsFiniteSet(Upto) /\ Cardinality(Upto) <= Len(Given) /\ Cardinality(Upto) \in Nat
    BY <1>2, FS_Subset, FS_CardinalityType
  <2>2. j \in Upto
    BY <1>1 DEF NotAfter
  <2>3. Cardinality(Upto) # 0
    BY <2>1, <2>2, FS_EmptySet
  <2> QED  BY <2>1, <2>3, <1>1 DEF Position
<1>4. \A i, j \in D : NotAfter(i, j) \/ NotAfter(j, i)
  <2> SUFFICES ASSUME NEW i \in D, NEW j \in D PROVE NotAfter(i, j) \/ NotAfter(j, i)
    OBVIOUS
  <2>1. Turn[Given[i].kind] \in Int /\ Turn[Given[j].kind] \in Int
        /\ (Turn[Given[i].kind] = Turn[Given[j].kind] => Given[i].kind = Given[j].kind)
    BY GivenType, TurnsDiffer
  <2> QED  BY <2>1, <1>1 DEF NotAfter
<1>5. place1 \in Injection(D, D)
  <2>1. \A i, j \in D : place1[i] = place1[j] => i = j
    <3> SUFFICES ASSUME NEW i \in D, NEW j \in D, i # j PROVE Position(i) # Position(j)
      OBVIOUS
    <3>1. Position(i) < Position(j) \/ Position(j) < Position(i)
      BY <1>4, PositionsDiffer
    <3> QED  BY <3>1, <1>3, <1>1
  <2> QED  BY <2>1, <1>3 DEF Injection, IsInjective
<1>6. place1 \in Surjection(D, D)
  BY <1>5, <1>2, FS_Injection
<1> QED  BY <1>3, <1>6 DEF Surjection

\* Putting the shortcuts together kind by kind loses none of them.
LEMMA ActionsType ==
  Actions \in Seq([kind : Kinds, target : Elements]) /\ Len(Actions) = Len(Given)
<1> DEFINE D == DOMAIN Given
<1>1. Given \in Seq([kind : Kinds, target : Elements]) /\ D = 1..Len(Given) /\ Len(Given) \in Nat
  BY GivenType
<1>2. \A k \in D : Given[CHOOSE j \in D : Position(j) = k] \in [kind : Kinds, target : Elements]
  <2> TAKE k \in D
  <2>1. (CHOOSE j \in D : Position(j) = k) \in D
    BY PositionsTaken
  <2> QED  BY <2>1, GivenType
<1>3. CASE Shortcuts
  <2> DEFINE given(k) == Given[CHOOSE j \in D : Position(j) = k]
  <2>1. /\ Actions = [k \in 1..Len(Given) |-> given(k)]
        /\ \A k \in 1..Len(Given) : given(k) \in [kind : Kinds, target : Elements]
    BY <1>1, <1>2, <1>3 DEF Actions
  <2> HIDE DEF given
  <2>2. /\ Actions = [k \in 1..Len(Given) |-> Actions[k]]
        /\ \A k \in 1..Len(Given) : Actions[k] \in [kind : Kinds, target : Elements]
    BY <2>1
  <2> QED  BY <2>2, <1>1, SeqOfElements
<1>4. CASE ~ Shortcuts
  BY <1>1, <1>4 DEF Actions
<1> QED  BY <1>3, <1>4

\* The shortcuts come kind by kind.
LEMMA KindByKind ==
  ASSUME Shortcuts, NEW k \in 1..Len(Actions), NEW l \in 1..Len(Actions), k < l
  PROVE  Turn[Actions[k].kind] <= Turn[Actions[l].kind]
<1> DEFINE D == DOMAIN Given
           At(n) == CHOOSE j \in D : Position(j) = n
<1>1. D = 1..Len(Given) /\ Len(Actions) = Len(Given) /\ Len(Given) \in Nat
  BY GivenType, ActionsType
<1>2. Actions[k] = Given[At(k)] /\ Actions[l] = Given[At(l)]
  BY <1>1 DEF Actions
<1>3. At(k) \in D /\ Position(At(k)) = k /\ At(l) \in D /\ Position(At(l)) = l
  BY <1>1, PositionsTaken
<1> HIDE DEF At
<1>4. SUFFICES ASSUME Turn[Given[At(l)].kind] < Turn[Given[At(k)].kind] PROVE FALSE
  BY <1>2, <1>3, GivenType
<1>5. NotAfter(At(l), At(k)) /\ At(l) # At(k)
  BY <1>3, <1>4, GivenType DEF NotAfter
<1> QED  BY <1>3, <1>5, <1>1, PositionsDiffer

-----------------------------------------------------------------------------
(* Types, and where the pipeline is among its actions. *)

Starting  == {"loaded", "stable"}
Acting    == {"finding", "scrolling", "reading", "before", "focusing", "performing", "settling", "after"}
WaitSteps == {"waiting", "explaining", "extracting"}

Indexed == /\ step \in Starting => index = 1 /\ hits = << >>
           /\ step \in Acting => index \in 1..Len(Actions)

TInv == TypeOK /\ Indexed

LEMMA ActionType ==
  ASSUME TInv, step \in Acting
  PROVE  /\ Action \in [kind : Kinds, target : Elements]
         /\ Action.kind \in Kinds /\ Target \in Elements
<1>1. Action \in [kind : Kinds, target : Elements]
  BY ActionsType, ElementsOfSeq DEF TInv, Indexed, Action
<1> QED  BY <1>1 DEF Target

LEMMA WaitTypes ==
  ASSUME PipelineOK
  PROVE  /\ config.wait \in Seq([kind : Polled \ {"app_flag"}, target : Elements]
                               \cup [kind : Awaited \cup {"app_flag"}, target : {"nothing"}])
         /\ Len(config.wait) \in Nat
         /\ config.stabilize \in BOOLEAN /\ config.effects \in BOOLEAN
BY Strategies DEF PipelineOK

\* What is left of the waits: so much of the end of the list.
LEMMA WaitsLeft ==
  ASSUME PipelineOK
  PROVE  /\ Len(waits) \in 0..Len(config.wait)
         /\ waits = SubSeq(config.wait, Len(config.wait) - Len(waits) + 1, Len(config.wait))
         /\ waits # << >> =>
              /\ Head(waits) = config.wait[Len(config.wait) - Len(waits) + 1]
              /\ Len(Tail(waits)) = Len(waits) - 1
              /\ Tail(waits) = SubSeq(config.wait, Len(config.wait) - Len(waits) + 2, Len(config.wait))
<1> DEFINE w == config.wait
<1>1. w \in Seq([kind : Polled \ {"app_flag"}, target : Elements]
                 \cup [kind : Awaited \cup {"app_flag"}, target : {"nothing"}])
  BY WaitTypes
<1>0. PICK k \in 0..Len(w) : waits = SubSeq(w, k + 1, Len(w))
  BY DEF PipelineOK
<1> HIDE DEF w
<1>2. Len(w) \in Nat /\ k \in 0..Len(w) /\ Len(waits) = Len(w) - k
  BY <1>0, <1>1
<1>3. ASSUME waits # << >>
      PROVE  Head(waits) = w[k + 1] /\ Tail(waits) = SubSeq(w, k + 2, Len(w)) /\ Len(Tail(waits)) = Len(waits) - 1
  BY <1>0, <1>1, <1>2, <1>3
<1>4. k = Len(w) - Len(waits) /\ k + 1 = Len(w) - Len(waits) + 1 /\ k + 2 = Len(w) - Len(waits) + 2
  BY <1>2
<1>5. Len(waits) \in 0..Len(w)
  BY <1>2
<1>6. waits = SubSeq(w, Len(w) - Len(waits) + 1, Len(w))
  BY <1>0, <1>4, Zenon
<1> QED  BY <1>3, <1>4, <1>5, <1>6 DEF w

\* What an action leaves alone keeps its types.
LEMMA Kept ==
  /\ PipelineOK /\ UNCHANGED pipeline => PipelineOK'
  /\ PageOK /\ UNCHANGED page => PageOK'
  /\ HistoryOK /\ UNCHANGED history => HistoryOK'
<1>1. PipelineOK /\ UNCHANGED pipeline => PipelineOK'
  BY DEF PipelineOK, pipeline
<1>2. PageOK /\ UNCHANGED page => PageOK'
  BY DEF PageOK, page, Changes
<1>3. HistoryOK /\ UNCHANGED history => HistoryOK'
  BY DEF HistoryOK, history
<1> QED  BY <1>1, <1>2, <1>3

LEMMA FreshPlaceType ==
  ASSUME NEW l
  PROVE  FreshPlace(l) \in Laid(l)
BY DEF FreshPlace, Laid, Places

LEMMA TypeInit == Init => TInv
<1> SUFFICES ASSUME Init PROVE TInv
  OBVIOUS
<1>1. config \in [stabilize : BOOLEAN, effects : BOOLEAN, wait : WaitLists] /\ waits = config.wait
  BY DEF Init
<1>2. \E k \in 0..Len(config.wait) : waits = SubSeq(config.wait, k + 1, Len(config.wait))
  <2>1. config.wait \in Seq([kind : Polled \ {"app_flag"}, target : Elements]
                            \cup [kind : Awaited \cup {"app_flag"}, target : {"nothing"}])
    BY <1>1, Strategies
  <2>2. waits = SubSeq(config.wait, 0 + 1, Len(config.wait)) /\ 0 \in 0..Len(config.wait)
    BY <1>1, <2>1
  <2> QED  BY <2>2
<1>3. Len(Given) \in Nat
  BY GivenActions
<1>4. PipelineOK
  BY <1>1, <1>2, <1>3, BoundsNat DEF Init, PipelineOK, Places
<1>5. PageOK
  <2>1. look \in [Elements -> {"absent", "hidden", "shown"}]
    BY PageShape DEF Init
  <2>2. place \in Laid(look)
    BY FreshPlaceType DEF Init
  <2>3. blocked \in BOOLEAN
    BY Zenon DEF Init
  <2>4. shifts = 0 /\ hides = 0 /\ documents = 0 /\ due = {} /\ focus = "nothing"
    BY DEF Init
  <2> QED  BY <2>1, <2>2, <2>3, <2>4, BoundsNat DEF PageOK, Changes
<1>6. HistoryOK
  <2>1. late \in BOOLEAN
    BY Zenon DEF Init
  <2>2. lost = {} /\ been \in [Elements -> {"absent", "hidden", "shown"}]
    BY PageShape DEF Init
  <2>3. hits \in Seq(Hit) /\ revealed \in Seq(SUBSET Elements) /\ Len(revealed) = Len(hits)
    BY DEF Init
  <2> QED  BY <2>1, <2>2, <2>3 DEF HistoryOK
<1>7. Indexed
  BY DEF Init, Indexed, Starting, Acting
<1> QED  BY <1>4, <1>5, <1>6, <1>7 DEF TInv, TypeOK

\* The steps of the pipeline that only look at the page.
LEMMA TypeLooking ==
  ASSUME TInv,
         \/ Poll \/ CaptureBefore \/ UploadFails \/ CaptureAfter
         \/ PollStrategy \/ Explain \/ LetPass \/ WaitsOver \/ Extract \/ CallFails
  PROVE  TInv'
<1> USE DEF TInv, TypeOK
<1>0. Len(Given) \in Nat /\ Len(Actions) = Len(Given) /\ Actions \in Seq([kind : Kinds, target : Elements])
      /\ MaxPolls \in Nat
  BY GivenActions, ActionsType, BoundsNat
<1>2. ASSUME UNCHANGED <<page, history>>, PipelineOK', Indexed'  PROVE TInv'
  BY <1>2, Kept
<1>3. CASE Poll
  <2>1. PipelineOK'
    BY <1>0, <1>3 DEF Poll, PipelineOK, Finished
  <2>2. Indexed'
    BY <1>3 DEF Poll, Indexed, Starting, Acting, history
  <2> QED  BY <1>2, <1>3, <2>1, <2>2 DEF Poll
<1>5. CASE CaptureBefore
  <2>1. PipelineOK'
    BY <1>5 DEF CaptureBefore, PipelineOK, Shown
  <2>2. Indexed'
    BY <1>5 DEF CaptureBefore, Indexed, Starting, Acting, history
  <2> QED  BY <1>2, <1>5, <2>1, <2>2 DEF CaptureBefore
<1>6. CASE UploadFails
  <2>1. PipelineOK'
    BY <1>6 DEF UploadFails, PipelineOK, Finished
  <2>2. Indexed'
    BY <1>6 DEF UploadFails, Indexed, Starting, Acting, history
  <2> QED  BY <1>2, <1>6, <2>1, <2>2 DEF UploadFails
<1>7. CASE CaptureAfter
  <2>1. index \in 1..Len(Actions)
    BY <1>7 DEF CaptureAfter, Indexed, Acting
  <2>2. reports' \in Seq(SUBSET Elements)
    BY <1>7 DEF CaptureAfter, PipelineOK, Shown
  <2>3. PipelineOK'
    BY <1>0, <1>7, <2>1, <2>2 DEF CaptureAfter, PipelineOK
  <2>4. Indexed'
    BY <1>0, <1>7, <2>1 DEF CaptureAfter, Indexed, Starting, Acting, history
  <2> QED  BY <1>2, <1>7, <2>3, <2>4 DEF CaptureAfter
<1>8. ASSUME step' \in WaitSteps \cup Finished, index' = index, UNCHANGED <<page, history>>
      PROVE  Indexed'
  BY <1>8 DEF Indexed, Starting, Acting, WaitSteps, Finished
<1>9. ASSUME waits # << >>
      PROVE  \E k \in 0..Len(config.wait) : Tail(waits) = SubSeq(config.wait, k + 1, Len(config.wait))
  <2> DEFINE k == Len(config.wait) - Len(waits) + 1
  <2>1. Len(config.wait) \in Nat /\ Len(waits) \in 0..Len(config.wait) /\ Len(Tail(waits)) = Len(waits) - 1
    BY <1>9, WaitsLeft, WaitTypes
  <2>2. Len(waits) # 0
    <3>1. waits \in Seq([kind : Polled \ {"app_flag"}, target : Elements]
                        \cup [kind : Awaited \cup {"app_flag"}, target : {"nothing"}])
      BY WaitTypes DEF PipelineOK
    <3> QED  BY <1>9, <3>1
  <2>3. k \in 0..Len(config.wait) /\ k + 1 = Len(config.wait) - Len(waits) + 2
    BY <2>1, <2>2
  <2> QED  BY <1>9, <2>3, WaitsLeft
<1>10. CASE PollStrategy
  <2>1. waits # << >> /\ step' \in WaitSteps \cup Finished /\ index' = index /\ UNCHANGED <<page, history>>
    BY <1>10 DEF PollStrategy, Waiting, WaitSteps, Finished, NextStrategy
  <2>2. waits' = waits \/ waits' = Tail(waits)
    BY <1>10 DEF PollStrategy, NextStrategy
  <2>5. polls' = polls \/ polls' = 0 \/ (polls < MaxPolls /\ polls' = polls + 1)
    BY <1>10 DEF PollStrategy, NextStrategy
  <2>6. polls' \in 0..MaxPolls
    BY <1>0, <2>5 DEF PipelineOK
  <2>3. UNCHANGED <<config, index, center, before, reports, progress>>
    BY <1>10 DEF PollStrategy
  <2>4. PipelineOK'
    BY <1>9, <2>1, <2>2, <2>3, <2>6 DEF PipelineOK, WaitSteps
  <2> QED  BY <1>2, <1>8, <2>1, <2>4
<1>11. CASE Explain
  <2>1. PipelineOK'
    BY <1>11 DEF Explain, PipelineOK, Finished
  <2> QED  BY <1>2, <1>8, <1>11, <2>1 DEF Explain, Finished
<1>12. CASE LetPass
  <2>1. waits # << >> /\ step' \in WaitSteps \cup Finished /\ index' = index /\ UNCHANGED <<page, history>>
    BY <1>12 DEF LetPass, Waiting, WaitSteps, Finished, NextStrategy
  <2>2. waits' = waits \/ waits' = Tail(waits)
    BY <1>12 DEF LetPass, NextStrategy
  <2>5. polls' = polls \/ polls' = 0 \/ (polls < MaxPolls /\ polls' = polls + 1)
    BY <1>12 DEF LetPass, NextStrategy
  <2>6. polls' \in 0..MaxPolls
    BY <1>0, <2>5 DEF PipelineOK
  <2>3. UNCHANGED <<config, index, center, before, reports, progress>>
    BY <1>12 DEF LetPass
  <2>4. PipelineOK'
    BY <1>9, <2>1, <2>2, <2>3, <2>6 DEF PipelineOK, WaitSteps
  <2> QED  BY <1>2, <1>8, <2>1, <2>4
<1>13. CASE WaitsOver
  <2>1. PipelineOK'
    BY <1>13 DEF WaitsOver, PipelineOK
  <2> QED  BY <1>2, <1>8, <1>13, <2>1 DEF WaitsOver, WaitSteps
<1>14. CASE Extract
  <2>1. PipelineOK'
    BY <1>14 DEF Extract, PipelineOK, Finished
  <2> QED  BY <1>2, <1>8, <1>14, <2>1 DEF Extract, Finished
<1>15. CASE CallFails
  <2>1. PipelineOK'
    BY <1>15 DEF CallFails, PipelineOK, Finished
  <2> QED  BY <1>2, <1>8, <1>15, <2>1 DEF CallFails, Finished
<1> QED  BY <1>3, <1>5, <1>6, <1>7, <1>10, <1>11, <1>12, <1>13, <1>14, <1>15

LEMMA Performed ==
  ASSUME TInv, Perform
  PROVE  \E e \in Elements \cup {"nothing"} : Dispatch(e)
<1>1. Target \in Elements /\ focus \in Elements \cup {"nothing"} /\ \A p : Drawn(p) \subseteq Elements
  BY ActionType DEF TInv, TypeOK, PageOK, Perform, Acting, Drawn, Shown
<1> QED  BY <1>1 DEF Perform

LEMMA DispatchType ==
  ASSUME TInv, step \in Acting, NEW e \in Elements \cup {"nothing"}, Dispatch(e)
  PROVE  /\ due' \subseteq Elements
         /\ hits' \in Seq(Hit) /\ Len(hits') = Len(hits) + 1
         /\ revealed' \in Seq(SUBSET Elements) /\ Len(revealed') = Len(revealed) + 1
<1> DEFINE new == IF e = "nothing" THEN {} ELSE Reveals[e] \ Shown
           hit == [action |-> Action, on |-> e, lost |-> lost, clear |-> Clear]
<1>1. new \subseteq Elements
  BY PageShape
<1>2. hit \in Hit
  <2>1. Clear \in BOOLEAN
    BY Zenon DEF Clear
  <2> QED  BY <2>1, ActionType DEF TInv, TypeOK, HistoryOK, Hit
<1>3. due' = due \cup new /\ hits' = Append(hits, hit) /\ revealed' = Append(revealed, new \ due)
  BY DEF Dispatch
<1>4. hits \in Seq(Hit) /\ revealed \in Seq(SUBSET Elements) /\ due \subseteq Elements
  BY DEF TInv, TypeOK, HistoryOK, PageOK
<1> HIDE DEF new, hit
<1>5. new \ due \in SUBSET Elements
  BY <1>1
<1> QED  BY <1>1, <1>2, <1>3, <1>4, <1>5

\* The steps of the pipeline that change the page, or what is remembered of it.
LEMMA TypeTouching ==
  ASSUME TInv,
         StabilizePage \/ StabilizeAgain \/ Interact \/ Scroll \/ ReadTarget \/ Focus \/ Perform \/ Settle
  PROVE  TInv'
<1> USE DEF TInv, TypeOK
<1>1. CASE StabilizePage
  <2>1. PipelineOK'
    BY <1>1 DEF StabilizePage, PipelineOK
  <2>2. Indexed'
    BY <1>1 DEF StabilizePage, Indexed, Starting, Acting, history
  <2> QED  BY <1>1, <2>1, <2>2, Kept DEF StabilizePage
<1>2. CASE StabilizeAgain \/ Interact
  <2>1. PipelineOK'
    BY <1>2 DEF StabilizeAgain, Interact, PipelineOK
  <2>2. HistoryOK'
    BY <1>2 DEF StabilizeAgain, Interact, HistoryOK, PageOK
  <2>3. Indexed'
    <3>1. CASE StabilizeAgain
      BY <3>1 DEF StabilizeAgain, Indexed, Starting, Acting
    <3>2. CASE Interact
      <4>1. index = 1 /\ index' = 1 /\ hits' = hits /\ (step' = "finding" => Actions # << >>)
            /\ step' \in {"finding", "waiting"}
        BY <3>2 DEF Interact, Indexed, Starting
      <4>2. Actions # << >> => 1 \in 1..Len(Actions)
        BY ActionsType, GivenType
      <4> QED  BY <4>1, <4>2 DEF Indexed, Starting, Acting
    <3> QED  BY <1>2, <3>1, <3>2
  <2> QED  BY <1>2, <2>1, <2>2, <2>3, Kept DEF StabilizeAgain, Interact
<1>3. CASE Scroll
  <2>1. PipelineOK'
    BY <1>3 DEF Scroll, PipelineOK
  <2>2. UNCHANGED <<look, focus, blocked, due, shifts, hides, documents, history>>
    BY <1>3 DEF Scroll
  <2>3. Target \in Elements /\ look \in [Elements -> {"absent", "hidden", "shown"}] /\ place \in Laid(look)
    BY <1>3, ActionType DEF Scroll, Acting, PageOK
  <2>4. place' \in Laid(look)
    <3>1. CASE look[Target] # "shown"
      BY <1>3, <2>3, <3>1 DEF Scroll, ScrollTo
    <3>2. CASE look[Target] = "shown"
      <4>1. PICK over \in SUBSET (Shown \ {Target}), p \in {"center", place[Target]} :
              place' = [f \in Elements |-> IF f = Target THEN p ELSE IF f \in over THEN "center"
                                          ELSE IF f \in Shown THEN "aside" ELSE "away"]
        BY <1>3, <3>2 DEF Scroll, ScrollTo
      <4>2. p \in Places
        BY <2>3 DEF Laid, Places
      <4> QED  BY <2>3, <3>2, <4>1, <4>2 DEF Laid, Places, Shown
    <3> QED  BY <3>1, <3>2
  <2>5. PageOK'
    BY <2>2, <2>4 DEF PageOK, Changes
  <2>6. Indexed'
    BY <1>3 DEF Scroll, Indexed, Starting, Acting, history
  <2> QED  BY <2>1, <2>2, <2>5, <2>6, Kept
<1>4. CASE ReadTarget
  <2>1. Target \in Elements
    BY <1>4, ActionType DEF ReadTarget, Acting
  <2>2. PipelineOK'
    BY <1>4, <2>1 DEF ReadTarget, PipelineOK, PageOK, Laid, Finished
  <2>3. HistoryOK'
    BY <1>4 DEF ReadTarget, HistoryOK
  <2>4. Indexed'
    BY <1>4 DEF ReadTarget, Indexed, Starting, Acting
  <2> QED  BY <1>4, <2>2, <2>3, <2>4, Kept DEF ReadTarget
<1>5. CASE Focus
  <2>1. PipelineOK'
    BY <1>5 DEF Focus, PipelineOK
  <2>2. Target \in Elements
    BY <1>5, ActionType DEF Focus, Acting
  <2>3. PageOK'
    BY <1>5, <2>2 DEF Focus, PageOK, Changes
  <2>4. HistoryOK'
    BY <1>5 DEF Focus, HistoryOK
  <2>5. Indexed'
    BY <1>5 DEF Focus, Indexed, Starting, Acting
  <2> QED  BY <2>1, <2>3, <2>4, <2>5
<1>6. CASE Perform
  <2>1. step \in Acting /\ step' = "settling" /\ Len(hits') = Len(hits) + 1 /\ due' \subseteq Elements
        /\ hits' \in Seq(Hit) /\ revealed' \in Seq(SUBSET Elements) /\ Len(revealed') = Len(revealed) + 1
    BY <1>6, Performed, DispatchType DEF Perform, Acting, Dispatch
  <2>2. UNCHANGED <<config, index, polls, waits, center, before, reports, progress, look, place, focus,
                    blocked, shifts, hides, documents, late, lost, been>>
    BY <1>6 DEF Perform
  <2>3. PipelineOK'
    BY <2>1, <2>2 DEF PipelineOK
  <2>4. PageOK'
    BY <2>1, <2>2 DEF PageOK, Changes
  <2>5. HistoryOK'
    BY <2>1, <2>2 DEF HistoryOK
  <2>6. Indexed'
    BY <2>1, <2>2 DEF Indexed, Starting, Acting
  <2> QED  BY <2>3, <2>4, <2>5, <2>6
<1>7. CASE Settle
  <2>1. PipelineOK'
    BY <1>7 DEF Settle, PipelineOK
  <2>2. PageOK'
    BY <1>7, Kept DEF Settle
  <2>3. late' \in BOOLEAN
    BY <1>7 DEF Settle
  <2>4. HistoryOK'
    BY <1>7, <2>3 DEF Settle, HistoryOK
  <2>5. Indexed'
    BY <1>7 DEF Settle, Indexed, Starting, Acting
  <2> QED  BY <2>1, <2>2, <2>4, <2>5
<1> QED  BY <1>1, <1>2, <1>3, <1>4, <1>5, <1>6, <1>7

\* The page changes under the pipeline.
LEMMA TypePage ==
  ASSUME TInv, Page
  PROVE  TInv'
<1> USE DEF TInv, TypeOK
<1>1. UNCHANGED pipeline /\ UNCHANGED <<hits, revealed>>
  BY DEF Page, NewDocument, Refocus, Block, Reveal, Hide, Shift, history
<1>2. PipelineOK'
  BY <1>1, Kept
<1>3. Indexed'
  BY <1>1 DEF Indexed, Starting, Acting, pipeline
<1>4. ASSUME late' \in BOOLEAN, lost' \subseteq {"place", "focus"},
             been' \in [Elements -> {"absent", "hidden", "shown"}]
      PROVE  HistoryOK'
  BY <1>1, <1>4 DEF HistoryOK
<1>5. /\ look \in [Elements -> {"absent", "hidden", "shown"}] /\ place \in Laid(look)
      /\ been \in [Elements -> {"absent", "hidden", "shown"}] /\ late \in BOOLEAN /\ lost \subseteq {"place", "focus"}
      /\ shifts \in Nat /\ hides \in Nat /\ documents \in Nat /\ MaxChanges \in Nat
  BY BoundsNat DEF PageOK, HistoryOK
<1>6. CASE Refocus
  <2>1. PageOK'
    BY <1>5, <1>6 DEF Refocus, PageOK, Changes, Shown
  <2>2. HistoryOK'
    BY <1>4, <1>5, <1>6 DEF Refocus
  <2> QED  BY <1>2, <1>3, <2>1, <2>2
<1>7. CASE NewDocument
  <2>1. look' \in [Elements -> {"absent", "hidden", "shown"}]
    BY <1>7, PageShape DEF NewDocument
  <2>2. place' \in Laid(look')
    BY <1>7, FreshPlaceType DEF NewDocument
  <2>3. documents' = documents + 1 /\ shifts' = shifts /\ hides' = hides /\ blocked' = blocked
        /\ Changes < MaxChanges
    BY <1>7 DEF NewDocument
  <2>4. focus' \in Elements \cup {"nothing"} /\ due' \subseteq Elements
    BY <1>7 DEF NewDocument
  <2>5. late' \in BOOLEAN /\ lost' \subseteq {"place", "focus"}
    BY <1>7 DEF NewDocument, React
  <2>6. been' \in [Elements -> {"absent", "hidden", "shown"}]
    BY <1>7 DEF NewDocument, Most
  <2>7. PageOK'
    BY <1>5, <2>1, <2>2, <2>3, <2>4 DEF PageOK, Changes
  <2> QED  BY <1>2, <1>3, <1>4, <2>5, <2>6, <2>7
<1>8. CASE Block
  <2>1. PageOK'
    BY <1>8 DEF Block, PageOK, Changes
  <2> QED  BY <1>2, <1>3, <1>8, <2>1, Kept DEF Block
<1>9. ASSUME NEW e \in Elements, Reveal(e)
      PROVE  TInv'
  <2>1. look' \in [Elements -> {"absent", "hidden", "shown"}] /\ place' \in Laid(look') /\ due' \subseteq Elements
    BY <1>5, <1>9 DEF Reveal, PageOK, Laid
  <2>2. UNCHANGED <<focus, blocked, shifts, hides, documents>>
    BY <1>9 DEF Reveal
  <2>3. PageOK'
    BY <2>1, <2>2 DEF PageOK, Changes
  <2>4. HistoryOK'
    BY <1>4, <1>5, <1>9 DEF Reveal
  <2> QED  BY <1>2, <1>3, <2>3, <2>4
<1>10. ASSUME NEW e \in Elements, Hide(e)
       PROVE  TInv'
  <2>1. look' \in [Elements -> {"absent", "hidden", "shown"}] /\ place' \in Laid(look')
    BY <1>5, <1>10 DEF Hide, Laid, Places
  <2>2. focus' \in Elements \cup {"nothing"}
    BY <1>10 DEF Hide, PageOK
  <2>3. UNCHANGED <<blocked, due, shifts, documents>> /\ hides' = hides + 1 /\ Changes < MaxChanges
    BY <1>10 DEF Hide
  <2>4. PageOK'
    BY <1>5, <2>1, <2>2, <2>3 DEF PageOK, Changes
  <2>5. HistoryOK'
    BY <1>4, <1>5, <1>10 DEF Hide
  <2> QED  BY <1>2, <1>3, <2>4, <2>5
<1>11. ASSUME NEW e \in Elements, Shift(e)
       PROVE  TInv'
  <2>1. place' \in Laid(look)
    BY <1>5, <1>11 DEF Shift, Shown, Laid
  <2>2. UNCHANGED <<look, focus, blocked, due, hides, documents>> /\ shifts' = shifts + 1 /\ Changes < MaxChanges
    BY <1>11 DEF Shift
  <2>3. PageOK'
    BY <1>5, <2>1, <2>2 DEF PageOK, Changes
  <2>4. HistoryOK'
    BY <1>4, <1>5, <1>11 DEF Shift
  <2> QED  BY <1>2, <1>3, <2>3, <2>4
<1> QED  BY <1>6, <1>7, <1>8, <1>9, <1>10, <1>11 DEF Page

LEMMA TypeStep == TInv /\ [Next]_vars => TInv'
<1>1. ASSUME TInv, UNCHANGED vars PROVE TInv'
  <2>1. UNCHANGED pipeline /\ UNCHANGED page /\ UNCHANGED history
    BY <1>1 DEF vars
  <2>2. Indexed'
    BY <1>1, <2>1 DEF TInv, Indexed, pipeline, history
  <2> QED  BY <1>1, <2>1, <2>2, Kept DEF TInv, TypeOK
<1> QED  BY <1>1, TypeLooking, TypeTouching, TypePage DEF Next, Pipeline

\* Every variable of the pipeline and of the page keeps to its type, and the action the
\* pipeline is at is one that it was given, for any list of them.
THEOREM TypeCorrect == Spec => []TypeOK
<1>1. TInv => TypeOK
  BY DEF TInv
<1> QED  BY <1>1, TypeInit, TypeStep, PTL DEF Spec

-----------------------------------------------------------------------------
(* The target is where the action goes. *)

\* What is due is not shown yet.
DueHidden == due \cap Shown = {}

LEMMA DueHiddenStep ==
  ASSUME TInv, DueHidden, [Next]_vars
  PROVE  DueHidden'
<1> USE DEF DueHidden
<1>0. look \in [Elements -> {"absent", "hidden", "shown"}]
  BY DEF TInv, TypeOK, PageOK
<1>1. CASE UNCHANGED <<look, due>>
  BY <1>1 DEF Shown
<1>2. CASE Perform
  <2>1. PICK e \in Elements \cup {"nothing"} : Dispatch(e)
    BY <1>2, Performed
  <2>2. Shown' = Shown
    BY <1>2 DEF Perform, Shown
  <2>3. due' = due \cup (IF e = "nothing" THEN {} ELSE Reveals[e] \ Shown)
    BY <2>1 DEF Dispatch
  <2> QED  BY <2>2, <2>3
<1>3. CASE NewDocument
  BY <1>3 DEF NewDocument
<1>4. ASSUME NEW e \in Elements, Reveal(e)
      PROVE  DueHidden'
  <2>1. due' = due \ {e} /\ Shown' = Shown \cup {e}
    BY <1>0, <1>4 DEF Reveal, Shown
  <2> QED  BY <2>1
<1>5. ASSUME NEW e \in Elements, Hide(e)
      PROVE  DueHidden'
  <2>1. due' = due /\ Shown' \subseteq Shown
    BY <1>0, <1>5 DEF Hide, Shown
  <2> QED  BY <2>1
<1>6. CASE Interact \/ Poll \/ ReadTarget \/ CaptureBefore \/ UploadFails \/ Settle \/ CaptureAfter
  BY <1>1, <1>6 DEF Interact, Poll, ReadTarget, CaptureBefore, UploadFails, Settle, CaptureAfter, page
<1>7. CASE PollStrategy \/ Explain \/ LetPass \/ WaitsOver \/ Extract \/ CallFails
  BY <1>1, <1>7 DEF PollStrategy, Explain, LetPass, WaitsOver, Extract, CallFails, page
<1>8. CASE StabilizePage \/ Scroll \/ Focus \/ StabilizeAgain \/ Refocus \/ Block
  BY <1>1, <1>8 DEF StabilizePage, Scroll, Focus, StabilizeAgain, Refocus, Block, page
<1>9. ASSUME NEW e \in Elements, Shift(e) PROVE DueHidden'
  BY <1>1, <1>9 DEF Shift
<1>10. CASE UNCHANGED vars
  BY <1>1, <1>10 DEF vars, page
<1> QED  BY <1>2, <1>3, <1>4, <1>5, <1>6, <1>7, <1>8, <1>9, <1>10 DEF Next, Pipeline, Page

Aimed == {"before", "focusing", "performing"}

\* From the reading of the rect to the action: where the target was read to be, it still is, and
\* what it was given it still has, unless the page has moved things or the focus.
AimedAt ==
  /\ step \in Aimed /\ "place" \notin lost /\ Action.kind # "upload" =>
       look[Target] = "shown" /\ center = place[Target]
  /\ step = "performing" /\ "focus" \notin lost /\ Action.kind = "type" => focus = Target

AimInv == DueHidden /\ AimedAt /\ ReachesTarget

LEMMA AimInit == Init => AimInv
<1> SUFFICES ASSUME Init PROVE AimInv
  OBVIOUS
<1>1. step = "loaded" /\ due = {} /\ hits = << >>
  BY DEF Init
<1> QED  BY <1>1 DEF AimInv, DueHidden, AimedAt, ReachesTarget, Aimed

\* An action hits its own target, unless things have moved since its rect was read or it is covered.
LEMMA AimPerform ==
  ASSUME TInv, AimInv, Perform
  PROVE  ReachesTarget'
<1>1. Action.kind \in Kinds /\ Target \in Elements /\ step = "performing"
  BY ActionType DEF Perform, Acting
<1>2. hits \in Seq(Hit)
  BY DEF TInv, TypeOK, HistoryOK
<1> DEFINE Reached(on, l, clear) == \/ on = Target
                                    \/ Action.kind \in {"click", "hover"} /\ ("place" \in l \/ ~ clear)
                                    \/ Action.kind = "type" /\ "focus" \in l
<1>3. PICK e \in Elements \cup {"nothing"} : Dispatch(e) /\ Reached(e, lost, Clear)
  <2>1. CASE Action.kind \in {"click", "hover"} /\ ("place" \in lost \/ ~ Clear)
    BY <2>1, Performed
  <2>2. CASE Action.kind \in {"click", "hover"} /\ "place" \notin lost /\ Clear
    <3>1. center = place[Target] /\ center # "away" /\ Drawn(center) = {Target}
      BY <1>1, <2>2 DEF AimInv, AimedAt, Aimed, Clear
    <3>2. Dispatch(Target)
      BY <2>2, <3>1 DEF Perform
    <3> QED  BY <1>1, <3>2
  <2>3. CASE Action.kind = "type"
    <3>1. Dispatch(focus) /\ focus \in Elements \cup {"nothing"}
      BY <2>3 DEF Perform, TInv, TypeOK, PageOK
    <3>2. "focus" \in lost \/ focus = Target
      BY <1>1, <2>3 DEF AimInv, AimedAt
    <3> QED  BY <2>3, <3>1, <3>2
  <2>4. CASE Action.kind = "upload"
    BY <1>1, <2>4 DEF Perform
  <2> QED  BY <1>1, <2>1, <2>2, <2>3, <2>4 DEF Kinds
<1> DEFINE hit == [action |-> Action, on |-> e, lost |-> lost, clear |-> Clear]
           OK(h) == \/ h.on = h.action.target
                    \/ h.action.kind \in {"click", "hover"} /\ ("place" \in h.lost \/ ~ h.clear)
                    \/ h.action.kind = "type" /\ "focus" \in h.lost
<1>4. hits' = Append(hits, hit)
  BY <1>3 DEF Dispatch
<1>5. OK(hit)
  BY <1>3 DEF Target
<1> HIDE DEF hit
<1>6. SUFFICES ASSUME NEW k \in 1..Len(hits') PROVE OK(hits'[k])
  BY DEF ReachesTarget
<1>7. CASE k = Len(hits) + 1
  BY <1>2, <1>4, <1>5, <1>7
<1>8. CASE k \in 1..Len(hits)
  <2>1. hits'[k] = hits[k]
    BY <1>2, <1>4, <1>8
  <2> QED  BY <1>8, <2>1 DEF AimInv, ReachesTarget
<1> QED  BY <1>2, <1>4, <1>7, <1>8

\* The steps from the reading to the action.
LEMMA AimPipeline ==
  ASSUME TInv, AimInv, ReadTarget \/ CaptureBefore \/ Focus
  PROVE  AimedAt' /\ hits' = hits
<1>1. Target' = Target /\ Action' = Action /\ look' = look /\ place' = place /\ hits' = hits
  BY DEF ReadTarget, CaptureBefore, Focus, Target, Action, page, history
<1>2. CASE ReadTarget
  <2>1. step' \in {"before", "failed"} /\ center' = place[Target]
        /\ (step' = "before" /\ Action.kind # "upload" => look[Target] = "shown")
    BY <1>2 DEF ReadTarget
  <2> QED  BY <1>1, <2>1 DEF AimedAt, Aimed
<1>3. CASE CaptureBefore
  <2>1. /\ step = "before" /\ step' \in {"focusing", "performing"} /\ (step' = "performing" => Action.kind # "type")
        /\ center' = center /\ lost' = lost
    BY <1>3 DEF CaptureBefore, history
  <2> QED  BY <1>1, <2>1 DEF AimInv, AimedAt, Aimed
<1>4. CASE Focus
  <2>1. /\ step = "focusing" /\ step' = "performing" /\ center' = center
        /\ ("place" \in lost' <=> "place" \in lost)
        /\ ("focus" \in lost' \/ focus' = Target)
    BY <1>4 DEF Focus
  <2> QED  BY <1>1, <2>1 DEF AimInv, AimedAt, Aimed
<1> QED  BY <1>2, <1>3, <1>4

\* What the page may do meanwhile.
LEMMA AimPage ==
  ASSUME TInv, AimInv, Page
  PROVE  AimedAt' /\ hits' = hits
<1>1. UNCHANGED <<step, index, center, hits>> /\ Target' = Target /\ Action' = Action
  BY DEF Page, Refocus, NewDocument, Block, Reveal, Hide, Shift, history, pipeline, Target, Action
<1>2. step \in Aimed => Target \in Elements
  BY ActionType DEF Aimed, Acting
<1>3. look \in [Elements -> {"absent", "hidden", "shown"}] /\ place \in [Elements -> Places]
  BY DEF TInv, TypeOK, PageOK, Laid
<1>4. CASE Block
  <2>1. UNCHANGED <<look, place, focus, lost>>
    BY <1>4 DEF Block, history
  <2> QED  BY <1>1, <2>1 DEF AimInv, AimedAt
<1>5. CASE Refocus
  <2>1. UNCHANGED <<look, place>> /\ lost' = lost \cup {"focus"}
    BY <1>5 DEF Refocus
  <2> QED  BY <1>1, <2>1 DEF AimInv, AimedAt
<1>6. CASE NewDocument
  <2>1. lost' = {"place", "focus"}
    BY <1>6 DEF NewDocument
  <2> QED  BY <1>1, <2>1 DEF AimedAt
<1>7. ASSUME NEW e \in Elements, Shift(e) PROVE AimedAt'
  <2>1. "place" \in lost' /\ lost \subseteq lost' /\ focus' = focus
    BY <1>7 DEF Shift
  <2> QED  BY <1>1, <2>1 DEF AimInv, AimedAt
<1>8. ASSUME NEW e \in Elements, Hide(e) PROVE AimedAt'
  <2>1. "place" \in lost' /\ lost \subseteq lost' /\ ("focus" \in lost' \/ focus' = focus)
    BY <1>8 DEF Hide
  <2> QED  BY <1>1, <2>1 DEF AimInv, AimedAt
<1>9. ASSUME NEW e \in Elements, Reveal(e) PROVE AimedAt'
  <2>1. /\ e \in due /\ look[e] # "shown" /\ UNCHANGED <<focus, lost>>
        /\ look' = [look EXCEPT ![e] = "shown"] /\ \E p \in Places : place' = [place EXCEPT ![e] = p]
    BY <1>9 DEF AimInv, DueHidden, Reveal, Shown
  <2>2. ASSUME step \in Aimed, look[Target] = "shown"
        PROVE  look'[Target] = "shown" /\ place'[Target] = place[Target]
    <3>1. e # Target /\ Target \in Elements
      BY <1>2, <2>1, <2>2
    <3> QED  BY <1>3, <2>1, <2>2, <3>1
  <2> QED  BY <1>1, <2>1, <2>2 DEF AimInv, AimedAt, Aimed
<1> QED  BY <1>1, <1>4, <1>5, <1>6, <1>7, <1>8, <1>9 DEF Page

LEMMA AimStep == TInv /\ AimInv /\ [Next]_vars => AimInv'
<1> SUFFICES ASSUME TInv, AimInv, [Next]_vars PROVE AimedAt' /\ ReachesTarget'
  BY DueHiddenStep DEF AimInv
<1>1. ASSUME hits' = hits PROVE ReachesTarget'
  BY <1>1 DEF AimInv, ReachesTarget
<1>2. CASE ReadTarget \/ CaptureBefore \/ Focus
  BY <1>1, <1>2, AimPipeline
<1>3. CASE Page
  BY <1>1, <1>3, AimPage
<1>4. ASSUME step' \notin Aimed PROVE AimedAt'
  BY <1>4 DEF Aimed, AimedAt
<1>5. CASE Perform
  <2>1. step' \notin Aimed
    BY <1>5, Performed DEF Dispatch, Aimed
  <2> QED  BY <1>4, <1>5, <2>1, AimPerform
<1>6. CASE StabilizePage \/ Interact \/ Poll \/ Scroll \/ UploadFails \/ Settle \/ CaptureAfter \/ StabilizeAgain
  <2>1. step' \notin Aimed /\ hits' = hits
    BY <1>6 DEF StabilizePage, Interact, Poll, Scroll, UploadFails, Settle, CaptureAfter, StabilizeAgain, Aimed, history
  <2> QED  BY <1>1, <1>4, <2>1
<1>7. CASE PollStrategy \/ Explain \/ LetPass \/ WaitsOver \/ Extract \/ CallFails
  <2>1. step' \notin Aimed /\ hits' = hits
    BY <1>7 DEF PollStrategy, Explain, LetPass, WaitsOver, Extract, CallFails, Waiting, Aimed, history
  <2> QED  BY <1>1, <1>4, <2>1
<1>8. CASE UNCHANGED vars
  BY <1>1, <1>8 DEF vars, pipeline, page, history, AimInv, AimedAt, Target, Action
<1> QED  BY <1>2, <1>3, <1>5, <1>6, <1>7, <1>8 DEF Next, Pipeline

\* A click, a hover, a text or an upload reaches the element it was meant for, whatever the page reveals or
\* hides meanwhile, unless it moved things or the focus after the target's rect was read, or the target is
\* covered, out of view or does not take the focus, which the code does not look at (`action::prepare`,
\* `action::perform`): for any list of interactions on any page.
THEOREM TargetReached == Spec => []ReachesTarget
<1>1. AimInv => ReachesTarget
  BY DEF AimInv
<1> QED  BY <1>1, TypeInit, TypeStep, AimInit, AimStep, PTL DEF Spec

-----------------------------------------------------------------------------
(* What an action is reported to have made appear. *)

\* A page that reacts in time has nothing to show when the settle_ms are over.
NothingDue == ~ late /\ step # "settling" => due = {}

LEMMA NothingDueStep == TInv /\ NothingDue /\ [Next]_vars => NothingDue'
<1> SUFFICES ASSUME TInv, NothingDue, [Next]_vars PROVE NothingDue'
  OBVIOUS
<1>1. ASSUME UNCHANGED <<due, late>>, step # "settling" \/ step' = step PROVE NothingDue'
  BY <1>1 DEF NothingDue
<1>2. CASE Interact \/ PollStrategy \/ Explain \/ LetPass \/ WaitsOver \/ Extract \/ CallFails
  BY <1>1, <1>2 DEF Interact, PollStrategy, Explain, LetPass, WaitsOver, Extract, CallFails, Asking, Waiting, page, history
<1>3. CASE Poll \/ Scroll \/ ReadTarget \/ CaptureBefore \/ Focus \/ UploadFails \/ CaptureAfter
  BY <1>1, <1>3 DEF Poll, Scroll, ReadTarget, CaptureBefore, Focus, UploadFails, CaptureAfter, page, history
<1>4. CASE StabilizePage \/ StabilizeAgain
  BY <1>1, <1>4 DEF StabilizePage, StabilizeAgain, page, history
<1>5. CASE Perform
  BY <1>5, Performed DEF Dispatch, NothingDue
<1>6. CASE Settle
  BY <1>6 DEF Settle, NothingDue, page
<1>7. CASE Refocus \/ Block
  BY <1>1, <1>7 DEF Refocus, Block, pipeline, history
<1>8. CASE NewDocument
  BY <1>8 DEF NewDocument, NothingDue
<1>9. ASSUME NEW e \in Elements, Reveal(e) PROVE NothingDue'
  BY <1>9 DEF Reveal, NothingDue, pipeline
<1>10. ASSUME NEW e \in Elements, Shift(e) \/ Hide(e) PROVE NothingDue'
  BY <1>1, <1>10 DEF Shift, Hide, pipeline
<1>11. CASE UNCHANGED vars
  BY <1>1, <1>11 DEF vars, pipeline, page, history
<1> QED  BY <1>2, <1>3, <1>4, <1>5, <1>6, <1>7, <1>8, <1>9, <1>10, <1>11 DEF Next, Pipeline, Page

\* An action has been performed that is not yet reported.
Unreported == {"settling", "after"}

\* One report for each action performed, the last one still to come.
Counted ==
  /\ Len(reports) <= Len(revealed)
  /\ ~ config.effects => reports = << >>
  /\ config.effects /\ step \in Unreported => Len(revealed) = Len(reports) + 1
  /\ config.effects /\ step \in Starting \cup (Acting \ Unreported) => Len(revealed) = Len(reports)

\* What the first capture found, against what is shown now and what is still due.
Compared ==
  config.effects /\ documents = 0 /\ hides = 0 /\ ~ late =>
    /\ step \in {"focusing", "performing"} => before = Shown
    /\ step \in Unreported =>
         before \subseteq Shown /\ revealed[Len(revealed)] = (Shown \ before) \cup due

EffectInv == NothingDue /\ DueHidden /\ Counted /\ Compared /\ EffectAttributed

LEMMA EffectInit == Init => EffectInv
<1> SUFFICES ASSUME Init PROVE EffectInv
  OBVIOUS
<1>1. step = "loaded" /\ due = {} /\ reports = << >> /\ revealed = << >>
  BY DEF Init
<1> QED  BY <1>1 DEF EffectInv, NothingDue, DueHidden, Counted, Compared, EffectAttributed, Unreported

\* Late reactions, what was hidden and new documents stay known.
LEMMA Remembered ==
  ASSUME TInv, [Next]_vars
  PROVE  /\ ~ late' => ~ late
         /\ documents' = 0 => documents = 0
         /\ hides' = 0 => hides = 0
         /\ config' = config
<1>1. documents \in Nat /\ hides \in Nat /\ late \in BOOLEAN
  BY DEF TInv, TypeOK, PageOK, HistoryOK
<1>2. CASE Interact \/ PollStrategy \/ Explain \/ LetPass \/ WaitsOver \/ Extract \/ CallFails
  BY <1>2 DEF Interact, PollStrategy, Explain, LetPass, WaitsOver, Extract, CallFails, page, history
<1>3. CASE Poll \/ Scroll \/ ReadTarget \/ CaptureBefore \/ Focus \/ UploadFails \/ CaptureAfter
  BY <1>3 DEF Poll, Scroll, ReadTarget, CaptureBefore, Focus, UploadFails, CaptureAfter, page, history
<1>4. CASE Settle
  BY <1>1, <1>4 DEF Settle, page
<1>5. CASE StabilizePage \/ StabilizeAgain \/ Perform
  BY <1>5 DEF StabilizePage, StabilizeAgain, Perform, page, history
<1>6. CASE Refocus \/ Block
  BY <1>6 DEF Refocus, Block, pipeline, history
<1>7. CASE NewDocument
  BY <1>1, <1>7 DEF NewDocument, React, pipeline
<1>8. ASSUME NEW e \in Elements, Reveal(e) \/ Shift(e)
      PROVE  UNCHANGED <<late, documents, hides, config>>
  BY <1>8 DEF Reveal, Shift, pipeline
<1>9. ASSUME NEW e \in Elements, Hide(e)
      PROVE  UNCHANGED <<late, documents, config>> /\ hides' = hides + 1
  BY <1>9 DEF Hide, pipeline
<1>10. CASE UNCHANGED vars
  BY <1>10 DEF vars, pipeline, page, history
<1> QED  BY <1>1, <1>2, <1>3, <1>4, <1>5, <1>6, <1>7, <1>8, <1>9, <1>10 DEF Next, Pipeline, Page

LEMMA EffectPerform ==
  ASSUME TInv, EffectInv, Perform
  PROVE  Counted' /\ Compared' /\ EffectAttributed'
<1>1. PICK e \in Elements \cup {"nothing"} : Dispatch(e)
  BY Performed
<1> DEFINE new == IF e = "nothing" THEN {} ELSE Reveals[e] \ Shown
<1>2. /\ due' = due \cup new /\ revealed' = Append(revealed, new \ due) /\ step' = "settling"
      /\ step = "performing" /\ UNCHANGED <<config, before, reports, look, hides, documents, late>>
  BY <1>1 DEF Dispatch, Perform
<1>3. revealed \in Seq(SUBSET Elements) /\ reports \in Seq(SUBSET Elements) /\ new \in SUBSET Elements
      /\ new \cap Shown = {} /\ Shown' = Shown
  BY <1>2, PageShape DEF TInv, TypeOK, HistoryOK, PipelineOK, Shown
<1> HIDE DEF new
<1>4. Len(revealed') = Len(revealed) + 1 /\ revealed'[Len(revealed')] = new \ due
      /\ \A k \in 1..Len(revealed) : revealed'[k] = revealed[k]
  <2>1. new \ due \in SUBSET Elements
    BY <1>3
  <2> QED  BY <1>2, <1>3, <2>1
<1>5. Counted'
  <2>1. Len(reports) \in Nat /\ Len(revealed) \in Nat
    BY <1>3
  <2>2. config.effects => Len(revealed) = Len(reports)
    BY <1>2 DEF EffectInv, Counted, Acting, Unreported
  <2>3. Len(reports) <= Len(revealed) /\ (~ config.effects => reports = << >>)
    BY DEF EffectInv, Counted
  <2>4. step' \in Unreported /\ step' \notin Starting \cup (Acting \ Unreported)
    BY <1>2 DEF Unreported, Starting, Acting
  <2> QED  BY <1>2, <1>4, <2>1, <2>2, <2>3, <2>4 DEF Counted
<1>6. Compared'
  <2> SUFFICES ASSUME config.effects, documents = 0, hides = 0, ~ late
               PROVE  before \subseteq Shown /\ new \ due = (Shown \ before) \cup (due \cup new)
    BY <1>2, <1>3, <1>4 DEF Compared, Unreported
  <2>1. due = {} /\ before = Shown
    BY <1>2 DEF EffectInv, NothingDue, Compared
  <2> QED  BY <1>3, <2>1
<1>7. EffectAttributed'
  <2>1. \A k \in 1..Len(reports) : k \in 1..Len(revealed)
    BY <1>3 DEF EffectInv, Counted
  <2> QED  BY <1>2, <1>4, <2>1 DEF EffectInv, EffectAttributed
<1> QED  BY <1>5, <1>6, <1>7

LEMMA EffectReported ==
  ASSUME TInv, EffectInv, CaptureAfter
  PROVE  Counted' /\ Compared' /\ EffectAttributed'
<1>1. /\ step = "after" /\ step' \in {"finding", "acted"} /\ UNCHANGED <<config, hides, documents, late, revealed>>
      /\ reports' = IF config.effects THEN Append(reports, Shown \ before) ELSE reports
  BY DEF CaptureAfter, page, history
<1>2. revealed \in Seq(SUBSET Elements) /\ reports \in Seq(SUBSET Elements) /\ Shown \ before \in SUBSET Elements
  BY DEF TInv, TypeOK, HistoryOK, PipelineOK, Shown
<1>3. config.effects => /\ Len(reports') = Len(reports) + 1 /\ reports'[Len(reports) + 1] = Shown \ before
                        /\ \A k \in 1..Len(reports) : reports'[k] = reports[k]
                        /\ Len(revealed) = Len(reports) + 1
  BY <1>1, <1>2 DEF EffectInv, Counted, Unreported
<1>4. Len(reports) \in Nat /\ Len(revealed) \in Nat
  BY <1>2
<1>5. Counted'
  <2>1. step' \notin Unreported
    BY <1>1 DEF Unreported
  <2> QED  BY <1>1, <1>3, <1>4, <2>1 DEF EffectInv, Counted
<1>6. Compared'
  BY <1>1 DEF Compared, Unreported
<1>7. EffectAttributed'
  <2> SUFFICES ASSUME documents = 0, hides = 0, ~ late, NEW k \in 1..Len(reports') PROVE reports'[k] = revealed[k]
    BY <1>1 DEF EffectAttributed
  <2>1. \A j \in 1..Len(reports) : reports[j] = revealed[j]
    BY DEF EffectInv, EffectAttributed
  <2>2. CASE ~ config.effects
    BY <1>1, <2>1, <2>2
  <2>3. CASE config.effects
    <3>1. revealed[Len(revealed)] = Shown \ before
      BY <1>1, <2>3 DEF EffectInv, NothingDue, Compared, Unreported
    <3>2. k \in 1..Len(reports) \/ k = Len(reports) + 1
      BY <1>3, <1>4, <2>3
    <3> QED  BY <1>3, <2>1, <2>3, <3>1, <3>2
  <2> QED  BY <2>2, <2>3
<1> QED  BY <1>5, <1>6, <1>7

LEMMA EffectStep == TInv /\ EffectInv /\ [Next]_vars => EffectInv'
<1> SUFFICES ASSUME TInv, EffectInv, [Next]_vars PROVE Counted' /\ Compared' /\ EffectAttributed'
  BY NothingDueStep, DueHiddenStep DEF EffectInv
<1>1. (~ late' => ~ late) /\ (documents' = 0 => documents = 0) /\ (hides' = 0 => hides = 0) /\ config' = config
  BY Remembered
<1> DEFINE Reported == Starting \cup (Acting \ Unreported)
           Between  == {"focusing", "performing"}
<1>2. ASSUME UNCHANGED <<reports, revealed>>, step' \in Reported => step \in Reported,
             step' \in Unreported => step \in Unreported
      PROVE  Counted' /\ EffectAttributed'
  BY <1>1, <1>2 DEF EffectInv, Counted, EffectAttributed
<1>3. ASSUME UNCHANGED <<look, due, before, revealed>>, step' \in Between => step \in Between,
             step' \in Unreported => step \in Unreported
      PROVE  Compared'
  BY <1>1, <1>3 DEF EffectInv, Compared, Shown
<1> USE DEF Starting, Acting, Unreported
<1>4. CASE Interact \/ PollStrategy \/ Explain \/ LetPass \/ WaitsOver \/ Extract
  BY <1>2, <1>3, <1>4 DEF Interact, PollStrategy, Explain, LetPass, WaitsOver, Extract, Waiting, page, history
<1>5. CASE Poll \/ Scroll \/ ReadTarget \/ UploadFails \/ CallFails
  BY <1>2, <1>3, <1>5 DEF Poll, Scroll, ReadTarget, UploadFails, CallFails, page, history
<1>6. CASE StabilizePage \/ StabilizeAgain
  BY <1>2, <1>3, <1>6 DEF StabilizePage, StabilizeAgain, page, history
<1>7. CASE Focus
  BY <1>2, <1>3, <1>7 DEF Focus, history
<1>8. CASE Settle
  BY <1>2, <1>3, <1>8 DEF Settle, page
<1>9. CASE CaptureBefore
  <2>1. /\ step = "before" /\ step' \in Between /\ before' = (IF config.effects THEN Shown ELSE {})
        /\ UNCHANGED <<look, reports, revealed>>
    BY <1>9 DEF CaptureBefore, page, history
  <2>2. Compared'
    BY <1>1, <2>1 DEF Compared, Shown
  <2> QED  BY <1>2, <2>1, <2>2
<1>10. CASE Perform
  BY <1>10, EffectPerform
<1>11. CASE CaptureAfter
  BY <1>11, EffectReported
<1>12. ASSUME UNCHANGED <<step, reports, revealed>>, Compared' PROVE Counted' /\ Compared' /\ EffectAttributed'
  BY <1>2, <1>12
<1>13. CASE Refocus \/ Block
  BY <1>3, <1>12, <1>13 DEF Refocus, Block, pipeline, history
<1>14. CASE NewDocument
  <2>1. documents' # 0 /\ UNCHANGED <<step, reports, revealed>>
    BY <1>14 DEF NewDocument, pipeline, TInv, TypeOK, PageOK
  <2> QED  BY <1>12, <2>1 DEF Compared
<1>18. ASSUME NEW e \in Elements, Hide(e) PROVE Counted' /\ Compared' /\ EffectAttributed'
  <2>1. hides' # 0 /\ UNCHANGED <<step, reports, revealed>>
    BY <1>18 DEF Hide, pipeline, TInv, TypeOK, PageOK
  <2> QED  BY <1>12, <2>1 DEF Compared
<1>15. ASSUME NEW e \in Elements, Shift(e) PROVE Counted' /\ Compared' /\ EffectAttributed'
  BY <1>3, <1>12, <1>15 DEF Shift, pipeline
<1>16. ASSUME NEW e \in Elements, Reveal(e) PROVE Counted' /\ Compared' /\ EffectAttributed'
  <2>1. UNCHANGED <<step, before, reports, revealed, hides, documents, late>> /\ e \in due /\ due' = due \ {e}
    BY <1>16 DEF Reveal, pipeline
  <2>2. Shown' = Shown \cup {e} /\ e \notin Shown
    BY <1>16 DEF Reveal, Shown, TInv, TypeOK, PageOK, EffectInv, DueHidden
  <2>3. Compared'
    <3> SUFFICES ASSUME config.effects, documents = 0, hides = 0, ~ late
                 PROVE  /\ step \in Between => before = Shown'
                        /\ step \in Unreported => /\ before \subseteq Shown'
                                                  /\ revealed[Len(revealed)] = (Shown' \ before) \cup due'
      BY <1>1, <2>1 DEF Compared
    <3>1. step = "settling"
      BY <2>1 DEF EffectInv, NothingDue
    <3>2. before \subseteq Shown /\ revealed[Len(revealed)] = (Shown \ before) \cup due
      BY <3>1 DEF EffectInv, Compared
    <3> QED  BY <2>1, <2>2, <3>1, <3>2
  <2> QED  BY <1>12, <2>1, <2>3
<1>17. CASE UNCHANGED vars
  BY <1>3, <1>12, <1>17 DEF vars, pipeline, page, history
<1> QED  BY <1>4, <1>5, <1>6, <1>7, <1>8, <1>9, <1>10, <1>11, <1>13, <1>14, <1>15, <1>16, <1>17, <1>18 DEF Next, Pipeline, Page

\* Each report of an action names what that very action made appear, however many there are and
\* whatever they reveal, on a page that reacts within settle_ms, hides nothing and stays (the two calls of
\* `effects::capture` around `action::perform`).
THEOREM EffectsAttributed == Spec => []EffectAttributed
<1>1. EffectInv => EffectAttributed
  BY DEF EffectInv
<1> QED  BY <1>1, TypeInit, TypeStep, EffectInit, EffectStep, PTL DEF Spec

-----------------------------------------------------------------------------
(* The order of the interactions. *)

\* Each action is performed once, as many as the pipeline has come to.
InTurn ==
  /\ Len(hits) <= Len(Actions)
  /\ \A k \in 1..Len(hits) : hits[k].action = Actions[k]
  /\ step \in Acting \ Unreported => Len(hits) = index - 1
  /\ step \in Unreported => Len(hits) = index

LEMMA TurnInit == Init => InTurn
BY ActionsType DEF Init, InTurn, Acting, Unreported

LEMMA TurnStep == TInv /\ InTurn /\ [Next]_vars => InTurn'
<1> SUFFICES ASSUME TInv, InTurn, [Next]_vars PROVE InTurn'
  OBVIOUS
<1> DEFINE Early == Acting \ Unreported
<1>1. Len(hits) \in Nat /\ Len(Actions) \in Nat /\ index \in Nat
  BY ActionsType, GivenType DEF TInv, TypeOK, PipelineOK, HistoryOK
<1>2. ASSUME UNCHANGED <<hits, index>>, step' \in Early => step \in Early, step' \in Unreported => step \in Unreported
      PROVE  InTurn'
  BY <1>2 DEF InTurn
<1> USE DEF Acting, Unreported, Finished
<1>3. CASE StabilizePage \/ StabilizeAgain \/ Poll \/ Scroll \/ ReadTarget \/ CaptureBefore \/ Focus
  BY <1>2, <1>3 DEF StabilizePage, StabilizeAgain, Poll, Scroll, ReadTarget, CaptureBefore, Focus, history
<1>4. CASE UploadFails \/ Settle \/ PollStrategy \/ Explain \/ LetPass \/ WaitsOver \/ Extract \/ CallFails
  BY <1>2, <1>4 DEF UploadFails, Settle, PollStrategy, Explain, LetPass, WaitsOver, Extract, CallFails, Waiting,
    history
<1>5. CASE Interact
  <2>1. UNCHANGED <<hits, index>> /\ step' \in {"finding", "waiting"} /\ hits = << >> /\ index = 1
    BY <1>5 DEF Interact, TInv, Indexed, Starting
  <2> QED  BY <2>1 DEF InTurn
<1>6. CASE Perform
  <2>1. /\ step = "performing" /\ step' = "settling" /\ index' = index
        /\ \E e \in Elements \cup {"nothing"} :
             hits' = Append(hits, [action |-> Action, on |-> e, lost |-> lost, clear |-> Clear])
    BY <1>6, Performed DEF Perform, Dispatch
  <2>2. index \in 1..Len(Actions) /\ Len(hits) = index - 1
    BY <2>1 DEF InTurn, TInv, Indexed
  <2>3. hits \in Seq(Hit)
    BY DEF TInv, TypeOK, HistoryOK
  <2>4. PICK h : hits' = Append(hits, h) /\ h.action = Action
    BY <2>1
  <2>5. Len(hits') = index /\ hits'[index].action = Action /\ \A k \in 1..Len(hits) : hits'[k] = hits[k]
    BY <2>2, <2>3, <2>4, <1>1
  <2> QED  BY <2>1, <2>2, <2>5, <1>1 DEF InTurn, Action
<1>7. CASE CaptureAfter
  <2>1. /\ step = "after" /\ hits' = hits
        /\ \/ step' = "finding" /\ index' = index + 1
           \/ step' = "acted"
    BY <1>7 DEF CaptureAfter, history
  <2> QED  BY <2>1, <1>1 DEF InTurn
<1>8. CASE Page
  BY <1>2, <1>8 DEF Page, Refocus, NewDocument, Block, Reveal, Hide, Shift, pipeline, history
<1>9. CASE UNCHANGED vars
  BY <1>2, <1>9 DEF vars, pipeline, history
<1> QED  BY <1>3, <1>4, <1>5, <1>6, <1>7, <1>8, <1>9 DEF Next, Pipeline

\* The interactions are performed in the order that `into_config` puts them in, none of them twice and none
\* left out on the way, whatever the page does meanwhile (the loop of `sniff_session_with_progress`).
THEOREM PerformedInOrder == Spec => [](\A k \in 1..Len(hits) : hits[k].action = Actions[k])
<1>1. InTurn => \A k \in 1..Len(hits) : hits[k].action = Actions[k]
  BY DEF InTurn
<1> QED  BY <1>1, TypeInit, TypeStep, TurnInit, TurnStep, PTL DEF Spec

\* With the shortcuts a click is never performed after a text was typed, however --type and --click were
\* ordered on the command line (`into_config` puts the clicks first).
THEOREM ShortcutsClickFirst ==
  ASSUME Shortcuts
  PROVE  Spec => [](\A h, k \in 1..Len(hits) :
                      hits[h].action.kind = "type" /\ hits[k].action.kind = "click" => k < h)
<1>1. ASSUME TInv, InTurn
      PROVE  \A h, k \in 1..Len(hits) : hits[h].action.kind = "type" /\ hits[k].action.kind = "click" => k < h
  <2> SUFFICES ASSUME NEW h \in 1..Len(hits), NEW k \in 1..Len(hits),
                      hits[h].action.kind = "type", hits[k].action.kind = "click"
               PROVE  k < h
    OBVIOUS
  <2>1. Len(hits) \in Nat /\ Len(Actions) \in Nat
    BY <1>1, ActionsType, GivenType DEF TInv, TypeOK, HistoryOK
  <2>2. h \in 1..Len(Actions) /\ k \in 1..Len(Actions) /\ Actions[h].kind = "type" /\ Actions[k].kind = "click"
    BY <1>1, <2>1 DEF InTurn
  <2>3. ~ (Turn["type"] <= Turn["click"])
    BY DEF Turn
  <2>4. ~ (h < k)
    BY <2>2, <2>3, KindByKind
  <2> QED  BY <2>1, <2>2, <2>4
<1> QED  BY <1>1, TypeInit, TypeStep, TurnInit, TurnStep, PTL DEF Spec

-----------------------------------------------------------------------------
(* What was waited for has been there. *)

OfElement(w) == w.kind \in {"selector", "element_ready"}

\* The strategies that are through.
Passed == Len(config.wait) - Len(waits)

\* Those about an element have held since the waits began.
PassedHold ==
  step \in WaitSteps => \A k \in 1..Passed : OfElement(config.wait[k]) => SatisfiedBy(been, config.wait[k])

\* What is there now has been there.
BeenThere ==
  step \in WaitSteps =>
    \A e \in Elements : /\ look[e] = "shown" => been[e] = "shown"
                        /\ look[e] = "hidden" => been[e] \in {"hidden", "shown"}

HeldInv == /\ step \notin WaitSteps \cup Finished => waits = config.wait
           /\ step = "extracting" => waits = << >>
           /\ PassedHold /\ BeenThere

LEMMA HeldInit == Init => HeldInv
<1> SUFFICES ASSUME Init PROVE HeldInv
  OBVIOUS
<1>1. step = "loaded" /\ waits = config.wait
  BY DEF Init
<1> QED  BY <1>1 DEF HeldInv, PassedHold, BeenThere, WaitSteps

\* What is waited for, when it is an element.
LEMMA WaitTarget ==
  ASSUME TInv, NEW k \in 1..Len(config.wait), OfElement(config.wait[k])
  PROVE  config.wait[k].target \in Elements
<1>1. config.wait[k] \in [kind : Polled \ {"app_flag"}, target : Elements]
                          \cup [kind : Awaited \cup {"app_flag"}, target : {"nothing"}]
  BY WaitTypes, ElementsOfSeq DEF TInv, TypeOK
<1> QED  BY <1>1 DEF OfElement, Awaited

\* A strategy is passed: one more of the list that holds.
LEMMA HeldNext ==
  ASSUME TInv, HeldInv, step = "waiting", step' = "waiting", waits # << >>, waits' = Tail(waits),
         UNCHANGED <<config, look, been>>,
         OfElement(Head(waits)) => Satisfied(Head(waits))
  PROVE  HeldInv'
<1>1. /\ Len(config.wait) \in Nat /\ Len(waits) \in 0..Len(config.wait) /\ Len(Tail(waits)) = Len(waits) - 1
      /\ Head(waits) = config.wait[Passed + 1]
  BY WaitsLeft, WaitTypes DEF TInv, TypeOK, Passed
<1>2. Passed \in Nat /\ Passed' = Passed + 1 /\ Passed + 1 \in 1..Len(config.wait)
  <2>1. Passed = Len(config.wait) - Len(waits) /\ Passed' = Len(config.wait) - Len(Tail(waits))
    BY DEF Passed
  <2>2. Len(waits) # 0
    <3>1. waits \in Seq([kind : Polled \ {"app_flag"}, target : Elements]
                        \cup [kind : Awaited \cup {"app_flag"}, target : {"nothing"}])
      BY WaitTypes DEF TInv, TypeOK, PipelineOK
    <3> QED  BY <3>1
  <2> QED  BY <1>1, <2>1, <2>2
<1>3. ASSUME OfElement(Head(waits)) PROVE SatisfiedBy(been, Head(waits))
  <2>1. Head(waits).target \in Elements
    BY <1>1, <1>2, <1>3, WaitTarget
  <2>2. BeenThere
    BY DEF HeldInv
  <2> QED  BY <1>3, <2>1, <2>2 DEF BeenThere, WaitSteps, Satisfied, SatisfiedBy
<1>4. PassedHold'
  <2> SUFFICES ASSUME NEW k \in 1..(Passed + 1), OfElement(config.wait[k])
               PROVE  SatisfiedBy(been, config.wait[k])
    BY <1>2 DEF PassedHold, SatisfiedBy
  <2>1. CASE k = Passed + 1
    BY <1>1, <1>3, <2>1
  <2>2. CASE k \in 1..Passed
    BY <2>2 DEF HeldInv, PassedHold, WaitSteps
  <2> QED  BY <1>2, <2>1, <2>2
<1>5. BeenThere'
  BY DEF HeldInv, BeenThere, WaitSteps
<1> QED  BY <1>4, <1>5 DEF HeldInv, WaitSteps

LEMMA HeldPipeline ==
  ASSUME TInv, HeldInv, Pipeline \/ CallFails
  PROVE  HeldInv'
<1>1. /\ Len(config.wait) \in Nat
      /\ \A w : w.kind \in Awaited \cup {"app_flag"} => ~ OfElement(w)
  BY WaitTypes DEF TInv, TypeOK, Awaited, OfElement
<1>2. config' = config
  BY DEF Pipeline, StabilizePage, Interact, Poll, Scroll, ReadTarget, CaptureBefore, Focus, Perform,
     UploadFails, Settle, CaptureAfter, StabilizeAgain, PollStrategy, Explain, LetPass, WaitsOver, Extract, CallFails
<1>3. ASSUME step' \in Finished PROVE HeldInv'
  BY <1>3 DEF HeldInv, PassedHold, BeenThere, WaitSteps, Finished
<1>4. ASSUME step \notin WaitSteps \cup Finished, step' \notin WaitSteps \cup Finished, waits' = waits PROVE HeldInv'
  BY <1>2, <1>4 DEF HeldInv, PassedHold, BeenThere, WaitSteps
<1>5. ASSUME step \notin WaitSteps \cup Finished, step' = "waiting", waits' = waits, look' = look, been' = look
      PROVE  HeldInv'
  <2>1. waits = config.wait /\ Passed' = 0
    BY <1>1, <1>2, <1>5 DEF HeldInv, Passed
  <2>2. BeenThere'
    BY <1>5 DEF BeenThere
  <2> QED  BY <1>5, <2>1, <2>2 DEF HeldInv, PassedHold, WaitSteps
<1>6. ASSUME step \in WaitSteps, step' \in WaitSteps, step' = "extracting" => waits = << >>,
             UNCHANGED <<waits, look, been>>
      PROVE  HeldInv'
  BY <1>2, <1>6 DEF HeldInv, PassedHold, BeenThere, Passed, SatisfiedBy
<1>7. CASE StabilizePage \/ Scroll \/ CaptureBefore \/ Focus \/ Settle
  BY <1>4, <1>7 DEF StabilizePage, Scroll, CaptureBefore, Focus, Settle, WaitSteps, Finished
<1>8. CASE Poll \/ ReadTarget \/ CaptureAfter \/ UploadFails
  BY <1>3, <1>4, <1>8 DEF Poll, ReadTarget, CaptureAfter, UploadFails, WaitSteps, Finished
<1>9. CASE Perform
  BY <1>4, <1>9, Performed DEF Perform, Dispatch, WaitSteps, Finished
<1>10. CASE Interact \/ StabilizeAgain
  BY <1>4, <1>5, <1>10 DEF Interact, StabilizeAgain, WaitSteps, Finished, page
<1>11. CASE PollStrategy
  <2>1. /\ step = "waiting" /\ waits # << >> /\ UNCHANGED <<look, been, config>>
    BY <1>11 DEF PollStrategy, Waiting, page, history
  <2>2. PICK ready \in Answers(Head(waits)) :
          \/ ready /\ NextStrategy /\ UNCHANGED step
          \/ step' \in WaitSteps /\ step' # "extracting" /\ UNCHANGED waits
          \/ step' \in Finished
    BY <1>11, <2>1 DEF PollStrategy, WaitSteps, Finished
  <2>3. CASE ready /\ NextStrategy /\ UNCHANGED step
    <3>1. OfElement(Head(waits)) => Satisfied(Head(waits))
      BY <2>2, <2>3 DEF Answers, OfElement
    <3> QED  BY <2>1, <2>3, <3>1, HeldNext DEF NextStrategy
  <2>4. CASE step' \in WaitSteps /\ step' # "extracting" /\ UNCHANGED waits
    BY <1>6, <2>1, <2>4 DEF WaitSteps
  <2> QED  BY <1>3, <2>2, <2>3, <2>4
<1>12. CASE LetPass
  <2>1. /\ step = "waiting" /\ waits # << >> /\ ~ OfElement(Head(waits)) /\ UNCHANGED <<look, been, config>>
    BY <1>1, <1>12 DEF LetPass, Waiting, page, history
  <2>2. (NextStrategy /\ UNCHANGED step) \/ step' \in Finished
    BY <1>12 DEF LetPass, Finished
  <2> QED  BY <1>3, <2>1, <2>2, HeldNext DEF NextStrategy
<1>13. CASE WaitsOver
  BY <1>6, <1>13 DEF WaitsOver, WaitSteps, page, history
<1>14. CASE Explain \/ Extract \/ CallFails
  <2>1. step' \in Finished
    BY <1>14 DEF Explain, Extract, CallFails, Finished
  <2> QED  BY <1>3, <2>1
<1> QED  BY <1>7, <1>8, <1>9, <1>10, <1>11, <1>12, <1>13, <1>14 DEF Pipeline

LEMMA HeldPage ==
  ASSUME TInv, HeldInv, Page
  PROVE  HeldInv'
<1>1. UNCHANGED <<config, step, waits>> /\ Passed' = Passed
  BY DEF Page, Refocus, NewDocument, Block, Reveal, Hide, Shift, pipeline, Passed
<1>2. look \in [Elements -> {"absent", "hidden", "shown"}] /\ been \in [Elements -> {"absent", "hidden", "shown"}]
  BY DEF TInv, TypeOK, PageOK, HistoryOK
<1>3. ASSUME \A e \in Elements : /\ been[e] = "shown" => been'[e] = "shown"
                                 /\ been[e] = "hidden" => been'[e] \in {"hidden", "shown"},
             BeenThere'
      PROVE  HeldInv'
  <2>1. ASSUME NEW k \in 1..Passed, OfElement(config.wait[k]), SatisfiedBy(been, config.wait[k])
        PROVE  SatisfiedBy(been', config.wait[k])
    <3>1. k \in 1..Len(config.wait)
      BY WaitsLeft, WaitTypes DEF TInv, TypeOK, Passed
    <3>2. config.wait[k].target \in Elements
      BY <2>1, <3>1, WaitTarget
    <3> QED  BY <1>3, <2>1, <3>2 DEF SatisfiedBy
  <2> QED  BY <1>1, <1>3, <2>1 DEF HeldInv, PassedHold
<1>4. CASE UNCHANGED <<look, been>>
  BY <1>1, <1>3, <1>4 DEF HeldInv, BeenThere
<1>5. CASE NewDocument
  <2>1. been' = [e \in Elements |-> Most(been[e], look'[e])]
    BY <1>5 DEF NewDocument
  <2> QED  BY <1>2, <1>3, <2>1 DEF BeenThere, Most
<1>6. ASSUME NEW e \in Elements, Reveal(e) PROVE HeldInv'
  <2>1. look' = [look EXCEPT ![e] = "shown"] /\ been' = [been EXCEPT ![e] = "shown"]
    BY <1>6 DEF Reveal
  <2>2. BeenThere'
    BY <1>1, <1>2, <2>1 DEF HeldInv, BeenThere
  <2> QED  BY <1>2, <1>3, <2>1, <2>2
<1>7. ASSUME NEW e \in Elements, Hide(e) PROVE HeldInv'
  <2>1. look[e] = "shown" /\ been' = been /\ \E l \in {"hidden", "absent"} : look' = [look EXCEPT ![e] = l]
    BY <1>7 DEF Hide, Shown
  <2>2. BeenThere'
    BY <1>1, <1>2, <2>1 DEF HeldInv, BeenThere
  <2> QED  BY <1>2, <1>3, <2>1, <2>2
<1>8. CASE Refocus \/ Block
  BY <1>4, <1>8 DEF Refocus, Block, history
<1>9. ASSUME NEW e \in Elements, Shift(e) PROVE HeldInv'
  BY <1>4, <1>9 DEF Shift
<1> QED  BY <1>5, <1>6, <1>7, <1>8, <1>9 DEF Page

LEMMA HeldStep == TInv /\ HeldInv /\ [Next]_vars => HeldInv'
<1>1. ASSUME HeldInv, UNCHANGED vars PROVE HeldInv'
  BY <1>1 DEF HeldInv, PassedHold, BeenThere, Passed, SatisfiedBy, vars, pipeline, page, history
<1> QED  BY <1>1, HeldPipeline, HeldPage DEF Next

\* What is extracted has had every element that was waited for since the last action, in the state that its
\* strategy asks for, though they were looked at one after the other and the page hides and replaces things
\* meanwhile (`wait_for_page`): for any list of strategies, timeouts and reveals.
THEOREM WaitedIsThere == Spec => []WaitsMet
<1>1. ASSUME TInv, HeldInv PROVE WaitsMet
  <2> SUFFICES ASSUME step = "extracting" PROVE
                 \A k \in 1..Len(config.wait) :
                   config.wait[k].kind \in {"selector", "element_ready"} => SatisfiedBy(been, config.wait[k])
    BY DEF WaitsMet
  <2>1. Passed = Len(config.wait)
    BY <1>1, WaitTypes DEF HeldInv, Passed, TInv, TypeOK
  <2> QED  BY <1>1, <2>1 DEF HeldInv, PassedHold, OfElement, WaitSteps
<1> QED  BY <1>1, TypeInit, TypeStep, HeldInit, HeldStep, PTL DEF Spec

-----------------------------------------------------------------------------
(* The network-idle wait. *)

(* Events still to be read: what a queue says about the requests when F are in flight at its end. *)

Own(r, q)    == {k \in 1..Len(q) : q[k].req = r}
Marks(q, k)  == {i \in 1..Len(q) : q[i].kind = k}
Suffix(q, k) == SubSeq(q, k + 1, Len(q))

\* As far as q tells, r is in flight when its first event is read.
Open(r, q, F) == \/ Own(r, q) = {} /\ r \in F
                 \/ \E k \in Own(r, q) : q[k].kind = "ended" /\ \A j \in Own(r, q) : k <= j

OpenSet(q, F) == {r \in Requests : Open(r, q, F)}

\* The page announces e, and goes from F to G.
Announced(e, F, G) ==
  \/ e.kind = "sent"  /\ e.req \notin F /\ G = F \cup {e.req}
  \/ e.kind = "sent"  /\ e.req \in F /\ G = F
  \/ e.kind = "ended" /\ e.req \in F /\ G = F \ {e.req}

LEMMA SuffixFacts ==
  ASSUME NEW q \in Seq(Event), NEW k \in 0..Len(q)
  PROVE  /\ Suffix(q, k) \in Seq(Event) /\ Len(Suffix(q, k)) = Len(q) - k
         /\ \A i \in 1..(Len(q) - k) : Suffix(q, k)[i] = q[k + i]
<1>1. Len(q) \in Nat /\ k + 1 \in 1..(Len(q) + 1)
  OBVIOUS
<1>2. Suffix(q, k) \in Seq(Event)
  BY <1>1 DEF Suffix
<1>3. Len(Suffix(q, k)) = Len(q) - k
  BY <1>1 DEF Suffix
<1>4. \A i \in 1..(Len(q) - k) : Suffix(q, k)[i] = q[k + i]
  BY <1>1 DEF Suffix
<1> QED  BY <1>2, <1>3, <1>4

LEMMA SameSequence ==
  ASSUME NEW p \in Seq(Event), NEW q \in Seq(Event), Len(p) = Len(q), \A i \in 1..Len(p) : p[i] = q[i]
  PROVE  p = q
OBVIOUS

LEMMA SuffixAppend ==
  ASSUME NEW q \in Seq(Event), NEW e \in Event
  PROVE  /\ \A k \in 0..Len(q) : Suffix(Append(q, e), k) = Append(Suffix(q, k), e)
         /\ Suffix(Append(q, e), Len(q) + 1) = << >>
<1> DEFINE p == Append(q, e)
<1>1. p \in Seq(Event) /\ Len(q) \in Nat /\ Len(p) = Len(q) + 1 /\ p[Len(q) + 1] = e /\ \A i \in 1..Len(q) : p[i] = q[i]
  OBVIOUS
<1> HIDE DEF p
<1>2. ASSUME NEW k \in 0..Len(q) PROVE Suffix(p, k) = Append(Suffix(q, k), e)
  <2>1. k \in 0..Len(p)
    BY <1>1
  <2>2. /\ Suffix(p, k) \in Seq(Event) /\ Len(Suffix(p, k)) = Len(p) - k
        /\ \A i \in 1..(Len(p) - k) : Suffix(p, k)[i] = p[k + i]
    BY <1>1, <2>1, SuffixFacts
  <2>3. /\ Suffix(q, k) \in Seq(Event) /\ Len(Suffix(q, k)) = Len(q) - k
        /\ \A i \in 1..(Len(q) - k) : Suffix(q, k)[i] = q[k + i]
    BY SuffixFacts
  <2> DEFINE a == Suffix(p, k)
             b == Append(Suffix(q, k), e)
  <2>4. b \in Seq(Event) /\ Len(b) = Len(q) - k + 1 /\ b[Len(q) - k + 1] = e
        /\ \A i \in 1..(Len(q) - k) : b[i] = Suffix(q, k)[i]
    BY <1>1, <2>3
  <2> HIDE DEF b
  <2>5. ASSUME NEW i \in 1..(Len(q) - k + 1) PROVE a[i] = b[i]
    <3>1. CASE i \in 1..(Len(q) - k)
      <4>1. k + i \in 1..Len(q) /\ i \in 1..(Len(p) - k)
        BY <1>1, <3>1
      <4> QED  BY <1>1, <2>2, <2>3, <2>4, <3>1, <4>1
    <3>2. CASE i = Len(q) - k + 1
      <4>1. k + i = Len(q) + 1 /\ i \in 1..(Len(p) - k)
        BY <1>1, <3>2
      <4> QED  BY <1>1, <2>2, <2>4, <3>2, <4>1
    <3> QED  BY <1>1, <3>1, <3>2
  <2>6. a \in Seq(Event) /\ Len(a) = Len(q) - k + 1
    BY <1>1, <2>2
  <2> HIDE DEF a
  <2>7. a = b
    BY <2>4, <2>5, <2>6, SameSequence
  <2> QED  BY <2>7 DEF a, b
<1>3. Suffix(p, Len(q) + 1) = << >>
  BY <1>1 DEF Suffix
<1> QED  BY <1>2, <1>3 DEF p

LEMMA SuffixTail ==
  ASSUME NEW q \in Seq(Event), q # << >>, NEW k \in 0..(Len(q) - 1)
  PROVE  Suffix(Tail(q), k) = Suffix(q, k + 1)
<1> DEFINE t == Tail(q)
<1>1. t \in Seq(Event) /\ Len(q) \in Nat \ {0} /\ Len(t) = Len(q) - 1 /\ \A i \in 1..(Len(q) - 1) : t[i] = q[i + 1]
  OBVIOUS
<1> HIDE DEF t
<1>2. k \in 0..Len(t) /\ k + 1 \in 0..Len(q) /\ Len(t) - k = Len(q) - (k + 1)
  BY <1>1
<1>3. /\ Suffix(t, k) \in Seq(Event) /\ Len(Suffix(t, k)) = Len(t) - k
      /\ \A i \in 1..(Len(t) - k) : Suffix(t, k)[i] = t[k + i]
  BY <1>1, <1>2, SuffixFacts
<1> DEFINE k1 == k + 1
<1>4. k1 \in 0..Len(q) /\ Len(t) - k = Len(q) - k1
  BY <1>2
<1> HIDE DEF k1
<1>5. /\ Suffix(q, k1) \in Seq(Event) /\ Len(Suffix(q, k1)) = Len(q) - k1
      /\ \A i \in 1..(Len(q) - k1) : Suffix(q, k1)[i] = q[k1 + i]
  BY <1>4, SuffixFacts
<1>6. ASSUME NEW i \in 1..(Len(t) - k) PROVE Suffix(t, k)[i] = Suffix(q, k1)[i]
  <2>1. k + i \in 1..(Len(q) - 1) /\ (k + i) + 1 = k1 + i
    BY <1>1 DEF k1
  <2>2. t[k + i] = q[k1 + i]
    BY <1>1, <2>1
  <2> QED  BY <1>3, <1>4, <1>5, <2>2
<1>7. Suffix(t, k) = Suffix(q, k1)
  BY <1>3, <1>4, <1>5, <1>6, SameSequence
<1> QED  BY <1>7 DEF t, k1

LEMMA SuffixSuffix ==
  ASSUME NEW q \in Seq(Event), NEW k \in 0..Len(q), NEW j \in 0..(Len(q) - k)
  PROVE  Suffix(Suffix(q, k), j) = Suffix(q, k + j)
  BY DEF Suffix

LEMMA SuffixAll ==
  ASSUME NEW q \in Seq(Event)
  PROVE  Suffix(q, 0) = q
  BY DEF Suffix

LEMMA OwnAppend ==
  ASSUME NEW q \in Seq(Event), NEW e \in Event, NEW r
  PROVE  Own(r, Append(q, e)) = Own(r, q) \cup (IF e.req = r THEN {Len(q) + 1} ELSE {})
  BY DEF Own

LEMMA OpenAppend ==
  ASSUME NEW q \in Seq(Event), NEW e \in Event, NEW r, NEW F, NEW G,
         e.req # r => (r \in F <=> r \in G)
  PROVE  /\ e.req # r \/ Own(r, q) # {} => (Open(r, Append(q, e), G) <=> Open(r, q, F))
         /\ e.req = r /\ Own(r, q) = {} => (Open(r, Append(q, e), G) <=> e.kind = "ended")
<1> DEFINE p == Append(q, e)
<1>1. Len(q) \in Nat /\ p[Len(q) + 1] = e /\ \A k \in 1..Len(q) : p[k] = q[k]
  OBVIOUS
<1>2. Own(r, p) = Own(r, q) \cup (IF e.req = r THEN {Len(q) + 1} ELSE {})
  BY OwnAppend
<1> HIDE DEF p
<1>3. Own(r, q) \subseteq 1..Len(q)
  BY DEF Own
<1>4. CASE e.req = r /\ Own(r, q) = {}
  <2>1. Own(r, p) = {Len(q) + 1}
    BY <1>2, <1>4
  <2>2. Len(q) + 1 <= Len(q) + 1
    BY <1>1
  <2> QED  BY <1>1, <1>4, <2>1, <2>2 DEF Open, p
<1>5. CASE e.req # r \/ Own(r, q) # {}
  <2>1. ASSUME NEW k \in Own(r, q) PROVE k <= Len(q) + 1 /\ k < Len(q) + 1 /\ p[k] = q[k] /\ k \in Own(r, p)
    BY <1>1, <1>2, <1>3
  <2>2. Own(r, p) # {} <=> Own(r, q) # {}
    BY <1>2, <1>5
  <2>3. \A k \in Own(r, p) : k \in Own(r, q) \/ k = Len(q) + 1
    BY <1>2
  <2>4. Own(r, p) = {} => e.req # r
    BY <1>2
  <2>5. ASSUME NEW k \in Own(r, q), q[k].kind = "ended", \A j \in Own(r, q) : k <= j
        PROVE  Open(r, p, G)
    <3>1. \A j \in Own(r, p) : k <= j
      BY <2>1, <2>3, <2>5
    <3> QED  BY <2>1, <2>5, <3>1 DEF Open
  <2>6. ASSUME NEW k \in Own(r, p), p[k].kind = "ended", \A j \in Own(r, p) : k <= j
        PROVE  Open(r, q, F)
    <3>1. k \in Own(r, q)
      <4>1. PICK j \in Own(r, q) : TRUE
        BY <2>2, <2>6
      <4>2. k <= j /\ j < Len(q) + 1 /\ Len(q) + 1 \in Nat /\ j \in Nat
        BY <1>1, <1>3, <2>1, <2>6, <4>1
      <4>3. k # Len(q) + 1
        BY <4>2
      <4> QED  BY <2>3, <4>3
    <3> QED  BY <2>1, <2>6, <3>1 DEF Open
  <2> QED  BY <1>5, <2>2, <2>4, <2>5, <2>6 DEF Open, p
<1> QED  BY <1>4, <1>5

LEMMA OpenTail ==
  ASSUME NEW q \in Seq(Event), q # << >>, NEW r, NEW F
  PROVE  /\ Head(q).req # r => (Open(r, Tail(q), F) <=> Open(r, q, F))
         /\ Head(q).req = r => (Open(r, q, F) <=> Head(q).kind = "ended")
<1> DEFINE t == Tail(q)
<1>1. Len(q) \in Nat \ {0} /\ Len(t) = Len(q) - 1 /\ Head(q) = q[1] /\ \A k \in 1..(Len(q) - 1) : t[k] = q[k + 1]
  OBVIOUS
<1> HIDE DEF t
<1>2. ASSUME Head(q).req # r PROVE Open(r, t, F) <=> Open(r, q, F)
  <2>1. 1 \notin Own(r, q) /\ Own(r, q) \subseteq 1..Len(q) /\ Own(r, t) \subseteq 1..(Len(q) - 1)
    BY <1>1, <1>2 DEF Own
  <2>2. \A k \in 1..(Len(q) - 1) : k \in Own(r, t) <=> k + 1 \in Own(r, q)
    BY <1>1 DEF Own
  <2>3. \A k \in Own(r, q) : k - 1 \in Own(r, t) /\ t[k - 1] = q[k]
    <3> TAKE k \in Own(r, q)
    <3>1. k \in 2..Len(q) /\ k - 1 \in 1..(Len(q) - 1) /\ (k - 1) + 1 = k
      BY <1>1, <2>1
    <3> QED  BY <1>1, <2>2, <3>1
  <2>4. \A k \in Own(r, t) : k + 1 \in Own(r, q) /\ t[k] = q[k + 1]
    BY <1>1, <2>1, <2>2
  <2>5. Own(r, t) = {} <=> Own(r, q) = {}
    BY <2>3, <2>4
  <2>6. ASSUME NEW k \in Own(r, t), t[k].kind = "ended", \A j \in Own(r, t) : k <= j
        PROVE  Open(r, q, F)
    <3>1. k + 1 \in Own(r, q) /\ q[k + 1].kind = "ended"
      BY <2>4, <2>6
    <3>2. \A j \in Own(r, q) : k + 1 <= j
      BY <1>1, <2>1, <2>3, <2>6
    <3> QED  BY <3>1, <3>2 DEF Open
  <2>7. ASSUME NEW k \in Own(r, q), q[k].kind = "ended", \A j \in Own(r, q) : k <= j
        PROVE  Open(r, t, F)
    <3>1. k - 1 \in Own(r, t) /\ t[k - 1].kind = "ended"
      BY <2>3, <2>7
    <3>2. \A j \in Own(r, t) : k - 1 <= j
      BY <1>1, <2>1, <2>4, <2>7
    <3> QED  BY <3>1, <3>2 DEF Open
  <2> QED  BY <2>5, <2>6, <2>7 DEF Open
<1>3. ASSUME Head(q).req = r PROVE Open(r, q, F) <=> Head(q).kind = "ended"
  <2>1. 1 \in Own(r, q) /\ \A k \in Own(r, q) : k \in Nat /\ 1 <= k
    BY <1>1, <1>3 DEF Own
  <2> QED  BY <1>1, <2>1 DEF Open
<1> QED  BY <1>2, <1>3 DEF t

\* Requests in flight and ends still to be read: no more than the starts still to be read, and the
\* requests that had started before.
Balanced(q, F) ==
  Cardinality(F) + Cardinality(Marks(q, "ended")) <= Cardinality(Marks(q, "sent")) + Cardinality(OpenSet(q, F))

\* After its end, a request must start again before it is in flight or ends.
Closed(q, F) == \A i \in 1..Len(q) : q[i].kind = "ended" => ~ Open(q[i].req, Suffix(q, i), F)

LEMMA CountAppend ==
  ASSUME NEW q \in Seq(Event), NEW e \in Event, NEW k
  PROVE  /\ Cardinality(Marks(q, k)) \in Nat
         /\ Cardinality(Marks(Append(q, e), k)) = Cardinality(Marks(q, k)) + (IF e.kind = k THEN 1 ELSE 0)
<1>1. Len(q) \in Nat
  OBVIOUS
<1>2. IsFiniteSet(Marks(q, k)) /\ Cardinality(Marks(q, k)) \in Nat /\ Len(q) + 1 \notin Marks(q, k)
  <2>1. IsFiniteSet(1..Len(q)) /\ Marks(q, k) \in SUBSET (1..Len(q))
    BY <1>1, FS_Interval DEF Marks
  <2> QED  BY <1>1, <2>1, FS_Subset, FS_CardinalityType
<1>3. Marks(Append(q, e), k) = Marks(q, k) \cup (IF e.kind = k THEN {Len(q) + 1} ELSE {})
  BY DEF Marks
<1>4. CASE e.kind = k
  BY <1>2, <1>3, <1>4, FS_AddElement
<1>5. CASE e.kind # k
  BY <1>2, <1>3, <1>5
<1> QED  BY <1>4, <1>5

\* What an announcement does to the requests that are open.
LEMMA OpenAnnounced ==
  ASSUME NEW q \in Seq(Event), NEW e \in Event, NEW F, NEW G, Announced(e, F, G)
  PROVE  OpenSet(Append(q, e), G) =
           IF e.kind = "sent" /\ e.req \in F /\ Own(e.req, q) = {} THEN OpenSet(q, F) \ {e.req} ELSE OpenSet(q, F)
<1> DEFINE p == Append(q, e)
<1>1. e.req \in Requests
  BY DEF Event
<1>2. \A r \in Requests : r # e.req => (Open(r, p, G) <=> Open(r, q, F))
  <2>1. \A r \in Requests : r # e.req => (r \in F <=> r \in G)
    BY DEF Announced
  <2> QED  BY <2>1, OpenAppend
<1>3. Own(e.req, q) # {} => (Open(e.req, p, G) <=> Open(e.req, q, F))
  BY OpenAppend
<1>4. Own(e.req, q) = {} => (Open(e.req, p, G) <=> e.kind = "ended") /\ (Open(e.req, q, F) <=> e.req \in F)
  BY OpenAppend DEF Open
<1>5. (e.kind = "sent" \/ (e.kind = "ended" /\ e.req \in F)) /\ ~ (e.kind = "sent" /\ e.kind = "ended")
  BY DEF Announced
<1> HIDE DEF p
<1>6. CASE e.kind = "sent" /\ e.req \in F /\ Own(e.req, q) = {}
  <2>1. ~ Open(e.req, p, G)
    BY <1>4, <1>5, <1>6
  <2>2. OpenSet(p, G) = OpenSet(q, F) \ {e.req}
    BY <1>2, <2>1 DEF OpenSet
  <2> QED  BY <1>6, <2>2 DEF p
<1>7. CASE ~ (e.kind = "sent" /\ e.req \in F /\ Own(e.req, q) = {})
  <2>1. Open(e.req, p, G) <=> Open(e.req, q, F)
    BY <1>3, <1>4, <1>5, <1>7
  <2>2. OpenSet(p, G) = OpenSet(q, F)
    BY <1>2, <2>1 DEF OpenSet
  <2> QED  BY <1>7, <2>2 DEF p
<1> QED  BY <1>6, <1>7

LEMMA OpenSetFinite ==
  ASSUME IsFiniteSet(Requests), NEW q, NEW F
  PROVE  IsFiniteSet(OpenSet(q, F)) /\ Cardinality(OpenSet(q, F)) \in Nat
  BY FS_Subset, FS_CardinalityType DEF OpenSet

LEMMA AnnouncedCardinality ==
  ASSUME IsFiniteSet(Requests), NEW e \in Event, NEW F \in SUBSET Requests, NEW G, Announced(e, F, G)
  PROVE  /\ G \in SUBSET Requests /\ Cardinality(F) \in Nat /\ Cardinality(G) \in Nat
         /\ e.kind = "sent" /\ e.req \notin F => Cardinality(G) = Cardinality(F) + 1
         /\ e.kind = "sent" /\ e.req \in F => Cardinality(G) = Cardinality(F)
         /\ e.kind = "ended" => Cardinality(G) = Cardinality(F) - 1
<1>1. IsFiniteSet(F) /\ Cardinality(F) \in Nat /\ e.req \in Requests
  BY FS_Subset, FS_CardinalityType DEF Event
<1>2. G \in SUBSET Requests
  BY <1>1 DEF Announced
<1>3. Cardinality(G) \in Nat
  BY <1>2, FS_Subset, FS_CardinalityType
<1>4. e.kind = "sent" /\ e.req \notin F => Cardinality(G) = Cardinality(F) + 1
  BY <1>1, FS_AddElement DEF Announced
<1>5. e.kind = "sent" /\ e.req \in F => Cardinality(G) = Cardinality(F)
  <2>1. e.kind = "sent" /\ e.req \in F => G = F
    BY DEF Announced
  <2> QED  BY <2>1
<1>6. e.kind = "ended" => Cardinality(G) = Cardinality(F) - 1
  BY <1>1, FS_RemoveElement DEF Announced
<1> QED  BY <1>1, <1>2, <1>3, <1>4, <1>5, <1>6

LEMMA BalancedAppend ==
  ASSUME IsFiniteSet(Requests), NEW q \in Seq(Event), NEW e \in Event, NEW F \in SUBSET Requests, NEW G,
         Announced(e, F, G), Balanced(q, F)
  PROVE  Balanced(Append(q, e), G)
<1> DEFINE p == Append(q, e)
           f == Cardinality(F)
           g == Cardinality(G)
           s == Cardinality(Marks(q, "sent"))
           n == Cardinality(Marks(q, "ended"))
           o == Cardinality(OpenSet(q, F))
           o2 == Cardinality(OpenSet(p, G))
<1>1. f \in Nat /\ g \in Nat /\ s \in Nat /\ n \in Nat /\ o \in Nat /\ o2 \in Nat /\ f + n <= s + o
  BY CountAppend, OpenSetFinite, AnnouncedCardinality DEF Balanced
<1>2. /\ Cardinality(Marks(p, "sent")) = s + (IF e.kind = "sent" THEN 1 ELSE 0)
      /\ Cardinality(Marks(p, "ended")) = n + (IF e.kind = "ended" THEN 1 ELSE 0)
  BY CountAppend
<1>3. IsFiniteSet(OpenSet(q, F))
  BY OpenSetFinite
<1>4. o2 = o \/ (e.kind = "sent" /\ e.req \in F /\ o2 >= o - 1)
  <2>1. CASE e.kind = "sent" /\ e.req \in F /\ Own(e.req, q) = {}
    <3>1. OpenSet(p, G) = OpenSet(q, F) \ {e.req}
      BY <2>1, OpenAnnounced
    <3>2. o2 = IF e.req \in OpenSet(q, F) THEN o - 1 ELSE o
      BY <1>3, <3>1, FS_RemoveElement
    <3> QED  BY <1>1, <2>1, <3>2
  <2>2. CASE ~ (e.kind = "sent" /\ e.req \in F /\ Own(e.req, q) = {})
    BY <2>2, OpenAnnounced
  <2> QED  BY <2>1, <2>2
<1>5. /\ e.kind = "sent" /\ e.req \notin F => g = f + 1
      /\ e.kind = "sent" /\ e.req \in F => g = f
      /\ e.kind = "ended" => g = f - 1
      /\ e.kind = "sent" \/ e.kind = "ended"
  BY AnnouncedCardinality DEF Announced
<1> HIDE DEF f, g, s, n, o, o2, p
<1>6. g + (n + (IF e.kind = "ended" THEN 1 ELSE 0)) <= (s + (IF e.kind = "sent" THEN 1 ELSE 0)) + o2
  <2>1. CASE e.kind = "sent" /\ e.req \in F
    BY <1>1, <1>4, <1>5, <2>1
  <2>2. CASE e.kind = "sent" /\ e.req \notin F
    BY <1>1, <1>4, <1>5, <2>2
  <2>3. CASE e.kind = "ended"
    BY <1>1, <1>4, <1>5, <2>3
  <2> QED  BY <1>5, <2>1, <2>2, <2>3
<1>7. Balanced(p, G)
  BY <1>2, <1>6 DEF Balanced, g, o2
<1> QED  BY <1>7 DEF p

\* A queue of nothing: every request in flight is open.
LEMMA BalancedEmpty ==
  ASSUME IsFiniteSet(Requests), NEW F \in SUBSET Requests
  PROVE  Balanced(<< >>, F)
<1>1. OpenSet(<< >>, F) = F
  BY DEF OpenSet, Open, Own
<1>2. Marks(<< >>, "ended") = {} /\ Marks(<< >>, "sent") = {}
  BY DEF Marks
<1>3. Cardinality(F) \in Nat
  BY FS_Subset, FS_CardinalityType
<1>4. Cardinality(Marks(<< >>, "ended")) = 0 /\ Cardinality(Marks(<< >>, "sent")) = 0
  BY <1>2, FS_EmptySet
<1> QED  BY <1>1, <1>3, <1>4 DEF Balanced

LEMMA ClosedAppend ==
  ASSUME NEW q \in Seq(Event), NEW e \in Event, NEW F, NEW G, Announced(e, F, G), Closed(q, F)
  PROVE  Closed(Append(q, e), G)
<1> DEFINE p == Append(q, e)
<1>1. Len(q) \in Nat /\ Len(p) = Len(q) + 1 /\ p[Len(q) + 1] = e /\ \A i \in 1..Len(q) : p[i] = q[i] /\ q[i] \in Event
  BY ElementsOfSeq
<1>2. \A k \in 0..Len(q) : Suffix(p, k) = Append(Suffix(q, k), e) /\ Suffix(q, k) \in Seq(Event)
  BY SuffixAppend, SuffixFacts
<1>3. Suffix(p, Len(q) + 1) = << >>
  BY SuffixAppend
<1> HIDE DEF p
<1>4. ASSUME NEW i \in 1..Len(q), q[i].kind = "ended" PROVE ~ Open(q[i].req, Suffix(p, i), G)
  <2> DEFINE t == Suffix(q, i)
             r == q[i].req
  <2>1. t \in Seq(Event) /\ Suffix(p, i) = Append(t, e) /\ ~ Open(r, t, F)
    BY <1>1, <1>2, <1>4 DEF Closed
  <2> HIDE DEF t, r
  <2>2. CASE e.req # r \/ Own(r, t) # {}
    <3>1. e.req # r => (r \in F <=> r \in G)
      BY DEF Announced
    <3>2. Open(r, Append(t, e), G) <=> Open(r, t, F)
      BY <2>1, <2>2, <3>1, OpenAppend
    <3> QED  BY <2>1, <3>2 DEF r
  <2>3. CASE e.req = r /\ Own(r, t) = {}
    <3>1. r \notin F
      BY <2>1, <2>3 DEF Open
    <3>2. e.kind # "ended"
      BY <2>3, <3>1 DEF Announced
    <3>3. ~ Open(r, Append(t, e), G)
      BY <2>1, <2>3, <3>2, OpenAppend
    <3> QED  BY <2>1, <3>3 DEF r
  <2> QED  BY <2>2, <2>3
<1>5. e.kind = "ended" => ~ Open(e.req, << >>, G)
  BY DEF Announced, Open, Own
<1>6. ASSUME NEW i \in 1..Len(p), p[i].kind = "ended" PROVE ~ Open(p[i].req, Suffix(p, i), G)
  <2>1. CASE i \in 1..Len(q)
    BY <1>1, <1>4, <1>6, <2>1
  <2>2. CASE i = Len(q) + 1
    BY <1>1, <1>3, <1>5, <1>6, <2>2
  <2> QED  BY <1>1, <2>1, <2>2
<1> QED  BY <1>6 DEF Closed, p

(* The page and the waiter. *)

\* Whatever of the queue is still read, it is balanced, and its ends are followed by new starts.
Sound == /\ \A k \in 0..Len(queue) : Balanced(Suffix(queue, k), inFlightReqs)
         /\ Closed(queue, inFlightReqs)

\* The counter knows of the requests that are open, but for those that it missed.
Known == pc \in {"check", "select"} /\ ~ lagged =>
           Cardinality(OpenSet(queue, inFlightReqs)) <= inFlight + missed

IdleInv == IdleTypeOK /\ Sound /\ Known

\* Types of what the requests, the queue and the waiter's counters hold.
LEMMA IdleTypes ==
  ASSUME IdleTypeOK
  PROVE  /\ inFlightReqs \in SUBSET Requests /\ queue \in Seq(Event) /\ Len(queue) \in Nat
         /\ inFlight \in Nat /\ missed \in 0..Cardinality(Requests) /\ lagged \in BOOLEAN
<1>1. queue \in Seq(Event) /\ lagged \in BOOLEAN
  BY Zenon DEF IdleTypeOK
<1>2. inFlightReqs \in SUBSET Requests /\ inFlight \in Nat /\ missed \in 0..Cardinality(Requests)
  BY Zenon DEF IdleTypeOK
<1>3. Len(queue) \in Nat
  BY <1>1
<1> QED  BY <1>1, <1>2, <1>3

LEMMA StartMissedIsOpen ==
  \A r, q : StartMissed(r, q) <=> Open(r, q, inFlightReqs)
  BY DEF StartMissed, Open, Own

LEMMA IdleInvInit == IdleInit => IdleInv
<1> SUFFICES ASSUME IdleInit PROVE IdleInv
  OBVIOUS
<1>1. queue = << >> /\ inFlightReqs = {} /\ pc = "loading" /\ missed = 0 /\ inFlight = 0
  BY DEF IdleInit
<1>2. Cardinality(Requests) \in Nat
  BY RequestsFinite, TimesNat, FS_CardinalityType
<1>3. lagged \in BOOLEAN /\ seenAny \in BOOLEAN
  BY Zenon DEF IdleInit
<1>4. quiet = 0 /\ elapsed = 0 /\ redirects = 0
  BY DEF IdleInit
<1>5. IdleTypeOK
  <2>1. queue \in Seq(Event) /\ Len(queue) <= Capacity
    BY RequestsFinite, TimesNat, <1>1
  <2>2. quiet \in 0..(IdleTicks + GraceTicks) /\ elapsed \in 0..BudgetTicks /\ redirects \in 0..MaxRedirects
    BY RequestsFinite, TimesNat, <1>4
  <2>3. inFlightReqs \subseteq Requests /\ missed \in 0..Cardinality(Requests) /\ inFlight \in Nat
    BY <1>1, <1>2
  <2>4. pc \in {"loading", "check", "select"} \cup Over
    BY <1>1
  <2> QED  BY <1>3, <2>1, <2>2, <2>3, <2>4, Zenon DEF IdleTypeOK
<1>6. Sound
  <2>1. \A k \in 0..Len(queue) : Suffix(queue, k) = << >>
    BY <1>1 DEF Suffix
  <2>2. Balanced(<< >>, inFlightReqs)
    BY RequestsFinite, TimesNat, <1>1, BalancedEmpty
  <2>3. Closed(queue, inFlightReqs)
    BY <1>1 DEF Closed
  <2> QED  BY <2>1, <2>2, <2>3 DEF Sound
<1>7. Known
  BY <1>1 DEF Known
<1> QED  BY <1>5, <1>6, <1>7 DEF IdleInv

\* What the page does is announced; a full channel drops its oldest event.
LEMMA PageAnnounces ==
  ASSUME IdleTypeOK, Network
  PROVE  /\ \E e \in Event :
              /\ Announced(e, inFlightReqs, inFlightReqs')
              /\ \/ queue' = Append(queue, e) /\ Len(queue') <= Capacity /\ lagged' = lagged
                 \/ queue' = Tail(Append(queue, e)) /\ Len(queue) <= Capacity /\ lagged' = (pc # "loading")
         /\ UNCHANGED <<missed, pc, inFlight, seenAny, quiet, elapsed>>
         /\ redirects' \in 0..MaxRedirects
<1>1. PICK r \in Requests : Start(r) \/ Redirect(r) \/ End(r)
  BY DEF Network
<1>2. UNCHANGED <<missed, pc, inFlight, seenAny, quiet, elapsed>>
  BY <1>1 DEF Start, Redirect, End, waiter
<1>3. redirects' \in 0..MaxRedirects
  BY RequestsFinite, TimesNat, <1>1 DEF Start, Redirect, End, IdleTypeOK
<1> DEFINE ev(k) == [kind |-> k, req |-> r]
<1>4. queue \in Seq(Event) /\ Len(queue) <= Capacity /\ ev("sent") \in Event /\ ev("ended") \in Event
      /\ Capacity \in Nat /\ Len(queue) \in Nat
  BY RequestsFinite, TimesNat, IdleTypes DEF Event, IdleTypeOK
<1>5. ASSUME NEW k, Announce(k, r)
      PROVE  \/ queue' = Append(queue, ev(k)) /\ Len(queue') <= Capacity /\ lagged' = lagged
             \/ queue' = Tail(Append(queue, ev(k))) /\ Len(queue) <= Capacity /\ lagged' = (pc # "loading")
  BY <1>4, <1>5 DEF Announce
<1>6. CASE Start(r)
  <2>1. Announced(ev("sent"), inFlightReqs, inFlightReqs') /\ Announce("sent", r)
    BY <1>6 DEF Start, Announced
  <2> QED  BY <1>2, <1>3, <1>4, <1>5, <2>1
<1>7. CASE Redirect(r)
  <2>1. Announced(ev("sent"), inFlightReqs, inFlightReqs') /\ Announce("sent", r)
    BY <1>7 DEF Redirect, Announced
  <2> QED  BY <1>2, <1>3, <1>4, <1>5, <2>1
<1>8. CASE End(r)
  <2>1. Announced(ev("ended"), inFlightReqs, inFlightReqs') /\ Announce("ended", r)
    BY <1>8 DEF End, Announced
  <2> QED  BY <1>2, <1>3, <1>4, <1>5, <2>1
<1> QED  BY <1>1, <1>6, <1>7, <1>8

\* Reading on keeps a queue sound.
LEMMA SoundSuffix ==
  ASSUME NEW q \in Seq(Event), NEW F, NEW k \in 0..Len(q),
         \A j \in 0..Len(q) : Balanced(Suffix(q, j), F), Closed(q, F)
  PROVE  /\ \A j \in 0..Len(Suffix(q, k)) : Balanced(Suffix(Suffix(q, k), j), F)
         /\ Closed(Suffix(q, k), F)
<1> DEFINE t == Suffix(q, k)
<1>0. Len(q) \in Nat
  OBVIOUS
<1>1. t \in Seq(Event) /\ Len(t) = Len(q) - k /\ Len(q) \in Nat /\ \A i \in 1..(Len(q) - k) : t[i] = q[k + i]
  BY <1>0, SuffixFacts
<1>2. \A j \in 0..(Len(q) - k) : Suffix(t, j) = Suffix(q, k + j) /\ k + j \in 0..Len(q)
  BY <1>1, SuffixSuffix
<1> HIDE DEF t
<1>3. \A j \in 0..Len(t) : Balanced(Suffix(t, j), F)
  BY <1>1, <1>2
<1>4. Closed(t, F)
  <2> SUFFICES ASSUME NEW i \in 1..(Len(q) - k), t[i].kind = "ended" PROVE ~ Open(t[i].req, Suffix(t, i), F)
    BY <1>1 DEF Closed
  <2>1. k + i \in 1..Len(q) /\ t[i] = q[k + i] /\ Suffix(t, i) = Suffix(q, k + i)
    BY <1>1, <1>2
  <2> QED  BY <2>1 DEF Closed
<1> QED  BY <1>3, <1>4 DEF t

LEMMA SoundAppend ==
  ASSUME IsFiniteSet(Requests), NEW q \in Seq(Event), NEW e \in Event, NEW F \in SUBSET Requests, NEW G,
         Announced(e, F, G), \A k \in 0..Len(q) : Balanced(Suffix(q, k), F), Closed(q, F)
  PROVE  /\ \A k \in 0..Len(Append(q, e)) : Balanced(Suffix(Append(q, e), k), G)
         /\ Closed(Append(q, e), G)
<1> DEFINE p == Append(q, e)
<1>1. Len(q) \in Nat /\ Len(p) = Len(q) + 1 /\ G \in SUBSET Requests
  BY AnnouncedCardinality
<1>2. ASSUME NEW k \in 0..Len(q) PROVE Balanced(Suffix(p, k), G)
  <2>1. Suffix(p, k) = Append(Suffix(q, k), e) /\ Suffix(q, k) \in Seq(Event)
    BY SuffixAppend, SuffixFacts
  <2> QED  BY <2>1, BalancedAppend
<1>3. Suffix(p, Len(q) + 1) = << >> /\ Balanced(<< >>, G)
  BY <1>1, SuffixAppend, BalancedEmpty
<1>4. Closed(p, G)
  BY ClosedAppend
<1> HIDE DEF p
<1>5. \A k \in 0..Len(p) : k \in 0..Len(q) \/ k = Len(q) + 1
  BY <1>1
<1>6. \A k \in 0..Len(p) : Balanced(Suffix(p, k), G)
  BY <1>2, <1>3, <1>5
<1> QED  BY <1>4, <1>6 DEF p

LEMMA TailIsSuffix ==
  ASSUME NEW q \in Seq(Event), q # << >>
  PROVE  Tail(q) = Suffix(q, 1) /\ 1 \in 0..Len(q)
<1>1. Tail(q) \in Seq(Event) /\ Len(q) \in Nat \ {0}
  OBVIOUS
<1>2. Suffix(Tail(q), 0) = Suffix(q, 0 + 1)
  <2>1. 0 \in 0..(Len(q) - 1)
    BY <1>1
  <2> QED  BY <2>1, SuffixTail
<1>3. Suffix(Tail(q), 0) = Tail(q)
  BY <1>1, SuffixAll
<1>4. 0 + 1 = 1
  OBVIOUS
<1> QED  BY <1>1, <1>2, <1>3, <1>4

LEMMA PageStep ==
  ASSUME IdleInv, Network
  PROVE  IdleInv'
<1> DEFINE F == inFlightReqs
           G == inFlightReqs'
<1>1. PICK e \in Event :
        /\ Announced(e, F, G)
        /\ \/ queue' = Append(queue, e) /\ Len(queue') <= Capacity /\ lagged' = lagged
           \/ queue' = Tail(Append(queue, e)) /\ Len(queue) <= Capacity /\ lagged' = (pc # "loading")
  BY PageAnnounces DEF IdleInv
<1>2. UNCHANGED <<missed, pc, inFlight, seenAny, quiet, elapsed>> /\ redirects' \in 0..MaxRedirects
  BY PageAnnounces DEF IdleInv
<1>3. /\ F \in SUBSET Requests /\ queue \in Seq(Event) /\ Len(queue) \in Nat /\ inFlight \in Nat /\ IsFiniteSet(Requests)
      /\ missed \in 0..Cardinality(Requests) /\ Cardinality(Requests) \in Nat /\ lagged \in BOOLEAN
  BY RequestsFinite, TimesNat, IdleTypes, FS_CardinalityType DEF IdleInv
<1> DEFINE p == Append(queue, e)
<1>4. p \in Seq(Event) /\ p # << >> /\ Len(Tail(p)) = Len(queue) /\ Tail(p) \in Seq(Event)
  BY <1>3
<1>5. (\A k \in 0..Len(p) : Balanced(Suffix(p, k), G)) /\ Closed(p, G)
  BY <1>1, <1>3, SoundAppend DEF IdleInv, Sound
<1>6. OpenSet(p, G) \subseteq OpenSet(queue, F)
  <2>1. Announced(e, F, G) /\ e \in Event /\ queue \in Seq(Event)
    BY <1>1, <1>3
  <2> HIDE DEF F, G
  <2>2. OpenSet(p, G) = IF e.kind = "sent" /\ e.req \in F /\ Own(e.req, queue) = {}
                        THEN OpenSet(queue, F) \ {e.req} ELSE OpenSet(queue, F)
    BY <2>1, OpenAnnounced
  <2> QED  BY <2>2
<1>7. \/ queue' = p /\ Len(queue') <= Capacity /\ lagged' = lagged
      \/ queue' = Tail(p) /\ Len(queue) <= Capacity /\ lagged' = (pc # "loading")
  BY <1>1
<1> HIDE DEF p
<1>8. Sound'
  <2>1. CASE queue' = p
    BY <1>5, <2>1 DEF Sound
  <2>2. CASE queue' = Tail(p)
    <3>1. Tail(p) = Suffix(p, 1) /\ 1 \in 0..Len(p)
      BY <1>4, TailIsSuffix
    <3>2. (\A j \in 0..Len(Suffix(p, 1)) : Balanced(Suffix(Suffix(p, 1), j), G)) /\ Closed(Suffix(p, 1), G)
      BY <1>4, <1>5, <3>1, SoundSuffix
    <3> QED  BY <2>2, <3>1, <3>2 DEF Sound
  <2> QED  BY <1>7, <2>1, <2>2
<1>9. Known'
  <2> SUFFICES ASSUME pc \in {"check", "select"}, ~ lagged'
               PROVE  Cardinality(OpenSet(queue', G)) <= inFlight + missed
    BY <1>2 DEF Known
  <2>1. queue' = p /\ lagged' = lagged
    BY <1>7
  <2>2. Cardinality(OpenSet(queue, F)) <= inFlight + missed
    BY <2>1 DEF IdleInv, Known
  <2>3. /\ Cardinality(OpenSet(p, G)) <= Cardinality(OpenSet(queue, F))
        /\ Cardinality(OpenSet(p, G)) \in Nat /\ Cardinality(OpenSet(queue, F)) \in Nat
    BY <1>3, <1>6, OpenSetFinite, FS_Subset
  <2> QED  BY <1>3, <2>1, <2>2, <2>3
<1>10. IdleTypeOK'
  <2>1. queue' \in Seq(Event) /\ Len(queue') <= Capacity
    BY <1>1, <1>4 DEF p
  <2>2. lagged' \in BOOLEAN
    BY <1>3, <1>7
  <2>3. G \in SUBSET Requests
    BY <1>1, <1>3, AnnouncedCardinality
  <2> HIDE DEF G
  <2>4. /\ pc' \in {"loading", "check", "select"} \cup Over /\ inFlight' \in Nat /\ seenAny' \in BOOLEAN
        /\ quiet' \in 0..(IdleTicks + GraceTicks) /\ elapsed' \in 0..BudgetTicks
        /\ missed' \in 0..Cardinality(Requests)
    BY <1>2, Zenon DEF IdleInv, IdleTypeOK
  <2> QED  BY <1>2, <2>1, <2>2, <2>3, <2>4, Zenon DEF IdleTypeOK, G
<1> QED  BY <1>8, <1>9, <1>10 DEF IdleInv

LEMMA SubscribeStep ==
  ASSUME IdleInv, Subscribe
  PROVE  IdleInv'
<1> DEFINE F == inFlightReqs
<1>1. PICK k \in 0..Len(queue) :
        queue' = Suffix(queue, k) /\ missed' = Cardinality({r \in Requests : StartMissed(r, Suffix(queue, k))})
  BY DEF Subscribe, Suffix
<1>2. pc' = "check" /\ UNCHANGED <<inFlightReqs, redirects, lagged, inFlight, seenAny, quiet, elapsed>>
  BY DEF Subscribe, requests
<1>3. /\ F \in SUBSET Requests /\ queue \in Seq(Event) /\ Len(queue) \in Nat /\ inFlight \in Nat /\ IsFiniteSet(Requests)
      /\ Cardinality(Requests) \in Nat
  BY RequestsFinite, TimesNat, IdleTypes, FS_CardinalityType DEF IdleInv
<1>4. missed' = Cardinality(OpenSet(queue', F))
  <2>1. {r \in Requests : StartMissed(r, queue')} = OpenSet(queue', F)
    BY StartMissedIsOpen DEF OpenSet
  <2> QED  BY <1>1, <2>1
<1>5. Sound'
  BY <1>1, <1>2, <1>3, SoundSuffix DEF IdleInv, Sound
<1>6. Cardinality(OpenSet(queue', F)) \in 0..Cardinality(Requests)
  <2>1. OpenSet(queue', F) \in SUBSET Requests
    BY DEF OpenSet
  <2>2. Cardinality(OpenSet(queue', F)) \in Nat /\ Cardinality(OpenSet(queue', F)) <= Cardinality(Requests)
    BY <1>3, <2>1, OpenSetFinite, FS_Subset
  <2> QED  BY <1>3, <2>2
<1>7. Known'
  <2>1. missed' \in Nat /\ inFlight' \in Nat /\ missed' <= inFlight' + missed'
    BY <1>2, <1>3, <1>4, <1>6
  <2> QED  BY <1>2, <1>4, <2>1 DEF Known
<1>8. IdleTypeOK'
  <2>1. queue' \in Seq(Event) /\ Len(queue') <= Capacity
    <3>1. Suffix(queue, k) \in Seq(Event) /\ Len(Suffix(queue, k)) = Len(queue) - k
      BY <1>3, SuffixFacts
    <3>2. Len(queue) <= Capacity /\ Capacity \in Nat
      BY RequestsFinite, TimesNat DEF IdleInv, IdleTypeOK
    <3> QED  BY <1>1, <1>3, <3>1, <3>2
  <2>2. missed' \in 0..Cardinality(Requests)
    BY <1>4, <1>6
  <2>3. pc' \in {"loading", "check", "select"} \cup Over
    BY <1>2
  <2> QED  BY <1>2, <2>1, <2>2, <2>3, Zenon DEF IdleInv, IdleTypeOK
<1> QED  BY <1>5, <1>7, <1>8 DEF IdleInv

LEMMA ReceiveStep ==
  ASSUME IdleInv, NEW d \in {0, 1}, Receive(d)
  PROVE  IdleInv'
<1> DEFINE F == inFlightReqs
           e == Head(queue)
           t == Tail(queue)
<1>1. /\ pc = "select" /\ pc' = "check" /\ ~ lagged /\ queue # << >> /\ queue' = t /\ Count(e)
      /\ quiet' = 0 /\ elapsed' = Elapsed(elapsed + d) /\ UNCHANGED <<inFlightReqs, redirects, lagged, missed>>
  BY DEF Receive, requests
<1>2. /\ F \in SUBSET Requests /\ queue \in Seq(Event) /\ Len(queue) \in Nat \ {0} /\ inFlight \in Nat /\ IsFiniteSet(Requests)
      /\ missed \in Nat /\ e \in Event /\ t \in Seq(Event) /\ Len(t) = Len(queue) - 1 /\ e = queue[1]
  <2>1. /\ F \in SUBSET Requests /\ queue \in Seq(Event) /\ Len(queue) \in Nat /\ inFlight \in Nat /\ IsFiniteSet(Requests)
        /\ missed \in Nat
    BY RequestsFinite, TimesNat, IdleTypes, FS_CardinalityType DEF IdleInv
  <2> QED  BY <1>1, <2>1
<1>3. t = Suffix(queue, 1) /\ 1 \in 0..Len(queue)
  BY <1>1, <1>2, TailIsSuffix
<1> HIDE DEF e, t
<1>4. e.req \in Requests /\ (e.kind = "sent" \/ e.kind = "ended")
  BY <1>2 DEF Event
<1>5. Sound'
  <2>1. (\A j \in 0..Len(Suffix(queue, 1)) : Balanced(Suffix(Suffix(queue, 1), j), F)) /\ Closed(Suffix(queue, 1), F)
    BY <1>2, <1>3, SoundSuffix DEF IdleInv, Sound
  <2> QED  BY <1>1, <1>3, <2>1 DEF Sound
<1>6. \A r \in Requests : r # e.req => (Open(r, t, F) <=> Open(r, queue, F))
  BY <1>1, <1>2, OpenTail DEF e, t
<1>7. Open(e.req, queue, F) <=> e.kind = "ended"
  BY <1>1, <1>2, OpenTail DEF e
<1>8. e.kind = "ended" => ~ Open(e.req, t, F)
  <2>1. 1 \in 1..Len(queue)
    BY <1>2
  <2> QED  BY <1>2, <1>3, <2>1 DEF IdleInv, Sound, Closed
<1>9. /\ IsFiniteSet(OpenSet(queue, F)) /\ Cardinality(OpenSet(queue, F)) \in Nat /\ Cardinality(OpenSet(t, F)) \in Nat
      /\ Cardinality(OpenSet(queue, F)) <= inFlight + missed
  BY <1>1, <1>2, OpenSetFinite DEF IdleInv, Known
<1>10. Cardinality(OpenSet(t, F)) <= inFlight' + missed /\ inFlight' \in Nat /\ seenAny' \in BOOLEAN
  <2>1. CASE e.kind = "ended"
    <3>1. OpenSet(t, F) = OpenSet(queue, F) \ {e.req} /\ e.req \in OpenSet(queue, F)
      BY <1>4, <1>6, <1>7, <1>8, <2>1 DEF OpenSet
    <3>2. Cardinality(OpenSet(t, F)) = Cardinality(OpenSet(queue, F)) - 1
      BY <1>9, <3>1, FS_RemoveElement
    <3>3. inFlight' = (IF inFlight < 1 THEN 0 ELSE inFlight - 1) /\ seenAny' = seenAny
      BY <1>1, <2>1 DEF Count, Monus
    <3>4. seenAny \in BOOLEAN
      BY Zenon DEF IdleInv, IdleTypeOK
    <3> QED  BY <1>2, <1>9, <3>2, <3>3, <3>4
  <2>2. CASE e.kind = "sent"
    <3>1. OpenSet(t, F) \subseteq OpenSet(queue, F) \cup {e.req}
      BY <1>6 DEF OpenSet
    <3>2. /\ Cardinality(OpenSet(queue, F) \cup {e.req}) <= Cardinality(OpenSet(queue, F)) + 1
          /\ IsFiniteSet(OpenSet(queue, F) \cup {e.req})
      <4> DEFINE O == OpenSet(queue, F)
      <4> HIDE DEF O
      <4>1. IsFiniteSet(O \cup {e.req}) /\ Cardinality(O) \in Nat
            /\ Cardinality(O \cup {e.req}) = (IF e.req \in O THEN Cardinality(O) ELSE Cardinality(O) + 1)
        BY <1>9, FS_AddElement DEF O
      <4> QED  BY <4>1 DEF O
    <3>3. /\ Cardinality(OpenSet(t, F)) <= Cardinality(OpenSet(queue, F) \cup {e.req})
          /\ Cardinality(OpenSet(queue, F) \cup {e.req}) \in Nat
      BY <3>1, <3>2, FS_Subset, FS_CardinalityType
    <3>4. inFlight' = inFlight + 1 /\ seenAny' = TRUE
      BY <1>1, <2>2 DEF Count
    <3> QED  BY <1>2, <1>9, <3>2, <3>3, <3>4
  <2> QED  BY <1>4, <2>1, <2>2
<1>11. Known'
  BY <1>1, <1>10 DEF Known
<1>12. IdleTypeOK'
  <2>1. queue' \in Seq(Event)
    BY <1>1, <1>2
  <2>2. Len(queue') <= Capacity
    <3>1. Len(queue) <= Capacity /\ Capacity \in Nat
      BY RequestsFinite, TimesNat DEF IdleInv, IdleTypeOK
    <3> QED  BY <1>1, <1>2, <3>1
  <2>3. elapsed' \in 0..BudgetTicks /\ quiet' \in 0..(IdleTicks + GraceTicks)
    BY RequestsFinite, TimesNat, <1>1 DEF Elapsed, AtMost, IdleInv, IdleTypeOK
  <2>4. pc' \in {"loading", "check", "select"} \cup Over
    BY <1>1
  <2> QED  BY <1>1, <1>10, <2>1, <2>2, <2>3, <2>4, Zenon DEF IdleInv, IdleTypeOK
<1> QED  BY <1>5, <1>11, <1>12 DEF IdleInv

LEMMA IdleInvStep == IdleInv /\ [IdleNext]_idleVars => IdleInv'
<1> SUFFICES ASSUME IdleInv, [IdleNext]_idleVars PROVE IdleInv'
  OBVIOUS
<1>1. ASSUME UNCHANGED <<inFlightReqs, redirects, queue, lagged, missed, inFlight, seenAny>>,
             pc' \in {"check", "select"} => pc \in {"check", "select"},
             pc' \in {"loading", "check", "select"} \cup Over,
             quiet' \in 0..(IdleTicks + GraceTicks), elapsed' \in 0..BudgetTicks
      PROVE  IdleInv'
  <2>1. Sound' /\ Known'
    BY <1>1 DEF IdleInv, Sound, Known
  <2>2. IdleTypeOK'
    BY <1>1, Zenon DEF IdleInv, IdleTypeOK
  <2> QED  BY <2>1, <2>2 DEF IdleInv
<1>2. /\ quiet \in 0..(IdleTicks + GraceTicks) /\ elapsed \in 0..BudgetTicks
      /\ pc \in {"loading", "check", "select"} \cup Over
  BY Zenon DEF IdleInv, IdleTypeOK
<1>3. IdleTicks \in Nat /\ GraceTicks \in Nat /\ BudgetTicks \in Nat
  BY RequestsFinite, TimesNat
<1>4. CASE ReturnIdle \/ Check \/ ReceiveLagged
  BY <1>1, <1>2, <1>4 DEF ReturnIdle, Check, ReceiveLagged, requests, Over
<1>5. CASE Sleep
  <2>1. quiet' \in 0..(IdleTicks + GraceTicks) /\ elapsed' \in 0..BudgetTicks
    BY <1>2, <1>3, <1>5 DEF Sleep, Quiet, Elapsed, AtMost
  <2> QED  BY <1>1, <1>5, <2>1 DEF Sleep, requests
<1>6. CASE UNCHANGED idleVars
  BY <1>1, <1>2, <1>6 DEF idleVars, requests, waiter
<1> QED  BY <1>4, <1>5, <1>6, PageStep, SubscribeStep, ReceiveStep DEF IdleNext, Waiter

\* Types of the page's requests, of the queue between and of the waiter.
THEOREM IdleTypeCorrect ==
  IdleSpec => []IdleTypeOK
<1>1. IdleInv => IdleTypeOK
  BY DEF IdleInv
<1> QED  BY <1>1, IdleInvInit, IdleInvStep, PTL DEF IdleSpec

LEMMA InvConservative ==
  ASSUME IdleInv PROVE CounterConservative
<1> SUFFICES ASSUME pc \in {"check", "select"}, ~ lagged
             PROVE  Cardinality(inFlightReqs) + Unread("ended") <= inFlight + Unread("sent") + missed
  BY DEF CounterConservative
<1>1. /\ inFlightReqs \in SUBSET Requests /\ queue \in Seq(Event) /\ Len(queue) \in Nat /\ inFlight \in Nat
      /\ missed \in Nat /\ IsFiniteSet(Requests)
  BY RequestsFinite, TimesNat, IdleTypes, FS_CardinalityType DEF IdleInv
<1>2. \A k : Unread(k) = Cardinality(Marks(queue, k))
  BY DEF Unread, Marks
<1>3. Balanced(queue, inFlightReqs)
  <2>1. 0 \in 0..Len(queue) /\ Suffix(queue, 0) = queue
    BY <1>1, SuffixAll
  <2> QED  BY <2>1 DEF IdleInv, Sound
<1>4. Cardinality(OpenSet(queue, inFlightReqs)) <= inFlight + missed
  BY DEF IdleInv, Known
<1>5. /\ Cardinality(inFlightReqs) \in Nat /\ Cardinality(OpenSet(queue, inFlightReqs)) \in Nat
      /\ Cardinality(Marks(queue, "sent")) \in Nat /\ Cardinality(Marks(queue, "ended")) \in Nat
  <2>1. \A k : IsFiniteSet(Marks(queue, k))
    <3>1. IsFiniteSet(1..Len(queue)) /\ \A k : Marks(queue, k) \in SUBSET (1..Len(queue))
      BY <1>1, FS_Interval DEF Marks
    <3> QED  BY <3>1, FS_Subset
  <2> QED  BY <1>1, <2>1, OpenSetFinite, FS_Subset, FS_CardinalityType
<1> QED  BY <1>1, <1>2, <1>3, <1>4, <1>5 DEF Balanced

\* For any requests, redirects, drops and times: the waiter counts no fewer requests than are in flight,
\* but for those that started before it subscribed and the news still on its way (`wait_network_idle`).
THEOREM CountedConservatively ==
  IdleSpec => []CounterConservative
<1>1. IdleInv => CounterConservative
  BY InvConservative
<1> QED  BY <1>1, IdleInvInit, IdleInvStep, PTL DEF IdleSpec

\* A waiter that missed no start calls the page idle by its counter only if there is news of every request
\* in flight that it has still to read.
THEOREM IdleWhenCounted ==
  IdleSpec => IdleIsIdle
<1> DEFINE News(r) == \E k \in 1..Len(queue) : queue[k] = [kind |-> "sent", req |-> r]
           Step == pc = "check" /\ pc' = "idle" /\ CountedIdle /\ missed = 0 /\ ~ lagged =>
                     \A r \in inFlightReqs : News(r)
<1>1. ASSUME IdleInv, pc = "check", CountedIdle, missed = 0, ~ lagged, NEW r \in inFlightReqs
      PROVE  News(r)
  <2>1. /\ r \in Requests /\ queue \in Seq(Event) /\ Len(queue) \in Nat /\ inFlight = 0
        /\ IsFiniteSet(Requests)
    BY RequestsFinite, TimesNat, <1>1, IdleTypes DEF IdleInv, CountedIdle
  <2>2. OpenSet(queue, inFlightReqs) = {}
    <3>1. Cardinality(OpenSet(queue, inFlightReqs)) = 0 /\ IsFiniteSet(OpenSet(queue, inFlightReqs))
      BY <1>1, <2>1, OpenSetFinite DEF IdleInv, Known
    <3> QED  BY <3>1, FS_EmptySet
  <2>3. ~ Open(r, queue, inFlightReqs)
    BY <2>1, <2>2 DEF OpenSet
  <2>4. Own(r, queue) # {} /\ Own(r, queue) \subseteq Nat
    BY <1>1, <2>3 DEF Open, Own
  <2>5. PICK k \in Own(r, queue) : \A j \in Own(r, queue) : k <= j
    <3>1. PICK k \in Own(r, queue) : \A j \in Own(r, queue) : ~ (<<j, k>> \in OpToRel(<, Nat))
      BY <2>4, WFMin, NatLessThanWellFounded
    <3>2. \A j \in Own(r, queue) : ~ (j < k)
      BY <2>4, <3>1 DEF OpToRel
    <3> QED  BY <2>4, <3>2
  <2>6. k \in 1..Len(queue) /\ queue[k] \in Event /\ queue[k].req = r /\ queue[k].kind # "ended"
    BY <2>1, <2>3, <2>5, ElementsOfSeq DEF Own, Open
  <2> QED  BY <2>6 DEF Event
<1>2. IdleInv /\ [IdleNext]_idleVars => [Step]_idleVars
  BY <1>1
<1> QED  BY <1>2, IdleInvInit, IdleInvStep, PTL DEF IdleSpec, IdleIsIdle
=============================================================================
