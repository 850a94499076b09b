---------------------------- MODULE PagePipeline ----------------------------
(***************************************************************************)
(* One run of the capture pipeline                                         *)
(* (crates/sniff-engine/src/sniffer.rs, sniff_session_with_progress) from  *)
(* the loaded page to the extracted one, with its actions                  *)
(* (crates/sniff-engine/src/action.rs) against a page that moves, covers,  *)
(* hides and reveals things, takes the focus and replaces its document     *)
(* while the pipeline waits for one of its answers.                        *)
(*                                                                         *)
(* The viewport has two places, its centre and the rest of it; a click on  *)
(* a place hits something that is drawn there.                             *)
(***************************************************************************)
EXTENDS Integers, Sequences, FiniteSets

CONSTANTS Given,         \* the interactions as the user wrote them
          Shortcuts,     \* whether as --click, --hover, --type, --upload
          Elements,      \* the elements they are about
          Looks,         \* what a freshly loaded document may look like
          Reveals,       \* element -> the elements that acting on it reveals
          WaitLists,     \* the lists of wait strategies that there may be
          MaxPolls,      \* timeout_ms, in polls
          MaxChanges     \* bound: what the page does of its own: it moves things or the focus,
                         \* hides something, or goes on to another document

Kinds == {"click", "hover", "type", "upload"}

\* WaitStrategy: those that ask the page again and again, and the others.
Polled  == {"selector", "element_ready", "app_flag"}
Awaited == {"fonts_loaded", "network_idle", "delay"}

ASSUME GivenActions == /\ Given \in Seq([kind : Kinds, target : Elements])
                       /\ Shortcuts \in BOOLEAN
ASSUME PageShape    == /\ Looks \subseteq [Elements -> {"absent", "hidden", "shown"}]
                       /\ Reveals \in [Elements -> SUBSET Elements]
                       /\ IsFiniteSet(Elements) /\ "nothing" \notin Elements
ASSUME Strategies   == WaitLists \subseteq Seq([kind : Polled \ {"app_flag"}, target : Elements]
                                            \cup [kind : Awaited \cup {"app_flag"}, target : {"nothing"}])
ASSUME BoundsNat    == MaxPolls \in Nat /\ MaxChanges \in Nat

VARIABLES
  config,    \* whether it stabilizes the page and reports effects, and what it waits for
  step,      \* where the pipeline is
  index,     \* the action it is at
  polls,     \* polls of the action's target, or for the strategy, so far
  waits,     \* the wait strategies left
  center,    \* target.center: where the target was drawn when its rect was read
  before,    \* what the first effect capture found shown
  reports,   \* action_reports: what each of them says appeared
  progress,  \* the last progress reported, in percent
  look,      \* element -> absent, hidden or shown
  place,     \* element -> center, aside (elsewhere in the viewport) or away
  focus,     \* the focused element
  blocked,   \* a dialog is open
  due,       \* elements about to be revealed
  shifts, hides, documents,
  late,      \* the page has reacted to an action after its settle_ms
  lost,      \* what happened since the target's rect was read, or it was focused: the page moved
             \* things ("place"), the target did not take the focus or lost it again ("focus")
  been,      \* element -> the most that it has been since the waits began
  hits,      \* for each action performed: the action, what it hit, what was lost, and whether
             \* the target was in view with nothing else drawn where it was
  revealed   \* for each action performed: what it revealed that was not shown

pipeline == <<config, step, index, polls, waits, center, before, reports, progress>>
page     == <<look, place, focus, blocked, due, shifts, hides, documents>>
history  == <<late, lost, been, hits, revealed>>
vars     == <<pipeline, page, history>>

\* The ways to end: with SniffError::NoMatch or ::Timeout of a wait, or another error.
Finished == {"done", "no_match", "timeout", "failed"}
Places   == {"center", "aside", "away"}

-----------------------------------------------------------------------------
(* The interactions. *)

\* into_config: the shortcuts are put together kind by kind, each kind in the order given.
Turn == [click |-> 1, hover |-> 2, type |-> 3, upload |-> 4]

NotAfter(i, j) == \/ Turn[Given[i].kind] < Turn[Given[j].kind]
                  \/ Given[i].kind = Given[j].kind /\ i <= j

Position(j) == Cardinality({i \in DOMAIN Given : NotAfter(i, j)})

Actions ==
  IF Shortcuts THEN [k \in DOMAIN Given |-> Given[CHOOSE j \in DOMAIN Given : Position(j) = k]]
               ELSE Given

Action == Actions[index]
Target == Action.target

Shown == {e \in Elements : look[e] = "shown"}

\* Where things may be drawn: what is shown, anywhere, one thing over the other or not.
Laid(l) == {p \in [Elements -> Places] : \A e \in Elements : p[e] # "away" => l[e] = "shown"}

\* A document just loaded, nothing of which has been scrolled to.
FreshPlace(l) == [e \in Elements |-> IF l[e] = "shown" THEN "aside" ELSE "away"]

\* navigate has returned.
Init ==
  /\ config \in [stabilize : BOOLEAN, effects : BOOLEAN, wait : WaitLists]
  /\ step = "loaded"
  /\ index = 1
  /\ polls = 0
  /\ waits = config.wait
  /\ center = "away"
  /\ before = {}
  /\ reports = << >>
  /\ progress = 20
  /\ look \in Looks
  /\ place = FreshPlace(look)
  /\ focus = "nothing"
  /\ blocked = FALSE
  /\ due = {}
  /\ shifts = 0
  /\ hides = 0
  /\ documents = 0
  /\ late = FALSE
  /\ lost = {}
  /\ been = look
  /\ hits = << >>
  /\ revealed = << >>

-----------------------------------------------------------------------------
(* sniff_session_with_progress *)

\* setEmulatedMedia, STABILIZE_JS: what they keep from moving is the page's affair.
StabilizePage ==
  /\ step = "loaded" /\ (config.stabilize => ~ blocked)
  /\ step' = "stable"
  /\ progress' = 40
  /\ UNCHANGED <<config, index, polls, waits, center, before, reports, page, history>>

\* Phase::Interacting, when there are actions.
Interact ==
  /\ step = "stable"
  /\ IF Actions = << >> THEN step' = "waiting" /\ UNCHANGED progress
                        ELSE step' = "finding" /\ progress' = 35
  /\ been' = look
  /\ UNCHANGED <<config, index, polls, waits, center, before, reports, page, late, lost, hits,
                 revealed>>

(* action::prepare *)

\* An upload's target need not be displayed.
Ready == look[Target] = "shown" \/ (Action.kind = "upload" /\ look[Target] = "hidden")

\* Mutated: the deadline is never looked at
PollForEver ==
  /\ step = "finding" /\ ~ blocked
  /\ step' = IF Ready THEN "scrolling" ELSE "finding"
  /\ polls' = IF polls < MaxPolls THEN polls + 1 ELSE polls
  /\ UNCHANGED <<config, index, waits, center, before, reports, progress, page, history>>

\* wait_for_target: evaluate, then look at the deadline, then sleep.
Poll ==
  /\ step = "finding" /\ ~ blocked
  /\ \/ Ready /\ step' = "scrolling" /\ UNCHANGED polls
     \/ ~ Ready /\ polls < MaxPolls /\ polls' = polls + 1 /\ UNCHANGED step
     \/ ~ Ready /\ polls = MaxPolls /\ step' = "failed" /\ UNCHANGED polls
  /\ UNCHANGED <<config, index, waits, center, before, reports, progress, page, history>>

\* scrollIntoView({block: 'center'}): e comes to the centre, unless it does not scroll; what else
\* is in view then, or drawn over it, is not looked at.
ScrollTo(e) ==
  IF look[e] # "shown" THEN UNCHANGED place
  ELSE \E over \in SUBSET (Shown \ {e}), p \in {"center", place[e]} :
         place' = [f \in Elements |-> IF f = e THEN p ELSE IF f \in over THEN "center"
                                      ELSE IF f \in Shown THEN "aside" ELSE "away"]

\* Mutated: the rect is read, and then the target is scrolled into view
ScrollAfterReading ==
  /\ step = "scrolling" /\ ~ blocked
  /\ center' = place[Target]
  /\ ScrollTo(Target)
  /\ lost' = {}
  /\ step' = "before"
  /\ UNCHANGED <<config, index, polls, waits, before, reports, progress, look, focus, blocked, due,
                 shifts, hides, documents, late, been, hits, revealed>>

Scroll ==
  /\ step = "scrolling" /\ ~ blocked
  /\ ScrollTo(Target)
  /\ step' = "reading"
  /\ UNCHANGED <<config, index, polls, waits, center, before, reports, progress, look, focus, blocked,
                 due, shifts, hides, documents, history>>

\* The rect is read once the scroll has settled; only an upload can do without one.
ReadTarget ==
  /\ step = "reading" /\ ~ blocked
  /\ center' = place[Target]
  /\ lost' = {}
  /\ step' = IF look[Target] = "shown" \/ Action.kind = "upload" THEN "before" ELSE "failed"
  /\ UNCHANGED <<config, index, polls, waits, before, reports, progress, page, late, been, hits,
                 revealed>>

(* effects::capture, action::perform *)

\* Mutated: the page before the first action is what every report compares with
CaptureOnlyFirst ==
  /\ step = "before" /\ (config.effects => ~ blocked)
  /\ before' = IF config.effects /\ index = 1 THEN Shown ELSE before
  /\ step' = IF Action.kind = "type" THEN "focusing" ELSE "performing"
  /\ UNCHANGED <<config, index, polls, waits, center, reports, progress, page, history>>

CaptureBefore ==
  /\ step = "before" /\ (config.effects => ~ blocked)
  /\ before' = IF config.effects THEN Shown ELSE {}
  /\ step' = IF Action.kind = "type" THEN "focusing" ELSE "performing"
  /\ UNCHANGED <<config, index, polls, waits, center, reports, progress, page, history>>

Drawn(p) == {e \in Shown : place[e] = p}

\* The target is in view, and nothing else is drawn where it is.
Clear == place[Target] # "away" /\ Drawn(place[Target]) = {Target}

\* The action reaches e, or nothing: the page is about to reveal something.
Dispatch(e) ==
  LET new == IF e = "nothing" THEN {} ELSE Reveals[e] \ Shown
  IN  /\ due' = due \cup new
      /\ hits' = Append(hits, [action |-> Action, on |-> e, lost |-> lost, clear |-> Clear])
      /\ revealed' = Append(revealed, new \ due)
      /\ step' = "settling"

\* focus_expr: not every element takes the focus, and whether this one has is not looked at.
Focus ==
  /\ step = "focusing" /\ ~ blocked
  /\ \/ look[Target] = "shown" /\ focus' = Target /\ lost' = lost \ {"focus"}
     \/ UNCHANGED focus /\ lost' = lost \cup {"focus"}
  /\ step' = "performing"
  /\ UNCHANGED <<config, index, polls, waits, center, before, reports, progress, look, place, blocked,
                 due, shifts, hides, documents, late, been, hits, revealed>>

\* A click goes to what is drawn at the target's centre as it was when it was read, a
\* text to what has the focus, an upload to what its selector matches now.
Perform ==
  /\ step = "performing" /\ ~ blocked
  /\ \/ /\ Action.kind \in {"click", "hover"}
        /\ IF center = "away" \/ Drawn(center) = {} THEN Dispatch("nothing")
           ELSE \E e \in Drawn(center) : Dispatch(e)
     \/ /\ Action.kind = "type"
        /\ Dispatch(focus)
     \/ /\ Action.kind = "upload"
        /\ look[Target] # "absent"
        /\ Dispatch(Target)
  /\ UNCHANGED <<config, index, polls, waits, center, before, reports, progress, look, place, focus,
                 blocked, shifts, hides, documents, late, lost, been>>

\* DOM.querySelector matches nothing.
UploadFails ==
  /\ step = "performing" /\ ~ blocked
  /\ Action.kind = "upload" /\ look[Target] = "absent"
  /\ step' = "failed"
  /\ UNCHANGED <<config, index, polls, waits, center, before, reports, progress, page, history>>

\* settle_ms is over, whether or not the page has shown all it is about to.
Settle ==
  /\ step = "settling"
  /\ late' = (late \/ due # {})
  /\ step' = "after"
  /\ UNCHANGED <<config, index, polls, waits, center, before, reports, progress, page, lost, been, hits, revealed>>

\* The second capture and its report; on to the next action.
CaptureAfter ==
  /\ step = "after" /\ (config.effects => ~ blocked)
  /\ reports' = IF config.effects THEN Append(reports, Shown \ before) ELSE reports
  /\ polls' = 0
  /\ IF index < Len(Actions) THEN index' = index + 1 /\ step' = "finding"
                             ELSE step' = "acted" /\ UNCHANGED index
  /\ UNCHANGED <<config, waits, center, before, progress, page, history>>

StabilizeAgain ==
  /\ step = "acted" /\ (config.stabilize => ~ blocked)
  /\ step' = "waiting"
  /\ progress' = 40
  /\ been' = look
  /\ UNCHANGED <<config, index, polls, waits, center, before, reports, page, late, lost, hits,
                 revealed>>

(* waiter::wait_for_page: the strategies in the order they were given. *)

Waiting(kinds) == step = "waiting" /\ waits # << >> /\ Head(waits).kind \in kinds

NextStrategy == waits' = Tail(waits) /\ polls' = 0

\* The condition of a strategy on an element: it is there; it is visible and has a size.
SatisfiedBy(l, w) == l[w.target] = "shown" \/ (w.kind = "selector" /\ l[w.target] = "hidden")

Satisfied(w) == SatisfiedBy(look, w)

\* What the page may answer to a poll: a flag of the application is the application's affair.
Answers(w) == IF w.kind = "app_flag" THEN BOOLEAN ELSE {Satisfied(w)}

\* Mutated: whatever is not there by the deadline is done without
TimeoutPasses ==
  /\ Waiting(Polled) /\ ~ blocked
  /\ \E ready \in Answers(Head(waits)) :
       IF ready \/ polls = MaxPolls THEN NextStrategy ELSE polls' = polls + 1 /\ UNCHANGED waits
  /\ UNCHANGED <<config, step, index, center, before, reports, progress, page, history>>

\* wait_until, and what its timeout is called: for an element that is not ready the page is
\* asked once more.
PollStrategy ==
  /\ Waiting(Polled) /\ ~ blocked
  /\ \E ready \in Answers(Head(waits)) :
       \/ ready /\ NextStrategy /\ UNCHANGED step
       \/ ~ ready /\ polls < MaxPolls /\ polls' = polls + 1 /\ UNCHANGED <<step, waits>>
       \/ /\ ~ ready /\ polls = MaxPolls
          /\ step' = CASE Head(waits).kind = "selector" -> "no_match"
                       [] Head(waits).kind = "element_ready" -> "explaining"
                       [] OTHER -> "timeout"
          /\ UNCHANGED <<polls, waits>>
  /\ UNCHANGED <<config, index, center, before, reports, progress, page, history>>

\* eval_selector_exists
Explain ==
  /\ step = "explaining" /\ ~ blocked
  /\ step' = IF look[Head(waits).target] = "absent" THEN "no_match" ELSE "timeout"
  /\ UNCHANGED <<config, index, polls, waits, center, before, reports, progress, page, history>>

\* The fonts are loaded, the network has become idle (NetworkIdle), the delay is over; or the
\* time for it is.  Only the fonts are asked of the page.
LetPass ==
  /\ Waiting(Awaited)
  /\ \/ (Head(waits).kind = "fonts_loaded" => ~ blocked) /\ NextStrategy /\ UNCHANGED step
     \/ Head(waits).kind # "delay" /\ step' = "timeout" /\ UNCHANGED <<polls, waits>>
  /\ UNCHANGED <<config, index, center, before, reports, progress, page, history>>

\* Phase::Extracting
WaitsOver ==
  /\ step = "waiting" /\ waits = << >>
  /\ step' = "extracting"
  /\ progress' = 70
  /\ UNCHANGED <<config, index, polls, waits, center, before, reports, page, history>>

\* extract, and what follows it.
Extract ==
  /\ step = "extracting" /\ ~ blocked
  /\ \/ step' = "done" /\ progress' = 90
     \/ step' = "failed" /\ UNCHANGED progress
  /\ UNCHANGED <<config, index, polls, waits, center, before, reports, page, history>>

\* Steps that wait for an answer of the page or the browser.
Asking ==
  \/ step \in {"finding", "scrolling", "reading", "focusing", "performing", "explaining", "extracting"}
  \/ step \in {"loaded", "acted"} /\ config.stabilize
  \/ step \in {"before", "after"} /\ config.effects
  \/ Waiting(Polled \cup {"fonts_loaded", "network_idle"})

\* The call fails, or the event stream ends: every one of them ends the capture.
CallFails ==
  /\ Asking
  /\ step' = "failed"
  /\ UNCHANGED <<config, index, polls, waits, center, before, reports, progress, page, history>>

-----------------------------------------------------------------------------
(* The page. *)

Changes == shifts + hides + documents

\* An open dialog holds up the page's scripts; after the capture nobody looks.
Scripts == ~ blocked /\ step \notin Finished

\* The page reacts to an action within its settle_ms, or later.
React == hits # << >> /\ late' = (late \/ step # "settling")

\* What an element has been, and what it has become.
Most(b, l) == IF "shown" \in {b, l} THEN "shown" ELSE IF "hidden" \in {b, l} THEN "hidden" ELSE "absent"

Reveal(e) ==
  /\ Scripts /\ e \in due
  /\ look' = [look EXCEPT ![e] = "shown"]
  /\ \E p \in Places : place' = [place EXCEPT ![e] = p]
  /\ due' = due \ {e}
  /\ been' = [been EXCEPT ![e] = "shown"]
  /\ UNCHANGED <<pipeline, focus, blocked, shifts, hides, documents, late, lost, hits, revealed>>

\* An element is hidden, or taken out of the document, at any time; the focus goes with it.
Hide(e) ==
  /\ Scripts /\ Changes < MaxChanges
  /\ e \in Shown
  /\ \E l \in {"hidden", "absent"} : look' = [look EXCEPT ![e] = l]
  /\ place' = [place EXCEPT ![e] = "away"]
  /\ focus' = IF focus = e THEN "nothing" ELSE focus
  /\ lost' = lost \cup {"place"} \cup (IF focus = e THEN {"focus"} ELSE {})
  /\ hides' = hides + 1
  /\ UNCHANGED <<pipeline, blocked, due, shifts, documents, late, been, hits, revealed>>

\* The page goes on to another document.
NewDocument ==
  /\ Scripts /\ React /\ Changes < MaxChanges
  /\ documents' = documents + 1
  /\ look' \in Looks
  /\ place' = FreshPlace(look')
  /\ focus' = "nothing"
  /\ due' = {}
  /\ lost' = {"place", "focus"}
  /\ been' = [e \in Elements |-> Most(been[e], look'[e])]
  /\ UNCHANGED <<pipeline, blocked, shifts, hides, hits, revealed>>

\* Something is drawn elsewhere, over something else or not, at any time.
Shift(e) ==
  /\ Scripts /\ Changes < MaxChanges
  /\ e \in Shown
  /\ \E p \in Places \ {place[e]} : place' = [place EXCEPT ![e] = p]
  /\ shifts' = shifts + 1
  /\ lost' = lost \cup {"place"}
  /\ UNCHANGED <<pipeline, look, focus, blocked, due, hides, documents, late, been, hits, revealed>>

\* A script moves the focus, at any time.
Refocus ==
  /\ Scripts /\ Changes < MaxChanges
  /\ focus' \in (Shown \cup {"nothing"}) \ {focus}
  /\ shifts' = shifts + 1
  /\ lost' = lost \cup {"focus"}
  /\ UNCHANGED <<pipeline, look, place, blocked, due, hides, documents, late, been, hits, revealed>>

\* alert(): no Runtime.evaluate is answered any more.
Block ==
  /\ Scripts
  /\ blocked' = TRUE
  /\ UNCHANGED <<pipeline, look, place, focus, due, shifts, hides, documents, history>>

-----------------------------------------------------------------------------
Pipeline == \/ StabilizePage \/ Interact \/ Poll \/ Scroll \/ ReadTarget \/ CaptureBefore
            \/ Focus \/ Perform \/ UploadFails \/ Settle \/ CaptureAfter \/ StabilizeAgain
            \/ PollStrategy \/ Explain \/ LetPass \/ WaitsOver \/ Extract

Page == \/ NewDocument \/ Refocus \/ Block
        \/ \E e \in Elements : Reveal(e) \/ Hide(e) \/ Shift(e)

Next == Pipeline \/ CallFails \/ Page

Spec == Init /\ [][Next]_vars

\* The browser answers unless a dialog is open, time passes, and the page shows what is due.
FairSpec == /\ Spec /\ WF_vars(Pipeline)
            /\ \A e \in Elements : WF_vars(Reveal(e))

-----------------------------------------------------------------------------
(* Properties. *)

Hit == [action : [kind : Kinds, target : Elements], on : Elements \cup {"nothing"},
        lost : SUBSET {"place", "focus"}, clear : BOOLEAN]

PipelineOK ==
  /\ config \in [stabilize : BOOLEAN, effects : BOOLEAN, wait : WaitLists]
  /\ step \in {"loaded", "stable", "finding", "scrolling", "reading", "before", "focusing",
               "performing", "settling", "after", "acted", "waiting", "explaining", "extracting"} \cup Finished
  /\ index \in 1..(Len(Given) + 1)
  /\ polls \in 0..MaxPolls
  /\ \E k \in 0..Len(config.wait) : waits = SubSeq(config.wait, k + 1, Len(config.wait))
  /\ center \in Places
  /\ before \subseteq Elements
  /\ reports \in Seq(SUBSET Elements)
  /\ progress \in {20, 35, 40, 70, 90}

PageOK ==
  /\ look \in [Elements -> {"absent", "hidden", "shown"}]
  /\ place \in Laid(look)
  /\ focus \in Elements \cup {"nothing"}
  /\ blocked \in BOOLEAN
  /\ due \subseteq Elements
  /\ shifts \in Nat /\ hides \in Nat /\ documents \in Nat /\ Changes <= MaxChanges

HistoryOK ==
  /\ late \in BOOLEAN /\ lost \subseteq {"place", "focus"}
  /\ been \in [Elements -> {"absent", "hidden", "shown"}]
  /\ hits \in Seq(Hit)
  /\ revealed \in Seq(SUBSET Elements) /\ Len(revealed) = Len(hits)

TypeOK == PipelineOK /\ PageOK /\ HistoryOK

\* "scroll it into view and click its center", "focus it and insert text": a click and a hover
\* reach their own target, wherever the page had moved it before its rect was read, unless the
\* page moves things after that, or something else is drawn over it or it is out of view (which
\* nobody looks for); a text reaches it unless it does not take the focus or loses it again.
ReachesTarget ==
  \A k \in 1..Len(hits) :
    LET hit == hits[k]
    IN  \/ hit.on = hit.action.target
        \/ hit.action.kind \in {"click", "hover"} /\ ("place" \in hit.lost \/ ~ hit.clear)
        \/ hit.action.kind = "type" /\ "focus" \in hit.lost

\* "per action, what appeared": the report of an action names what that action revealed,
\* not what an earlier or a later one did, if the page reacts to each within its settle_ms and
\* takes nothing away.
EffectAttributed ==
  documents = 0 /\ hides = 0 /\ ~ late => \A k \in 1..Len(reports) : reports[k] = revealed[k]

\* "the wait pipeline then targets the post-interaction DOM": at the extraction everything that
\* was waited for has been there since the last action, each to its own condition, whatever the
\* page has hidden or replaced meanwhile; what was there before an action does not count.
WaitsMet ==
  step = "extracting" =>
    \A k \in 1..Len(config.wait) :
      config.wait[k].kind \in {"selector", "element_ready"} => SatisfiedBy(been, config.wait[k])

\* The manual's login, --type "#email:..." --click "button[type=submit]": what is given to be
\* typed before a click has been typed when the click is performed.
TypedBeforeClick ==
  \A k \in 1..Len(hits), i \in 1..Len(Given) :
    hits[k].action.kind = "click" /\ hits[k].action = Given[i] =>
      \A j \in 1..(i - 1) : Given[j].kind = "type" => \E h \in 1..(k - 1) : hits[h].action = Given[j]

\* A capture ends, whatever its targets and waits do, unless the page opens a dialog: only
\* the evaluation that waits for the fonts has a timeout of its own.
CaptureEnds == step \in {"finding", "waiting"} ~> (step \in Finished \/ blocked)

\* progress_values_are_monotonic: what is reported does not go backwards.
ProgressRises == [][progress' >= progress]_vars
=============================================================================
