-------------------------- MODULE CdpSessionProofs --------------------------
(***************************************************************************)
(* Proofs about CdpSession, for any number of pages on one connection, any *)
(* capacity of the event queue and any traffic.                            *)
(*                                                                         *)
(* The argument: the load event of the initial about:blank document leaves *)
(* the browser before the answer to Page.navigate does, so that it has     *)
(* passed the reader when the task subscribes (BlankFirst, NoBlankLeft).   *)
(* What the task receives after that is the load of its own navigation, or *)
(* not its own.  And the load event of a page that has loaded is somewhere *)
(* until its task has ended (Delivered): on the wire, in the backlog, or   *)
(* gone in a way the task is told of.                                      *)
(***************************************************************************)
EXTENDS CdpSession, TLAPS

ReplyTo(p) == [kind |-> "reply", page |-> p]
Load(p, of) == [kind |-> "load", page |-> p, of |-> of]

\* A page that is being set up has not been navigated.
SetupNew == \A p \in Pages : pc[p] \in Setup => page[p] \in {"new", "blank"}

\* Page.navigate is answered when the navigation has committed.
Committed ==
  \A p \in Pages : \A k \in 1..Len(wire) :
    wire[k] = ReplyTo(p) => page[p] \in {"committed", "loaded"}

\* No blank load behind the answer to Page.navigate.
BlankFirst ==
  \A p \in Pages : \A j, k \in 1..Len(wire) :
    j < k /\ wire[j] = ReplyTo(p) => wire[k] # Load(p, "blank")

\* None on the way to a task that has the answer, nor received by it.
NoBlankLeft ==
  \A p \in Pages :
    /\ pc[p] \in {"replied", "listening"} => \A k \in 1..Len(wire) : wire[k] # Load(p, "blank")
    /\ pc[p] = "listening" => \A k \in 1..Len(backlog[p]) : backlog[p][k] # Load(p, "blank")

\* A load event tells the truth.
LoadsTrue ==
  \A p \in Pages :
    /\ \A k \in 1..Len(wire) : wire[k] = Load(p, "nav") => page[p] = "loaded"
    /\ \A k \in 1..Len(backlog[p]) : backlog[p][k] = Load(p, "nav") => page[p] = "loaded"

Route == SetupNew /\ Committed /\ BlankFirst /\ NoBlankLeft /\ LoadsTrue
IInv  == TypeOK /\ Route /\ LoadedIsOwnNavigation

-----------------------------------------------------------------------------
(* Types. *)

\* What stays of a queue of which only the last n are kept.
LEMMA LastOfKept ==
  ASSUME NEW S, NEW s \in Seq(S), NEW n \in Nat
  PROVE  /\ LastOf(s, n) \in Seq(S) /\ Len(LastOf(s, n)) <= n
         /\ \A k \in 1..Len(LastOf(s, n)) : \E j \in 1..Len(s) : LastOf(s, n)[k] = s[j]
<1>1. CASE Len(s) <= n
  BY <1>1 DEF LastOf
<1>2. CASE Len(s) > n
  <2> DEFINE m == Len(s) - n
  <2>1. m \in Nat /\ m + 1 \in 1..(Len(s) + 1) /\ LastOf(s, n) = SubSeq(s, m + 1, Len(s))
    BY <1>2 DEF LastOf
  <2>2. /\ SubSeq(s, m + 1, Len(s)) \in Seq(S) /\ Len(SubSeq(s, m + 1, Len(s))) = n
        /\ \A k \in 1..n : SubSeq(s, m + 1, Len(s))[k] = s[m + k]
    BY <1>2, <2>1
  <2>3. ASSUME NEW k \in 1..n PROVE \E j \in 1..Len(s) : SubSeq(s, m + 1, Len(s))[k] = s[j]
    <3>1. m + k \in 1..Len(s)
      BY <1>2, <2>1
    <3> HIDE DEF m
    <3> QED  BY <2>2, <3>1
  <2> HIDE DEF m
  <2> QED  BY <2>1, <2>2, <2>3
<1> QED  BY <1>1, <1>2

LEMMA TypeInit == Init => TypeOK
BY BoundsNat DEF Init, TypeOK, Pc, Setup

LEMMA TypeTask ==
  ASSUME TypeOK, NEW p \in Pages, Task(p)
  PROVE  TypeOK'
<1> USE DEF TypeOK, Pc, Setup, Ended, Goto, Unsubscribe
<1>1. CASE CreateTarget(p) \/ Attach(p) \/ EnableDomains(p) \/ SetupFails(p)
  BY <1>1 DEF CreateTarget, Attach, EnableDomains, SetupFails
<1>2. CASE SendNavigate(p) \/ NavigateFails(p)
  BY <1>2 DEF SendNavigate, NavigateFails
<1>0. << >> \in Seq(Event) /\ Len(<< >>) <= Capacity
  BY BoundsNat
<1>3. CASE Subscribe(p) \/ ReceiveLagged(p) \/ Timeout(p)
  <2>1. /\ backlog' = [backlog EXCEPT ![p] = << >>] /\ lagged' \in [Pages -> BOOLEAN]
        /\ pc' \in [Pages -> Pc] /\ UNCHANGED <<target, page, connected, wire, gotLoad, overtaken, noise>>
    BY <1>3 DEF Subscribe, ReceiveLagged, Timeout
  <2>2. backlog' \in [Pages -> Seq(Event)] /\ \A q \in Pages : Len(backlog'[q]) <= Capacity
    BY <1>0, <2>1
  <2> QED  BY <2>1, <2>2
<1>4. CASE Receive(p)
  <2>1. Head(backlog[p]) \in Event /\ Tail(backlog[p]) \in Seq(Event) /\ Len(Tail(backlog[p])) <= Capacity
    BY <1>4, BoundsNat DEF Receive
  <2>2. CASE Matches(p, Head(backlog[p]))
    <3>1. Head(backlog[p]).of \in {"blank", "nav"}
      BY <2>1, <2>2 DEF Matches, Event
    <3>2. /\ pc' = [pc EXCEPT ![p] = "loaded"] /\ gotLoad' = [gotLoad EXCEPT ![p] = Head(backlog[p]).of]
          /\ backlog' = [backlog EXCEPT ![p] = << >>]
          /\ UNCHANGED <<target, page, connected, wire, lagged, overtaken, noise>>
      BY <1>4, <2>2 DEF Receive
    <3>3. backlog' \in [Pages -> Seq(Event)] /\ \A q \in Pages : Len(backlog'[q]) <= Capacity
      BY <1>0, <3>2
    <3> QED  BY <3>1, <3>2, <3>3
  <2>3. CASE ~ Matches(p, Head(backlog[p]))
    BY <1>4, <2>1, <2>3 DEF Receive
  <2> QED  BY <2>2, <2>3
<1>5. CASE Close(p)
  BY <1>5 DEF Close
<1> QED  BY <1>1, <1>2, <1>3, <1>4, <1>5 DEF Task

LEMMA TypeRead == ASSUME TypeOK, ReadFrame PROVE TypeOK'
<1>1. Head(wire) \in Frame /\ wire' \in Seq(Frame)
  BY DEF TypeOK, ReadFrame
<1>2. CASE Head(wire).kind = "reply"
  BY <1>1, <1>2 DEF TypeOK, ReadFrame, Goto, Pc, Setup
<1>3. CASE Head(wire).kind # "reply"
  <2>1. Head(wire) \in Event
    BY <1>1, <1>3 DEF Frame
  <2>2. \A q \in Pages : Append(backlog[q], Head(wire)) \in Seq(Event)
    BY <2>1 DEF TypeOK
  <2>3. \A q \in Pages : /\ LastOf(Append(backlog[q], Head(wire)), Capacity) \in Seq(Event)
                         /\ Len(LastOf(Append(backlog[q], Head(wire)), Capacity)) <= Capacity
    BY <2>2, LastOfKept, BoundsNat
  <2>4. Broadcast(Head(wire)) /\ UNCHANGED <<pc, target, page, connected, gotLoad, noise>>
    BY <1>3 DEF ReadFrame
  <2>5. backlog' \in [Pages -> Seq(Event)] /\ \A q \in Pages : Len(backlog'[q]) <= Capacity
    BY <2>3, <2>4 DEF Broadcast, TypeOK
  <2>6. lagged' \in [Pages -> BOOLEAN]
    BY <2>4 DEF Broadcast, TypeOK
  <2>7. overtaken' \subseteq Pages
    BY <1>3 DEF ReadFrame, TypeOK
  <2> QED  BY <1>1, <2>4, <2>5, <2>6, <2>7 DEF TypeOK
<1> QED  BY <1>2, <1>3

\* The frames that the browser sends.
LEMMA FrameTyped ==
  ASSUME NEW p \in Pages
  PROVE  /\ ReplyTo(p) \in Frame /\ Load(p, "blank") \in Frame /\ Load(p, "nav") \in Frame
         /\ [kind |-> "other"] \in Frame
BY DEF ReplyTo, Load, Frame, Event

LEMMA TypeBrowser ==
  ASSUME TypeOK, (\E p \in Pages : Browser(p)) \/ OtherEvent \/ ConnectionLost
  PROVE  TypeOK'
<1>1. ASSUME NEW p \in Pages, Browser(p) PROVE TypeOK'
  <2>0. wire' \in {Append(wire, ReplyTo(p)), Append(wire, Load(p, "blank")), Append(wire, Load(p, "nav"))}
    BY <1>1 DEF Browser, BlankLoads, Commit, LoadFires, ReplyTo, Load
  <2>1. wire' \in Seq(Frame)
    <3>1. wire \in Seq(Frame)
      BY DEF TypeOK
    <3>2. ASSUME NEW f \in Frame PROVE Append(wire, f) \in Seq(Frame)
      BY <3>1
    <3>3. ReplyTo(p) \in Frame /\ Load(p, "blank") \in Frame /\ Load(p, "nav") \in Frame
      BY FrameTyped
    <3> QED  BY <2>0, <3>2, <3>3
  <2>2. /\ page' \in [Pages -> {"new", "blank", "requested", "committed", "loaded"}]
        /\ UNCHANGED <<pc, target, connected, backlog, lagged, gotLoad, overtaken, noise>>
    BY <1>1 DEF TypeOK, Browser, BlankLoads, Commit, LoadFires
  <2> QED  BY <2>1, <2>2 DEF TypeOK
<1>2. CASE OtherEvent
  <2>1. [kind |-> "other"] \in Frame
    BY DEF Frame, Event
  <2> QED  BY <1>2, <2>1, BoundsNat DEF TypeOK, OtherEvent
<1>3. CASE ConnectionLost
  BY <1>3 DEF TypeOK, ConnectionLost
<1> QED  BY <1>1, <1>2, <1>3

LEMMA TypeStep == TypeOK /\ [Next]_vars => TypeOK'
<1>1. TypeOK /\ UNCHANGED vars => TypeOK'
  BY DEF TypeOK, vars
<1> QED  BY <1>1, TypeTask, TypeRead, TypeBrowser DEF Next

\* The types hold, for any pages: no subscriber is ever kept more than Capacity events.
THEOREM TypeCorrect == Spec => []TypeOK
BY TypeInit, TypeStep, PTL DEF Spec

-----------------------------------------------------------------------------
(* The way of the load events. *)

LEMMA RouteInit == Init => Route /\ LoadedIsOwnNavigation
BY DEF Init, Route, SetupNew, Committed, BlankFirst, NoBlankLeft, LoadsTrue, LoadedIsOwnNavigation, Setup

\* A task's own steps change no frame on the wire.
LEMMA RouteTask ==
  ASSUME IInv, NEW p \in Pages, Task(p)
  PROVE  Route' /\ LoadedIsOwnNavigation'
<1> USE DEF Goto, Unsubscribe, Setup, Ended
<1>0. wire' = wire /\ pc' \in [Pages -> Pc]
  BY TypeTask DEF IInv, TypeOK, Task, CreateTarget, Attach, EnableDomains, SetupFails, SendNavigate,
     NavigateFails, Subscribe, Receive, ReceiveLagged, Timeout, Close
<1>1. CASE CreateTarget(p) \/ Attach(p) \/ EnableDomains(p) \/ SetupFails(p) \/ Close(p)
  <2>1. /\ UNCHANGED <<page, backlog, gotLoad>> /\ \A q \in Pages \ {p} : pc'[q] = pc[q]
        /\ \/ pc[p] \in Setup /\ pc'[p] \in {"attaching", "enabling", "ready", "failed"}
           \/ pc'[p] = "done"
    BY <1>1 DEF CreateTarget, Attach, EnableDomains, SetupFails, Close, IInv, TypeOK
  <2> QED  BY <1>0, <2>1 DEF IInv, Route, SetupNew, Committed, BlankFirst, NoBlankLeft, LoadsTrue,
              LoadedIsOwnNavigation
<1>2. CASE SendNavigate(p) \/ NavigateFails(p)
  <2>1. /\ page[p] \notin {"committed", "loaded"}
        /\ \A q \in Pages \ {p} : page'[q] = page[q] /\ pc'[q] = pc[q]
        /\ pc'[p] \in {"navigating", "navFailed"} /\ UNCHANGED <<backlog, gotLoad>>
    BY <1>2 DEF SendNavigate, NavigateFails, IInv, TypeOK, Route, SetupNew
  <2> QED  BY <1>0, <2>1 DEF IInv, Route, SetupNew, Committed, BlankFirst, NoBlankLeft, LoadsTrue,
              LoadedIsOwnNavigation
<1>3. CASE Subscribe(p) \/ ReceiveLagged(p) \/ Timeout(p)
  <2>1. /\ page' = page /\ gotLoad' = gotLoad /\ backlog'[p] = << >>
        /\ \A q \in Pages \ {p} : backlog'[q] = backlog[q] /\ pc'[q] = pc[q]
        /\ pc'[p] \in {"listening", "closed", "timeout"} /\ pc[p] \in {"replied", "listening"}
    BY <1>3 DEF Subscribe, ReceiveLagged, Timeout, IInv, TypeOK
  <2> QED  BY <1>0, <2>1 DEF IInv, Route, SetupNew, Committed, BlankFirst, NoBlankLeft, LoadsTrue,
              LoadedIsOwnNavigation
<1>4. CASE Receive(p)
  <2> DEFINE ev == Head(backlog[p])
  <2>0. /\ page' = page /\ pc[p] = "listening" /\ backlog[p] # << >> /\ backlog[p] \in Seq(Event)
        /\ \A q \in Pages \ {p} : backlog'[q] = backlog[q] /\ pc'[q] = pc[q] /\ gotLoad'[q] = gotLoad[q]
    BY <1>4 DEF Receive, IInv, TypeOK
  <2>1. ev = backlog[p][1] /\ 1 \in 1..Len(backlog[p]) /\ ev \in Event
    BY <2>0
  <2>2. CASE Matches(p, ev)
    <3>1. ev = Load(p, "blank") \/ ev = Load(p, "nav")
      BY <2>1, <2>2 DEF Matches, Event, Load
    <3>2. ev = Load(p, "nav") /\ ev.of = "nav" /\ page[p] = "loaded"
      BY <2>0, <2>1, <3>1 DEF IInv, Route, NoBlankLeft, LoadsTrue, Load
    <3>3. pc'[p] = "loaded" /\ gotLoad'[p] = "nav" /\ backlog'[p] = << >>
      BY <1>4, <2>2, <3>2 DEF Receive, IInv, TypeOK
    <3> QED  BY <1>0, <2>0, <3>2, <3>3 DEF IInv, Route, SetupNew, Committed, BlankFirst, NoBlankLeft,
                LoadsTrue, LoadedIsOwnNavigation
  <2>3. CASE ~ Matches(p, ev)
    <3>1. pc' = pc /\ gotLoad' = gotLoad /\ backlog'[p] = Tail(backlog[p])
      BY <1>4, <2>3 DEF Receive, IInv, TypeOK
    <3>2. \A k \in 1..Len(backlog'[p]) : k + 1 \in 1..Len(backlog[p]) /\ backlog'[p][k] = backlog[p][k + 1]
      BY <2>0, <3>1
    <3>3. SetupNew' /\ Committed' /\ BlankFirst' /\ LoadedIsOwnNavigation'
      BY <1>0, <2>0, <3>1 DEF IInv, Route, SetupNew, Committed, BlankFirst, LoadedIsOwnNavigation
    <3> DEFINE Blank(q) == \A k \in 1..Len(backlog[q]) : backlog[q][k] # Load(q, "blank")
               True(q)  == \A k \in 1..Len(backlog[q]) : backlog[q][k] = Load(q, "nav") => page[q] = "loaded"
    <3>6. Blank(p)' /\ True(p)'
      BY <2>0, <3>2 DEF IInv, Route, NoBlankLeft, LoadsTrue
    <3>7. \A q \in Pages \ {p} : (pc[q] = "listening" => Blank(q)') /\ True(q)'
      BY <2>0 DEF IInv, Route, NoBlankLeft, LoadsTrue
    <3>4. NoBlankLeft'
      BY <1>0, <3>1, <3>6, <3>7 DEF IInv, Route, NoBlankLeft
    <3>5. LoadsTrue'
      BY <1>0, <2>0, <3>6, <3>7 DEF IInv, Route, LoadsTrue
    <3> QED  BY <3>3, <3>4, <3>5 DEF Route
  <2> QED  BY <2>2, <2>3
<1> QED  BY <1>1, <1>2, <1>3, <1>4 DEF Task

\* The reader hands the first frame on.
LEMMA RouteRead == ASSUME IInv, ReadFrame PROVE Route' /\ LoadedIsOwnNavigation'
<1> DEFINE f == Head(wire)
<1>1. /\ wire \in Seq(Frame) /\ wire # << >> /\ wire' = Tail(wire) /\ UNCHANGED <<page, gotLoad>>
      /\ f = wire[1] /\ 1 \in 1..Len(wire) /\ f \in Frame
      /\ \A k \in 1..Len(wire') : k + 1 \in 1..Len(wire) /\ 1 < k + 1 /\ wire'[k] = wire[k + 1]
      /\ \A j, k \in 1..Len(wire') : j < k => j + 1 < k + 1
  BY DEF ReadFrame, IInv, TypeOK
<1>2. /\ \A q \in Pages : \A k \in 1..Len(wire') : wire'[k] = Load(q, "nav") => page[q] = "loaded"
      /\ Committed' /\ BlankFirst'
  BY <1>1 DEF IInv, Route, Committed, BlankFirst, LoadsTrue
<1>3. CASE f.kind = "reply"
  <2>1. f.page \in Pages /\ f = ReplyTo(f.page) /\ UNCHANGED backlog
    BY <1>1, <1>3 DEF Frame, Event, ReplyTo, ReadFrame
  <2>2. \A k \in 1..Len(wire') : wire'[k] # Load(f.page, "blank")
    BY <1>1, <2>1 DEF IInv, Route, BlankFirst
  <2>3. \A q \in Pages : pc'[q] = pc[q] \/ (q = f.page /\ pc'[q] = "replied")
    BY <1>3 DEF ReadFrame, Goto, IInv, TypeOK
  <2> HIDE DEF f
  <2>4. SetupNew' /\ LoadedIsOwnNavigation'
    BY <1>1, <2>3 DEF IInv, Route, SetupNew, LoadedIsOwnNavigation, Setup
  <2>5. NoBlankLeft'
    BY <1>1, <2>1, <2>2, <2>3 DEF IInv, Route, NoBlankLeft
  <2> QED  BY <1>1, <1>2, <2>1, <2>4, <2>5 DEF IInv, Route, LoadsTrue
<1>4. CASE f.kind # "reply"
  <2>0. pc' = pc /\ f \in Event
    BY <1>1, <1>4 DEF ReadFrame, Frame
  <2>1. ASSUME NEW q \in Pages, NEW k \in 1..Len(backlog'[q])
        PROVE  (\E j \in 1..Len(backlog[q]) : backlog'[q][k] = backlog[q][j])
               \/ (pc[q] = "listening" /\ backlog'[q][k] = f)
    <3>1. CASE pc[q] = "listening"
      <4> DEFINE s == Append(backlog[q], f)
      <4>1. backlog'[q] = LastOf(s, Capacity) /\ s \in Seq(Event)
        BY <1>4, <2>0, <3>1 DEF ReadFrame, Broadcast, IInv, TypeOK
      <4>0. s \in Seq(Event) /\ Capacity \in Nat
        BY <4>1, BoundsNat
      <4>2. \A i \in 1..Len(LastOf(s, Capacity)) : \E j \in 1..Len(s) : LastOf(s, Capacity)[i] = s[j]
        <5> HIDE DEF s
        <5> QED  BY <4>0, LastOfKept
      <4>3. PICK j \in 1..Len(s) : backlog'[q][k] = s[j]
        BY <4>1, <4>2
      <4>4. s[j] = f \/ (j \in 1..Len(backlog[q]) /\ s[j] = backlog[q][j])
        BY <4>3 DEF IInv, TypeOK
      <4> QED  BY <3>1, <4>3, <4>4
    <3>2. CASE pc[q] # "listening"
      <4>1. backlog'[q] = backlog[q]
        BY <1>4, <3>2 DEF ReadFrame, Broadcast, IInv, TypeOK
      <4> QED  BY <2>1, <4>1
    <3> QED  BY <3>1, <3>2
  <2> HIDE DEF f
  <2>2. NoBlankLeft'
    BY <1>1, <2>0, <2>1 DEF IInv, Route, NoBlankLeft
  <2>3. LoadsTrue'
    BY <1>1, <1>2, <2>1 DEF IInv, Route, LoadsTrue
  <2>4. SetupNew' /\ LoadedIsOwnNavigation'
    BY <1>1, <2>0 DEF IInv, Route, SetupNew, LoadedIsOwnNavigation
  <2> QED  BY <1>2, <2>2, <2>3, <2>4 DEF Route
<1> QED  BY <1>3, <1>4

\* The browser sends one more frame: an answer once it has committed, a blank load only
\* while it has not been asked to navigate, a load of the navigation once that has loaded.
LEMMA RouteSent ==
  ASSUME IInv, NEW f, wire' = Append(wire, f), UNCHANGED <<pc, backlog, gotLoad>>, SetupNew',
         \A q \in Pages :
           /\ page[q] \in {"committed", "loaded"} => page'[q] \in {page[q], "loaded"}
           /\ f = ReplyTo(q) => page'[q] \in {"committed", "loaded"}
           /\ f = Load(q, "blank") => page[q] = "new" /\ pc[q] \in {"enabling", "ready"}
           /\ f = Load(q, "nav") => page'[q] = "loaded"
  PROVE  Route' /\ LoadedIsOwnNavigation'
<1> DEFINE n == Len(wire)
<1>1. /\ n \in Nat /\ Len(wire') = n + 1 /\ wire'[n + 1] = f
      /\ \A k \in 1..Len(wire') : k = n + 1 \/ (k \in 1..n /\ wire'[k] = wire[k])
      /\ \A j, k \in 1..Len(wire') : j < k => j \in 1..n
  BY DEF IInv, TypeOK
<1> HIDE DEF n
<1>2. Committed'
  BY <1>1 DEF IInv, Route, Committed, n
<1>3. BlankFirst'
  <2> SUFFICES ASSUME NEW p \in Pages, NEW j \in 1..Len(wire'), NEW k \in 1..Len(wire'),
                      j < k, wire'[j] = ReplyTo(p), wire'[k] = Load(p, "blank")
               PROVE  FALSE
    BY DEF BlankFirst
  <2>1. j \in 1..n /\ wire[j] = ReplyTo(p)
    BY <1>1
  <2>2. page[p] \in {"committed", "loaded"}
    BY <2>1 DEF IInv, Route, Committed, n
  <2>3. CASE k = n + 1
    BY <1>1, <2>2, <2>3
  <2>4. CASE k \in 1..n
    BY <1>1, <2>1, <2>4 DEF IInv, Route, BlankFirst, n
  <2> QED  BY <1>1, <2>3, <2>4
<1>4. NoBlankLeft'
  BY <1>1 DEF IInv, Route, NoBlankLeft, n
<1>5. LoadsTrue'
  BY <1>1 DEF IInv, Route, LoadsTrue, n
<1>6. LoadedIsOwnNavigation'
  BY DEF IInv, LoadedIsOwnNavigation
<1> QED  BY <1>2, <1>3, <1>4, <1>5, <1>6 DEF Route

LEMMA RouteBrowser ==
  ASSUME IInv, NEW p \in Pages, Browser(p)
  PROVE  Route' /\ LoadedIsOwnNavigation'
<1>1. CASE BlankLoads(p)
  <2>1. /\ wire' = Append(wire, Load(p, "blank")) /\ UNCHANGED <<pc, backlog, gotLoad>>
        /\ page[p] = "new" /\ pc[p] \in {"enabling", "ready"}
        /\ page'[p] = "blank" /\ \A q \in Pages \ {p} : page'[q] = page[q]
    BY <1>1 DEF BlankLoads, Load, IInv, TypeOK
  <2>2. \A q \in Pages : /\ Load(p, "blank") # ReplyTo(q) /\ Load(p, "blank") # Load(q, "nav")
                         /\ Load(p, "blank") = Load(q, "blank") => q = p
    BY DEF Load, ReplyTo
  <2>3. SetupNew'
    BY <2>1 DEF IInv, Route, SetupNew
  <2> QED  BY <2>1, <2>2, <2>3, RouteSent
<1>2. CASE Commit(p)
  <2>1. /\ wire' = Append(wire, ReplyTo(p)) /\ UNCHANGED <<pc, backlog, gotLoad>>
        /\ page[p] = "requested" /\ page'[p] = "committed" /\ \A q \in Pages \ {p} : page'[q] = page[q]
    BY <1>2 DEF Commit, ReplyTo, IInv, TypeOK
  <2>2. \A q \in Pages : /\ ReplyTo(p) # Load(q, "blank") /\ ReplyTo(p) # Load(q, "nav")
                         /\ ReplyTo(p) = ReplyTo(q) => q = p
    BY DEF Load, ReplyTo
  <2>3. SetupNew'
    BY <2>1 DEF IInv, Route, SetupNew
  <2> QED  BY <2>1, <2>2, <2>3, RouteSent
<1>3. CASE LoadFires(p)
  <2>1. /\ wire' = Append(wire, Load(p, "nav")) /\ UNCHANGED <<pc, backlog, gotLoad>>
        /\ page[p] = "committed" /\ page'[p] = "loaded" /\ \A q \in Pages \ {p} : page'[q] = page[q]
    BY <1>3 DEF LoadFires, Load, IInv, TypeOK
  <2>2. \A q \in Pages : /\ Load(p, "nav") # ReplyTo(q) /\ Load(p, "nav") # Load(q, "blank")
                         /\ Load(p, "nav") = Load(q, "nav") => q = p
    BY DEF Load, ReplyTo
  <2>3. SetupNew'
    BY <2>1 DEF IInv, Route, SetupNew
  <2> QED  BY <2>1, <2>2, <2>3, RouteSent
<1> QED  BY <1>1, <1>2, <1>3 DEF Browser

LEMMA RouteStep == IInv /\ [Next]_vars => Route' /\ LoadedIsOwnNavigation'
<1> SUFFICES ASSUME IInv, [Next]_vars PROVE Route' /\ LoadedIsOwnNavigation'
  OBVIOUS
<1>1. CASE OtherEvent
  <2>1. SetupNew'
    BY <1>1 DEF OtherEvent, IInv, Route, SetupNew
  <2> QED  BY <1>1, <2>1, RouteSent DEF OtherEvent, ReplyTo, Load
<1>2. CASE ConnectionLost \/ UNCHANGED vars
  BY <1>2 DEF ConnectionLost, vars, IInv, Route, SetupNew, Committed, BlankFirst, NoBlankLeft,
     LoadsTrue, LoadedIsOwnNavigation
<1> QED  BY <1>1, <1>2, RouteTask, RouteRead, RouteBrowser DEF Next

\* For any number of pages on one connection, whatever order their events come in and however
\* many a subscriber loses: a navigation that returns has loaded, and it is its own load that
\* ended the wait (`navigate`, `wait_for_event`).
THEOREM OwnLoad == Spec => []LoadedIsOwnNavigation
<1>1. Init => IInv
  BY TypeInit, RouteInit DEF IInv
<1>2. IInv /\ [Next]_vars => IInv'
  BY TypeStep, RouteStep DEF IInv
<1>3. IInv => LoadedIsOwnNavigation
  BY DEF IInv
<1> QED  BY <1>1, <1>2, <1>3, PTL DEF Spec

-----------------------------------------------------------------------------
(* Where the load event of a page that has loaded is, as long as its task has not ended. *)

Kept(p) == \E k \in 1..Len(backlog[p]) : backlog[p][k] = Load(p, "nav")

Delivered ==
  \A p \in Pages : page[p] = "loaded" /\ pc[p] \notin Ended \cup {"failed", "done"} =>
    \/ p \in overtaken
    \/ OnWire(p)
    \/ pc[p] = "listening" /\ (lagged[p] \/ Kept(p))

LEMMA DeliveredTask ==
  ASSUME TypeOK, Delivered, NEW p \in Pages, Task(p)
  PROVE  Delivered'
<1> USE DEF Goto, Unsubscribe, Setup, Ended
<1>0. /\ UNCHANGED <<wire, overtaken>> /\ \A q \in Pages : OnWire(q)' <=> OnWire(q)
      /\ \A q \in Pages \ {p} : /\ pc'[q] = pc[q] /\ page'[q] = page[q] /\ lagged'[q] = lagged[q]
                               /\ backlog'[q] = backlog[q]
  BY DEF Task, CreateTarget, Attach, EnableDomains, SetupFails, SendNavigate, NavigateFails, Subscribe,
     Receive, ReceiveLagged, Timeout, Close, TypeOK, OnWire
<1> SUFFICES ASSUME page'[p] = "loaded", pc'[p] \notin Ended \cup {"failed", "done"}
             PROVE  \/ p \in overtaken
                    \/ OnWire(p)
                    \/ pc'[p] = "listening" /\ (lagged'[p] \/ Kept(p)')
  BY <1>0 DEF Delivered, Kept
<1>1. CASE Receive(p)
  <2> DEFINE ev == Head(backlog[p])
  <2>1. backlog[p] \in Seq(Event) /\ backlog[p] # << >> /\ pc[p] = "listening" /\ ~ lagged[p] /\ page' = page
    BY <1>1 DEF Receive, TypeOK
  <2>2. ~ Matches(p, ev) /\ pc'[p] = "listening" /\ backlog'[p] = Tail(backlog[p])
    BY <1>1 DEF Receive, TypeOK
  <2>3. ASSUME Kept(p) PROVE Kept(p)'
    <3>1. PICK k \in 1..Len(backlog[p]) : backlog[p][k] = Load(p, "nav")
      BY <2>3 DEF Kept
    <3>2. backlog[p][1] = ev /\ k # 1
      BY <2>1, <2>2, <3>1 DEF Matches, Load
    <3>3. k - 1 \in 1..Len(backlog'[p]) /\ backlog'[p][k - 1] = Load(p, "nav")
      BY <2>1, <2>2, <3>1, <3>2
    <3> QED  BY <3>3 DEF Kept
  <2> QED  BY <2>1, <2>2, <2>3 DEF Delivered
<1>2. CASE ~ Receive(p)
  <2>1. pc[p] \notin Ended \cup {"failed", "done", "listening"} /\ page[p] = "loaded"
    BY <1>2 DEF Task, CreateTarget, Attach, EnableDomains, SetupFails, SendNavigate, NavigateFails,
       Subscribe, ReceiveLagged, Timeout, Close, TypeOK
  <2> QED  BY <2>1 DEF Delivered
<1> QED  BY <1>1, <1>2

LEMMA DeliveredRead == ASSUME TypeOK, Delivered, ReadFrame PROVE Delivered'
<1> DEFINE f == Head(wire)
<1>1. /\ wire \in Seq(Frame) /\ wire # << >> /\ wire' = Tail(wire) /\ page' = page
      /\ f = wire[1] /\ overtaken \subseteq overtaken'
  BY DEF ReadFrame, TypeOK
<1>2. ASSUME NEW p \in Pages, OnWire(p), ~ OnWire(p)' PROVE f = Load(p, "nav")
  <2>1. PICK k \in 1..Len(wire) : wire[k] = Load(p, "nav")
    BY <1>2 DEF OnWire, Load
  <2>2. CASE k # 1
    <3>1. k - 1 \in 1..Len(wire') /\ wire'[k - 1] = Load(p, "nav")
      BY <1>1, <2>1, <2>2
    <3> QED  BY <1>2, <3>1 DEF OnWire, Load
  <2> QED  BY <1>1, <2>1, <2>2
<1>3. CASE f.kind = "reply"
  <2>1. /\ UNCHANGED <<backlog, lagged>>
        /\ \A q \in Pages : pc'[q] = pc[q] \/ (pc[q] = "navigating" /\ pc'[q] = "replied")
    BY <1>3 DEF ReadFrame, Goto, TypeOK
  <2>2. \A q \in Pages : f # Load(q, "nav")
    BY <1>3 DEF Load
  <2> HIDE DEF f
  <2> QED  BY <1>1, <1>2, <2>1, <2>2 DEF Delivered, Kept, Ended
<1>4. CASE f.kind # "reply"
  <2>1. pc' = pc /\ Broadcast(f)
    BY <1>4 DEF ReadFrame
  <2>2. \A q \in Pages : f = Load(q, "nav") /\ pc[q] # "listening" => q \in overtaken'
    BY <1>4 DEF ReadFrame, Load
  <2>3. ASSUME NEW p \in Pages, pc[p] = "listening", Kept(p) \/ f = Load(p, "nav")
        PROVE  lagged'[p] \/ Kept(p)'
    <3>1. CASE Len(backlog[p]) = Capacity
      BY <2>1, <2>3, <3>1 DEF Broadcast
    <3>2. CASE Len(backlog[p]) # Capacity
      <4>1. backlog[p] \in Seq(Event) /\ Len(backlog[p]) + 1 <= Capacity /\ Capacity \in Nat
        BY <3>2, BoundsNat DEF TypeOK
      <4>2. backlog'[p] = Append(backlog[p], f)
        <5>1. backlog'[p] = LastOf(Append(backlog[p], f), Capacity)
          BY <2>1, <2>3 DEF Broadcast
        <5>2. Len(Append(backlog[p], f)) = Len(backlog[p]) + 1
          BY <4>1
        <5> QED  BY <4>1, <5>1, <5>2 DEF LastOf
      <4>3. /\ Len(backlog[p]) + 1 \in 1..Len(backlog'[p]) /\ backlog'[p][Len(backlog[p]) + 1] = f
            /\ \A k \in 1..Len(backlog[p]) : k \in 1..Len(backlog'[p]) /\ backlog'[p][k] = backlog[p][k]
        BY <4>1, <4>2
      <4> HIDE DEF f
      <4> QED  BY <2>3, <4>3 DEF Kept
    <3> QED  BY <3>1, <3>2
  <2>4. \A p \in Pages : lagged[p] => lagged'[p]
    BY <2>1 DEF Broadcast
  <2> HIDE DEF f
  <2> QED  BY <1>1, <1>2, <2>1, <2>2, <2>3, <2>4 DEF Delivered
<1> QED  BY <1>3, <1>4

\* What the browser sends stands behind what is on the wire already.
LEMMA DeliveredSent ==
  ASSUME TypeOK, Delivered, NEW f, wire' = Append(wire, f), UNCHANGED <<pc, backlog, lagged, overtaken>>,
         \A q \in Pages : page'[q] = "loaded" => page[q] = "loaded" \/ f = Load(q, "nav")
  PROVE  Delivered'
<1>1. \A q \in Pages : OnWire(q) \/ f = Load(q, "nav") => OnWire(q)'
  <2>1. /\ Len(wire) + 1 \in 1..Len(wire') /\ wire'[Len(wire) + 1] = f
        /\ \A k \in 1..Len(wire) : k \in 1..Len(wire') /\ wire'[k] = wire[k]
    BY DEF TypeOK
  <2> QED  BY <2>1 DEF OnWire, Load
<1> QED  BY <1>1 DEF Delivered, Kept

LEMMA DeliveredStep == TypeOK /\ Delivered /\ [Next]_vars => Delivered'
<1> SUFFICES ASSUME TypeOK, Delivered, [Next]_vars PROVE Delivered'
  OBVIOUS
<1>1. ASSUME NEW p \in Pages, Browser(p) PROVE Delivered'
  <2>1. PICK f : /\ wire' = Append(wire, f) /\ UNCHANGED <<pc, backlog, lagged, overtaken>>
                 /\ \A q \in Pages : page'[q] = "loaded" => page[q] = "loaded" \/ f = Load(q, "nav")
    <3>1. CASE BlankLoads(p)
      BY <3>1 DEF BlankLoads, TypeOK
    <3>2. CASE Commit(p)
      BY <3>2 DEF Commit, TypeOK
    <3>3. CASE LoadFires(p)
      BY <3>3 DEF LoadFires, TypeOK, Load
    <3> QED  BY <1>1, <3>1, <3>2, <3>3 DEF Browser
  <2> QED  BY <2>1, DeliveredSent
<1>2. CASE OtherEvent
  <2>1. /\ wire' = Append(wire, [kind |-> "other"]) /\ UNCHANGED <<pc, backlog, lagged, overtaken>>
        /\ page' = page
    BY <1>2 DEF OtherEvent
  <2> QED  BY <2>1, DeliveredSent
<1>3. CASE ConnectionLost \/ UNCHANGED vars
  BY <1>3 DEF ConnectionLost, vars, Delivered, OnWire, Kept
<1> QED  BY <1>1, <1>2, <1>3, DeliveredTask, DeliveredRead DEF Next

\* For any number of sessions and any capacity: a wait that times out on a page that has loaded
\* missed nothing that was broadcast while it listened (`wait_for_event`, `RecvError::Lagged`).
THEOREM NothingMissed == Spec => TimeoutsHonest
<1>1. Init => Delivered
  BY DEF Init, Delivered
<1>2. TypeOK /\ Delivered /\ [Next]_vars =>
        [\A p \in Pages : pc[p] # "timeout" /\ pc'[p] = "timeout" /\ page[p] = "loaded"
                          => p \in overtaken \/ OnWire(p)]_vars
  <2> SUFFICES ASSUME TypeOK, Delivered, Next, NEW p \in Pages,
                      pc[p] # "timeout", pc'[p] = "timeout", page[p] = "loaded"
               PROVE  p \in overtaken \/ OnWire(p)
    OBVIOUS
  <2>1. Timeout(p)
    <3>1. ASSUME NEW q \in Pages, Task(q) PROVE Timeout(p)
      BY <3>1 DEF Task, CreateTarget, Attach, EnableDomains, SetupFails, SendNavigate, NavigateFails,
         Subscribe, Receive, ReceiveLagged, Timeout, Close, Goto, TypeOK
    <3>2. CASE ReadFrame
      BY <3>2 DEF ReadFrame, Goto, TypeOK
    <3>3. CASE (\E q \in Pages : Browser(q)) \/ OtherEvent \/ ConnectionLost
      BY <3>3 DEF Browser, BlankLoads, Commit, LoadFires, OtherEvent, ConnectionLost
    <3> QED  BY <3>1, <3>2, <3>3 DEF Next
  <2>2. pc[p] = "listening" /\ ~ lagged[p] /\ ~ Kept(p)
    BY <2>1 DEF Timeout, Kept
  <2> QED  BY <2>2 DEF Delivered, Ended
<1> QED  BY <1>1, <1>2, DeliveredStep, TypeCorrect, PTL DEF Spec, TimeoutsHonest
=============================================================================
