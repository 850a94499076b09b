----------------------------- MODULE CdpSession -----------------------------
(***************************************************************************)
(* Page sessions sharing one DevTools connection                           *)
(* (crates/sniff-cdp/src/session.rs): opening a page, navigating it and    *)
(* waiting for its load event, closing it.  Events travel from the browser *)
(* over the connection to the reader task, which broadcasts each of them   *)
(* to every current subscriber; a subscriber keeps at most Capacity unread *)
(* events and is told that it lagged when it missed some.                  *)
(***************************************************************************)
EXTENDS Naturals, Sequences

CONSTANTS Pages,     \* the tasks, each driving one page
          Capacity,  \* of the broadcast channel: 256 in the code
          MaxNoise   \* bound: events no session waits for

ASSUME BoundsNat == Capacity \in Nat \ {0} /\ MaxNoise \in Nat

VARIABLES
  pc,        \* where each task is
  target,    \* the browser's target for each task's page
  page,      \* what the page has got to
  connected, \* the connection is up
  wire,      \* frames on their way to the reader task, in order
  backlog,   \* events broadcast to each listening task and not yet received
  lagged,    \* the listening task's backlog has lost events
  gotLoad,   \* which load event ended the task's wait: "none", "blank" or "nav"
  overtaken, \* history: the pages whose load event was broadcast before their task listened
  noise      \* number of other events emitted

vars == <<pc, target, page, connected, wire, backlog, lagged, gotLoad, overtaken, noise>>

Setup == {"start", "attaching", "enabling", "ready"}
Ended == {"loaded", "timeout", "closed", "navFailed"}
Pc    == Setup \cup {"navigating", "replied", "listening", "failed", "done"} \cup Ended

Event == [kind : {"load"}, page : Pages, of : {"blank", "nav"}] \cup [kind : {"other"}]
Frame == [kind : {"reply"}, page : Pages] \cup Event

Goto(p, l) == pc' = [pc EXCEPT ![p] = l]

Init ==
  /\ pc = [p \in Pages |-> "start"]
  /\ target = [p \in Pages |-> "none"]
  /\ page = [p \in Pages |-> "new"]
  /\ connected = TRUE
  /\ wire = << >>
  /\ backlog = [p \in Pages |-> << >>]
  /\ lagged = [p \in Pages |-> FALSE]
  /\ gotLoad = [p \in Pages |-> "none"]
  /\ overtaken = {}
  /\ noise = 0

-----------------------------------------------------------------------------
(* new_page: Target.createTarget, Target.attachToTarget, enable_domains. *)

CreateTarget(p) ==
  /\ pc[p] = "start" /\ connected
  /\ target' = [target EXCEPT ![p] = "open"]
  /\ Goto(p, "attaching")
  /\ UNCHANGED <<page, connected, wire, backlog, lagged, gotLoad, overtaken, noise>>

Attach(p) ==
  /\ pc[p] = "attaching" /\ connected
  /\ Goto(p, "enabling")
  /\ UNCHANGED <<target, page, connected, wire, backlog, lagged, gotLoad, overtaken, noise>>

EnableDomains(p) ==
  /\ pc[p] = "enabling" /\ connected
  /\ Goto(p, "ready")
  /\ UNCHANGED <<target, page, connected, wire, backlog, lagged, gotLoad, overtaken, noise>>

\* Any of the three calls fails: `?` leaves the target as it is.
SetupFails(p) ==
  /\ pc[p] \in {"start", "attaching", "enabling"}
  /\ Goto(p, "failed")
  /\ UNCHANGED <<target, page, connected, wire, backlog, lagged, gotLoad, overtaken, noise>>

(* navigate *)

SendNavigate(p) ==
  /\ pc[p] = "ready" /\ connected
  /\ page' = [page EXCEPT ![p] = "requested"]
  /\ Goto(p, "navigating")
  /\ UNCHANGED <<target, connected, wire, backlog, lagged, gotLoad, overtaken, noise>>

\* Page.navigate is refused, or cannot be sent.
NavigateFails(p) ==
  /\ pc[p] \in {"ready", "navigating"}
  /\ pc[p] = "ready" => ~connected
  /\ page[p] \in {"new", "blank", "requested"}
  /\ page' = [page EXCEPT ![p] = "blank"]
  /\ Goto(p, "navFailed")
  /\ UNCHANGED <<target, connected, wire, backlog, lagged, gotLoad, overtaken, noise>>

\* wait_for_event subscribes: only events broadcast from now on are seen.
Subscribe(p) ==
  /\ pc[p] = "replied"
  /\ backlog' = [backlog EXCEPT ![p] = << >>]
  /\ lagged' = [lagged EXCEPT ![p] = FALSE]
  /\ Goto(p, "listening")
  /\ UNCHANGED <<target, page, connected, wire, gotLoad, overtaken, noise>>

\* Mutated: the session an event belongs to is not compared
MatchesAnySession(p, ev) == ev.kind = "load"

\* The awaited event: right method, this session.
Matches(p, ev) == ev.kind = "load" /\ ev.page = p

\* The receiver is dropped when the wait is over.
Unsubscribe(p) == backlog' = [backlog EXCEPT ![p] = << >>]

\* rx.recv(): an event to return or to skip.
Receive(p) ==
  /\ pc[p] = "listening" /\ ~lagged[p] /\ backlog[p] # << >>
  /\ LET ev == Head(backlog[p]) IN
     IF Matches(p, ev)
     THEN /\ Goto(p, "loaded")
          /\ gotLoad' = [gotLoad EXCEPT ![p] = ev.of]
          /\ Unsubscribe(p)
     ELSE /\ backlog' = [backlog EXCEPT ![p] = Tail(@)]
          /\ UNCHANGED <<pc, gotLoad>>
  /\ UNCHANGED <<target, page, connected, wire, lagged, overtaken, noise>>

\* Mutated: the events that were lost are passed over, and the wait goes on
SkipLagged(p) ==
  /\ pc[p] = "listening" /\ lagged[p]
  /\ lagged' = [lagged EXCEPT ![p] = FALSE]
  /\ UNCHANGED <<pc, target, page, connected, wire, backlog, gotLoad, overtaken, noise>>

\* rx.recv() reports that the channel overran this receiver: CdpError::Closed.
ReceiveLagged(p) ==
  /\ pc[p] = "listening" /\ lagged[p]
  /\ Goto(p, "closed")
  /\ Unsubscribe(p)
  /\ UNCHANGED <<target, page, connected, wire, lagged, gotLoad, overtaken, noise>>

\* Mutated: the timer does not run while the page is loading
TimeoutUnlessLoading(p) ==
  /\ pc[p] = "listening" /\ ~lagged[p] /\ backlog[p] = << >> /\ page[p] # "committed"
  /\ Goto(p, "timeout")
  /\ Unsubscribe(p)
  /\ UNCHANGED <<target, page, connected, wire, lagged, gotLoad, overtaken, noise>>

\* Sixty seconds are over; the timer is only looked at when there is nothing to receive.
Timeout(p) ==
  /\ pc[p] = "listening" /\ ~lagged[p] /\ backlog[p] = << >>
  /\ Goto(p, "timeout")
  /\ Unsubscribe(p)
  /\ UNCHANGED <<target, page, connected, wire, lagged, gotLoad, overtaken, noise>>

\* The caller closes the session whatever the outcome, and goes on when that fails.
Close(p) ==
  /\ pc[p] \in Ended
  /\ \E answer \in {"closed", target[p]} :
       /\ answer = "closed" => connected
       /\ target' = [target EXCEPT ![p] = answer]
  /\ Goto(p, "done")
  /\ UNCHANGED <<page, connected, wire, backlog, lagged, gotLoad, overtaken, noise>>

-----------------------------------------------------------------------------
(* The reader task. *)

LastOf(s, n) == IF Len(s) <= n THEN s ELSE SubSeq(s, Len(s) - n + 1, Len(s))

\* events.send: every listening task gets the event; one whose backlog is full loses
\* its oldest.
Broadcast(ev) ==
  /\ backlog' = [p \in Pages |-> IF pc[p] = "listening"
                                 THEN LastOf(Append(backlog[p], ev), Capacity)
                                 ELSE backlog[p]]
  /\ lagged' = [p \in Pages |-> lagged[p] \/ (pc[p] = "listening" /\ Len(backlog[p]) = Capacity)]

ReadFrame ==
  /\ wire # << >>
  /\ wire' = Tail(wire)
  /\ LET f == Head(wire) IN
     IF f.kind = "reply"
     THEN /\ IF pc[f.page] = "navigating" THEN Goto(f.page, "replied") ELSE UNCHANGED pc
          /\ UNCHANGED <<backlog, lagged, overtaken>>
     ELSE /\ Broadcast(f)
          /\ overtaken' = overtaken \cup {p \in Pages : /\ f = [kind |-> "load", page |-> p, of |-> "nav"]
                                                       /\ pc[p] # "listening"}
          /\ UNCHANGED pc
  /\ UNCHANGED <<target, page, connected, gotLoad, noise>>

(* The browser. *)

\* The initial about:blank document finishes loading.
BlankLoads(p) ==
  /\ connected /\ page[p] = "new" /\ pc[p] \in {"enabling", "ready"}
  /\ page' = [page EXCEPT ![p] = "blank"]
  /\ wire' = Append(wire, [kind |-> "load", page |-> p, of |-> "blank"])
  /\ UNCHANGED <<pc, target, connected, backlog, lagged, gotLoad, overtaken, noise>>

\* The navigation commits, and Page.navigate is answered.
Commit(p) ==
  /\ connected /\ page[p] = "requested"
  /\ page' = [page EXCEPT ![p] = "committed"]
  /\ wire' = Append(wire, [kind |-> "reply", page |-> p])
  /\ UNCHANGED <<pc, target, connected, backlog, lagged, gotLoad, overtaken, noise>>

\* Page.loadEventFired of the page navigated to.
LoadFires(p) ==
  /\ connected /\ page[p] = "committed"
  /\ page' = [page EXCEPT ![p] = "loaded"]
  /\ wire' = Append(wire, [kind |-> "load", page |-> p, of |-> "nav"])
  /\ UNCHANGED <<pc, target, connected, backlog, lagged, gotLoad, overtaken, noise>>

OtherEvent ==
  /\ connected /\ noise < MaxNoise
  /\ noise' = noise + 1
  /\ wire' = Append(wire, [kind |-> "other"])
  /\ UNCHANGED <<pc, target, page, connected, backlog, lagged, gotLoad, overtaken>>

ConnectionLost ==
  /\ connected
  /\ connected' = FALSE
  /\ UNCHANGED <<pc, target, page, wire, backlog, lagged, gotLoad, overtaken, noise>>

-----------------------------------------------------------------------------
Task(p) == \/ CreateTarget(p) \/ Attach(p) \/ EnableDomains(p) \/ SetupFails(p)
           \/ SendNavigate(p) \/ NavigateFails(p) \/ Subscribe(p) \/ Receive(p)
           \/ ReceiveLagged(p) \/ Timeout(p) \/ Close(p)

Browser(p) == BlankLoads(p) \/ Commit(p) \/ LoadFires(p)

Next == \/ \E p \in Pages : Task(p) \/ Browser(p)
        \/ ReadFrame \/ OtherEvent \/ ConnectionLost

Spec == Init /\ [][Next]_vars

\* Tasks that can run do, the reader reads, and the timer of the wait elapses.  The browser
\* owes nothing: it need not answer Page.navigate, nor ever finish loading a page.
Fairness ==
  /\ WF_vars(ReadFrame)
  /\ \A p \in Pages :
       WF_vars(Subscribe(p)) /\ WF_vars(Receive(p)) /\ WF_vars(ReceiveLagged(p)) /\ WF_vars(Timeout(p))

FairSpec == Spec /\ Fairness

-----------------------------------------------------------------------------
(* Properties. *)

TypeOK ==
  /\ pc \in [Pages -> Pc]
  /\ target \in [Pages -> {"none", "open", "closed"}]
  /\ page \in [Pages -> {"new", "blank", "requested", "committed", "loaded"}]
  /\ connected \in BOOLEAN
  /\ wire \in Seq(Frame)
  /\ backlog \in [Pages -> Seq(Event)]
  /\ \A p \in Pages : Len(backlog[p]) <= Capacity
  /\ lagged \in [Pages -> BOOLEAN]
  /\ gotLoad \in [Pages -> {"none", "blank", "nav"}]
  /\ overtaken \subseteq Pages
  /\ noise \in 0..MaxNoise

\* navigate returns Ok only once the page it navigated to has loaded: never for another
\* session's load event, nor for the late load event of the initial about:blank.
LoadedIsOwnNavigation ==
  \A p \in Pages : pc[p] = "loaded" => gotLoad[p] = "nav" /\ page[p] = "loaded"

\* The load event of a task's navigation is on its way to the reader.
OnWire(p) == \E k \in 1..Len(wire) : wire[k] = [kind |-> "load", page |-> p, of |-> "nav"]

\* A wait that was listening in time misses nothing without being told (RecvError::Lagged): it
\* ends in a timeout on a page that has loaded only if the event is still to be read, or was read
\* before wait_for_event subscribed.
TimeoutsHonest ==
  [][\A p \in Pages : pc[p] # "timeout" /\ pc'[p] = "timeout" /\ page[p] = "loaded"
                        => p \in overtaken \/ OnWire(p)]_vars

\* Once Page.navigate is answered, the wait for the load event ends, whatever the browser, the
\* other sessions and the connection do (wait_for_event).
NavigationEnds ==
  \A p \in Pages : pc[p] \in {"replied", "listening"} ~> pc[p] \in Ended \cup {"done"}

\* "Navigate the current page and wait for the load event": a wait that ends in a timeout
\* ends while the event has not fired.
TimeoutMeansNotLoaded ==
  [][\A p \in Pages : pc[p] # "timeout" /\ pc'[p] = "timeout" => page[p] # "loaded"]_vars

\* CdpError::Closed: "The connection was closed by the peer".
ClosedMeansDisconnected == \A p \in Pages : pc[p] = "closed" => ~connected
=============================================================================
