----------------------------- MODULE NetworkIdle -----------------------------
(***************************************************************************)
(* The `network-idle` wait strategy (crates/sniff-engine/src/waiter.rs,    *)
(* wait_network_idle): a page's requests start, are redirected and end;    *)
(* the waiter counts the events it receives and decides that the page is   *)
(* idle.                                                                   *)
(*                                                                         *)
(* One tick of time is one POLL_INTERVAL.  Events between the page and the *)
(* waiter (the wire, the reader and the broadcast channel) are one queue.  *)
(***************************************************************************)
EXTENDS Integers, Sequences, FiniteSets

CONSTANTS Requests,      \* the requests the page may have in flight
          IdleTicks,     \* idle_ms
          GraceTicks,    \* IDLE_GRACE_MS
          BudgetTicks,   \* timeout_ms
          Capacity,      \* capacity of the event channel
          MaxRedirects   \* bound: redirects in all

ASSUME RequestsFinite == IsFiniteSet(Requests)
ASSUME TimesNat == /\ IdleTicks \in Nat /\ GraceTicks \in Nat /\ BudgetTicks \in Nat
                   /\ Capacity \in Nat \ {0} /\ MaxRedirects \in Nat

VARIABLES
  inFlightReqs, \* the requests really in flight
  redirects,    \* number of redirects so far
  queue,        \* events not yet received, oldest first
  lagged,       \* the channel has dropped an event the waiter had not read
  missed,       \* requests whose start was announced too early to be received, their end not
  pc,           \* the waiter
  inFlight,     \* in_flight
  seenAny,      \* seen_any
  quiet,        \* last_active.elapsed()
  elapsed       \* start.elapsed()

requests   == <<inFlightReqs, redirects>>
waiter == <<pc, inFlight, seenAny, quiet, elapsed>>
idleVars   == <<requests, queue, lagged, missed, waiter>>

Over == {"idle", "timeout", "closed"}
Event    == [kind : {"sent", "ended"}, req : Requests]

AtMost(n, max) == IF n > max THEN max ELSE n
Monus(n, k)    == IF n < k THEN 0 ELSE n - k

\* Time passes.  Each clock runs up to the largest value it is compared with.
Quiet(q)   == AtMost(q, IdleTicks + GraceTicks)
Elapsed(e) == AtMost(e, BudgetTicks)

Unread(kind) == Cardinality({k \in 1..Len(queue) : queue[k].kind = kind})

IdleInit ==
  /\ inFlightReqs = {}
  /\ redirects = 0
  /\ queue = << >>
  /\ lagged = FALSE
  /\ missed = 0
  /\ pc = "loading"
  /\ inFlight = 0
  /\ seenAny = FALSE
  /\ quiet = 0
  /\ elapsed = 0

-----------------------------------------------------------------------------
(* The page. *)

\* Chrome announces an event; a full channel drops its oldest one.
Announce(kind, r) ==
  LET q == Append(queue, [kind |-> kind, req |-> r])
  IN  IF Len(q) > Capacity
      THEN queue' = Tail(q) /\ lagged' = (pc # "loading")
      ELSE queue' = q /\ UNCHANGED lagged

Start(r) ==
  /\ pc \notin Over
  /\ r \notin inFlightReqs
  /\ inFlightReqs' = inFlightReqs \cup {r}
  /\ Announce("sent", r)
  /\ UNCHANGED <<redirects, missed, waiter>>

\* A redirect announces the request once more and ends it only once.
Redirect(r) ==
  /\ pc \notin Over
  /\ r \in inFlightReqs
  /\ redirects < MaxRedirects
  /\ redirects' = redirects + 1
  /\ Announce("sent", r)
  /\ UNCHANGED <<inFlightReqs, missed, waiter>>

\* Network.loadingFinished, Network.loadingFailed
End(r) ==
  /\ pc \notin Over
  /\ r \in inFlightReqs
  /\ inFlightReqs' = inFlightReqs \ {r}
  /\ Announce("ended", r)
  /\ UNCHANGED <<redirects, missed, waiter>>

-----------------------------------------------------------------------------
(* The waiter. *)

\* Nothing of a request's start is left in what remains of the queue q, but its end is
\* there or still to come.
StartMissed(r, q) ==
  LET own == {k \in 1..Len(q) : q[k].req = r}
  IN  \/ own = {} /\ r \in inFlightReqs
      \/ \E k \in own : q[k].kind = "ended" /\ \A j \in own : k <= j

\* session.subscribe(): the events that the reader has handed out by now are gone.
Subscribe ==
  /\ pc = "loading"
  /\ \E k \in 0..Len(queue) :
       LET rest == SubSeq(queue, k + 1, Len(queue))
       IN  /\ queue' = rest
           /\ missed' = Cardinality({r \in Requests : StartMissed(r, rest)})
  /\ pc' = "check"
  /\ UNCHANGED <<requests, lagged, inFlight, seenAny, quiet, elapsed>>

CountedIdle == inFlight = 0 /\ quiet >= IdleTicks
GracePassed == seenAny /\ quiet >= IdleTicks + GraceTicks

\* The top of the loop.
ReturnIdle ==
  /\ pc = "check"
  /\ CountedIdle \/ GracePassed
  /\ pc' = "idle"
  /\ UNCHANGED <<requests, queue, lagged, missed, inFlight, seenAny, quiet, elapsed>>

\* Mutated: the budget runs from the last activity
BudgetFromActivity ==
  /\ pc = "check"
  /\ ~ CountedIdle /\ ~ GracePassed
  /\ pc' = IF quiet >= BudgetTicks THEN "timeout" ELSE "select"
  /\ UNCHANGED <<requests, queue, lagged, missed, inFlight, seenAny, quiet, elapsed>>

Check ==
  /\ pc = "check"
  /\ ~ CountedIdle /\ ~ GracePassed
  /\ pc' = IF elapsed >= BudgetTicks THEN "timeout" ELSE "select"
  /\ UNCHANGED <<requests, queue, lagged, missed, inFlight, seenAny, quiet, elapsed>>

\* The sleep branch of the select: POLL_INTERVAL passed without an event.
Sleep ==
  /\ pc = "select"
  /\ quiet' = Quiet(quiet + 1)
  /\ elapsed' = Elapsed(elapsed + 1)
  /\ pc' = "check"
  /\ UNCHANGED <<requests, queue, lagged, missed, inFlight, seenAny>>

\* Mutated: any request in flight is one request in flight
CountAsFlag(e) ==
  IF e.kind = "sent" THEN inFlight' = 1 /\ seenAny' = TRUE
                     ELSE inFlight' = 0 /\ UNCHANGED seenAny

\* What an event does to the counter.
Count(e) ==
  IF e.kind = "sent" THEN inFlight' = inFlight + 1 /\ seenAny' = TRUE
                     ELSE inFlight' = Monus(inFlight, 1) /\ UNCHANGED seenAny

\* The event branch, d ticks after the loop came to rest.
Receive(d) ==
  /\ pc = "select"
  /\ ~ lagged
  /\ queue # << >>
  /\ Count(Head(queue))
  /\ quiet' = 0
  /\ elapsed' = Elapsed(elapsed + d)
  /\ queue' = Tail(queue)
  /\ pc' = "check"
  /\ UNCHANGED <<requests, lagged, missed>>

\* The channel reports the dropped events.
ReceiveLagged ==
  /\ pc = "select"
  /\ lagged
  /\ pc' = "closed"
  /\ UNCHANGED <<requests, queue, lagged, missed, inFlight, seenAny, quiet, elapsed>>

-----------------------------------------------------------------------------
Network   == \E r \in Requests : Start(r) \/ Redirect(r) \/ End(r)
Waiter == \/ Subscribe \/ ReturnIdle \/ Check \/ Sleep \/ ReceiveLagged
          \/ \E d \in {0, 1} : Receive(d)

IdleNext == Network \/ Waiter

IdleSpec == IdleInit /\ [][IdleNext]_idleVars

\* The task is polled, and time passes however many events arrive.
IdleFairSpec == IdleSpec /\ WF_idleVars(Waiter) /\ SF_idleVars(Sleep \/ Receive(1))

-----------------------------------------------------------------------------
(* Properties. *)

IdleTypeOK ==
  /\ inFlightReqs \subseteq Requests
  /\ redirects \in 0..MaxRedirects
  /\ queue \in Seq(Event) /\ Len(queue) <= Capacity
  /\ lagged \in BOOLEAN
  /\ missed \in 0..Cardinality(Requests)
  /\ pc \in {"loading", "check", "select"} \cup Over
  /\ inFlight \in Nat
  /\ seenAny \in BOOLEAN
  /\ quiet \in 0..(IdleTicks + GraceTicks)
  /\ elapsed \in 0..BudgetTicks

\* "In-flight counting is deliberately conservative": with the events still to be read,
\* the counter is short of the requests really in flight by no more than the starts that
\* were announced before the subscription, whatever is redirected and however the
\* counter saturates.
CounterConservative ==
  pc \in {"check", "select"} /\ ~ lagged =>
    Cardinality(inFlightReqs) + Unread("ended") <= inFlight + Unread("sent") + missed

\* Idle by the counter: a waiter that missed no start does not call the page idle while
\* a request is in flight, unless the news of it has not arrived.
IdleIsIdle ==
  [][pc = "check" /\ pc' = "idle" /\ CountedIdle /\ missed = 0 /\ ~ lagged =>
       \A r \in inFlightReqs : \E k \in 1..Len(queue) : queue[k] = [kind |-> "sent", req |-> r]]_idleVars

\* The wait ends within its budget on a page that never stops requesting.
WaitEnds == pc = "check" ~> pc \in Over

\* "Wait until no network requests are in flight": the same without the proviso about
\* requests that started before the wait.
IdleMeansNoRequests ==
  [][pc = "check" /\ pc' = "idle" /\ CountedIdle /\ ~ lagged =>
       \A r \in inFlightReqs : \E k \in 1..Len(queue) : queue[k] = [kind |-> "sent", req |-> r]]_idleVars
=============================================================================
