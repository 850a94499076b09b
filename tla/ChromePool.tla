----------------------------- MODULE ChromePool -----------------------------
(***************************************************************************)
(* The browser pool behind the MCP tools                                   *)
(* (crates/sniff-css-mcp/src/browser.rs): calls share one browser under a  *)
(* semaphore; a call that sees the transport die relaunches the browser    *)
(* and runs once more.                                                     *)
(*                                                                         *)
(* Browsers are numbered in the order they are launched.  What a dying     *)
(* browser does to the call a job is awaiting is what JsonRpc shows: the   *)
(* call never returns, while a call sent later fails at once.              *)
(***************************************************************************)
EXTENDS Naturals, FiniteSets

CONSTANTS Jobs,            \* the invocations of sniff_with
          Permits,         \* DEFAULT_CONCURRENCY
          MaxBrowsers,     \* bound: browsers launched in all
          MaxCrashes,      \* bound: browsers that die
          MaxFalseAlarms   \* bound: transport-looking errors from a healthy browser

ASSUME JobsFinite  == IsFiniteSet(Jobs)
ASSUME BoundsNat   == /\ Permits \in Nat \ {0} /\ MaxBrowsers \in Nat \ {0}
                      /\ MaxCrashes \in Nat /\ MaxFalseAlarms \in Nat

VARIABLES
  pc,       \* where each job is
  permits,  \* permits left in the semaphore
  current,  \* the sniffer in the RwLock
  first,    \* the sniffer that each job cloned for its first run, 0 for none
  second,   \* the one that it launches for a relaunch, then the one cloned for the second run
  hung,     \* jobs awaiting a reply that does not come
  alive,    \* browsers whose process runs
  launched, \* number of browsers launched
  crashes, alarms

vars == <<pc, permits, current, first, second, hung, alive, launched, crashes, alarms>>

Running  == {"running", "rerunning"}
Holding  == {"holding", "relaunching", "replacing", "relaunched"} \cup Running
Finished == {"ok", "error"}

Holders == {j \in Jobs : pc[j] \in Holding}

\* The browser that a running job runs on.
RunsOn(j) == IF pc[j] = "rerunning" THEN second[j] ELSE first[j]

\* Whom an Arc<Sniffer> refers to.
Referenced(c, f, s) == {c} \cup {f[j] : j \in Jobs} \cup {s[j] : j \in Jobs}

Goto(j, l) == pc' = [pc EXCEPT ![j] = l]

Init ==
  /\ pc = [j \in Jobs |-> "idle"]
  /\ permits = Permits
  /\ current = 1
  /\ first = [j \in Jobs |-> 0]
  /\ second = [j \in Jobs |-> 0]
  /\ hung = {}
  /\ alive = {1}
  /\ launched = 1
  /\ crashes = 0
  /\ alarms = 0

-----------------------------------------------------------------------------
(* sniff_with *)

Call(j) ==
  /\ pc[j] = "idle"
  /\ Goto(j, "queued")
  /\ UNCHANGED <<permits, current, first, second, hung, alive, launched, crashes, alarms>>

\* semaphore.acquire_owned().await
Acquire(j) ==
  /\ pc[j] = "queued"
  /\ permits > 0
  /\ permits' = permits - 1
  /\ Goto(j, "holding")
  /\ UNCHANGED <<current, first, second, hung, alive, launched, crashes, alarms>>

\* sniffer.read().await.clone()
ReadSniffer(j) ==
  /\ pc[j] = "holding"
  /\ first' = [first EXCEPT ![j] = current]
  /\ Goto(j, "running")
  /\ UNCHANGED <<permits, current, second, hung, alive, launched, crashes, alarms>>

\* Mutated: the error path forgets the permit
FinishKeepsPermit(j, result) ==
  /\ permits' = IF result = "ok" THEN permits + 1 ELSE permits
  /\ first' = [first EXCEPT ![j] = 0]
  /\ second' = [second EXCEPT ![j] = 0]
  /\ alive' = alive \ ({first[j], second[j]} \ Referenced(current, first', second'))
  /\ Goto(j, result)

\* The job returns: it drops its sniffers, with the last reference to one goes its process
\* (BrowserProcess::drop), and the permit goes back.
Finish(j, result) ==
  /\ permits' = permits + 1
  /\ first' = [first EXCEPT ![j] = 0]
  /\ second' = [second EXCEPT ![j] = 0]
  /\ alive' = alive \ ({first[j], second[j]} \ Referenced(current, first', second'))
  /\ Goto(j, result)

\* run ends well, or with an error of the page or the configuration.
RunEnds(j) ==
  /\ pc[j] \in Running
  /\ RunsOn(j) \in alive
  /\ \E r \in Finished : Finish(j, r)
  /\ UNCHANGED <<current, hung, launched, crashes, alarms>>

\* is_transport_error(e): the first run leads to a relaunch, the second one is final.
TransportError(j) ==
  \/ pc[j] = "running" /\ Goto(j, "relaunching") /\ UNCHANGED <<permits, first, second, alive>>
  \/ pc[j] = "rerunning" /\ Finish(j, "error")

\* A healthy browser, and an error whose text reads like a lost connection: a lagged
\* event subscription, "Target closed".
FalseAlarm(j) ==
  /\ pc[j] \in Running
  /\ RunsOn(j) \in alive
  /\ alarms < MaxFalseAlarms
  /\ alarms' = alarms + 1
  /\ TransportError(j)
  /\ UNCHANGED <<current, hung, launched, crashes>>

\* The browser is dead and the next call fails to be sent.  An action step wraps that
\* error, and a wait for an event times out instead: neither is a transport error.
RunFindsDead(j) ==
  /\ pc[j] \in Running
  /\ RunsOn(j) \notin alive
  /\ TransportError(j) \/ Finish(j, "error")
  /\ UNCHANGED <<current, hung, launched, crashes, alarms>>

\* Sniffer::launch: a browser runs that nobody else knows of yet.
Relaunch(j) ==
  /\ pc[j] = "relaunching"
  /\ launched < MaxBrowsers
  /\ launched' = launched + 1
  /\ alive' = alive \cup {launched + 1}
  /\ second' = [second EXCEPT ![j] = launched + 1]
  /\ Goto(j, "replacing")
  /\ UNCHANGED <<permits, current, first, hung, crashes, alarms>>

\* It replaces whatever is there, which is killed here if no job has cloned it.
Replace(j) ==
  /\ pc[j] = "replacing"
  /\ current' = second[j]
  /\ second' = [second EXCEPT ![j] = 0]
  /\ alive' = alive \ ({current} \ Referenced(current', first, second'))
  /\ Goto(j, "relaunched")
  /\ UNCHANGED <<permits, first, hung, launched, crashes, alarms>>

\* Mutated: a browser that was spawned and could not be connected to is left running
RelaunchFailsOnly(j) ==
  /\ pc[j] \in {"relaunching", "replacing"}
  /\ second' = [second EXCEPT ![j] = 0]
  /\ Goto(j, "relaunched")
  /\ UNCHANGED <<permits, current, first, hung, alive, launched, crashes, alarms>>

\* The launch fails, at any point of it: logged, and the old browser stays.
RelaunchFails(j) ==
  /\ pc[j] \in {"relaunching", "replacing"}
  /\ second' = [second EXCEPT ![j] = 0]
  /\ alive' = alive \ {second[j]}
  /\ Goto(j, "relaunched")
  /\ UNCHANGED <<permits, current, first, hung, launched, crashes, alarms>>

\* The current sniffer is read again, and the job runs on it; the first one is still held.
ReadAgain(j) ==
  /\ pc[j] = "relaunched"
  /\ second' = [second EXCEPT ![j] = current]
  /\ Goto(j, "rerunning")
  /\ UNCHANGED <<permits, current, first, hung, alive, launched, crashes, alarms>>

\* An answer that the run, or the launch, awaits without a timeout does not come: a page
\* under a dialog, a navigation that is not answered.
Stall(j) ==
  /\ pc[j] \in Running \cup {"relaunching", "replacing"}
  /\ hung' = hung \cup {j}
  /\ UNCHANGED <<pc, permits, current, first, second, alive, launched, crashes, alarms>>

(* The environment. *)

\* A browser dies.  The jobs that await one of its replies, any of those running on it,
\* wait for ever.
Crash(b) ==
  /\ b \in alive
  /\ crashes < MaxCrashes
  /\ crashes' = crashes + 1
  /\ alive' = alive \ {b}
  /\ \E caught \in SUBSET {j \in Jobs : pc[j] \in Running /\ RunsOn(j) = b} :
       hung' = hung \cup caught
  /\ UNCHANGED <<pc, permits, current, first, second, launched, alarms>>

-----------------------------------------------------------------------------
\* A job that hangs goes no further.
Job(j) ==
  /\ j \notin hung
  /\ \/ Acquire(j) \/ ReadSniffer(j) \/ RunEnds(j) \/ FalseAlarm(j) \/ RunFindsDead(j)
     \/ Relaunch(j) \/ Replace(j) \/ RelaunchFails(j) \/ ReadAgain(j)

Next == \/ \E j \in Jobs : Call(j) \/ Job(j) \/ (j \notin hung /\ Stall(j))
        \/ \E b \in 1..MaxBrowsers : Crash(b)

Spec == Init /\ [][Next]_vars

\* The runtime polls every job that can go on, and the semaphore is fair.  A job goes on as long
\* as what it awaits arrives; nothing says that it does (Stall, Crash).
FairSpec == Spec /\ \A j \in Jobs : SF_vars(Acquire(j)) /\ WF_vars(Job(j))

-----------------------------------------------------------------------------
(* Properties. *)

TypeOK ==
  /\ pc \in [Jobs -> {"idle", "queued"} \cup Holding \cup Finished]
  /\ permits \in Nat
  /\ launched \in 1..MaxBrowsers
  /\ current \in 1..launched
  /\ first \in [Jobs -> 0..launched]
  /\ second \in [Jobs -> 0..launched]
  /\ hung \subseteq Jobs
  /\ alive \subseteq 1..launched
  /\ crashes \in 0..MaxCrashes
  /\ alarms \in 0..MaxFalseAlarms

\* "Concurrency is bounded by a semaphore": through errors, relaunches and retries, every
\* permit is either in the semaphore or with exactly one unfinished job.
PermitsConserved == permits + Cardinality(Holders) = Permits

\* However many calls relaunch, one after the other or at once, and whether their launches fail:
\* each call past the semaphore keeps at most two browsers running, and the current one is
\* another only as long as a permit is free (`relaunch`, the two sniffers of `sniff_with`).
BrowsersBounded ==
  Cardinality(alive) <= 2 * (Permits - permits) + (IF permits = 0 THEN 0 ELSE 1)

\* A call that waits in line comes to an end, or hangs itself: one that hangs costs no more than
\* its own permit, so that the others wait for ever only when every permit is lost that way.
JobsFinish ==
  \A j \in Jobs :
    pc[j] = "queued" ~> pc[j] \in Finished \/ j \in hung \/ Cardinality(hung) >= Permits

\* "A crashed browser is relaunched transparently (best effort) on the next call": a
\* call made after a crash comes to an end.
CrashRecovered == \A j \in Jobs : pc[j] = "queued" ~> pc[j] \in Finished

\* "One headless Chrome process is launched once and reused across tool calls": only a
\* dead browser is replaced.
OnlyDeadReplaced == [][current' # current => current \notin alive]_vars
=============================================================================
