------------------------------ MODULE JsonRpc ------------------------------
(***************************************************************************)
(* The JSON-RPC client shared by the CDP and the Dart VM Service drivers   *)
(* (crates/sniff-cdp/src/jsonrpc.rs).  Any number of tasks run `call` on   *)
(* one connection; a reader task routes the answers back to them by id and *)
(* hands unsolicited frames to a broadcast channel.                        *)
(*                                                                         *)
(* Each element of Calls is one invocation of `call`, so a oneshot channel *)
(* is named by the call that created it.  Frames that `decode_incoming`    *)
(* rejects and WebSocket control frames change nothing and are left out.   *)
(* A request or an answer carries the call it is about: that is its        *)
(* payload (method, params, result), which the code never looks at to      *)
(* route it.                                                               *)
(***************************************************************************)
EXTENDS Naturals, Sequences

CONSTANTS Calls,      \* the invocations of `call`
          MaxEvents   \* bound: the unsolicited frames the peer emits

ASSUME MaxEventsNat == MaxEvents \in Nat

VARIABLES
  nextId,    \* next_id
  pending,   \* the routing table: request id -> the call whose sender it holds
  pc,        \* where each call is
  callId,    \* the local `id` of each call, 0 before it has one
  oneshot,   \* the oneshot channel each call awaits
  sink,      \* the holder of the sink's mutex, or "free"
  conn,      \* the connection as the peer and the network leave it
  reader,    \* the reader task
  requests,  \* requests the peer has received and not answered
  inbound,   \* frames on the way to the reader, in wire order
  emitted,   \* number of unsolicited frames the peer has emitted
  broadcast, \* number of events handed to the broadcast channel
  served     \* what the peer did for each call

clientVars == <<nextId, pending, pc, callId, oneshot, sink>>
wireVars   == <<conn, reader, requests, inbound, emitted, broadcast, served>>
vars       == <<clientVars, wireVars>>

Outcome  == {"result", "error"}
InFlight == {"numbered", "registered", "sending", "waiting"}
Finished == {"ok", "protocol", "transport", "closed", "cancelled"}

Request == [id : Nat, call : Calls]
Reply   == [kind : {"reply"}, id : Nat, call : Calls, outcome : Outcome, after : Nat]
Event   == [kind : {"event"}]

\* A oneshot channel is empty, holds the reply sent into it, or lost its sender.
Empty   == [kind |-> "empty"]
Dropped == [kind |-> "dropped"]

-----------------------------------------------------------------------------
(* The routing table, a BTreeMap. *)

Insert(m, i, c) == [j \in DOMAIN m \cup {i} |-> IF j = i THEN c ELSE m[j]]
Remove(m, i)    == [j \in DOMAIN m \ {i} |-> m[j]]

\* Dropping a sender that was never used closes the channel of the call it belongs to.
DropSender(i) ==
  IF i \in DOMAIN pending /\ oneshot[pending[i]] = Empty
  THEN [oneshot EXCEPT ![pending[i]] = Dropped]
  ELSE oneshot

\* What `call` returns for what it finds in its channel.
ReturnFor(o) ==
  CASE o.kind = "dropped" -> "closed"
    [] o.kind = "reply" /\ o.outcome = "error" -> "protocol"
    [] OTHER -> "ok"

-----------------------------------------------------------------------------
Init ==
  /\ nextId = 1
  /\ pending = [i \in {} |-> i]
  /\ pc = [c \in Calls |-> "idle"]
  /\ callId = [c \in Calls |-> 0]
  /\ oneshot = [c \in Calls |-> Empty]
  /\ sink = "free"
  /\ conn = "open"
  /\ reader = "running"
  /\ requests = {}
  /\ inbound = << >>
  /\ emitted = 0
  /\ broadcast = 0
  /\ served = [c \in Calls |-> "no"]

(* ---- call ---- *)

\* Mutated: the counter is read and written back separately, and an increment is lost
NumberLosesUpdate(c) ==
  /\ pc[c] = "idle"
  /\ callId' = [callId EXCEPT ![c] = nextId]
  /\ nextId' \in {nextId, nextId + 1}
  /\ pc' = [pc EXCEPT ![c] = "numbered"]
  /\ UNCHANGED <<pending, oneshot, sink, wireVars>>

\* next_id.fetch_add(1)
Number(c) ==
  /\ pc[c] = "idle"
  /\ callId' = [callId EXCEPT ![c] = nextId]
  /\ nextId' = nextId + 1
  /\ pc' = [pc EXCEPT ![c] = "numbered"]
  /\ UNCHANGED <<pending, oneshot, sink, wireVars>>

\* pending.insert(id, tx); a sender it displaces is dropped
Register(c) ==
  /\ pc[c] = "numbered"
  /\ oneshot' = DropSender(callId[c])
  /\ pending' = Insert(pending, callId[c], c)
  /\ pc' = [pc EXCEPT ![c] = "registered"]
  /\ UNCHANGED <<nextId, callId, sink, wireVars>>

\* sink.lock().await
LockSink(c) ==
  /\ pc[c] = "registered"
  /\ sink = "free"
  /\ sink' = c
  /\ pc' = [pc EXCEPT ![c] = "sending"]
  /\ UNCHANGED <<nextId, pending, callId, oneshot, wireVars>>

\* The request reaches the peer.
Deliver(c) == requests' = requests \cup {[id |-> callId[c], call |-> c]}

\* sink.send(..) succeeds.  A frame written after the peer is gone, and before the
\* reader has noticed, is accepted by the operating system and lost.
SendOk(c) ==
  /\ pc[c] = "sending"
  /\ \/ /\ conn = "open"
        /\ Deliver(c)
     \/ /\ conn = "closed"
        /\ reader = "running"
        /\ UNCHANGED requests
  /\ sink' = "free"
  /\ pc' = [pc EXCEPT ![c] = "waiting"]
  /\ UNCHANGED <<nextId, pending, callId, oneshot, conn, reader, inbound, emitted,
                 broadcast, served>>

\* sink.send(..) fails: `?` returns at once and the table keeps the entry.
SendFails(c) ==
  /\ pc[c] = "sending"
  /\ conn # "open"
  /\ sink' = "free"
  /\ pc' = [pc EXCEPT ![c] = "transport"]
  /\ UNCHANGED <<nextId, pending, callId, oneshot, wireVars>>

\* rx.await is over: the table entry is removed once more and the value decoded.
Return(c) ==
  /\ pc[c] = "waiting"
  /\ oneshot[c] # Empty
  /\ pc' = [pc EXCEPT ![c] = ReturnFor(oneshot[c])]
  /\ oneshot' = IF oneshot[c] = Dropped THEN oneshot ELSE DropSender(callId[c])
  /\ pending' = IF oneshot[c] = Dropped THEN pending ELSE Remove(pending, callId[c])
  /\ UNCHANGED <<nextId, callId, sink, wireVars>>

\* Mutated: a call that is given up cleans the table, all of it
CancelClearsTable(c) ==
  /\ pc[c] \in {"registered", "sending", "waiting"}
  /\ sink' = IF sink = c THEN "free" ELSE sink
  /\ pc' = [pc EXCEPT ![c] = "cancelled"]
  /\ pending' = [i \in {} |-> i]
  /\ UNCHANGED <<nextId, callId, oneshot, wireVars>>

\* Mutated: a wait that times out is reported as a transport failure
CancelAsTransport(c) ==
  /\ pc[c] \in {"registered", "sending", "waiting"}
  /\ sink' = IF sink = c THEN "free" ELSE sink
  /\ pc' = [pc EXCEPT ![c] = "transport"]
  /\ UNCHANGED <<nextId, pending, callId, oneshot, wireVars>>

\* The future is dropped at one of its awaits (a timeout around it elapsed).  The sink
\* may already have taken the frame; the table keeps the entry.
Cancel(c) ==
  /\ pc[c] \in {"registered", "sending", "waiting"}
  /\ \/ UNCHANGED requests
     \/ pc[c] = "sending" /\ conn = "open" /\ Deliver(c)
  /\ sink' = IF sink = c THEN "free" ELSE sink
  /\ pc' = [pc EXCEPT ![c] = "cancelled"]
  /\ UNCHANGED <<nextId, pending, callId, oneshot, conn, reader, inbound, emitted,
                 broadcast, served>>

\* close(): takes the sink's lock and sends a Close frame.
Close ==
  /\ sink = "free"
  /\ conn = "open"
  /\ conn' = "closing"
  /\ UNCHANGED <<clientVars, reader, requests, inbound, emitted, broadcast, served>>

(* ---- the reader task ---- *)

\* Mutated: an answer with an error is taken for an event
DispatchDropsErrors(f) ==
  IF f.kind = "reply" /\ f.outcome = "result"
  THEN /\ IF f.id \in DOMAIN pending
          THEN /\ oneshot' = [oneshot EXCEPT ![pending[f.id]] = f]
               /\ pending' = Remove(pending, f.id)
          ELSE UNCHANGED <<oneshot, pending>>
       /\ UNCHANGED broadcast
  ELSE /\ broadcast' = broadcast + 1
       /\ UNCHANGED <<oneshot, pending>>

\* dispatch: a reply goes to the sender its id is mapped to, an event to the bus.
Dispatch(f) ==
  IF f.kind = "reply"
  THEN /\ IF f.id \in DOMAIN pending
          THEN /\ oneshot' = [oneshot EXCEPT ![pending[f.id]] = f]
               /\ pending' = Remove(pending, f.id)
          ELSE UNCHANGED <<oneshot, pending>>
       /\ UNCHANGED broadcast
  ELSE /\ broadcast' = broadcast + 1
       /\ UNCHANGED <<oneshot, pending>>

\* Mutated: replies overtake the events in front of them
ReadRepliesFirst ==
  /\ reader = "running"
  /\ \E k \in 1..Len(inbound) :
       /\ k = 1 \/ inbound[k].kind = "reply"
       /\ Dispatch(inbound[k])
       /\ inbound' = SubSeq(inbound, 1, k - 1) \o SubSeq(inbound, k + 1, Len(inbound))
  /\ UNCHANGED <<nextId, pc, callId, sink, conn, reader, requests, emitted, served>>

Read ==
  /\ reader = "running"
  /\ inbound # << >>
  /\ Dispatch(Head(inbound))
  /\ inbound' = Tail(inbound)
  /\ UNCHANGED <<nextId, pc, callId, sink, conn, reader, requests, emitted, served>>

\* A Close frame, the end of the stream, or a read error (a frame over the size limit
\* on a healthy connection, say): the loop breaks, and the task ends touching nothing.
ReaderEnds ==
  /\ reader = "running"
  /\ \/ conn = "closed" /\ inbound = << >>
     \/ conn # "closed" /\ inbound # << >>
  /\ reader' = "ended"
  /\ UNCHANGED <<clientVars, conn, requests, inbound, emitted, broadcast, served>>

(* ---- the peer: Chrome, or the Dart VM ---- *)

\* The peer answers the requests it has received in any order.
Answer(r) ==
  /\ conn # "closed"
  /\ r \in requests
  /\ requests' = requests \ {r}
  /\ \E o \in Outcome :
       /\ served' = [served EXCEPT ![r.call] = o]
       /\ inbound' = Append(inbound, [kind |-> "reply", id |-> r.id, call |-> r.call,
                                      outcome |-> o, after |-> emitted])
  /\ UNCHANGED <<clientVars, conn, reader, emitted, broadcast>>

Emit ==
  /\ conn # "closed"
  /\ emitted < MaxEvents
  /\ emitted' = emitted + 1
  /\ inbound' = Append(inbound, [kind |-> "event"])
  /\ UNCHANGED <<clientVars, conn, reader, requests, broadcast, served>>

\* The peer closes or dies; a tail of what it had written may be lost with it.
PeerGone ==
  /\ conn # "closed"
  /\ conn' = "closed"
  /\ requests' = {}
  /\ \E n \in 0..Len(inbound) : inbound' = SubSeq(inbound, 1, n)
  /\ UNCHANGED <<clientVars, reader, emitted, broadcast, served>>

-----------------------------------------------------------------------------
Caller(c) == \/ Number(c) \/ Register(c) \/ LockSink(c) \/ SendOk(c) \/ SendFails(c)
             \/ Return(c) \/ Cancel(c)

Next == \/ \E c \in Calls : Caller(c)
        \/ Close \/ Read \/ ReaderEnds
        \/ \E r \in requests : Answer(r)
        \/ Emit \/ PeerGone

Spec == Init /\ [][Next]_vars

\* The runtime polls every task that can run, and the peer answers what it received.
\* Nothing makes a caller start, give up or close, or the peer emit or go away.
Fairness ==
  /\ \A c \in Calls : /\ WF_vars(Register(c)) /\ WF_vars(LockSink(c))
                      /\ WF_vars(SendOk(c) \/ SendFails(c)) /\ WF_vars(Return(c))
  /\ WF_vars(Read)
  /\ WF_vars(reader = "running" /\ conn = "closed" /\ inbound = << >> /\ ReaderEnds)
  /\ WF_vars(\E r \in requests : Answer(r))

FairSpec == Spec /\ Fairness
-----------------------------------------------------------------------------
(* Properties. *)

\* Types; every id in the table has been handed out.
TypeOK ==
  /\ nextId \in Nat \ {0}
  /\ DOMAIN pending \subseteq 1..(nextId - 1)
  /\ pending \in [DOMAIN pending -> Calls]
  /\ pc \in [Calls -> {"idle"} \cup InFlight \cup Finished]
  /\ callId \in [Calls -> Nat]
  /\ oneshot \in [Calls -> Reply \cup {Empty, Dropped}]
  /\ sink \in Calls \cup {"free"}
  /\ conn \in {"open", "closing", "closed"}
  /\ reader \in {"running", "ended"}
  /\ requests \subseteq Request
  /\ inbound \in Seq(Reply \cup Event)
  /\ emitted \in Nat
  /\ broadcast \in Nat
  /\ served \in [Calls -> Outcome \cup {"no"}]

\* Whatever order calls are numbered, registered, sent, given up and answered in, the
\* value put into a call's oneshot channel is what the peer answered to that very call.
RoutedToOwnCall ==
  \A c \in Calls : oneshot[c].kind = "reply" =>
    oneshot[c].call = c /\ oneshot[c].outcome = served[c]

\* From the moment its frame can be sent until its answer arrives, a call stays in the
\* table under its own id: no answer to a call that still waits is thrown away, however
\* early it comes and whatever other calls do to the table meanwhile.
AnswerFindsItsCall ==
  \A c \in Calls :
    pc[c] \in {"registered", "sending", "waiting"} /\ oneshot[c] = Empty =>
      callId[c] \in DOMAIN pending /\ pending[callId[c]] = c

\* No sender is dropped unused, so the error `Closed` that `call` keeps for a closed
\* connection is never returned: see CallsReturn.
ClosedUnreachable == \A c \in Calls : oneshot[c] # Dropped /\ pc[c] # "closed"

\* When a call's answer is available to it, every event the peer emitted before that
\* answer has already been handed to the broadcast channel (a subscriber that existed
\* then has it in its queue).
EventsPrecedeReply ==
  \A c \in Calls : oneshot[c].kind = "reply" => oneshot[c].after <= broadcast

\* The client implements the abstract service: served at most once, own answer, and a
\* transport error only for a request the peer never served.
StatusOf(p) == IF p \in InFlight THEN "open" ELSE p
Service == INSTANCE RpcService WITH status <- [c \in Calls |-> StatusOf(pc[c])]
RefinesService == Service!Spec

\* As long as the connection and the reader live, a call that waits gets its answer.
Answered ==
  \A c \in Calls :
    pc[c] = "waiting" ~> (pc[c] \in Finished \/ reader = "ended" \/ conn # "open")

\* "`id -> oneshot` routing table for in-flight requests": nothing else is in it.
PendingOnlyInFlight == \A i \in DOMAIN pending : pc[pending[i]] \in InFlight

\* A call that waits when "the connection was closed by the peer" returns (with `Closed`).
CallsReturn ==
  \A c \in Calls : (pc[c] = "waiting" /\ conn = "closed") ~> pc[c] \in Finished
=============================================================================
