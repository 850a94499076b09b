--------------------------- MODULE JsonRpcProofs ---------------------------
(***************************************************************************)
(* Proofs about JsonRpc, for any set of calls and any number of events.    *)
(*                                                                         *)
(* The argument: ids are handed out once, so an id names one call.  The    *)
(* table, the peer's requests and the answers on the wire each pair an id  *)
(* with the call it was handed to.  A reply looked up by id therefore      *)
(* finds the sender of the call that asked, and inserting or removing the  *)
(* entry of one call never touches the entry of another.                   *)
(***************************************************************************)
EXTENDS JsonRpc, FiniteSetTheorems, FunctionTheorems, TLAPS

\* A call has an id from the moment it is numbered.
IdsHandedOut ==
  \A c \in Calls : IF pc[c] = "idle" THEN callId[c] = 0 ELSE callId[c] \in 1..(nextId - 1)

\* Two calls never have the same id.
UniqueIds == \A c, d \in Calls : callId[c] = callId[d] /\ callId[c] # 0 => c = d

\* A table entry belongs to the call its key was handed to, which has registered it.
PendingOwn ==
  \A i \in DOMAIN pending :
    callId[pending[i]] = i /\ pc[pending[i]] \notin {"idle", "numbered"}

\* A request at the peer carries its call's id, and has not been served.
RequestsOwn ==
  \A r \in requests : /\ callId[r.call] = r.id
                      /\ pc[r.call] \in {"waiting", "cancelled"}
                      /\ served[r.call] = "no"

\* An answer on the wire carries its call's id and what the peer did for it.
InboundOwn ==
  \A k \in 1..Len(inbound) : inbound[k].kind = "reply" =>
    /\ callId[inbound[k].call] = inbound[k].id
    /\ pc[inbound[k].call] \in {"waiting"} \cup Finished
    /\ inbound[k].outcome = served[inbound[k].call]

\* A call whose frame has not been sent has not been served.
UnsentUnserved ==
  \A c \in Calls : pc[c] \in {"idle", "numbered", "registered", "sending"} =>
    served[c] = "no"

\* The inductive invariant.
IInv == /\ TypeOK /\ IdsHandedOut /\ UniqueIds /\ PendingOwn /\ RequestsOwn /\ InboundOwn
        /\ UnsentUnserved /\ RoutedToOwnCall /\ AnswerFindsItsCall /\ ClosedUnreachable

-----------------------------------------------------------------------------
USE DEF Outcome, InFlight, Finished, Empty, Dropped

LEMMA InitIInv == Init => IInv
BY MaxEventsNat DEF Init, IInv, TypeOK, IdsHandedOut, UniqueIds, PendingOwn, RequestsOwn, InboundOwn,
   UnsentUnserved, RoutedToOwnCall, AnswerFindsItsCall, ClosedUnreachable, Request, Reply, Event

\* A reply on the wire is a typed reply.
LEMMA FrameTyped ==
  ASSUME TypeOK, NEW k \in 1..Len(inbound), inbound[k].kind = "reply"
  PROVE  inbound[k] \in Reply /\ inbound[k].call \in Calls
<1>1. inbound[k] \in Reply \cup Event
  BY DEF TypeOK
<1> QED
  BY <1>1 DEF Reply, Event

\* A step that leaves the wire and the peer alone, and the ids of the calls on it,
\* keeps InboundOwn.
LEMMA InboundFrame ==
  ASSUME TypeOK, InboundOwn, inbound' = inbound, served' = served,
         \A d \in Calls : pc[d] \in {"waiting"} \cup Finished =>
                            pc'[d] \in {"waiting"} \cup Finished /\ callId'[d] = callId[d]
  PROVE  InboundOwn'
<1> SUFFICES ASSUME NEW k \in 1..Len(inbound), inbound[k].kind = "reply"
             PROVE  /\ callId'[inbound[k].call] = inbound[k].id
                    /\ pc'[inbound[k].call] \in {"waiting"} \cup Finished
                    /\ inbound[k].outcome = served[inbound[k].call]
  BY DEF InboundOwn
<1>1. inbound[k].call \in Calls
  BY FrameTyped
<1> QED
  BY <1>1 DEF InboundOwn

LEMMA NumberIInv == ASSUME NEW c \in Calls, IInv, Number(c) PROVE IInv'
<1> USE DEF IInv, Number, wireVars
<1>1. TypeOK'
  BY DEF TypeOK
<1>2. IdsHandedOut'
  BY DEF TypeOK, IdsHandedOut
<1>3. UniqueIds'
  BY DEF TypeOK, IdsHandedOut, UniqueIds
<1>4. PendingOwn'
  BY DEF TypeOK, PendingOwn
<1>5. RequestsOwn'
  BY DEF TypeOK, RequestsOwn, Request
<1>6. InboundOwn'
  BY InboundFrame DEF TypeOK
<1>7. UnsentUnserved'
  BY DEF TypeOK, UnsentUnserved
<1>8. RoutedToOwnCall'
  BY DEF TypeOK, RoutedToOwnCall
<1>9. AnswerFindsItsCall'
  BY DEF TypeOK, AnswerFindsItsCall
<1>10. ClosedUnreachable'
  BY DEF TypeOK, ClosedUnreachable
<1> QED
  BY <1>1, <1>2, <1>3, <1>4, <1>5, <1>6, <1>7, <1>8, <1>9, <1>10

LEMMA RegisterIInv == ASSUME NEW c \in Calls, IInv, Register(c) PROVE IInv'
<1> USE DEF IInv, Register, wireVars
<1>1. callId[c] \notin DOMAIN pending
  BY DEF TypeOK, IdsHandedOut, UniqueIds, PendingOwn
<1>2. oneshot' = oneshot
  BY <1>1 DEF DropSender
<1>3. /\ DOMAIN pending' = DOMAIN pending \cup {callId[c]}
      /\ \A i \in DOMAIN pending : pending'[i] = pending[i]
      /\ pending'[callId[c]] = c
  BY <1>1 DEF Insert
<1>4. TypeOK'
  <2>1. pending' \in [DOMAIN pending' -> Calls]
    BY <1>3 DEF TypeOK, Insert
  <2> QED
    BY <1>2, <1>3, <2>1 DEF TypeOK, IdsHandedOut
<1>5. IdsHandedOut' /\ UniqueIds'
  BY DEF TypeOK, IdsHandedOut, UniqueIds
<1>6. PendingOwn'
  BY <1>3 DEF TypeOK, PendingOwn
<1>7. RequestsOwn'
  BY DEF TypeOK, RequestsOwn, Request
<1>8. InboundOwn'
  BY InboundFrame DEF TypeOK
<1>9. UnsentUnserved' /\ RoutedToOwnCall' /\ ClosedUnreachable'
  BY <1>2 DEF TypeOK, UnsentUnserved, RoutedToOwnCall, ClosedUnreachable
<1>10. AnswerFindsItsCall'
  BY <1>2, <1>3 DEF TypeOK, AnswerFindsItsCall
<1> QED
  BY <1>4, <1>5, <1>6, <1>7, <1>8, <1>9, <1>10

LEMMA LockSinkIInv == ASSUME NEW c \in Calls, IInv, LockSink(c) PROVE IInv'
<1> USE DEF IInv, LockSink, wireVars
<1>1. TypeOK'
  BY DEF TypeOK
<1>2. IdsHandedOut' /\ UniqueIds' /\ PendingOwn'
  BY DEF TypeOK, IdsHandedOut, UniqueIds, PendingOwn
<1>3. RequestsOwn'
  BY DEF TypeOK, RequestsOwn, Request
<1>4. InboundOwn'
  BY InboundFrame DEF TypeOK
<1>5. UnsentUnserved' /\ RoutedToOwnCall' /\ AnswerFindsItsCall' /\ ClosedUnreachable'
  BY DEF TypeOK, UnsentUnserved, RoutedToOwnCall, AnswerFindsItsCall, ClosedUnreachable
<1> QED
  BY <1>1, <1>2, <1>3, <1>4, <1>5

\* A frame leaves the client: the call goes on to `waiting` or is given up.
LEMMA SentIInv ==
  ASSUME NEW c \in Calls, IInv,
         pc[c] \in {"registered", "sending", "waiting"},
         \/ UNCHANGED requests
         \/ pc[c] = "sending" /\ Deliver(c),
         NEW p \in {"waiting", "transport", "cancelled"},
         p = "waiting" => pc[c] = "sending",
         p = "transport" => pc[c] = "sending" /\ UNCHANGED requests,
         pc' = [pc EXCEPT ![c] = p],
         sink' \in {sink, "free"},
         UNCHANGED <<nextId, pending, callId, oneshot, conn, reader, inbound, emitted,
                     broadcast, served>>
  PROVE  IInv'
<1> USE DEF IInv
<1>1. TypeOK'
  BY DEF TypeOK, Deliver, Request
<1>2. IdsHandedOut' /\ UniqueIds' /\ PendingOwn'
  BY DEF TypeOK, IdsHandedOut, UniqueIds, PendingOwn
<1>3. RequestsOwn'
  <2> SUFFICES ASSUME NEW r \in requests'
               PROVE  /\ callId[r.call] = r.id
                      /\ pc'[r.call] \in {"waiting", "cancelled"}
                      /\ served[r.call] = "no"
    BY DEF RequestsOwn
  <2>1. CASE r \in requests
    <3>1. r.call \in Calls /\ callId[r.call] = r.id /\ served[r.call] = "no"
          /\ pc[r.call] \in {"waiting", "cancelled"}
      BY <2>1 DEF TypeOK, RequestsOwn, Request
    <3>2. CASE r.call = c
      BY <3>1, <3>2 DEF TypeOK
    <3>3. CASE r.call # c
      BY <3>1, <3>3 DEF TypeOK
    <3> QED
      BY <3>2, <3>3
  <2>2. CASE r \notin requests
    <3>1. r = [id |-> callId[c], call |-> c] /\ pc[c] = "sending" /\ p # "transport"
      BY <2>2 DEF Deliver
    <3> QED
      BY <3>1 DEF TypeOK, UnsentUnserved
  <2> QED
    BY <2>1, <2>2
<1>4. InboundOwn'
  BY InboundFrame DEF TypeOK
<1>5. UnsentUnserved' /\ RoutedToOwnCall' /\ AnswerFindsItsCall' /\ ClosedUnreachable'
  BY DEF TypeOK, UnsentUnserved, RoutedToOwnCall, AnswerFindsItsCall, ClosedUnreachable
<1> QED
  BY <1>1, <1>2, <1>3, <1>4, <1>5

LEMMA ReturnIInv == ASSUME NEW c \in Calls, IInv, Return(c) PROVE IInv'
<1> USE DEF IInv, Return, wireVars
<1>1. oneshot[c].kind = "reply" /\ oneshot[c] # Dropped
  BY DEF TypeOK, Reply, ClosedUnreachable
<1>id. \A d \in Calls : callId[d] = callId[c] => d = c
  BY DEF TypeOK, IdsHandedOut, UniqueIds
<1>2. oneshot' = oneshot
  <2>1. callId[c] \in DOMAIN pending => pending[callId[c]] = c
    BY <1>id DEF TypeOK, PendingOwn
  <2> QED
    BY <1>1, <2>1 DEF DropSender
<1>3. DOMAIN pending' = DOMAIN pending \ {callId[c]}
      /\ \A i \in DOMAIN pending' : pending'[i] = pending[i]
  BY <1>1 DEF Remove
<1>4. pc'[c] \in {"ok", "protocol"} /\ \A d \in Calls \ {c} : pc'[d] = pc[d]
  BY <1>1 DEF ReturnFor, TypeOK
<1>5. TypeOK'
  <2>1. pending' \in [DOMAIN pending' -> Calls]
    BY <1>1, <1>3 DEF TypeOK, Remove
  <2>2. pc' \in [Calls -> {"idle"} \cup InFlight \cup Finished]
    BY <1>4 DEF TypeOK
  <2> QED
    BY <1>2, <1>3, <2>1, <2>2 DEF TypeOK
<1>6. IdsHandedOut' /\ UniqueIds'
  BY <1>4 DEF TypeOK, IdsHandedOut, UniqueIds
<1>7. PendingOwn'
  BY <1>3, <1>4 DEF TypeOK, PendingOwn
<1>8. RequestsOwn'
  <2>1. oneshot[c] \in Reply /\ served[c] \in Outcome
    BY <1>1 DEF TypeOK, RoutedToOwnCall, Reply
  <2>2. \A r \in requests : r.call # c /\ r.call \in Calls
    BY <2>1 DEF TypeOK, RequestsOwn, Request
  <2> QED
    BY <1>4, <2>2 DEF RequestsOwn
<1>9. InboundOwn'
  BY <1>4, InboundFrame DEF TypeOK
<1>10. UnsentUnserved' /\ RoutedToOwnCall' /\ ClosedUnreachable'
  BY <1>2, <1>4 DEF TypeOK, UnsentUnserved, RoutedToOwnCall, ClosedUnreachable
<1>11. AnswerFindsItsCall'
  <2> SUFFICES ASSUME NEW d \in Calls,
                      pc'[d] \in {"registered", "sending", "waiting"}, oneshot[d] = Empty
               PROVE  callId[d] \in DOMAIN pending' /\ pending'[callId[d]] = d
    BY <1>2 DEF AnswerFindsItsCall
  <2>1. d # c /\ pc[d] = pc'[d]
    BY <1>4
  <2>2. callId[d] # callId[c]
    BY <1>id, <2>1
  <2> QED
    BY <1>3, <2>1, <2>2 DEF AnswerFindsItsCall
<1> QED
  BY <1>5, <1>6, <1>7, <1>8, <1>9, <1>10, <1>11

\* Dropping the first frame, or a tail of the frames, keeps InboundOwn when the ids, the
\* calls' progress and the peer's answers stay as they are.
LEMMA SubwireInboundOwn ==
  ASSUME TypeOK, InboundOwn, UNCHANGED <<callId, pc, served>>, inbound' \in Seq(Reply \cup Event),
         \A k \in 1..Len(inbound') : \E j \in 1..Len(inbound) : inbound'[k] = inbound[j]
  PROVE  InboundOwn'
BY DEF InboundOwn

LEMMA ReadIInv == ASSUME IInv, Read PROVE IInv'
<1> USE DEF IInv, Read
<1> DEFINE f == Head(inbound)
<1>1. f = inbound[1] /\ 1 \in 1..Len(inbound) /\ f \in Reply \cup Event
  BY DEF TypeOK
<1>2. /\ inbound' \in Seq(Reply \cup Event)
      /\ \A k \in 1..Len(inbound') : k + 1 \in 1..Len(inbound) /\ inbound'[k] = inbound[k + 1]
  BY DEF TypeOK
<1>3. InboundOwn'
  BY <1>2, SubwireInboundOwn
<1>4. RequestsOwn' /\ UnsentUnserved' /\ IdsHandedOut' /\ UniqueIds'
  BY DEF RequestsOwn, UnsentUnserved, IdsHandedOut, UniqueIds
<1>5. CASE f.kind = "reply" /\ f.id \in DOMAIN pending
  <2> DEFINE d == pending[f.id]
  <2>1. f \in Reply /\ d \in Calls
    BY <1>1, <1>5 DEF Event, TypeOK
  <2>2. /\ oneshot' = [oneshot EXCEPT ![d] = f]
        /\ pending' = Remove(pending, f.id)
        /\ broadcast' = broadcast
    BY <1>5 DEF Dispatch
  <2>3. /\ DOMAIN pending' = DOMAIN pending \ {f.id}
        /\ \A i \in DOMAIN pending' : pending'[i] = pending[i]
    BY <2>2 DEF Remove
  <2>4. callId[d] = f.id /\ callId[d] # 0 /\ callId[f.call] = f.id /\ f.outcome = served[f.call]
    <3>1. callId[d] = f.id /\ f.id # 0
      BY <1>5, <2>1 DEF TypeOK, PendingOwn
    <3>2. callId[f.call] = f.id /\ f.outcome = served[f.call]
      BY <1>1, <1>5 DEF InboundOwn
    <3> QED
      BY <3>1, <3>2
  <2>5. f.call = d
    BY <2>1, <2>4 DEF UniqueIds, Reply
  <2>6. pending' \in [DOMAIN pending' -> Calls]
    BY <2>2, <2>3 DEF TypeOK, Remove
  <2>7. TypeOK'
    BY <1>2, <2>1, <2>2, <2>3, <2>6 DEF TypeOK
  <2>8. PendingOwn'
    BY <2>3 DEF PendingOwn
  <2>9. RoutedToOwnCall' /\ ClosedUnreachable'
    BY <2>1, <2>2, <2>4, <2>5 DEF TypeOK, RoutedToOwnCall, ClosedUnreachable, Reply
  <2>10. AnswerFindsItsCall'
    <3> SUFFICES ASSUME NEW c \in Calls,
                        pc[c] \in {"registered", "sending", "waiting"}, oneshot'[c] = Empty
                 PROVE  callId[c] \in DOMAIN pending' /\ pending'[callId[c]] = c
      BY DEF AnswerFindsItsCall
    <3>1. c # d /\ oneshot[c] = Empty
      BY <2>1, <2>2 DEF TypeOK, Reply
    <3>2. callId[c] \in DOMAIN pending /\ pending[callId[c]] = c
      BY <3>1 DEF AnswerFindsItsCall
    <3> QED
      BY <2>3, <3>1, <3>2
  <2> QED
    BY <1>3, <1>4, <2>7, <2>8, <2>9, <2>10
<1>6. CASE ~(f.kind = "reply" /\ f.id \in DOMAIN pending)
  <2>1. UNCHANGED <<oneshot, pending>> /\ broadcast' \in Nat
    BY <1>6 DEF Dispatch, TypeOK
  <2>2. TypeOK'
    BY <1>2, <2>1 DEF TypeOK
  <2>3. PendingOwn' /\ RoutedToOwnCall' /\ AnswerFindsItsCall' /\ ClosedUnreachable'
    BY <2>1 DEF PendingOwn, RoutedToOwnCall, AnswerFindsItsCall, ClosedUnreachable
  <2> QED
    BY <1>3, <1>4, <2>2, <2>3
<1> QED
  BY <1>5, <1>6

LEMMA AnswerIInv == ASSUME NEW r \in requests, IInv, Answer(r) PROVE IInv'
<1> USE DEF IInv, Answer, clientVars
<1>1. r \in Request /\ r.call \in Calls /\ callId[r.call] = r.id /\ served[r.call] = "no"
      /\ pc[r.call] \in {"waiting"} \cup Finished
  BY DEF TypeOK, RequestsOwn, Request
<1>2. PICK o \in Outcome :
        /\ served' = [served EXCEPT ![r.call] = o]
        /\ inbound' = Append(inbound, [kind |-> "reply", id |-> r.id, call |-> r.call,
                                       outcome |-> o, after |-> emitted])
  OBVIOUS
<1> DEFINE f == [kind |-> "reply", id |-> r.id, call |-> r.call, outcome |-> o,
                 after |-> emitted]
<1>3. f \in Reply
  BY <1>1 DEF Reply, Request, TypeOK
<1>4. /\ inbound' \in Seq(Reply \cup Event)
      /\ \A k \in 1..Len(inbound') : \/ k \in 1..Len(inbound) /\ inbound'[k] = inbound[k]
                                     \/ inbound'[k] = f
  BY <1>2, <1>3 DEF TypeOK
<1>5. TypeOK'
  BY <1>1, <1>2, <1>4 DEF TypeOK
<1>6. IdsHandedOut' /\ UniqueIds' /\ PendingOwn' /\ AnswerFindsItsCall' /\ ClosedUnreachable'
  BY DEF IdsHandedOut, UniqueIds, PendingOwn, AnswerFindsItsCall, ClosedUnreachable
<1>7. RequestsOwn'
  <2> SUFFICES ASSUME NEW q \in requests, q # r
               PROVE  /\ callId[q.call] = q.id
                      /\ pc[q.call] \in {"waiting", "cancelled"}
                      /\ served'[q.call] = "no"
    BY DEF RequestsOwn
  <2>1. q \in Request /\ callId[q.call] = q.id /\ served[q.call] = "no"
    BY DEF TypeOK, RequestsOwn
  <2>2. q.call # r.call
    BY <1>1, <2>1 DEF Request
  <2> QED
    BY <1>1, <1>2, <2>1, <2>2 DEF RequestsOwn, TypeOK, Request
<1>8. InboundOwn'
  <2> SUFFICES ASSUME NEW k \in 1..Len(inbound'), inbound'[k].kind = "reply"
               PROVE  /\ callId[inbound'[k].call] = inbound'[k].id
                      /\ pc[inbound'[k].call] \in {"waiting"} \cup Finished
                      /\ inbound'[k].outcome = served'[inbound'[k].call]
    BY DEF InboundOwn
  <2>1. CASE inbound'[k] = f
    BY <1>1, <1>2, <2>1 DEF TypeOK
  <2>2. CASE k \in 1..Len(inbound) /\ inbound'[k] = inbound[k]
    <3>1. inbound[k] \in Reply /\ inbound[k].call \in Calls
      BY <2>2, FrameTyped
    <3>2. inbound[k].outcome = served[inbound[k].call] /\ inbound[k].outcome # "no"
      BY <2>2, <3>1 DEF InboundOwn, Reply
    <3>3. inbound[k].call # r.call
      BY <1>1, <3>2
    <3> QED
      BY <1>1, <1>2, <2>2, <3>1, <3>2, <3>3 DEF InboundOwn, TypeOK
  <2> QED
    BY <1>4, <2>1, <2>2
<1>9. UnsentUnserved'
  BY <1>1, <1>2 DEF UnsentUnserved, TypeOK
<1>10. RoutedToOwnCall'
  <2> SUFFICES ASSUME NEW c \in Calls, oneshot[c].kind = "reply"
               PROVE  oneshot[c].call = c /\ oneshot[c].outcome = served'[c]
    BY DEF RoutedToOwnCall
  <2>0. oneshot[c] \in Reply \cup {Empty, Dropped}
    BY DEF TypeOK
  <2>1. oneshot[c] \in Reply /\ oneshot[c].call = c /\ oneshot[c].outcome = served[c]
    BY <2>0 DEF RoutedToOwnCall
  <2>2. c # r.call
    BY <1>1, <2>1 DEF Reply
  <2> QED
    BY <1>1, <1>2, <2>1, <2>2 DEF TypeOK
<1> QED
  BY <1>5, <1>6, <1>7, <1>8, <1>9, <1>10

LEMMA EmitIInv == ASSUME IInv, Emit PROVE IInv'
<1> USE DEF IInv, Emit, clientVars
<1>1. /\ inbound' \in Seq(Reply \cup Event)
      /\ \A k \in 1..Len(inbound') :
           \/ k \in 1..Len(inbound) /\ inbound'[k] = inbound[k]
           \/ inbound'[k].kind = "event"
  BY DEF TypeOK, Event
<1>2. TypeOK'
  BY <1>1 DEF TypeOK
<1>3. InboundOwn'
  BY <1>1 DEF InboundOwn
<1>4. /\ IdsHandedOut' /\ UniqueIds' /\ PendingOwn' /\ RequestsOwn' /\ UnsentUnserved'
      /\ RoutedToOwnCall' /\ AnswerFindsItsCall' /\ ClosedUnreachable'
  BY DEF IdsHandedOut, UniqueIds, PendingOwn, RequestsOwn, UnsentUnserved, RoutedToOwnCall,
         AnswerFindsItsCall, ClosedUnreachable
<1> QED
  BY <1>2, <1>3, <1>4

LEMMA PeerGoneIInv == ASSUME IInv, PeerGone PROVE IInv'
<1> USE DEF IInv, PeerGone, clientVars
<1>1. PICK n \in 0..Len(inbound) : inbound' = SubSeq(inbound, 1, n)
  OBVIOUS
<1>2. /\ inbound' \in Seq(Reply \cup Event)
      /\ \A k \in 1..Len(inbound') : k \in 1..Len(inbound) /\ inbound'[k] = inbound[k]
  BY <1>1 DEF TypeOK
<1>3. TypeOK'
  BY <1>2 DEF TypeOK
<1>4. InboundOwn'
  BY <1>2, SubwireInboundOwn
<1>5. /\ IdsHandedOut' /\ UniqueIds' /\ PendingOwn' /\ RequestsOwn' /\ UnsentUnserved'
      /\ RoutedToOwnCall' /\ AnswerFindsItsCall' /\ ClosedUnreachable'
  BY DEF IdsHandedOut, UniqueIds, PendingOwn, RequestsOwn, UnsentUnserved, RoutedToOwnCall,
         AnswerFindsItsCall, ClosedUnreachable
<1> QED
  BY <1>3, <1>4, <1>5

\* Steps that change none of the variables IInv relates, beyond their types.
LEMMA QuietIInv ==
  ASSUME IInv, (Close \/ ReaderEnds \/ UNCHANGED vars)
  PROVE  IInv'
<1>1. /\ UNCHANGED <<clientVars, requests, inbound, emitted, broadcast, served>>
      /\ conn' \in {"open", "closing", "closed"} /\ reader' \in {"running", "ended"}
  BY DEF IInv, TypeOK, Close, ReaderEnds, vars, wireVars
<1>2. TypeOK'
  BY <1>1 DEF IInv, TypeOK, clientVars
<1> QED
  BY <1>1, <1>2 DEF IInv, IdsHandedOut, UniqueIds, PendingOwn, RequestsOwn, InboundOwn,
     UnsentUnserved, RoutedToOwnCall, AnswerFindsItsCall, ClosedUnreachable, clientVars

LEMMA NextIInv == IInv /\ [Next]_vars => IInv'
<1> SUFFICES ASSUME IInv, [Next]_vars PROVE IInv'
  OBVIOUS
<1>1. ASSUME NEW c \in Calls, Caller(c) PROVE IInv'
  <2>1. CASE Number(c) BY <2>1, NumberIInv
  <2>2. CASE Register(c) BY <2>2, RegisterIInv
  <2>3. CASE LockSink(c) BY <2>3, LockSinkIInv
  <2>4. CASE SendOk(c) BY <2>4, SentIInv DEF SendOk
  <2>5. CASE SendFails(c) BY <2>5, SentIInv DEF SendFails, wireVars
  <2>6. CASE Return(c) BY <2>6, ReturnIInv
  <2>7. CASE Cancel(c) BY <2>7, SentIInv DEF Cancel
  <2> QED BY <1>1, <2>1, <2>2, <2>3, <2>4, <2>5, <2>6, <2>7 DEF Caller
<1>2. ASSUME NEW r \in requests, Answer(r) PROVE IInv'
  BY <1>2, AnswerIInv
<1> QED
  BY <1>1, <1>2, ReadIInv, EmitIInv, PeerGoneIInv, QuietIInv DEF Next

LEMMA Invariance == Spec => []IInv
BY InitIInv, NextIInv, PTL DEF Spec

-----------------------------------------------------------------------------
\* The types hold in every reachable state.
THEOREM TypeCorrect == Spec => []TypeOK
BY Invariance, PTL DEF IInv

\* For any number of concurrent calls, cancelled and failed ones included, an answer is
\* handed to the call it answers and to no other (`call`, `dispatch`).
THEOREM RoutingCorrect == Spec => []RoutedToOwnCall
BY Invariance, PTL DEF IInv

\* No answer to a call that waits is ever thrown away by the reader, however early it
\* arrives (`call` registers before it sends).
THEOREM NoAnswerLost == Spec => []AnswerFindsItsCall
BY Invariance, PTL DEF IInv

\* `call` never returns JsonRpcError::Closed, whatever happens to the connection: no
\* sender in the table is ever dropped unused while its call waits.
THEOREM ClosedNeverReturned == Spec => []ClosedUnreachable
BY Invariance, PTL DEF IInv

-----------------------------------------------------------------------------
(* Answers and the events before them. *)

IsEvent(s, n) == {j \in 1..n : s[j].kind = "event"}
Events(s, n)  == Cardinality(IsEvent(s, n))

\* What an answer on the wire follows is broadcast, or is on the wire in front of it.
Ordered ==
  /\ \A k \in 1..Len(inbound) : inbound[k].kind = "reply" =>
       inbound[k].after <= broadcast + Events(inbound, k - 1)
  /\ conn # "closed" => emitted <= broadcast + Events(inbound, Len(inbound))

LEMMA EventsNat == ASSUME NEW s, NEW n \in Nat PROVE IsFiniteSet(IsEvent(s, n)) /\ Events(s, n) \in Nat
<1>1. IsFiniteSet(1..n)
  BY FS_Interval
<1>2. IsFiniteSet(IsEvent(s, n))
  BY <1>1, FS_Subset DEF IsEvent
<1> QED  BY <1>2, FS_CardinalityType DEF Events

LEMMA EventsSame ==
  ASSUME NEW s, NEW t, NEW n \in Nat, \A j \in 1..n : s[j] = t[j]
  PROVE  Events(s, n) = Events(t, n)
BY DEF Events, IsEvent

\* One frame more.
LEMMA EventsNext ==
  ASSUME NEW s, NEW n \in Nat
  PROVE  Events(s, n + 1) = IF s[n + 1].kind = "event" THEN Events(s, n) + 1 ELSE Events(s, n)
<1>1. CASE s[n + 1].kind = "event"
  <2>1. IsEvent(s, n + 1) = IsEvent(s, n) \cup {n + 1} /\ n + 1 \notin IsEvent(s, n)
    BY <1>1 DEF IsEvent
  <2> QED  BY <1>1, <2>1, EventsNat, FS_AddElement DEF Events
<1>2. CASE s[n + 1].kind # "event"
  <2>1. IsEvent(s, n + 1) = IsEvent(s, n)
    BY <1>2 DEF IsEvent
  <2> QED  BY <1>2, <2>1 DEF Events
<1> QED  BY <1>1, <1>2

\* The first frame less: every other one has moved up by one place.
LEMMA EventsTail ==
  ASSUME NEW s \in Seq(Reply \cup Event), s # << >>, NEW n \in 0..(Len(s) - 1)
  PROVE  Events(s, n + 1) = IF s[1].kind = "event" THEN Events(Tail(s), n) + 1 ELSE Events(Tail(s), n)
<1>1. n \in Nat /\ n + 1 \in Nat /\ Len(s) \in Nat /\ \A j \in 1..n : Tail(s)[j] = s[j + 1]
  OBVIOUS
<1> DEFINE rest == IsEvent(s, n + 1) \ {1}
           move == [j \in IsEvent(Tail(s), n) |-> j + 1]
<1>2. move \in Bijection(IsEvent(Tail(s), n), rest)
  <2>1. move \in [IsEvent(Tail(s), n) -> rest]
    BY <1>1 DEF IsEvent
  <2>2. ASSUME NEW i \in IsEvent(Tail(s), n), NEW j \in IsEvent(Tail(s), n), move[i] = move[j]
        PROVE  i = j
    BY <2>2 DEF IsEvent
  <2>3. ASSUME NEW k \in rest PROVE \E j \in IsEvent(Tail(s), n) : move[j] = k
    <3>1. k \in 2..(n + 1) /\ s[k].kind = "event"
      BY <1>1 DEF IsEvent
    <3>2. k - 1 \in IsEvent(Tail(s), n)
      BY <1>1, <3>1 DEF IsEvent
    <3> QED  BY <3>1, <3>2
  <2> QED  BY <2>1, <2>2, <2>3, Fun_IsBij
<1> HIDE DEF move
<1>3. IsFiniteSet(IsEvent(Tail(s), n)) /\ IsFiniteSet(IsEvent(s, n + 1))
  BY <1>1, EventsNat
<1>4. Cardinality(rest) = Events(Tail(s), n)
  BY <1>2, <1>3, FS_Bijection DEF Events, ExistsBijection
<1>5. CASE s[1].kind = "event"
  <2>1. 1 \in IsEvent(s, n + 1)
    BY <1>1, <1>5 DEF IsEvent
  <2>2. Cardinality(rest) = Events(s, n + 1) - 1
    BY <1>3, <2>1, FS_RemoveElement DEF Events
  <2> QED  BY <1>1, <1>4, <1>5, <2>2, EventsNat
<1>6. CASE s[1].kind # "event"
  <2>1. rest = IsEvent(s, n + 1)
    BY <1>6 DEF IsEvent
  <2> QED  BY <1>4, <1>6, <2>1 DEF Events
<1> QED  BY <1>5, <1>6

LEMMA OrderedAppend ==
  ASSUME TypeOK, Ordered, NEW f \in Reply \cup Event, inbound' = Append(inbound, f),
         broadcast' = broadcast, conn' = conn, conn # "closed",
         \/ f.kind = "reply" /\ f.after = emitted /\ emitted' = emitted
         \/ f.kind = "event" /\ emitted' = emitted + 1
  PROVE  Ordered'
<1> DEFINE n == Len(inbound)
<1>1. /\ n \in Nat /\ Len(inbound') = n + 1 /\ inbound'[n + 1] = f
      /\ \A j \in 1..n : inbound'[j] = inbound[j]
  BY DEF TypeOK
<1>2. ASSUME NEW k \in 0..n PROVE Events(inbound', k) = Events(inbound, k)
  <2>1. k \in Nat /\ \A j \in 1..k : inbound'[j] = inbound[j]
    BY <1>1
  <2> HIDE DEF n
  <2> QED  BY <2>1, EventsSame
<1>3. emitted <= broadcast + Events(inbound', n)
  BY <1>1, <1>2 DEF Ordered
<1>4. \A k \in 1..(n + 1) : inbound'[k].kind = "reply" =>
        inbound'[k].after <= broadcast' + Events(inbound', k - 1)
  <2> SUFFICES ASSUME NEW k \in 1..(n + 1), inbound'[k].kind = "reply"
               PROVE  inbound'[k].after <= broadcast' + Events(inbound', k - 1)
    OBVIOUS
  <2>1. CASE k = n + 1
    BY <1>1, <1>3, <2>1
  <2>2. CASE k \in 1..n
    BY <1>1, <1>2, <2>2 DEF Ordered
  <2> QED  BY <1>1, <2>1, <2>2
<1>5. emitted' <= broadcast' + Events(inbound', n + 1)
  <2>1. Events(inbound', n) \in Nat /\ emitted \in Nat /\ broadcast \in Nat
    BY <1>1, EventsNat DEF TypeOK
  <2>2. Events(inbound', n + 1) = IF f.kind = "event" THEN Events(inbound', n) + 1
                                                       ELSE Events(inbound', n)
    BY <1>1, EventsNext
  <2> HIDE DEF n
  <2> QED  BY <1>3, <2>1, <2>2
<1> QED  BY <1>1, <1>4, <1>5 DEF Ordered

LEMMA OrderedRead == ASSUME IInv, Ordered, Read PROVE Ordered'
<1> DEFINE f == Head(inbound)
<1>1. /\ inbound \in Seq(Reply \cup Event) /\ inbound # << >> /\ inbound' = Tail(inbound)
      /\ f = inbound[1] /\ Len(inbound') = Len(inbound) - 1 /\ Len(inbound) \in Nat \ {0}
      /\ \A j \in 1..Len(inbound') : inbound'[j] = inbound[j + 1]
      /\ broadcast \in Nat /\ conn' = conn /\ emitted' = emitted
      /\ broadcast' = IF f.kind = "reply" THEN broadcast ELSE broadcast + 1
  BY DEF IInv, TypeOK, Read, Dispatch
<1>2. f.kind = "reply" \/ f.kind = "event"
  BY <1>1 DEF Reply, Event
<1>3. \A k \in 0..Len(inbound') : broadcast' + Events(inbound', k) = broadcast + Events(inbound, k + 1)
  <2> SUFFICES ASSUME NEW k \in 0..Len(inbound')
               PROVE  broadcast' + Events(inbound', k) = broadcast + Events(inbound, k + 1)
    OBVIOUS
  <2>1. Events(inbound, k + 1) \in Nat /\ Events(inbound', k) \in Nat
    BY EventsNat, <1>1
  <2>2. k \in 0..(Len(inbound) - 1)
    BY <1>1
  <2>3. Events(inbound, k + 1) =
          IF f.kind = "event" THEN Events(inbound', k) + 1 ELSE Events(inbound', k)
    BY <1>1, <2>2, EventsTail
  <2> QED  BY <1>1, <1>2, <2>1, <2>3
<1> HIDE DEF f
<1>4. ASSUME NEW k \in 1..Len(inbound'), inbound'[k].kind = "reply"
      PROVE  inbound'[k].after <= broadcast' + Events(inbound', k - 1)
  <2>1. /\ k + 1 \in 1..Len(inbound) /\ inbound[k + 1].kind = "reply"
        /\ inbound'[k].after = inbound[k + 1].after /\ k - 1 \in 0..Len(inbound') /\ (k - 1) + 1 = k
        /\ (k + 1) - 1 = k
    BY <1>1, <1>4
  <2> QED  BY <1>3, <2>1 DEF Ordered
<1>5. conn' # "closed" => emitted' <= broadcast' + Events(inbound', Len(inbound'))
  <2>1. Len(inbound') \in 0..Len(inbound') /\ Len(inbound') + 1 = Len(inbound)
    BY <1>1
  <2> QED  BY <1>1, <1>3, <2>1 DEF Ordered
<1> QED  BY <1>4, <1>5 DEF Ordered

LEMMA PrecedeRead == ASSUME IInv, Ordered, EventsPrecedeReply, Read PROVE EventsPrecedeReply'
<1> DEFINE f == Head(inbound)
<1>1. f = inbound[1] /\ 1 \in 1..Len(inbound) /\ broadcast' \in Nat /\ broadcast <= broadcast'
  BY DEF IInv, TypeOK, Read, Dispatch
<1>2. Events(inbound, 0) = 0
  BY FS_EmptySet DEF Events, IsEvent
<1>3. f.kind = "reply" => f.after <= broadcast /\ f.after \in Nat
  <2>1. f.kind = "reply" => f \in Reply
    BY <1>1 DEF IInv, TypeOK, Event
  <2>2. f.kind = "reply" => f.after <= broadcast + Events(inbound, 1 - 1)
    BY <1>1 DEF Ordered
  <2>3. f.kind = "reply" => f.after \in Nat
    BY <2>1 DEF Reply
  <2>4. 1 - 1 = 0 /\ broadcast \in Nat
    BY DEF IInv, TypeOK
  <2> HIDE DEF f
  <2> QED  BY <1>2, <2>2, <2>3, <2>4
<1>4. \A c \in Calls : oneshot'[c] = oneshot[c] \/ (oneshot'[c] = f /\ f.kind = "reply")
  BY DEF IInv, TypeOK, Read, Dispatch
<1>5. \A c \in Calls : oneshot[c].kind = "reply" => oneshot[c].after \in Nat
  BY DEF IInv, TypeOK, Reply
<1> HIDE DEF f
<1> QED  BY <1>1, <1>3, <1>4, <1>5 DEF EventsPrecedeReply, IInv, TypeOK

LEMMA OrderedStep ==
  IInv /\ Ordered /\ EventsPrecedeReply /\ [Next]_vars => (Ordered /\ EventsPrecedeReply)'
<1> SUFFICES ASSUME IInv, Ordered, EventsPrecedeReply, [Next]_vars
             PROVE  (Ordered /\ EventsPrecedeReply)'
  OBVIOUS
<1>1. CASE Read
  BY <1>1, OrderedRead, PrecedeRead
\* Only Read fills a channel.
<1>2. ASSUME UNCHANGED broadcast,
             \A c \in Calls : oneshot'[c] = oneshot[c] \/ oneshot'[c].kind = "dropped"
      PROVE  EventsPrecedeReply'
  BY <1>2 DEF EventsPrecedeReply
<1>3. ASSUME NEW c \in Calls, Caller(c) PROVE (Ordered /\ EventsPrecedeReply)'
  <2>1. UNCHANGED <<inbound, broadcast, emitted, conn>>
    BY <1>3 DEF Caller, Number, Register, LockSink, SendOk, SendFails, Return, Cancel, wireVars
  <2>2. \A d \in Calls : oneshot'[d] = oneshot[d] \/ oneshot'[d].kind = "dropped"
    BY <1>3 DEF IInv, TypeOK, Caller, Number, Register, LockSink, SendOk, SendFails, Return, Cancel,
       DropSender, wireVars
  <2> QED  BY <1>2, <2>1, <2>2 DEF Ordered
<1>4. ASSUME NEW r \in requests, Answer(r) PROVE (Ordered /\ EventsPrecedeReply)'
  <2>1. PICK o \in Outcome : inbound' = Append(inbound, [kind |-> "reply", id |-> r.id, call |-> r.call,
                                                       outcome |-> o, after |-> emitted])
    BY <1>4 DEF Answer
  <2>2. [kind |-> "reply", id |-> r.id, call |-> r.call, outcome |-> o, after |-> emitted] \in Reply
    BY DEF IInv, TypeOK, Reply, Request
  <2>3. Ordered'
    BY <1>4, <2>1, <2>2, OrderedAppend DEF Answer, IInv
  <2> QED  BY <1>2, <1>4, <2>3 DEF Answer, clientVars
<1>5. CASE Emit
  <2>1. [kind |-> "event"] \in Event
    BY DEF Event
  <2>2. Ordered'
    BY <1>5, <2>1, OrderedAppend DEF Emit, IInv
  <2> QED  BY <1>2, <1>5, <2>2 DEF Emit, clientVars
<1>6. CASE PeerGone
  <2>1. PICK n \in 0..Len(inbound) : inbound' = SubSeq(inbound, 1, n)
    BY <1>6 DEF PeerGone
  <2>2. /\ Len(inbound') = n /\ n \in Nat /\ n <= Len(inbound)
        /\ \A j \in 1..n : inbound'[j] = inbound[j]
    BY <2>1 DEF IInv, TypeOK
  <2>3. \A k \in 1..n : k - 1 \in Nat /\ Events(inbound', k - 1) = Events(inbound, k - 1)
    BY <2>2, EventsSame
  <2>4. Ordered'
    BY <1>6, <2>2, <2>3 DEF Ordered, PeerGone
  <2> QED  BY <1>2, <1>6, <2>4 DEF PeerGone, clientVars
<1>7. CASE Close
  BY <1>2, <1>7 DEF Close, Ordered, clientVars
<1>8. CASE ReaderEnds \/ UNCHANGED vars
  BY <1>2, <1>8 DEF ReaderEnds, Ordered, vars, clientVars, wireVars
<1> QED  BY <1>1, <1>3, <1>4, <1>5, <1>6, <1>7, <1>8 DEF Next

\* When an answer is there, every event that the peer sent before it has been broadcast,
\* for any number of calls and events and wherever the connection breaks.
THEOREM EventsFirst == Spec => []EventsPrecedeReply
<1>1. Init => Ordered /\ EventsPrecedeReply
  <2>1. ASSUME Init PROVE Ordered /\ EventsPrecedeReply
    <3>1. inbound = << >> /\ Len(inbound) = 0 /\ emitted = 0 /\ broadcast = 0
      BY <2>1 DEF Init
    <3>2. Events(inbound, 0) = 0
      BY FS_EmptySet DEF Events, IsEvent
    <3> QED  BY <2>1, <3>1, <3>2 DEF Init, Ordered, EventsPrecedeReply
  <2> QED  BY <2>1
<1> QED  BY <1>1, OrderedStep, Invariance, PTL DEF Spec

-----------------------------------------------------------------------------
(* The client implements the abstract service. *)

LEMMA InitRefines == Init => Service!Init
BY DEF Init, Service!Init, StatusOf

\* The client's own steps: issuing, failing, completing and giving up a call.
LEMMA CallerRefines ==
  ASSUME NEW c \in Calls, IInv, Caller(c)
  PROVE  [Service!Next]_(Service!vars)
<1> DEFINE st == [d \in Calls |-> StatusOf(pc[d])]
<1> USE DEF IInv, StatusOf
<1>1. CASE Number(c)
  <2>1. Service!Issue(c)
    BY <1>1 DEF Number, TypeOK, Service!Issue, wireVars
  <2> QED
    BY <2>1 DEF Service!Next
<1>2. CASE Register(c) \/ LockSink(c) \/ SendOk(c)
  <2>1. UNCHANGED Service!vars
    BY <1>2 DEF Register, LockSink, SendOk, TypeOK, Service!vars, wireVars
  <2> QED
    BY <2>1
<1>3. CASE SendFails(c)
  <2>1. Service!Fail(c)
    BY <1>3 DEF SendFails, TypeOK, UnsentUnserved, Service!Fail, wireVars
  <2> QED
    BY <2>1 DEF Service!Next
<1>4. CASE Return(c)
  <2>0. oneshot[c] \in Reply \cup {Empty, Dropped} /\ oneshot[c] # Empty /\ oneshot[c] # Dropped
    BY <1>4 DEF TypeOK, ClosedUnreachable, Return
  <2>1. oneshot[c] \in Reply /\ oneshot[c].kind = "reply" /\ oneshot[c].outcome = served[c]
    BY <2>0 DEF RoutedToOwnCall, Reply
  <2>2. served[c] \in Outcome
    BY <2>1 DEF Reply
  <2>3. ReturnFor(oneshot[c]) = Service!ReturnFor(served[c])
    BY <2>1, <2>2 DEF ReturnFor, Service!ReturnFor
  <2>4. Service!ReturnFor(served[c]) \in {"ok", "protocol"}
    BY DEF Service!ReturnFor
  <2>5. Service!Complete(c)
    BY <1>4, <2>2, <2>3, <2>4 DEF Return, TypeOK, Service!Complete, wireVars
  <2> QED
    BY <2>5 DEF Service!Next
<1>5. CASE Cancel(c)
  <2>1. Service!Cancel(c)
    BY <1>5 DEF Cancel, TypeOK, Service!Cancel
  <2> QED
    BY <2>1 DEF Service!Next
<1> QED
  BY <1>1, <1>2, <1>3, <1>4, <1>5 DEF Caller

\* The peer serves a request exactly when the service does.
LEMMA AnswerRefines ==
  ASSUME NEW r \in requests, IInv, Answer(r)
  PROVE  [Service!Next]_(Service!vars)
<1>1. r.call \in Calls /\ served[r.call] = "no" /\ pc[r.call] \in {"waiting", "cancelled"}
  BY DEF IInv, TypeOK, RequestsOwn, Request
<1>2. Service!Serve(r.call)
  BY <1>1 DEF Answer, Service!Serve, Service!Outcome, StatusOf, clientVars
<1> QED
  BY <1>1, <1>2 DEF Service!Next

\* Every other step is invisible to the callers.
LEMMA QuietRefines ==
  ASSUME Close \/ Read \/ ReaderEnds \/ Emit \/ PeerGone \/ UNCHANGED vars
  PROVE  UNCHANGED Service!vars
BY DEF Close, Read, ReaderEnds, Emit, PeerGone, vars, clientVars, wireVars, Service!vars

LEMMA NextRefines == IInv /\ [Next]_vars => [Service!Next]_(Service!vars)
BY CallerRefines, AnswerRefines, QuietRefines DEF Next

\* Whatever the number of concurrent calls, to its callers the client is the abstract
\* service: each request is served at most once, each answer is the call's own, and a
\* transport error is only returned for a request that was never served.
THEOREM ClientImplementsService == Spec => RefinesService
BY InitRefines, NextRefines, Invariance, PTL DEF Spec, RefinesService, Service!Spec
=============================================================================
