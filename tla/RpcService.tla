----------------------------- MODULE RpcService -----------------------------
(***************************************************************************)
(* What the JSON-RPC client promises to one invocation of `call`, with no  *)
(* ids, frames, routing table or reader task in sight: a request is served *)
(* by the peer at most once, a call that completes returns what the peer   *)
(* did for that very call, and a call that reports a transport failure was *)
(* never served.                                                           *)
(***************************************************************************)
CONSTANT Calls   \* the invocations of JsonRpcClient::call

VARIABLES
  status,   \* how far each invocation got, as its caller sees it
  served    \* what the peer did for each invocation

vars == <<status, served>>

Outcome == {"result", "error"}
Status  == {"idle", "open", "ok", "protocol", "transport", "closed", "cancelled"}

\* The caller's return value for what the peer answered.
ReturnFor(outcome) == IF outcome = "error" THEN "protocol" ELSE "ok"

TypeOK == /\ status \in [Calls -> Status]
          /\ served \in [Calls -> Outcome \cup {"no"}]

Init == /\ status = [c \in Calls |-> "idle"]
        /\ served = [c \in Calls |-> "no"]

Issue(c) == /\ status[c] = "idle"
            /\ status' = [status EXCEPT ![c] = "open"]
            /\ UNCHANGED served

\* The peer may serve a call whose caller has already given up on it.
Serve(c) == /\ status[c] \in {"open", "cancelled"}
            /\ served[c] = "no"
            /\ \E o \in Outcome : served' = [served EXCEPT ![c] = o]
            /\ UNCHANGED status

Complete(c) == /\ status[c] = "open"
               /\ served[c] # "no"
               /\ status' = [status EXCEPT ![c] = ReturnFor(served[c])]
               /\ UNCHANGED served

Fail(c) == /\ status[c] = "open"
           /\ served[c] = "no"
           /\ status' = [status EXCEPT ![c] = "transport"]
           /\ UNCHANGED served

Cancel(c) == /\ status[c] = "open"
             /\ status' = [status EXCEPT ![c] = "cancelled"]
             /\ UNCHANGED served

Next == \E c \in Calls : Issue(c) \/ Serve(c) \/ Complete(c) \/ Fail(c) \/ Cancel(c)

Spec == Init /\ [][Next]_vars
=============================================================================
