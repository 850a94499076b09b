------------------------- MODULE SessionStateProofs -------------------------
(***************************************************************************)
(* Proofs about SessionState, for any captures of one site, restoring,     *)
(* logging in and saving in any combination, and any number of relaunches. *)
(*                                                                         *)
(* The argument: a capture that is not shared is the only busy one         *)
(* (Alone), so that the browser's jar and storage, and the temporary file, *)
(* are as its own last step left them.                                     *)
(***************************************************************************)
EXTENDS SessionState, TLAPS

Alone == \A c \in Captures : pc[c] \notin Idle /\ c \notin shared => Busy = {c}

\* How far the login that c restored has got.
Restored ==
  \A c \in (Loads \ LogsIn) \ shared : \A u \in Captures : loaded[c] = LoggedIn(u) =>
    /\ pc[c] \in {"scripting", "navigating", "extracting"} => jar = u
    /\ pc[c] = "navigating" => script[c] = u
    /\ pc[c] = "extracting" => local = u

\* A capture that logs in, and that nothing logs out again.
Keeps(c) == c \in LogsIn /\ c \notin shared /\ (c \in Renavigates => script[c] = "none")

\* What it is to write: its cookies alone when the page's localStorage could not be read.
Written(c) == IF c \in unread THEN CookiesOnly(c) ELSE LoggedIn(c)

\* Nobody has failed to read what it has not come to read yet.
Unread == \A c \in Captures : c \in unread => pc[c] \in {"exported", "written"} \cup Finished

\* How far its own login has got.
Saved ==
  \A c \in Captures : Keeps(c) =>
    /\ pc[c] \in {"renavigating", "extracting", "saving"} => jar = c /\ local = c
    /\ pc[c] = "exported" => exported[c] = Written(c)
    /\ pc[c] = "written" => temp = Written(c)

\* Who acts, and whose login loads another document.
Paths ==
  \A c \in Captures : /\ pc[c] \in {"acting", "renavigating"} => c \in LogsIn
                      /\ pc[c] = "renavigating" => c \in Renavigates

IInv == TypeOK /\ Alone /\ Paths /\ Unread /\ Restored /\ Saved

-----------------------------------------------------------------------------
LEMMA TypeInit == Init => TypeOK
BY Kinds DEF Init, TypeOK, Idle, Finished, Nothing, State, Values

LEMMA TypeStep == TypeOK /\ [Next]_vars => TypeOK'
<1> SUFFICES ASSUME TypeOK, [Next]_vars PROVE TypeOK'
  OBVIOUS
<1> USE DEF TypeOK, Goto, Idle, Finished
<1>1. ASSUME NEW c \in Captures, Capture(c) PROVE TypeOK'
  <2>1. CASE Begin(c)
    BY <2>1 DEF Begin, Busy
  <2>2. CASE SetCookies(c)
    BY <2>2 DEF SetCookies, State
  <2>3. CASE AddScript(c)
    BY <2>3 DEF AddScript, State
  <2>4. CASE Navigate(c) \/ Renavigate(c)
    BY <2>4 DEF Navigate, Renavigate, NewDocument
  <2>5. CASE LogIn(c)
    BY <2>5 DEF LogIn, Values
  <2>6. CASE Extract(c) \/ Fail(c)
    BY <2>6 DEF Extract, Fail
  <2>7. CASE Export(c)
    BY <2>7 DEF Export, FromCdp, State, Values
  <2>8. CASE WriteTemp(c) \/ RenameTemp(c)
    BY <2>8 DEF WriteTemp, RenameTemp
  <2> QED  BY <1>1, <2>1, <2>2, <2>3, <2>4, <2>5, <2>6, <2>7, <2>8 DEF Capture
<1>2. CASE Relaunch
  BY <1>2, Kinds DEF Relaunch, Values
<1>3. CASE UNCHANGED vars
  BY <1>3 DEF vars
<1> QED  BY <1>1, <1>2, <1>3 DEF Next

\* The types hold, for any captures.
THEOREM TypeCorrect == Spec => []TypeOK
BY TypeInit, TypeStep, PTL DEF Spec

-----------------------------------------------------------------------------
\* A capture's own steps: who is busy, and who has the browser to itself.
LEMMA CaptureSteps ==
  ASSUME TypeOK, Alone, NEW c \in Captures, Capture(c)
  PROVE  /\ \A d \in Captures \ {c} : pc'[d] = pc[d]
         /\ shared \subseteq shared'
         /\ pc[c] = "idle" => shared' = IF Busy = {} THEN shared ELSE shared \cup Busy \cup {c}
         /\ pc[c] # "idle" => shared' = shared /\ pc[c] \notin Idle
         /\ \A d \in Captures \ {c} : pc[d] \notin Idle => d \in shared'
<1> USE DEF TypeOK, Goto, Idle, Finished, Busy
<1>1. CASE Begin(c)
  BY <1>1 DEF Begin
<1>2. CASE ~ Begin(c)
  <2>1. /\ shared' = shared /\ pc[c] \notin Idle /\ \A d \in Captures \ {c} : pc'[d] = pc[d]
    BY <1>2 DEF Capture, SetCookies, AddScript, Navigate, LogIn, Renavigate, Extract, Export,
       WriteTemp, RenameTemp, Fail
  <2> QED  BY <2>1 DEF Alone
<1> QED  BY <1>1, <1>2

LEMMA AloneStep == TypeOK /\ Alone /\ [Next]_vars => Alone'
<1> SUFFICES ASSUME TypeOK, Alone, [Next]_vars PROVE Alone'
  OBVIOUS
<1>1. ASSUME NEW c \in Captures, Capture(c) PROVE Alone'
  <2> SUFFICES ASSUME NEW d \in Captures, pc'[d] \notin Idle, d \notin shared'
               PROVE  Busy' = {d}
    BY DEF Alone
  <2>1. d = c
    BY <1>1, CaptureSteps
  <2>2. \A e \in Captures \ {c} : pc[e] \in Idle
    BY <1>1, <2>1, CaptureSteps DEF Alone, Busy, Idle
  <2> QED  BY <1>1, <2>1, <2>2, CaptureSteps DEF Busy
<1>2. CASE Relaunch \/ UNCHANGED vars
  BY <1>2 DEF Relaunch, vars, Alone, Busy
<1> QED  BY <1>1, <1>2 DEF Next

\* What concerns the captures that have nobody beside them, after a step of c: those that
\* are not busy, and c.
LEMMA OthersQuiet ==
  ASSUME IInv, NEW c \in Captures, Capture(c), NEW d \in Captures \ {c}, d \notin shared'
  PROVE  pc[d] \in Idle /\ pc'[d] = pc[d] /\ d \notin shared
BY CaptureSteps DEF IInv

LEMMA PathsStep == TypeOK /\ Paths /\ [Next]_vars => Paths'
<1> SUFFICES ASSUME TypeOK, Paths, [Next]_vars PROVE Paths'
  OBVIOUS
<1> USE DEF TypeOK, Paths, Goto
<1>1. ASSUME NEW c \in Captures, Capture(c) PROVE Paths'
  <2>1. CASE Begin(c) \/ SetCookies(c) \/ AddScript(c) \/ Extract(c) \/ Export(c) \/ WriteTemp(c)
             \/ RenameTemp(c) \/ Fail(c)
    BY <2>1 DEF Begin, SetCookies, AddScript, Extract, Export, WriteTemp, RenameTemp, Fail
  <2>2. CASE Navigate(c) \/ LogIn(c) \/ Renavigate(c)
    BY <2>2 DEF Navigate, LogIn, Renavigate
  <2> QED  BY <1>1, <2>1, <2>2 DEF Capture
<1>2. CASE Relaunch \/ UNCHANGED vars
  BY <1>2 DEF Relaunch, vars
<1> QED  BY <1>1, <1>2 DEF Next

LEMMA UnreadStep == TypeOK /\ Unread /\ [Next]_vars => Unread'
<1> SUFFICES ASSUME TypeOK, Unread, [Next]_vars PROVE Unread'
  OBVIOUS
<1> USE DEF TypeOK, Unread, Goto, Finished
<1>1. ASSUME NEW c \in Captures, Capture(c) PROVE Unread'
  <2>1. CASE Begin(c) \/ SetCookies(c) \/ AddScript(c) \/ Extract(c)
    BY <2>1 DEF Begin, SetCookies, AddScript, Extract
  <2>2. CASE Navigate(c) \/ LogIn(c) \/ Renavigate(c)
    BY <2>2 DEF Navigate, LogIn, Renavigate
  <2>3. CASE Export(c) \/ WriteTemp(c) \/ RenameTemp(c) \/ Fail(c)
    BY <2>3 DEF Export, WriteTemp, RenameTemp, Fail
  <2> QED  BY <1>1, <2>1, <2>2, <2>3 DEF Capture
<1>2. CASE Relaunch \/ UNCHANGED vars
  BY <1>2 DEF Relaunch, vars
<1> QED  BY <1>1, <1>2 DEF Next

LEMMA RestoredStep == IInv /\ [Next]_vars => Restored'
<1> SUFFICES ASSUME IInv, [Next]_vars PROVE Restored'
  OBVIOUS
<1>1. ASSUME NEW c \in Captures, Capture(c) PROVE Restored'
  <2> SUFFICES ASSUME NEW d \in (Loads \ LogsIn) \ shared', NEW u \in Captures, loaded'[d] = LoggedIn(u)
               PROVE  /\ pc'[d] \in {"scripting", "navigating", "extracting"} => jar' = u
                      /\ pc'[d] = "navigating" => script'[d] = u
                      /\ pc'[d] = "extracting" => local' = u
    BY DEF Restored
  <2>0. u # "none" /\ d \in Captures
    BY Kinds
  <2>1. CASE d # c
    BY <1>1, <2>0, <2>1, OthersQuiet DEF Idle, Finished
  <2>2. CASE d = c
    <3> USE DEF IInv, TypeOK, Goto, LoggedIn
    <3>0. d \notin shared
      BY <1>1, <2>2, CaptureSteps
    <3>1. CASE Begin(c)
      BY <2>2, <3>1 DEF Begin
    <3>2. CASE SetCookies(c)
      BY <2>0, <2>2, <3>2 DEF SetCookies
    <3>3. CASE AddScript(c)
      BY <2>0, <2>2, <3>0, <3>3 DEF AddScript, Restored
    <3>4. CASE Navigate(c)
      BY <2>0, <2>2, <3>0, <3>4 DEF Navigate, NewDocument, Restored
    <3>5. CASE LogIn(c) \/ Renavigate(c)
      <4>1. pc[c] \notin {"acting", "renavigating"}
        BY <2>2 DEF Paths
      <4> QED  BY <3>5, <4>1 DEF LogIn, Renavigate
    <3>6. CASE Extract(c) \/ Export(c) \/ WriteTemp(c) \/ RenameTemp(c) \/ Fail(c)
      BY <2>2, <3>6 DEF Extract, Export, WriteTemp, RenameTemp, Fail
    <3> QED  BY <1>1, <3>1, <3>2, <3>3, <3>4, <3>5, <3>6 DEF Capture
  <2> QED  BY <2>1, <2>2
<1>2. CASE Relaunch
  BY <1>2, Kinds DEF Relaunch, IInv, Restored, Idle, Finished
<1>3. CASE UNCHANGED vars
  BY <1>3 DEF vars, IInv, Restored
<1> QED  BY <1>1, <1>2, <1>3 DEF Next

LEMMA SavedStep == IInv /\ [Next]_vars => Saved'
<1> SUFFICES ASSUME IInv, [Next]_vars PROVE Saved'
  OBVIOUS
<1>1. ASSUME NEW c \in Captures, Capture(c) PROVE Saved'
  <2> SUFFICES ASSUME NEW d \in Captures, Keeps(d)'
               PROVE  /\ pc'[d] \in {"renavigating", "extracting", "saving"} => jar' = d /\ local' = d
                      /\ pc'[d] = "exported" => exported'[d] = Written(d)'
                      /\ pc'[d] = "written" => temp' = Written(d)'
    BY DEF Saved
  <2>1. CASE d # c
    BY <1>1, <2>1, OthersQuiet DEF Idle, Finished, Keeps, Written
  <2>2. CASE d = c
    <3> USE DEF IInv, TypeOK, Goto, LoggedIn, Keeps, Written, CookiesOnly
    <3>0. d \notin shared /\ d \in LogsIn
      BY <1>1, <2>2, CaptureSteps
    <3>1. CASE Begin(c) \/ SetCookies(c) \/ AddScript(c)
      BY <2>2, <3>1 DEF Begin, SetCookies, AddScript
    <3>2. CASE Navigate(c)
      BY <2>2, <3>0, <3>2 DEF Navigate
    <3>3. CASE LogIn(c)
      BY <2>2, <3>3 DEF LogIn
    <3>4. CASE Renavigate(c)
      BY <2>2, <3>0, <3>4 DEF Renavigate, NewDocument, Saved, Paths
    <3>5. CASE Extract(c)
      BY <2>2, <3>0, <3>5 DEF Extract, Saved
    <3>6. CASE Export(c)
      BY <2>2, <3>0, <3>6 DEF Export, FromCdp, Saved, Unread, Finished
    <3>7. CASE WriteTemp(c)
      BY <2>2, <3>0, <3>7 DEF WriteTemp, Saved
    <3>8. CASE RenameTemp(c) \/ Fail(c)
      BY <2>2, <3>8 DEF RenameTemp, Fail
    <3> QED  BY <1>1, <3>1, <3>2, <3>3, <3>4, <3>5, <3>6, <3>7, <3>8 DEF Capture
  <2> QED  BY <2>1, <2>2
<1>2. CASE Relaunch
  BY <1>2 DEF Relaunch, IInv, Saved, Keeps, Written, Idle, Finished
<1>3. CASE UNCHANGED vars
  BY <1>3 DEF vars, IInv, Saved, Keeps, Written
<1> QED  BY <1>1, <1>2, <1>3 DEF Next
-----------------------------------------------------------------------------
LEMMA Invariant == Spec => []IInv
<1>1. Init => IInv
  <2>1. Init => Alone /\ Paths /\ Unread /\ Restored /\ Saved
    BY Kinds DEF Init, Alone, Paths, Unread, Restored, Saved, Idle
  <2> QED  BY <2>1, TypeInit DEF IInv
<1>2. IInv /\ [Next]_vars => IInv'
  BY TypeStep, AloneStep, PathsStep, UnreadStep, RestoredStep, SavedStep DEF IInv
<1> QED  BY <1>1, <1>2, PTL DEF Spec

\* For any captures and any number of relaunches: a capture that restores a login is taken
\* for that user, unless it shares the browser (`apply_storage_state`).
THEOREM RestoredSeen == Spec => []RestoredLoginSeen
<1>1. IInv => RestoredLoginSeen
  BY DEF IInv, Restored, RestoredLoginSeen
<1> QED  BY <1>1, Invariant, PTL

\* For any captures: what a capture saves after its login is that login, or its cookies alone
\* when the page's localStorage could not be read, unless it shares the browser or has an older
\* login restored into a later document (`save_storage_state`).
THEOREM OwnLoginSaved == Spec => LoginSaved
<1> DEFINE Own(c) == c \in Renavigates => script[c] = "none"
<1>1. ASSUME IInv, Next, NEW c \in LogsIn \ shared, pc[c] = "written", pc'[c] = "done", Own(c)
      PROVE  file' = Written(c)
  <2> USE DEF IInv, TypeOK, Goto
  <2>1. c \in Captures /\ temp = Written(c)
    BY <1>1, Kinds DEF Saved, Keeps
  <2>2. RenameTemp(c)
    <3>1. ASSUME NEW d \in Captures, Capture(d) PROVE d = c
      <4> SUFFICES ASSUME d # c PROVE FALSE
        OBVIOUS
      <4> QED  BY <1>1, <2>1, <3>1, CaptureSteps
    <3>2. Capture(c)
      BY <1>1, <2>1, <3>1 DEF Next, Relaunch
    <3> QED  BY <1>1, <2>1, <3>2 DEF Capture, Begin, SetCookies, AddScript, Navigate, LogIn, Renavigate,
                Extract, Export, WriteTemp, Fail
  <2> QED  BY <1>1, <2>1, <2>2 DEF RenameTemp
<1> DEFINE Step == \A c \in LogsIn \ shared :
                     pc[c] = "written" /\ pc'[c] = "done" /\ Own(c) => file' = Written(c)
<1>2. IInv /\ [Next]_vars => [Step]_vars
  BY <1>1
<1> QED  BY <1>2, Invariant, PTL DEF Spec, LoginSaved, Written
=============================================================================
