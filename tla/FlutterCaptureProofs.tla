------------------------ MODULE FlutterCaptureProofs ------------------------
(***************************************************************************)
(* What a capture that has the device to itself may rely on, for any       *)
(* number of captures that begin, overlap, fail and leave late restores    *)
(* behind.                                                                 *)
(*                                                                         *)
(* The argument: whoever begins while the device is busy makes everybody   *)
(* on it shared, so an unshared capture has nobody beside it and no        *)
(* restore pending (Alone); then only its own steps touch size and         *)
(* dilation.  For the size to come back, it must be owed by somebody as    *)
(* long as it is not the original one (SizeOwed), and whoever owes it must *)
(* remember the original one (PrevOriginal).                               *)
(***************************************************************************)
EXTENDS FlutterCapture, TLAPS

\* A capture in one of these has set its size, if it has one, and not restored it.
Applied == {"launching", "connected", "acting", "freezing", "extracting", "finishing"}

Types == /\ TypeOK
         /\ \A c \in Captures : pc[c] \in {"reading", "sizing"} => c \in Sized

\* An unshared capture is alone on the device.
Alone ==
  \A c \in Captures \ shared : pc[c] \notin Idle =>
    drops = {} /\ \A d \in Captures \ {c} : pc[d] \in Idle

\* The size an unshared capture has set stays set.
SizeStays == \A c \in Sized \ shared : pc[c] \in Applied => size = c

\* What SizeRestored presupposes.
Undisturbed == Sized \cap shared = {} /\ adbFails = 0 /\ orphaned = {}

\* Whoever is to restore the size remembers the original one.
PrevOriginal ==
  Undisturbed =>
    \A c \in Sized : pc[c] \in Applied \cup {"sizing"} \/ c \in drops => prev[c] = "original"

\* A size that is not the original one will be restored by the capture that set it.
SizeOwed ==
  Undisturbed => size = "original" \/ (size \in Sized /\ (size \in drops \/ pc[size] \in Applied))

\* A capture that is done has restored its size.
DoneRestored == Undisturbed => \A c \in Captures : pc[c] = "done" => size # c

IInv == /\ Types /\ Alone
        /\ ActsAtRealTime /\ SizeStays
        /\ PrevOriginal /\ SizeOwed /\ DoneRestored
-----------------------------------------------------------------------------
USE Kinds DEF Finished, Idle, Sizes, Applied

\* Nobody runs yet.
LEMMA InitIInv == Init => IInv
BY DEF Init, IInv, Types, TypeOK, Alone, ActsAtRealTime, SizeStays,
   Undisturbed, PrevOriginal, SizeOwed, DoneRestored

\* The variables keep their types, and only a sized capture is before the start of the app.
LEMMA TypesKept == ASSUME IInv, NEW c \in Captures, Capture(c) PROVE Types'
<1> USE DEF Goto, history
<1>1. CASE Begin(c)
  BY <1>1 DEF IInv, Types, TypeOK, Begin, Busy
<1>2. CASE ReadSize(c)
  BY <1>2 DEF IInv, Types, TypeOK, ReadSize
<1>3. CASE SetSize(c)
  BY <1>3 DEF IInv, Types, TypeOK, SetSize
<1>4. CASE Restore(c)
  BY <1>4 DEF IInv, Types, TypeOK, Restore, Drop, AdbFails
<1>5. CASE Fail(c)
  BY <1>5 DEF IInv, Types, TypeOK, Fail, Drop
<1>6. CASE SizingFails(c)
  BY <1>6 DEF IInv, Types, TypeOK, SizingFails
<1>7. CASE RestoreDropped(c)
  BY <1>7 DEF IInv, Types, TypeOK, RestoreDropped, AdbFails
<1>8. CASE Launch(c) \/ ResetDilation(c) \/ Act(c) \/ Freeze(c) \/ Unfreeze(c) \/ Exit(c)
  BY <1>8 DEF IInv, Types, TypeOK, Launch, ResetDilation, Act, Freeze, Unfreeze, Exit
<1> QED  BY <1>1, <1>2, <1>3, <1>4, <1>5, <1>6, <1>7, <1>8 DEF Capture

\* Who begins beside another capture or a pending restore is shared, and makes all that are
\* running shared: an unshared capture stays alone.
LEMMA AloneKept == ASSUME IInv, NEW c \in Captures, Capture(c) PROVE Alone'
<1> USE DEF Goto, history
<1>1. CASE Begin(c)
  BY <1>1 DEF IInv, Types, TypeOK, Alone, Begin, Busy
<1>2. CASE Restore(c)
  BY <1>2 DEF IInv, Types, TypeOK, Alone, Restore, Drop, AdbFails
<1>3. CASE Fail(c)
  BY <1>3 DEF IInv, Types, TypeOK, Alone, Fail, Drop
<1>4. CASE ReadSize(c) \/ SetSize(c) \/ Launch(c) \/ ResetDilation(c) \/ Act(c) \/ Freeze(c)
         \/ Unfreeze(c) \/ SizingFails(c) \/ RestoreDropped(c) \/ Exit(c)
  BY <1>4 DEF IInv, Types, TypeOK, Alone,
     ReadSize, SetSize, Launch, ResetDilation, Act, Freeze, Unfreeze, SizingFails,
     RestoreDropped, Exit, AdbFails
<1> QED  BY <1>1, <1>2, <1>3, <1>4 DEF Capture

\* The dilation is reset when a capture has connected, and then nobody but itself changes it.
LEMMA ActsKept == ASSUME IInv, NEW c \in Captures, Capture(c) PROVE ActsAtRealTime'
<1> USE DEF Goto, history
<1>1. CASE Begin(c)
  BY <1>1 DEF IInv, Types, TypeOK, Alone, ActsAtRealTime, Begin, Busy
<1>2. CASE ResetDilation(c)
  BY <1>2 DEF IInv, Types, TypeOK, Alone, ActsAtRealTime, ResetDilation
<1>3. CASE Freeze(c)
  BY <1>3 DEF IInv, Types, TypeOK, Alone, ActsAtRealTime, Freeze
<1>4. CASE ReadSize(c) \/ SetSize(c) \/ Launch(c) \/ Act(c) \/ Unfreeze(c) \/ Restore(c)
         \/ Fail(c) \/ SizingFails(c) \/ RestoreDropped(c) \/ Exit(c)
  BY <1>4 DEF IInv, Types, TypeOK, Alone, ActsAtRealTime,
     ReadSize, SetSize, Launch, Act, Unfreeze, Restore, Fail, SizingFails, RestoreDropped, Exit,
     AdbFails, Drop
<1> QED  BY <1>1, <1>2, <1>3, <1>4 DEF Capture

\* Only a capture's own restore changes its size, when there is nobody else.
LEMMA SizeKept == ASSUME IInv, NEW c \in Captures, Capture(c) PROVE SizeStays'
<1> USE DEF Goto, history
<1>1. CASE Begin(c)
  BY <1>1 DEF IInv, Types, TypeOK, Alone, SizeStays, Begin, Busy
<1>2. CASE SetSize(c)
  BY <1>2 DEF IInv, Types, TypeOK, Alone, SizeStays, SetSize
<1>3. CASE Restore(c)
  BY <1>3 DEF IInv, Types, TypeOK, Alone, SizeStays, Restore, Drop, AdbFails
<1>4. CASE SizingFails(c)
  BY <1>4 DEF IInv, Types, TypeOK, Alone, SizeStays, SizingFails
<1>5. CASE RestoreDropped(c)
  BY <1>5 DEF IInv, Types, TypeOK, Alone, SizeStays, RestoreDropped, AdbFails
<1>6. CASE ReadSize(c) \/ Launch(c) \/ ResetDilation(c) \/ Act(c) \/ Freeze(c)
         \/ Unfreeze(c) \/ Fail(c) \/ Exit(c)
  BY <1>6 DEF IInv, Types, TypeOK, Alone, SizeStays,
     ReadSize, Launch, ResetDilation, Act, Freeze, Unfreeze, Fail, Exit, Drop
<1> QED  BY <1>1, <1>2, <1>3, <1>4, <1>5, <1>6 DEF Capture

\* ViewportGuard::apply reads the size while nobody has changed it.
LEMMA PrevKept == ASSUME IInv, NEW c \in Captures, Capture(c) PROVE PrevOriginal'
<1> USE DEF Goto, history
<1>1. CASE Begin(c)
  BY <1>1 DEF IInv, Types, TypeOK, Alone, PrevOriginal, SizeOwed, Undisturbed, Begin, Busy
<1>2. CASE ReadSize(c)
  BY <1>2 DEF IInv, Types, TypeOK, Alone, PrevOriginal, SizeOwed, Undisturbed, ReadSize
<1>3. CASE Restore(c)
  BY <1>3 DEF IInv, Types, TypeOK, Alone, PrevOriginal, SizeOwed, Undisturbed, Restore, Drop,
     AdbFails
<1>4. CASE Fail(c)
  BY <1>4 DEF IInv, Types, TypeOK, Alone, PrevOriginal, SizeOwed, Undisturbed, Fail, Drop
<1>5. CASE SetSize(c) \/ Launch(c) \/ ResetDilation(c) \/ Act(c) \/ Freeze(c)
         \/ Unfreeze(c) \/ SizingFails(c) \/ RestoreDropped(c) \/ Exit(c)
  BY <1>5 DEF IInv, Types, TypeOK, Alone, PrevOriginal, SizeOwed, Undisturbed,
     SetSize, Launch, ResetDilation, Act, Freeze, Unfreeze,
     SizingFails, RestoreDropped, Exit, AdbFails
<1> QED  BY <1>1, <1>2, <1>3, <1>4, <1>5 DEF Capture

\* A size that is set is owed by the capture that set it, until it is restored: by restore, by
\* the dropped guard's task, or, at the exit of a CLI process that succeeded, already.
LEMMA OwedKept == ASSUME IInv, NEW c \in Captures, Capture(c) PROVE SizeOwed'
<1> USE DEF Goto, history
<1>1. CASE Begin(c)
  BY <1>1 DEF IInv, Types, TypeOK, Alone, PrevOriginal, SizeOwed, Undisturbed, Begin, Busy
<1>2. CASE SetSize(c)
  BY <1>2 DEF IInv, Types, TypeOK, Alone, PrevOriginal, SizeOwed, Undisturbed, SetSize
<1>3. CASE Restore(c)
  BY <1>3 DEF IInv, Types, TypeOK, Alone, PrevOriginal, SizeOwed, Undisturbed, Restore, Drop,
     AdbFails
<1>4. CASE Fail(c)
  BY <1>4 DEF IInv, Types, TypeOK, Alone, PrevOriginal, SizeOwed, Undisturbed, Fail, Drop
<1>5. CASE SizingFails(c)
  BY <1>5 DEF IInv, Types, TypeOK, Alone, PrevOriginal, SizeOwed, Undisturbed, SizingFails
<1>6. CASE RestoreDropped(c)
  BY <1>6 DEF IInv, Types, TypeOK, Alone, PrevOriginal, SizeOwed, Undisturbed, RestoreDropped,
     AdbFails
<1>7. CASE Exit(c)
  BY <1>7 DEF IInv, Types, TypeOK, SizeOwed, DoneRestored, Undisturbed, Exit
<1>8. CASE ReadSize(c) \/ Launch(c) \/ ResetDilation(c) \/ Act(c) \/ Freeze(c) \/ Unfreeze(c)
  BY <1>8 DEF IInv, Types, TypeOK, Alone, PrevOriginal, SizeOwed, Undisturbed,
     ReadSize, Launch, ResetDilation, Act, Freeze, Unfreeze
<1> QED  BY <1>1, <1>2, <1>3, <1>4, <1>5, <1>6, <1>7, <1>8 DEF Capture

\* The size of a capture that is done has been restored, and nobody sets it again.
LEMMA DoneKept == ASSUME IInv, NEW c \in Captures, Capture(c) PROVE DoneRestored'
<1> USE DEF Goto, history
<1>1. CASE Begin(c)
  BY <1>1 DEF IInv, Types, TypeOK, PrevOriginal, SizeOwed, DoneRestored, Undisturbed, Begin, Busy
<1>2. CASE SetSize(c)
  BY <1>2 DEF IInv, Types, TypeOK, PrevOriginal, SizeOwed, DoneRestored, Undisturbed, SetSize
<1>3. CASE Restore(c)
  BY <1>3 DEF IInv, Types, TypeOK, PrevOriginal, SizeOwed, DoneRestored, Undisturbed, Restore,
     Drop, AdbFails
<1>4. CASE SizingFails(c)
  BY <1>4 DEF IInv, Types, TypeOK, PrevOriginal, SizeOwed, DoneRestored, Undisturbed, SizingFails
<1>5. CASE RestoreDropped(c)
  BY <1>5 DEF IInv, Types, TypeOK, PrevOriginal, SizeOwed, DoneRestored, Undisturbed,
     RestoreDropped, AdbFails
<1>6. CASE ReadSize(c) \/ Launch(c) \/ ResetDilation(c) \/ Act(c) \/ Freeze(c)
         \/ Unfreeze(c) \/ Fail(c) \/ Exit(c)
  BY <1>6 DEF IInv, Types, TypeOK, PrevOriginal, SizeOwed, DoneRestored, Undisturbed,
     ReadSize, Launch, ResetDilation, Act, Freeze, Unfreeze, Fail, Exit, Drop
<1> QED  BY <1>1, <1>2, <1>3, <1>4, <1>5, <1>6 DEF Capture
-----------------------------------------------------------------------------
\* The conjuncts together are inductive.
LEMMA NextIInv == IInv /\ [Next]_vars => IInv'
<1> SUFFICES ASSUME IInv, [Next]_vars PROVE IInv'  OBVIOUS
<1>1. CASE Next
  <2>1. PICK c \in Captures : Capture(c)  BY <1>1 DEF Next
  <2> QED  BY <2>1, TypesKept, AloneKept, ActsKept, SizeKept, PrevKept, OwedKept,
              DoneKept DEF IInv
<1>2. CASE UNCHANGED vars
  BY <1>2 DEF vars, history, IInv, Types, TypeOK, Alone, ActsAtRealTime,
     SizeStays, Undisturbed, PrevOriginal, SizeOwed, DoneRestored
<1> QED  BY <1>1, <1>2

\* The inductive invariant holds in every reachable state.
LEMMA SpecIInv == Spec => []IInv
BY InitIInv, NextIInv, PTL DEF Spec

\* The state of the captures, of the device and of the app is well formed.
THEOREM TypeCorrect == Spec => []TypeOK
<1>1. IInv => TypeOK  BY DEF IInv, Types
<1> QED  BY <1>1, SpecIInv, PTL

\* The reset after the connection is enough for every action of an unshared capture to run at
\* real time, however many captures before it failed with the app frozen.
THEOREM ActsCorrect == Spec => []ActsAtRealTime
<1>1. IInv => ActsAtRealTime  BY DEF IInv
<1> QED  BY <1>1, SpecIInv, PTL

\* The viewport of an unshared capture is the one its tree is laid out for: no restore left
\* behind by an earlier capture comes in between.
THEOREM OwnSizeCorrect == Spec => []OwnSizeWhileExtracting
<1>1. IInv => OwnSizeWhileExtracting  BY DEF IInv, SizeStays, OwnSizeWhileExtracting
<1> QED  BY <1>1, SpecIInv, PTL

\* ViewportGuard, its restore and its Drop give the device back its size, under the conditions
\* SizeRestored names, on every path of every capture.
THEOREM RestoredCorrect == Spec => []SizeRestored
<1>1. IInv => SizeRestored  BY DEF IInv, SizeOwed, Undisturbed, SizeRestored, Quiet
<1> QED  BY <1>1, SpecIInv, PTL
=============================================================================
