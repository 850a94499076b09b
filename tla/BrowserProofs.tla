---------------------------- MODULE BrowserProofs ----------------------------
(***************************************************************************)
(* Proofs about the browsers and the other processes that captures use:    *)
(* ChromePool, for any finite set of jobs, any number of permits and any   *)
(* bound on browsers, crashes and false alarms; ToolProcesses, for any     *)
(* launches, any choice of tools, any size of the pipes and any bound on   *)
(* lines, ticks and attempts.                                              *)
(***************************************************************************)
EXTENDS ChromePool, ToolProcesses, FiniteSetTheorems, TLAPS

-----------------------------------------------------------------------------
(* ChromePool.  A step either leaves every job on the side of the semaphore it is on, or moves
   one job in (Acquire) and takes one permit, or moves one job out (a result is returned) and
   gives one permit back.

   That bounds the browsers, too: whoever is alive is referred to (Bound), each job past the
   semaphore refers to at most two, and the current one is one of these unless a permit is free or
   some job has yet to clone it (CurrentHeld). *)

\* What a job refers to where it is.
Bindings ==
  \A j \in Jobs :
    /\ pc[j] \in {"idle", "queued", "holding"} \cup Finished => first[j] = 0
    /\ pc[j] \notin {"replacing", "rerunning"} => second[j] = 0
    /\ pc[j] = "replacing" => second[j] # 0

Bound == alive \subseteq Referenced(current, first, second)

CurrentHeld ==
  \/ permits > 0
  \/ \E j \in Jobs : first[j] = current \/ second[j] = current \/ pc[j] \in {"holding", "relaunched"}

IInv == TypeOK /\ PermitsConserved /\ Bindings /\ Bound /\ CurrentHeld

USE DEF Running, Holding, Finished

-----------------------------------------------------------------------------
LEMMA HoldersFinite == IsFiniteSet(Holders)
BY JobsFinite, FS_Subset DEF Holders

\* A step of a job that holds a permit before and after leaves the holders as they are.
LEMMA HoldersKept ==
  ASSUME TypeOK, NEW j \in Jobs, NEW l, Goto(j, l), pc[j] \in Holding <=> l \in Holding
  PROVE  Holders' = Holders
<1>1. \A i \in Jobs : pc'[i] = IF i = j THEN l ELSE pc[i]
  BY DEF TypeOK, Goto
<1> QED  BY <1>1 DEF Holders

\* A job that goes past the semaphore is one holder more.
LEMMA HoldersGain ==
  ASSUME TypeOK, NEW j \in Jobs, NEW l, Goto(j, l), pc[j] \notin Holding, l \in Holding
  PROVE  Cardinality(Holders') = Cardinality(Holders) + 1
<1>1. \A i \in Jobs : pc'[i] = IF i = j THEN l ELSE pc[i]
  BY DEF TypeOK, Goto
<1>2. Holders' = Holders \cup {j} /\ j \notin Holders
  BY <1>1 DEF Holders
<1> QED  BY <1>2, HoldersFinite, FS_AddElement

\* A job that returns is one holder less.
LEMMA HoldersLose ==
  ASSUME TypeOK, NEW j \in Jobs, NEW l, Goto(j, l), pc[j] \in Holding, l \notin Holding
  PROVE  Cardinality(Holders') = Cardinality(Holders) - 1
<1>1. \A i \in Jobs : pc'[i] = IF i = j THEN l ELSE pc[i]
  BY DEF TypeOK, Goto
<1>2. Holders' = Holders \ {j} /\ j \in Holders
  BY <1>1 DEF Holders
<1> QED  BY <1>2, HoldersFinite, FS_RemoveElement

LEMMA HoldersNat == Cardinality(Holders) \in Nat
BY HoldersFinite, FS_CardinalityType

\* A job returns: its permit goes back, and so do its sniffers.
LEMMA FinishKeeps ==
  ASSUME IInv, NEW j \in Jobs, NEW r \in Finished, pc[j] \in Running, Finish(j, r),
         UNCHANGED <<current, hung, launched, crashes>>, alarms' \in 0..MaxFalseAlarms
  PROVE  IInv'
<1>1. Cardinality(Holders') = Cardinality(Holders) - 1
  BY HoldersLose DEF IInv, Finish
<1>2. permits' = permits + 1 /\ permits \in Nat /\ Cardinality(Holders) \in Nat
  BY HoldersNat DEF IInv, TypeOK, Finish
<1>3. PermitsConserved' /\ CurrentHeld'
  BY <1>1, <1>2, BoundsNat DEF IInv, PermitsConserved, CurrentHeld
<1>4. TypeOK'
  <2>1. alive' \subseteq alive
    BY DEF Finish
  <2>2. first' = [first EXCEPT ![j] = 0] /\ second' = [second EXCEPT ![j] = 0] /\ pc' = [pc EXCEPT ![j] = r]
    BY DEF Finish, Goto
  <2> QED  BY <1>2, <2>1, <2>2 DEF IInv, TypeOK
<1>5. /\ \A i \in Jobs \ {j} : pc'[i] = pc[i] /\ first'[i] = first[i] /\ second'[i] = second[i]
      /\ pc'[j] = r /\ first'[j] = 0 /\ second'[j] = 0
  BY DEF IInv, TypeOK, Finish, Goto
<1>6. Bindings'
  BY <1>5 DEF IInv, Bindings
<1>7. Bound'
  <2> SUFFICES ASSUME NEW b \in alive, b \notin {first[j], second[j]}
               PROVE  b \in Referenced(current, first', second')
    BY DEF Bound, Finish
  <2> QED  BY <1>5 DEF IInv, Bound, Referenced
<1> QED  BY <1>3, <1>4, <1>6, <1>7 DEF IInv

\* A transport error either starts a relaunch under the same permit or ends the job.
LEMMA TransportErrorKeeps ==
  ASSUME IInv, NEW j \in Jobs, pc[j] \in Running, TransportError(j),
         UNCHANGED <<current, hung, launched, crashes>>, alarms' \in 0..MaxFalseAlarms
  PROVE  IInv'
<1>1. CASE pc[j] = "running" /\ Goto(j, "relaunching") /\ UNCHANGED <<permits, first, second, alive>>
  <2>1. Holders' = Holders
    BY <1>1, HoldersKept DEF IInv
  <2>2. TypeOK' /\ PermitsConserved' /\ Bound'
    BY <1>1, <2>1 DEF IInv, TypeOK, PermitsConserved, Goto, Bound
  <2>3. \A i \in Jobs : pc'[i] = IF i = j THEN "relaunching" ELSE pc[i]
    BY <1>1 DEF IInv, TypeOK, Goto
  <2>4. Bindings' /\ CurrentHeld'
    BY <1>1, <2>3 DEF IInv, Bindings, CurrentHeld
  <2> QED  BY <2>2, <2>4 DEF IInv
<1>2. CASE pc[j] = "rerunning" /\ Finish(j, "error")
  BY <1>2, FinishKeeps
<1> QED  BY <1>1, <1>2 DEF TransportError

-----------------------------------------------------------------------------
LEMMA InitIInv == Init => IInv
<1> SUFFICES ASSUME Init PROVE IInv
  OBVIOUS
<1>1. TypeOK
  BY BoundsNat DEF Init, TypeOK
<1>2. Holders = {}
  BY DEF Init, Holders
<1>3. Bindings /\ Bound /\ CurrentHeld
  BY BoundsNat DEF Init, Bindings, Bound, CurrentHeld, Referenced
<1> QED  BY <1>1, <1>2, <1>3, FS_EmptySet, BoundsNat DEF Init, IInv, PermitsConserved

\* Types and permits under a step that ends no job.
LEMMA PermitsStep ==
  ASSUME IInv, NEW j \in Jobs,
         \/ Call(j) \/ Acquire(j) \/ ReadSniffer(j) \/ Relaunch(j) \/ Replace(j) \/ RelaunchFails(j)
         \/ ReadAgain(j) \/ Stall(j)
  PROVE  TypeOK' /\ PermitsConserved'
<1> USE BoundsNat
<1>1. CASE Call(j)
  <2>1. Holders' = Holders
    BY <1>1, HoldersKept DEF IInv, Call
  <2> QED  BY <1>1, <2>1 DEF IInv, TypeOK, PermitsConserved, Call, Goto
<1>2. CASE Acquire(j)
  <2>1. Cardinality(Holders') = Cardinality(Holders) + 1
    BY <1>2, HoldersGain DEF IInv, Acquire
  <2>2. PermitsConserved'
    BY <1>2, <2>1, HoldersNat DEF IInv, TypeOK, PermitsConserved, Acquire
  <2>3. TypeOK'
    BY <1>2 DEF IInv, TypeOK, Acquire, Goto
  <2> QED  BY <2>2, <2>3
<1>3. CASE ReadSniffer(j)
  <2>1. Holders' = Holders
    BY <1>3, HoldersKept DEF IInv, ReadSniffer
  <2> QED  BY <1>3, <2>1 DEF IInv, TypeOK, PermitsConserved, ReadSniffer, Goto
<1>4. CASE Relaunch(j)
  <2>1. Holders' = Holders
    BY <1>4, HoldersKept DEF IInv, Relaunch
  <2>2. /\ pc' \in [Jobs -> {"idle", "queued"} \cup Holding \cup Finished]
        /\ launched' = launched + 1 /\ launched' \in 1..MaxBrowsers
        /\ current' = current /\ alive' = alive \cup {launched'}
        /\ second' = [second EXCEPT ![j] = launched'] /\ first' = first
    BY <1>4 DEF IInv, TypeOK, Relaunch, Goto
  <2>3. \A i \in Jobs : first[i] \in 0..launched' /\ second[i] \in 0..launched'
    BY <2>2 DEF IInv, TypeOK
  <2>4. first' \in [Jobs -> 0..launched'] /\ second' \in [Jobs -> 0..launched']
    BY <2>2, <2>3 DEF IInv, TypeOK
  <2>5. current' \in 1..launched' /\ alive' \subseteq 1..launched'
    BY <2>2 DEF IInv, TypeOK
  <2> QED  BY <1>4, <2>1, <2>2, <2>4, <2>5 DEF IInv, TypeOK, PermitsConserved, Relaunch
<1>5. CASE Replace(j)
  <2>1. Holders' = Holders
    BY <1>5, HoldersKept DEF IInv, Replace
  <2>2. alive' \subseteq alive /\ current' = second[j] /\ second[j] \in 1..launched
    BY <1>5 DEF Replace, IInv, TypeOK, Bindings
  <2>3. /\ pc' = [pc EXCEPT ![j] = "relaunched"] /\ second' = [second EXCEPT ![j] = 0]
        /\ UNCHANGED <<permits, first, hung, launched, crashes, alarms>>
    BY <1>5 DEF Replace, Goto
  <2> QED  BY <2>1, <2>2, <2>3 DEF IInv, TypeOK, PermitsConserved
<1>6. CASE RelaunchFails(j)
  <2>1. Holders' = Holders
    BY <1>6, HoldersKept DEF IInv, RelaunchFails
  <2>2. /\ alive' \subseteq alive /\ pc' = [pc EXCEPT ![j] = "relaunched"]
        /\ second' = [second EXCEPT ![j] = 0]
        /\ UNCHANGED <<permits, current, first, hung, launched, crashes, alarms>>
    BY <1>6 DEF RelaunchFails, Goto
  <2> QED  BY <2>1, <2>2 DEF IInv, TypeOK, PermitsConserved
<1>7. CASE ReadAgain(j)
  <2>1. Holders' = Holders
    BY <1>7, HoldersKept DEF IInv, ReadAgain
  <2> QED  BY <1>7, <2>1 DEF IInv, TypeOK, PermitsConserved, ReadAgain, Goto
<1>8. CASE Stall(j)
  BY <1>8 DEF IInv, TypeOK, PermitsConserved, Stall, Holders
<1> QED  BY <1>1, <1>2, <1>3, <1>4, <1>5, <1>6, <1>7, <1>8

\* Who is referred to.
LEMMA ReferencedIs ==
  ASSUME NEW b, NEW c, NEW f, NEW g
  PROVE  b \in Referenced(c, f, g) <=> b = c \/ \E i \in Jobs : b = f[i] \/ b = g[i]
BY DEF Referenced

\* What a step of one job changes for the others, and what is referred to after it.
LEMMA BoundSuffices ==
  ASSUME IInv, NEW j \in Jobs,
         \A i \in Jobs \ {j} : pc'[i] = pc[i] /\ first'[i] = first[i] /\ second'[i] = second[i],
         pc'[j] \in {"idle", "queued", "holding"} \cup Finished => first'[j] = 0,
         pc'[j] \notin {"replacing", "rerunning"} => second'[j] = 0,
         pc'[j] = "replacing" => second'[j] # 0,
         current' # current => current \notin alive' \/ \E i \in Jobs : current = first'[i] \/ current = second'[i],
         \A b \in alive' : b \in alive \/ b = second'[j],
         \A b \in {first[j], second[j]} \cap alive' : b \in {first'[j], second'[j], current'}
  PROVE  Bindings' /\ Bound'
<1>1. Bindings'
  BY DEF IInv, Bindings
<1>2. ASSUME NEW b \in alive' PROVE b = current' \/ \E i \in Jobs : b = first'[i] \/ b = second'[i]
  <2>1. CASE b = second'[j]
    BY <2>1
  <2>2. CASE b \in alive
    <3>1. b = current \/ \E i \in Jobs : b = first[i] \/ b = second[i]
      BY <2>2, ReferencedIs DEF IInv, Bound
    <3>2. CASE b = current
      BY <1>2, <3>2
    <3>3. ASSUME NEW i \in Jobs, b = first[i] \/ b = second[i]
          PROVE  b = current' \/ \E k \in Jobs : b = first'[k] \/ b = second'[k]
      BY <1>2, <3>3
    <3> QED  BY <3>1, <3>2, <3>3
  <2> QED  BY <2>1, <2>2
<1>3. Bound'
  BY <1>2 DEF Bound, Referenced
<1> QED  BY <1>1, <1>3

\* The sniffers, under the same steps.
LEMMA BoundStep ==
  ASSUME IInv, NEW j \in Jobs,
         \/ Call(j) \/ Acquire(j) \/ ReadSniffer(j) \/ Relaunch(j) \/ Replace(j) \/ RelaunchFails(j)
         \/ ReadAgain(j) \/ Stall(j)
  PROVE  Bindings' /\ Bound' /\ CurrentHeld'
<1> DEFINE Others == \A i \in Jobs \ {j} : pc'[i] = pc[i] /\ first'[i] = first[i] /\ second'[i] = second[i]
<1>0. /\ pc \in [Jobs -> {"idle", "queued"} \cup Holding \cup Finished]
      /\ first \in [Jobs -> 0..launched] /\ second \in [Jobs -> 0..launched] /\ 0 \notin alive
      /\ permits \in Nat
  BY DEF IInv, TypeOK
<1>1. CASE Call(j)
  <2>1. /\ Others /\ UNCHANGED <<permits, current, first, second, alive>> /\ pc'[j] = "queued"
        /\ pc[j] = "idle"
    BY <1>0, <1>1 DEF Call, Goto
  <2>2. first[j] = 0 /\ second[j] = 0
    BY <2>1 DEF IInv, Bindings
  <2>3. CurrentHeld'
    BY <2>1 DEF IInv, CurrentHeld
  <2> QED  BY <2>1, <2>2, <2>3, BoundSuffices
<1>2. CASE Acquire(j)
  <2>1. Others /\ UNCHANGED <<current, first, second, alive>> /\ pc[j] = "queued" /\ pc'[j] = "holding"
    BY <1>0, <1>2 DEF Acquire, Goto
  <2>2. first[j] = 0 /\ second[j] = 0
    BY <2>1 DEF IInv, Bindings
  <2>3. CurrentHeld'
    BY <2>1 DEF CurrentHeld
  <2> QED  BY <2>1, <2>2, <2>3, BoundSuffices
<1>3. CASE ReadSniffer(j)
  <2>1. /\ Others /\ UNCHANGED <<current, second, alive>> /\ pc[j] = "holding" /\ pc'[j] = "running"
        /\ first'[j] = current
    BY <1>0, <1>3 DEF ReadSniffer, Goto
  <2>2. first[j] = 0 /\ second[j] = 0
    BY <2>1 DEF IInv, Bindings
  <2>3. CurrentHeld'
    BY <2>1 DEF CurrentHeld
  <2> QED  BY <1>0, <2>1, <2>2, <2>3, BoundSuffices
<1>4. CASE Relaunch(j)
  <2>1. /\ Others /\ UNCHANGED <<permits, current, first>> /\ pc[j] = "relaunching" /\ pc'[j] = "replacing"
        /\ alive' = alive \cup {second'[j]}
    BY <1>0, <1>4 DEF Relaunch, Goto
  <2>2. second[j] = 0
    BY <2>1 DEF IInv, Bindings
  <2>3. second'[j] # 0
    BY <1>0, <1>4 DEF Relaunch, IInv, TypeOK
  <2>4. CurrentHeld'
    <3>1. \A i \in Jobs : first[i] = current \/ second[i] = current => first'[i] = current \/ second'[i] = current
      BY <2>1, <2>2 DEF IInv, TypeOK
    <3>2. \A i \in Jobs : pc[i] \in {"holding", "relaunched"} => pc'[i] \in {"holding", "relaunched"}
      BY <2>1
    <3> QED  BY <2>1, <3>1, <3>2 DEF IInv, CurrentHeld
  <2> QED  BY <1>0, <2>1, <2>2, <2>3, <2>4, BoundSuffices
<1>5. CASE Replace(j)
  <2>1. /\ Others /\ UNCHANGED first /\ pc[j] = "replacing" /\ pc'[j] = "relaunched" /\ second'[j] = 0
        /\ current' = second[j] /\ alive' = alive \ ({current} \ Referenced(current', first, second'))
    BY <1>0, <1>5 DEF Replace, Goto
  <2>2. CurrentHeld'
    BY <2>1 DEF CurrentHeld
  <2>3. first[j] = first'[j]
    BY <2>1
  <2>4. current' # current => current \notin alive' \/ \E i \in Jobs : current = first'[i] \/ current = second'[i]
    <3>1. current \in alive' => current \in Referenced(current', first, second')
      BY <2>1
    <3> QED  BY <2>1, <3>1, ReferencedIs
  <2>5. alive' \subseteq alive
    BY <2>1
  <2>6. first'[j] = 0 \/ pc'[j] \notin {"idle", "queued", "holding"} \cup Finished
    BY <2>1
  <2> QED  BY <2>1, <2>2, <2>3, <2>4, <2>5, <2>6, BoundSuffices
<1>6. CASE RelaunchFails(j)
  <2>1. /\ Others /\ UNCHANGED <<permits, current, first>> /\ pc[j] \in {"relaunching", "replacing"}
        /\ pc'[j] = "relaunched" /\ second'[j] = 0 /\ alive' = alive \ {second[j]}
    BY <1>0, <1>6 DEF RelaunchFails, Goto
  <2>2. CurrentHeld'
    BY <2>1 DEF CurrentHeld
  <2> QED  BY <1>0, <2>1, <2>2, BoundSuffices
<1>7. CASE ReadAgain(j)
  <2>1. /\ Others /\ UNCHANGED <<current, first, alive>> /\ pc[j] = "relaunched" /\ pc'[j] = "rerunning"
        /\ second'[j] = current
    BY <1>0, <1>7 DEF ReadAgain, Goto
  <2>2. second[j] = 0
    BY <2>1 DEF IInv, Bindings
  <2>3. CurrentHeld'
    BY <2>1 DEF CurrentHeld
  <2> QED  BY <1>0, <2>1, <2>2, <2>3, BoundSuffices
<1>8. CASE Stall(j)
  BY <1>8 DEF Stall, IInv, Bindings, Bound, CurrentHeld, Referenced
<1> QED  BY <1>1, <1>2, <1>3, <1>4, <1>5, <1>6, <1>7, <1>8

LEMMA NextIInv == IInv /\ [Next]_vars => IInv'
<1> SUFFICES ASSUME IInv, [Next]_vars PROVE IInv'
  OBVIOUS
<1>1. ASSUME NEW j \in Jobs,
             \/ Call(j) \/ Acquire(j) \/ ReadSniffer(j) \/ Relaunch(j) \/ Replace(j) \/ RelaunchFails(j)
             \/ ReadAgain(j) \/ Stall(j)
      PROVE  IInv'
  BY <1>1, PermitsStep, BoundStep DEF IInv
<1>2. ASSUME NEW j \in Jobs, RunEnds(j) PROVE IInv'
  <2>1. PICK r \in Finished : Finish(j, r)
    BY <1>2 DEF RunEnds
  <2> QED  BY <1>2, <2>1, FinishKeeps DEF IInv, TypeOK, RunEnds
<1>3. ASSUME NEW j \in Jobs, FalseAlarm(j) PROVE IInv'
  <2>1. alarms' \in 0..MaxFalseAlarms
    BY <1>3, BoundsNat DEF IInv, TypeOK, FalseAlarm
  <2> QED  BY <1>3, <2>1, TransportErrorKeeps DEF FalseAlarm
<1>4. ASSUME NEW j \in Jobs, RunFindsDead(j) PROVE IInv'
  <2>1. alarms' \in 0..MaxFalseAlarms
    BY <1>4 DEF IInv, TypeOK, RunFindsDead
  <2> QED  BY <1>4, <2>1, TransportErrorKeeps, FinishKeeps DEF RunFindsDead
<1>5. ASSUME NEW b \in 1..MaxBrowsers, Crash(b) PROVE IInv'
  BY <1>5, BoundsNat DEF Crash, IInv, TypeOK, PermitsConserved, Holders, Bindings, Bound, CurrentHeld,
     Referenced
<1>6. CASE UNCHANGED vars
  BY <1>6 DEF vars, IInv, TypeOK, PermitsConserved, Holders, Bindings, Bound, CurrentHeld, Referenced
<1> QED  BY <1>1, <1>2, <1>3, <1>4, <1>5, <1>6 DEF Next, Job

LEMMA SpecIInv == Spec => []IInv
BY InitIInv, NextIInv, PTL DEF Spec

\* The pool's state has its types.
THEOREM TypeCorrect == Spec => []TypeOK
BY SpecIInv, PTL DEF IInv

\* Through errors, relaunches and retries no permit is lost and none is made up.
THEOREM PermitsNeverLost == Spec => []PermitsConserved
BY SpecIInv, PTL DEF IInv

\* At most Permits jobs are past the semaphore at once.
THEOREM ConcurrencyBounded == Spec => [](Cardinality(Holders) <= Permits)
<1>1. IInv => Cardinality(Holders) <= Permits
  BY HoldersNat, BoundsNat DEF IInv, TypeOK, PermitsConserved
<1> QED  BY <1>1, SpecIInv, PTL

-----------------------------------------------------------------------------
(* Counting browsers: each job past the semaphore accounts for two, itself or the current one. *)

First(j)  == IF first[j] = 0 THEN current ELSE first[j]
Second(j) == IF second[j] = 0 THEN current ELSE second[j]

\* The values of an operator on the holders are no more than the holders.
LEMMA ValuesBounded ==
  ASSUME NEW S, IsFiniteSet(S), NEW f, f = [j \in S |-> f[j]], NEW T, T = {f[j] : j \in S}
  PROVE  IsFiniteSet(T) /\ Cardinality(T) <= Cardinality(S) /\ Cardinality(T) \in Nat
<1>1. f \in Surjection(S, T)
  BY DEF Surjection
<1> QED  BY <1>1, FS_Surjection, FS_CardinalityType

LEMMA BrowsersCounted == IInv => BrowsersBounded
<1> SUFFICES ASSUME IInv PROVE BrowsersBounded
  OBVIOUS
<1> DEFINE f == [j \in Holders |-> First(j)]
           g == [j \in Holders |-> Second(j)]
           F == {f[j] : j \in Holders}
           G == {g[j] : j \in Holders}
<1>1. IsFiniteSet(F) /\ Cardinality(F) <= Cardinality(Holders) /\ Cardinality(F) \in Nat
  <2>1. f = [j \in Holders |-> f[j]]
    OBVIOUS
  <2> HIDE DEF f
  <2> QED  BY <2>1, HoldersFinite, ValuesBounded
<1>2. IsFiniteSet(G) /\ Cardinality(G) <= Cardinality(Holders) /\ Cardinality(G) \in Nat
  <2>1. g = [j \in Holders |-> g[j]]
    OBVIOUS
  <2> HIDE DEF g
  <2> QED  BY <2>1, HoldersFinite, ValuesBounded
<1>3. /\ IsFiniteSet(F \cup G) /\ Cardinality(F \cup G) \in Nat
      /\ Cardinality(F \cup G) <= 2 * (Permits - permits)
  <2>1. Cardinality(Holders) = Permits - permits
    BY HoldersNat, BoundsNat DEF IInv, TypeOK, PermitsConserved
  <2>2. /\ IsFiniteSet(F \cup G) /\ IsFiniteSet(F \cap G)
        /\ Cardinality(F \cup G) = Cardinality(F) + Cardinality(G) - Cardinality(F \cap G)
    <3> HIDE DEF F, G
    <3>1. IsFiniteSet(F \cap G)
      BY <1>1, FS_Subset
    <3> QED  BY <1>1, <1>2, <3>1, FS_Union
  <2>3. Cardinality(F \cap G) \in Nat /\ Cardinality(F \cup G) \in Nat
    BY <2>2, FS_CardinalityType
  <2> HIDE DEF F, G
  <2> QED  BY <1>1, <1>2, <2>1, <2>2, <2>3, HoldersNat
<1>4. \A j \in Jobs : /\ first[j] # 0 => first[j] \in F
                      /\ second[j] # 0 => second[j] \in G
  BY DEF IInv, TypeOK, Bindings, Holders, First, Second
<1>5. 0 \notin alive
  BY DEF IInv, TypeOK
<1>6. alive \subseteq F \cup G \cup {current}
  <2> SUFFICES ASSUME NEW b \in alive PROVE b \in F \cup G \cup {current}
    OBVIOUS
  <2>1. b = current \/ \E i \in Jobs : b = first[i] \/ b = second[i]
    BY ReferencedIs DEF IInv, Bound
  <2>2. b # 0
    BY <1>5
  <2> HIDE DEF F, G
  <2> QED  BY <1>4, <2>1, <2>2
<1>7. permits = 0 => current \in F \cup G
  <2> SUFFICES ASSUME permits = 0 PROVE current \in F \cup G
    OBVIOUS
  <2>1. PICK j \in Jobs : first[j] = current \/ second[j] = current \/ pc[j] \in {"holding", "relaunched"}
    BY DEF IInv, CurrentHeld
  <2>2. current # 0
    BY DEF IInv, TypeOK
  <2>3. CASE first[j] = current \/ second[j] = current
    <3> HIDE DEF F, G
    <3> QED  BY <1>4, <2>2, <2>3
  <2>4. CASE pc[j] \in {"holding", "relaunched"}
    <3>1. j \in Holders /\ second[j] = 0
      BY <2>4 DEF IInv, Bindings, Holders
    <3>2. g[j] = current /\ g[j] \in G
      BY <3>1 DEF Second
    <3> QED  BY <3>2
  <2> QED  BY <2>1, <2>3, <2>4
<1> HIDE DEF F, G
<1>8. CASE permits = 0
  <2>1. alive \subseteq F \cup G
    BY <1>6, <1>7, <1>8
  <2>2. Cardinality(alive) <= Cardinality(F \cup G) /\ Cardinality(alive) \in Nat
    BY <1>3, <2>1, FS_Subset, FS_CardinalityType
  <2> QED  BY <1>3, <1>8, <2>2, BoundsNat DEF BrowsersBounded
<1>9. CASE permits # 0
  <2>1. /\ IsFiniteSet(F \cup G \cup {current}) /\ Cardinality(F \cup G \cup {current}) \in Nat
        /\ Cardinality(F \cup G \cup {current}) <= Cardinality(F \cup G) + 1
    <3> DEFINE U == F \cup G
    <3>1. IsFiniteSet(U) /\ Cardinality(U) \in Nat
      BY <1>3
    <3> HIDE DEF U
    <3>2. /\ IsFiniteSet(U \cup {current})
          /\ Cardinality(U \cup {current}) = IF current \in U THEN Cardinality(U) ELSE Cardinality(U) + 1
      BY <3>1, FS_AddElement
    <3>3. IsFiniteSet(U \cup {current}) /\ Cardinality(U \cup {current}) \in Nat
          /\ Cardinality(U \cup {current}) <= Cardinality(U) + 1
      BY <3>1, <3>2
    <3> QED  BY <3>3 DEF U
  <2>2. Cardinality(alive) <= Cardinality(F \cup G \cup {current}) /\ Cardinality(alive) \in Nat
    BY <1>6, <2>1, FS_Subset, FS_CardinalityType
  <2> QED  BY <1>3, <1>9, <2>1, <2>2, BoundsNat DEF BrowsersBounded, IInv, TypeOK
<1> QED  BY <1>8, <1>9

\* For any number of calls, permits, relaunches that race or fail, crashes and calls that hang:
\* each call past the semaphore keeps at most two browsers running, and the current one counts
\* extra only while a permit is free (`sniff_with`, `relaunch`).
THEOREM BrowsersCapped == Spec => []BrowsersBounded
BY BrowsersCounted, SpecIInv, PTL

-----------------------------------------------------------------------------
(* ToolProcesses.  A launch leaves "waiting" or "up" for a state where its child must not run
   only by a step that kills the child (Named adds that no child runs before it); a profile
   number is taken once, by Spawn, from a counter that never comes back, so that no step of
   one launch takes another's directory away; and Drop ends either with the removal of its own
   or with the count of its failed attempts. *)

Spawned(l) == tool[l] = "chrome" /\ stage[l] \notin {"idle", "failed"}

\* Profile numbers: 0 before a launch has one, and no number twice.
Named ==
  \A l \in Launches :
    /\ stage[l] = "idle" => child[l] = "none" /\ profile[l] = 0
    /\ Spawned(l) => profile[l] # 0
    /\ \A k \in Launches \ {l} : profile[l] # 0 => profile[k] # profile[l]

USE Sizes, Assignments DEF Set, Tools

-----------------------------------------------------------------------------
(* Types. *)

LEMMA KillTyped ==
  ASSUME ToolsTypeOK, NEW l \in Launches
  PROVE  Kill(l) \in [Launches -> {"none", "running", "killed", "exited"}]
BY DEF ToolsTypeOK, Kill

LEMMA TypeInit == ToolsInit => ToolsTypeOK
BY DEF ToolsInit, ToolsTypeOK, Silent, Streams, Lines

LEMMA TypeChildren ==
  ASSUME ToolsTypeOK, NEW l \in Launches,
         \/ \E s \in Streams, line \in Lines : Wants(l, s, line)
         \/ Write(l) \/ Exit(l)
  PROVE  ToolsTypeOK'
<1>1. ASSUME NEW s \in Streams, NEW line \in Lines, Wants(l, s, line) PROVE ToolsTypeOK'
  BY <1>1 DEF ToolsTypeOK, Wants
<1>2. CASE Write(l)
  <2> DEFINE s == wants[l].stream
  <2>1. s \in Streams /\ wants[l].line \in Lines
    BY <1>2 DEF Write, ToolsTypeOK
  <2>2. /\ pipe' \in [Launches -> [Streams -> Seq(Lines)]]
        /\ \A k \in Launches : \A t \in Streams : Len(pipe'[k][t]) <= PipeSize
    <3>1. CASE UNCHANGED pipe
      BY <3>1 DEF ToolsTypeOK
    <3>2. CASE /\ Len(pipe[l][s]) < PipeSize
               /\ pipe' = [pipe EXCEPT ![l][s] = Append(@, wants[l].line)]
      <4>1. /\ Append(pipe[l][s], wants[l].line) \in Seq(Lines)
            /\ Len(Append(pipe[l][s], wants[l].line)) = Len(pipe[l][s]) + 1
            /\ Len(pipe[l][s]) \in Nat
        BY <2>1 DEF ToolsTypeOK
      <4> QED  BY <3>2, <4>1, <2>1 DEF ToolsTypeOK
    <3> QED  BY <1>2, <3>1, <3>2 DEF Write
  <2> QED  BY <1>2, <2>2 DEF ToolsTypeOK, Write
<1>3. CASE Exit(l)
  BY <1>3 DEF ToolsTypeOK, Exit
<1> QED  BY <1>1, <1>2, <1>3

LEMMA TailTyped ==
  ASSUME ToolsTypeOK, NEW l \in Launches, pipe[l]["awaited"] # << >>,
         pipe' = [pipe EXCEPT ![l]["awaited"] = Tail(@)]
  PROVE  /\ pipe' \in [Launches -> [Streams -> Seq(Lines)]]
         /\ \A k \in Launches : \A t \in Streams : Len(pipe'[k][t]) <= PipeSize
<1>1. "awaited" \in Streams
  BY DEF Streams
<1>2. /\ Tail(pipe[l]["awaited"]) \in Seq(Lines)
      /\ Len(Tail(pipe[l]["awaited"])) = Len(pipe[l]["awaited"]) - 1
      /\ Len(pipe[l]["awaited"]) \in Nat
  BY <1>1 DEF ToolsTypeOK
<1> QED  BY <1>1, <1>2 DEF ToolsTypeOK

\* What an outcome of a launch may do.
LEMMA OutcomeTyped ==
  ASSUME ToolsTypeOK, NEW l \in Launches, stage[l] = "waiting",
         FailLaunch(l) \/ Up(l) \/ Answered(l)
  PROVE  /\ stage' \in [Launches -> {"idle", "waiting", "up", "failed", "reaping", "removing", "gone"}]
         /\ child' \in [Launches -> {"none", "running", "killed", "exited"}]
         /\ disk' \subseteq 1..(seq - 1)
         /\ \A k \in Launches : stage'[k] # "gone" => tries[k] < Polls
<1>0. \A k \in Launches : stage[k] # "gone" => tries[k] < Polls
  BY DEF ToolsTypeOK
<1>1. CASE FailLaunch(l)
  <2>1. child' = child \/ child' = Kill(l)
    BY <1>1 DEF FailLaunch
  <2>2. disk' = disk \/ disk' = disk \ {profile[l]}
    BY <1>1 DEF FailLaunch
  <2>3. stage' = [stage EXCEPT ![l] = "failed"]
    BY <1>1 DEF FailLaunch
  <2>4. child' \in [Launches -> {"none", "running", "killed", "exited"}]
    BY <2>1, KillTyped DEF ToolsTypeOK
  <2>5. disk' \subseteq 1..(seq - 1)
    BY <2>2 DEF ToolsTypeOK
  <2> QED  BY <1>0, <2>3, <2>4, <2>5 DEF ToolsTypeOK
<1>2. CASE Up(l)
  BY <1>2 DEF ToolsTypeOK, Up
<1>3. CASE Answered(l)
  <2>1. CASE tool[l] = "flutter"
    <3>1. stage' = [stage EXCEPT ![l] = "gone"] /\ child' = Kill(l) /\ disk' = disk
      BY <1>3, <2>1 DEF Answered
    <3> QED  BY <1>0, <3>1, KillTyped DEF ToolsTypeOK
  <2> QED  BY <1>2, <1>3, <2>1 DEF Answered
<1> QED  BY <1>1, <1>2, <1>3

LEMMA TypeLaunches ==
  ASSUME ToolsTypeOK, NEW l \in Launches,
         \/ Spawn(l) \/ SpawnFails(l) \/ Read(l) \/ ReadEof(l) \/ Drain(l)
         \/ FindExited(l) \/ AdbFails(l) \/ PollDevices(l) \/ Timeout(l) \/ Clock(l) \/ Boot(l)
  PROVE  ToolsTypeOK'
<1>1. CASE Spawn(l)
  <2>1. CASE tool[l] = "chrome"
    <3>1. /\ seq' = seq + 1 /\ disk' = disk \cup {seq}
          /\ profile' = [profile EXCEPT ![l] = seq]
      BY <1>1, <2>1 DEF Spawn, ProfileName
    <3>2. /\ seq' \in Nat \ {0} /\ disk' \subseteq 1..(seq' - 1)
          /\ profile' \in [Launches -> 0..(seq' - 1)]
      BY <3>1 DEF ToolsTypeOK
    <3> QED  BY <1>1, <3>2 DEF ToolsTypeOK, Spawn
  <2>2. CASE tool[l] # "chrome"
    BY <1>1, <2>2 DEF ToolsTypeOK, Spawn
  <2> QED  BY <2>1, <2>2
<1>2. CASE SpawnFails(l)
  <2>1. seq' = seq \/ seq' = seq + 1
    BY <1>2 DEF SpawnFails
  <2>2. /\ seq' \in Nat \ {0} /\ disk \subseteq 1..(seq' - 1)
        /\ profile \in [Launches -> 0..(seq' - 1)]
    BY <2>1 DEF ToolsTypeOK
  <2> QED  BY <1>2, <2>2 DEF ToolsTypeOK, SpawnFails
<1>3. CASE Read(l)
  <2>1. CASE UNCHANGED <<stage, child, disk>>
    BY <1>3, <2>1, TailTyped DEF ToolsTypeOK, Read
  <2>2. CASE FailLaunch(l) \/ Answered(l)
    BY <1>3, <2>2, TailTyped, OutcomeTyped DEF ToolsTypeOK, Read
  <2> QED  BY <1>3, <2>1, <2>2 DEF Read
<1>4. CASE ReadEof(l) \/ FindExited(l) \/ AdbFails(l) \/ Timeout(l)
  BY <1>4, OutcomeTyped DEF ToolsTypeOK, ReadEof, FindExited, AdbFails, Timeout
<1>5. CASE PollDevices(l)
  BY <1>5, OutcomeTyped DEF ToolsTypeOK, PollDevices
<1>6. CASE Drain(l)
  BY <1>6, TailTyped DEF ToolsTypeOK, Drain
<1>7. CASE Clock(l)
  BY <1>7 DEF ToolsTypeOK, Clock
<1>8. CASE Boot(l)
  BY <1>8 DEF ToolsTypeOK, Boot
<1> QED  BY <1>1, <1>2, <1>3, <1>4, <1>5, <1>6, <1>7, <1>8

LEMMA TypeDrops ==
  ASSUME ToolsTypeOK, NEW l \in Launches,
         Drop(l) \/ AwaitExit(l) \/ RemoveFails(l) \/ Remove(l)
  PROVE  ToolsTypeOK'
<1>1. CASE Drop(l)
  <2>1. child' \in [Launches -> {"none", "running", "killed", "exited"}]
    BY <1>1, KillTyped DEF ToolsTypeOK, Drop
  <2> QED  BY <1>1, <2>1 DEF ToolsTypeOK, Drop
<1>2. CASE AwaitExit(l)
  <2>1. tries' \in [Launches -> 0..Polls]
    <3>1. CASE tries' = [tries EXCEPT ![l] = 0]
      BY <3>1 DEF ToolsTypeOK
    <3>2. CASE tries[l] + 1 # Polls /\ tries' = [tries EXCEPT ![l] = tries[l] + 1]
      <4>1. tries[l] \in 0..Polls /\ tries[l] < Polls
        BY <1>2 DEF AwaitExit, ToolsTypeOK
      <4> QED  BY <3>2, <4>1 DEF ToolsTypeOK
    <3> QED  BY <1>2, <3>1, <3>2 DEF AwaitExit
  <2>2. \A k \in Launches : stage'[k] # "gone" => tries'[k] < Polls
    <3>0. tries[l] \in Nat /\ tries[l] < Polls /\ Polls \in Nat \ {0}
      BY <1>2 DEF ToolsTypeOK, AwaitExit
    <3>9. tries'[l] = 0 \/ (tries[l] + 1 # Polls /\ tries'[l] = tries[l] + 1)
      BY <1>2 DEF ToolsTypeOK, AwaitExit
    <3>1. tries'[l] < Polls
      BY <3>0, <3>9
    <3>2. \A k \in Launches \ {l} : stage'[k] = stage[k] /\ tries'[k] = tries[k]
      BY <1>2 DEF ToolsTypeOK, AwaitExit
    <3> QED  BY <3>1, <3>2 DEF ToolsTypeOK
  <2> QED  BY <1>2, <2>1, <2>2 DEF ToolsTypeOK, AwaitExit
<1>3. CASE RemoveFails(l)
  <2>1. tries' \in [Launches -> 0..Polls]
    BY <1>3 DEF ToolsTypeOK, RemoveFails
  <2>2. \A k \in Launches : stage'[k] # "gone" => tries'[k] < Polls
    <3>0. tries[l] \in Nat /\ tries[l] < Polls /\ Polls \in Nat \ {0}
      BY <1>3 DEF ToolsTypeOK, RemoveFails
    <3>9. tries'[l] = tries[l] + 1 /\ (tries[l] + 1 = Polls => stage'[l] = "gone")
      BY <1>3 DEF ToolsTypeOK, RemoveFails
    <3>1. stage'[l] # "gone" => tries'[l] < Polls
      BY <3>0, <3>9
    <3>2. \A k \in Launches \ {l} : stage'[k] = stage[k] /\ tries'[k] = tries[k]
      BY <1>3 DEF ToolsTypeOK, RemoveFails
    <3> QED  BY <3>1, <3>2 DEF ToolsTypeOK
  <2> QED  BY <1>3, <2>1, <2>2 DEF ToolsTypeOK, RemoveFails
<1>4. CASE Remove(l)
  BY <1>4 DEF ToolsTypeOK, Remove
<1> QED  BY <1>1, <1>2, <1>3, <1>4

LEMMA TypeStep == ToolsTypeOK /\ [ToolsNext]_toolVars => ToolsTypeOK'
<1> SUFFICES ASSUME ToolsTypeOK, [ToolsNext]_toolVars PROVE ToolsTypeOK'
  OBVIOUS
<1>1. CASE ToolsNext
  BY <1>1, TypeChildren, TypeLaunches, TypeDrops DEF ToolsNext
<1>2. CASE UNCHANGED toolVars
  BY <1>2 DEF ToolsTypeOK, toolVars
<1> QED  BY <1>1, <1>2

\* The types, for any launches: no pipe ever holds more than fits in it, and profile
\* directories have numbers that were handed out.
THEOREM ToolsTypeCorrect == ToolsSpec => []ToolsTypeOK
BY TypeInit, TypeStep, PTL DEF ToolsSpec

-----------------------------------------------------------------------------
(* Profile numbers. *)

\* Who gets a number, and when.
LEMMA NamedStep == ToolsTypeOK /\ Named /\ [ToolsNext]_toolVars => Named'
<1> SUFFICES ASSUME ToolsTypeOK, Named, [ToolsNext]_toolVars PROVE Named'
  OBVIOUS
<1> USE DEF Named, Spawned
<1>1. ASSUME NEW l \in Launches, Spawn(l) PROVE Named'
  <2>1. CASE tool[l] = "chrome"
    <3>1. /\ profile' = [profile EXCEPT ![l] = seq] /\ stage' = [stage EXCEPT ![l] = "waiting"]
          /\ child' = [child EXCEPT ![l] = "running"] /\ tool' = tool
      BY <1>1, <2>1 DEF Spawn, ProfileName
    <3>2. \A k \in Launches : profile[k] # seq /\ seq # 0
      BY DEF ToolsTypeOK
    <3> QED  BY <3>1, <3>2 DEF ToolsTypeOK
  <2>2. CASE tool[l] # "chrome"
    BY <1>1, <2>2 DEF ToolsTypeOK, Spawn
  <2> QED  BY <2>1, <2>2
<1>2. ASSUME NEW l \in Launches, SpawnFails(l) PROVE Named'
  BY <1>2 DEF ToolsTypeOK, SpawnFails
<1>3. ASSUME NEW l \in Launches,
             /\ tool' = tool /\ profile' = profile /\ stage[l] # "idle"
             /\ \A k \in Launches \ {l} : stage'[k] = stage[k] /\ child'[k] = child[k]
             /\ stage'[l] # "idle" /\ (stage'[l] # stage[l] => stage[l] # "failed")
      PROVE  Named'
  BY <1>3
<1>4. ASSUME NEW l \in Launches,
             \/ Read(l) \/ ReadEof(l) \/ FindExited(l) \/ AdbFails(l) \/ PollDevices(l) \/ Timeout(l)
      PROVE  Named'
  <2>1. /\ tool' = tool /\ profile' = profile /\ stage[l] = "waiting"
        /\ FailLaunch(l) \/ Up(l) \/ Answered(l) \/ UNCHANGED <<stage, child, disk>>
    BY <1>4 DEF Read, ReadEof, FindExited, AdbFails, PollDevices, Timeout
  <2>2. /\ \A k \in Launches \ {l} : stage'[k] = stage[k] /\ child'[k] = child[k]
        /\ stage'[l] # "idle"
    BY <2>1 DEF ToolsTypeOK, FailLaunch, Up, Answered, Kill
  <2> QED  BY <1>3, <2>1, <2>2
<1>5. ASSUME NEW l \in Launches, Drop(l) \/ AwaitExit(l) \/ RemoveFails(l) \/ Remove(l) PROVE Named'
  <2>1. /\ tool' = tool /\ profile' = profile /\ stage[l] \in {"up", "reaping", "removing"}
        /\ \A k \in Launches \ {l} : stage'[k] = stage[k] /\ child'[k] = child[k]
        /\ stage'[l] # "idle"
    BY <1>5 DEF ToolsTypeOK, Drop, AwaitExit, RemoveFails, Remove, Kill
  <2> QED  BY <1>3, <2>1
<1>6. ASSUME NEW l \in Launches, Exit(l) PROVE Named'
  BY <1>6 DEF ToolsTypeOK, Exit
<1>7. CASE /\ UNCHANGED <<tool, stage, child, profile>>
  BY <1>7
<1> QED
  BY <1>1, <1>2, <1>4, <1>5, <1>6, <1>7
     DEF ToolsNext, toolVars, Wants, Write, Drain, Clock, Boot

-----------------------------------------------------------------------------
(* Processes. *)

LEMMA KillEnds ==
  ASSUME ToolsTypeOK, NEW l \in Launches
  PROVE  \A k \in Launches : Kill(l)[k] # "running" \/ (k # l /\ child[k] = "running")
BY DEF ToolsTypeOK, Kill

LEMMA NoStraysStep == ToolsTypeOK /\ Named /\ NoStrays /\ [ToolsNext]_toolVars => NoStrays'
<1> SUFFICES ASSUME ToolsTypeOK, Named, NoStrays, [ToolsNext]_toolVars PROVE NoStrays'
  OBVIOUS
<1> USE DEF NoStrays
\* A step of one launch that kills its child, or that leaves it where it may run.
<1>1. ASSUME NEW l \in Launches, tool' = tool,
             \A k \in Launches \ {l} : stage'[k] = stage[k] /\ child'[k] = child[k],
             \/ child'[l] # "running"
             \/ tool[l] = "remote"
             \/ stage'[l] \in {"idle", "waiting", "up"}
      PROVE  NoStrays'
  BY <1>1
<1>2. ASSUME NEW l \in Launches, Spawn(l) \/ SpawnFails(l) PROVE NoStrays'
  <2>1. child[l] = "none"
    BY <1>2 DEF Named, Spawn, SpawnFails
  <2> QED  BY <1>1, <1>2, <2>1 DEF ToolsTypeOK, Spawn, SpawnFails
<1>3. ASSUME NEW l \in Launches,
             \/ Read(l) \/ ReadEof(l) \/ FindExited(l) \/ AdbFails(l) \/ PollDevices(l) \/ Timeout(l)
      PROVE  NoStrays'
  <2>1. /\ tool' = tool /\ stage[l] = "waiting"
        /\ FailLaunch(l) \/ Up(l) \/ Answered(l) \/ UNCHANGED <<stage, child, disk>>
    BY <1>3 DEF Read, ReadEof, FindExited, AdbFails, PollDevices, Timeout
  <2>2. \A k \in Launches \ {l} : stage'[k] = stage[k] /\ child'[k] = child[k]
    BY <2>1 DEF ToolsTypeOK, FailLaunch, Up, Answered, Kill
  <2>3. \/ child'[l] # "running" \/ tool[l] = "remote"
        \/ stage'[l] \in {"idle", "waiting", "up"}
    BY <2>1, KillEnds DEF ToolsTypeOK, FailLaunch, Up, Answered
  <2> QED  BY <1>1, <2>1, <2>2, <2>3
<1>4. ASSUME NEW l \in Launches, Drop(l) PROVE NoStrays'
  <2>1. tool' = tool /\ \A k \in Launches \ {l} : stage'[k] = stage[k] /\ child'[k] = child[k]
    BY <1>4 DEF ToolsTypeOK, Drop, Kill
  <2>2. child'[l] # "running" \/ tool[l] = "remote"
    BY <1>4, KillEnds DEF Drop
  <2> QED  BY <1>1, <2>1, <2>2
<1>5. ASSUME NEW l \in Launches, AwaitExit(l) \/ RemoveFails(l) \/ Remove(l) PROVE NoStrays'
  <2>1. /\ tool' = tool /\ child' = child /\ stage[l] \in {"reaping", "removing"}
        /\ \A k \in Launches \ {l} : stage'[k] = stage[k]
    BY <1>5 DEF ToolsTypeOK, AwaitExit, RemoveFails, Remove
  <2> QED  BY <1>1, <2>1
<1>6. ASSUME NEW l \in Launches, Exit(l) PROVE NoStrays'
  BY <1>6 DEF ToolsTypeOK, Exit
<1>7. CASE UNCHANGED <<tool, stage, child>>
  BY <1>7
<1> QED
  BY <1>2, <1>3, <1>4, <1>5, <1>6, <1>7 DEF ToolsNext, toolVars, Wants, Write, Drain, Clock, Boot

\* For any launches, whatever they launch, wherever they fail and whenever they are dropped:
\* no process is left that nobody has told to end.
THEOREM NoStraysLeft == ToolsSpec => []NoStrays
<1>1. ToolsInit => Named /\ NoStrays
  BY DEF ToolsInit, Named, NoStrays, Spawned
<1> QED  BY <1>1, ToolsTypeCorrect, NamedStep, NoStraysStep, PTL DEF ToolsSpec

-----------------------------------------------------------------------------
(* Profile directories. *)

\* What ProfileKept says of the disk; the rest of it is Named.
DirKept ==
  \A l \in Launches : tool[l] = "chrome" =>
    /\ stage[l] \in {"waiting", "up"} => profile[l] \in disk
    /\ stage[l] = "gone" => profile[l] \notin disk \/ tries[l] = Polls

LEMMA DirKeptSuffices == Named /\ DirKept => ProfileKept
BY DEF Named, DirKept, ProfileKept, Spawned

LEMMA DirKeptStep == ToolsTypeOK /\ Named /\ DirKept /\ [ToolsNext]_toolVars => DirKept'
<1> SUFFICES ASSUME ToolsTypeOK, Named, DirKept, [ToolsNext]_toolVars PROVE DirKept'
  OBVIOUS
<1> USE DEF DirKept
\* A step of one launch that changes no directory but its own.
<1>1. ASSUME NEW l \in Launches, tool' = tool, profile' = profile,
             \A k \in Launches \ {l} : stage'[k] = stage[k] /\ tries'[k] = tries[k],
             disk' = disk \/ (tool[l] = "chrome" /\ profile[l] # 0 /\ disk' = disk \ {profile[l]}),
             tool[l] = "chrome" =>
               /\ stage'[l] \in {"waiting", "up"} => disk' = disk /\ stage[l] \in {"waiting", "up"}
               /\ stage'[l] = "gone" => profile[l] \notin disk' \/ tries'[l] = Polls
      PROVE  DirKept'
  <2>1. ASSUME NEW k \in Launches, k # l, tool[k] = "chrome"
        PROVE  /\ stage'[k] \in {"waiting", "up"} => profile[k] \in disk'
               /\ stage'[k] = "gone" => profile[k] \notin disk' \/ tries'[k] = Polls
    BY <1>1, <2>1 DEF Named
  <2>2. tool[l] = "chrome" =>
          /\ stage'[l] \in {"waiting", "up"} => profile[l] \in disk'
          /\ stage'[l] = "gone" => profile[l] \notin disk' \/ tries'[l] = Polls
    BY <1>1
  <2> QED  BY <1>1, <2>1, <2>2
<1>2. ASSUME NEW l \in Launches, Spawn(l) PROVE DirKept'
  <2>1. CASE tool[l] = "chrome"
    <3>1. /\ profile' = [profile EXCEPT ![l] = seq] /\ stage' = [stage EXCEPT ![l] = "waiting"]
          /\ disk' = disk \cup {seq} /\ tool' = tool /\ tries' = tries
      BY <1>2, <2>1 DEF Spawn, ProfileName
    <3>2. \A k \in Launches : profile[k] # seq
      BY DEF ToolsTypeOK
    <3> QED  BY <3>1, <3>2 DEF ToolsTypeOK
  <2>2. CASE tool[l] # "chrome"
    BY <1>2, <2>2 DEF ToolsTypeOK, Spawn
  <2> QED  BY <2>1, <2>2
<1>3. ASSUME NEW l \in Launches, SpawnFails(l) PROVE DirKept'
  BY <1>3 DEF ToolsTypeOK, SpawnFails
<1>4. ASSUME NEW l \in Launches,
             \/ Read(l) \/ ReadEof(l) \/ FindExited(l) \/ AdbFails(l) \/ PollDevices(l) \/ Timeout(l)
      PROVE  DirKept'
  <2>1. /\ tool' = tool /\ profile' = profile /\ tries' = tries /\ stage[l] = "waiting"
        /\ FailLaunch(l) \/ Up(l) \/ Answered(l) \/ UNCHANGED <<stage, child, disk>>
    BY <1>4 DEF Read, ReadEof, FindExited, AdbFails, PollDevices, Timeout
  <2>2. tool[l] = "chrome" => profile[l] # 0
    BY <2>1 DEF Named, Spawned
  <2>3. \A k \in Launches \ {l} : stage'[k] = stage[k]
    BY <2>1 DEF ToolsTypeOK, FailLaunch, Up, Answered
  <2>4. CASE FailLaunch(l)
    <3>1. stage'[l] = "failed"
      BY <2>4 DEF ToolsTypeOK, FailLaunch
    <3>2. disk' = disk \/ (tool[l] = "chrome" /\ disk' = disk \ {profile[l]})
      BY <2>4 DEF FailLaunch
    <3> QED  BY <1>1, <2>1, <2>2, <2>3, <3>1, <3>2
  <2>5. CASE Up(l) \/ Answered(l) \/ UNCHANGED <<stage, child, disk>>
    <3>1. disk' = disk /\ (tool[l] = "chrome" => stage'[l] \in {"waiting", "up"})
      BY <2>1, <2>5 DEF ToolsTypeOK, Up, Answered
    <3> QED  BY <1>1, <2>1, <2>3, <3>1
  <2> QED  BY <2>1, <2>4, <2>5
<1>5. ASSUME NEW l \in Launches, Drop(l) \/ AwaitExit(l) PROVE DirKept'
  <2>1. /\ tool' = tool /\ profile' = profile /\ disk' = disk
        /\ \A k \in Launches \ {l} : stage'[k] = stage[k] /\ tries'[k] = tries[k]
        /\ tool[l] = "chrome" => stage'[l] \in {"reaping", "removing"}
    BY <1>5 DEF ToolsTypeOK, Drop, AwaitExit
  <2> QED  BY <1>1, <2>1
\* Drop gives up only when the count of its failed attempts is Polls.
<1>6. ASSUME NEW l \in Launches, RemoveFails(l) PROVE DirKept'
  <2>1. /\ tool' = tool /\ profile' = profile /\ disk' = disk
        /\ \A k \in Launches \ {l} : stage'[k] = stage[k] /\ tries'[k] = tries[k]
    BY <1>6 DEF ToolsTypeOK, RemoveFails
  <2>2. stage'[l] = "removing" \/ (stage'[l] = "gone" /\ tries'[l] = Polls)
    BY <1>6 DEF ToolsTypeOK, RemoveFails
  <2> QED  BY <1>1, <2>1, <2>2
<1>7. ASSUME NEW l \in Launches, Remove(l) PROVE DirKept'
  <2>1. /\ tool' = tool /\ profile' = profile /\ disk' = disk \ {profile[l]}
        /\ tries' = tries
        /\ stage'[l] = "gone" /\ \A k \in Launches \ {l} : stage'[k] = stage[k]
        /\ stage[l] = "removing"
    BY <1>7 DEF ToolsTypeOK, Remove
  <2>2. tool[l] = "chrome" => profile[l] # 0
    BY <2>1 DEF Named, Spawned
  <2>3. ASSUME NEW k \in Launches, k # l, tool[k] = "chrome", stage[k] \in {"waiting", "up"}
        PROVE  profile[k] \in disk'
    BY <2>1, <2>3 DEF Named, Spawned
  <2> QED  BY <2>1, <2>2, <2>3
<1>8. CASE UNCHANGED <<tool, stage, profile, disk, tries>>
  BY <1>8
<1> QED
  BY <1>2, <1>3, <1>4, <1>5, <1>6, <1>7, <1>8
     DEF ToolsNext, toolVars, Wants, Write, Exit, Drain, Clock, Boot

\* For any number of launches that overlap, fail and are dropped: a browser's directory is
\* its own and stays while it may be in use, and after its drop it is gone or every attempt to
\* remove it has failed (`BrowserProcess::launch`, `drop`).
THEOREM ProfilesKept == ToolsSpec => []ProfileKept
<1>1. ToolsInit => Named /\ DirKept
  BY DEF ToolsInit, Named, DirKept, Spawned
<1> QED  BY <1>1, ToolsTypeCorrect, NamedStep, DirKeptStep, DirKeptSuffices, PTL DEF ToolsSpec
=============================================================================
