-------------------------- MODULE KubernetesSlotsProofs -------------------------
(***************************************************************************)
(* KubernetesRunner implements the Runner interface, for every set of      *)
(* requests and faults and every number of slots and attempts: the slots   *)
(* taken are counted, and every way out of RunAnalysis gives back one.     *)
(***************************************************************************)
EXTENDS KubernetesRunnerProofs, FiniteSetTheorems

Holders == {r \in Requests : pc[r] \in Holding}

SlotInv ==
    /\ pc \in [Requests -> Labels]
    /\ slots = Cardinality(Holders)
    /\ slots <= Max

LEMMA HoldersFinite == IsFiniteSet(Holders)
  BY RequestsAssumption, FS_Subset DEF Holders

LEMMA SlotsInit == Init => SlotInv
  <1> SUFFICES ASSUME Init PROVE SlotInv
    OBVIOUS
  <1>1. Holders = {}
    BY DEF Init, Holders, Holding, Waiting, Watchers
  <1> QED
    BY <1>1, FS_EmptySet, MaxAssumption DEF Init, SlotInv, Labels

--------------------------------------------------------------------------------
(* What a step does to the slots. *)

Keeps(r, l) == pc' = [pc EXCEPT ![r] = l] /\ slots' = slots

Analyses(r) == Call(r) \/ WatchBreaks(r) \/ Expire(r)

\* A request in RunAnalysis either moves on with its slot or returns.
LEMMA AnalysisMoves ==
  ASSUME SlotInv, NEW r \in Requests, Analyses(r)
  PROVE  /\ pc[r] \in Holding /\ UNCHANGED serving
         /\ \/ \E l \in Holding : Keeps(r, l)
            \/ \E l \in Final : Return(r, l)
  <1> USE DEF Holding, Waiting, Watchers, Final, Keeps, Goto, cleaner, AfterSeeing, SlotInv
  <1>1. CASE Delete(r)
    BY <1>1 DEF Delete
  <1>2. CASE AwaitGone(r)
    BY <1>2 DEF AwaitGone
  <1>3. CASE Create(r)
    BY <1>3 DEF Create
  <1>4. CASE Get(r)
    BY <1>4 DEF Get
  <1>5. CASE Watch(r)
    BY <1>5 DEF Watch
  <1>6. CASE Event(r)
    <2>1. pc[r] = "watching" /\ UNCHANGED serving
      BY <1>6 DEF Event
    <2>2. CASE UNCHANGED request
      <3>1. pc' = [pc EXCEPT ![r] = "watching"] /\ slots' = slots
        BY <2>1, <2>2 DEF request
      <3> QED
        BY <2>1, <3>1
    <2>3. CASE Goto(r, AfterSeeing(Head(unread[r])))
      BY <2>1, <2>3
    <2> QED
      BY <1>6, <2>2, <2>3, Zenon DEF Event
  <1>7. CASE Copy(r)
    BY <1>7 DEF Copy
  <1>8. CASE Remove(r)
    BY <1>8 DEF Remove
  <1>9. CASE WatchBreaks(r) \/ Expire(r)
    BY <1>9 DEF WatchBreaks, Expire
  <1> QED
    BY <1>1, <1>2, <1>3, <1>4, <1>5, <1>6, <1>7, <1>8, <1>9 DEF Analyses, Call

\* The cluster, the sweep and time have nothing to do with requests and slots.
LEMMA OthersKeep ==
  ASSUME \/ \E r \in Requests : CreateLate(r)
         \/ Progress \/ Gone \/ Evict \/ GrowOld \/ Sweep \/ UNCHANGED vars
  PROVE  pc' = pc /\ slots' = slots /\ serving' \in {serving, TRUE}
  <1> USE DEF request, cleaner
  <1>1. CASE (\E r \in Requests : CreateLate(r)) \/ Progress \/ Gone \/ Evict \/ GrowOld
    BY <1>1 DEF CreateLate, Progress, Gone, Evict, GrowOld
  <1>2. CASE Sweep
    BY <1>2 DEF Sweep, List, SweepDelete
  <1>3. CASE UNCHANGED vars
    BY <1>3 DEF vars
  <1> QED
    BY <1>1, <1>2, <1>3

LEMMA SlotKept ==
  ASSUME SlotInv, NEW r \in Requests, NEW l \in Labels, Keeps(r, l),
         pc[r] \in Holding <=> l \in Holding
  PROVE  SlotInv'
  <1>1. Holders' = Holders
    BY DEF SlotInv, Holders, Keeps
  <1> QED
    BY <1>1 DEF SlotInv, Keeps

\* Returning gives exactly one slot back.
LEMMA SlotReturned ==
  ASSUME SlotInv, NEW r \in Requests, pc[r] \in Holding, NEW l \in Final, Return(r, l)
  PROVE  SlotInv'
  <1>1. Holders' = Holders \ {r} /\ r \in Holders
    BY DEF SlotInv, Holders, Return, Final, Holding, Waiting, Watchers
  <1>2. Cardinality(Holders') = Cardinality(Holders) - 1
    BY <1>1, HoldersFinite, FS_RemoveElement
  <1>3. slots \in Nat
    BY HoldersFinite, FS_CardinalityType DEF SlotInv
  <1>4. pc' \in [Requests -> Labels]
    BY DEF SlotInv, Return, Labels
  <1> QED
    BY <1>2, <1>3, <1>4, MaxAssumption DEF SlotInv, Return

LEMMA SlotTaken ==
  ASSUME SlotInv, NEW r \in Requests, Acquire(r)
  PROVE  SlotInv'
  <1>1. Holders' = Holders \cup {r} /\ r \notin Holders
    BY DEF SlotInv, Holders, Acquire, Holding, Waiting, Watchers
  <1>2. Cardinality(Holders') = Cardinality(Holders) + 1
    BY <1>1, HoldersFinite, FS_AddElement
  <1>3. slots \in Nat
    BY HoldersFinite, FS_CardinalityType DEF SlotInv
  <1>4. pc' \in [Requests -> Labels]
    BY DEF SlotInv, Acquire, Labels, Holding
  <1> QED
    BY <1>2, <1>3, <1>4, MaxAssumption DEF SlotInv, Acquire

LEMMA SlotStep == SlotInv /\ [Next]_vars => SlotInv'
  <1> SUFFICES ASSUME SlotInv, [Next]_vars PROVE SlotInv'
    OBVIOUS
  <1>1. ASSUME NEW r \in Requests, Arrive(r) \/ GiveUp(r) PROVE SlotInv'
    <2>1. pc[r] \notin Holding /\ (Keeps(r, "queued") \/ Keeps(r, "failed"))
      BY <1>1 DEF Arrive, GiveUp, Goto, Keeps, Holding, Waiting, Watchers
    <2> QED
      BY <2>1, SlotKept DEF Labels, Final, Holding, Waiting, Watchers
  <1>2. ASSUME NEW r \in Requests, Analyses(r) PROVE SlotInv'
    BY <1>2, AnalysisMoves, SlotKept, SlotReturned DEF Labels
  <1>3. CASE pc' = pc /\ slots' = slots
    BY <1>3 DEF SlotInv, Holders
  <1>4. CASE Crash
    <2>1. Holders' = {} /\ pc' \in [Requests -> Labels]
      BY <1>4 DEF Crash, Holders, SlotInv, InFlight, Holding, Waiting, Watchers, Final, Labels
    <2> QED
      BY <1>4, <2>1, FS_EmptySet, MaxAssumption DEF Crash, SlotInv
  <1> QED
    BY <1>1, <1>2, <1>3, <1>4, SlotTaken, OthersKeep DEF Next, Analyses

--------------------------------------------------------------------------------
(* The refinement. *)

LEMMA BackendRunning == SlotInv => Backend!Running = Holders
  BY DEF SlotInv, Backend!Running, Holders, Labels, Final, Holding, Waiting, Watchers

LEMMA BackendCardinality == Backend!Cardinality(Holders) = Cardinality(Holders)
  BY DEF Backend!Cardinality, Cardinality

LEMMA BackendInit == Init => Backend!Init
  BY DEF Init, Backend!Init, Holding, Waiting, Watchers

\* A step of one request, seen through the interface.
LEMMA SeenBecomes ==
  ASSUME SlotInv, NEW r \in Requests, NEW l, pc' = [pc EXCEPT ![r] = l],
         UNCHANGED serving
  PROVE  Backend!Becomes(r, IF l \in Holding THEN "running" ELSE l)
  BY DEF SlotInv, Backend!Becomes

LEMMA BackendQueue ==
  ASSUME SlotInv, NEW r \in Requests, Arrive(r) \/ Acquire(r) \/ GiveUp(r)
  PROVE  Backend!Arrive(r) \/ Backend!Admit(r) \/ Backend!GiveUp(r)
  <1> USE DEF Holding, Waiting, Watchers, cleaner
  <1>1. CASE Arrive(r)
    <2>1. Backend!Becomes(r, "queued")
      BY <1>1, SeenBecomes DEF Arrive, Goto
    <2> QED
      BY <1>1, <2>1 DEF Arrive, Backend!Arrive
  <1>2. CASE Acquire(r)
    <2>1. Backend!Becomes(r, "running")
      BY <1>2, SeenBecomes DEF Acquire
    <2>2. Backend!Cardinality(Backend!Running) < Max
      BY <1>2, BackendRunning, BackendCardinality DEF SlotInv, Acquire
    <2> QED
      BY <1>2, <2>1, <2>2 DEF Acquire, Backend!Admit
  <1>3. CASE GiveUp(r)
    <2>1. Backend!Becomes(r, "failed")
      BY <1>3, SeenBecomes DEF GiveUp, Goto
    <2> QED
      BY <1>3, <2>1 DEF GiveUp, Backend!GiveUp
  <1> QED
    BY <1>1, <1>2, <1>3

\* Inside RunAnalysis nothing is seen until it returns.
LEMMA BackendAnalyses ==
  ASSUME SlotInv, NEW r \in Requests, Analyses(r)
  PROVE  Backend!Finish(r) \/ UNCHANGED Backend!vars
  <1>1. ASSUME NEW l \in Holding, Keeps(r, l)
        PROVE  UNCHANGED Backend!vars
    BY <1>1, AnalysisMoves DEF Keeps, SlotInv, Backend!vars
  <1>2. ASSUME NEW l \in Final, Return(r, l)
        PROVE  Backend!Finish(r)
    <2>1. Backend!Becomes(r, l)
      BY <1>2, AnalysisMoves, SeenBecomes DEF Return, Final, Holding, Waiting, Watchers
    <2> QED
      BY <2>1, AnalysisMoves DEF Backend!Finish, Backend!Final, Final
  <1> QED
    BY <1>1, <1>2, AnalysisMoves

LEMMA BackendCrash ==
  ASSUME SlotInv, Crash
  PROVE  Backend!Restart
  BY DEF Crash, SlotInv, InFlight, Backend!Restart, Labels, Final, Holding, Waiting, Watchers

\* Whatever fails, however many requests and slots there are and however often a
\* Create is tried again, a step of the backend is one of the interface or invisible
\* in it.
THEOREM KubernetesIsARunner == Spec => ImplementsRunner
  <1>1. SlotInv /\ [Next]_vars => [Backend!Next]_Backend!vars
    <2> SUFFICES ASSUME SlotInv, [Next]_vars PROVE [Backend!Next]_Backend!vars
      OBVIOUS
    <2>1. CASE pc' = pc /\ serving' \in {serving, TRUE}
      BY <2>1 DEF Backend!Next, Backend!Listen, Backend!vars
    <2> QED
      BY <2>1, BackendQueue, BackendAnalyses, BackendCrash, OthersKeep
      DEF Next, Analyses, Backend!Next
  <1> QED
    BY <1>1, SlotsInit, SlotStep, BackendInit, PTL DEF Spec, ImplementsRunner, Backend!Spec

--------------------------------------------------------------------------------
(* Types. *)

Flags == aged \in BOOLEAN /\ serving \in BOOLEAN /\ listed \in BOOLEAN

LEMMA FlagsStep ==
  ASSUME Flags, [Next]_vars
  PROVE  Flags'
  <1> USE DEF Flags, pod, server, cleaner, vars
  <1>1. aged' \in {aged, TRUE, FALSE}
    <2> USE DEF Untouched, Deleted, DeletedByOther, Added, Vanished
    <2>1. ASSUME NEW r \in Requests, \/ Arrive(r) \/ Acquire(r) \/ GiveUp(r) \/ Call(r)
                                     \/ WatchBreaks(r) \/ Expire(r) \/ CreateLate(r)
          PROVE  aged' = aged \/ aged' = FALSE
      BY <2>1, Zenon DEF Arrive, Acquire, GiveUp, Call, WatchBreaks, Expire, CreateLate, Delete,
         AwaitGone, Create, Get, Watch, Event, Copy, Remove
    <2>2. CASE Progress \/ Gone \/ Evict \/ GrowOld \/ Crash \/ Sweep
      BY <2>2, Zenon DEF Progress, Gone, Evict, GrowOld, Crash, Sweep, List, SweepDelete
    <2> QED
      BY <2>1, <2>2, Zenon DEF Next
  <1>2. /\ serving' \in {serving, TRUE, FALSE}
        /\ listed' \in {listed, TRUE, FALSE}
    <2>1. ASSUME NEW r \in Requests, \/ Arrive(r) \/ Acquire(r) \/ GiveUp(r) \/ Call(r)
                                     \/ WatchBreaks(r) \/ Expire(r) \/ CreateLate(r)
          PROVE  serving' = serving /\ listed' = listed
      BY <2>1, Zenon DEF Arrive, Acquire, GiveUp, Call, WatchBreaks, Expire, CreateLate, Delete,
         AwaitGone, Create, Get, Watch, Event, Copy, Remove
    <2>2. CASE Progress \/ Gone \/ Evict \/ GrowOld \/ Crash \/ Sweep
      BY <2>2, Zenon DEF Progress, Gone, Evict, GrowOld, Crash, Sweep, List, SweepDelete
    <2> QED
      BY <2>1, <2>2, Zenon DEF Next
  <1> QED
    BY <1>1, <1>2

\* The name is asked for no more than Attempts times.
Counts ==
    /\ attempt \in [Requests -> 0..Attempts]
    /\ \A r \in Requests : pc[r] = "create" => attempt[r] < Attempts
    /\ leaks \subseteq Faults \cap Leaking
    /\ budget \in 0..MaxFaults

LEMMA CountsInit == Init => Counts /\ Flags
  <1>1. Init => Counts
    BY AttemptsAssumption, FaultsAssumption DEF Init, Counts
  <1>2. Init => Flags
    BY Zenon DEF Init, Flags
  <1> QED
    BY <1>1, <1>2

LEMMA CountsStep ==
  ASSUME Types, Counts, [Next]_vars
  PROVE  Counts'
  <1> USE AttemptsAssumption, FaultsAssumption
      DEF Counts, Types, Goto, Return, Fails, request, failures, AfterSeeing, InFlight
  <1>1. ASSUME NEW r \in Requests, Arrive(r) PROVE Counts'
    BY <1>1 DEF Arrive
  <1>2. ASSUME NEW r \in Requests, Acquire(r) PROVE Counts'
    BY <1>2 DEF Acquire
  <1>3. ASSUME NEW r \in Requests, GiveUp(r) PROVE Counts'
    BY <1>3 DEF GiveUp
  <1>4. ASSUME NEW r \in Requests, Delete(r) PROVE Counts'
    BY <1>4 DEF Delete
  <1>5. ASSUME NEW r \in Requests, AwaitGone(r) PROVE Counts'
    BY <1>5 DEF AwaitGone
  <1>6. ASSUME NEW r \in Requests, Create(r) PROVE Counts'
    BY <1>6 DEF Create
  <1>7. ASSUME NEW r \in Requests, Get(r) PROVE Counts'
    BY <1>7 DEF Get
  <1>8. ASSUME NEW r \in Requests, Watch(r) PROVE Counts'
    BY <1>8 DEF Watch
  <1>9. ASSUME NEW r \in Requests, Event(r) PROVE Counts'
    BY <1>9 DEF Event
  <1>10. ASSUME NEW r \in Requests, Copy(r) PROVE Counts'
    BY <1>10 DEF Copy
  <1>11. ASSUME NEW r \in Requests, Remove(r) PROVE Counts'
    BY <1>11 DEF Remove
  <1>12. ASSUME NEW r \in Requests, WatchBreaks(r) PROVE Counts'
    BY <1>12 DEF WatchBreaks
  <1>13. ASSUME NEW r \in Requests, Expire(r) PROVE Counts'
    BY <1>13 DEF Expire
  <1>14. ASSUME NEW r \in Requests, CreateLate(r) PROVE Counts'
    BY <1>14 DEF CreateLate
  <1>15. CASE Progress
    BY <1>15 DEF Progress
  <1>16. CASE Gone
    BY <1>16 DEF Gone
  <1>17. CASE Evict
    BY <1>17 DEF Evict
  <1>18. CASE GrowOld
    BY <1>18 DEF GrowOld
  <1>19. CASE Crash
    BY <1>19 DEF Crash
  <1>20. CASE List
    BY <1>20 DEF List
  <1>21. CASE SweepDelete
    BY <1>21 DEF SweepDelete
  <1>22. CASE UNCHANGED vars
    BY <1>22 DEF vars
  <1> QED
    BY <1>1, <1>2, <1>3, <1>4, <1>5, <1>6, <1>7, <1>8, <1>9, <1>10, <1>11,
       <1>12, <1>13, <1>14, <1>15, <1>16, <1>17, <1>18, <1>19, <1>20, <1>21, <1>22
    DEF Next, Call, Sweep

\* The types of all variables: never more slots than there are are taken, nor fewer
\* than none, and no name is asked for more often than createPodWithRetry may.
THEOREM TypeCorrect == Spec => []TypeOK
  <1>1. Types /\ Queues /\ Counts /\ Flags /\ SlotInv => TypeOK
    <2>1. SlotInv => slots \in 0..Max
      BY HoldersFinite, FS_CardinalityType, MaxAssumption DEF SlotInv
    <2> QED
      BY <2>1, Zenon DEF Types, Queues, Counts, Flags, TypeOK
  <1> QED
    BY <1>1, Inductive, SlotsInit, SlotStep, CountsInit, CountsStep, FlagsStep, PTL DEF Spec, IInv

================================================================================
