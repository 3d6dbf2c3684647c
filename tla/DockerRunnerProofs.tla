--------------------------- MODULE DockerRunnerProofs --------------------------
(***************************************************************************)
(* Theorems about DockerRunner, for every number of requests and slots and *)
(* for all time limits.                                                    *)
(***************************************************************************)
EXTENDS DockerRunner, FiniteSetTheorems, TLAPS

--------------------------------------------------------------------------------
(* Slots. *)

\* The steps of RunAnalysis that have a container.
Using == Holding \ {"create"}

Holders == {r \in Requests : pc[r] \in Holding}

\* What the slots, the program counters and the containers have to do with each
\* other.  The count is of the set, so that returning from any step is one less.
SlotInv ==
    /\ pc \in [Requests -> Labels]
    /\ cont \in [Requests -> States]
    /\ slots = Cardinality(Holders)
    /\ slots <= Max
    /\ leaks = {} => \A c \in Requests : Exists(c) => pc[c] \in Using

LEMMA HoldersFinite == IsFiniteSet(Holders)
  BY RequestsAssumption, FS_Subset DEF Holders

LEMMA SlotInit == Init => SlotInv
  <1> SUFFICES ASSUME Init PROVE SlotInv
    OBVIOUS
  <1>1. Holders = {}
    BY DEF Init, Holders, Holding, Timed
  <1>2. slots = Cardinality(Holders) /\ slots <= Max
    BY <1>1, FS_EmptySet, MaxAssumption DEF Init
  <1> QED
    BY <1>2 DEF Init, SlotInv, Labels, States, Exists

\* Moving from one step that holds a slot to another, or between two that do not,
\* leaves the count alone.
LEMMA SlotKept ==
  ASSUME SlotInv, NEW r \in Requests, NEW l \in Labels,
         pc' = [pc EXCEPT ![r] = l], slots' = slots,
         pc[r] \in Holding <=> l \in Holding
  PROVE  pc' \in [Requests -> Labels] /\ slots' = Cardinality(Holders') /\ slots' <= Max
  <1>1. Holders' = Holders
    BY DEF SlotInv, Holders
  <1> QED
    BY <1>1 DEF SlotInv

\* Leaving the last step gives exactly one slot back.
LEMMA SlotReturned ==
  ASSUME SlotInv, NEW r \in Requests, pc[r] \in Holding, NEW l \in Final, Return(r, l)
  PROVE  pc' \in [Requests -> Labels] /\ slots' = Cardinality(Holders') /\ slots' <= Max
  <1>1. Holders' = Holders \ {r} /\ r \in Holders
    BY DEF SlotInv, Holders, Return, Final, Holding, Timed
  <1>2. Cardinality(Holders') = Cardinality(Holders) - 1
    BY <1>1, HoldersFinite, FS_RemoveElement
  <1>3. slots \in Nat
    BY HoldersFinite, FS_CardinalityType DEF SlotInv
  <1>4. pc' \in [Requests -> Labels]
    BY DEF SlotInv, Return, Labels
  <1> QED
    BY <1>2, <1>3, <1>4, MaxAssumption DEF SlotInv, Return

LEMMA SlotTaken ==
  ASSUME SlotInv, NEW r \in Requests, Acquire(r)
  PROVE  pc' \in [Requests -> Labels] /\ slots' = Cardinality(Holders') /\ slots' <= Max
  <1>1. Holders' = Holders \cup {r} /\ r \notin Holders
    BY DEF SlotInv, Holders, Acquire, Holding, Timed
  <1>2. Cardinality(Holders') = Cardinality(Holders) + 1
    BY <1>1, HoldersFinite, FS_AddElement
  <1>3. slots \in Nat
    BY HoldersFinite, FS_CardinalityType DEF SlotInv
  <1>4. pc' \in [Requests -> Labels]
    BY DEF SlotInv, Acquire, Labels, Holding
  <1> QED
    BY <1>2, <1>3, <1>4, MaxAssumption DEF SlotInv, Acquire

\* A request in RunAnalysis either moves on with its slot or returns.
LEMMA CallMoves ==
  ASSUME NEW r \in Requests, Call(r)
  PROVE  /\ pc[r] \in Holding
         /\ \/ \E l \in Holding : Goto(r, l)
            \/ \E l \in Final : Return(r, l)
  <1> USE DEF Holding, Timed, Final
  <1>1. CASE Create(r)
    BY <1>1, Zenon DEF Create
  <1>2. CASE Start(r)
    BY <1>2, Zenon DEF Start
  <1>3. CASE WaitResult(r) \/ WaitFails(r) \/ Stop(r)
    BY <1>3, Zenon DEF WaitResult, WaitFails, Stop
  <1>4. CASE Copy(r)
    BY <1>4, Zenon DEF Copy
  <1>5. CASE Remove(r)
    BY <1>5 DEF Remove
  <1> QED
    BY <1>1, <1>2, <1>3, <1>4, <1>5 DEF Call

LEMMA SlotCount ==
  ASSUME SlotInv, [Next]_vars
  PROVE  pc' \in [Requests -> Labels] /\ slots' = Cardinality(Holders') /\ slots' <= Max
  <1>1. ASSUME NEW r \in Requests, NEW i \in Ids, Arrive(r, i)
        PROVE  pc' \in [Requests -> Labels] /\ slots' = Cardinality(Holders') /\ slots' <= Max
    BY <1>1, SlotKept DEF Arrive, Labels, Holding, Timed
  <1>2. ASSUME NEW r \in Requests, GiveUp(r)
        PROVE  pc' \in [Requests -> Labels] /\ slots' = Cardinality(Holders') /\ slots' <= Max
    BY <1>2, SlotKept DEF GiveUp, Goto, Labels, Final, Holding, Timed
  <1>3. ASSUME NEW r \in Requests, Call(r)
        PROVE  pc' \in [Requests -> Labels] /\ slots' = Cardinality(Holders') /\ slots' <= Max
    <2>1. ASSUME NEW l \in Holding, Goto(r, l)
          PROVE  pc' \in [Requests -> Labels] /\ slots' = Cardinality(Holders') /\ slots' <= Max
      BY <1>3, <2>1, CallMoves, SlotKept DEF Goto, Labels
    <2> QED
      BY <1>3, <2>1, CallMoves, SlotReturned
  <1>4. CASE Tick \/ Sweep \/ (\E r \in Requests : Exit(r)) \/ UNCHANGED vars
    <2>1. pc' = pc /\ slots' = slots
      BY <1>4, Zenon DEF Tick, Sweep, List, SweepStop, SweepRemove, SweepEnd, Exit, request, vars
    <2> QED
      BY <2>1 DEF SlotInv, Holders
  <1>5. CASE Crash
    <2>1. Holders' = {} /\ pc' \in [Requests -> Labels]
      BY <1>5 DEF Crash, Holders, SlotInv, InFlight, Holding, Timed, Final, Labels
    <2> QED
      BY <1>5, <2>1, FS_EmptySet, MaxAssumption DEF Crash
  <1> QED
    BY <1>1, <1>2, <1>3, <1>4, <1>5, SlotTaken DEF Next

\* A step of RunAnalysis changes no container but its own, and keeps it only if
\* it still uses it, unless a fault makes it lose it.
LEMMA CallEffect ==
  ASSUME SlotInv, NEW r \in Requests, Call(r)
  PROVE  /\ leaks' = {} => leaks = {}
         /\ \E s \in States :
              /\ cont' = [cont EXCEPT ![r] = s]
              /\ leaks' = {} /\ s # "none" => pc'[r] \in Using
  <1> DEFINE Goal(s) == /\ cont' = [cont EXCEPT ![r] = s]
                        /\ leaks' = {} /\ s # "none" => pc'[r] \in Using
  <1> SUFFICES /\ leaks' = {} => leaks = {}
               /\ \E s \in States : Goal(s)
    OBVIOUS
  <1> USE DEF Using, Holding, Timed, daemon
  <1>0. /\ pc \in [Requests -> Labels] /\ cont \in [Requests -> States]
        /\ cont[r] \in States /\ cont = [cont EXCEPT ![r] = cont[r]]
        /\ leaks = {} /\ cont[r] # "none" => pc[r] \in Using
    BY DEF SlotInv, Exists
  <1>1. leaks' = {} => leaks = {}
    BY Zenon DEF Call, Create, Start, WaitResult, WaitFails, Stop, Copy, Remove, Fails, failures
  <1>2. CASE Create(r)
    <2>1. cont' = cont \/ cont' = [cont EXCEPT ![r] = "created"]
      BY <1>2 DEF Create, Created
    <2>2. leaks' = {} => \/ pc'[r] = "start"
                         \/ cont' = cont
      BY <1>0, <1>2 DEF Create, Goto, Fails, Leaking
    <2>3. pc[r] = "create"
      BY <1>2 DEF Create
    <2>4. CASE cont' = cont
      <3>1. Goal(cont[r])
        BY <1>0, <1>1, <1>2, <2>3, <2>4 DEF Create, Goto
      <3> QED
        BY <1>0, <1>1, <3>1
    <2>5. CASE cont' # cont
      <3>1. Goal("created")
        BY <2>1, <2>2, <2>5
      <3> QED
        BY <1>1, <3>1 DEF States
    <2> QED
      BY <2>4, <2>5
  <1>3. CASE Start(r)
    <2>1. pc'[r] \in Using
      BY <1>0, <1>3 DEF Start, Goto
    <2>2. cont' = cont \/ cont' = [cont EXCEPT ![r] = "running"]
      BY <1>3 DEF Start, Runs
    <2>3. Goal(cont[r]) \/ Goal("running")
      BY <1>0, <2>1, <2>2
    <2> QED
      BY <1>0, <1>1, <2>3 DEF States
  <1>4. CASE WaitResult(r) \/ WaitFails(r) \/ Copy(r)
    <2>1. cont' = cont /\ pc'[r] \in Using
      BY <1>0, <1>4 DEF WaitResult, WaitFails, Copy, Goto
    <2> QED
      BY <1>0, <1>1, <2>1
  <1>5. CASE Stop(r)
    <2>1. pc'[r] \in Using
      BY <1>0, <1>5 DEF Stop, Goto
    <2>2. cont' = cont \/ cont' = [cont EXCEPT ![r] = "exited"]
      BY <1>5 DEF Stop, Stopped, Exited
    <2>3. Goal(cont[r]) \/ Goal("exited")
      BY <1>0, <2>1, <2>2
    <2> QED
      BY <1>0, <1>1, <2>3 DEF States
  <1>6. CASE Remove(r)
    <2>1. \/ cont' = [cont EXCEPT ![r] = "none"]
          \/ cont' = cont /\ leaks' # {}
      BY <1>6 DEF Remove, Removed, Fails, Leaking
    <2>2. Goal(cont[r]) \/ Goal("none")
      BY <1>0, <2>1
    <2> QED
      BY <1>0, <1>1, <2>2 DEF States
  <1> QED
    BY <1>2, <1>3, <1>4, <1>5, <1>6 DEF Call

\* What happens to a container outside RunAnalysis does not bring one about.
LEMMA DaemonEffect ==
  ASSUME SlotInv, Sweep \/ \E r \in Requests : Exit(r)
  PROVE  /\ cont' \in [Requests -> States]
         /\ \A c \in Requests : Exists(c)' => Exists(c)
         /\ leaks' = {} => leaks = {}
         /\ pc' = pc
  <1> USE DEF SlotInv, States, Exists, daemon, request, failures, Fails
  <1>1. CASE \E r \in Requests : Exit(r)
    BY <1>1 DEF Exit, Exited
  <1>2. CASE List \/ SweepEnd
    BY <1>2 DEF List, SweepEnd
  <1>3. CASE \E c \in Requests : SweepStop(c)
    BY <1>3 DEF SweepStop, Stopped, Exited
  <1>4. CASE SweepRemove
    BY <1>4 DEF SweepRemove, Removed
  <1> QED
    BY <1>1, <1>2, <1>3, <1>4 DEF Sweep

LEMMA SlotKeeps ==
  ASSUME SlotInv, [Next]_vars
  PROVE  /\ cont' \in [Requests -> States]
         /\ leaks' = {} => \A c \in Requests : Exists(c)' => pc'[c] \in Using
  <1> USE DEF SlotInv, Exists
  <1>1. ASSUME NEW r \in Requests, Call(r)
        PROVE  /\ cont' \in [Requests -> States]
               /\ leaks' = {} => \A c \in Requests : Exists(c)' => pc'[c] \in Using
    <2>1. \A q \in Requests \ {r} : pc'[q] = pc[q]
      BY <1>1, CallMoves DEF Goto, Return
    <2> QED
      BY <1>1, <2>1, CallEffect
  <1>2. CASE Sweep \/ \E r \in Requests : Exit(r)
    BY <1>2, DaemonEffect
  <1>3. ASSUME NEW r \in Requests, (\E i \in Ids : Arrive(r, i)) \/ Acquire(r) \/ GiveUp(r)
        PROVE  /\ cont' = cont /\ leaks' = leaks
               /\ pc[r] \notin Using
               /\ \A q \in Requests \ {r} : pc'[q] = pc[q]
    BY <1>3 DEF Arrive, Acquire, GiveUp, Goto, daemon, failures, Using, Holding, Timed
  <1>4. CASE Tick \/ UNCHANGED vars
    BY <1>4 DEF Tick, vars, request, daemon, failures
  <1>5. CASE Crash
    BY <1>5 DEF Crash, Fails, Leaking, States
  <1> QED
    BY <1>1, <1>2, <1>3, <1>4, <1>5 DEF Next

LEMMA SlotStep == SlotInv /\ [Next]_vars => SlotInv'
  BY SlotCount, SlotKeeps DEF SlotInv

LEMMA ContainersWithinHolders == SlotInv => WithinSlots
  <1> SUFFICES ASSUME SlotInv, leaks = {}
               PROVE  Cardinality({c \in Requests : Exists(c)}) <= Max
    BY DEF WithinSlots
  <1>1. {c \in Requests : Exists(c)} \subseteq Holders
    BY DEF SlotInv, Holders, Using
  <1>2. Cardinality({c \in Requests : Exists(c)}) <= Cardinality(Holders)
    BY <1>1, HoldersFinite, FS_Subset
  <1>3. Cardinality({c \in Requests : Exists(c)}) \in Nat
    BY <1>1, HoldersFinite, FS_Subset, FS_CardinalityType
  <1> QED
    BY <1>2, <1>3, HoldersFinite, FS_CardinalityType, MaxAssumption DEF SlotInv

\* However many requests there are and however they interleave with the sweep:
\* without a fault that loses one, there are never more containers than slots.
THEOREM NeverMoreThanSlots == Spec => []WithinSlots
  BY SlotInit, SlotStep, ContainersWithinHolders, PTL DEF Spec

--------------------------------------------------------------------------------
(* The Runner interface. *)

LEMMA BackendRunning == SlotInv => Backend!Running = Holders
  BY DEF SlotInv, Backend!Running, Holders, Labels, Final, Holding, Timed

LEMMA BackendCardinality == Backend!Cardinality(Holders) = Cardinality(Holders)
  BY DEF Backend!Cardinality, Cardinality

\* A step of one request, seen through the interface.
LEMMA ProgressBecomes ==
  ASSUME SlotInv, NEW r \in Requests, NEW l, pc' = [pc EXCEPT ![r] = l],
         UNCHANGED serving
  PROVE  Backend!Becomes(r, IF l \in Holding THEN "running" ELSE l)
  BY DEF SlotInv, Backend!Becomes

LEMMA BackendInit == Init => Backend!Init
  BY DEF Init, Backend!Init, Holding, Timed

LEMMA BackendQueue ==
  ASSUME SlotInv, NEW r \in Requests, (\E i \in Ids : Arrive(r, i)) \/ Acquire(r) \/ GiveUp(r)
  PROVE  Backend!Arrive(r) \/ Backend!Admit(r) \/ Backend!GiveUp(r)
  <1> USE DEF Holding, Timed
  <1>1. CASE \E i \in Ids : Arrive(r, i)
    <2>1. pc' = [pc EXCEPT ![r] = "queued"] /\ UNCHANGED serving /\ serving /\ pc[r] = "idle"
      BY <1>1 DEF Arrive, cleaner
    <2>2. Backend!Becomes(r, "queued")
      BY <2>1, ProgressBecomes
    <2> QED
      BY <2>1, <2>2 DEF Backend!Arrive
  <1>2. CASE Acquire(r)
    <2>1. pc' = [pc EXCEPT ![r] = "create"] /\ UNCHANGED serving /\ pc[r] = "queued" /\ slots < Max
      BY <1>2 DEF Acquire, cleaner
    <2>2. Backend!Becomes(r, "running")
      BY <2>1, ProgressBecomes
    <2>3. Backend!Cardinality(Backend!Running) < Max
      BY <2>1, BackendRunning, BackendCardinality DEF SlotInv
    <2> QED
      BY <2>1, <2>2, <2>3 DEF Backend!Admit
  <1>3. CASE GiveUp(r)
    <2>1. pc' = [pc EXCEPT ![r] = "failed"] /\ UNCHANGED serving /\ pc[r] = "queued"
      BY <1>3 DEF GiveUp, Goto, cleaner
    <2>2. Backend!Becomes(r, "failed")
      BY <2>1, ProgressBecomes
    <2> QED
      BY <2>1, <2>2 DEF Backend!GiveUp
  <1> QED
    BY <1>1, <1>2, <1>3

\* Inside RunAnalysis nothing is seen until it returns.
LEMMA BackendCall ==
  ASSUME SlotInv, NEW r \in Requests, Call(r)
  PROVE  Backend!Finish(r) \/ UNCHANGED Backend!vars
  <1>1. UNCHANGED serving
    BY Zenon DEF Call, Create, Start, WaitResult, WaitFails, Stop, Copy, Remove, cleaner
  <1>2. ASSUME NEW l \in Holding, Goto(r, l)
        PROVE  UNCHANGED Backend!vars
    BY <1>1, <1>2, CallMoves DEF Goto, SlotInv, Backend!vars
  <1>3. ASSUME NEW l \in Final, Return(r, l)
        PROVE  Backend!Finish(r)
    <2>1. Backend!Becomes(r, l)
      BY <1>1, <1>3, ProgressBecomes DEF Return, Final, Holding, Timed
    <2> QED
      BY <2>1, CallMoves DEF Backend!Finish, Backend!Final, Final
  <1> QED
    BY <1>2, <1>3, CallMoves

LEMMA BackendSweep ==
  ASSUME Sweep \/ Tick \/ (\E r \in Requests : Exit(r)) \/ UNCHANGED vars
  PROVE  Backend!Listen \/ UNCHANGED Backend!vars
  <1>1. pc' = pc
    BY Zenon DEF Tick, Sweep, List, SweepStop, SweepRemove, SweepEnd, Exit, request, vars
  <1>2. serving' \in {serving, TRUE}
    BY DEF Tick, Sweep, List, SweepStop, SweepRemove, SweepEnd, Exit, cleaner, vars
  <1> QED
    BY <1>1, <1>2 DEF Backend!Listen, Backend!vars

LEMMA BackendCrash ==
  ASSUME SlotInv, Crash
  PROVE  Backend!Restart
  BY DEF Crash, SlotInv, InFlight, Backend!Restart, Labels, Final, Holding, Timed

\* Whatever fails and however many requests and slots there are, a step of the
\* backend is one of the interface or invisible in it.
THEOREM DockerIsARunner == Spec => ImplementsRunner
  <1>1. SlotInv /\ [Next]_vars => [Backend!Next]_Backend!vars
    BY BackendQueue, BackendCall, BackendSweep, BackendCrash DEF Next, Backend!Next
  <1> QED
    BY <1>1, SlotInit, SlotStep, BackendInit, PTL DEF Spec, ImplementsRunner, Backend!Spec

--------------------------------------------------------------------------------
(* Time: the sweep and the analyses. *)

Early == {"idle", "queued", "create"}

\* How long a container may have existed when a timed step begins.
Before(l) == CASE l = "start" -> 0
               [] l = "wait"  -> StartLimit
               [] OTHER       -> StartLimit + Timeout

AgeTypes ==
    /\ pc \in [Requests -> Labels]
    /\ cont \in [Requests -> States]
    /\ age \in [Requests -> Nat]
    /\ timer \in [Requests -> Nat]
    /\ todo \subseteq Requests

\* A container is no older than the steps of its analysis have taken.
Punctual(r) ==
    /\ pc[r] \in Early => ~Exists(r)
    /\ ~Exists(r) => age[r] = 0
    /\ pc[r] \in Timed => timer[r] <= Limit(pc[r]) /\ age[r] <= Before(pc[r]) + timer[r]
    /\ r \in todo => pc[r] \notin Early \cup Timed

AgeInv == AgeTypes /\ \A r \in Requests : Punctual(r)

LEMMA AgeInit == Init => AgeInv
  BY DEF Init, AgeInv, AgeTypes, Punctual, Exists, Labels, States, Early, Timed

\* An analysis within its limits is younger than the threshold of the sweep.
LEMMA WithinThreshold ==
  ASSUME StartLimit + CopyLimit <= Timeout, AgeInv,
         NEW r \in Requests, pc[r] \in Timed
  PROVE  age[r] <= 2 * Timeout
  BY TimesAssumption DEF AgeInv, AgeTypes, Punctual, Timed, Limit, Before

LEMMA AgeCallTypes ==
  ASSUME AgeInv, NEW r \in Requests, Call(r)
  PROVE  AgeTypes'
  <1> USE DEF AgeInv, AgeTypes, daemon, cleaner
  <1>1. todo' = todo
    BY Zenon DEF Call, Create, Start, WaitResult, WaitFails, Stop, Copy, Remove
  <1>2. pc' \in [Requests -> Labels] /\ timer' \in [Requests -> Nat]
    BY CallMoves DEF Goto, Return, Labels
  <1>3. cont' \in [Requests -> States] /\ age' \in [Requests -> Nat]
    <2>1. CASE Create(r)
      BY <2>1 DEF Create, Created, States
    <2>2. CASE Start(r)
      BY <2>2 DEF Start, Runs, States
    <2>3. CASE WaitResult(r) \/ WaitFails(r) \/ Copy(r)
      BY <2>3 DEF WaitResult, WaitFails, Copy
    <2>4. CASE Stop(r)
      BY <2>4 DEF Stop, Stopped, Exited, States
    <2>5. CASE Remove(r)
      BY <2>5 DEF Remove, Removed, States
    <2> QED
      BY <2>1, <2>2, <2>3, <2>4, <2>5 DEF Call
  <1> QED
    BY <1>1, <1>2, <1>3

\* A step of RunAnalysis leaves the others alone.
LEMMA AgeOthers ==
  ASSUME AgeInv, NEW r \in Requests, Call(r), NEW q \in Requests \ {r}
  PROVE  Punctual(q)'
  <1>1. pc'[q] = pc[q] /\ timer'[q] = timer[q]
    BY CallMoves DEF AgeInv, AgeTypes, Goto, Return
  <1>2. cont'[q] = cont[q] /\ age'[q] = age[q] /\ todo' = todo
    <2> USE DEF AgeInv, AgeTypes, daemon, cleaner
    <2>1. CASE Create(r)
      BY <2>1 DEF Create, Created
    <2>2. CASE Start(r)
      BY <2>2 DEF Start, Runs
    <2>3. CASE WaitResult(r) \/ WaitFails(r) \/ Copy(r)
      BY <2>3 DEF WaitResult, WaitFails, Copy
    <2>4. CASE Stop(r)
      BY <2>4 DEF Stop, Stopped, Exited
    <2>5. CASE Remove(r)
      BY <2>5 DEF Remove, Removed
    <2> QED
      BY <2>1, <2>2, <2>3, <2>4, <2>5 DEF Call
  <1> QED
    BY <1>1, <1>2 DEF AgeInv, Punctual, Exists

LEMMA AgeCall ==
  ASSUME AgeInv, NEW r \in Requests, Call(r)
  PROVE  Punctual(r)'
  <1> USE TimesAssumption
      DEF AgeInv, AgeTypes, Punctual, Exists, Early, Timed, Limit, Before, Goto, daemon, cleaner
  <1>1. CASE Create(r)
    BY <1>1 DEF Create, Created, Return, Final
  <1>2. CASE Start(r)
    BY <1>2 DEF Start, Runs
  <1>3. CASE WaitResult(r)
    BY <1>3 DEF WaitResult
  <1>4. CASE WaitFails(r) \/ Copy(r)
    BY <1>4 DEF WaitFails, Copy
  <1>5. CASE Stop(r)
    BY <1>5 DEF Stop, Stopped, Exited
  <1>6. CASE Remove(r)
    BY <1>6 DEF Remove, Removed, Return
  <1> QED
    BY <1>1, <1>2, <1>3, <1>4, <1>5, <1>6 DEF Call

LEMMA AgeQueue ==
  ASSUME AgeInv, NEW r \in Requests, (\E i \in Ids : Arrive(r, i)) \/ Acquire(r) \/ GiveUp(r)
  PROVE  AgeInv'
  <1> USE DEF AgeInv, AgeTypes, Punctual, Exists, Early, Timed, daemon, cleaner
  <1>1. CASE \E i \in Ids : Arrive(r, i)
    BY <1>1 DEF Arrive, Labels
  <1>2. CASE Acquire(r)
    BY <1>2 DEF Acquire, Labels, Holding
  <1>3. CASE GiveUp(r)
    BY <1>3 DEF GiveUp, Goto, Labels, Final
  <1> QED
    BY <1>1, <1>2, <1>3

\* No timed step is at its limit when time passes.
LEMMA AgeTick == AgeInv /\ Tick => AgeInv'
  <1> SUFFICES ASSUME AgeInv, Tick PROVE AgeInv'
    OBVIOUS
  <1>1. pc' = pc /\ cont' = cont /\ todo' = todo
    BY DEF Tick, cleaner
  <1>2. ASSUME NEW r \in Requests
        PROVE  /\ timer'[r] = IF pc[r] \in Timed THEN timer[r] + 1 ELSE timer[r]
               /\ age'[r] \in {age[r], age[r] + 1}
               /\ ~Exists(r) => age'[r] = age[r]
               /\ pc[r] \in Timed => timer[r] < Limit(pc[r])
    BY DEF Tick, AgeInv, AgeTypes
  <1>3. AgeTypes'
    <2>1. timer' \in [Requests -> Nat] /\ age' \in [Requests -> Nat]
      BY DEF Tick, AgeInv, AgeTypes
    <2> QED
      BY <1>1, <2>1 DEF AgeInv, AgeTypes
  <1>4. ASSUME NEW r \in Requests
        PROVE  Punctual(r)'
    BY <1>1, <1>2, TimesAssumption DEF AgeInv, AgeTypes, Punctual, Exists, Limit, Before, Timed
  <1> QED
    BY <1>3, <1>4 DEF AgeInv

LEMMA AgeDaemon ==
  ASSUME StartLimit + CopyLimit <= Timeout, AgeInv, Sweep \/ \E r \in Requests : Exit(r)
  PROVE  AgeInv'
  <1> USE DEF AgeInv, AgeTypes, Exists, request, daemon, cleaner
  <1>1. CASE \E r \in Requests : Exit(r)
    BY <1>1 DEF Exit, Exited, States, Punctual
  <1>2. CASE List
    <2>1. ASSUME NEW r \in Requests, r \in todo'
          PROVE  r \in todo \/ pc[r] \notin Early \cup Timed
      BY <1>2, <2>1, WithinThreshold, TimesAssumption DEF List, Orphaned, Punctual
    <2> QED
      BY <1>2, <2>1 DEF List, Punctual
  <1>3. CASE \E c \in Requests : SweepStop(c)
    BY <1>3 DEF SweepStop, Stopped, Exited, States, Punctual
  <1>4. CASE SweepRemove
    BY <1>4, TimesAssumption DEF SweepRemove, Removed, States, Punctual, Before, Timed
  <1>5. CASE SweepEnd
    BY <1>5 DEF SweepEnd, Punctual
  <1> QED
    BY <1>1, <1>2, <1>3, <1>4, <1>5 DEF Sweep

LEMMA AgeCrash == AgeInv /\ Crash => AgeInv'
  BY DEF AgeInv, AgeTypes, Punctual, Exists, Crash, InFlight, Early, Timed, Final,
     Labels, States

LEMMA AgeStutter == AgeInv /\ UNCHANGED vars => AgeInv'
  BY DEF AgeInv, AgeTypes, Punctual, Exists, vars, request, daemon, cleaner

\* If starting and copying together take no longer than the timeout of the
\* analysis, the sweep never takes a container that its analysis still needs.
THEOREM SweepIsSafe ==
  ASSUME StartLimit + CopyLimit <= Timeout
  PROVE  Spec => []NeverSweepsActive
  <1>1. AgeInv /\ [Next]_vars => AgeInv'
    <2>1. ASSUME AgeInv, NEW r \in Requests, Call(r) PROVE AgeInv'
      BY <2>1, AgeCallTypes, AgeOthers, AgeCall DEF AgeInv
    <2> QED
      BY <2>1, AgeQueue, AgeTick, AgeDaemon, AgeCrash, AgeStutter DEF Next
  <1>2. AgeInv => NeverSweepsActive
    BY DEF AgeInv, AgeTypes, Punctual, NeverSweepsActive
  <1> QED
    BY <1>1, <1>2, AgeInit, PTL DEF Spec

--------------------------------------------------------------------------------
(* Types. *)

\* What the sweep removes is on its list, and it holds nothing between two sweeps.
Data ==
    /\ id \in [Requests -> Ids \cup {Nil}]
    /\ code \in [Requests -> Codes]
    /\ age \in [Requests -> 0..Old]
    /\ timer \in [Requests -> Nat]
    /\ todo \subseteq Requests
    /\ cur \in todo \cup {Nil}
    /\ ~sweeping => cur = Nil
    /\ leaks \subseteq Faults \cap Leaking
    /\ budget \in 0..MaxFaults

Flags == serving \in BOOLEAN /\ sweeping \in BOOLEAN

LEMMA DataInit == Init => Data /\ Flags
  <1>1. Init => Data
    BY TimesAssumption, FaultsAssumption DEF Init, Data, Codes, Old
  <1>2. Init => Flags
    BY Zenon DEF Init, Flags
  <1> QED
    BY <1>1, <1>2

LEMMA FlagsStep ==
  ASSUME Flags, [Next]_vars
  PROVE  Flags'
  <1>1. /\ serving' \in {serving, TRUE, FALSE}
        /\ sweeping' \in {sweeping, TRUE, FALSE}
    <2> USE DEF cleaner, vars
    <2>1. ASSUME NEW r \in Requests, (\E i \in Ids : Arrive(r, i)) \/ Acquire(r) \/ GiveUp(r)
                                     \/ Call(r) \/ Exit(r)
          PROVE  serving' = serving /\ sweeping' = sweeping
      BY <2>1, Zenon DEF Arrive, Acquire, GiveUp, Exit, Call, Create, Start, WaitResult,
         WaitFails, Stop, Copy, Remove
    <2>2. CASE Tick \/ Crash \/ Sweep
      BY <2>2, Zenon DEF Tick, Crash, Sweep, List, SweepStop, SweepRemove, SweepEnd
    <2> QED
      BY <2>1, <2>2, Zenon DEF Next
  <1> QED
    BY <1>1 DEF Flags

LEMMA DataStep ==
  ASSUME SlotInv, Data, [Next]_vars
  PROVE  Data'
  <1> USE RequestsAssumption, TimesAssumption, FaultsAssumption
      DEF SlotInv, Data, Codes, Old, Goto, Return, Fails, Exited, Stopped, Removed, Created,
          Runs, Exists, request, daemon, cleaner, failures
  <1>1. ASSUME NEW r \in Requests, NEW i \in Ids, Arrive(r, i) PROVE Data'
    BY <1>1 DEF Arrive
  <1>2. ASSUME NEW r \in Requests, Acquire(r) PROVE Data'
    BY <1>2 DEF Acquire
  <1>3. ASSUME NEW r \in Requests, GiveUp(r) PROVE Data'
    BY <1>3 DEF GiveUp
  <1>4. ASSUME NEW r \in Requests, Create(r) PROVE Data'
    BY <1>4 DEF Create
  <1>5. ASSUME NEW r \in Requests, Start(r) PROVE Data'
    BY <1>5 DEF Start
  <1>6. ASSUME NEW r \in Requests, WaitResult(r) PROVE Data'
    BY <1>6 DEF WaitResult
  <1>7. ASSUME NEW r \in Requests, WaitFails(r) PROVE Data'
    BY <1>7 DEF WaitFails
  <1>8. ASSUME NEW r \in Requests, Stop(r) PROVE Data'
    BY <1>8 DEF Stop
  <1>9. ASSUME NEW r \in Requests, Copy(r) PROVE Data'
    BY <1>9 DEF Copy
  <1>10. ASSUME NEW r \in Requests, Remove(r) PROVE Data'
    BY <1>10 DEF Remove
  <1>11. ASSUME NEW r \in Requests, Exit(r) PROVE Data'
    BY <1>11 DEF Exit
  <1>12. ASSUME NEW c \in Requests, SweepStop(c) PROVE Data'
    BY <1>12 DEF SweepStop
  <1>13. CASE Tick
    BY <1>13 DEF Tick
  <1>14. CASE Crash
    BY <1>14 DEF Crash
  <1>15. CASE List
    BY <1>15 DEF List
  <1>16. CASE SweepRemove
    BY <1>16 DEF SweepRemove
  <1>17. CASE SweepEnd
    BY <1>17 DEF SweepEnd
  <1>18. CASE UNCHANGED vars
    BY <1>18 DEF vars
  <1> QED
    BY <1>1, <1>2, <1>3, <1>4, <1>5, <1>6, <1>7, <1>8, <1>9, <1>10, <1>11,
       <1>12, <1>13, <1>14, <1>15, <1>16, <1>17, <1>18
    DEF Next, Call, Sweep

\* The types of all variables, and the sweep removes only what it has listed.
THEOREM TypeCorrect == Spec => []TypeOK
  <1>1. SlotInv /\ Data /\ Flags => TypeOK
    <2>1. SlotInv => slots \in Nat
      BY HoldersFinite, FS_CardinalityType DEF SlotInv
    <2> QED
      BY <2>1, Zenon DEF SlotInv, Data, Flags, TypeOK
  <1> QED
    BY <1>1, SlotInit, SlotStep, DataInit, DataStep, FlagsStep, PTL DEF Spec

================================================================================
