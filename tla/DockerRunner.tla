------------------------------ MODULE DockerRunner -----------------------------
(***************************************************************************)
(* The Docker backend: RunAnalysis of concurrent requests, the slots that  *)
(* limit them, the containers they create, and the periodic CleanupOrphaned*)
(* that sweeps containers nobody has removed.                              *)
(*                                                                         *)
(* The containers live in the Docker daemon and outlive the API process.   *)
(* Request r creates at most one, which is named after r's analysis id and *)
(* has r as its container ID here.  Time is counted in ticks; a container's*)
(* age is counted until it is past the sweep's threshold.                  *)
(***************************************************************************)
EXTENDS Integers, FiniteSets

CONSTANTS
    Requests,    \* the calls of RunAnalysis of a behaviour
    Ids,         \* the analysis ids
    Nil,         \* no container, no id
    Max,         \* MAX_CONCURRENT_ANALYSES
    Timeout,     \* ANALYSIS_TIMEOUT
    StartLimit,  \* how long the daemon takes at most to start a container
    CopyLimit,   \* how long clearing the directory and copying takes at most
    Faults,      \* the external calls that may fail
    MaxFaults    \* how many failures a behaviour has: the bound of a run

Leaking == {"Create", "Remove", "Crash"}
Fault   == Leaking \cup {"Start", "Wait", "Stop", "Copy", "List"}

ASSUME RequestsAssumption == IsFiniteSet(Requests) /\ Nil \notin Requests \cup Ids
ASSUME MaxAssumption == Max \in Nat \ {0}
ASSUME TimesAssumption ==
    /\ Timeout \in Nat \ {0}
    /\ StartLimit \in Nat
    /\ CopyLimit \in Nat
ASSUME FaultsAssumption == Faults \subseteq Fault /\ MaxFaults \in Nat

VARIABLES
    pc,        \* pc[r]: the next call of r; "ok" and "failed" are final
    id,        \* id[r]: the analysis id of r
    slots,     \* how many slots of the channel maxConcurrent are taken
    cont,      \* cont[r]: the state of the container of r in the daemon
    code,      \* code[r]: its exit code
    age,       \* age[r]: the ticks since it was created
    timer,     \* timer[r]: the ticks r has spent in its current step
    serving,   \* the process has finished its first sweep and listens
    todo,      \* what the sweep under way has listed and not removed yet
    cur,       \* the container it is about to remove
    sweeping,  \* a sweep is under way
    leaks,     \* history: the faults that may have left a container behind
    budget     \* how many more may happen

request  == <<pc, id, slots, timer>>
daemon   == <<cont, code, age>>
cleaner  == <<serving, todo, cur, sweeping>>
failures == <<leaks, budget>>
vars     == <<request, daemon, cleaner, failures>>

Timed   == {"start", "wait", "copy"}
Holding == Timed \cup {"create", "stop", "discard", "remove"}
Final   == {"ok", "failed"}
Labels  == {"idle", "queued"} \cup Holding \cup Final
States  == {"none", "created", "running", "exited"}
Codes   == {"none", "zero", "bad"}
Old     == 2 * Timeout + 1

InFlight(r) == pc[r] \notin {"idle"} \cup Final
Exists(c) == cont[c] # "none"
Conflict(i) == \E c \in Requests : Exists(c) /\ id[c] = i
Limit(l) == CASE l = "start" -> StartLimit
              [] l = "wait"  -> Timeout
              [] OTHER       -> CopyLimit

Init ==
    /\ pc = [r \in Requests |-> "idle"]
    /\ id = [r \in Requests |-> Nil]
    /\ slots = 0
    /\ cont = [r \in Requests |-> "none"]
    /\ code = [r \in Requests |-> "none"]
    /\ age = [r \in Requests |-> 0]
    /\ timer = [r \in Requests |-> 0]
    /\ serving = FALSE
    /\ todo = {}
    /\ cur = Nil
    /\ sweeping = FALSE
    /\ leaks = {}
    /\ budget = MaxFaults

Fails(f) ==
    /\ f \in Faults /\ budget > 0
    /\ leaks' = leaks \cup ({f} \cap Leaking)
    /\ budget' = budget - 1

Goto(r, l) ==
    /\ pc' = [pc EXCEPT ![r] = l]
    /\ timer' = [timer EXCEPT ![r] = 0]
    /\ UNCHANGED <<id, slots>>

\* RunAnalysis returns; the deferred receive gives the slot back.
Return(r, l) ==
    /\ pc' = [pc EXCEPT ![r] = l]
    /\ timer' = [timer EXCEPT ![r] = 0]
    /\ slots' = slots - 1
    /\ UNCHANGED id

\* What the daemon does with container c.  A running container that is stopped
\* ends with either exit code; one that is removed is forgotten.
Exited(c) ==
    /\ cont' = [cont EXCEPT ![c] = "exited"]
    /\ \E x \in {"zero", "bad"} : code' = [code EXCEPT ![c] = x]
    /\ UNCHANGED age
Stopped(c) == IF cont[c] = "running" THEN Exited(c) ELSE UNCHANGED daemon
Removed(c) ==
    /\ cont' = [cont EXCEPT ![c] = "none"]
    /\ code' = [code EXCEPT ![c] = "none"]
    /\ age' = [age EXCEPT ![c] = 0]
Created(r) == cont' = [cont EXCEPT ![r] = "created"] /\ UNCHANGED <<code, age>>

--------------------------------------------------------------------------------
(* RunAnalysis. *)

\* The handler calls RunAnalysis, which waits for a slot.
Arrive(r, i) ==
    /\ serving /\ pc[r] = "idle"
    /\ pc' = [pc EXCEPT ![r] = "queued"]
    /\ id' = [id EXCEPT ![r] = i]
    /\ UNCHANGED <<slots, timer, daemon, cleaner, failures>>

\* Mutant: a request does not wait for a slot.
AcquireAtOnce(r) ==
    /\ pc[r] = "queued"
    /\ pc' = [pc EXCEPT ![r] = "create"]
    /\ slots' = slots + 1
    /\ UNCHANGED <<id, timer, daemon, cleaner, failures>>

Acquire(r) ==
    /\ pc[r] = "queued" /\ slots < Max
    /\ pc' = [pc EXCEPT ![r] = "create"]
    /\ slots' = slots + 1
    /\ UNCHANGED <<id, timer, daemon, cleaner, failures>>

\* Mutant: a request that never got a slot gives one back.
GiveUpReleases(r) ==
    /\ pc[r] = "queued"
    /\ Return(r, "failed")
    /\ UNCHANGED <<daemon, cleaner, failures>>

\* The client has gone while the request was queued.
GiveUp(r) ==
    /\ pc[r] = "queued"
    /\ Goto(r, "failed")
    /\ UNCHANGED <<daemon, cleaner, failures>>

\* The daemon refuses a second container of the same name.  A call that fails
\* (the client has gone, the connection broke) may have been carried out.
Create(r) ==
    /\ pc[r] = "create"
    /\ \/ ~Conflict(id[r]) /\ Created(r) /\ Goto(r, "start") /\ UNCHANGED failures
       \/ Conflict(id[r]) /\ Return(r, "failed") /\ UNCHANGED <<daemon, failures>>
       \/ /\ Fails("Create") /\ Return(r, "failed")
          /\ UNCHANGED daemon \/ (~Conflict(id[r]) /\ Created(r))
    /\ UNCHANGED cleaner

Runs(r) == cont' = [cont EXCEPT ![r] = "running"] /\ UNCHANGED <<code, age>>

\* Mutant: the container is not removed when it cannot be started.
StartLeaks(r) ==
    /\ pc[r] = "start"
    /\ \/ cont[r] = "created" /\ Runs(r) /\ Goto(r, "wait") /\ UNCHANGED failures
       \/ cont[r] # "created" /\ Goto(r, "discard") /\ UNCHANGED <<daemon, failures>>
       \/ Fails("Start") /\ Return(r, "failed") /\ UNCHANGED daemon
    /\ UNCHANGED cleaner

Start(r) ==
    /\ pc[r] = "start"
    /\ \/ cont[r] = "created" /\ Runs(r) /\ Goto(r, "wait") /\ UNCHANGED failures
       \/ cont[r] # "created" /\ Goto(r, "discard") /\ UNCHANGED <<daemon, failures>>
       \/ /\ Fails("Start") /\ Goto(r, "discard")
          /\ UNCHANGED daemon \/ (cont[r] = "created" /\ Runs(r))
    /\ UNCHANGED cleaner

\* ContainerWait returns once the container does not run any more, with the exit
\* code; that of a container which has been removed is either.
WaitResult(r) ==
    /\ pc[r] = "wait" /\ cont[r] # "running"
    /\ \/ code[r] # "bad" /\ Goto(r, "copy")
       \/ code[r] # "zero" /\ Goto(r, "discard")
    /\ UNCHANGED <<daemon, cleaner, failures>>

\* Mutant: the wait has no timeout.
WaitFailsOnly(r) ==
    /\ pc[r] = "wait"
    /\ \/ ~Exists(r) /\ UNCHANGED failures
       \/ Fails("Wait")
    /\ Goto(r, "stop")
    /\ UNCHANGED <<daemon, cleaner>>

\* The analysis takes longer than the timeout, the container is unknown, or the
\* wait fails (the client has gone, the connection broke).
WaitFails(r) ==
    /\ pc[r] = "wait"
    /\ \/ (timer[r] >= Timeout \/ ~Exists(r)) /\ UNCHANGED failures
       \/ Fails("Wait")
    /\ Goto(r, "stop")
    /\ UNCHANGED <<daemon, cleaner>>

Stop(r) ==
    /\ pc[r] = "stop"
    /\ \/ Stopped(r) /\ UNCHANGED failures
       \/ Fails("Stop") /\ UNCHANGED daemon
    /\ Goto(r, "discard")
    /\ UNCHANGED cleaner

\* Clearing the result directory and copying the results out of the container,
\* which breaks off at the timeout of 60 s.
Copy(r) ==
    /\ pc[r] = "copy"
    /\ \/ Exists(r) /\ Goto(r, "remove") /\ UNCHANGED failures
       \/ (timer[r] >= CopyLimit \/ ~Exists(r)) /\ Goto(r, "discard") /\ UNCHANGED failures
       \/ Fails("Copy") /\ Goto(r, "discard")
    /\ UNCHANGED <<daemon, cleaner>>

\* removeContainer, forced, on the way out; a failure is only logged.
Remove(r) ==
    /\ pc[r] \in {"discard", "remove"}
    /\ \/ Removed(r) /\ UNCHANGED failures
       \/ Fails("Remove") /\ UNCHANGED daemon
    /\ Return(r, IF pc[r] = "remove" THEN "ok" ELSE "failed")
    /\ UNCHANGED cleaner

--------------------------------------------------------------------------------
(* The daemon, time, and the process. *)

\* The analysis in the container ends by itself.
Exit(r) ==
    /\ cont[r] = "running"
    /\ Exited(r)
    /\ UNCHANGED <<request, cleaner, failures>>

Tick ==
    /\ \A r \in Requests : pc[r] \in Timed => timer[r] < Limit(pc[r])
    /\ timer' = [r \in Requests |-> IF pc[r] \in Timed THEN timer[r] + 1 ELSE timer[r]]
    /\ age' = [c \in Requests |->
                 IF Exists(c) /\ age[c] < Old THEN age[c] + 1 ELSE age[c]]
    /\ UNCHANGED <<pc, id, slots, cont, code, cleaner, failures>>

\* The process dies and is started again.  Its requests are lost, the channel is
\* new, the containers go on; create calls on their way may still be carried out.
Crash ==
    /\ serving
    /\ Fails("Crash")
    /\ pc' = [r \in Requests |-> IF InFlight(r) THEN "failed" ELSE pc[r]]
    /\ timer' = [r \in Requests |-> 0]
    /\ slots' = 0
    /\ \E late \in SUBSET {r \in Requests : pc[r] = "create" /\ ~Conflict(id[r])} :
         /\ \A r, q \in late : id[r] = id[q] => r = q
         /\ cont' = [c \in Requests |-> IF c \in late THEN "created" ELSE cont[c]]
    /\ serving' = FALSE /\ todo' = {} /\ cur' = Nil /\ sweeping' = FALSE
    /\ UNCHANGED <<id, code, age>>

--------------------------------------------------------------------------------
(* cleanup.Start and CleanupOrphaned: the first sweep runs before the server  *)
(* listens, the others in the background, one at a time.                      *)

\* Mutants: the sweep gives a container one timeout, not two; it does not list
\* the containers that have stopped.
OrphanedEarly(c) == Exists(c) /\ age[c] > Timeout
OrphanedRunning(c) == cont[c] = "running" /\ age[c] > 2 * Timeout

\* Every container with the label that is older than the threshold.  The daemon
\* gives the time of creation in whole seconds, which makes a container older by less
\* than one: a part of what StartLimit and CopyLimit allow for.
Orphaned(c) == Exists(c) /\ age[c] > 2 * Timeout

List ==
    /\ ~sweeping
    /\ \/ /\ todo' = {c \in Requests : Orphaned(c)}
          /\ sweeping' = TRUE
          /\ UNCHANGED <<serving, failures>>
       \/ /\ Fails("List")
          /\ serving' = TRUE
          /\ UNCHANGED <<todo, sweeping>>
    /\ UNCHANGED <<request, daemon, cur>>

SweepStop(c) ==
    /\ sweeping /\ cur = Nil /\ c \in todo
    /\ cur' = c
    /\ \/ Stopped(c) /\ UNCHANGED failures
       \/ Fails("Stop") /\ UNCHANGED daemon
    /\ UNCHANGED <<request, serving, todo, sweeping>>

SweepRemove ==
    /\ cur # Nil
    /\ \/ Removed(cur) /\ UNCHANGED failures
       \/ Fails("Remove") /\ UNCHANGED daemon
    /\ todo' = todo \ {cur}
    /\ cur' = Nil
    /\ UNCHANGED <<request, serving, sweeping>>

SweepEnd ==
    /\ sweeping /\ todo = {}
    /\ sweeping' = FALSE
    /\ serving' = TRUE
    /\ UNCHANGED <<request, daemon, todo, cur, failures>>

Sweep == List \/ (\E c \in Requests : SweepStop(c)) \/ SweepRemove \/ SweepEnd

--------------------------------------------------------------------------------

Call(r) ==
    \/ Create(r) \/ Start(r) \/ WaitResult(r) \/ WaitFails(r) \/ Stop(r)
    \/ Copy(r) \/ Remove(r)

Next ==
    \/ \E r \in Requests :
         \/ \E i \in Ids : Arrive(r, i)
         \/ Acquire(r) \/ GiveUp(r) \/ Call(r) \/ Exit(r)
    \/ Tick \/ Crash \/ Sweep

Spec == Init /\ [][Next]_vars

\* Time passes, every call returns, blocked senders get the slots in turn, and
\* the ticker keeps sweeping.
Fairness ==
    /\ WF_vars(Tick)
    /\ WF_vars(Sweep)
    /\ \A r \in Requests : SF_vars(Acquire(r)) /\ WF_vars(Call(r))

FairSpec == Spec /\ Fairness

--------------------------------------------------------------------------------
(* Properties. *)

\* The types of the variables; the sweep holds a container only while it works.
TypeOK ==
    /\ pc \in [Requests -> Labels]
    /\ id \in [Requests -> Ids \cup {Nil}]
    /\ slots \in Nat
    /\ cont \in [Requests -> States]
    /\ code \in [Requests -> Codes]
    /\ age \in [Requests -> 0..Old]
    /\ timer \in [Requests -> Nat]
    /\ serving \in BOOLEAN
    /\ todo \subseteq Requests
    /\ cur \in todo \cup {Nil}
    /\ sweeping \in BOOLEAN
    /\ leaks \subseteq Faults \cap Leaking
    /\ budget \in 0..MaxFaults

\* As long as no removal and no create call fails and the process lives, there
\* are never more containers than slots: every way out of RunAnalysis removes
\* the container before it gives the slot back.
WithinSlots ==
    leaks = {} => Cardinality({c \in Requests : Exists(c)}) <= Max

\* The sweep never lists the container of an analysis that still needs it, be it
\* starting, running or being copied.
NeverSweepsActive == \A c \in todo : pc[c] \notin Timed

\* Every analysis that was queued returns, with a result or an error, whatever
\* fails: no call leaks a slot and nothing waits for ever.
EveryAnalysisReturns ==
    \A r \in Requests : InFlight(r) ~> ~InFlight(r)

\* No container stays: what a failed removal, a lost create call or a crash
\* leaves behind is swept, and its id can be analysed again.
LeaksReclaimed == \A c \in Requests : Exists(c) ~> ~Exists(c)

--------------------------------------------------------------------------------

Backend == INSTANCE Runner WITH
    state <- [r \in Requests |-> IF pc[r] \in Holding THEN "running" ELSE pc[r]]

\* The channel of slots does what the Runner interface promises: an analysis is
\* admitted only when fewer than Max are under way, on whichever of their ways out
\* the others have given their slots back, and each returns once.
ImplementsRunner == Backend!Spec

================================================================================
