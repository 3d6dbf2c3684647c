---------------------------- MODULE KubernetesRunner ----------------------------
(***************************************************************************)
(* The Kubernetes backend: RunAnalysis of requests for one analysis id,    *)
(* and the periodic CleanupOrphaned.                                       *)
(*                                                                         *)
(* Every call to the API server names the pod sitespeed-<id>, and a pod is *)
(* gone only some time after it has been deleted, so requests of the same  *)
(* id, one after the other or at once, meet under one name; other ids do   *)
(* not touch it.  A request creates at most one pod, which it stands for   *)
(* here.  A watch is the queue of what happened to the name since the      *)
(* version it was asked to start from.                                     *)
(***************************************************************************)
EXTENDS Integers, Sequences, FiniteSets

CONSTANTS
    Requests,   \* the calls of RunAnalysis of a behaviour, all of one id
    Nil,        \* no pod
    Max,        \* MAX_CONCURRENT_ANALYSES
    Attempts,   \* podCreateMaxAttempts
    Faults,     \* the calls and pods that may fail
    MaxFaults   \* how many failures a behaviour has: the bound of a run

Leaking == {"Create", "Remove", "Crash"}
Fault   == Leaking \cup {"Delete", "Get", "Conflict", "Watch", "Copy", "List", "Evict"}

ASSUME RequestsAssumption == IsFiniteSet(Requests) /\ Nil \notin Requests
ASSUME MaxAssumption == Max \in Nat \ {0}
ASSUME AttemptsAssumption == Attempts \in Nat \ {0}
ASSUME FaultsAssumption == Faults \subseteq Fault /\ MaxFaults \in Nat

VARIABLES
    pc,          \* pc[r]: the next call of r; "ok" and "failed" are final
    slots,       \* how many slots of the channel maxConcurrent are taken
    attempt,     \* attempt[r]: how often Create has found the name in use
    unread,      \* unread[r]: the events of r's watch it has not read yet
    holder,      \* the request whose pod has the name
    status,      \* the state of that pod
    terminating, \* it has been deleted and is not gone yet
    aged,        \* it is older than the sweep's threshold
    late,        \* the requests whose Create the server may still carry out
    serving,     \* the process has finished its first sweep and listens
    listed,      \* the sweep under way has listed the name and not deleted it yet
    copied,      \* history: copied[r] is the pod r has copied its results from
    disturbed,   \* history: disturbed[r]: r has overlapped another analysis of the
                 \* id, or neither r nor such an analysis has deleted r's pod
    leaks,       \* history: the faults that may have left a pod behind
    budget       \* how many more may happen

request  == <<pc, slots, attempt>>
pod      == <<holder, status, terminating, aged>>
server   == <<pod, late>>
cleaner  == <<serving, listed>>
history  == <<copied, disturbed>>
failures == <<leaks, budget>>
vars     == <<request, unread, server, cleaner, history, failures>>

Watchers == {"watch", "watching"}
Waiting  == Watchers \cup {"get"}
Holding  == Waiting \cup {"delete", "gone", "create", "copy", "discard", "remove"}
Final    == {"ok", "failed"}
Labels   == {"idle", "queued"} \cup Holding \cup Final
States   == {"working", "ready", "failed"}
Events   == States \cup {"deleted"}

InFlight(r) == pc[r] \notin {"idle"} \cup Final

Init ==
    /\ pc = [r \in Requests |-> "idle"]
    /\ slots = 0
    /\ attempt = [r \in Requests |-> 0]
    /\ unread = [r \in Requests |-> << >>]
    /\ holder = Nil
    /\ status = "working"
    /\ terminating = FALSE
    /\ aged = FALSE
    /\ late = {}
    /\ serving = FALSE
    /\ listed = FALSE
    /\ copied = [r \in Requests |-> Nil]
    /\ disturbed = [r \in Requests |-> FALSE]
    /\ leaks = {}
    /\ budget = MaxFaults

Fails(f) ==
    /\ f \in Faults /\ budget > 0
    /\ leaks' = leaks \cup ({f} \cap Leaking)
    /\ budget' = budget - 1

Goto(r, l) ==
    /\ pc' = [pc EXCEPT ![r] = l]
    /\ UNCHANGED <<slots, attempt>>

\* RunAnalysis returns; the deferred receive gives the slot back.
Return(r, l) ==
    /\ pc' = [pc EXCEPT ![r] = l]
    /\ slots' = slots - 1
    /\ attempt' = [attempt EXCEPT ![r] = 0]

Unwatch(r) == unread' = [unread EXCEPT ![r] = << >>]

--------------------------------------------------------------------------------
(* The API server: one name, and the watches on it. *)

Emit(e) ==
    unread' = [r \in Requests |->
                 IF pc[r] \in Watchers THEN Append(unread[r], e) ELSE unread[r]]

Added(r) ==
    /\ holder = Nil
    /\ holder' = r
    /\ status' = "working" /\ terminating' = FALSE /\ aged' = FALSE
    /\ Emit("working")

Vanished ==
    /\ holder' = Nil
    /\ status' = "working" /\ terminating' = FALSE /\ aged' = FALSE
    /\ Emit("deleted")

\* A pod that is deleted gets time to terminate, except one that no node has
\* taken yet.  That the event repeats the status makes no difference to podReady.
Deleted ==
    \/ holder = Nil /\ UNCHANGED <<pod, unread>>
    \/ /\ holder # Nil
       /\ terminating' = TRUE
       /\ UNCHANGED <<holder, status, aged, unread>>
    \/ holder # Nil /\ status = "working" /\ ~terminating /\ Vanished

Untouched == UNCHANGED <<pod, unread>>

\* Somebody deletes the pod who does not run an analysis of the id.
DeletedByOther ==
    /\ Deleted
    /\ disturbed' = [r \in Requests |-> disturbed[r] \/ r = holder]

--------------------------------------------------------------------------------
(* RunAnalysis. *)

Arrive(r) ==
    /\ serving /\ pc[r] = "idle"
    /\ Goto(r, "queued")
    /\ Untouched /\ UNCHANGED <<late, cleaner, history, failures>>

Acquire(r) ==
    /\ pc[r] = "queued" /\ slots < Max
    /\ pc' = [pc EXCEPT ![r] = "delete"]
    /\ slots' = slots + 1
    /\ LET others == {q \in Requests : pc[q] \in Holding} IN
       disturbed' = [q \in Requests |->
                       disturbed[q] \/ (others # {} /\ q \in others \cup {r})]
    /\ Untouched /\ UNCHANGED <<attempt, late, cleaner, copied, failures>>

\* Mutant: a request that never got a slot gives one back.
GiveUpReleases(r) ==
    /\ pc[r] = "queued"
    /\ Return(r, "failed")
    /\ Untouched /\ UNCHANGED <<late, cleaner, history, failures>>

\* The client has gone while the request was queued.
GiveUp(r) ==
    /\ pc[r] = "queued"
    /\ Goto(r, "failed")
    /\ Untouched /\ UNCHANGED <<late, cleaner, history, failures>>

\* ensurePodRecreated, and createPodWithRetry after a conflict, delete what has
\* the name; a failure is only logged.  A Delete whose answer is lost and that is
\* carried out later does what Evict does.
Delete(r) ==
    /\ pc[r] = "delete"
    /\ \/ Deleted /\ UNCHANGED failures
       \/ Fails("Delete") /\ (Deleted \/ Untouched)
    /\ Goto(r, "gone")
    /\ UNCHANGED <<late, cleaner, history>>

\* waitUntilPodDeleted: it polls until nothing has the name.  The deadline may
\* pass, or the Get fail.  After the last attempt there is no other.
AwaitGone(r) ==
    /\ pc[r] = "gone"
    /\ \/ holder = Nil /\ attempt[r] < Attempts /\ Goto(r, "create") /\ UNCHANGED failures
       \/ holder = Nil /\ attempt[r] = Attempts /\ Return(r, "failed") /\ UNCHANGED failures
       \/ Return(r, "failed") /\ UNCHANGED failures
       \/ Fails("Get") /\ Return(r, "failed")
    /\ Untouched /\ UNCHANGED <<late, cleaner, history>>

\* Mutant: a pod that already exists is taken for the one to be created.
CreateAdopts(r) ==
    /\ pc[r] = "create"
    /\ \/ Added(r) /\ Goto(r, "get") /\ UNCHANGED failures
       \/ holder # Nil /\ Goto(r, "get") /\ Untouched /\ UNCHANGED failures
    /\ UNCHANGED <<late, cleaner, history>>

\* createPodWithRetry: AlreadyExists and Conflict lead to another attempt, also
\* when the server still reserves a name that Get does not find any more.  A call
\* that fails otherwise may yet be carried out, now or later.
Create(r) ==
    /\ pc[r] = "create"
    /\ \/ Added(r) /\ Goto(r, "get") /\ UNCHANGED <<late, failures>>
       \/ /\ (holder # Nil /\ UNCHANGED failures) \/ Fails("Conflict")
          /\ pc' = [pc EXCEPT ![r] = "delete"]
          /\ attempt' = [attempt EXCEPT ![r] = @ + 1]
          /\ Untouched /\ UNCHANGED <<slots, late>>
       \/ /\ Fails("Create") /\ Return(r, "failed")
          /\ late' = late \cup {r}
          /\ Untouched
    /\ UNCHANGED <<cleaner, history>>

\* podReady, on the state of a pod: where an analysis goes that has seen it.
AfterSeeing(s) == CASE s = "ready" -> "copy" [] s = "working" -> "watch" [] OTHER -> "discard"

\* waitForInitContainer looks at the pod first.  What happens from now on is what
\* the watch will deliver.
Get(r) ==
    /\ pc[r] = "get"
    /\ \/ holder # Nil /\ Goto(r, AfterSeeing(status)) /\ UNCHANGED failures
       \/ holder = Nil /\ Goto(r, "discard") /\ UNCHANGED failures
       \/ Fails("Get") /\ Goto(r, "discard")
    /\ Untouched /\ UNCHANGED <<late, cleaner, history>>

\* Mutant: the watch starts from now instead of the version Get has seen.
WatchFromNow(r) ==
    /\ pc[r] = "watch"
    /\ \/ Goto(r, "watching") /\ UNCHANGED failures
       \/ Fails("Watch") /\ Goto(r, "discard")
    /\ Unwatch(r)
    /\ UNCHANGED <<server, cleaner, history>>

Watch(r) ==
    /\ pc[r] = "watch"
    /\ \/ Goto(r, "watching") /\ UNCHANGED <<unread, failures>>
       \/ Fails("Watch") /\ Goto(r, "discard") /\ Unwatch(r)
    /\ UNCHANGED <<server, cleaner, history>>

\* watchUntilReady reads the next event.
Event(r) ==
    /\ pc[r] = "watching" /\ unread[r] # << >>
    /\ IF Head(unread[r]) = "working"
       THEN UNCHANGED request /\ unread' = [unread EXCEPT ![r] = Tail(@)]
       ELSE Goto(r, AfterSeeing(Head(unread[r]))) /\ Unwatch(r)
    /\ UNCHANGED <<server, cleaner, history, failures>>

\* The watch is closed or reports an error: look again and watch anew.
WatchBreaks(r) ==
    /\ pc[r] = "watching"
    /\ Goto(r, "get") /\ Unwatch(r)
    /\ UNCHANGED <<server, cleaner, history, failures>>

\* Mutant: only the calls to the server look at the deadline, not the watch.
ExpireGet(r) ==
    /\ pc[r] = "get"
    /\ Goto(r, "discard") /\ Unwatch(r)
    /\ UNCHANGED <<server, cleaner, history, failures>>

\* Mutant: the slot is given back at the deadline, and again at the return.
ExpireReleases(r) ==
    /\ pc[r] \in Waiting
    /\ pc' = [pc EXCEPT ![r] = "discard"]
    /\ slots' = slots - 1
    /\ Unwatch(r)
    /\ UNCHANGED <<attempt, server, cleaner, history, failures>>

\* ANALYSIS_TIMEOUT has passed since the pod was created, or the client has gone.
Expire(r) ==
    /\ pc[r] \in Waiting
    /\ Goto(r, "discard") /\ Unwatch(r)
    /\ UNCHANGED <<server, cleaner, history, failures>>

\* Mutant: an analysis whose copy fails returns without deleting the pod.
CopyFailsLeaves(r) ==
    /\ pc[r] = "copy"
    /\ \/ /\ holder # Nil /\ status = "ready"
          /\ copied' = [copied EXCEPT ![r] = holder]
          /\ Goto(r, "remove") /\ UNCHANGED failures
       \/ /\ ((holder = Nil \/ status # "ready") /\ UNCHANGED failures) \/ Fails("Copy")
          /\ Return(r, "failed") /\ UNCHANGED copied
    /\ Untouched /\ UNCHANGED <<late, cleaner, disturbed>>

\* copyFromPod runs tar in the results container of what has the name now.
Copy(r) ==
    /\ pc[r] = "copy"
    /\ \/ /\ holder # Nil /\ status = "ready"
          /\ copied' = [copied EXCEPT ![r] = holder]
          /\ Goto(r, "remove") /\ UNCHANGED failures
       \/ /\ ((holder = Nil \/ status # "ready") /\ UNCHANGED failures) \/ Fails("Copy")
          /\ Goto(r, "discard") /\ UNCHANGED copied
    /\ Untouched /\ UNCHANGED <<late, cleaner, disturbed>>

\* deletePod, by name, on every way out once the pod is created; a failure is
\* only logged.
Remove(r) ==
    /\ pc[r] \in {"discard", "remove"}
    /\ \/ Deleted /\ UNCHANGED failures
       \/ Fails("Remove") /\ (Deleted \/ Untouched)
    /\ Return(r, IF pc[r] = "remove" THEN "ok" ELSE "failed")
    /\ UNCHANGED <<late, cleaner, history>>

--------------------------------------------------------------------------------
(* The cluster, time, and the process. *)

\* The analysis ends and the results container gets ready, or either fails.  What
\* is terminating is stopped; it may be seen unready before it has failed.
Outcomes == CASE status = "working" -> IF terminating THEN {"failed"} ELSE {"ready", "failed"}
              [] status = "ready"   -> IF terminating THEN {"failed", "working"} ELSE {"failed"}
              [] OTHER              -> {}

Progress ==
    /\ holder # Nil
    /\ \E s \in Outcomes : status' = s /\ Emit(s)
    /\ UNCHANGED <<request, holder, terminating, aged, late, cleaner, history, failures>>

Gone ==
    /\ terminating
    /\ Vanished
    /\ UNCHANGED <<request, late, cleaner, history, failures>>

\* Somebody else deletes the pod, for instance the scheduler.
Evict ==
    /\ holder # Nil /\ ~terminating
    /\ Fails("Evict")
    /\ DeletedByOther
    /\ UNCHANGED <<request, late, cleaner, copied>>

\* The server carries out a Create nobody waits for any more.
CreateLate(r) ==
    /\ r \in late
    /\ Added(r)
    /\ late' = late \ {r}
    /\ UNCHANGED <<request, cleaner, history, failures>>

\* The pod gets older than twice ANALYSIS_TIMEOUT, which its own analysis does
\* not wait for that long.
GrowOld ==
    /\ holder # Nil /\ ~aged /\ pc[holder] \notin Waiting
    /\ aged' = TRUE
    /\ UNCHANGED <<request, unread, holder, status, terminating, late, cleaner, history, failures>>

\* The process dies and is started again.  Its requests are lost, the channel is
\* new, the pods go on; a Create on its way may still be carried out.
Crash ==
    /\ serving
    /\ Fails("Crash")
    /\ pc' = [r \in Requests |-> IF InFlight(r) THEN "failed" ELSE pc[r]]
    /\ attempt' = [r \in Requests |-> 0]
    /\ slots' = 0
    /\ unread' = [r \in Requests |-> << >>]
    /\ late' = late \cup {r \in Requests : pc[r] = "create"}
    /\ serving' = FALSE /\ listed' = FALSE
    /\ UNCHANGED <<pod, history>>

--------------------------------------------------------------------------------
(* cleanup.Start and CleanupOrphaned: the first sweep runs before the server  *)
(* listens, the others in the background, one at a time.                      *)

\* Mutant: pods that have failed are not listed.
ListRunning ==
    /\ ~listed
    /\ \/ aged /\ status # "failed" /\ listed' = TRUE /\ UNCHANGED <<serving, failures>>
       \/ ~(aged /\ status # "failed") /\ serving' = TRUE /\ UNCHANGED <<listed, failures>>
       \/ Fails("List") /\ serving' = TRUE /\ UNCHANGED listed
    /\ Untouched /\ UNCHANGED <<request, late, history>>

\* The list is searched for old pods; their names are kept.
List ==
    /\ ~listed
    /\ \/ aged /\ listed' = TRUE /\ UNCHANGED <<serving, failures>>
       \/ ~aged /\ serving' = TRUE /\ UNCHANGED <<listed, failures>>
       \/ Fails("List") /\ serving' = TRUE /\ UNCHANGED listed
    /\ Untouched /\ UNCHANGED <<request, late, history>>

\* Other pods of the list come first, each with a call of its own.
SweepDelete ==
    /\ listed
    /\ \/ DeletedByOther /\ UNCHANGED failures
       \/ Fails("Delete") /\ (DeletedByOther \/ (Untouched /\ UNCHANGED disturbed))
    /\ listed' = FALSE
    /\ serving' = TRUE
    /\ UNCHANGED <<request, late, copied>>

Sweep == List \/ SweepDelete

--------------------------------------------------------------------------------

Call(r) ==
    \/ Delete(r) \/ AwaitGone(r) \/ Create(r) \/ Get(r) \/ Watch(r) \/ Event(r)
    \/ Copy(r) \/ Remove(r)

Next ==
    \/ \E r \in Requests :
         \/ Arrive(r) \/ Acquire(r) \/ GiveUp(r) \/ Call(r)
         \/ WatchBreaks(r) \/ Expire(r) \/ CreateLate(r)
    \/ Progress \/ Gone \/ Evict \/ GrowOld \/ Crash \/ Sweep

Spec == Init /\ [][Next]_vars

\* Every call returns, deadlines expire, blocked senders get the slots in turn,
\* what has been deleted terminates, and the ticker keeps sweeping.
Fairness ==
    /\ WF_vars(Gone) /\ WF_vars(GrowOld) /\ WF_vars(Sweep)
    /\ \A r \in Requests : SF_vars(Acquire(r)) /\ WF_vars(Call(r)) /\ WF_vars(Expire(r))

FairSpec == Spec /\ Fairness

--------------------------------------------------------------------------------
(* Properties. *)

\* The types of the variables.
TypeOK ==
    /\ pc \in [Requests -> Labels]
    /\ slots \in 0..Max
    /\ attempt \in [Requests -> 0..Attempts]
    /\ unread \in [Requests -> Seq(Events)]
    /\ holder \in Requests \cup {Nil}
    /\ status \in States
    /\ terminating \in BOOLEAN
    /\ aged \in BOOLEAN
    /\ late \subseteq Requests
    /\ serving \in BOOLEAN
    /\ listed \in BOOLEAN
    /\ copied \in [Requests -> Requests \cup {Nil}]
    /\ disturbed \in [Requests -> BOOLEAN]
    /\ leaks \subseteq Faults \cap Leaking
    /\ budget \in 0..MaxFaults

\* An analysis that has nothing left to read on its watch has missed nothing: the
\* pod is there and still at work.  Readiness, failure and deletion that come
\* before Get, between Get and Watch, or while the watch is down are all seen.
ReadinessNeverMissed ==
    \A r \in Requests :
        pc[r] \in Watchers /\ unread[r] = << >> => holder # Nil /\ status = "working"

\* An analysis of an id that no other analysis overlaps, and whose pod nobody else
\* deletes, returns the results of the pod it has created itself, never those of a
\* pod that an earlier analysis or process left or whose Create comes late.
OwnResults ==
    \A r \in Requests : pc[r] = "ok" /\ ~disturbed[r] => copied[r] = r

\* Unless the last deletion or a Create fails or the process dies, an analysis
\* that has returned leaves no pod to the sweep: every way out deletes it, even
\* when analyses of the same id delete each other's pods.
NoPodLeft ==
    leaks = {} /\ holder # Nil /\ pc[holder] \in Final => terminating

\* Every analysis that was queued returns, whatever fails: retries, deadlines and
\* new watches never keep it for ever.
EveryAnalysisReturns ==
    \A r \in Requests : InFlight(r) ~> ~InFlight(r)

\* No pod stays: what a failed deletion, a lost Create or a crash leaves behind is
\* deleted by the sweep or by the next analysis of the id.
LeaksReclaimed == \A r \in Requests : holder = r ~> holder # r

--------------------------------------------------------------------------------

Backend == INSTANCE Runner WITH
    state <- [r \in Requests |-> IF pc[r] \in Holding THEN "running" ELSE pc[r]]

\* The channel of slots does what the Runner interface promises: an analysis is
\* admitted only when fewer than Max are under way, on whichever of their ways out
\* the others have given their slots back, and each returns once.
ImplementsRunner == Backend!Spec

================================================================================
