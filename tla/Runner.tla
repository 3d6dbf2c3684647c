--------------------------------- MODULE Runner ---------------------------------
(***************************************************************************)
(* What either backend promises behind the Runner interface: an analysis   *)
(* that is asked for waits for its turn, at most Max have theirs at a      *)
(* time, and each returns once.  A restart of the process ends them all,   *)
(* and nobody is served before the first sweep has ended.                  *)
(***************************************************************************)
EXTENDS Naturals, FiniteSets

CONSTANTS
    Requests,   \* the calls of RunAnalysis
    Max         \* MAX_CONCURRENT_ANALYSES

VARIABLES
    state,      \* state[r]: how far r has got
    serving     \* the server listens

vars == <<state, serving>>

Final  == {"ok", "failed"}
States == {"idle", "queued", "running"} \cup Final

Running == {r \in Requests : state[r] = "running"}

Init ==
    /\ state = [r \in Requests |-> "idle"]
    /\ serving = FALSE

Becomes(r, s) == state' = [state EXCEPT ![r] = s] /\ UNCHANGED serving

Arrive(r) == serving /\ state[r] = "idle" /\ Becomes(r, "queued")

Admit(r) == state[r] = "queued" /\ Cardinality(Running) < Max /\ Becomes(r, "running")

GiveUp(r) == state[r] = "queued" /\ Becomes(r, "failed")

Finish(r) == state[r] = "running" /\ \E s \in Final : Becomes(r, s)

Listen == serving' = TRUE /\ UNCHANGED state

Restart ==
    /\ serving' = FALSE
    /\ state' = [r \in Requests |->
                   IF state[r] \in {"queued", "running"} THEN "failed" ELSE state[r]]

Next ==
    \/ Listen
    \/ \E r \in Requests : Arrive(r) \/ Admit(r) \/ GiveUp(r) \/ Finish(r)
    \/ Restart

Spec == Init /\ [][Next]_vars

================================================================================
