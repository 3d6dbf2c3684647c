------------------------------- MODULE MCWorkspace ------------------------------
(* Instances of Workspace for TLC. *)
EXTENDS Workspace, TLC

CONSTANTS r1, r2, r3, data, home

Two   == {r1, r2}
Three == {r1, r2, r3}

\* A report is its web vitals and a page; an analysis may leave no vitals, where
\* an earlier one of the id has left some.
TwoFiles == {data, home}
Complete == {{data, home}}
NoVitals == {{home}}
Partial  == {{data, home}, {home}}

Symmetry == Permutations(Requests)

NoFaults  == {}
AnyFault  == Fault
LiveFault == {"RemoveAll", "Extract", "Crash"}

================================================================================
