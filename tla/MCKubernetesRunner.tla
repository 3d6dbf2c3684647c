--------------------------- MODULE MCKubernetesRunner --------------------------
(* Instances of KubernetesRunner for TLC. *)
EXTENDS KubernetesRunner, TLC

CONSTANTS r1, r2, r3

Two   == {r1, r2}
Three == {r1, r2, r3}

Symmetry == Permutations(Requests)

AnyFault  == Fault
LiveFault == Leaking \cup {"Delete", "Get"}

================================================================================
