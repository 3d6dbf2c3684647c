------------------------------ MODULE MCResultCache ----------------------------
(* Instances of ResultCache for TLC: a few requests, all interchangeable, each *)
(* of which may become any of the four handlers.                               *)
EXTENDS ResultCache, TLC

CONSTANTS r1, r2, r3

ThreeRequests == {r1, r2, r3}

Symmetry == Permutations(Requests)

NoFaults == {}
AnyFault == Fault

================================================================================
