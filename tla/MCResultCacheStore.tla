---------------------------- MODULE MCResultCacheStore --------------------------
(* Instances of ResultCacheStore for TLC: a few requests, all interchangeable, *)
(* each of which may become any of the four handlers.                          *)
EXTENDS ResultCacheStore, TLC

CONSTANTS r1, r2, r3

ThreeRequests == {r1, r2, r3}

Symmetry == Permutations(Requests)

AnyFault == Fault

================================================================================
