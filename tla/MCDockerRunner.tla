----------------------------- MODULE MCDockerRunner ----------------------------
(* An instance of DockerRunner for TLC. *)
EXTENDS DockerRunner

CONSTANTS r1, r2, a, b

Two    == {r1, r2}
TwoIds == {a, b}

AnyFault == Fault

================================================================================
