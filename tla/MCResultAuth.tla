------------------------------ MODULE MCResultAuth ------------------------------
(* Instances of ResultAuth for TLC. *)
EXTENDS ResultAuth, TLC

CONSTANTS a, b, s1, s2

TwoReports == {a, b}
TwoSecrets == {s1, s2}

\* With two ticks to a second: a second, a second and a half, for ever.
AnyLifetime == {0, 2, 3}

\* None, one that is no time, and those that run out in a run.
AnyExpiry == {-1, 0, 1, 2, 3}

\* The reports are alike, and so are the secrets.
Alike == Permutations(TwoReports) \cup Permutations(TwoSecrets)

================================================================================
