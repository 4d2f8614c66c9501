--------------------------- MODULE MCSecondFactor ---------------------------
(* Two requests at a time, two enrollments, two time steps.                *)
EXTENDS SecondFactor, TLC

CONSTANTS r1, r2, s1, s2

MCReqs    == {r1, r2}
MCSecrets == {s1, s2}

Symmetric == Permutations(MCReqs) \cup Permutations(MCSecrets)
=============================================================================
