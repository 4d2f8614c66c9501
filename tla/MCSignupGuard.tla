--------------------------- MODULE MCSignupGuard ---------------------------
(* Two clients, a few refills and sweeps of both limiters.                 *)
EXTENDS SignupGuard, TLC

CONSTANTS ip1, ip2

MCKeys == {ip1, ip2}

Symmetric == Permutations(MCKeys)
=============================================================================
