----------------------------- MODULE MCInstall -----------------------------
(* A small instance for TLC: two databases, two names, three requests.      *)
EXTENDS Install, TLC

CONSTANTS d1, d2, n1, n2, r1, r2, r3

MCDb == {d1, d2}
MCName == {n1, n2}
MCRequest == {r1, r2, r3}
MCSymmetry == Permutations(MCDb) \cup Permutations(MCName) \cup Permutations(MCRequest)
============================================================================
