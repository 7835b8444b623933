----------------------------- MODULE MCRecords -----------------------------
(* A small installation for TLC: an ordinary user, an administrator, one     *)
(* subdomain prefix and two values.                                          *)
EXTENDS Records, TLC

CONSTANTS user, admin, n1, v1, v2, r1, r2, r3

MCUser == {user, admin}
MCAdmin == {admin}
MCName == {n1}
MCOneValue == {v1}
MCValue == {v1, v2}
MCTwoRequests == {r1, r2}
MCThreeRequests == {r1, r2, r3}
MCSymmetry == Permutations(MCThreeRequests) \cup Permutations(MCValue)
============================================================================
