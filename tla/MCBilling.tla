----------------------------- MODULE MCBilling -----------------------------
(* A small installation for TLC: two users, one code, one order, and three  *)
(* requests, on each of the three databases.                                *)
EXTENDS Billing, TLC

CONSTANTS u1, u2, c1, o1, r1, r2, r3

MCUser == {u1, u2}
MCCode == {c1}
MCOrder == {o1}
MCTwoRequests == {r1, r2}
MCThreeRequests == {r1, r2, r3}
MCRequestSymmetry == Permutations(MCThreeRequests)
MCDrivers == {"sqlite", "mysql", "postgres"}
MCNone == {}
MCZero == {0}
MCTwo == {2}
MCOne == {1}
MCZeroOne == {0, 1}
MCZeroTwo == {0, 2}
MCMaxClock == 1
============================================================================
