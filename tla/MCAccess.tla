------------------------------ MODULE MCAccess ------------------------------
(* Two requests beside two accounts with a key each: enough for every pair *)
(* of operations to interleave, and for one to follow the other.           *)
EXTENDS Access, TLC

Symmetry == Permutations(Request)
=============================================================================
