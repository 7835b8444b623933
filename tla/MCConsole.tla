------------------------------ MODULE MCConsole ------------------------------
(* Two requests of every kind beside one root domain, one webhook and one  *)
(* unpaid order.  A rate of 0 is the one that is not taken as saved; 150   *)
(* cents are not whole yuan, and one cent is worth less than a point.      *)
EXTENDS Console, TLC

Symmetry == Permutations(Request)
=============================================================================
