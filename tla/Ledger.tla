------------------------------ MODULE Ledger ------------------------------
(***************************************************************************)
(* What the points account of TuDNS promises, whichever service moves the  *)
(* points (redeem code, payment, administrator, record charge):            *)
(* points/service.go:24-62 seen from outside a transaction.                *)
(*                                                                         *)
(* A user has a balance and a history of postings.  One posting moves one  *)
(* user's balance by one delta, never below zero, is written once with the *)
(* balance it led to, and uses up a business number that no posting of any *)
(* user has used before.  History is only ever appended to.                *)
(***************************************************************************)
EXTENDS Integers, Sequences, Functions

CONSTANTS
    User,   \* the rows of table users
    Biz,    \* the business numbers (points_ledgers.biz_no)
    Delta   \* the amounts a posting can move

VARIABLES
    balance,   \* users.points
    history    \* the rows of points_ledgers, per user, in commit order

ledgerVars == <<balance, history>>

Entry == [delta : Int, balance : Nat, biz : Biz]

(* The business numbers a history h has used up. *)
BizOf(h) == UNION { {h[u][i].biz : i \in DOMAIN h[u]} : u \in User }

LedgerInit ==
    /\ balance = [u \in User |-> 0]
    /\ history = [u \in User |-> <<>>]

Post(u, d, b) ==
    /\ b \notin BizOf(history)
    /\ balance[u] + d >= 0
    /\ balance' = [balance EXCEPT ![u] = @ + d]
    /\ history' = [history EXCEPT ![u] =
                     Append(@, [delta |-> d, balance |-> balance[u] + d, biz |-> b])]

LedgerNext == \E u \in User, d \in Delta, b \in Biz : Post(u, d, b)

LedgerSpec == LedgerInit /\ [][LedgerNext]_ledgerVars
=============================================================================
