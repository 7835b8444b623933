------------------------------ MODULE Billing ------------------------------
(***************************************************************************)
(* Everything that moves points: points.Service.Adjust and the three       *)
(* services that call it inside a database transaction of their own        *)
(* (redeem.Service.Redeem, alipay.Service.HandleNotify and                 *)
(* admin.Service.AdjustPoints, the charge of record.Service being an       *)
(* adjustment too).  Requests run concurrently; one action is one SQL      *)
(* statement, so that the statements of different transactions interleave  *)
(* as the chosen database lets them:                                       *)
(*                                                                         *)
(*   sqlite    (WAL, deferred BEGIN) a transaction reads the snapshot of   *)
(*             its first read; its first write takes the only write lock,  *)
(*             and fails at once when the lock is taken or the snapshot is *)
(*             no longer the latest; FOR UPDATE is not rendered            *)
(*   mysql     (REPEATABLE READ) plain reads see the snapshot of the first *)
(*             read, locking reads and writes see the latest commit        *)
(*   postgres  (READ COMMITTED) every statement sees the latest commit     *)
(*                                                                         *)
(* In the last two a row lock or a unique-index key is waited for until    *)
(* its holder commits or rolls back.  A transaction's writes are staged in *)
(* tx[r] and published by its commit.                                      *)
(***************************************************************************)
EXTENDS Integers, Sequences, FiniteSets, Functions

CONSTANTS
    User,         \* the rows of table users (none is ever deleted)
    Code,         \* redeem codes an administrator may create
    Order,        \* payment orders a user may create
    Request,      \* HTTP requests, each served once
    Drivers,      \* the databases considered (db.Open, db/db.go:28-47)
    CodePoints,   \* points an administrator gives a code
    MaxUsesInput, \* max_uses an administrator asks for
    OrderPoints,  \* points of an order, as priced by CreateOrder
    AdminDelta,   \* amounts an administrator adds or takes
    Cost,         \* prices of a DNS record (domain.PointsCost)
    MaxClock,     \* bound on the clock, in seconds
    NoRow         \* an absent row

ASSUME BillingAssumption ==
    /\ Drivers \subseteq {"sqlite", "mysql", "postgres"}
    /\ CodePoints \subseteq Int /\ MaxUsesInput \subseteq Int
    /\ OrderPoints \subseteq Nat \ {0}
    /\ AdminDelta \subseteq Int /\ Cost \subseteq Nat
    /\ MaxClock \in Nat
    /\ User # {}

(* A code "without expiry" is one that expires when the modelled time ends. *)
CodeRow == [points : {p \in CodePoints : p > 0}, max : Nat \ {0}, used : Nat, expires : 0..MaxClock]
OrderRow == [user : User, points : OrderPoints, status : {"pending", "paid"}]

(* biz_no: "redeem-<code>-<second>", "pay-<out_trade_no>" or a fresh uuid. *)
RedeemBiz(c, t) == <<"redeem", c, t>>
PayBiz(o) == <<"pay", o, 0>>
Uuid(r) == <<"uuid", r, 0>>
Biz == {RedeemBiz(c, t) : c \in Code, t \in 0..MaxClock}
         \cup {PayBiz(o) : o \in Order} \cup {Uuid(r) : r \in Request}

(* What a transaction keeps of the tables it read first. *)
SnapType == [uses : [Code -> Seq(User)], biz : SUBSET Biz, version : Nat]

ASSUME NoRowAssumption == NoRow \notin CodeRow \cup OrderRow \cup SnapType

Delta == {p \in CodePoints : p > 0} \cup OrderPoints \cup AdminDelta \cup {-c : c \in Cost}

(* What a transaction can hold until it ends: row locks and unique keys. *)
Resource == ({"user"} \X User) \cup ({"biz"} \X Biz) \cup ({"code"} \X Code) \cup ({"order"} \X Order)

VARIABLES
    driver,   \* which database this installation uses
    clock,    \* time.Now(), in whole seconds
    points,   \* users.points
    ledger,   \* points_ledgers, per user, in commit order
    codes,    \* redeem_codes
    uses,     \* redeem_uses: per code, the users, in commit order
    orders,   \* payment_orders
    version,  \* number of commits that changed the database
    tx,       \* per request: its program counter, locals and staged writes
    locks,    \* per request: the resources its transaction holds
    snap      \* per request: the snapshot of its transaction's first read

tables == <<points, ledger, codes, uses, orders, version>>
vars == <<driver, clock, tables, tx, locks, snap>>

-----------------------------------------------------------------------------
(* Reading, locking, ending a transaction *)

L == INSTANCE Ledger WITH balance <- points, history <- ledger

UsedBiz == L!BizOf(ledger)

Current == [uses |-> uses, biz |-> UsedBiz, version |-> version]

(* The snapshot taken by a transaction's first read, which it then keeps. *)
Snapshot(r) == IF snap[r] = NoRow THEN Current ELSE snap[r]

(* What a plain (non-locking) SELECT of r's transaction sees. *)
View(r) == IF driver = "postgres" THEN Current ELSE Snapshot(r)

Reads(r) == snap' = [snap EXCEPT ![r] = Snapshot(r)]

(* Defect: SQLite lets a transaction with an old snapshot write. *)
FreeDespiteStaleSnapshot(r, x) ==
    IF driver = "sqlite"
    THEN \A s \in Request \ {r} : locks[s] = {}
    ELSE \A s \in Request \ {r} : x \notin locks[s]

(* A write or locking read of resource x can go ahead now. *)
Free(r, x) ==
    IF driver = "sqlite"
    THEN /\ \A s \in Request \ {r} : locks[s] = {}
         /\ locks[r] = {} => Snapshot(r).version = version
    ELSE \A s \in Request \ {r} : x \notin locks[s]

Takes(r, x) ==
    /\ Free(r, x)
    /\ locks' = [locks EXCEPT ![r] = @ \cup {x}]

(* The request ends: with its transaction committed or rolled back, every *)
(* lock is released and the answer is what the client gets to see.        *)
Ended(r, answer) ==
    /\ tx' = [tx EXCEPT ![r] = [@ EXCEPT !.pc = "done", !.answer = answer,
                                         !.item = NoRow, !.next = 0, !.posted = FALSE]]
    /\ locks' = [locks EXCEPT ![r] = {}]
    /\ snap' = [snap EXCEPT ![r] = NoRow]

At(r, pc) == tx[r].pc = pc

Goto(r, pc) == tx' = [tx EXCEPT ![r].pc = pc]

Idle == [pc |-> "idle", kind |-> "adjust", user |-> CHOOSE u \in User : TRUE, key |-> NoRow,
         delta |-> 0, biz |-> NoRow, next |-> 0, posted |-> FALSE, item |-> NoRow,
         answer |-> "none"]

(* A request enters its handler; args are the locals it starts with. *)
Starts(r, args) ==
    /\ At(r, "idle")
    /\ tx' = [tx EXCEPT ![r] = args]
    /\ UNCHANGED <<driver, clock, tables, locks, snap>>

-----------------------------------------------------------------------------
(* redeem.Service.Redeem *)

RedeemRequest(r, u, c) ==
    Starts(r, [Idle EXCEPT !.pc = "readCode", !.kind = "redeem", !.user = u, !.key = c])

(* The code row is read without a lock and checked. *)
ReadCode(r) ==
    LET item == codes[tx[r].key] IN
    /\ At(r, "readCode")
    /\ IF item = NoRow
       THEN Ended(r, "error")
       ELSE IF item.expires < clock \/ item.used >= item.max
       THEN Ended(r, "error")
       ELSE /\ tx' = [tx EXCEPT ![r] = [@ EXCEPT !.pc = "countUses", !.item = item,
                                                 !.delta = item.points]]
            /\ Reads(r)
            /\ UNCHANGED locks
    /\ UNCHANGED <<driver, clock, tables>>

(* Has this user redeemed this code before?  Then the business number is *)
(* built from the code and the current second.                           *)
CountUses(r) ==
    /\ At(r, "countUses")
    /\ IF tx[r].user \in Range(View(r).uses[tx[r].key])
       THEN Ended(r, "error")
       ELSE /\ tx' = [tx EXCEPT ![r] = [@ EXCEPT !.pc = "findBiz",
                                                 !.biz = RedeemBiz(tx[r].key, clock)]]
            /\ Reads(r)
            /\ UNCHANGED locks
    /\ UNCHANGED <<driver, clock, tables>>

(* used_count := the count read at the start + 1. *)
UpdateCode(r) ==
    /\ At(r, "updateCode")
    /\ Takes(r, <<"code", tx[r].key>>)
    /\ Goto(r, "commit")
    /\ UNCHANGED <<driver, clock, tables, snap>>

-----------------------------------------------------------------------------
(* alipay.Service.HandleNotify, also reached through MockPay *)

(* A notification of a finished trade starts the transaction. *)
PaymentNotify(r, o) ==
    Starts(r, [Idle EXCEPT !.pc = "readOrder", !.kind = "notify", !.key = o])

(* Any other trade status is acknowledged and ignored. *)
OtherNotify(r, o) ==
    Starts(r, [Idle EXCEPT !.pc = "done", !.kind = "notify", !.key = o, !.answer = "ok"])

ReadOrder(r) ==
    LET order == orders[tx[r].key] IN
    /\ At(r, "readOrder")
    /\ IF order = NoRow
       THEN Ended(r, "error")
       ELSE IF order.status = "paid"
       THEN Ended(r, "ok")
       ELSE /\ tx' = [tx EXCEPT ![r] = [@ EXCEPT !.pc = "saveOrder", !.item = order,
                                                 !.user = order.user, !.delta = order.points,
                                                 !.biz = PayBiz(tx[r].key)]]
            /\ Reads(r)
            /\ UNCHANGED locks
    /\ UNCHANGED <<driver, clock, tables>>

(* Defect: the order is saved on the pool's connection, not on tx. *)
SaveOrderOutsideTx(r) ==
    /\ At(r, "saveOrder")
    /\ Free(r, <<"order", tx[r].key>>)
    /\ Goto(r, "findBiz")
    /\ orders' = [orders EXCEPT ![tx[r].key] = [tx[r].item EXCEPT !.status = "paid"]]
    /\ UNCHANGED <<driver, clock, points, ledger, codes, uses, version, locks, snap>>

(* The whole order row is saved as paid. *)
SaveOrder(r) ==
    /\ At(r, "saveOrder")
    /\ Takes(r, <<"order", tx[r].key>>)
    /\ Goto(r, "findBiz")
    /\ UNCHANGED <<driver, clock, tables, snap>>

-----------------------------------------------------------------------------
(* points.Service.Adjust, called with the caller's transaction *)

(* admin.Service.AdjustPoints: an adjustment with a fresh business number. *)
AdminAdjust(r, u, d) ==
    IF d = 0
    THEN Starts(r, [Idle EXCEPT !.pc = "done", !.user = u, !.answer = "error"])
    ELSE Starts(r, [Idle EXCEPT !.pc = "findBiz", !.user = u, !.delta = d, !.biz = Uuid(r)])

(* points.Service.Charge: a free record moves no points, another takes its *)
(* cost under a fresh business number.                                     *)
Charge(r, u, cost) ==
    IF cost = 0
    THEN Starts(r, [Idle EXCEPT !.pc = "done", !.user = u, !.answer = "ok"])
    ELSE Starts(r, [Idle EXCEPT !.pc = "findBiz", !.user = u, !.delta = -cost, !.biz = Uuid(r)])

AfterAdjust(r) == IF tx[r].kind = "redeem" THEN "updateCode" ELSE "commit"

(* A ledger row with this business number makes Adjust a no-op. *)
FindBiz(r) ==
    /\ At(r, "findBiz")
    /\ Goto(r, IF tx[r].biz \in View(r).biz THEN AfterAdjust(r) ELSE "lockUser")
    /\ Reads(r)
    /\ UNCHANGED <<driver, clock, tables, locks>>

(* Defect: the balance check is missing. *)
LockUserOverdrawn(r) ==
    /\ At(r, "lockUser")
    /\ tx' = [tx EXCEPT ![r] = [@ EXCEPT !.pc = "insert",
                                         !.next = points[tx[r].user] + tx[r].delta]]
    /\ Takes(r, <<"user", tx[r].user>>)
    /\ UNCHANGED <<driver, clock, tables, snap>>

(* Defect: the user row is read without FOR UPDATE. *)
LockUserUnlocked(r) ==
    LET next == points[tx[r].user] + tx[r].delta IN
    /\ At(r, "lockUser")
    /\ IF next < 0
       THEN Ended(r, "error")
       ELSE /\ tx' = [tx EXCEPT ![r] = [@ EXCEPT !.pc = "insert", !.next = next]]
            /\ UNCHANGED <<locks, snap>>
    /\ UNCHANGED <<driver, clock, tables>>

(* SELECT ... FOR UPDATE of the user, the balance check, UPDATE points. *)
LockUser(r) ==
    LET next == points[tx[r].user] + tx[r].delta IN
    /\ At(r, "lockUser")
    /\ Free(r, <<"user", tx[r].user>>)
    /\ IF next < 0
       THEN Ended(r, "error")
       ELSE /\ tx' = [tx EXCEPT ![r] = [@ EXCEPT !.pc = "insert", !.next = next]]
            /\ locks' = [locks EXCEPT ![r] = @ \cup {<<"user", tx[r].user>>}]
            /\ UNCHANGED snap
    /\ UNCHANGED <<driver, clock, tables>>

(* Defect: biz_no has no unique index. *)
InsertLedgerNoIndex(r) ==
    /\ At(r, "insert")
    /\ tx' = [tx EXCEPT ![r] = [@ EXCEPT !.pc = AfterAdjust(r), !.posted = TRUE]]
    /\ UNCHANGED <<driver, clock, tables, locks, snap>>

(* Defect: a rejected number is tried again inside the same transaction. *)
InsertLedgerRetried(r) ==
    /\ At(r, "insert")
    /\ Free(r, <<"biz", tx[r].biz>>)
    /\ tx[r].biz \notin UsedBiz
    /\ tx' = [tx EXCEPT ![r] = [@ EXCEPT !.pc = AfterAdjust(r), !.posted = TRUE]]
    /\ locks' = [locks EXCEPT ![r] = @ \cup {<<"biz", tx[r].biz>>}]
    /\ UNCHANGED <<driver, clock, tables, snap>>

(* INSERT of the ledger row: the unique index on biz_no makes it wait for  *)
(* an uncommitted row with the same number and fail on a committed one.    *)
InsertLedger(r) ==
    /\ At(r, "insert")
    /\ Free(r, <<"biz", tx[r].biz>>)
    /\ IF tx[r].biz \in UsedBiz
       THEN Ended(r, "error")
       ELSE /\ tx' = [tx EXCEPT ![r] = [@ EXCEPT !.pc = AfterAdjust(r), !.posted = TRUE]]
            /\ locks' = [locks EXCEPT ![r] = @ \cup {<<"biz", tx[r].biz>>}]
            /\ UNCHANGED snap
    /\ UNCHANGED <<driver, clock, tables>>

-----------------------------------------------------------------------------
(* Ends of a transaction *)

(* The staged balance and ledger row, when Adjust wrote them. *)
PublishAdjust(r) ==
    IF tx[r].posted
    THEN /\ points' = [points EXCEPT ![tx[r].user] = tx[r].next]
         /\ ledger' = [ledger EXCEPT ![tx[r].user] =
                         Append(@, [delta |-> tx[r].delta, balance |-> tx[r].next,
                                    biz |-> tx[r].biz])]
    ELSE UNCHANGED <<points, ledger>>

(* Defect: the use is not recorded. *)
CommitRedeemUnrecorded(r) ==
    LET c == tx[r].key IN
    /\ At(r, "commit") /\ tx[r].kind = "redeem"
    /\ PublishAdjust(r)
    /\ codes' = [codes EXCEPT ![c].used = tx[r].item.used + 1]
    /\ version' = version + 1
    /\ Ended(r, "ok")
    /\ UNCHANGED <<driver, clock, uses, orders>>

CommitRedeem(r) ==
    LET c == tx[r].key IN
    /\ At(r, "commit") /\ tx[r].kind = "redeem"
    /\ PublishAdjust(r)
    /\ codes' = [codes EXCEPT ![c].used = tx[r].item.used + 1]
    /\ uses' = [uses EXCEPT ![c] = Append(@, tx[r].user)]
    /\ version' = version + 1
    /\ Ended(r, "ok")
    /\ UNCHANGED <<driver, clock, orders>>

CommitNotify(r) ==
    /\ At(r, "commit") /\ tx[r].kind = "notify"
    /\ PublishAdjust(r)
    /\ orders' = [orders EXCEPT ![tx[r].key] = [tx[r].item EXCEPT !.status = "paid"]]
    /\ version' = version + 1
    /\ Ended(r, "ok")
    /\ UNCHANGED <<driver, clock, codes, uses>>

CommitAdjust(r) ==
    /\ At(r, "commit") /\ tx[r].kind = "adjust"
    /\ PublishAdjust(r)
    /\ version' = version + 1
    /\ Ended(r, "ok")
    /\ UNCHANGED <<driver, clock, codes, uses, orders>>

WritingTo(r) ==
    CASE At(r, "updateCode") -> <<"code", tx[r].key>>
      [] At(r, "saveOrder")  -> <<"order", tx[r].key>>
      [] OTHER               -> <<"user", tx[r].user>>

(* SQLITE_BUSY: a transaction that has read cannot become a writer any more. *)
Busy(r) ==
    /\ driver = "sqlite"
    /\ tx[r].pc \in {"updateCode", "saveOrder", "lockUser"}
    /\ ~Free(r, WritingTo(r))
    /\ Ended(r, "error")
    /\ UNCHANGED <<driver, clock, tables>>

(* Any statement may fail (connection lost, deadlock victim, the rest of a *)
(* charged operation refused), and the process may crash: rollback.        *)
Fail(r) ==
    /\ tx[r].pc \notin {"idle", "done"}
    /\ Ended(r, "error")
    /\ UNCHANGED <<driver, clock, tables>>

-----------------------------------------------------------------------------
(* redeem.Service.Create and alipay.Service.CreateOrder insert one row; the *)
(* clock advances.                                                          *)

CreateCode(c, p, m, e) ==
    /\ codes[c] = NoRow
    /\ p > 0
    /\ codes' = [codes EXCEPT ![c] = [points |-> p, max |-> IF m <= 0 THEN 1 ELSE m,
                                      used |-> 0, expires |-> e]]
    /\ version' = version + 1
    /\ UNCHANGED <<driver, clock, points, ledger, uses, orders, tx, locks, snap>>

CreateOrder(o, u, p) ==
    /\ orders[o] = NoRow
    /\ orders' = [orders EXCEPT ![o] = [user |-> u, points |-> p, status |-> "pending"]]
    /\ version' = version + 1
    /\ UNCHANGED <<driver, clock, points, ledger, codes, uses, tx, locks, snap>>

Tick ==
    /\ clock < MaxClock
    /\ clock' = clock + 1
    /\ UNCHANGED <<driver, tables, tx, locks, snap>>

-----------------------------------------------------------------------------
Init ==
    /\ driver \in Drivers
    /\ clock = 0
    /\ points = [u \in User |-> 0]
    /\ ledger = [u \in User |-> <<>>]
    /\ codes = [c \in Code |-> NoRow]
    /\ uses = [c \in Code |-> <<>>]
    /\ orders = [o \in Order |-> NoRow]
    /\ version = 0
    /\ tx = [r \in Request |-> Idle]
    /\ locks = [r \in Request |-> {}]
    /\ snap = [r \in Request |-> NoRow]

Arrives(r) ==
    \/ \E u \in User, c \in Code : RedeemRequest(r, u, c)
    \/ \E o \in Order : PaymentNotify(r, o)
    \/ \E o \in Order : OtherNotify(r, o)
    \/ \E u \in User, d \in AdminDelta : AdminAdjust(r, u, d)
    \/ \E u \in User, cost \in Cost : Charge(r, u, cost)

(* One statement of a running request: what its goroutine does next. *)
Step(r) ==
    \/ ReadCode(r) \/ CountUses(r) \/ UpdateCode(r)
    \/ ReadOrder(r) \/ SaveOrder(r)
    \/ FindBiz(r) \/ LockUser(r) \/ InsertLedger(r)
    \/ CommitRedeem(r) \/ CommitNotify(r) \/ CommitAdjust(r)
    \/ Busy(r)

Next ==
    \/ \E r \in Request : Arrives(r) \/ Step(r) \/ Fail(r)
    \/ \E c \in Code, p \in CodePoints, m \in MaxUsesInput, e \in 0..MaxClock :
          CreateCode(c, p, m, e)
    \/ \E o \in Order, u \in User, p \in OrderPoints : CreateOrder(o, u, p)
    \/ Tick

Spec == Init /\ [][Next]_vars

(* A goroutine that can take its next step takes it. *)
FairSpec == Spec /\ \A r \in Request : WF_vars(Step(r))
-----------------------------------------------------------------------------
(* Properties *)

Tx == [pc : {"idle", "readCode", "countUses", "updateCode", "readOrder", "saveOrder",
             "findBiz", "lockUser", "insert", "commit", "done"},
       kind : {"redeem", "notify", "adjust"},
       user : User, key : Code \cup Order \cup {NoRow}, delta : Int,
       biz : Biz \cup {NoRow}, next : Nat, posted : BOOLEAN,
       item : CodeRow \cup OrderRow \cup {NoRow},
       answer : {"none", "ok", "error"}]

(* Every variable has its type; in particular no balance, committed or      *)
(* staged, is ever negative (points/service.go:43).                         *)
TypeOK ==
    /\ driver \in Drivers
    /\ clock \in 0..MaxClock
    /\ points \in [User -> Nat]
    /\ ledger \in [User -> Seq(L!Entry)]
    /\ codes \in [Code -> CodeRow \cup {NoRow}]
    /\ uses \in [Code -> Seq(User)]
    /\ orders \in [Order -> OrderRow \cup {NoRow}]
    /\ version \in Nat
    /\ tx \in [Request -> Tx]
    /\ locks \in [Request -> SUBSET Resource]
    /\ snap \in [Request -> SnapType \cup {NoRow}]

(* The ledger explains every balance: each row's balance is the one before  *)
(* it plus its delta, and the user's points are the last row's balance,     *)
(* whatever transactions of that user overlap (points/service.go:38-60).    *)
LedgerExplainsPoints ==
    \A u \in User :
      LET before(i) == IF i = 1 THEN 0 ELSE ledger[u][i - 1].balance IN
      /\ \A i \in DOMAIN ledger[u] : ledger[u][i].balance = before(i) + ledger[u][i].delta
      /\ points[u] = before(Len(ledger[u]) + 1)

(* A business number is posted at most once, over all users: what makes a   *)
(* redelivered payment or a repeated adjustment harmless (biz_no is looked  *)
(* up without a lock first, points/service.go:31-36, so that only the index *)
(* stops two transactions that both looked before either inserted).         *)
BizNoPostedOnce ==
    \A u, v \in User :
      \A i \in DOMAIN ledger[u], j \in DOMAIN ledger[v] :
         ledger[u][i].biz = ledger[v][j].biz => u = v /\ i = j

(* An order is paid exactly when its points are on its user's ledger: no    *)
(* interleaving of duplicate notifications, failures and other adjustments  *)
(* marks an order paid without the credit, or credits without marking       *)
(* (alipay/service.go:154: "credits points idempotently").                  *)
PaidIffCredited ==
    \A o \in Order :
      IF orders[o] # NoRow /\ orders[o].status = "paid"
      THEN \E i \in DOMAIN ledger[orders[o].user] :
              /\ ledger[orders[o].user][i].biz = PayBiz(o)
              /\ ledger[orders[o].user][i].delta = orders[o].points
      ELSE PayBiz(o) \notin UsedBiz

(* On SQLite, where a transaction whose snapshot went stale cannot write,   *)
(* the unlocked checks of Redeem (redeem/service.go:62-81) are exact: a     *)
(* code is never used more than max_uses times nor twice by one user, and   *)
(* used_count is the number of uses.                                        *)
SqliteRedeemIsExact ==
    driver = "sqlite" =>
      \A c \in Code :
         /\ codes[c] # NoRow => /\ codes[c].used = Len(uses[c])
                                /\ Len(uses[c]) <= codes[c].max
         /\ IsInjective(uses[c])

(* On any database used_count may lose an update (it is written from the    *)
(* row read at the start, redeem/service.go:86-88) but never counts a use   *)
(* that is not recorded, and the ledger never holds more credits of a code  *)
(* than recorded uses, so that the uses bound what a code can pay out.      *)
UsesBoundPayout ==
    \A c \in Code :
       /\ codes[c] # NoRow => codes[c].used <= Len(uses[c])
       /\ Cardinality({b \in UsedBiz : b[1] = "redeem" /\ b[2] = c}) <= Len(uses[c])

(* Seen from outside the transactions, points move as Ledger says.          *)
ImplementsLedger == L!LedgerSpec

(* No set of overlapping requests blocks for ever: the locks are taken in   *)
(* the order order row, user row, business number, code row, so each        *)
(* request that entered its handler is answered.                            *)
EveryRequestIsAnswered ==
    \A r \in Request : (tx[r].pc # "idle") ~> (tx[r].pc = "done")

(* What the client of a redemption is told: the points it gained            *)
(* (redeem/service.go:94, shown by frontend/src/pages/PointsPage.tsx:52) are *)
(* on its ledger.  Not what the code does: the business number is shared by *)
(* all users who redeem the code in the same second.                        *)
RedeemedPointsAreCredited ==
    \A r \in Request :
      tx[r].kind = "redeem" /\ tx[r].answer = "ok" =>
         \E i \in DOMAIN ledger[tx[r].user] : ledger[tx[r].user][i].biz = tx[r].biz

(* A code is used at most max_uses times (redeem/service.go:72-74).  Not    *)
(* what the code does outside SQLite: the check reads the row unlocked.     *)
MaxUsesRespected ==
    \A c \in Code : codes[c] # NoRow => Len(uses[c]) <= codes[c].max
=============================================================================
