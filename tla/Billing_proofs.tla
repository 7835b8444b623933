-------------------------- MODULE Billing_proofs --------------------------
(***************************************************************************)
(* Proofs about Billing, for any number of users, codes, orders and        *)
(* requests, any prices and any of the three databases.                    *)
(*                                                                         *)
(* The argument: a request that has staged a new balance holds the user's  *)
(* row, a request that has staged a ledger row holds its business number,  *)
(* and nothing is held twice.  So at its commit the staged balance is      *)
(* still the committed one plus the delta, and the number is still unused. *)
(* Of redeem codes, which are read without a lock, more is shown at the    *)
(* end: what was read may be stale, except on SQLite, where a transaction  *)
(* with a stale snapshot cannot write.                                     *)
(***************************************************************************)
EXTENDS Billing, FiniteSetTheorems, TLAPS

(* Program counters at which the business number is known. *)
Adjusting == {"findBiz", "lockUser", "insert", "updateCode", "commit"}

(* The locals of a redemption: its code exists once it has been read. *)
RedeemLocals(r) ==
    tx[r].kind = "redeem" /\ tx[r].pc \notin {"idle", "done"} =>
      /\ tx[r].pc \notin {"readOrder", "saveOrder"}
      /\ tx[r].key \in Code
      /\ tx[r].pc # "readCode" =>
            /\ tx[r].item \in CodeRow
            /\ codes[tx[r].key] \in CodeRow
            /\ tx[r].delta \in Delta
      /\ tx[r].pc \in Adjusting =>
            \E t \in 0..MaxClock : tx[r].biz = RedeemBiz(tx[r].key, t)

(* The locals of a notification agree with the order, whose user and points *)
(* never change.                                                            *)
NotifyLocals(r) ==
    tx[r].kind = "notify" /\ tx[r].pc \notin {"idle", "done"} =>
      /\ tx[r].pc \notin {"readCode", "countUses", "updateCode"}
      /\ tx[r].key \in Order
      /\ tx[r].pc # "readOrder" =>
            /\ tx[r].item \in OrderRow
            /\ orders[tx[r].key] \in OrderRow
            /\ orders[tx[r].key].user = tx[r].item.user
            /\ orders[tx[r].key].points = tx[r].item.points
            /\ tx[r].user = tx[r].item.user
            /\ tx[r].delta = tx[r].item.points
            /\ tx[r].delta \in Delta
            /\ tx[r].biz = PayBiz(tx[r].key)

(* An adjustment has its own number. *)
AdjustLocals(r) ==
    tx[r].kind = "adjust" /\ tx[r].pc \notin {"idle", "done"} =>
      /\ tx[r].pc \in {"findBiz", "lockUser", "insert", "commit"}
      /\ tx[r].delta \in Delta
      /\ tx[r].biz = Uuid(r)

(* What a request has staged is protected by what it holds. *)
StagedIsHeld(r) ==
    /\ tx[r].posted => tx[r].pc \in {"updateCode", "commit"}
    /\ tx[r].pc = "insert" \/ tx[r].posted =>
         /\ <<"user", tx[r].user>> \in locks[r]
         /\ tx[r].next = points[tx[r].user] + tx[r].delta
    /\ tx[r].posted =>
         /\ <<"biz", tx[r].biz>> \in locks[r]
         /\ tx[r].biz \notin UsedBiz
    /\ tx[r].pc \in {"updateCode", "commit"} /\ ~tx[r].posted => tx[r].biz \in UsedBiz

SnapIsPast(r) == snap[r] # NoRow => snap[r].biz \subseteq UsedBiz

TxInv(r) ==
    /\ RedeemLocals(r)
    /\ NotifyLocals(r)
    /\ AdjustLocals(r)
    /\ StagedIsHeld(r)
    /\ SnapIsPast(r)

(* Nothing is held by two requests. *)
HeldOnce == \A r, s \in Request : r # s => locks[r] \cap locks[s] = {}

IInv ==
    /\ TypeOK
    /\ \A r \in Request : TxInv(r)
    /\ HeldOnce
    /\ LedgerExplainsPoints
    /\ BizNoPostedOnce
    /\ PaidIffCredited

-----------------------------------------------------------------------------
(* What a request that ends looks like. *)
EndOf(r, answer) == [tx[r] EXCEPT !.pc = "done", !.answer = answer,
                                  !.item = NoRow, !.next = 0, !.posted = FALSE]

LEMMA UsedBizTyped == ASSUME TypeOK PROVE UsedBiz \in SUBSET Biz
<1>1. ASSUME NEW u \in User, NEW i \in DOMAIN ledger[u] PROVE ledger[u][i].biz \in Biz
  <2>1. ledger[u] \in Seq(L!Entry) BY DEF TypeOK
  <2>2. ledger[u][i] \in L!Entry BY <2>1
  <2> QED BY <2>2 DEF L!Entry
<1>2. ASSUME NEW b \in UsedBiz PROVE b \in Biz
  <2>1. PICK u \in User : b \in {ledger[u][i].biz : i \in DOMAIN ledger[u]}
    BY DEF UsedBiz, L!BizOf
  <2>2. PICK i \in DOMAIN ledger[u] : b = ledger[u][i].biz BY <2>1
  <2> QED BY <1>1, <2>2
<1> QED BY <1>2

LEMMA SnapshotTyped ==
  ASSUME TypeOK, NEW r \in Request
  PROVE  Snapshot(r) \in SnapType
BY UsedBizTyped DEF TypeOK, Snapshot, Current, SnapType

(* A step that changes the locals, the locks and the snapshot of one request *)
(* keeps the invariant when that request's part of it holds afterwards.      *)
LEMMA LocalStep ==
  ASSUME IInv, NEW r \in Request, NEW t \in Tx, NEW S \in SUBSET Resource,
         NEW n \in SnapType \cup {NoRow},
         UNCHANGED <<driver, clock, tables>>,
         tx' = [tx EXCEPT ![r] = t],
         locks' = [locks EXCEPT ![r] = S],
         snap' = [snap EXCEPT ![r] = n],
         \A s \in Request \ {r} : S \cap locks[s] = {},
         TxInv(r)'
  PROVE  IInv'
<1> UsedBiz' = UsedBiz BY DEF UsedBiz, tables
<1>1. TypeOK'
  BY DEF IInv, TypeOK, tables
<1>2. ASSUME NEW s \in Request PROVE TxInv(s)'
  <2>1. CASE s = r BY <2>1
  <2>2. CASE s # r
    <3>1. tx'[s] = tx[s] /\ locks'[s] = locks[s] /\ snap'[s] = snap[s]
      BY <2>2 DEF IInv, TypeOK
    <3>2. TxInv(s) BY DEF IInv
    <3> QED BY <3>1, <3>2 DEF TxInv, RedeemLocals, NotifyLocals, AdjustLocals,
               StagedIsHeld, SnapIsPast, tables
  <2> QED BY <2>1, <2>2
<1>3. HeldOnce'
  BY DEF IInv, HeldOnce, TypeOK
<1>4. LedgerExplainsPoints' /\ BizNoPostedOnce' /\ PaidIffCredited'
  BY DEF IInv, LedgerExplainsPoints, BizNoPostedOnce, PaidIffCredited, tables
<1> QED BY <1>1, <1>2, <1>3, <1>4 DEF IInv

(* An answered request keeps the invariant when no table changed. *)
LEMMA EndStep ==
  ASSUME IInv, NEW r \in Request, NEW a \in {"ok", "error"},
         UNCHANGED <<driver, clock, tables>>, Ended(r, a)
  PROVE  IInv'
<1>1. tx[r] \in Tx BY DEF IInv, TypeOK
<1>2. EndOf(r, a) \in Tx BY <1>1 DEF EndOf, Tx
<1>3. tx' = [tx EXCEPT ![r] = EndOf(r, a)] BY DEF Ended, EndOf
<1>4. tx'[r] = EndOf(r, a) /\ locks'[r] = {} /\ snap'[r] = NoRow
  BY <1>3 DEF Ended, IInv, TypeOK
<1>5. tx'[r].pc = "done" /\ tx'[r].posted = FALSE
  BY <1>1, <1>4 DEF EndOf, Tx
<1>6. TxInv(r)'
  BY <1>4, <1>5 DEF TxInv, RedeemLocals, NotifyLocals, AdjustLocals, StagedIsHeld, SnapIsPast
<1>7. /\ locks' = [locks EXCEPT ![r] = {}] /\ {} \in SUBSET Resource
      /\ snap' = [snap EXCEPT ![r] = NoRow] /\ NoRow \in SnapType \cup {NoRow}
      /\ \A s \in Request \ {r} : {} \cap locks[s] = {}
  BY DEF Ended
<1> QED BY <1>2, <1>3, <1>6, <1>7, LocalStep

(* A request enters its handler. *)
LEMMA StartStep ==
  ASSUME IInv, NEW r \in Request, NEW t \in Tx, Starts(r, t),
         t.posted = FALSE, t.pc # "insert", t.pc # "updateCode", t.pc # "commit",
         TxInv(r)'
  PROVE  IInv'
<1>1. locks' = [locks EXCEPT ![r] = locks[r]] /\ snap' = [snap EXCEPT ![r] = snap[r]]
  BY DEF Starts, IInv, TypeOK
<1>2. \A s \in Request \ {r} : locks[r] \cap locks[s] = {} BY DEF IInv, HeldOnce
<1>3. locks[r] \in SUBSET Resource /\ snap[r] \in SnapType \cup {NoRow}
  BY DEF IInv, TypeOK
<1> QED BY <1>1, <1>2, <1>3, LocalStep DEF Starts

LEMMA IdleTyped == Idle \in Tx
BY BillingAssumption DEF Idle, Tx

LEMMA ArrivalStep ==
  ASSUME IInv, NEW r \in Request, Arrives(r)
  PROVE  IInv'
<1> /\ tx[r] \in Tx /\ locks[r] \in SUBSET Resource /\ snap \in [Request -> SnapType \cup {NoRow}]
    /\ tx \in [Request -> Tx] /\ SnapIsPast(r)
  BY DEF IInv, TypeOK, TxInv
<1> Idle.posted = FALSE /\ Idle \in Tx BY IdleTyped DEF Idle
<1>0. ASSUME NEW t \in Tx, Starts(r, t), t.posted = FALSE,
             \/ t.pc = "done"
             \/ t.pc = "readCode" /\ t.kind = "redeem" /\ t.key \in Code
             \/ t.pc = "readOrder" /\ t.kind = "notify" /\ t.key \in Order
             \/ /\ t.pc = "findBiz" /\ t.kind = "adjust" /\ t.delta \in Delta
                /\ t.biz = Uuid(r)
      PROVE  IInv'
  <2>1. tx'[r] = t /\ snap' = snap /\ UsedBiz' = UsedBiz
    BY <1>0 DEF Starts, tables, UsedBiz
  <2>2. TxInv(r)'
    BY <1>0, <2>1 DEF TxInv, RedeemLocals, NotifyLocals, AdjustLocals, StagedIsHeld,
       SnapIsPast, Adjusting
  <2> QED BY <1>0, <2>2, StartStep
<1>1. ASSUME NEW u \in User, NEW c \in Code, RedeemRequest(r, u, c) PROVE IInv'
  <2> DEFINE t == [Idle EXCEPT !.pc = "readCode", !.kind = "redeem", !.user = u, !.key = c]
  <2>1. t \in Tx /\ t.posted = FALSE /\ t.pc = "readCode" /\ t.kind = "redeem" /\ t.key = c
    BY DEF Tx, Idle
  <2> QED BY <1>0, <1>1, <2>1 DEF RedeemRequest
<1>2. ASSUME NEW o \in Order, PaymentNotify(r, o) PROVE IInv'
  <2> DEFINE t == [Idle EXCEPT !.pc = "readOrder", !.kind = "notify", !.key = o]
  <2>1. t \in Tx /\ t.posted = FALSE /\ t.pc = "readOrder" /\ t.kind = "notify" /\ t.key = o
    BY DEF Tx, Idle
  <2> QED BY <1>0, <1>2, <2>1 DEF PaymentNotify
<1>3. ASSUME NEW o \in Order, OtherNotify(r, o) PROVE IInv'
  <2> DEFINE t == [Idle EXCEPT !.pc = "done", !.kind = "notify", !.key = o, !.answer = "ok"]
  <2>1. t \in Tx /\ t.posted = FALSE /\ t.pc = "done"
    BY DEF Tx, Idle
  <2> QED BY <1>0, <1>3, <2>1 DEF OtherNotify
<1>4. ASSUME NEW u \in User, NEW d \in AdminDelta, AdminAdjust(r, u, d) PROVE IInv'
  <2> d \in Delta /\ d \in Int BY BillingAssumption DEF Delta
  <2>1. CASE d = 0
    <3> DEFINE t == [Idle EXCEPT !.pc = "done", !.user = u, !.answer = "error"]
    <3>1. t \in Tx /\ t.posted = FALSE /\ t.pc = "done" BY DEF Tx, Idle
    <3> QED BY <1>0, <1>4, <2>1, <3>1 DEF AdminAdjust
  <2>2. CASE d # 0
    <3> DEFINE t == [Idle EXCEPT !.pc = "findBiz", !.user = u, !.delta = d, !.biz = Uuid(r)]
    <3>1. Uuid(r) \in Biz BY DEF Biz
    <3>2. /\ t \in Tx /\ t.posted = FALSE /\ t.pc = "findBiz" /\ t.kind = "adjust"
          /\ t.delta = d /\ t.biz = Uuid(r)
      BY <3>1 DEF Tx, Idle
    <3> QED BY <1>0, <1>4, <2>2, <3>2 DEF AdminAdjust
  <2> QED BY <2>1, <2>2
<1>5. ASSUME NEW u \in User, NEW c \in Cost, Charge(r, u, c) PROVE IInv'
  <2> -c \in Delta /\ -c \in Int BY BillingAssumption DEF Delta
  <2>1. CASE c = 0
    <3> DEFINE t == [Idle EXCEPT !.pc = "done", !.user = u, !.answer = "ok"]
    <3>1. t \in Tx /\ t.posted = FALSE /\ t.pc = "done" BY DEF Tx, Idle
    <3> QED BY <1>0, <1>5, <2>1, <3>1 DEF Charge
  <2>2. CASE c # 0
    <3> DEFINE t == [Idle EXCEPT !.pc = "findBiz", !.user = u, !.delta = -c, !.biz = Uuid(r)]
    <3>1. Uuid(r) \in Biz BY DEF Biz
    <3>2. /\ t \in Tx /\ t.posted = FALSE /\ t.pc = "findBiz" /\ t.kind = "adjust"
          /\ t.delta = -c /\ t.biz = Uuid(r)
      BY <3>1 DEF Tx, Idle
    <3> QED BY <1>0, <1>5, <2>2, <3>2 DEF Charge
  <2> QED BY <2>1, <2>2
<1> QED BY <1>1, <1>2, <1>3, <1>4, <1>5 DEF Arrives

-----------------------------------------------------------------------------
(* The statements before a commit *)

LEMMA SnapshotPast ==
  ASSUME IInv, NEW r \in Request
  PROVE  /\ Snapshot(r) \in SnapType
         /\ Snapshot(r).biz \subseteq UsedBiz
         /\ View(r).biz \subseteq UsedBiz
<1>1. SnapIsPast(r) /\ TypeOK BY DEF IInv, TxInv
<1>2. Snapshot(r) \in SnapType BY <1>1, SnapshotTyped
<1>3. Snapshot(r).biz \subseteq UsedBiz BY <1>1 DEF Snapshot, Current, SnapIsPast
<1> QED BY <1>2, <1>3 DEF View, Current

LEMMA DeltaIsInt == Delta \subseteq Int
<1>1. CodePoints \subseteq Int /\ OrderPoints \subseteq Int /\ AdminDelta \subseteq Int
  BY BillingAssumption
<1>2. {-c : c \in Cost} \subseteq Int BY BillingAssumption
<1> QED BY <1>1, <1>2 DEF Delta

(* A statement that takes no lock. *)
LEMMA ReadStep ==
  ASSUME IInv, NEW r \in Request, NEW t \in Tx,
         UNCHANGED <<driver, clock, tables, locks>>,
         tx' = [tx EXCEPT ![r] = t], Reads(r),
         RedeemLocals(r)', NotifyLocals(r)', AdjustLocals(r)', StagedIsHeld(r)'
  PROVE  IInv'
<1>1. locks' = [locks EXCEPT ![r] = locks[r]] /\ locks[r] \in SUBSET Resource
  BY DEF IInv, TypeOK
<1>2. snap' = [snap EXCEPT ![r] = Snapshot(r)] BY DEF Reads
<1>3. \A s \in Request \ {r} : locks[r] \cap locks[s] = {} BY DEF IInv, HeldOnce
<1>4. SnapIsPast(r)'
  <2>1. snap'[r] = Snapshot(r) BY <1>2 DEF IInv, TypeOK
  <2>2. UsedBiz' = UsedBiz BY DEF UsedBiz, tables
  <2> QED BY <2>1, <2>2, SnapshotPast DEF SnapIsPast
<1>5. TxInv(r)' BY <1>4 DEF TxInv
<1> QED BY <1>1, <1>2, <1>3, <1>5, SnapshotPast, LocalStep

(* A statement that takes the free resource x. *)
LEMMA WriteStep ==
  ASSUME IInv, NEW r \in Request, NEW t \in Tx, NEW x \in Resource,
         UNCHANGED <<driver, clock, tables, snap>>,
         tx' = [tx EXCEPT ![r] = t], locks' = [locks EXCEPT ![r] = @ \cup {x}], Free(r, x),
         RedeemLocals(r)', NotifyLocals(r)', AdjustLocals(r)', StagedIsHeld(r)'
  PROVE  IInv'
<1> DEFINE S == locks[r] \cup {x}
<1>1. locks' = [locks EXCEPT ![r] = S] /\ S \in SUBSET Resource
  BY DEF IInv, TypeOK
<1>2. snap' = [snap EXCEPT ![r] = snap[r]] /\ snap[r] \in SnapType \cup {NoRow}
  BY DEF IInv, TypeOK
<1>3. \A s \in Request \ {r} : S \cap locks[s] = {}
  <2>1. ASSUME NEW s \in Request \ {r} PROVE x \notin locks[s] BY DEF Free
  <2>2. ASSUME NEW s \in Request \ {r} PROVE locks[r] \cap locks[s] = {} BY DEF IInv, HeldOnce
  <2> QED BY <2>1, <2>2
<1>4. SnapIsPast(r)'
  <2>1. SnapIsPast(r) BY DEF IInv, TxInv
  <2>2. UsedBiz' = UsedBiz BY DEF UsedBiz, tables
  <2> QED BY <2>1, <2>2 DEF SnapIsPast
<1>5. TxInv(r)' BY <1>4 DEF TxInv
<1> QED BY <1>1, <1>2, <1>3, <1>5, LocalStep

LEMMA ReadCodeStep == ASSUME IInv, NEW r \in Request, ReadCode(r) PROVE IInv'
<1> DEFINE item == codes[tx[r].key]
<1>0. tx[r] \in Tx /\ tx \in [Request -> Tx] /\ TxInv(r) BY DEF IInv, TypeOK
<1>1. tx[r].kind = "redeem" /\ tx[r].key \in Code /\ ~tx[r].posted
  <2>1. tx[r].pc = "readCode" BY DEF ReadCode, At
  <2> QED BY <1>0, <2>1 DEF TxInv, RedeemLocals, NotifyLocals, AdjustLocals, StagedIsHeld, Tx
<1>2. CASE Ended(r, "error") BY <1>2, EndStep DEF ReadCode
<1>3. CASE ~Ended(r, "error")
  <2> DEFINE t == [tx[r] EXCEPT !.pc = "countUses", !.item = item, !.delta = item.points]
  <2>1. tx' = [tx EXCEPT ![r] = t] /\ Reads(r) /\ UNCHANGED <<driver, clock, tables, locks>>
    BY <1>3 DEF ReadCode
  <2>2. item \in CodeRow BY <1>1, <1>3 DEF ReadCode, IInv, TypeOK
  <2>3. item.points \in Delta BY <2>2 DEF CodeRow, Delta
  <2>4. t \in Tx BY <1>0, <2>2, <2>3, DeltaIsInt DEF Tx
  <2>5. /\ t.pc = "countUses" /\ t.kind = "redeem" /\ t.key = tx[r].key /\ t.item = item
        /\ t.delta = item.points /\ ~t.posted
    BY <1>0, <1>1 DEF Tx
  <2>6. tx'[r] = t /\ codes' = codes BY <1>0, <2>1 DEF tables
  <2>7. RedeemLocals(r)' BY <1>1, <2>2, <2>3, <2>5, <2>6 DEF RedeemLocals, Adjusting
  <2>8. NotifyLocals(r)' /\ AdjustLocals(r)' /\ StagedIsHeld(r)'
    BY <2>5, <2>6 DEF NotifyLocals, AdjustLocals, StagedIsHeld
  <2> HIDE DEF t
  <2> QED BY <2>1, <2>4, <2>7, <2>8, ReadStep
<1> QED BY <1>2, <1>3

LEMMA CountUsesStep == ASSUME IInv, NEW r \in Request, CountUses(r) PROVE IInv'
<1>0. tx[r] \in Tx /\ tx \in [Request -> Tx] /\ TxInv(r) BY DEF IInv, TypeOK
<1>1. /\ tx[r].kind = "redeem" /\ tx[r].key \in Code /\ ~tx[r].posted
      /\ tx[r].item \in CodeRow /\ codes[tx[r].key] \in CodeRow /\ tx[r].delta \in Delta
  <2>1. tx[r].pc = "countUses" BY DEF CountUses, At
  <2> QED BY <1>0, <2>1 DEF TxInv, RedeemLocals, NotifyLocals, AdjustLocals, StagedIsHeld, Tx
<1>2. CASE Ended(r, "error") BY <1>2, EndStep DEF CountUses
<1>3. CASE ~Ended(r, "error")
  <2> DEFINE b == RedeemBiz(tx[r].key, clock)
             t == [tx[r] EXCEPT !.pc = "findBiz", !.biz = b]
  <2>1. tx' = [tx EXCEPT ![r] = t] /\ Reads(r) /\ UNCHANGED <<driver, clock, tables, locks>>
    BY <1>3 DEF CountUses
  <2>2. clock \in 0..MaxClock BY DEF IInv, TypeOK
  <2>3. b \in Biz BY <1>1, <2>2 DEF Biz
  <2>4. t \in Tx BY <1>0, <2>3 DEF Tx
  <2>5. /\ t.pc = "findBiz" /\ t.kind = "redeem" /\ t.key = tx[r].key /\ t.item = tx[r].item
        /\ t.delta = tx[r].delta /\ ~t.posted /\ t.biz = b
    BY <1>0, <1>1 DEF Tx
  <2>6. tx'[r] = t /\ codes' = codes BY <1>0, <2>1 DEF tables
  <2>7. RedeemLocals(r)' BY <1>1, <2>2, <2>5, <2>6 DEF RedeemLocals, Adjusting
  <2>8. NotifyLocals(r)' /\ AdjustLocals(r)' /\ StagedIsHeld(r)'
    BY <2>5, <2>6 DEF NotifyLocals, AdjustLocals, StagedIsHeld
  <2> HIDE DEF t
  <2> QED BY <2>1, <2>4, <2>7, <2>8, ReadStep
<1> QED BY <1>2, <1>3

LEMMA ReadOrderStep == ASSUME IInv, NEW r \in Request, ReadOrder(r) PROVE IInv'
<1> DEFINE order == orders[tx[r].key]
<1>0. tx[r] \in Tx /\ tx \in [Request -> Tx] /\ TxInv(r) BY DEF IInv, TypeOK
<1>1. tx[r].kind = "notify" /\ tx[r].key \in Order /\ ~tx[r].posted
  <2>1. tx[r].pc = "readOrder" BY DEF ReadOrder, At
  <2> QED BY <1>0, <2>1 DEF TxInv, RedeemLocals, NotifyLocals, AdjustLocals, StagedIsHeld, Tx
<1>2. CASE Ended(r, "error") BY <1>2, EndStep DEF ReadOrder
<1>3. CASE Ended(r, "ok") BY <1>3, EndStep DEF ReadOrder
<1>4. CASE ~Ended(r, "error") /\ ~Ended(r, "ok")
  <2> DEFINE t == [tx[r] EXCEPT !.pc = "saveOrder", !.item = order, !.user = order.user,
                                !.delta = order.points, !.biz = PayBiz(tx[r].key)]
  <2>1. tx' = [tx EXCEPT ![r] = t] /\ Reads(r) /\ UNCHANGED <<driver, clock, tables, locks>>
    BY <1>4 DEF ReadOrder
  <2>2. order \in OrderRow BY <1>1, <1>4 DEF ReadOrder, IInv, TypeOK
  <2>3. order.points \in Delta /\ order.user \in User BY <2>2 DEF OrderRow, Delta
  <2>4. PayBiz(tx[r].key) \in Biz BY <1>1 DEF Biz
  <2>5. t \in Tx BY <1>0, <2>2, <2>3, <2>4, DeltaIsInt DEF Tx
  <2>6. /\ t.pc = "saveOrder" /\ t.kind = "notify" /\ t.key = tx[r].key /\ t.item = order
        /\ t.user = order.user /\ t.delta = order.points /\ ~t.posted
        /\ t.biz = PayBiz(tx[r].key)
    BY <1>0, <1>1 DEF Tx
  <2>7. tx'[r] = t /\ orders' = orders BY <1>0, <2>1 DEF tables
  <2>8. NotifyLocals(r)' BY <1>1, <2>2, <2>3, <2>6, <2>7 DEF NotifyLocals
  <2>9. RedeemLocals(r)' /\ AdjustLocals(r)' /\ StagedIsHeld(r)'
    BY <2>6, <2>7 DEF RedeemLocals, AdjustLocals, StagedIsHeld
  <2> HIDE DEF t
  <2> QED BY <2>1, <2>5, <2>8, <2>9, ReadStep
<1> QED BY <1>2, <1>3, <1>4

LEMMA SaveOrderStep == ASSUME IInv, NEW r \in Request, SaveOrder(r) PROVE IInv'
<1> DEFINE t == [tx[r] EXCEPT !.pc = "findBiz"]
           x == <<"order", tx[r].key>>
<1>0. tx[r] \in Tx /\ tx \in [Request -> Tx] /\ TxInv(r) BY DEF IInv, TypeOK
<1>1. tx[r].pc = "saveOrder" BY DEF SaveOrder, At
<1>2. tx[r].kind = "notify" /\ tx[r].key \in Order /\ ~tx[r].posted
  BY <1>0, <1>1 DEF TxInv, RedeemLocals, NotifyLocals, AdjustLocals, StagedIsHeld, Tx
<1>3. t \in Tx /\ x \in Resource BY <1>0, <1>2 DEF Tx, Resource
<1>4. /\ tx' = [tx EXCEPT ![r] = t] /\ locks' = [locks EXCEPT ![r] = @ \cup {x}] /\ Free(r, x)
      /\ UNCHANGED <<driver, clock, tables, snap>>
  BY DEF SaveOrder, Goto, Takes
<1>5. /\ t.pc = "findBiz" /\ t.kind = "notify" /\ ~t.posted
      /\ t.key = tx[r].key /\ t.item = tx[r].item /\ t.user = tx[r].user
      /\ t.delta = tx[r].delta /\ t.biz = tx[r].biz
  BY <1>0, <1>2 DEF Tx
<1>6. tx'[r] = t /\ orders' = orders BY <1>0, <1>4 DEF tables
<1> HIDE DEF t, x
<1>7. NotifyLocals(r)' BY <1>0, <1>1, <1>2, <1>5, <1>6 DEF NotifyLocals, TxInv
<1>8. RedeemLocals(r)' /\ AdjustLocals(r)' /\ StagedIsHeld(r)'
  BY <1>5, <1>6 DEF RedeemLocals, AdjustLocals, StagedIsHeld
<1> QED BY <1>3, <1>4, <1>7, <1>8, WriteStep

LEMMA UpdateCodeStep == ASSUME IInv, NEW r \in Request, UpdateCode(r) PROVE IInv'
<1> DEFINE t == [tx[r] EXCEPT !.pc = "commit"]
           x == <<"code", tx[r].key>>
<1>0. tx[r] \in Tx /\ tx \in [Request -> Tx] /\ TxInv(r) /\ locks \in [Request -> SUBSET Resource]
  BY DEF IInv, TypeOK
<1>1. tx[r].pc = "updateCode" BY DEF UpdateCode, At
<1>2. tx[r].kind = "redeem" /\ tx[r].key \in Code
  BY <1>0, <1>1 DEF TxInv, RedeemLocals, NotifyLocals, AdjustLocals, Tx
<1>3. t \in Tx /\ x \in Resource BY <1>0, <1>2 DEF Tx, Resource
<1>4. /\ tx' = [tx EXCEPT ![r] = t] /\ locks' = [locks EXCEPT ![r] = @ \cup {x}] /\ Free(r, x)
      /\ UNCHANGED <<driver, clock, tables, snap>>
  BY DEF UpdateCode, Goto, Takes
<1>5. /\ t.pc = "commit" /\ t.kind = "redeem" /\ t.posted = tx[r].posted
      /\ t.key = tx[r].key /\ t.item = tx[r].item /\ t.user = tx[r].user
      /\ t.delta = tx[r].delta /\ t.biz = tx[r].biz /\ t.next = tx[r].next
  BY <1>0, <1>2 DEF Tx
<1>6. tx'[r] = t /\ codes' = codes /\ points' = points /\ UsedBiz' = UsedBiz
  BY <1>0, <1>4 DEF tables, UsedBiz
<1>6a. locks[r] \subseteq locks'[r] BY <1>0, <1>4
<1> HIDE DEF t, x
<1>7. RedeemLocals(r)'
  BY <1>0, <1>1, <1>2, <1>5, <1>6 DEF RedeemLocals, TxInv, Adjusting
<1>8. NotifyLocals(r)' /\ AdjustLocals(r)'
  BY <1>5, <1>6 DEF NotifyLocals, AdjustLocals
<1>9. StagedIsHeld(r)'
  BY <1>0, <1>1, <1>5, <1>6, <1>6a DEF StagedIsHeld, TxInv
<1> QED BY <1>3, <1>4, <1>7, <1>8, <1>9, WriteStep

(* At findBiz, lockUser and insert nothing has been posted, and every kind of *)
(* request has its locals.                                                    *)
LEMMA AdjustLocalsKept ==
  ASSUME IInv, NEW r \in Request, NEW t \in Tx,
         tx[r].pc \in {"findBiz", "lockUser", "insert"},
         t.pc \in {"lockUser", "insert", AfterAdjust(r)},
         t.kind = tx[r].kind, t.key = tx[r].key, t.item = tx[r].item, t.user = tx[r].user,
         t.delta = tx[r].delta, t.biz = tx[r].biz,
         tx' = [tx EXCEPT ![r] = t], UNCHANGED tables
  PROVE  RedeemLocals(r)' /\ NotifyLocals(r)' /\ AdjustLocals(r)'
<1>0. tx[r] \in Tx /\ tx'[r] = t /\ TxInv(r) /\ codes' = codes /\ orders' = orders
  BY DEF IInv, TypeOK, tables
<1>1. tx[r].kind = "redeem" \/ tx[r].kind = "notify" \/ tx[r].kind = "adjust"
  BY <1>0 DEF Tx
<1>2. CASE tx[r].kind = "redeem"
  BY <1>0, <1>2 DEF TxInv, RedeemLocals, NotifyLocals, AdjustLocals, Adjusting, AfterAdjust
<1>3. CASE tx[r].kind = "notify"
  BY <1>0, <1>3 DEF TxInv, RedeemLocals, NotifyLocals, AdjustLocals, Adjusting, AfterAdjust
<1>4. CASE tx[r].kind = "adjust"
  BY <1>0, <1>4 DEF TxInv, RedeemLocals, NotifyLocals, AdjustLocals, Adjusting, AfterAdjust
<1> QED BY <1>1, <1>2, <1>3, <1>4

LEMMA FindBizStep == ASSUME IInv, NEW r \in Request, FindBiz(r) PROVE IInv'
<1> DEFINE pc == IF tx[r].biz \in View(r).biz THEN AfterAdjust(r) ELSE "lockUser"
           t == [tx[r] EXCEPT !.pc = pc]
<1>0. tx[r] \in Tx /\ tx \in [Request -> Tx] /\ TxInv(r) BY DEF IInv, TypeOK
<1>1. tx[r].pc = "findBiz" /\ ~tx[r].posted
  BY <1>0 DEF FindBiz, At, TxInv, StagedIsHeld
<1>2. pc \in {"lockUser", AfterAdjust(r)} /\ AfterAdjust(r) \in {"updateCode", "commit"}
  BY DEF AfterAdjust
<1>3. tx' = [tx EXCEPT ![r] = t] /\ Reads(r) /\ UNCHANGED <<driver, clock, tables, locks>>
  BY DEF FindBiz, Goto
<1>4. pc # "lockUser" => tx[r].biz \in UsedBiz BY SnapshotPast
<1> HIDE DEF pc
<1>5. t \in Tx BY <1>0, <1>2 DEF Tx
<1>6. /\ t.pc = pc /\ t.kind = tx[r].kind /\ ~t.posted
      /\ t.key = tx[r].key /\ t.item = tx[r].item /\ t.user = tx[r].user
      /\ t.delta = tx[r].delta /\ t.biz = tx[r].biz
  BY <1>0, <1>1 DEF Tx
<1>7. tx'[r] = t /\ UsedBiz' = UsedBiz BY <1>0, <1>3 DEF tables, UsedBiz
<1> HIDE DEF t
<1>8. RedeemLocals(r)' /\ NotifyLocals(r)' /\ AdjustLocals(r)'
  BY <1>1, <1>2, <1>3, <1>5, <1>6, AdjustLocalsKept
<1>9. StagedIsHeld(r)' BY <1>2, <1>4, <1>6, <1>7 DEF StagedIsHeld
<1> QED BY <1>3, <1>5, <1>8, <1>9, ReadStep

LEMMA LockUserStep == ASSUME IInv, NEW r \in Request, LockUser(r) PROVE IInv'
<1> DEFINE next == points[tx[r].user] + tx[r].delta
           t == [tx[r] EXCEPT !.pc = "insert", !.next = next]
           x == <<"user", tx[r].user>>
<1>0. /\ tx[r] \in Tx /\ tx \in [Request -> Tx] /\ TxInv(r)
      /\ locks \in [Request -> SUBSET Resource] /\ points \in [User -> Nat]
  BY DEF IInv, TypeOK
<1>1. tx[r].pc = "lockUser" /\ ~tx[r].posted
  BY <1>0 DEF LockUser, At, TxInv, StagedIsHeld
<1>2. CASE Ended(r, "error") BY <1>2, EndStep DEF LockUser
<1>3. CASE ~Ended(r, "error")
  <2>1. /\ tx' = [tx EXCEPT ![r] = t] /\ locks' = [locks EXCEPT ![r] = @ \cup {x}]
        /\ Free(r, x) /\ UNCHANGED <<driver, clock, tables, snap>>
    BY <1>3 DEF LockUser
  <2>2. next \in Nat
    <3>1. ~(next < 0) BY <1>3 DEF LockUser
    <3>2. tx[r].user \in User /\ tx[r].delta \in Int BY <1>0 DEF Tx
    <3>3. next \in Int BY <1>0, <3>2
    <3> QED BY <3>1, <3>3
  <2>3. x \in Resource BY <1>0 DEF Tx, Resource
  <2>4. tx'[r] = t /\ points' = points /\ x \in locks'[r]
    BY <1>0, <2>1 DEF tables
  <2>5. t \in Tx BY <1>0, <2>2 DEF Tx
  <2>6. /\ t.pc = "insert" /\ t.kind = tx[r].kind /\ ~t.posted
        /\ t.key = tx[r].key /\ t.item = tx[r].item /\ t.user = tx[r].user
        /\ t.delta = tx[r].delta /\ t.biz = tx[r].biz /\ t.next = next
    BY <1>0, <1>1 DEF Tx
  <2> HIDE DEF t
  <2>7. RedeemLocals(r)' /\ NotifyLocals(r)' /\ AdjustLocals(r)'
    BY <1>1, <2>1, <2>5, <2>6, AdjustLocalsKept
  <2>8. StagedIsHeld(r)' BY <2>4, <2>6 DEF StagedIsHeld
  <2> QED BY <2>1, <2>3, <2>5, <2>7, <2>8, WriteStep
<1> QED BY <1>2, <1>3

LEMMA InsertLedgerStep == ASSUME IInv, NEW r \in Request, InsertLedger(r) PROVE IInv'
<1> DEFINE t == [tx[r] EXCEPT !.pc = AfterAdjust(r), !.posted = TRUE]
           x == <<"biz", tx[r].biz>>
<1>0. /\ tx[r] \in Tx /\ tx \in [Request -> Tx] /\ TxInv(r)
      /\ locks \in [Request -> SUBSET Resource]
  BY DEF IInv, TypeOK
<1>1. tx[r].pc = "insert" BY <1>0 DEF InsertLedger, At
<1>2. CASE Ended(r, "error") BY <1>2, EndStep DEF InsertLedger
<1>3. CASE ~Ended(r, "error")
  <2>1. /\ tx' = [tx EXCEPT ![r] = t] /\ locks' = [locks EXCEPT ![r] = @ \cup {x}]
        /\ Free(r, x) /\ UNCHANGED <<driver, clock, tables, snap>> /\ tx[r].biz \notin UsedBiz
    BY <1>3 DEF InsertLedger
  <2>2. tx[r].biz \in Biz
    <3>1. tx[r].kind = "redeem" => tx[r].biz \in Biz
      BY <1>0, <1>1 DEF TxInv, RedeemLocals, Adjusting, Biz
    <3>2. tx[r].kind = "notify" => tx[r].biz \in Biz
      BY <1>0, <1>1 DEF TxInv, NotifyLocals, Biz
    <3>3. tx[r].kind = "adjust" => tx[r].biz \in Biz
      BY <1>0, <1>1 DEF TxInv, AdjustLocals, Biz
    <3> QED BY <1>0, <3>1, <3>2, <3>3 DEF Tx
  <2>3. x \in Resource BY <2>2 DEF Resource
  <2>4. /\ tx'[r] = t /\ points' = points /\ UsedBiz' = UsedBiz
        /\ x \in locks'[r] /\ locks[r] \subseteq locks'[r]
    BY <1>0, <2>1 DEF tables, UsedBiz
  <2>5. AfterAdjust(r) \in {"updateCode", "commit"} BY DEF AfterAdjust
  <2>6. t \in Tx BY <1>0, <2>5 DEF Tx
  <2>7. /\ t.pc = AfterAdjust(r) /\ t.kind = tx[r].kind /\ t.posted
        /\ t.key = tx[r].key /\ t.item = tx[r].item /\ t.user = tx[r].user
        /\ t.delta = tx[r].delta /\ t.biz = tx[r].biz /\ t.next = tx[r].next
    BY <1>0, <1>1 DEF Tx
  <2> HIDE DEF t
  <2>8. RedeemLocals(r)' /\ NotifyLocals(r)' /\ AdjustLocals(r)'
    BY <1>1, <2>1, <2>6, <2>7, AdjustLocalsKept
  <2>9. StagedIsHeld(r)'
    BY <1>0, <1>1, <2>1, <2>4, <2>5, <2>7 DEF StagedIsHeld, TxInv
  <2> QED BY <2>1, <2>3, <2>6, <2>8, <2>9, WriteStep
<1> QED BY <1>2, <1>3

-----------------------------------------------------------------------------
(* Commits *)

Posting(r) == [delta |-> tx[r].delta, balance |-> tx[r].next, biz |-> tx[r].biz]

LEMMA BizTyped ==
  ASSUME IInv, NEW r \in Request, tx[r].pc = "commit"
  PROVE  tx[r].biz \in Biz /\ tx[r].delta \in Delta
<1>0. TxInv(r) /\ tx[r] \in Tx BY DEF IInv, TypeOK
<1>1. CASE tx[r].kind = "redeem" BY <1>0, <1>1 DEF TxInv, RedeemLocals, Adjusting, Biz
<1>2. CASE tx[r].kind = "notify" BY <1>0, <1>2 DEF TxInv, NotifyLocals, Biz
<1>3. CASE tx[r].kind = "adjust" BY <1>0, <1>3 DEF TxInv, AdjustLocals, Biz
<1> QED BY <1>0, <1>1, <1>2, <1>3 DEF Tx

(* The committed rows of a posting: one more row for its user, nothing else. *)
LEMMA PostedRows ==
  ASSUME IInv, NEW r \in Request, tx[r].pc = "commit", tx[r].posted, PublishAdjust(r)
  PROVE  /\ tx[r].user \in User
         /\ Posting(r) \in L!Entry
         /\ ledger' \in [User -> Seq(L!Entry)] /\ points' \in [User -> Nat]
         /\ \A u \in User \ {tx[r].user} : ledger'[u] = ledger[u] /\ points'[u] = points[u]
         /\ ledger'[tx[r].user] = Append(ledger[tx[r].user], Posting(r))
         /\ points'[tx[r].user] = tx[r].next
         /\ tx[r].next = points[tx[r].user] + tx[r].delta
<1>0. /\ tx[r] \in Tx /\ points \in [User -> Nat] /\ ledger \in [User -> Seq(L!Entry)]
      /\ StagedIsHeld(r)
  BY DEF IInv, TypeOK, TxInv
<1>1. tx[r].user \in User /\ tx[r].next \in Nat /\ tx[r].delta \in Int BY <1>0 DEF Tx
<1>2. Posting(r) \in L!Entry BY <1>1, BizTyped DEF Posting, L!Entry
<1>3. /\ points' = [points EXCEPT ![tx[r].user] = tx[r].next]
      /\ ledger' = [ledger EXCEPT ![tx[r].user] = Append(@, Posting(r))]
  BY DEF PublishAdjust, Posting
<1> HIDE DEF Posting
<1>4. Append(ledger[tx[r].user], Posting(r)) \in Seq(L!Entry) BY <1>0, <1>1, <1>2
<1>5. ledger' \in [User -> Seq(L!Entry)] /\ points' \in [User -> Nat]
  BY <1>0, <1>1, <1>3, <1>4
<1>6. tx[r].next = points[tx[r].user] + tx[r].delta BY <1>0 DEF StagedIsHeld
<1> QED BY <1>0, <1>1, <1>2, <1>3, <1>5, <1>6

(* Rows are never lost, and a commit uses up exactly its own number. *)
LEMMA RowsKept ==
  ASSUME IInv, NEW r \in Request, tx[r].pc = "commit", PublishAdjust(r)
  PROVE  /\ ledger' \in [User -> Seq(L!Entry)] /\ points' \in [User -> Nat]
         /\ \A u \in User : \A i \in DOMAIN ledger[u] :
              i \in DOMAIN ledger'[u] /\ ledger'[u][i] = ledger[u][i]
         /\ UsedBiz' = UsedBiz \cup {tx[r].biz}
<1>0. /\ points \in [User -> Nat] /\ ledger \in [User -> Seq(L!Entry)] /\ StagedIsHeld(r)
  BY DEF IInv, TypeOK, TxInv
<1>1. CASE ~tx[r].posted
  <2>1. points' = points /\ ledger' = ledger BY <1>1 DEF PublishAdjust
  <2>2. tx[r].biz \in UsedBiz BY <1>0, <1>1 DEF StagedIsHeld
  <2>3. UsedBiz' = UsedBiz BY <2>1 DEF UsedBiz
  <2> QED BY <1>0, <2>1, <2>2, <2>3
<1>2. CASE tx[r].posted
  <2> DEFINE v == tx[r].user
             n == Len(ledger[v])
  <2>1. /\ v \in User /\ Posting(r) \in L!Entry
        /\ ledger' \in [User -> Seq(L!Entry)] /\ points' \in [User -> Nat]
        /\ \A u \in User \ {v} : ledger'[u] = ledger[u]
        /\ ledger'[v] = Append(ledger[v], Posting(r))
    BY <1>2, PostedRows
  <2>2. /\ ledger[v] \in Seq(L!Entry) /\ n \in Nat /\ DOMAIN ledger[v] = 1..n
        /\ DOMAIN ledger'[v] = 1..(n + 1) /\ ledger'[v][n + 1] = Posting(r)
        /\ \A i \in 1..n : ledger'[v][i] = ledger[v][i]
    BY <1>0, <2>1
  <2>3. ASSUME NEW u \in User, NEW i \in DOMAIN ledger[u]
        PROVE  i \in DOMAIN ledger'[u] /\ ledger'[u][i] = ledger[u][i]
    <3>1. CASE u = v
      <4>1. i \in 1..n BY <2>2, <3>1
      <4>2. i \in 1..(n + 1) BY <2>2, <4>1
      <4> QED BY <2>2, <3>1, <4>1, <4>2
    <3>2. CASE u # v BY <2>1, <3>2
    <3> QED BY <3>1, <3>2
  <2>4. Posting(r).biz = tx[r].biz BY DEF Posting
  <2>5. ASSUME NEW b \in UsedBiz' PROVE b \in UsedBiz \cup {tx[r].biz}
    <3>1. PICK u \in User : \E i \in DOMAIN ledger'[u] : b = ledger'[u][i].biz
      BY DEF UsedBiz, L!BizOf
    <3>2. PICK i \in DOMAIN ledger'[u] : b = ledger'[u][i].biz BY <3>1
    <3>3. CASE u = v /\ i = n + 1 BY <2>2, <2>4, <3>2, <3>3
    <3>4. CASE ~(u = v /\ i = n + 1)
      <4>1. i \in DOMAIN ledger[u] /\ ledger'[u][i] = ledger[u][i]
        <5>1. CASE u = v
          <6>1. i \in 1..(n + 1) /\ i # n + 1 BY <2>2, <3>2, <3>4, <5>1
          <6>2. i \in 1..n BY <2>2, <6>1
          <6> QED BY <2>2, <5>1, <6>2
        <5>2. CASE u # v BY <2>1, <3>2, <5>2
        <5> QED BY <5>1, <5>2
      <4> QED BY <3>2, <4>1 DEF UsedBiz, L!BizOf
    <3> QED BY <3>3, <3>4
  <2>6. ASSUME NEW b \in UsedBiz PROVE b \in UsedBiz'
    <3>1. PICK u \in User : \E i \in DOMAIN ledger[u] : b = ledger[u][i].biz
      BY DEF UsedBiz, L!BizOf
    <3>2. PICK i \in DOMAIN ledger[u] : b = ledger[u][i].biz BY <3>1
    <3> QED BY <2>3, <3>2 DEF UsedBiz, L!BizOf
  <2>7. tx[r].biz \in UsedBiz'
    <3>1. ledger'[v][n + 1].biz = tx[r].biz BY <2>2, <2>4
    <3>2. n + 1 \in 1..(n + 1)
      <4>1. n \in Nat BY <2>2
      <4> HIDE DEF n
      <4> QED BY <4>1
    <3>3. n + 1 \in DOMAIN ledger'[v] BY <2>2, <3>2
    <3>4. tx[r].biz \in {ledger'[v][i].biz : i \in DOMAIN ledger'[v]} BY <3>1, <3>3
    <3>5. v \in User BY <2>1
    <3> HIDE DEF v, n
    <3> QED BY <3>4, <3>5 DEF UsedBiz, L!BizOf
  <2>8. UsedBiz' = UsedBiz \cup {tx[r].biz} BY <2>5, <2>6, <2>7
  <2> HIDE DEF n, v
  <2> QED BY <2>1, <2>3, <2>8
<1> QED BY <1>1, <1>2

LEMMA CommitExplains ==
  ASSUME IInv, NEW r \in Request, tx[r].pc = "commit", PublishAdjust(r)
  PROVE  LedgerExplainsPoints'
<1>1. CASE ~tx[r].posted
  <2>1. points' = points /\ ledger' = ledger BY <1>1 DEF PublishAdjust
  <2> QED BY <2>1 DEF IInv, LedgerExplainsPoints
<1>2. CASE tx[r].posted
  <2> SUFFICES ASSUME NEW u \in User
               PROVE  /\ \A i \in DOMAIN ledger'[u] :
                           ledger'[u][i].balance =
                             (IF i = 1 THEN 0 ELSE ledger'[u][i - 1].balance) + ledger'[u][i].delta
                      /\ points'[u] = IF Len(ledger'[u]) + 1 = 1 THEN 0
                                      ELSE ledger'[u][(Len(ledger'[u]) + 1) - 1].balance
    BY DEF LedgerExplainsPoints
  <2> DEFINE n == Len(ledger[u])
  <2>1. /\ tx[r].user \in User
        /\ ledger[u] \in Seq(L!Entry) /\ n \in Nat /\ DOMAIN ledger[u] = 1..n
        /\ points[u] \in Nat
    BY PostedRows, <1>2 DEF IInv, TypeOK
  <2>2. /\ \A i \in 1..n : ledger[u][i].balance =
                             (IF i = 1 THEN 0 ELSE ledger[u][i - 1].balance) + ledger[u][i].delta
        /\ points[u] = IF n + 1 = 1 THEN 0 ELSE ledger[u][(n + 1) - 1].balance
    BY <2>1 DEF IInv, LedgerExplainsPoints
  <2>3. CASE u # tx[r].user
    <3>1. ledger'[u] = ledger[u] /\ points'[u] = points[u] BY <1>2, <2>3, PostedRows
    <3> QED BY <2>1, <2>2, <3>1
  <2>4. CASE u = tx[r].user
    <3>1. /\ Posting(r) \in L!Entry /\ ledger'[u] = Append(ledger[u], Posting(r))
          /\ points'[u] = tx[r].next /\ tx[r].next = points[u] + tx[r].delta
      BY <1>2, <2>4, PostedRows
    <3>2. /\ Len(ledger'[u]) = n + 1 /\ DOMAIN ledger'[u] = 1..(n + 1)
          /\ \A i \in 1..n : ledger'[u][i] = ledger[u][i]
          /\ ledger'[u][n + 1] = Posting(r)
      BY <2>1, <3>1
    <3>3. Posting(r).delta = tx[r].delta /\ Posting(r).balance = tx[r].next BY DEF Posting
    <3>4. ASSUME NEW i \in 1..n
          PROVE  ledger'[u][i].balance =
                   (IF i = 1 THEN 0 ELSE ledger'[u][i - 1].balance) + ledger'[u][i].delta
      <4>1. CASE i = 1 BY <2>2, <3>2, <4>1
      <4>2. CASE i # 1
        <5>1. i - 1 \in 1..n BY <2>1, <4>2
        <5> QED BY <2>2, <3>2, <4>2, <5>1
      <4> QED BY <4>1, <4>2
    <3>5. ledger'[u][n + 1].balance =
            (IF n + 1 = 1 THEN 0 ELSE ledger'[u][(n + 1) - 1].balance) + ledger'[u][n + 1].delta
      <4>1. CASE n = 0 BY <2>2, <3>1, <3>2, <3>3, <4>1
      <4>2. CASE n # 0
        <5>1. (n + 1) - 1 = n /\ n \in 1..n BY <2>1, <4>2
        <5> QED BY <2>2, <3>1, <3>2, <3>3, <4>2, <5>1
      <4> QED BY <4>1, <4>2
    <3>6. points'[u] = ledger'[u][n + 1].balance BY <3>1, <3>2, <3>3
    <3>7. (Len(ledger'[u]) + 1) - 1 = n + 1 /\ Len(ledger'[u]) + 1 # 1 BY <2>1, <3>2
    <3>8. \A i \in 1..(n + 1) : i \in 1..n \/ i = n + 1 BY <2>1
    <3> HIDE DEF n
    <3> QED BY <3>2, <3>4, <3>5, <3>6, <3>7, <3>8
  <2> QED BY <2>3, <2>4
<1> QED BY <1>1, <1>2

LEMMA CommitOnce ==
  ASSUME IInv, NEW r \in Request, tx[r].pc = "commit", PublishAdjust(r)
  PROVE  BizNoPostedOnce'
<1>1. CASE ~tx[r].posted
  <2>1. ledger' = ledger BY <1>1 DEF PublishAdjust
  <2> QED BY <2>1 DEF IInv, BizNoPostedOnce
<1>2. CASE tx[r].posted
  <2> DEFINE w == tx[r].user
             n == Len(ledger[w])
             New(u, i) == u = w /\ i = n + 1
  <2>0. tx[r].biz \notin UsedBiz /\ ledger \in [User -> Seq(L!Entry)]
    BY <1>2 DEF IInv, TxInv, StagedIsHeld, TypeOK
  <2>1. /\ w \in User /\ Posting(r) \in L!Entry
        /\ \A u \in User \ {w} : ledger'[u] = ledger[u]
        /\ ledger'[w] = Append(ledger[w], Posting(r))
    BY <1>2, PostedRows
  <2>2. /\ n \in Nat /\ DOMAIN ledger[w] = 1..n /\ DOMAIN ledger'[w] = 1..(n + 1)
        /\ ledger'[w][n + 1].biz = tx[r].biz
        /\ \A i \in 1..n : ledger'[w][i] = ledger[w][i]
    BY <2>0, <2>1 DEF Posting
  <2>3. ASSUME NEW u \in User, NEW i \in DOMAIN ledger'[u], ~New(u, i)
        PROVE  /\ i \in DOMAIN ledger[u] /\ ledger'[u][i] = ledger[u][i]
               /\ ledger'[u][i].biz \in UsedBiz
    <3>1. i \in DOMAIN ledger[u] /\ ledger'[u][i] = ledger[u][i]
      <4>1. CASE u = w
        <5>1. i \in 1..(n + 1) /\ i # n + 1 BY <2>2, <2>3, <4>1
        <5>2. i \in 1..n BY <2>2, <5>1
        <5> QED BY <2>2, <4>1, <5>2
      <4>2. CASE u # w BY <2>1, <2>3, <4>2
      <4> QED BY <4>1, <4>2
    <3> QED BY <3>1 DEF UsedBiz, L!BizOf
  <2>4. ASSUME NEW u \in User, NEW i \in DOMAIN ledger'[u], New(u, i)
        PROVE  ledger'[u][i].biz \notin UsedBiz
    BY <2>0, <2>2, <2>4
  <2> HIDE DEF New
  <2>5. ASSUME NEW u \in User, NEW v \in User, NEW i \in DOMAIN ledger'[u],
               NEW j \in DOMAIN ledger'[v], ledger'[u][i].biz = ledger'[v][j].biz
        PROVE  u = v /\ i = j
    <3>1. CASE New(u, i) /\ New(v, j) BY <3>1 DEF New
    <3>2. CASE ~New(u, i) /\ ~New(v, j)
      <4>1. /\ i \in DOMAIN ledger[u] /\ ledger'[u][i] = ledger[u][i]
            /\ j \in DOMAIN ledger[v] /\ ledger'[v][j] = ledger[v][j]
        BY <2>3, <3>2
      <4> QED BY <2>5, <4>1 DEF IInv, BizNoPostedOnce
    <3>3. CASE New(u, i) /\ ~New(v, j) BY <2>3, <2>4, <2>5, <3>3
    <3>4. CASE ~New(u, i) /\ New(v, j) BY <2>3, <2>4, <2>5, <3>4
    <3> QED BY <3>1, <3>2, <3>3, <3>4
  <2> QED BY <2>5 DEF BizNoPostedOnce
<1> QED BY <1>1, <1>2

(* What another request has staged stays protected over a commit of r. *)
LEMMA CommitOthers ==
  ASSUME IInv, NEW r \in Request, tx[r].pc = "commit", PublishAdjust(r), Ended(r, "ok"),
         NEW s \in Request, s # r
  PROVE  StagedIsHeld(s)' /\ SnapIsPast(s)'
<1>0. /\ tx'[s] = tx[s] /\ locks'[s] = locks[s] /\ snap'[s] = snap[s]
      /\ StagedIsHeld(s) /\ SnapIsPast(s) /\ StagedIsHeld(r)
      /\ locks[r] \cap locks[s] = {} /\ tx[s] \in Tx
  BY DEF Ended, IInv, TypeOK, TxInv, HeldOnce
<1>1. UsedBiz' = UsedBiz \cup {tx[r].biz} BY RowsKept
<1>2. SnapIsPast(s)' BY <1>0, <1>1 DEF SnapIsPast
<1>3. CASE ~tx[r].posted
  <2>1. points' = points BY <1>3 DEF PublishAdjust
  <2>2. UsedBiz' = UsedBiz BY <1>0, <1>1, <1>3 DEF StagedIsHeld
  <2> QED BY <1>0, <1>2, <2>1, <2>2 DEF StagedIsHeld
<1>4. CASE tx[r].posted
  <2>1. <<"user", tx[r].user>> \in locks[r] /\ <<"biz", tx[r].biz>> \in locks[r]
    BY <1>0, <1>4 DEF StagedIsHeld
  <2>2. <<"user", tx[r].user>> \notin locks[s] /\ <<"biz", tx[r].biz>> \notin locks[s]
    BY <1>0, <2>1
  <2>3. \A u \in User : u # tx[r].user => points'[u] = points[u] BY <1>4, PostedRows
  <2>4. tx[s].user \in User BY <1>0 DEF Tx
  <2>5. tx[s].pc = "insert" \/ tx[s].posted => points'[tx[s].user] = points[tx[s].user]
    BY <1>0, <2>2, <2>3, <2>4 DEF StagedIsHeld
  <2>6. tx[s].posted => tx[s].biz # tx[r].biz
    BY <1>0, <2>2 DEF StagedIsHeld
  <2> QED BY <1>0, <1>1, <1>2, <2>5, <2>6 DEF StagedIsHeld
<1> QED BY <1>3, <1>4

(* A commit keeps the invariant when it loses no code and no order and when *)
(* payments stay paired with credits.                                      *)
LEMMA CommitStep ==
  ASSUME IInv, NEW r \in Request, tx[r].pc = "commit", PublishAdjust(r), Ended(r, "ok"),
         UNCHANGED <<driver, clock>>, version' = version + 1,
         codes' \in [Code -> CodeRow \cup {NoRow}], uses' \in [Code -> Seq(User)],
         orders' \in [Order -> OrderRow \cup {NoRow}],
         \A c \in Code : codes[c] \in CodeRow => codes'[c] \in CodeRow,
         \A o \in Order : orders[o] \in OrderRow =>
            /\ orders'[o] \in OrderRow
            /\ orders'[o].user = orders[o].user /\ orders'[o].points = orders[o].points,
         PaidIffCredited'
  PROVE  IInv'
<1>0. /\ TypeOK /\ tx \in [Request -> Tx] /\ locks \in [Request -> SUBSET Resource]
      /\ snap \in [Request -> SnapType \cup {NoRow}]
  BY DEF IInv, TypeOK
<1>1. EndOf(r, "ok") \in Tx
  <2>1. tx[r] \in Tx BY <1>0
  <2> QED BY <2>1 DEF EndOf, Tx
<1>2. /\ tx' = [tx EXCEPT ![r] = EndOf(r, "ok")]
      /\ locks' = [locks EXCEPT ![r] = {}] /\ snap' = [snap EXCEPT ![r] = NoRow]
  BY DEF Ended, EndOf
<1>3. /\ tx'[r].pc = "done" /\ tx'[r].posted = FALSE /\ snap'[r] = NoRow
  BY <1>0, <1>2 DEF EndOf, Tx
<1>4. TypeOK'
  <2>1. /\ tx' \in [Request -> Tx] /\ locks' \in [Request -> SUBSET Resource]
        /\ snap' \in [Request -> SnapType \cup {NoRow}]
    BY <1>0, <1>1, <1>2
  <2>2. ledger' \in [User -> Seq(L!Entry)] /\ points' \in [User -> Nat] BY RowsKept
  <2>3. driver' \in Drivers /\ clock' \in 0..MaxClock /\ version' \in Nat BY <1>0 DEF TypeOK
  <2> QED BY <2>1, <2>2, <2>3 DEF TypeOK
<1>5. TxInv(r)'
  BY <1>3 DEF TxInv, RedeemLocals, NotifyLocals, AdjustLocals, StagedIsHeld, SnapIsPast
<1>6. ASSUME NEW s \in Request, s # r PROVE TxInv(s)'
  <2>1. tx'[s] = tx[s] /\ TxInv(s) BY <1>0, <1>2, <1>6 DEF IInv
  <2>2. RedeemLocals(s)' BY <2>1 DEF TxInv, RedeemLocals
  <2>3. NotifyLocals(s)' BY <2>1 DEF TxInv, NotifyLocals
  <2>4. AdjustLocals(s)' BY <2>1 DEF TxInv, AdjustLocals
  <2> QED BY <1>6, <2>2, <2>3, <2>4, CommitOthers DEF TxInv
<1>7. HeldOnce' BY <1>0, <1>2 DEF IInv, HeldOnce
<1> QED BY <1>4, <1>5, <1>6, <1>7, CommitExplains, CommitOnce DEF IInv

(* A commit that touches no order and whose number is no payment's. *)
LEMMA OtherCommitKeepsPaid ==
  ASSUME IInv, NEW r \in Request, tx[r].pc = "commit", PublishAdjust(r),
         UNCHANGED orders, \A o \in Order : tx[r].biz # PayBiz(o)
  PROVE  PaidIffCredited'
<1>1. /\ UsedBiz' = UsedBiz \cup {tx[r].biz}
      /\ \A u \in User : \A i \in DOMAIN ledger[u] :
           i \in DOMAIN ledger'[u] /\ ledger'[u][i] = ledger[u][i]
  BY RowsKept
<1>2. orders \in [Order -> OrderRow \cup {NoRow}] /\ PaidIffCredited BY DEF IInv, TypeOK
<1>3. ASSUME NEW o \in Order, orders[o] # NoRow PROVE orders[o].user \in User
  BY <1>2, <1>3 DEF OrderRow
<1> QED BY <1>1, <1>2, <1>3 DEF PaidIffCredited

LEMMA CommitRedeemStep == ASSUME IInv, NEW r \in Request, CommitRedeem(r) PROVE IInv'
<1>0. /\ tx[r] \in Tx /\ TxInv(r) /\ codes \in [Code -> CodeRow \cup {NoRow}]
      /\ uses \in [Code -> Seq(User)] /\ orders \in [Order -> OrderRow \cup {NoRow}]
  BY DEF IInv, TypeOK
<1>1. tx[r].pc = "commit" /\ tx[r].kind = "redeem" BY DEF CommitRedeem, At
<1>2. /\ tx[r].key \in Code /\ tx[r].item \in CodeRow /\ codes[tx[r].key] \in CodeRow
      /\ \E t \in 0..MaxClock : tx[r].biz = RedeemBiz(tx[r].key, t)
  BY <1>0, <1>1 DEF TxInv, RedeemLocals, Adjusting
<1>3. /\ PublishAdjust(r) /\ Ended(r, "ok") /\ UNCHANGED <<driver, clock>> /\ orders' = orders
      /\ version' = version + 1
      /\ codes' = [codes EXCEPT ![tx[r].key].used = tx[r].item.used + 1]
      /\ uses' = [uses EXCEPT ![tx[r].key] = Append(@, tx[r].user)]
  BY DEF CommitRedeem
<1>4. codes' \in [Code -> CodeRow \cup {NoRow}] /\ codes'[tx[r].key] \in CodeRow
  <2>1. tx[r].item.used + 1 \in Nat BY <1>2 DEF CodeRow
  <2>2. [codes[tx[r].key] EXCEPT !.used = tx[r].item.used + 1] \in CodeRow
    BY <1>2, <2>1 DEF CodeRow
  <2> QED BY <1>0, <1>2, <1>3, <2>2
<1>5. uses' \in [Code -> Seq(User)]
  <2>1. tx[r].user \in User BY <1>0 DEF Tx
  <2>2. Append(uses[tx[r].key], tx[r].user) \in Seq(User) BY <1>0, <1>2, <2>1
  <2> QED BY <1>0, <1>2, <1>3, <2>2
<1>6. \A o \in Order : tx[r].biz # PayBiz(o) BY <1>2 DEF RedeemBiz, PayBiz
<1>7. PaidIffCredited' BY <1>1, <1>3, <1>6, OtherCommitKeepsPaid
<1>8. \A c \in Code : codes[c] \in CodeRow => codes'[c] \in CodeRow
  BY <1>0, <1>2, <1>3, <1>4
<1>9. \A o \in Order : orders[o] \in OrderRow =>
            /\ orders'[o] \in OrderRow
            /\ orders'[o].user = orders[o].user /\ orders'[o].points = orders[o].points
  BY <1>3
<1> QED BY <1>0, <1>1, <1>3, <1>4, <1>5, <1>7, <1>8, <1>9, CommitStep

LEMMA CommitAdjustStep == ASSUME IInv, NEW r \in Request, CommitAdjust(r) PROVE IInv'
<1>0. /\ tx[r] \in Tx /\ TxInv(r) /\ codes \in [Code -> CodeRow \cup {NoRow}]
      /\ uses \in [Code -> Seq(User)] /\ orders \in [Order -> OrderRow \cup {NoRow}]
  BY DEF IInv, TypeOK
<1>1. tx[r].pc = "commit" /\ tx[r].kind = "adjust" BY DEF CommitAdjust, At
<1>2. tx[r].biz = Uuid(r) BY <1>0, <1>1 DEF TxInv, AdjustLocals
<1>3. /\ PublishAdjust(r) /\ Ended(r, "ok") /\ UNCHANGED <<driver, clock>>
      /\ version' = version + 1 /\ codes' = codes /\ uses' = uses /\ orders' = orders
  BY DEF CommitAdjust
<1>4. \A o \in Order : tx[r].biz # PayBiz(o) BY <1>2 DEF Uuid, PayBiz
<1>5. PaidIffCredited' BY <1>1, <1>3, <1>4, OtherCommitKeepsPaid
<1> QED BY <1>0, <1>1, <1>3, <1>5, CommitStep

LEMMA CommitNotifyStep == ASSUME IInv, NEW r \in Request, CommitNotify(r) PROVE IInv'
<1> DEFINE k == tx[r].key
           row == [tx[r].item EXCEPT !.status = "paid"]
<1>0. /\ tx[r] \in Tx /\ TxInv(r) /\ codes \in [Code -> CodeRow \cup {NoRow}]
      /\ uses \in [Code -> Seq(User)] /\ orders \in [Order -> OrderRow \cup {NoRow}]
      /\ ledger \in [User -> Seq(L!Entry)]
  BY DEF IInv, TypeOK
<1>1. tx[r].pc = "commit" /\ tx[r].kind = "notify" BY DEF CommitNotify, At
<1>2. /\ k \in Order /\ tx[r].item \in OrderRow /\ orders[k] \in OrderRow
      /\ orders[k].user = tx[r].item.user /\ orders[k].points = tx[r].item.points
      /\ tx[r].user = tx[r].item.user /\ tx[r].delta = tx[r].item.points
      /\ tx[r].biz = PayBiz(k)
  BY <1>0, <1>1 DEF TxInv, NotifyLocals
<1>3. /\ PublishAdjust(r) /\ Ended(r, "ok") /\ UNCHANGED <<driver, clock>>
      /\ version' = version + 1 /\ codes' = codes /\ uses' = uses
      /\ orders' = [orders EXCEPT ![k] = row]
  BY DEF CommitNotify
<1>4. /\ row \in OrderRow /\ row.status = "paid" /\ row.user = tx[r].item.user
      /\ row.points = tx[r].item.points /\ row # NoRow
  BY <1>2, NoRowAssumption DEF OrderRow
<1>5. /\ orders' \in [Order -> OrderRow \cup {NoRow}] /\ orders'[k] = row
      /\ \A o \in Order : o # k => orders'[o] = orders[o]
  BY <1>0, <1>2, <1>3, <1>4
<1> HIDE DEF row, k
<1>6. /\ UsedBiz' = UsedBiz \cup {tx[r].biz}
      /\ \A u \in User : \A i \in DOMAIN ledger[u] :
           i \in DOMAIN ledger'[u] /\ ledger'[u][i] = ledger[u][i]
  BY <1>1, <1>3, RowsKept
<1>7. \E i \in DOMAIN ledger'[row.user] :
         ledger'[row.user][i].biz = PayBiz(k) /\ ledger'[row.user][i].delta = row.points
  <2>1. CASE tx[r].posted
    <3>1. /\ tx[r].user \in User /\ Posting(r) \in L!Entry
          /\ ledger'[tx[r].user] = Append(ledger[tx[r].user], Posting(r))
      BY <1>1, <1>3, <2>1, PostedRows
    <3>2. /\ Len(ledger[tx[r].user]) + 1 \in DOMAIN ledger'[tx[r].user]
          /\ ledger'[tx[r].user][Len(ledger[tx[r].user]) + 1] = Posting(r)
      BY <1>0, <3>1
    <3>3. Posting(r).biz = PayBiz(k) /\ Posting(r).delta = row.points
      BY <1>2, <1>4 DEF Posting
    <3> QED BY <1>2, <1>4, <3>2, <3>3
  <2>2. CASE ~tx[r].posted
    <3>1. PayBiz(k) \in UsedBiz BY <1>0, <1>1, <1>2, <2>2 DEF TxInv, StagedIsHeld
    <3>2. PaidIffCredited BY DEF IInv
    <3>3. \E i \in DOMAIN ledger[orders[k].user] :
             /\ ledger[orders[k].user][i].biz = PayBiz(k)
             /\ ledger[orders[k].user][i].delta = orders[k].points
      BY <1>2, <3>1, <3>2 DEF PaidIffCredited
    <3>4. orders[k].user \in User BY <1>2 DEF OrderRow
    <3> QED BY <1>2, <1>4, <1>6, <3>3, <3>4
  <2> QED BY <2>1, <2>2
<1>8. PaidIffCredited'
  <2>1. PaidIffCredited BY DEF IInv
  <2>2. ASSUME NEW o \in Order, o # k PROVE PayBiz(o) # PayBiz(k) BY <2>2 DEF PayBiz
  <2>3. ASSUME NEW o \in Order, o # k
        PROVE IF orders'[o] # NoRow /\ orders'[o].status = "paid"
              THEN \E i \in DOMAIN ledger'[orders'[o].user] :
                      /\ ledger'[orders'[o].user][i].biz = PayBiz(o)
                      /\ ledger'[orders'[o].user][i].delta = orders'[o].points
              ELSE PayBiz(o) \notin UsedBiz'
    <3>1. orders[o] # NoRow => orders[o].user \in User BY <1>0 DEF OrderRow
    <3>2. orders'[o] = orders[o] /\ PayBiz(o) # tx[r].biz BY <1>2, <1>5, <2>2, <2>3
    <3> QED BY <1>6, <2>1, <3>1, <3>2 DEF PaidIffCredited
  <2> QED BY <1>4, <1>5, <1>7, <2>3 DEF PaidIffCredited
<1>9. \A o \in Order : orders[o] \in OrderRow =>
            /\ orders'[o] \in OrderRow
            /\ orders'[o].user = orders[o].user /\ orders'[o].points = orders[o].points
  BY <1>2, <1>4, <1>5
<1> QED BY <1>0, <1>1, <1>3, <1>5, <1>8, <1>9, CommitStep

-----------------------------------------------------------------------------
(* The other actions *)

(* A step that leaves points, ledger and every request alone. *)
LEMMA OutsideStep ==
  ASSUME IInv, UNCHANGED <<driver, points, ledger, uses, tx, locks, snap>>,
         clock' \in 0..MaxClock, version' \in Nat,
         codes' \in [Code -> CodeRow \cup {NoRow}],
         orders' \in [Order -> OrderRow \cup {NoRow}],
         \A c \in Code : codes[c] \in CodeRow => codes'[c] = codes[c],
         \A o \in Order : \/ orders'[o] = orders[o]
                          \/ orders[o] = NoRow /\ orders'[o].status = "pending"
  PROVE  IInv'
<1>1. UsedBiz' = UsedBiz BY DEF UsedBiz
<1>2. TypeOK' BY DEF IInv, TypeOK
<1>3. \A o \in Order : orders[o] \in OrderRow => orders'[o] = orders[o] BY NoRowAssumption
<1>4. ASSUME NEW s \in Request PROVE TxInv(s)'
  <2>1. TxInv(s) BY DEF IInv
  <2> QED BY <1>1, <1>3, <2>1 DEF TxInv, RedeemLocals, NotifyLocals, AdjustLocals,
             StagedIsHeld, SnapIsPast
<1>5. HeldOnce' /\ LedgerExplainsPoints' /\ BizNoPostedOnce'
  BY DEF IInv, HeldOnce, LedgerExplainsPoints, BizNoPostedOnce
<1>6. PaidIffCredited' BY <1>1 DEF IInv, PaidIffCredited
<1> QED BY <1>2, <1>4, <1>5, <1>6 DEF IInv

LEMMA CreateCodeStep ==
  ASSUME IInv, NEW c \in Code, NEW p \in CodePoints, NEW m \in MaxUsesInput,
         NEW e \in 0..MaxClock, CreateCode(c, p, m, e)
  PROVE  IInv'
<1> DEFINE row == [points |-> p, max |-> IF m <= 0 THEN 1 ELSE m, used |-> 0, expires |-> e]
<1>1. row \in CodeRow BY BillingAssumption DEF CodeRow, CreateCode
<1>2. /\ codes[c] = NoRow /\ codes' = [codes EXCEPT ![c] = row] /\ version' = version + 1
      /\ orders' = orders /\ clock' = clock
      /\ UNCHANGED <<driver, points, ledger, uses, tx, locks, snap>>
  BY DEF CreateCode
<1> HIDE DEF row
<1>3. codes' \in [Code -> CodeRow \cup {NoRow}] BY <1>1, <1>2 DEF IInv, TypeOK
<1>4. \A d \in Code : codes[d] \in CodeRow => codes'[d] = codes[d]
  BY <1>2, NoRowAssumption DEF IInv, TypeOK
<1>5. orders' \in [Order -> OrderRow \cup {NoRow}] /\ clock' \in 0..MaxClock /\ version' \in Nat
  BY <1>2 DEF IInv, TypeOK
<1> QED BY <1>2, <1>3, <1>4, <1>5, OutsideStep

LEMMA CreateOrderStep ==
  ASSUME IInv, NEW o \in Order, NEW u \in User, NEW p \in OrderPoints, CreateOrder(o, u, p)
  PROVE  IInv'
<1> DEFINE row == [user |-> u, points |-> p, status |-> "pending"]
<1>1. row \in OrderRow /\ row.status = "pending" BY DEF OrderRow
<1>2. /\ orders[o] = NoRow /\ orders' = [orders EXCEPT ![o] = row] /\ version' = version + 1
      /\ codes' = codes /\ clock' = clock
      /\ UNCHANGED <<driver, points, ledger, uses, tx, locks, snap>>
  BY DEF CreateOrder
<1> HIDE DEF row
<1>3. orders' \in [Order -> OrderRow \cup {NoRow}] BY <1>1, <1>2 DEF IInv, TypeOK
<1>4. \A q \in Order : \/ orders'[q] = orders[q]
                       \/ orders[q] = NoRow /\ orders'[q].status = "pending"
  BY <1>1, <1>2 DEF IInv, TypeOK
<1>5. codes' \in [Code -> CodeRow \cup {NoRow}] /\ clock' \in 0..MaxClock /\ version' \in Nat
  BY <1>2 DEF IInv, TypeOK
<1> QED BY <1>2, <1>3, <1>4, <1>5, OutsideStep

LEMMA TickStep == ASSUME IInv, Tick PROVE IInv'
<1>1. clock' \in 0..MaxClock BY BillingAssumption DEF Tick, IInv, TypeOK
<1>2. /\ UNCHANGED <<driver, points, ledger, uses, tx, locks, snap>>
      /\ codes' = codes /\ orders' = orders /\ version' = version
  BY DEF Tick, tables
<1>3. /\ codes' \in [Code -> CodeRow \cup {NoRow}] /\ version' \in Nat
      /\ orders' \in [Order -> OrderRow \cup {NoRow}]
  BY <1>2 DEF IInv, TypeOK
<1> QED BY <1>1, <1>2, <1>3, OutsideStep

LEMMA StutterStep == ASSUME IInv, UNCHANGED vars PROVE IInv'
<1>1. /\ UNCHANGED <<driver, points, ledger, uses, tx, locks, snap>>
      /\ codes' = codes /\ orders' = orders /\ version' = version /\ clock' = clock
  BY DEF vars, tables
<1>2. /\ codes' \in [Code -> CodeRow \cup {NoRow}] /\ version' \in Nat
      /\ orders' \in [Order -> OrderRow \cup {NoRow}] /\ clock' \in 0..MaxClock
  BY <1>1 DEF IInv, TypeOK
<1> QED BY <1>1, <1>2, OutsideStep

LEMMA InitIInv == Init => IInv
<1> SUFFICES ASSUME Init PROVE IInv OBVIOUS
<1>1. TypeOK
  <2>1. 0 \in 0..MaxClock BY BillingAssumption
  <2> QED BY <2>1, IdleTyped DEF Init, TypeOK
<1>2. UsedBiz = {} BY DEF Init, UsedBiz, L!BizOf
<1>3. \A r \in Request : TxInv(r)
  BY DEF Init, Idle, TxInv, RedeemLocals, NotifyLocals, AdjustLocals, StagedIsHeld, SnapIsPast
<1>4. HeldOnce BY DEF Init, HeldOnce
<1>5. LedgerExplainsPoints BY DEF Init, LedgerExplainsPoints
<1>6. BizNoPostedOnce BY DEF Init, BizNoPostedOnce
<1>7. PaidIffCredited BY <1>2 DEF Init, PaidIffCredited
<1> QED BY <1>1, <1>3, <1>4, <1>5, <1>6, <1>7 DEF IInv

LEMMA NextIInv == IInv /\ [Next]_vars => IInv'
<1> SUFFICES ASSUME IInv, [Next]_vars PROVE IInv' OBVIOUS
<1>1. ASSUME NEW r \in Request, Arrives(r) PROVE IInv' BY <1>1, ArrivalStep
<1>2. ASSUME NEW r \in Request, Step(r) PROVE IInv'
  <2>1. CASE ReadCode(r) BY <2>1, ReadCodeStep
  <2>2. CASE CountUses(r) BY <2>2, CountUsesStep
  <2>3. CASE UpdateCode(r) BY <2>3, UpdateCodeStep
  <2>4. CASE ReadOrder(r) BY <2>4, ReadOrderStep
  <2>5. CASE SaveOrder(r) BY <2>5, SaveOrderStep
  <2>6. CASE FindBiz(r) BY <2>6, FindBizStep
  <2>7. CASE LockUser(r) BY <2>7, LockUserStep
  <2>8. CASE InsertLedger(r) BY <2>8, InsertLedgerStep
  <2>9. CASE CommitRedeem(r) BY <2>9, CommitRedeemStep
  <2>10. CASE CommitNotify(r) BY <2>10, CommitNotifyStep
  <2>11. CASE CommitAdjust(r) BY <2>11, CommitAdjustStep
  <2>12. CASE Busy(r) BY <2>12, EndStep DEF Busy
  <2> QED BY <1>2, <2>1, <2>2, <2>3, <2>4, <2>5, <2>6, <2>7, <2>8, <2>9, <2>10, <2>11, <2>12
         DEF Step
<1>3. ASSUME NEW r \in Request, Fail(r) PROVE IInv' BY <1>3, EndStep DEF Fail
<1>4. ASSUME NEW c \in Code, NEW p \in CodePoints, NEW m \in MaxUsesInput,
             NEW e \in 0..MaxClock, CreateCode(c, p, m, e)
      PROVE  IInv'
  BY <1>4, CreateCodeStep
<1>5. ASSUME NEW o \in Order, NEW u \in User, NEW p \in OrderPoints, CreateOrder(o, u, p)
      PROVE  IInv'
  BY <1>5, CreateOrderStep
<1>6. CASE Tick BY <1>6, TickStep
<1>7. CASE UNCHANGED vars BY <1>7, StutterStep
<1> QED BY <1>1, <1>2, <1>3, <1>4, <1>5, <1>6, <1>7 DEF Next

-----------------------------------------------------------------------------
(* The invariant of the billing transactions holds on every database.      *)
THEOREM BillingInvariant == Spec => []IInv
BY InitIInv, NextIInv, PTL DEF Spec

(* Every variable keeps its type; no balance is negative                   *)
(* (points/service.go:43).                                                 *)
THEOREM BillingTypeOK == Spec => []TypeOK
<1>1. IInv => TypeOK BY DEF IInv
<1> QED BY <1>1, BillingInvariant, PTL

(* The ledger rows of a user chain up to the user's points, however many   *)
(* adjustments of that user overlap (points/service.go:38-60).             *)
THEOREM LedgerExplains == Spec => []LedgerExplainsPoints
<1>1. IInv => LedgerExplainsPoints BY DEF IInv
<1> QED BY <1>1, BillingInvariant, PTL

(* No business number is posted twice (the unique index on biz_no,         *)
(* models/models.go:95, is what the unlocked lookup leaves to rely on).    *)
THEOREM BizNoOnce == Spec => []BizNoPostedOnce
<1>1. IInv => BizNoPostedOnce BY DEF IInv
<1> QED BY <1>1, BillingInvariant, PTL

(* An order is paid exactly when its points are on its user's ledger, for  *)
(* any number of duplicated and overlapping notifications                  *)
(* (alipay/service.go:154).                                                *)
THEOREM PaymentsAreCredited == Spec => []PaidIffCredited
<1>1. IInv => PaidIffCredited BY DEF IInv
<1> QED BY <1>1, BillingInvariant, PTL

-----------------------------------------------------------------------------
(* Refinement *)

(* A commit is one posting of Ledger, or a stutter when Adjust found its    *)
(* number already posted.                                                  *)
LEMMA CommitPosts ==
  ASSUME IInv, NEW r \in Request, tx[r].pc = "commit", PublishAdjust(r)
  PROVE  [L!LedgerNext]_(L!ledgerVars)
<1>1. CASE ~tx[r].posted BY <1>1 DEF PublishAdjust, L!ledgerVars
<1>2. CASE tx[r].posted
  <2> DEFINE u == tx[r].user
             d == tx[r].delta
             b == tx[r].biz
  <2>1. /\ u \in User /\ tx[r].next = points[u] + d /\ tx[r].next \in Nat
        /\ d \in Delta /\ b \in Biz
    BY <1>2, PostedRows, BizTyped DEF IInv, TypeOK, Tx
  <2>2. b \notin L!BizOf(ledger) BY <1>2 DEF IInv, TxInv, StagedIsHeld, UsedBiz
  <2>3. /\ points' = [points EXCEPT ![u] = @ + d]
        /\ ledger' = [ledger EXCEPT ![u] =
                        Append(@, [delta |-> d, balance |-> points[u] + d, biz |-> b])]
    BY <1>2, <2>1 DEF PublishAdjust, IInv, TypeOK
  <2>4. points[u] + d >= 0 BY <2>1
  <2>5. L!Post(u, d, b) BY <2>2, <2>3, <2>4 DEF L!Post
  <2> QED BY <2>1, <2>5 DEF L!LedgerNext
<1> QED BY <1>1, <1>2

LEMMA NextPosts == IInv /\ [Next]_vars => [L!LedgerNext]_(L!ledgerVars)
<1> SUFFICES ASSUME IInv, [Next]_vars PROVE [L!LedgerNext]_(L!ledgerVars) OBVIOUS
<1> USE DEF L!ledgerVars
<1>1. ASSUME NEW r \in Request, Arrives(r) PROVE points' = points /\ ledger' = ledger
  BY <1>1 DEF Arrives, RedeemRequest, PaymentNotify, OtherNotify, AdminAdjust, Charge, Starts,
     tables
<1>2. ASSUME NEW r \in Request, Step(r) PROVE [L!LedgerNext]_(L!ledgerVars)
  <2>1. CASE ReadCode(r) \/ CountUses(r) \/ UpdateCode(r) \/ ReadOrder(r) \/ SaveOrder(r)
    BY <2>1 DEF ReadCode, CountUses, UpdateCode, ReadOrder, SaveOrder, tables
  <2>2. CASE FindBiz(r) \/ LockUser(r) \/ InsertLedger(r) \/ Busy(r)
    BY <2>2 DEF FindBiz, LockUser, InsertLedger, Busy, tables
  <2>3. CASE CommitRedeem(r) BY <2>3, CommitPosts DEF CommitRedeem, At
  <2>4. CASE CommitNotify(r) BY <2>4, CommitPosts DEF CommitNotify, At
  <2>5. CASE CommitAdjust(r) BY <2>5, CommitPosts DEF CommitAdjust, At
  <2> QED BY <1>2, <2>1, <2>2, <2>3, <2>4, <2>5 DEF Step
<1>3. ASSUME NEW r \in Request, Fail(r) PROVE points' = points /\ ledger' = ledger
  BY <1>3 DEF Fail, tables
<1>4. ASSUME NEW c \in Code, NEW p \in CodePoints, NEW m \in MaxUsesInput,
             NEW e \in 0..MaxClock, CreateCode(c, p, m, e)
      PROVE  points' = points /\ ledger' = ledger
  BY <1>4 DEF CreateCode
<1>5. ASSUME NEW o \in Order, NEW u \in User, NEW p \in OrderPoints, CreateOrder(o, u, p)
      PROVE  points' = points /\ ledger' = ledger
  BY <1>5 DEF CreateOrder
<1>6. CASE Tick BY <1>6 DEF Tick, tables
<1>7. CASE UNCHANGED vars BY <1>7 DEF vars, tables
<1> QED BY <1>1, <1>2, <1>3, <1>4, <1>5, <1>6, <1>7 DEF Next

(* Whatever the database and however requests overlap, points move only by *)
(* the postings of Ledger.                                                 *)
THEOREM BillingImplementsLedger == Spec => ImplementsLedger
<1>1. Init => L!LedgerInit BY DEF Init, L!LedgerInit
<1> QED BY <1>1, NextPosts, BillingInvariant, PTL DEF Spec, ImplementsLedger, L!LedgerSpec
-----------------------------------------------------------------------------
(* Redeem codes.  What follows is proved on top of IInv: a redemption commits *)
(* what it read before it locked anything, and only SQLite makes sure that it *)
(* is still so.                                                               *)

Redeeming(r) == tx[r].kind = "redeem" /\ tx[r].pc \in {"countUses"} \cup Adjusting

(* A redemption has read a row with a use left; counted uses are recorded. *)
ClaimInv(r) ==
    Redeeming(r) =>
      /\ tx[r].item.max = codes[tx[r].key].max
      /\ tx[r].item.used < tx[r].item.max
      /\ tx[r].item.used <= Len(uses[tx[r].key])

(* On SQLite what it has read is still so while its snapshot is the latest, *)
(* and from its first write on, whatever else is inserted meanwhile.        *)
ExactInv(r) ==
    driver = "sqlite" /\ Redeeming(r) =>
      /\ snap[r] # NoRow
      /\ locks[r] # {} \/ snap[r].version = version =>
           /\ codes[tx[r].key].used = tx[r].item.used
           /\ uses[tx[r].key] = snap[r].uses[tx[r].key]
      /\ tx[r].pc \in Adjusting => tx[r].user \notin Range(snap[r].uses[tx[r].key])
      /\ tx[r].pc = "commit" => locks[r] # {}

(* A snapshot is taken by the first read and is never ahead of the tables. *)
SnapInv(r) ==
    /\ tx[r].pc \in {"idle", "readCode"} => snap[r] = NoRow
    /\ snap[r] # NoRow => snap[r].version <= version

OneWriter ==
    driver = "sqlite" => \A r, s \in Request : r # s => locks[r] = {} \/ locks[s] = {}

(* The credits of a code on the ledger. *)
PaidBy(c) == {b \in UsedBiz : b[1] = "redeem" /\ b[2] = c}

RedeemInv ==
    /\ \A r \in Request : ClaimInv(r) /\ ExactInv(r) /\ SnapInv(r)
    /\ OneWriter
    /\ \A c \in Code : codes[c] = NoRow => uses[c] = <<>>
    /\ \A c \in Code : IsFiniteSet(PaidBy(c))
    /\ SqliteRedeemIsExact
    /\ UsesBoundPayout

OthersStand(r) ==
    \A s \in Request \ {r} : tx'[s] = tx[s] /\ locks'[s] = locks[s] /\ snap'[s] = snap[s]

(* A step of one request that changes no table. *)
LEMMA QuietRedeem ==
  ASSUME RedeemInv, NEW r \in Request, UNCHANGED <<driver, tables>>, OthersStand(r),
         ClaimInv(r)', ExactInv(r)', SnapInv(r)',
         \/ locks'[r] \in {locks[r], {}}
         \/ driver = "sqlite" => \A s \in Request \ {r} : locks[s] = {}
  PROVE  RedeemInv'
<1>0. /\ UsedBiz' = UsedBiz /\ codes' = codes /\ uses' = uses /\ version' = version
      /\ driver' = driver
  BY DEF tables, UsedBiz
<1>1. ASSUME NEW s \in Request, s # r PROVE (ClaimInv(s) /\ ExactInv(s) /\ SnapInv(s))'
  <2>1. tx'[s] = tx[s] /\ locks'[s] = locks[s] /\ snap'[s] = snap[s]
    BY <1>1 DEF OthersStand
  <2>2. ClaimInv(s) /\ ExactInv(s) /\ SnapInv(s) BY DEF RedeemInv
  <2>3. ClaimInv(s)' BY <1>0, <2>1, <2>2 DEF ClaimInv, Redeeming
  <2>4. ExactInv(s)' BY <1>0, <2>1, <2>2 DEF ExactInv, Redeeming
  <2>5. SnapInv(s)' BY <1>0, <2>1, <2>2 DEF SnapInv
  <2> QED BY <2>3, <2>4, <2>5
<1>2. OneWriter' BY <1>0 DEF OneWriter, RedeemInv, OthersStand
<1>3. (\A c \in Code : codes[c] = NoRow => uses[c] = <<>>)'
  BY <1>0 DEF RedeemInv
<1>4. (\A c \in Code : IsFiniteSet(PaidBy(c)))' BY <1>0 DEF RedeemInv, PaidBy
<1>5. SqliteRedeemIsExact' BY <1>0 DEF RedeemInv, SqliteRedeemIsExact
<1>6. UsesBoundPayout' BY <1>0 DEF RedeemInv, UsesBoundPayout
<1> QED BY <1>1, <1>2, <1>3, <1>4, <1>5, <1>6 DEF RedeemInv

(* A step that leaves a redemption, its code and that code's uses alone. *)
LEMMA RedeemStays ==
  ASSUME NEW s \in Request, ClaimInv(s), ExactInv(s), SnapInv(s),
         tx'[s] = tx[s], locks'[s] = locks[s], snap'[s] = snap[s], driver' = driver,
         version \in Nat, version' \in Nat, version' >= version,
         snap[s] # NoRow => snap[s].version \in Nat,
         Redeeming(s) =>
           /\ codes'[tx[s].key].max = codes[tx[s].key].max
           /\ tx[s].item.used <= Len(uses'[tx[s].key])
           /\ driver = "sqlite" /\ (locks[s] # {} \/ version' = version) =>
                /\ codes'[tx[s].key].used = codes[tx[s].key].used
                /\ uses'[tx[s].key] = uses[tx[s].key]
  PROVE  ClaimInv(s)' /\ ExactInv(s)' /\ SnapInv(s)'
<1>1. ClaimInv(s)' BY DEF ClaimInv, Redeeming
<1>2. ExactInv(s)'
  <2> SUFFICES ASSUME driver = "sqlite", Redeeming(s)
               PROVE  /\ snap[s] # NoRow
                      /\ locks[s] # {} \/ snap[s].version = version' =>
                           /\ codes'[tx[s].key].used = tx[s].item.used
                           /\ uses'[tx[s].key] = snap[s].uses[tx[s].key]
                      /\ tx[s].pc \in Adjusting =>
                           tx[s].user \notin Range(snap[s].uses[tx[s].key])
                      /\ tx[s].pc = "commit" => locks[s] # {}
    BY DEF ExactInv, Redeeming
  <2>1. snap[s] # NoRow BY DEF ExactInv
  <2>2. snap[s].version = version' => version' = version BY <2>1 DEF SnapInv
  <2> QED BY <2>1, <2>2 DEF ExactInv
<1>3. SnapInv(s)' BY DEF SnapInv
<1> QED BY <1>1, <1>2, <1>3
(* A request that is not redeeming once it has moved claims nothing. *)
LEMMA NoClaim ==
  ASSUME IInv, RedeemInv, NEW r \in Request, UNCHANGED <<driver, tables>>, OthersStand(r),
         ~Redeeming(r)', SnapInv(r)',
         \/ locks'[r] \in {locks[r], {}}
         \/ driver = "sqlite" => \A s \in Request \ {r} : locks[s] = {}
  PROVE  RedeemInv'
<1>1. ClaimInv(r)' /\ ExactInv(r)' BY DEF ClaimInv, ExactInv
<1> QED BY <1>1, QuietRedeem

LEMMA EndRedeem ==
  ASSUME IInv, RedeemInv, NEW r \in Request, NEW a \in {"ok", "error"},
         UNCHANGED <<driver, clock, tables>>, Ended(r, a)
  PROVE  RedeemInv'
<1>0. /\ tx \in [Request -> Tx] /\ locks \in [Request -> SUBSET Resource]
      /\ snap \in [Request -> SnapType \cup {NoRow}]
  BY DEF IInv, TypeOK
<1>1. tx[r] \in Tx BY <1>0
<1>2. EndOf(r, a).pc = "done" BY <1>1 DEF EndOf, Tx
<1>3. tx'[r].pc = "done" /\ locks'[r] = {} /\ snap'[r] = NoRow /\ OthersStand(r)
  BY <1>0, <1>2 DEF Ended, EndOf, OthersStand
<1>4. ~Redeeming(r)' /\ SnapInv(r)' BY <1>3 DEF Redeeming, Adjusting, SnapInv
<1> QED BY <1>3, <1>4, NoClaim DEF tables

LEMMA ArrivalRedeem ==
  ASSUME IInv, RedeemInv, NEW r \in Request, Arrives(r)
  PROVE  RedeemInv'
<1>0. /\ tx \in [Request -> Tx] /\ SnapInv(r) /\ tx[r].pc = "idle"
      /\ UNCHANGED <<driver, clock, tables, locks, snap>>
  BY DEF IInv, TypeOK, RedeemInv, Arrives, RedeemRequest, PaymentNotify, OtherNotify,
     AdminAdjust, Charge, Starts, At
<1>a. ASSUME NEW t, Starts(r, t), t.kind = "redeem" => t.pc = "readCode"
      PROVE  OthersStand(r) /\ (tx'[r].kind = "redeem" => tx'[r].pc = "readCode")
  BY <1>0, <1>a DEF Starts, OthersStand
<1>b. ASSUME NEW u \in User, NEW c \in Code, RedeemRequest(r, u, c)
      PROVE  OthersStand(r) /\ (tx'[r].kind = "redeem" => tx'[r].pc = "readCode")
  <2> DEFINE t == [Idle EXCEPT !.pc = "readCode", !.kind = "redeem", !.user = u, !.key = c]
  <2>1. t.pc = "readCode" BY DEF Idle
  <2> HIDE DEF t
  <2>2. Starts(r, t) BY <1>b DEF RedeemRequest, t
  <2> QED BY <1>a, <2>1, <2>2
<1>c. ASSUME NEW t, Starts(r, t), t.kind # "redeem"
      PROVE  OthersStand(r) /\ (tx'[r].kind = "redeem" => tx'[r].pc = "readCode")
  BY <1>a, <1>c
<1>d. ASSUME NEW o \in Order, PaymentNotify(r, o) \/ OtherNotify(r, o)
      PROVE  OthersStand(r) /\ (tx'[r].kind = "redeem" => tx'[r].pc = "readCode")
  <2> DEFINE t == [Idle EXCEPT !.pc = "readOrder", !.kind = "notify", !.key = o]
             e == [Idle EXCEPT !.pc = "done", !.kind = "notify", !.key = o, !.answer = "ok"]
  <2>1. t.kind = "notify" /\ e.kind = "notify" BY DEF Idle
  <2> HIDE DEF t, e
  <2>2. Starts(r, t) \/ Starts(r, e) BY <1>d DEF PaymentNotify, OtherNotify, t, e
  <2> QED BY <1>c, <2>1, <2>2
<1>e. ASSUME NEW u \in User, NEW d \in Int, AdminAdjust(r, u, d) \/ Charge(r, u, d)
      PROVE  OthersStand(r) /\ (tx'[r].kind = "redeem" => tx'[r].pc = "readCode")
  <2> DEFINE t == [Idle EXCEPT !.pc = "findBiz", !.user = u, !.delta = d, !.biz = Uuid(r)]
             v == [Idle EXCEPT !.pc = "findBiz", !.user = u, !.delta = -d, !.biz = Uuid(r)]
             e == [Idle EXCEPT !.pc = "done", !.user = u, !.answer = "error"]
             f == [Idle EXCEPT !.pc = "done", !.user = u, !.answer = "ok"]
  <2>1. t.kind = "adjust" /\ v.kind = "adjust" /\ e.kind = "adjust" /\ f.kind = "adjust"
    BY DEF Idle
  <2> HIDE DEF t, v, e, f
  <2>2. Starts(r, t) \/ Starts(r, v) \/ Starts(r, e) \/ Starts(r, f)
    BY <1>e DEF AdminAdjust, Charge, t, v, e, f
  <2> QED BY <1>c, <2>1, <2>2
<1>1. OthersStand(r) /\ (tx'[r].kind = "redeem" => tx'[r].pc = "readCode")
  <2>1. AdminDelta \subseteq Int /\ Cost \subseteq Int BY BillingAssumption
  <2> QED BY <1>b, <1>d, <1>e, <2>1 DEF Arrives
<1>2. ~Redeeming(r)' BY <1>1 DEF Redeeming, Adjusting
<1>3. SnapInv(r)' BY <1>0 DEF SnapInv, tables
<1> QED BY <1>0, <1>1, <1>2, <1>3, NoClaim DEF tables

LEMMA ReadCodeRedeem ==
  ASSUME IInv, RedeemInv, NEW r \in Request, ReadCode(r)
  PROVE  RedeemInv'
<1> DEFINE k == tx[r].key
           item == codes[k]
<1>0. /\ tx[r] \in Tx /\ tx \in [Request -> Tx] /\ TxInv(r) /\ tx[r].pc = "readCode"
      /\ snap \in [Request -> SnapType \cup {NoRow}] /\ uses \in [Code -> Seq(User)]
      /\ codes \in [Code -> CodeRow \cup {NoRow}] /\ version \in Nat /\ SnapInv(r)
  BY DEF IInv, TypeOK, ReadCode, At, RedeemInv
<1>1. tx[r].kind = "redeem" /\ k \in Code
  BY <1>0 DEF TxInv, RedeemLocals, NotifyLocals, AdjustLocals, Tx
<1>2. CASE Ended(r, "error") BY <1>2, EndRedeem DEF ReadCode
<1>3. CASE ~Ended(r, "error")
  <2> DEFINE t == [tx[r] EXCEPT !.pc = "countUses", !.item = item, !.delta = item.points]
  <2>1. /\ tx' = [tx EXCEPT ![r] = t] /\ Reads(r) /\ UNCHANGED <<driver, clock, tables, locks>>
        /\ item # NoRow /\ ~(item.used >= item.max)
    BY <1>3 DEF ReadCode
  <2>2. item \in CodeRow /\ item.used \in Nat /\ item.max \in Nat
    BY <1>0, <1>1, <2>1 DEF CodeRow
  <2>3. /\ t.pc = "countUses" /\ t.kind = "redeem" /\ t.key = k /\ t.item = item
    BY <1>0, <1>1 DEF Tx
  <2> HIDE DEF t
  <2>4. tx'[r] = t /\ OthersStand(r) /\ locks'[r] = locks[r]
    BY <1>0, <2>1 DEF OthersStand, Reads
  <2>5. snap'[r] = Current /\ Current # NoRow /\ Current.version = version /\ Current.uses = uses
    <3>1. snap[r] = NoRow BY <1>0 DEF SnapInv
    <3>2. snap'[r] = Snapshot(r) BY <1>0, <2>1 DEF Reads
    <3>3. Current \in SnapType BY <3>1, SnapshotTyped DEF Snapshot, IInv
    <3> QED BY <1>0, <2>1, <3>1, <3>2, <3>3, NoRowAssumption DEF Current, Snapshot
  <2>6. ClaimInv(r)'
    <3>1. item.used <= Len(uses[k]) BY <1>1, <2>1 DEF RedeemInv, UsesBoundPayout
    <3>2. item.used < item.max BY <2>1, <2>2
    <3> QED BY <2>1, <2>3, <2>4, <3>1, <3>2 DEF ClaimInv, tables
  <2>7. ExactInv(r)' BY <2>1, <2>3, <2>4, <2>5 DEF ExactInv, Adjusting, tables
  <2>8. SnapInv(r)' BY <1>0, <2>1, <2>3, <2>4, <2>5 DEF SnapInv, tables
  <2> QED BY <2>1, <2>4, <2>6, <2>7, <2>8, QuietRedeem DEF tables
<1> QED BY <1>2, <1>3
(* A redemption that has read its code takes its next step before the commit, *)
(* or another request does: what has been read stays as it is.                *)
LEMMA GoesOn ==
  ASSUME IInv, RedeemInv, NEW r \in Request, NEW t \in Tx, NEW S \in SUBSET Resource,
         UNCHANGED <<driver, tables>>,
         tx' = [tx EXCEPT ![r] = t], locks' = [locks EXCEPT ![r] = S],
         snap' \in {snap, [snap EXCEPT ![r] = Snapshot(r)]},
         S = locks[r] \/ \E x \in Resource : Free(r, x) /\ S = locks[r] \cup {x},
         tx[r].pc \notin {"idle", "readCode"}, t.pc \notin {"idle", "readCode"},
         t.kind = tx[r].kind,
         t.kind = "redeem" =>
           /\ Redeeming(r) /\ t.key = tx[r].key /\ t.item = tx[r].item /\ t.user = tx[r].user
           /\ t.pc = "commit" => S # {}
           /\ t.pc \in Adjusting /\ tx[r].pc \notin Adjusting /\ driver = "sqlite" =>
                t.user \notin Range(Snapshot(r).uses[t.key])
  PROVE  RedeemInv'
<1>0. /\ tx \in [Request -> Tx] /\ locks \in [Request -> SUBSET Resource]
      /\ snap \in [Request -> SnapType \cup {NoRow}] /\ version \in Nat
      /\ ClaimInv(r) /\ ExactInv(r) /\ SnapInv(r)
  BY DEF IInv, TypeOK, RedeemInv
<1>1. /\ tx'[r] = t /\ locks'[r] = S /\ OthersStand(r)
      /\ snap'[r] = snap[r] \/ snap'[r] = Snapshot(r)
      /\ driver' = driver /\ codes' = codes /\ uses' = uses /\ version' = version
  BY <1>0 DEF OthersStand, tables
<1>2. /\ snap[r] # NoRow => Snapshot(r) = snap[r]
      /\ snap[r] = NoRow => Snapshot(r) = Current /\ Current.version = version
  BY DEF Snapshot, Current
<1>3. ClaimInv(r)' BY <1>0, <1>1 DEF ClaimInv, Redeeming
<1>4. ExactInv(r)'
  <2> SUFFICES ASSUME driver = "sqlite", t.kind = "redeem", t.pc \in {"countUses"} \cup Adjusting
               PROVE  ExactInv(r)'
    BY <1>1 DEF ExactInv, Redeeming
  <2>1. snap[r] # NoRow /\ Snapshot(r) = snap[r] /\ snap'[r] = snap[r]
    BY <1>0, <1>1, <1>2 DEF ExactInv
  <2>2. S # {} \/ snap[r].version = version => locks[r] # {} \/ snap[r].version = version
    BY <2>1 DEF Free
  <2>3. /\ t.pc \in Adjusting => t.user \notin Range(snap[r].uses[t.key])
        /\ S # {} \/ snap[r].version = version =>
             codes[t.key].used = t.item.used /\ uses[t.key] = snap[r].uses[t.key]
    BY <1>0, <2>1, <2>2 DEF ExactInv
  <2> QED BY <1>1, <2>1, <2>3 DEF ExactInv
<1>5. SnapInv(r)' BY <1>0, <1>1, <1>2 DEF SnapInv
<1>6. \/ locks'[r] \in {locks[r], {}}
      \/ driver = "sqlite" => \A s \in Request \ {r} : locks[s] = {}
  BY <1>1 DEF Free
<1> QED BY <1>1, <1>3, <1>4, <1>5, <1>6, QuietRedeem

LEMMA CountUsesRedeem ==
  ASSUME IInv, RedeemInv, NEW r \in Request, CountUses(r)
  PROVE  RedeemInv'
<1>0. /\ tx[r] \in Tx /\ TxInv(r) /\ tx[r].pc = "countUses" /\ locks \in [Request -> SUBSET Resource]
      /\ clock \in 0..MaxClock
  BY DEF IInv, TypeOK, CountUses, At
<1>1. tx[r].kind = "redeem" /\ tx[r].key \in Code
  BY <1>0 DEF TxInv, RedeemLocals, NotifyLocals, AdjustLocals, Tx
<1>2. CASE Ended(r, "error") BY <1>2, EndRedeem DEF CountUses
<1>3. CASE ~Ended(r, "error")
  <2> DEFINE b == RedeemBiz(tx[r].key, clock)
             t == [tx[r] EXCEPT !.pc = "findBiz", !.biz = b]
  <2>1. /\ tx' = [tx EXCEPT ![r] = t] /\ Reads(r) /\ UNCHANGED <<driver, clock, tables, locks>>
        /\ tx[r].user \notin Range(View(r).uses[tx[r].key])
    BY <1>3 DEF CountUses
  <2>2. b \in Biz BY <1>0, <1>1 DEF Biz
  <2>3. t \in Tx BY <1>0, <2>2 DEF Tx
  <2>4. /\ t.pc = "findBiz" /\ t.kind = "redeem" /\ t.key = tx[r].key /\ t.item = tx[r].item
        /\ t.user = tx[r].user
    BY <1>0, <1>1 DEF Tx
  <2> HIDE DEF t
  <2>5. driver = "sqlite" => View(r) = Snapshot(r) BY DEF View
  <2>6. Redeeming(r) BY <1>0, <1>1 DEF Redeeming
  <2>7. /\ locks' = [locks EXCEPT ![r] = locks[r]] /\ locks[r] \in SUBSET Resource
        /\ snap' = [snap EXCEPT ![r] = Snapshot(r)]
    BY <1>0, <2>1 DEF Reads
  <2>8. driver = "sqlite" => t.user \notin Range(Snapshot(r).uses[t.key])
    BY <2>1, <2>4, <2>5
  <2>9. UNCHANGED <<driver, tables>> /\ snap' \in {snap, [snap EXCEPT ![r] = Snapshot(r)]}
    BY <2>1, <2>7
  <2> QED BY <1>0, <1>1, <2>1, <2>3, <2>4, <2>6, <2>7, <2>8, <2>9, GoesOn
<1> QED BY <1>2, <1>3

LEMMA ReadOrderRedeem ==
  ASSUME IInv, RedeemInv, NEW r \in Request, ReadOrder(r)
  PROVE  RedeemInv'
<1> DEFINE order == orders[tx[r].key]
<1>0. /\ tx[r] \in Tx /\ tx \in [Request -> Tx] /\ TxInv(r) /\ tx[r].pc = "readOrder"
      /\ snap \in [Request -> SnapType \cup {NoRow}] /\ version \in Nat /\ SnapInv(r)
  BY DEF IInv, TypeOK, ReadOrder, At, RedeemInv
<1>1. tx[r].kind = "notify"
  BY <1>0 DEF TxInv, RedeemLocals, NotifyLocals, AdjustLocals, Tx
<1>2. CASE Ended(r, "error") BY <1>2, EndRedeem DEF ReadOrder
<1>3. CASE Ended(r, "ok") BY <1>3, EndRedeem DEF ReadOrder
<1>4. CASE ~Ended(r, "error") /\ ~Ended(r, "ok")
  <2> DEFINE t == [tx[r] EXCEPT !.pc = "saveOrder", !.item = order, !.user = order.user,
                                !.delta = order.points, !.biz = PayBiz(tx[r].key)]
  <2>1. tx' = [tx EXCEPT ![r] = t] /\ Reads(r) /\ UNCHANGED <<driver, clock, tables, locks>>
    BY <1>4 DEF ReadOrder
  <2>2. t.kind = "notify" /\ t.pc = "saveOrder" BY <1>0, <1>1 DEF Tx
  <2> HIDE DEF t
  <2>3. /\ tx'[r] = t /\ OthersStand(r) /\ locks'[r] = locks[r] /\ snap'[r] = Snapshot(r)
    BY <1>0, <2>1 DEF OthersStand, Reads
  <2>4. ~Redeeming(r)' BY <2>2, <2>3 DEF Redeeming
  <2>5. SnapInv(r)' BY <1>0, <2>1, <2>2, <2>3 DEF SnapInv, Snapshot, Current, tables
  <2> QED BY <2>1, <2>3, <2>4, <2>5, NoClaim DEF tables
<1> QED BY <1>2, <1>3, <1>4

LEMMA SaveOrderRedeem ==
  ASSUME IInv, RedeemInv, NEW r \in Request, SaveOrder(r)
  PROVE  RedeemInv'
<1> DEFINE t == [tx[r] EXCEPT !.pc = "findBiz"]
           x == <<"order", tx[r].key>>
<1>0. /\ tx[r] \in Tx /\ TxInv(r) /\ tx[r].pc = "saveOrder"
      /\ locks \in [Request -> SUBSET Resource]
  BY DEF IInv, TypeOK, SaveOrder, At
<1>1. tx[r].kind = "notify" /\ tx[r].key \in Order
  BY <1>0 DEF TxInv, RedeemLocals, NotifyLocals, AdjustLocals, Tx
<1>2. t \in Tx /\ x \in Resource BY <1>0, <1>1 DEF Tx, Resource
<1>3. /\ tx' = [tx EXCEPT ![r] = t] /\ locks' = [locks EXCEPT ![r] = locks[r] \cup {x}]
      /\ Free(r, x) /\ UNCHANGED <<driver, clock, tables>> /\ snap' = snap
  BY DEF SaveOrder, Goto, Takes
<1>4. t.pc = "findBiz" /\ t.kind = "notify" BY <1>0, <1>1 DEF Tx
<1>5. locks[r] \cup {x} \in SUBSET Resource BY <1>0, <1>2
<1> HIDE DEF t, x
<1> QED BY <1>0, <1>1, <1>2, <1>3, <1>4, <1>5, GoesOn

LEMMA UpdateCodeRedeem ==
  ASSUME IInv, RedeemInv, NEW r \in Request, UpdateCode(r)
  PROVE  RedeemInv'
<1> DEFINE t == [tx[r] EXCEPT !.pc = "commit"]
           x == <<"code", tx[r].key>>
<1>0. /\ tx[r] \in Tx /\ TxInv(r) /\ tx[r].pc = "updateCode"
      /\ locks \in [Request -> SUBSET Resource]
  BY DEF IInv, TypeOK, UpdateCode, At
<1>1. tx[r].kind = "redeem" /\ tx[r].key \in Code /\ tx[r].pc \in Adjusting
  BY <1>0 DEF TxInv, RedeemLocals, NotifyLocals, AdjustLocals, Tx, Adjusting
<1>2. t \in Tx /\ x \in Resource BY <1>0, <1>1 DEF Tx, Resource
<1>3. /\ tx' = [tx EXCEPT ![r] = t] /\ locks' = [locks EXCEPT ![r] = locks[r] \cup {x}]
      /\ Free(r, x) /\ UNCHANGED <<driver, clock, tables>> /\ snap' = snap
  BY DEF UpdateCode, Goto, Takes
<1>4. /\ t.pc = "commit" /\ t.kind = "redeem" /\ t.key = tx[r].key /\ t.item = tx[r].item
      /\ t.user = tx[r].user
  BY <1>0, <1>1 DEF Tx
<1>5. locks[r] \cup {x} \in SUBSET Resource /\ locks[r] \cup {x} # {} BY <1>0, <1>2
<1>6. Redeeming(r) BY <1>1 DEF Redeeming
<1> HIDE DEF t, x
<1> QED BY <1>0, <1>1, <1>2, <1>3, <1>4, <1>5, <1>6, GoesOn
LEMMA FindBizRedeem ==
  ASSUME IInv, RedeemInv, NEW r \in Request, FindBiz(r)
  PROVE  RedeemInv'
<1> DEFINE pc == IF tx[r].biz \in View(r).biz THEN AfterAdjust(r) ELSE "lockUser"
           t == [tx[r] EXCEPT !.pc = pc]
<1>0. /\ tx[r] \in Tx /\ tx[r].pc = "findBiz" /\ locks \in [Request -> SUBSET Resource]
  BY DEF IInv, TypeOK, FindBiz, At
<1>1. /\ pc \in {"lockUser", "updateCode", "commit"}
      /\ tx[r].kind = "redeem" => pc # "commit"
  BY DEF AfterAdjust
<1>2. /\ tx' = [tx EXCEPT ![r] = t] /\ UNCHANGED <<driver, tables>>
      /\ locks' = [locks EXCEPT ![r] = locks[r]] /\ locks[r] \in SUBSET Resource
      /\ snap' \in {snap, [snap EXCEPT ![r] = Snapshot(r)]}
  BY <1>0 DEF FindBiz, Goto, Reads
<1> HIDE DEF pc
<1>3. /\ t \in Tx /\ t.pc = pc /\ t.kind = tx[r].kind /\ t.key = tx[r].key
      /\ t.item = tx[r].item /\ t.user = tx[r].user
  BY <1>0, <1>1 DEF Tx
<1> HIDE DEF t
<1>4. tx[r].pc \in Adjusting BY <1>0 DEF Adjusting
<1>5. t.kind = "redeem" => Redeeming(r) BY <1>3, <1>4 DEF Redeeming
<1> QED BY <1>0, <1>1, <1>2, <1>3, <1>4, <1>5, GoesOn

LEMMA LockUserRedeem ==
  ASSUME IInv, RedeemInv, NEW r \in Request, LockUser(r)
  PROVE  RedeemInv'
<1> DEFINE next == points[tx[r].user] + tx[r].delta
           t == [tx[r] EXCEPT !.pc = "insert", !.next = next]
           x == <<"user", tx[r].user>>
<1>0. /\ tx[r] \in Tx /\ tx[r].pc = "lockUser" /\ locks \in [Request -> SUBSET Resource]
      /\ points \in [User -> Nat]
  BY DEF IInv, TypeOK, LockUser, At
<1>1. CASE Ended(r, "error") BY <1>1, EndRedeem DEF LockUser
<1>2. CASE ~Ended(r, "error")
  <2>1. /\ tx' = [tx EXCEPT ![r] = t] /\ locks' = [locks EXCEPT ![r] = locks[r] \cup {x}]
        /\ Free(r, x) /\ UNCHANGED <<driver, tables>> /\ snap' = snap /\ ~(next < 0)
    BY <1>2 DEF LockUser
  <2>2. tx[r].user \in User /\ tx[r].delta \in Int BY <1>0 DEF Tx
  <2>3. next \in Nat BY <1>0, <2>1, <2>2
  <2> HIDE DEF next
  <2>4. /\ t \in Tx /\ t.pc = "insert" /\ t.kind = tx[r].kind /\ t.key = tx[r].key
        /\ t.item = tx[r].item /\ t.user = tx[r].user
    BY <1>0, <2>3 DEF Tx
  <2>5. x \in Resource /\ locks[r] \cup {x} \in SUBSET Resource BY <1>0, <2>2 DEF Resource
  <2> HIDE DEF t, x
  <2>6. tx[r].pc \in Adjusting BY <1>0 DEF Adjusting
  <2>7. t.kind = "redeem" => Redeeming(r) BY <2>4, <2>6 DEF Redeeming
  <2> QED BY <1>0, <2>1, <2>4, <2>5, <2>6, <2>7, GoesOn
<1> QED BY <1>1, <1>2

LEMMA InsertLedgerRedeem ==
  ASSUME IInv, RedeemInv, NEW r \in Request, InsertLedger(r)
  PROVE  RedeemInv'
<1> DEFINE t == [tx[r] EXCEPT !.pc = AfterAdjust(r), !.posted = TRUE]
           x == <<"biz", tx[r].biz>>
<1>0. /\ tx[r] \in Tx /\ tx[r].pc = "insert" /\ locks \in [Request -> SUBSET Resource] /\ TxInv(r)
  BY DEF IInv, TypeOK, InsertLedger, At
<1>1. CASE Ended(r, "error") BY <1>1, EndRedeem DEF InsertLedger
<1>2. CASE ~Ended(r, "error")
  <2>1. /\ tx' = [tx EXCEPT ![r] = t] /\ locks' = [locks EXCEPT ![r] = locks[r] \cup {x}]
        /\ Free(r, x) /\ UNCHANGED <<driver, tables>> /\ snap' = snap
    BY <1>2 DEF InsertLedger
  <2>2. AfterAdjust(r) \in {"updateCode", "commit"} BY DEF AfterAdjust
  <2>3. /\ t \in Tx /\ t.pc = AfterAdjust(r) /\ t.kind = tx[r].kind /\ t.key = tx[r].key
        /\ t.item = tx[r].item /\ t.user = tx[r].user
    BY <1>0, <2>2 DEF Tx
  <2>4. tx[r].biz \in Biz
    <3>1. tx[r].kind = "redeem" => tx[r].biz \in Biz
      BY <1>0 DEF TxInv, RedeemLocals, Adjusting, Biz
    <3>2. tx[r].kind = "notify" => tx[r].biz \in Biz BY <1>0 DEF TxInv, NotifyLocals, Biz
    <3>3. tx[r].kind = "adjust" => tx[r].biz \in Biz BY <1>0 DEF TxInv, AdjustLocals, Biz
    <3> QED BY <1>0, <3>1, <3>2, <3>3 DEF Tx
  <2>5. x \in Resource /\ locks[r] \cup {x} \in SUBSET Resource /\ locks[r] \cup {x} # {}
    BY <1>0, <2>4 DEF Resource
  <2> HIDE DEF t, x
  <2>6. tx[r].pc \in Adjusting BY <1>0 DEF Adjusting
  <2>7. t.kind = "redeem" => Redeeming(r) BY <2>3, <2>6 DEF Redeeming
  <2> QED BY <1>0, <2>1, <2>2, <2>3, <2>5, <2>6, <2>7, GoesOn
<1> QED BY <1>1, <1>2

-----------------------------------------------------------------------------
(* Commits and the rows that administrators and users insert *)

LEMMA AddedElement ==
  ASSUME NEW S, NEW x, IsFiniteSet(S)
  PROVE  /\ IsFiniteSet(S \cup {x}) /\ Cardinality(S) \in Nat
         /\ Cardinality(S \cup {x}) <= Cardinality(S) + 1
<1>1. Cardinality(S) \in Nat BY FS_CardinalityType
<1>2. Cardinality(S \cup {x}) = IF x \in S THEN Cardinality(S) ELSE Cardinality(S) + 1
  BY FS_AddElement
<1>3. IsFiniteSet(S \cup {x}) BY FS_AddElement
<1> QED BY <1>1, <1>2, <1>3

(* A commit adds at most its own number to the credits of its own code. *)
LEMMA PaidGrows ==
  ASSUME IInv, RedeemInv, NEW r \in Request, tx[r].pc = "commit", PublishAdjust(r), NEW c \in Code
  PROVE  /\ IsFiniteSet(PaidBy(c)')
         /\ Cardinality(PaidBy(c)') <= Cardinality(PaidBy(c)) + 1
         /\ (tx[r].kind = "redeem" /\ tx[r].key = c) \/ PaidBy(c)' = PaidBy(c)
<1> DEFINE b == tx[r].biz
<1>1. UsedBiz' = UsedBiz \cup {b} BY RowsKept
<1>2. IsFiniteSet(PaidBy(c)) /\ Cardinality(PaidBy(c)) \in Nat
  BY FS_CardinalityType DEF RedeemInv
<1>3. PaidBy(c)' = PaidBy(c) \/ PaidBy(c)' = PaidBy(c) \cup {b} BY <1>1 DEF PaidBy
<1>4. ~(tx[r].kind = "redeem" /\ tx[r].key = c) => ~(b[1] = "redeem" /\ b[2] = c)
  <2>1. TxInv(r) /\ tx[r] \in Tx BY DEF IInv, TypeOK
  <2>2. CASE tx[r].kind = "redeem"
    <3>1. PICK t \in 0..MaxClock : b = RedeemBiz(tx[r].key, t)
      BY <2>1, <2>2 DEF TxInv, RedeemLocals, Adjusting
    <3> QED BY <2>2, <3>1 DEF RedeemBiz
  <2>3. CASE tx[r].kind = "notify"
    BY <2>1, <2>3 DEF TxInv, NotifyLocals, PayBiz
  <2>4. CASE tx[r].kind = "adjust"
    BY <2>1, <2>4 DEF TxInv, AdjustLocals, Uuid
  <2> QED BY <2>1, <2>2, <2>3, <2>4 DEF Tx
<1>5. ~(b[1] = "redeem" /\ b[2] = c) => PaidBy(c)' = PaidBy(c) BY <1>1 DEF PaidBy
<1>6. /\ IsFiniteSet(PaidBy(c) \cup {b})
      /\ Cardinality(PaidBy(c) \cup {b}) <= Cardinality(PaidBy(c)) + 1
  BY <1>2, AddedElement
<1>7. IsFiniteSet(PaidBy(c)') /\ Cardinality(PaidBy(c)') <= Cardinality(PaidBy(c)) + 1
  <2>1. CASE PaidBy(c)' = PaidBy(c) BY <1>2, <2>1
  <2>2. CASE PaidBy(c)' = PaidBy(c) \cup {b} BY <1>6, <2>2
  <2> QED BY <1>3, <2>1, <2>2
<1> QED BY <1>4, <1>5, <1>7
(* What is left to show of a commit: the rows of its code, if any. *)
LEMMA CommitRows ==
  ASSUME IInv, RedeemInv, NEW r \in Request, tx[r].pc = "commit", Ended(r, "ok"),
         UNCHANGED driver, version' = version + 1,
         \A c \in Code :
           /\ (codes[c] = NoRow => uses[c] = <<>>)'
           /\ IsFiniteSet(PaidBy(c))'
           /\ \/ codes'[c] = codes[c] /\ uses'[c] = uses[c]
              \/ /\ codes'[c].max = codes[c].max /\ Len(uses'[c]) >= Len(uses[c])
                 /\ locks[r] # {} \/ driver # "sqlite",
         IInv', SqliteRedeemIsExact', UsesBoundPayout'
  PROVE  RedeemInv'
<1>0. /\ tx \in [Request -> Tx] /\ locks \in [Request -> SUBSET Resource]
      /\ snap \in [Request -> SnapType \cup {NoRow}] /\ version \in Nat
      /\ uses \in [Code -> Seq(User)] /\ OneWriter
  BY DEF IInv, TypeOK, RedeemInv
<1>1. tx[r] \in Tx BY <1>0
<1>2. EndOf(r, "ok").pc = "done" BY <1>1 DEF EndOf, Tx
<1>3. tx'[r].pc = "done" /\ locks'[r] = {} /\ snap'[r] = NoRow /\ OthersStand(r)
  BY <1>0, <1>2 DEF Ended, EndOf, OthersStand
<1>4. ASSUME NEW s \in Request PROVE (ClaimInv(s) /\ ExactInv(s) /\ SnapInv(s))'
  <2>1. CASE s = r
    BY <1>3, <2>1 DEF ClaimInv, ExactInv, SnapInv, Redeeming, Adjusting
  <2>2. CASE s # r
    <3>1. /\ tx'[s] = tx[s] /\ locks'[s] = locks[s] /\ snap'[s] = snap[s]
          /\ ClaimInv(s) /\ ExactInv(s) /\ SnapInv(s)
          /\ snap[s] # NoRow => snap[s].version \in Nat
      BY <1>0, <1>3, <2>2 DEF OthersStand, RedeemInv, SnapType
    <3>2. version' \in Nat /\ version' >= version /\ version' # version BY <1>0
    <3>3. ASSUME Redeeming(s)
          PROVE  /\ codes'[tx[s].key].max = codes[tx[s].key].max
                 /\ tx[s].item.used <= Len(uses'[tx[s].key])
                 /\ driver = "sqlite" /\ locks[s] # {} =>
                      /\ codes'[tx[s].key].used = codes[tx[s].key].used
                      /\ uses'[tx[s].key] = uses[tx[s].key]
      <4>1. tx[s].key \in Code /\ tx[s].item \in CodeRow
        BY <3>3 DEF IInv, TxInv, RedeemLocals, Redeeming, Adjusting
      <4>2. tx[s].item.used \in Nat /\ Len(uses[tx[s].key]) \in Nat BY <1>0, <4>1 DEF CodeRow
      <4>3. tx[s].item.used <= Len(uses[tx[s].key]) BY <3>1, <3>3 DEF ClaimInv
      <4>4. driver = "sqlite" /\ locks[s] # {} => locks[r] = {} BY <1>0, <2>2 DEF OneWriter
      <4>5. CASE codes'[tx[s].key] = codes[tx[s].key] /\ uses'[tx[s].key] = uses[tx[s].key]
        BY <4>3, <4>5
      <4>6. CASE /\ codes'[tx[s].key].max = codes[tx[s].key].max
                 /\ Len(uses'[tx[s].key]) >= Len(uses[tx[s].key])
                 /\ locks[r] # {} \/ driver # "sqlite"
        <5>1. Len(uses'[tx[s].key]) \in Nat
          <6>1. uses' \in [Code -> Seq(User)] BY DEF IInv, TypeOK
          <6> QED BY <4>1, <6>1
        <5> QED BY <4>2, <4>3, <4>4, <4>6, <5>1
      <4> QED BY <4>1, <4>5, <4>6
    <3> QED BY <1>0, <3>1, <3>2, <3>3, RedeemStays
  <2> QED BY <2>1, <2>2
<1>5. OneWriter' BY <1>3 DEF OneWriter, RedeemInv, OthersStand
<1> QED BY <1>4, <1>5 DEF RedeemInv

LEMMA CommitOtherRedeem ==
  ASSUME IInv, RedeemInv, NEW r \in Request, CommitNotify(r) \/ CommitAdjust(r)
  PROVE  RedeemInv'
<1>1. /\ tx[r].pc = "commit" /\ tx[r].kind # "redeem" /\ PublishAdjust(r) /\ Ended(r, "ok")
      /\ UNCHANGED driver /\ version' = version + 1 /\ codes' = codes /\ uses' = uses
  BY DEF CommitNotify, CommitAdjust, At
<1>2. \A c \in Code : IsFiniteSet(PaidBy(c)') /\ PaidBy(c)' = PaidBy(c) BY <1>1, PaidGrows
<1>3. \A c \in Code : (codes[c] = NoRow => uses[c] = <<>>)' BY <1>1 DEF RedeemInv
<1>4. SqliteRedeemIsExact' BY <1>1 DEF RedeemInv, SqliteRedeemIsExact
<1>5. UsesBoundPayout'
  <2>1. UsesBoundPayout BY DEF RedeemInv
  <2> QED BY <1>1, <1>2, <2>1 DEF UsesBoundPayout, PaidBy
<1>6. IInv' BY CommitNotifyStep, CommitAdjustStep
<1> QED BY <1>1, <1>2, <1>3, <1>4, <1>5, <1>6, CommitRows
LEMMA AppendInjective ==
  ASSUME NEW S, NEW f \in Seq(S), NEW x \in S, IsInjective(f), x \notin Range(f)
  PROVE  IsInjective(Append(f, x))
<1> DEFINE n == Len(f)
           g == Append(f, x)
<1>1. /\ n \in Nat /\ DOMAIN f = 1..n /\ DOMAIN g = 1..(n + 1) /\ g[n + 1] = x
      /\ \A i \in 1..n : g[i] = f[i]
  OBVIOUS
<1>2. \A i \in 1..n : f[i] # x BY <1>1 DEF Range
<1> HIDE DEF g, n
<1>3. ASSUME NEW i \in DOMAIN g, NEW j \in DOMAIN g, g[i] = g[j] PROVE i = j
  <2>1. CASE i = n + 1 /\ j = n + 1 BY <2>1
  <2>2. CASE i = n + 1 /\ j # n + 1
    <3>1. j \in 1..n BY <1>1, <2>2
    <3> QED BY <1>1, <1>2, <1>3, <2>2, <3>1
  <2>3. CASE i # n + 1 /\ j = n + 1
    <3>1. i \in 1..n BY <1>1, <2>3
    <3> QED BY <1>1, <1>2, <1>3, <2>3, <3>1
  <2>4. CASE i # n + 1 /\ j # n + 1
    <3>1. i \in 1..n /\ j \in 1..n BY <1>1, <2>4
    <3>2. f[i] = f[j] BY <1>1, <1>3, <3>1
    <3> QED BY <1>1, <3>1, <3>2 DEF IsInjective
  <2> QED BY <2>1, <2>2, <2>3, <2>4
<1>4. IsInjective(g) BY <1>3 DEF IsInjective
<1> QED BY <1>4 DEF g

LEMMA CommitRedeemCounts ==
  ASSUME IInv, RedeemInv, NEW r \in Request, CommitRedeem(r)
  PROVE  RedeemInv'
<1> DEFINE k == tx[r].key
           item == tx[r].item
           u == tx[r].user
<1>0. /\ tx[r] \in Tx /\ TxInv(r) /\ tx[r].pc = "commit" /\ tx[r].kind = "redeem"
      /\ codes \in [Code -> CodeRow \cup {NoRow}] /\ uses \in [Code -> Seq(User)]
      /\ ClaimInv(r) /\ ExactInv(r)
  BY DEF IInv, TypeOK, CommitRedeem, At, RedeemInv
<1>1. /\ k \in Code /\ item \in CodeRow /\ codes[k] \in CodeRow /\ u \in User
      /\ uses[k] \in Seq(User) /\ Redeeming(r)
  BY <1>0 DEF TxInv, RedeemLocals, Adjusting, Tx, Redeeming
<1>2. /\ PublishAdjust(r) /\ Ended(r, "ok") /\ UNCHANGED driver /\ version' = version + 1
      /\ codes' = [codes EXCEPT ![k].used = item.used + 1]
      /\ uses' = [uses EXCEPT ![k] = Append(@, u)]
  BY DEF CommitRedeem
<1>3. /\ item.used \in Nat /\ item.max \in Nat /\ codes[k].max = item.max
      /\ item.used < item.max /\ item.used <= Len(uses[k]) /\ Len(uses[k]) \in Nat
  BY <1>0, <1>1 DEF ClaimInv, CodeRow
<1>4. /\ codes'[k].used = item.used + 1 /\ codes'[k].max = codes[k].max
      /\ uses'[k] = Append(uses[k], u) /\ Len(uses'[k]) = Len(uses[k]) + 1
      /\ \A c \in Code \ {k} : codes'[c] = codes[c] /\ uses'[c] = uses[c]
  BY <1>0, <1>1, <1>2 DEF CodeRow
<1>5. codes'[k] # NoRow
  <2>1. [codes[k] EXCEPT !.used = item.used + 1] \in CodeRow BY <1>1, <1>3 DEF CodeRow
  <2> QED BY <1>0, <1>1, <1>2, <2>1, NoRowAssumption
<1>6. \A c \in Code : /\ IsFiniteSet(PaidBy(c)')
                      /\ Cardinality(PaidBy(c)') <= Cardinality(PaidBy(c)) + 1
                      /\ c = k \/ PaidBy(c)' = PaidBy(c)
                      /\ Cardinality(PaidBy(c)) \in Nat /\ Cardinality(PaidBy(c)') \in Nat
  BY <1>0, <1>2, PaidGrows, FS_CardinalityType DEF RedeemInv
<1>7. \A c \in Code : (codes[c] = NoRow => uses[c] = <<>>)'
  BY <1>4, <1>5 DEF RedeemInv
<1>8. UsesBoundPayout'
  <2>1. UsesBoundPayout BY DEF RedeemInv
  <2>2. ASSUME NEW c \in Code
        PROVE  /\ codes'[c] # NoRow => codes'[c].used <= Len(uses'[c])
               /\ Cardinality(PaidBy(c)') <= Len(uses'[c])
    <3>1. Cardinality(PaidBy(c)) <= Len(uses[c]) BY <2>1 DEF UsesBoundPayout, PaidBy
    <3>2. CASE c = k
      <4> DEFINE old == Cardinality(PaidBy(c))
                 new == Cardinality(PaidBy(c)')
      <4>1. new <= old + 1 /\ old \in Nat /\ new \in Nat /\ old <= Len(uses[k])
        BY <1>6, <3>1, <3>2
      <4> HIDE DEF old, new
      <4>2. new <= Len(uses[k]) + 1 BY <1>3, <4>1
      <4>3. codes'[k].used <= Len(uses'[k]) /\ new <= Len(uses'[k]) BY <1>3, <1>4, <4>2
      <4> QED BY <3>2, <4>3 DEF new
    <3>3. CASE c # k
      <4>1. codes'[c] = codes[c] /\ uses'[c] = uses[c] /\ PaidBy(c)' = PaidBy(c)
        BY <1>4, <1>6, <3>3
      <4> QED BY <2>1, <3>1, <4>1 DEF UsesBoundPayout
    <3> QED BY <3>2, <3>3
  <2> QED BY <2>2 DEF UsesBoundPayout, PaidBy
<1>9. SqliteRedeemIsExact'
  <2> SUFFICES ASSUME driver = "sqlite", NEW c \in Code
               PROVE  /\ codes'[c] # NoRow => /\ codes'[c].used = Len(uses'[c])
                                              /\ Len(uses'[c]) <= codes'[c].max
                      /\ IsInjective(uses'[c])
    BY <1>2 DEF SqliteRedeemIsExact
  <2>1. /\ codes[c] # NoRow => codes[c].used = Len(uses[c]) /\ Len(uses[c]) <= codes[c].max
        /\ IsInjective(uses[c])
    BY DEF RedeemInv, SqliteRedeemIsExact
  <2>2. CASE c = k
    <3>1. codes[k].used = item.used /\ uses[k] = snap[r].uses[k] /\ u \notin Range(uses[k])
      BY <1>0, <1>1 DEF ExactInv, Adjusting
    <3>2. Len(uses[k]) = item.used BY <1>1, <2>1, <2>2, <3>1, NoRowAssumption
    <3>3. IsInjective(uses'[k])
      <4>1. IsInjective(uses[k]) /\ u \notin Range(uses[k]) BY <2>1, <2>2, <3>1
      <4> QED BY <1>1, <1>4, <4>1, AppendInjective
    <3>4. codes'[k].used = Len(uses'[k]) /\ Len(uses'[k]) <= codes'[k].max
      BY <1>3, <1>4, <3>2
    <3> QED BY <2>2, <3>3, <3>4
  <2>3. CASE c # k BY <1>4, <2>1, <2>3
  <2> QED BY <2>2, <2>3
<1>10. driver = "sqlite" => locks[r] # {} BY <1>0, <1>1 DEF ExactInv
<1>11. \A c \in Code : \/ codes'[c] = codes[c] /\ uses'[c] = uses[c]
                       \/ /\ codes'[c].max = codes[c].max /\ Len(uses'[c]) >= Len(uses[c])
                          /\ locks[r] # {} \/ driver # "sqlite"
  BY <1>3, <1>4, <1>10
<1>12. IInv' BY CommitRedeemStep
<1> QED BY <1>0, <1>2, <1>6, <1>7, <1>8, <1>9, <1>11, <1>12, CommitRows

(* A step outside every request: a row is inserted, or the clock ticks. *)
LEMMA OutsideRedeem ==
  ASSUME IInv, RedeemInv, UNCHANGED <<driver, ledger, uses, tx, locks, snap>>,
         version' \in Nat, version' >= version,
         \A c \in Code : \/ codes'[c] = codes[c]
                         \/ /\ codes[c] = NoRow
                            /\ codes'[c].used = 0 /\ codes'[c].max \in Nat
  PROVE  RedeemInv'
<1>0. /\ version \in Nat /\ snap \in [Request -> SnapType \cup {NoRow}]
      /\ uses \in [Code -> Seq(User)] /\ UsedBiz' = UsedBiz
  BY DEF IInv, TypeOK, UsedBiz
<1>1. ASSUME NEW s \in Request PROVE (ClaimInv(s) /\ ExactInv(s) /\ SnapInv(s))'
  <2>1. /\ ClaimInv(s) /\ ExactInv(s) /\ SnapInv(s)
        /\ snap[s] # NoRow => snap[s].version \in Nat
    BY <1>0 DEF RedeemInv, SnapType
  <2>2. ASSUME Redeeming(s)
        PROVE  codes'[tx[s].key] = codes[tx[s].key] /\ tx[s].item.used <= Len(uses[tx[s].key])
    <3>1. tx[s].key \in Code /\ codes[tx[s].key] \in CodeRow
      BY <2>2 DEF IInv, TxInv, RedeemLocals, Redeeming, Adjusting
    <3> QED BY <2>1, <2>2, <3>1, NoRowAssumption DEF ClaimInv
  <2> QED BY <1>0, <2>1, <2>2, RedeemStays
<1>2. OneWriter' BY DEF RedeemInv, OneWriter
<1>3. \A c \in Code : codes[c] = NoRow => uses[c] = <<>> BY DEF RedeemInv
<1>4. (\A c \in Code : codes[c] = NoRow => uses[c] = <<>>)' BY <1>3
<1>5. (\A c \in Code : IsFiniteSet(PaidBy(c)))' BY <1>0 DEF RedeemInv, PaidBy
<1>6. UsesBoundPayout' BY <1>0, <1>3 DEF RedeemInv, UsesBoundPayout
<1>7. SqliteRedeemIsExact' BY <1>3 DEF RedeemInv, SqliteRedeemIsExact
<1> QED BY <1>1, <1>2, <1>4, <1>5, <1>6, <1>7 DEF RedeemInv

LEMMA InitRedeem == Init => RedeemInv
<1> SUFFICES ASSUME Init PROVE RedeemInv OBVIOUS
<1>1. UsedBiz = {} BY DEF Init, UsedBiz, L!BizOf
<1>2. \A c \in Code : PaidBy(c) = {} BY <1>1 DEF PaidBy
<1>3. \A r \in Request : ClaimInv(r) /\ ExactInv(r) /\ SnapInv(r)
  BY DEF Init, Idle, ClaimInv, ExactInv, SnapInv, Redeeming, Adjusting
<1>4. OneWriter BY DEF Init, OneWriter
<1>5. SqliteRedeemIsExact BY DEF Init, SqliteRedeemIsExact, IsInjective
<1>6. UsesBoundPayout
  <2>1. \A c \in Code : Cardinality(PaidBy(c)) = 0 /\ Len(uses[c]) = 0 /\ codes[c] = NoRow
    BY <1>2, FS_EmptySet DEF Init
  <2> QED BY <2>1 DEF UsesBoundPayout, PaidBy
<1>7. \A c \in Code : IsFiniteSet(PaidBy(c)) /\ uses[c] = <<>>
  BY <1>2, FS_EmptySet DEF Init
<1> QED BY <1>3, <1>4, <1>5, <1>6, <1>7 DEF RedeemInv

LEMMA NextRedeem == IInv /\ RedeemInv /\ [Next]_vars => RedeemInv'
<1> SUFFICES ASSUME IInv, RedeemInv, [Next]_vars PROVE RedeemInv' OBVIOUS
<1>1. ASSUME NEW r \in Request, Arrives(r) PROVE RedeemInv' BY <1>1, ArrivalRedeem
<1>2. ASSUME NEW r \in Request, Step(r) PROVE RedeemInv'
  <2>1. CASE ReadCode(r) BY <2>1, ReadCodeRedeem
  <2>2. CASE CountUses(r) BY <2>2, CountUsesRedeem
  <2>3. CASE UpdateCode(r) BY <2>3, UpdateCodeRedeem
  <2>4. CASE ReadOrder(r) BY <2>4, ReadOrderRedeem
  <2>5. CASE SaveOrder(r) BY <2>5, SaveOrderRedeem
  <2>6. CASE FindBiz(r) BY <2>6, FindBizRedeem
  <2>7. CASE LockUser(r) BY <2>7, LockUserRedeem
  <2>8. CASE InsertLedger(r) BY <2>8, InsertLedgerRedeem
  <2>9. CASE CommitRedeem(r) BY <2>9, CommitRedeemCounts
  <2>10. CASE CommitNotify(r) \/ CommitAdjust(r) BY <2>10, CommitOtherRedeem
  <2>11. CASE Busy(r) BY <2>11, EndRedeem DEF Busy
  <2> QED BY <1>2, <2>1, <2>2, <2>3, <2>4, <2>5, <2>6, <2>7, <2>8, <2>9, <2>10, <2>11 DEF Step
<1>3. ASSUME NEW r \in Request, Fail(r) PROVE RedeemInv' BY <1>3, EndRedeem DEF Fail
<1>0. version \in Nat /\ codes \in [Code -> CodeRow \cup {NoRow}] BY DEF IInv, TypeOK
<1>4. ASSUME NEW c \in Code, NEW p \in CodePoints, NEW m \in MaxUsesInput,
             NEW e \in 0..MaxClock, CreateCode(c, p, m, e)
      PROVE  RedeemInv'
  <2> DEFINE row == [points |-> p, max |-> IF m <= 0 THEN 1 ELSE m, used |-> 0, expires |-> e]
  <2>1. /\ codes[c] = NoRow /\ codes' = [codes EXCEPT ![c] = row] /\ version' = version + 1
        /\ UNCHANGED <<driver, ledger, uses, tx, locks, snap>>
    BY <1>4 DEF CreateCode
  <2>2. row.used = 0 /\ row.max \in Nat
    <3>1. m \in Int BY BillingAssumption
    <3> QED BY <3>1
  <2> HIDE DEF row
  <2>3. \A d \in Code : \/ codes'[d] = codes[d]
                        \/ codes[d] = NoRow /\ codes'[d].used = 0 /\ codes'[d].max \in Nat
    BY <1>0, <2>1, <2>2
  <2> QED BY <1>0, <2>1, <2>3, OutsideRedeem
<1>5. ASSUME NEW o \in Order, NEW u \in User, NEW p \in OrderPoints, CreateOrder(o, u, p)
      PROVE  RedeemInv'
  BY <1>0, <1>5, OutsideRedeem DEF CreateOrder
<1>6. CASE Tick BY <1>0, <1>6, OutsideRedeem DEF Tick, tables
<1>7. CASE UNCHANGED vars BY <1>0, <1>7, OutsideRedeem DEF vars, tables
<1> QED BY <1>1, <1>2, <1>3, <1>4, <1>5, <1>6, <1>7 DEF Next

(* What a redemption read of its code before it locked anything is, on      *)
(* SQLite, still so when it commits (redeem/service.go:62-88).              *)
THEOREM RedeemInvariant == Spec => []RedeemInv
<1> QED BY InitRedeem, NextRedeem, BillingInvariant, PTL DEF Spec

(* On SQLite no code is used more often than max_uses allows nor twice by a *)
(* user, and used_count counts the uses, although none of the checks of     *)
(* Redeem holds a lock (redeem/service.go:62-81).                           *)
THEOREM SqliteRedemptionsAreExact == Spec => []SqliteRedeemIsExact
<1>1. RedeemInv => SqliteRedeemIsExact BY DEF RedeemInv
<1> QED BY <1>1, RedeemInvariant, PTL

(* On every database the recorded uses of a code bound the uses counted and *)
(* the points it has paid (redeem/service.go:82-93).                        *)
THEOREM UsesBoundWhatIsPaid == Spec => []UsesBoundPayout
<1>1. RedeemInv => UsesBoundPayout BY DEF RedeemInv
<1> QED BY <1>1, RedeemInvariant, PTL
=============================================================================
