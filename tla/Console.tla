------------------------------- MODULE Console -------------------------------
(***************************************************************************)
(* What administrators keep - root domains, settings, the Alipay           *)
(* configuration, webhooks - and the orders and events that use it         *)
(* (domain/, config/settings.go, payment/alipay/, webhook/, the handlers). *)
(*                                                                         *)
(* Every statement runs on its own.  A save reads the row, keeps the       *)
(* secret of it when none is given, and writes the whole row back.  One    *)
(* key stands for the two of Alipay; the columns nothing here depends on   *)
(* are left out.  What an order's points do afterwards is in Billing.      *)
(***************************************************************************)
EXTENDS Integers, FiniteSets

CONSTANTS
    Domain,         \* the root domain of the installation
    Hook,           \* the webhook of the installation
    Order,          \* the order that awaits its payment
    Name,           \* names of root domains
    FirstName,
    Secret,         \* provider configurations, keys, webhook secrets, setting values
    FirstSecret,
    Blank, Mask,    \* no secret given; "***"
    Rate,           \* points per yuan an administrator may save
    Cents,          \* amounts of orders
    Request,        \* requests, each served once; what one creates is named by it
    NoRow, Broken   \* no row; a text that is not a configuration

DefaultRate == 10

Event == {"dns", "payment"}
DomainRow == [name : Name, secret : Secret]
HookRow == [secret : Secret \cup {Blank}, events : SUBSET Event, enabled : BOOLEAN]
AlipayRow == [secret : Secret \cup {Blank}, rate : Nat, enabled : BOOLEAN]
OrderRow == [points : Nat, paid : BOOLEAN]

ASSUME ConsoleAssumption ==
    /\ FirstName \in Name /\ FirstSecret \in Secret
    /\ Blank # Mask /\ {Blank, Mask} \cap Secret = {}
    /\ Rate \subseteq Nat /\ Cents \subseteq Nat \ {0}
    /\ Domain # Hook /\ {Domain, Hook} \cap {"alipay", "site"} = {}
    /\ {Domain, Hook, Order, "alipay", "site"} \cap Request = {}
    /\ NoRow # Broken /\ {NoRow, Broken} \cap Secret = {}
    /\ {NoRow, Broken} \cap {Blank, Mask} = {}
    /\ \A v \in Secret \cup {NoRow, Broken} :
         v \notin DomainRow \cup HookRow \cup AlipayRow \cup OrderRow

VARIABLES
    rows,       \* tables domains, webhooks and settings, by row
    orders,     \* table payment_orders
    req,        \* per request: program counter, arguments, locals and answer
    sent,       \* requests to webhooks that goroutines of Dispatch still make
    heard,      \* those the webhooks received
    was         \* history: the rows there have been while a request was served

vars == <<rows, orders, req, sent, heard, was>>

Row == {Domain, Hook, "alipay", "site"} \cup Request
Message == [by : Request, hook : Row, event : Event, as : HookRow]

-----------------------------------------------------------------------------
(* `row` is the row a request is about, `new` what it gives, `seen` what it *)
(* read; of a save of settings: the keys still to write.                    *)
Idle == [pc |-> "idle", kind |-> "none", row |-> NoRow, new |-> NoRow, seen |-> NoRow,
         failed |-> FALSE, earlier |-> {}, answer |-> "none"]

At(r, pc) == req[r].pc = pc
Goto(r, pc) == req' = [req EXCEPT ![r].pc = pc]
Answers(r, answer) == req' = [req EXCEPT ![r] = [@ EXCEPT !.pc = "done", !.answer = answer]]
Refused(r) == Answers(r, "refused") /\ UNCHANGED <<rows, orders>>
Sees(r, row, pc) ==
    /\ req' = [req EXCEPT ![r] = [@ EXCEPT !.pc = pc, !.seen = row]]
    /\ UNCHANGED <<rows, orders>>
Writes(r, id, row) ==
    /\ rows' = [rows EXCEPT ![id] = row]
    /\ Answers(r, "ok")
    /\ UNCHANGED orders

-----------------------------------------------------------------------------
(* domain.Save and Delete *)

(* Defect: Save goes on without the row. *)
ReadDomainOrNot(r) ==
    LET id == req[r].row IN
    /\ At(r, "readDomain")
    /\ IF rows[id] = NoRow /\ req[r].new.secret = Blank THEN Refused(r)
       ELSE Sees(r, rows[id], "writeDomain")

(* Creating needs a configuration, changing the row. *)
ReadDomain(r) ==
    LET id == req[r].row IN
    /\ At(r, "readDomain")
    /\ IF IF id = r THEN req[r].new.secret = Blank ELSE rows[id] = NoRow
       THEN Refused(r)
       ELSE Sees(r, rows[id], "writeDomain")

(* Names are unique.  Of a row deleted meanwhile gorm's Save inserts anew. *)
WriteDomain(r) ==
    LET id == req[r].row
        new == req[r].new IN
    /\ At(r, "writeDomain")
    /\ IF \E x \in Row \ {id} : rows[x] \in DomainRow /\ rows[x].name = new.name
       THEN Refused(r)
       ELSE Writes(r, id, [name |-> new.name,
                           secret |-> IF new.secret = Blank THEN req[r].seen.secret
                                      ELSE new.secret])

Delete(r) == At(r, "delete") /\ Writes(r, req[r].row, NoRow)

-----------------------------------------------------------------------------
(* The settings *)

(* Each key is written by a statement of its own, in any order. *)
SetOne(r) ==
    /\ At(r, "set")
    /\ \E k \in req[r].seen :
         /\ rows' = [rows EXCEPT ![k] = req[r].new[k]]
         /\ IF req[r].seen = {k} THEN Answers(r, "ok")
            ELSE req' = [req EXCEPT ![r].seen = @ \ {k}]
    /\ UNCHANGED orders

Default == [secret |-> Blank, rate |-> DefaultRate, enabled |-> FALSE]

(* Nothing saved is the default, and so is a row that could not be read. *)
LoadConfig(row, failed) ==
    IF row = NoRow \/ failed THEN Default
    ELSE IF row # Broken /\ row.rate = 0 THEN [row EXCEPT !.rate = DefaultRate] ELSE row

(* Defect: only an empty key means the one there is. *)
KeptIfBlank(new, old) == IF new = Blank THEN old ELSE new

(* The form shows "***" for a key there is, and sends it back. *)
Kept(new, old) == IF new \in {Blank, Mask} THEN old ELSE new

Reads(r, cfg, failed, pc) ==
    req' = [req EXCEPT ![r] = [@ EXCEPT !.pc = pc, !.seen = cfg, !.failed = failed]]

(* Without a configuration to take the key from, the handler panics. *)
ReadAlipay(r) ==
    /\ At(r, "readAlipay")
    /\ \E failed \in BOOLEAN :
         LET old == LoadConfig(rows["alipay"], failed) IN
         IF old = Broken /\ req[r].new.secret \in {Blank, Mask}
         THEN Answers(r, "lost")
         ELSE Reads(r, old, failed, "writeAlipay")
    /\ UNCHANGED <<rows, orders>>

WriteAlipay(r) ==
    /\ At(r, "writeAlipay")
    /\ Writes(r, "alipay",
              [req[r].new EXCEPT !.secret = Kept(@, req[r].seen.secret)])

-----------------------------------------------------------------------------
(* Orders *)

(* Defect: only whole yuan count. *)
PointsForYuan(cents, rate) ==
    LET points == (cents \div 100) * rate IN IF points = 0 THEN rate ELSE points

PointsFor(cents, rate) ==
    LET points == IF cents % 100 = 0 THEN (cents \div 100) * rate
                  ELSE (cents * rate) \div 100
    IN IF points = 0 THEN rate ELSE points

(* Alipay is off only if there is a key: without one orders are simulated. *)
LoadForOrder(r) ==
    /\ At(r, "loadForOrder")
    /\ \E failed \in BOOLEAN :
         LET cfg == LoadConfig(rows["alipay"], failed) IN
         IF cfg = Broken \/ (~cfg.enabled /\ cfg.secret # Blank)
         THEN Answers(r, "refused")
         ELSE Reads(r, cfg, failed, "insertOrder")
    /\ UNCHANGED <<rows, orders>>

InsertOrder(r) ==
    /\ At(r, "insertOrder")
    /\ orders' = [orders EXCEPT ![r] = [points |-> PointsFor(req[r].new, req[r].seen.rate),
                                        paid |-> FALSE]]
    /\ Answers(r, "ok")
    /\ UNCHANGED rows

MockPay(r) ==
    /\ At(r, "mock")
    /\ \E failed \in BOOLEAN :
         LET cfg == LoadConfig(rows["alipay"], failed) IN
         IF cfg = Broken \/ (cfg.secret # Blank /\ cfg.enabled)
         THEN Answers(r, "refused") ELSE Goto(r, "notify")
    /\ UNCHANGED <<rows, orders>>

(* HandleNotify succeeds at once on a trade that is not complete; else the  *)
(* configuration must load and the signature hold.  Only the handler of     *)
(* Alipay's notifications tells the webhooks.                               *)
LoadForNotify(r) ==
    /\ At(r, "notify")
    /\ \/ req[r].new = "waiting" /\ Goto(r, "dispatch")
       \/ req[r].new = "success" /\ rows["alipay"] # Broken /\ Goto(r, "pay")
       \/ req[r].new = "success" /\ Answers(r, "refused")
    /\ UNCHANGED <<rows, orders>>

(* Defect: the event does not wait for the payment's success. *)
PayAndDispatch(r) ==
    LET o == req[r].row IN
    /\ At(r, "pay")
    /\ orders' = IF orders[o] = NoRow THEN orders ELSE [orders EXCEPT ![o].paid = TRUE]
    /\ IF req[r].kind = "notify" THEN Goto(r, "dispatch") ELSE Answers(r, "ok")
    /\ UNCHANGED rows

Pay(r) ==
    LET o == req[r].row IN
    /\ At(r, "pay")
    /\ IF orders[o] = NoRow THEN Refused(r)
       ELSE /\ orders' = [orders EXCEPT ![o].paid = TRUE]
            /\ IF req[r].kind = "notify" THEN Goto(r, "dispatch") ELSE Answers(r, "ok")
            /\ UNCHANGED rows

-----------------------------------------------------------------------------
(* Webhooks *)

CreateHook(r) ==
    At(r, "createHook") /\ Writes(r, r, [req[r].new EXCEPT !.enabled = TRUE])

ReadHook(r) ==
    /\ At(r, "readHook")
    /\ IF rows[req[r].row] = NoRow THEN Refused(r)
       ELSE Sees(r, rows[req[r].row], "writeHook")

(* Defect: no secret given is no secret kept. *)
WriteHookAsGiven(r) == At(r, "writeHook") /\ Writes(r, req[r].row, req[r].new)

WriteHook(r) ==
    LET old == req[r].seen.secret IN
    /\ At(r, "writeHook")
    /\ Writes(r, req[r].row, [req[r].new EXCEPT !.secret = IF @ = Blank THEN old ELSE @])

EventOf(r) == IF req[r].kind = "dns" THEN "dns" ELSE "payment"

(* Defect: webhooks switched off are told as well. *)
DispatchToAll(r) ==
    /\ At(r, "dispatch")
    /\ sent' = sent \cup {[by |-> r, hook |-> h, event |-> EventOf(r), as |-> rows[h]] :
                            h \in {x \in Row : rows[x] \in HookRow
                                                /\ EventOf(r) \in rows[x].events}}
    /\ Answers(r, "ok")
    /\ UNCHANGED <<rows, orders>>

(* The enabled webhooks are read once; a goroutine each has a copy of its    *)
(* row.  When the read fails nobody is told, and the request still succeeds. *)
Dispatch(r) ==
    LET hooks == {x \in Row : /\ rows[x] \in HookRow /\ rows[x].enabled
                              /\ EventOf(r) \in rows[x].events} IN
    /\ At(r, "dispatch")
    /\ \E told \in {{}, hooks} :
         sent' = sent \cup {[by |-> r, hook |-> h, event |-> EventOf(r), as |-> rows[h]] :
                            h \in told}
    /\ Answers(r, "ok")
    /\ UNCHANGED <<rows, orders>>

(* One attempt each: received, or lost for good. *)
Send(m) ==
    /\ sent' = sent \ {m}
    /\ heard' \in {heard, heard \cup {m}}
    /\ UNCHANGED <<rows, orders, req>>

-----------------------------------------------------------------------------
(* A handler of record/ succeeded, or did not (module Records). *)
DnsChange(r) ==
    /\ At(r, "dnsChange")
    /\ \/ Goto(r, "dispatch")
       \/ Answers(r, "refused")
    /\ UNCHANGED <<rows, orders>>

Fail(r) ==
    /\ req[r].pc \notin {"idle", "done", "dispatch"}
    /\ Answers(r, "lost")
    /\ UNCHANGED <<rows, orders>>

-----------------------------------------------------------------------------
Init ==
    /\ rows = [x \in Row |->
         CASE x = Domain -> [name |-> FirstName, secret |-> FirstSecret]
           [] x = Hook -> [secret |-> FirstSecret, events |-> Event, enabled |-> TRUE]
           [] OTHER -> NoRow]
    /\ orders = [o \in {Order} \cup Request |->
                   IF o = Order THEN [points |-> DefaultRate, paid |-> FALSE] ELSE NoRow]
    /\ req = [r \in Request |-> Idle]
    /\ sent = {} /\ heard = {}
    /\ was = [r \in Request |-> {}]

Starts(r, pc, kind, row, new) ==
    /\ req' = [req EXCEPT ![r] =
                 [Idle EXCEPT !.pc = pc, !.kind = kind, !.row = row, !.new = new,
                              !.seen = IF kind = "settings" THEN DOMAIN new ELSE NoRow,
                              !.earlier = {s \in Request : At(s, "done")}]]
    /\ UNCHANGED <<rows, orders>>

GivenSecret == Secret \cup {Blank}

Settings == [{"site"} -> Secret] \cup [{"alipay"} -> {Broken}]
            \cup {[k \in {"site", "alipay"} |-> IF k = "site" THEN v ELSE Broken] :
                     v \in Secret}

(* Requests on rows that others create name them once they are there. *)
Arrival(r) ==
    /\ At(r, "idle")
    /\ \/ \E x \in {Domain, r} \cup {y \in Row : rows[y] \in DomainRow},
             n \in Name, s \in GivenSecret :
            Starts(r, "readDomain", "save", x, [name |-> n, secret |-> s])
       \/ \E x \in {y \in Row : rows[y] \in DomainRow \cup HookRow} :
            Starts(r, "delete", "delete", x, NoRow)
       \/ \E new \in Settings : Starts(r, "set", "settings", NoRow, new)
       \/ \E s \in GivenSecret \cup {Mask}, n \in Rate, e \in BOOLEAN :
            Starts(r, "readAlipay", "save", "alipay",
                   [secret |-> s, rate |-> n, enabled |-> e])
       \/ \E n \in Cents : Starts(r, "loadForOrder", "order", NoRow, n)
       \/ \E o \in {x \in DOMAIN orders : x # r} :
            \/ Starts(r, "mock", "mock", o, "success")
            \/ \E status \in {"success", "waiting"} : Starts(r, "notify", "notify", o, status)
       \/ \E s \in GivenSecret, ev \in SUBSET Event :
            \/ Starts(r, "createHook", "save", r,
                      [secret |-> s, events |-> ev, enabled |-> TRUE])
            \/ \E x \in {Hook} \cup {y \in Row : rows[y] \in HookRow}, e \in BOOLEAN :
                 Starts(r, "readHook", "save", x,
                        [secret |-> s, events |-> ev, enabled |-> e])
       \/ Starts(r, "dnsChange", "dns", NoRow, NoRow)

Step(r) ==
    \/ ReadDomain(r) \/ WriteDomain(r) \/ Delete(r) \/ SetOne(r)
    \/ ReadAlipay(r) \/ WriteAlipay(r)
    \/ LoadForOrder(r) \/ InsertOrder(r) \/ MockPay(r) \/ LoadForNotify(r) \/ Pay(r)
    \/ CreateHook(r) \/ ReadHook(r) \/ WriteHook(r) \/ DnsChange(r)

(* The rows an order is priced by, and those a dispatch may read. *)
Watched(q) ==
    IF q.pc \in {"idle", "done"} THEN {}
    ELSE CASE q.kind = "order" -> {"alipay"}
           [] q.kind \in {"dns", "notify"} -> {x \in Row : rows[x] \in HookRow}
           [] OTHER -> {}

Note ==
    was' = [r \in Request |-> was[r] \cup {<<x, rows'[x]>> : x \in Watched(req[r])'}]

Next ==
    /\ \/ \E r \in Request : (Arrival(r) \/ Step(r) \/ Fail(r)) /\ UNCHANGED <<sent, heard>>
       \/ \E r \in Request : Dispatch(r) /\ UNCHANGED heard
       \/ \E m \in sent : Send(m)
    /\ Note

Spec == Init /\ [][Next]_vars

-----------------------------------------------------------------------------
(* Type invariant: every row is whole; "***" is nobody's key. *)
TypeOK ==
    /\ rows \in [Row -> DomainRow \cup HookRow \cup AlipayRow \cup Secret \cup {NoRow, Broken}]
    /\ orders \in [{Order} \cup Request -> OrderRow \cup {NoRow}]
    /\ rows["alipay"] \in AlipayRow \cup {NoRow, Broken}
    /\ rows["site"] \in Secret \cup {NoRow}
    /\ sent \cup heard \subseteq Message
    /\ \A r \in Request :
         /\ req[r].answer \in {"none", "ok", "refused", "lost"}
         /\ (req[r].answer = "none") = ~At(r, "done")

WrittenBy(q) == IF q.kind = "settings" THEN DOMAIN q.new
                ELSE IF q.kind \in {"save", "delete"} THEN {q.row} ELSE {}
Given(q, x) == IF q.kind = "settings" THEN q.new[x] ELSE q.new.secret
Stored(x) == IF rows[x] \in DomainRow \cup HookRow \cup AlipayRow THEN rows[x].secret
             ELSE rows[x]

(* A secret or a setting an acknowledged request gave is the one stored as *)
(* long as every other request for that row either was over before, or     *)
(* came later, gave none and could read what there was: saves that write   *)
(* whole rows back carry it over.                                          *)
LastEnteredHolds ==
    \A r \in Request : \A x \in WrittenBy(req[r]) :
        /\ req[r].answer = "ok" /\ req[r].kind # "delete"
        /\ Given(req[r], x) \notin {Blank, Mask}
        /\ \A s \in Request \ {r} :
             x \in WrittenBy(req[s]) /\ req[s].answer # "refused" =>
               \/ s \in req[r].earlier
               \/ /\ r \in req[s].earlier /\ req[s].kind = "save" /\ ~req[s].failed
                  /\ Given(req[s], x) \in {Blank, Mask}
        => Stored(x) = Given(req[r], x)

(* A root domain or a webhook whose deletion was acknowledged is gone for  *)
(* good, unless a save of it was being served at the same time: such a     *)
(* save writes the row it read and brings it back.                         *)
DeletedStaysDeleted ==
    \A r \in Request :
        /\ req[r].kind = "delete" /\ req[r].answer = "ok"
        /\ \A s \in Request \ {r} :
             req[r].row \in WrittenBy(req[s]) =>
               s \in req[r].earlier \/ r \in req[s].earlier
        => rows[req[r].row] = NoRow

(* An order's points are its amount at a rate that was in force while it   *)
(* was made, to the last cent - or at the default rate if the              *)
(* configuration could not be read -, and never nothing.                   *)
PricedInForce ==
    \A r \in Request :
        req[r].kind = "order" /\ req[r].answer = "ok" =>
          \E row \in {w[2] : w \in was[r]} \ (IF req[r].failed THEN {} ELSE {Broken}) :
            LET exact == req[r].new * LoadConfig(row, req[r].failed).rate
                points == orders[r].points
            IN IF exact < 100 THEN points * 100 >= exact /\ points > 0
               ELSE points * 100 <= exact /\ exact < (points + 1) * 100

(* A webhook hears only what it was switched on and subscribed for, with   *)
(* one and the same row, while the operation was served: an older or a     *)
(* mixed copy of its row is never used.                                    *)
HeardAsSubscribed ==
    \A m \in heard :
        <<m.hook, m.as>> \in was[m.by] /\ m.as.enabled /\ m.event \in m.as.events

(* When a webhook hears of a trade that succeeded, the order is paid: the  *)
(* event comes after the transaction (server/handlers_payment.go:54-59).   *)
PaidWhenTold ==
    \A m \in heard :
        m.event = "payment" /\ req[m.by].new = "success" =>
          LET o == orders[req[m.by].row] IN o # NoRow /\ o.paid
=============================================================================
