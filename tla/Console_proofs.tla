--------------------------- MODULE Console_proofs ---------------------------
(***************************************************************************)
(* Proofs about Console, for any number of requests, names, secrets,       *)
(* rates and amounts.                                                      *)
(*                                                                         *)
(* The argument: a save that carries a secret over read it after the       *)
(* request that entered it was over, and nobody wrote the row in between   *)
(* but saves of the same kind; a save that comes after a deletion finds    *)
(* no row to read; and whatever an order or an event uses was in the       *)
(* table while it was served, because the history is noted at every step.  *)
(***************************************************************************)
EXTENDS Console, TLAPS

DomainForm == [name : Name, secret : GivenSecret]
AlipayForm == [secret : GivenSecret \cup {Mask}, rate : Rate, enabled : BOOLEAN]
HookForm == [secret : GivenSecret, events : SUBSET Event, enabled : BOOLEAN]
Key == {"site", "alipay"}

RowValue == DomainRow \cup HookRow \cup AlipayRow \cup Secret \cup {NoRow, Broken}
NewValue == DomainForm \cup AlipayForm \cup HookForm \cup Settings \cup Cents
            \cup {"success", "waiting", NoRow}
SeenValue == RowValue \cup SUBSET Key

Pcs == {"idle", "readDomain", "writeDomain", "delete", "set", "readAlipay", "writeAlipay",
        "loadForOrder", "insertOrder", "mock", "notify", "pay", "createHook", "readHook",
        "writeHook", "dnsChange", "dispatch", "done"}
Kinds == {"none", "save", "delete", "settings", "order", "mock", "notify", "dns"}
AnswerSet == {"none", "ok", "refused", "lost"}

Asking == [pc : Pcs, kind : Kinds, row : Row \cup {Order, NoRow}, new : NewValue,
           seen : SeenValue, failed : BOOLEAN, earlier : SUBSET Request, answer : AnswerSet]
Reqs == [Request -> Asking]

(* Whose row it is: the two tables never share one. *)
Creates(x, form) == req[x].kind = "save" /\ req[x].row = x /\ req[x].new \in form
IsDomain(x) == x = Domain \/ (x \in Request /\ Creates(x, DomainForm))
IsHook(x) == x = Hook \/ (x \in Request /\ Creates(x, HookForm))

(* What a request asks for. *)
AskInv(r) ==
    /\ At(r, "idle") => req[r] = Idle
    /\ req[r].kind = "save" =>
         /\ \/ req[r].row = "alipay" /\ req[r].new \in AlipayForm
            \/ IsDomain(req[r].row) /\ req[r].new \in DomainForm
            \/ IsHook(req[r].row) /\ req[r].new \in HookForm
    /\ req[r].kind = "delete" => IsDomain(req[r].row) \/ IsHook(req[r].row)
    /\ req[r].kind = "settings" => req[r].new \in Settings
    /\ req[r].kind = "order" => req[r].new \in Cents
    /\ req[r].kind \in {"mock", "notify"} =>
         /\ req[r].row \in {Order} \cup Request /\ req[r].row # r
         /\ req[r].new \in {"success", "waiting"}
         /\ req[r].kind = "mock" => req[r].new = "success"

(* How far a request is. *)
PcInv(r) ==
    /\ req[r].answer = "none" <=> ~At(r, "done")
    /\ req[r].pc \in {"readDomain", "writeDomain"} =>
         req[r].kind = "save" /\ IsDomain(req[r].row) /\ req[r].new \in DomainForm
    /\ At(r, "writeDomain") /\ req[r].new.secret = Blank => req[r].seen \in DomainRow
    /\ At(r, "delete") => req[r].kind = "delete"
    /\ At(r, "set") => req[r].kind = "settings" /\ req[r].seen \in SUBSET DOMAIN req[r].new
    /\ req[r].pc \in {"readAlipay", "writeAlipay"} =>
         req[r].kind = "save" /\ req[r].row = "alipay" /\ req[r].new \in AlipayForm
    /\ At(r, "writeAlipay") /\ req[r].new.secret \in {Blank, Mask} => req[r].seen \in AlipayRow
    /\ req[r].pc \in {"loadForOrder", "insertOrder"} => req[r].kind = "order"
    /\ At(r, "insertOrder") => req[r].seen \in AlipayRow /\ req[r].seen.rate # 0
    /\ At(r, "mock") => req[r].kind = "mock"
    /\ req[r].pc \in {"notify", "pay"} => req[r].kind \in {"mock", "notify"}
    /\ At(r, "dispatch") => req[r].kind \in {"dns", "notify"}
    /\ At(r, "dnsChange") => req[r].kind = "dns"
    /\ At(r, "createHook") => req[r].row = r
    /\ req[r].pc \in {"createHook", "readHook", "writeHook"} =>
         req[r].kind = "save" /\ IsHook(req[r].row) /\ req[r].new \in HookForm
    /\ At(r, "writeHook") => req[r].seen \in HookRow

RowInv(x) ==
    \/ rows[x] = NoRow
    \/ IsDomain(x) /\ rows[x] \in DomainRow
    \/ IsHook(x) /\ rows[x] \in HookRow
    \/ x = "alipay" /\ rows[x] \in AlipayRow \cup {Broken}
    \/ x = "site" /\ rows[x] \in Secret

(* Who was over before a request; a row is named once it is there. *)
EarlierInv(r) ==
    /\ \A s \in req[r].earlier : s # r /\ At(s, "done")
    /\ req[r].kind \in {"save", "delete"} /\ req[r].row \in Request \ {r} =>
         ~At(req[r].row, "idle") /\ r \notin req[req[r].row].earlier

(* An order is inserted once; a payment that is told is recorded. *)
OrderInv(r) ==
    /\ orders[r] # NoRow => req[r].kind = "order" /\ At(r, "done")
    /\ req[r].kind = "notify" /\ req[r].new = "success"
       /\ (At(r, "dispatch") \/ req[r].answer = "ok") =>
         orders[req[r].row] # NoRow /\ orders[req[r].row].paid

(* The rates there have been while an order was made. *)
InForce(r) ==
    {LoadConfig(row, req[r].failed).rate :
       row \in {w[2] : w \in was[r]} \ (IF req[r].failed THEN {} ELSE {Broken})}

PriceInv(r) ==
    req[r].kind = "order" =>
      /\ At(r, "insertOrder") => req[r].seen.rate \in InForce(r)
      /\ req[r].answer = "ok" =>
           /\ orders[r] # NoRow
           /\ \E rate \in InForce(r) \cap (Nat \ {0}) : orders[r].points = PointsFor(req[r].new, rate)

WatchInv(r) == \A x \in Watched(req[r]) : <<x, rows[x]>> \in was[r]

(* What goroutines send was read while the operation was served. *)
MessageInv(m) ==
    /\ <<m.hook, m.as>> \in was[m.by] /\ m.as.enabled /\ m.event \in m.as.events
    /\ req[m.by].answer = "ok"
    /\ m.event = "payment" => req[m.by].kind = "notify"

(* A deletion that nobody's save overlaps. *)
Undisturbed(r) ==
    /\ req[r].kind = "delete" /\ req[r].answer = "ok"
    /\ \A s \in Request \ {r} :
         req[r].row \in WrittenBy(req[s]) => s \in req[r].earlier \/ r \in req[s].earlier

DeletedInv(r) ==
    Undisturbed(r) =>
      /\ rows[req[r].row] = NoRow
      /\ \A s \in Request \ {r} :
           req[r].row \in WrittenBy(req[s]) =>
             req[s].pc \in {"readDomain", "readHook", "delete", "done"}

(* Request s may have written row x; request r has entered what x stores. *)
Wrote(s, x) ==
    /\ x \in WrittenBy(req[s])
    /\ req[s].answer \in {"ok", "lost"} \/ (At(s, "set") /\ x \notin req[s].seen)

Entered(r, x) ==
    /\ x \in WrittenBy(req[r]) /\ req[r].kind # "delete"
    /\ Given(req[r], x) \notin {Blank, Mask}
    /\ req[r].answer = "ok" \/ (At(r, "set") /\ x \notin req[r].seen)

CarriesOver(s, r, x) ==
    /\ r \in req[s].earlier /\ req[s].kind = "save" /\ ~req[s].failed
    /\ x \in WrittenBy(req[s]) /\ Given(req[s], x) \in {Blank, Mask}

LastWord(r, x) ==
    /\ Entered(r, x)
    /\ \A s \in Request \ {r} : Wrote(s, x) => s \in req[r].earlier \/ CarriesOver(s, r, x)

LastInv(r) ==
    \A x \in Row :
      LastWord(r, x) =>
        /\ Stored(x) = Given(req[r], x)
        /\ \A s \in Request \ {r} :
             CarriesOver(s, r, x) /\ req[s].pc \in {"writeDomain", "writeAlipay", "writeHook"} =>
               req[s].seen.secret = Given(req[r], x)

IInv ==
    /\ req \in Reqs
    /\ rows \in [Row -> RowValue]
    /\ orders \in [{Order} \cup Request -> OrderRow \cup {NoRow}]
    /\ sent \cup heard \subseteq Message
    /\ was \in [Request -> SUBSET (Row \X RowValue)]
    /\ \A x \in Row : RowInv(x)
    /\ \A m \in sent \cup heard : MessageInv(m)
    /\ \A r \in Request :
         /\ AskInv(r) /\ PcInv(r) /\ EarlierInv(r) /\ OrderInv(r) /\ PriceInv(r)
         /\ WatchInv(r) /\ DeletedInv(r) /\ LastInv(r)
-----------------------------------------------------------------------------
(* What the ways to move on do to a request. *)

OthersStay(a) == \A s \in Request \ {a} : req'[s] = req[s]

SameAsk(a) ==
    /\ req'[a].kind = req[a].kind /\ req'[a].row = req[a].row
    /\ req'[a].new = req[a].new /\ req'[a].earlier = req[a].earlier

(* A request that is being served moves on. *)
Serves(a) ==
    /\ req' \in Reqs /\ OthersStay(a) /\ SameAsk(a)
    /\ ~At(a, "idle") /\ ~At(a, "done") /\ ~At(a, "idle")'

LEMMA GotoFacts ==
    ASSUME req \in Reqs, NEW a \in Request, NEW p \in Pcs, p # "idle",
           ~At(a, "idle"), ~At(a, "done"), Goto(a, p)
    PROVE  /\ Serves(a) /\ req'[a].pc = p /\ req'[a].seen = req[a].seen
           /\ req'[a].failed = req[a].failed /\ req'[a].answer = req[a].answer
PROOF
    <1>1. req' \in Reqs
        BY DEF Goto, Reqs, Asking
    <1> QED BY <1>1 DEF Goto, Reqs, Asking, OthersStay, SameAsk, Serves, At

LEMMA AnswersFacts ==
    ASSUME req \in Reqs, NEW a \in Request, NEW y \in AnswerSet,
           ~At(a, "idle"), ~At(a, "done"), Answers(a, y)
    PROVE  /\ Serves(a) /\ req'[a].pc = "done" /\ req'[a].seen = req[a].seen
           /\ req'[a].failed = req[a].failed /\ req'[a].answer = y
PROOF
    <1> DEFINE q == [req[a] EXCEPT !.pc = "done"]
    <1>1. q \in Asking
        BY DEF Reqs, Asking, Pcs
    <1>2. [q EXCEPT !.answer = y] \in Asking
        BY <1>1 DEF Asking
    <1>3. req' = [req EXCEPT ![a] = [q EXCEPT !.answer = y]]
        BY DEF Answers
    <1>4. /\ req' \in Reqs /\ OthersStay(a) /\ SameAsk(a) /\ req'[a].pc = "done"
          /\ req'[a].seen = req[a].seen /\ req'[a].failed = req[a].failed
          /\ req'[a].answer = y
        BY <1>1, <1>2, <1>3 DEF Reqs, Asking, OthersStay, SameAsk
    <1> QED BY <1>4 DEF Serves, At

LEMMA SeesFacts ==
    ASSUME req \in Reqs, NEW a \in Request, NEW v \in SeenValue, NEW p \in Pcs, p # "idle",
           ~At(a, "idle"), ~At(a, "done"),
           req' = [req EXCEPT ![a] = [@ EXCEPT !.pc = p, !.seen = v]]
    PROVE  /\ Serves(a) /\ req'[a].pc = p /\ req'[a].seen = v
           /\ req'[a].failed = req[a].failed /\ req'[a].answer = req[a].answer
PROOF
    <1> DEFINE q == [req[a] EXCEPT !.pc = p]
    <1>1. q \in Asking
        BY DEF Reqs, Asking
    <1>2. [q EXCEPT !.seen = v] \in Asking
        BY <1>1 DEF Asking
    <1>3. req' = [req EXCEPT ![a] = [q EXCEPT !.seen = v]]
        OBVIOUS
    <1>4. /\ req' \in Reqs /\ OthersStay(a) /\ SameAsk(a) /\ req'[a].pc = p
          /\ req'[a].seen = v /\ req'[a].failed = req[a].failed
          /\ req'[a].answer = req[a].answer
        BY <1>1, <1>2, <1>3 DEF Reqs, Asking, OthersStay, SameAsk
    <1> QED BY <1>4 DEF Serves, At

LEMMA ReadsFacts ==
    ASSUME req \in Reqs, NEW a \in Request, NEW v \in SeenValue, NEW f \in BOOLEAN,
           NEW p \in Pcs, p # "idle", ~At(a, "idle"), ~At(a, "done"), Reads(a, v, f, p)
    PROVE  /\ Serves(a) /\ req'[a].pc = p /\ req'[a].seen = v
           /\ req'[a].failed = f /\ req'[a].answer = req[a].answer
PROOF
    <1> DEFINE q1 == [req[a] EXCEPT !.pc = p]
    <1> DEFINE q2 == [q1 EXCEPT !.seen = v]
    <1>1. q1 \in Asking
        BY DEF Reqs, Asking
    <1>2. q2 \in Asking
        BY <1>1 DEF Asking
    <1>3. [q2 EXCEPT !.failed = f] \in Asking
        BY <1>2 DEF Asking
    <1>4. req' = [req EXCEPT ![a] = [q2 EXCEPT !.failed = f]]
        BY DEF Reads
    <1>5. /\ req' \in Reqs /\ OthersStay(a) /\ SameAsk(a) /\ req'[a].pc = p
          /\ req'[a].seen = v /\ req'[a].answer = req[a].answer
        BY <1>1, <1>2, <1>3, <1>4 DEF Reqs, Asking, OthersStay, SameAsk
    <1>6. req'[a].failed = f
        BY <1>2, <1>4, Zenon DEF Reqs, Asking
    <1> QED BY <1>5, <1>6 DEF Serves, At

LEMMA SetFacts ==
    ASSUME req \in Reqs, NEW a \in Request, NEW v \in SUBSET Key, At(a, "set"),
           req' = [req EXCEPT ![a].seen = v]
    PROVE  /\ Serves(a) /\ req'[a].pc = "set" /\ req'[a].seen = v
           /\ req'[a].failed = req[a].failed /\ req'[a].answer = req[a].answer
PROOF
    <1>1. v \in SeenValue
        BY DEF SeenValue
    <1>2. req' \in Reqs
        BY <1>1 DEF Reqs, Asking
    <1> QED BY <1>2 DEF Reqs, Asking, OthersStay, SameAsk, Serves, At

LEMMA StartsFacts ==
    ASSUME req \in Reqs, NEW a \in Request, req[a] = Idle, NEW p \in Pcs, NEW k \in Kinds,
           NEW x \in Row \cup {Order, NoRow}, NEW v \in NewValue,
           k = "settings" => v \in Settings, Starts(a, p, k, x, v)
    PROVE  /\ req' \in Reqs /\ OthersStay(a) /\ UNCHANGED <<rows, orders>>
           /\ req'[a].pc = p /\ req'[a].kind = k /\ req'[a].row = x /\ req'[a].new = v
           /\ req'[a].earlier = {s \in Request : At(s, "done")}
           /\ req'[a].answer = "none"
           /\ k = "settings" => req'[a].seen = DOMAIN v
PROOF
    <1> DEFINE seen == IF k = "settings" THEN DOMAIN v ELSE NoRow
    <1> DEFINE over == {s \in Request : At(s, "done")}
    <1> DEFINE q1 == [Idle EXCEPT !.pc = p]
    <1> DEFINE q2 == [q1 EXCEPT !.kind = k]
    <1> DEFINE q3 == [q2 EXCEPT !.row = x]
    <1> DEFINE q4 == [q3 EXCEPT !.new = v]
    <1> DEFINE q5 == [q4 EXCEPT !.seen = seen]
    <1> DEFINE q6 == [q5 EXCEPT !.earlier = over]
    <1>1. Idle \in Asking
        BY DEF Reqs
    <1>2. seen \in SeenValue
        BY DEF SeenValue, RowValue, Settings, Key
    <1> HIDE DEF seen
    <1>3. q1 \in Asking
        BY <1>1 DEF Asking
    <1>4. q2 \in Asking
        BY <1>3 DEF Asking
    <1>5. q3 \in Asking
        BY <1>4 DEF Asking
    <1>6. q4 \in Asking
        BY <1>5 DEF Asking
    <1>7. q5 \in Asking
        BY <1>2, <1>6 DEF Asking
    <1>8. q6 \in Asking
        BY <1>7 DEF Asking
    <1>9. q6.pc = p /\ q6.kind = k /\ q6.row = x /\ q6.new = v /\ q6.seen = seen
          /\ q6.earlier = over /\ q6.answer = Idle.answer
        BY <1>1 DEF Asking
    <1>10. req' = [req EXCEPT ![a] = q6] /\ UNCHANGED <<rows, orders>>
        BY DEF Starts, seen
    <1> HIDE DEF q6, over
    <1>11. req' \in Reqs /\ OthersStay(a) /\ req'[a] = q6
        BY <1>8, <1>10 DEF Reqs, OthersStay
    <1>12. Idle.answer = "none"
        BY DEF Idle
    <1>13. k = "settings" => seen = DOMAIN v
        BY DEF seen
    <1> QED BY <1>9, <1>10, <1>11, <1>12, <1>13 DEF over
-----------------------------------------------------------------------------
(* The rows of the tables, and who asks for what. *)

(* The forms and the rows of different tables have different columns. *)
LEMMA FormsDiffer ==
    /\ \A v \in DomainForm : v \notin AlipayForm \cup HookForm
    /\ \A v \in AlipayForm : v \notin HookForm
PROOF
    <1>1. ASSUME NEW v \in DomainForm
          PROVE  v \notin AlipayForm \cup HookForm
        <2>1. DOMAIN v = {"name", "secret"}
            BY DEF DomainForm
        <2>2. v \notin AlipayForm
            BY <2>1 DEF AlipayForm
        <2>3. v \notin HookForm
            BY <2>1 DEF HookForm
        <2> QED BY <2>2, <2>3
    <1>2. ASSUME NEW v \in AlipayForm
          PROVE  v \notin HookForm
        <2>1. DOMAIN v = {"secret", "rate", "enabled"}
            BY DEF AlipayForm
        <2> QED BY <2>1 DEF HookForm
    <1> QED BY <1>1, <1>2

LEMMA RowsDiffer ==
    /\ \A v \in DomainRow : v \notin AlipayRow \cup HookRow
    /\ \A v \in AlipayRow : v \notin HookRow
PROOF
    <1>1. ASSUME NEW v \in DomainRow
          PROVE  v \notin AlipayRow \cup HookRow
        <2>1. DOMAIN v = {"name", "secret"}
            BY DEF DomainRow
        <2>2. v \notin AlipayRow
            BY <2>1 DEF AlipayRow
        <2>3. v \notin HookRow
            BY <2>1 DEF HookRow
        <2> QED BY <2>2, <2>3
    <1>2. ASSUME NEW v \in AlipayRow
          PROVE  v \notin HookRow
        <2>1. DOMAIN v = {"secret", "rate", "enabled"}
            BY DEF AlipayRow
        <2> QED BY <2>1 DEF HookRow
    <1> QED BY <1>1, <1>2

LEMMA NoValueIsARow ==
    ASSUME NEW v \in Secret \cup {NoRow, Broken}
    PROVE  v \notin DomainRow \cup HookRow \cup AlipayRow \cup OrderRow
PROOF
    BY ConsoleAssumption

LEMMA Owners ==
    ASSUME NEW x
    PROVE  /\ IsDomain(x) => ~IsHook(x) /\ x \in Row \ Key
           /\ IsHook(x) => x \in Row \ Key
PROOF
    <1>1. IsDomain(x) => ~IsHook(x)
        BY FormsDiffer, ConsoleAssumption DEF IsDomain, IsHook, Creates
    <1>2. IsDomain(x) \/ IsHook(x) => x \in Row \ Key
        BY ConsoleAssumption DEF IsDomain, IsHook, Row, Key
    <1> QED BY <1>1, <1>2

(* What is in a row that may be there. *)
LEMMA RowIs ==
    ASSUME NEW x, RowInv(x)
    PROVE  /\ IsDomain(x) => rows[x] \in DomainRow \cup {NoRow}
           /\ IsHook(x) => rows[x] \in HookRow \cup {NoRow}
           /\ x = "alipay" => rows[x] \in AlipayRow \cup {NoRow, Broken}
           /\ x = "site" => rows[x] \in Secret \cup {NoRow}
           /\ rows[x] \in DomainRow => IsDomain(x)
           /\ rows[x] \in HookRow => IsHook(x)
PROOF
    <1>1. /\ IsDomain(x) => ~IsHook(x) /\ x \in Row \ Key
          /\ IsHook(x) => x \in Row \ Key
        BY Owners
    <1>2. x \in Key => ~IsDomain(x) /\ ~IsHook(x)
        BY <1>1
    <1>3. \A v \in Secret \cup {NoRow, Broken} : v \notin DomainRow \cup HookRow \cup AlipayRow
        BY NoValueIsARow
    <1>4. CASE rows[x] = NoRow
        BY <1>3, <1>4
    <1>5. CASE IsDomain(x) /\ rows[x] \in DomainRow
        BY <1>1, <1>2, <1>5, RowsDiffer DEF Key
    <1>6. CASE IsHook(x) /\ rows[x] \in HookRow
        BY <1>1, <1>2, <1>6, RowsDiffer DEF Key
    <1>7. CASE x = "alipay" /\ rows[x] \in AlipayRow \cup {Broken}
        BY <1>2, <1>3, <1>7, RowsDiffer DEF Key
    <1>8. CASE x = "site" /\ rows[x] \in Secret
        BY <1>2, <1>3, <1>8 DEF Key
    <1> QED BY <1>4, <1>5, <1>6, <1>7, <1>8 DEF RowInv

LEMMA WrittenRows ==
    ASSUME NEW r \in Request, AskInv(r)
    PROVE  /\ WrittenBy(req[r]) \subseteq Row
           /\ req[r].kind \in {"none", "order", "mock", "notify", "dns"} => WrittenBy(req[r]) = {}
           /\ req[r].kind = "settings" => WrittenBy(req[r]) \subseteq Key
           /\ req[r].kind = "delete" => req[r].row \in Row \ Key
PROOF
    <1>1. req[r].kind = "settings" => DOMAIN req[r].new \subseteq Key
        BY DEF AskInv, Settings, Key
    <1>2. req[r].kind = "delete" => req[r].row \in Row \ Key
        BY Owners DEF AskInv
    <1>3. req[r].kind = "save" => req[r].row \in Row
        BY Owners DEF AskInv, Row
    <1>4. Key \subseteq Row
        BY DEF Key, Row
    <1> QED BY <1>1, <1>2, <1>3, <1>4 DEF WrittenBy

(* A secret that is entered is one, or a text in its place. *)
LEMMA EnteredIsSecret ==
    ASSUME NEW r \in Request, AskInv(r), NEW x \in WrittenBy(req[r]), req[r].kind # "delete",
           Given(req[r], x) \notin {Blank, Mask}
    PROVE  Given(req[r], x) \in Secret \cup {Broken}
PROOF
    <1>1. req[r].kind \in {"save", "settings"}
        BY DEF WrittenBy
    <1>2. CASE req[r].kind = "save"
        <2>1. req[r].new.secret \in GivenSecret \cup {Mask}
            BY <1>2 DEF AskInv, DomainForm, AlipayForm, HookForm
        <2> QED BY <1>2, <2>1 DEF Given, GivenSecret
    <1>3. CASE req[r].kind = "settings"
        <2>1. req[r].new \in Settings /\ x \in DOMAIN req[r].new
            BY <1>3 DEF AskInv, WrittenBy
        <2>2. req[r].new[x] \in Secret \cup {Broken}
            BY <2>1 DEF Settings
        <2> QED BY <1>3, <2>2 DEF Given
    <1> QED BY <1>1, <1>2, <1>3
-----------------------------------------------------------------------------
(* What a step of request a leaves alone. *)

LEMMA OwnersStay ==
    ASSUME NEW a \in Request, Serves(a)
    PROVE  /\ \A x : IsDomain(x)' <=> IsDomain(x)
           /\ \A x : IsHook(x)' <=> IsHook(x)
PROOF
    BY DEF Serves, OthersStay, SameAsk, IsDomain, IsHook, Creates, DomainForm, HookForm,
           GivenSecret

LEMMA AskKept ==
    ASSUME IInv, NEW a \in Request, Serves(a), NEW r \in Request
    PROVE  AskInv(r)'
PROOF
    <1>1. AskInv(r)
        BY DEF IInv
    <1>2. /\ \A x : IsDomain(x)' <=> IsDomain(x)
          /\ \A x : IsHook(x)' <=> IsHook(x)
        BY OwnersStay
    <1>3. CASE r = a
        BY <1>1, <1>2, <1>3 DEF AskInv, Serves, SameAsk, At, AlipayForm, DomainForm, HookForm,
            GivenSecret, Settings
    <1>4. CASE r # a
        <2>1. req'[r] = req[r]
            BY <1>4 DEF Serves, OthersStay
        <2> QED BY <1>1, <1>2, <2>1 DEF AskInv, At, AlipayForm, DomainForm, HookForm,
                GivenSecret, Settings
    <1> QED BY <1>3, <1>4

LEMMA PcOfOthers ==
    ASSUME IInv, NEW a \in Request, Serves(a), NEW s \in Request \ {a}
    PROVE  PcInv(s)'
PROOF
    <1>1. PcInv(s) /\ req'[s] = req[s]
        BY DEF IInv, Serves, OthersStay
    <1>2. /\ \A x : IsDomain(x)' <=> IsDomain(x)
          /\ \A x : IsHook(x)' <=> IsHook(x)
        BY OwnersStay
    <1> QED BY <1>1, <1>2 DEF PcInv, At, DomainForm, AlipayForm, HookForm, GivenSecret

LEMMA EarlierKept ==
    ASSUME IInv, NEW a \in Request, Serves(a), NEW r \in Request
    PROVE  EarlierInv(r)'
PROOF
    <1>1. \A s \in Request : /\ req'[s].kind = req[s].kind /\ req'[s].row = req[s].row
                             /\ req'[s].earlier = req[s].earlier
                             /\ At(s, "done") => At(s, "done")'
                             /\ At(s, "idle") <=> At(s, "idle")'
        BY DEF Serves, OthersStay, SameAsk, At
    <1>2. EarlierInv(r) /\ req[r].earlier \subseteq Request
        BY DEF IInv, Reqs, Asking
    <1> QED BY <1>1, <1>2 DEF EarlierInv

LEMMA RowsKept ==
    ASSUME IInv, NEW a \in Request, Serves(a), NEW x \in Row, rows'[x] = rows[x]
    PROVE  RowInv(x)'
PROOF
    <1>1. RowInv(x)
        BY DEF IInv
    <1>2. (IsDomain(x)' <=> IsDomain(x)) /\ (IsHook(x)' <=> IsHook(x))
        BY OwnersStay
    <1> QED BY <1>1, <1>2 DEF RowInv

Grows == \A r \in Request : was[r] \subseteq was'[r]

LEMMA MessagesKept ==
    ASSUME IInv, NEW a \in Request, Serves(a), Grows, NEW m \in sent \cup heard
    PROVE  MessageInv(m)'
PROOF
    <1>1. MessageInv(m) /\ m.by \in Request
        BY DEF IInv, Message
    <1>2. m.by # a
        BY <1>1 DEF MessageInv, IInv, PcInv, Serves
    <1>3. req'[m.by] = req[m.by]
        BY <1>1, <1>2 DEF Serves, OthersStay
    <1> QED BY <1>1, <1>3 DEF MessageInv, Grows

(* Orders do not go, and nobody else makes one. *)
OrdersKept(a) ==
    /\ \A o \in {Order} \cup Request :
         orders[o] # NoRow =>
           /\ orders'[o] # NoRow /\ orders'[o].points = orders[o].points
           /\ orders[o].paid => orders'[o].paid
    /\ \A s \in Request \ {a} : orders'[s] # NoRow => orders[s] # NoRow

LEMMA OrderOfOthers ==
    ASSUME IInv, NEW a \in Request, Serves(a), OrdersKept(a), NEW s \in Request \ {a}
    PROVE  OrderInv(s)'
PROOF
    <1>1. OrderInv(s) /\ AskInv(s) /\ req'[s] = req[s]
        BY DEF IInv, Serves, OthersStay
    <1>2. req[s].kind = "notify" => req[s].row \in {Order} \cup Request
        BY <1>1 DEF AskInv
    <1> QED BY <1>1, <1>2 DEF OrderInv, OrdersKept, At

LEMMA PriceOfOthers ==
    ASSUME IInv, NEW a \in Request, Serves(a), Grows, OrdersKept(a), NEW s \in Request \ {a}
    PROVE  PriceInv(s)'
PROOF
    <1>1. PriceInv(s) /\ req'[s] = req[s]
        BY DEF IInv, Serves, OthersStay
    <1>2. InForce(s) \subseteq InForce(s)'
        BY <1>1 DEF InForce, Grows, LoadConfig, Default
    <1> QED BY <1>1, <1>2 DEF PriceInv, At, PointsFor, OrdersKept
-----------------------------------------------------------------------------
(* Deletions and secrets, under a step of request a. *)

LEMMA SameRequests ==
    ASSUME NEW a \in Request, Serves(a), NEW s \in Request
    PROVE  /\ WrittenBy(req'[s]) = WrittenBy(req[s])
           /\ \A x : Given(req'[s], x) = Given(req[s], x)
           /\ req'[s].kind = req[s].kind /\ req'[s].row = req[s].row
           /\ req'[s].new = req[s].new /\ req'[s].earlier = req[s].earlier
           /\ s # a => req'[s] = req[s]
PROOF
    <1>1. /\ req'[s].kind = req[s].kind /\ req'[s].row = req[s].row
          /\ req'[s].new = req[s].new /\ req'[s].earlier = req[s].earlier
          /\ s # a => req'[s] = req[s]
        BY DEF Serves, OthersStay, SameAsk
    <1> QED BY <1>1 DEF WrittenBy, Given

(* Nobody who is served is among the earlier ones, nor has he an own row *)
(* that somebody earlier named.                                          *)
LEMMA ServedIsNotEarlier ==
    ASSUME IInv, NEW a \in Request, ~At(a, "done"), NEW r \in Request \ {a}
    PROVE  /\ a \notin req[r].earlier
           /\ r \in req[a].earlier => ~(req[r].kind \in {"save", "delete"} /\ req[r].row = a)
PROOF
    <1>1. EarlierInv(r) /\ a \in Request \ {r}
        BY DEF IInv
    <1> QED BY <1>1 DEF EarlierInv

Reading == {"readDomain", "readHook", "delete", "done"}
Carrying == {"writeDomain", "writeAlipay", "writeHook"}

(* A row that is not there is not made by a save that has to read it. *)
SparesDeleted(a) ==
    \A x \in Row :
      /\ rows[x] = NoRow
      /\ x \in WrittenBy(req[a]) => req[a].pc \in Reading /\ x # a
      => /\ rows'[x] = NoRow
         /\ x \in WrittenBy(req[a]) => req'[a].pc \in Reading

(* The row of an undisturbed deletion stays empty, and no save gets as far  *)
(* as writing it.                                                           *)
LEMMA DeletedKept ==
    ASSUME IInv, NEW a \in Request, Serves(a), SparesDeleted(a), NEW r \in Request \ {a}
    PROVE  DeletedInv(r)'
PROOF
    <1> DEFINE x == req[r].row
    <1> SUFFICES ASSUME Undisturbed(r)'
                 PROVE  /\ rows'[req'[r].row] = NoRow
                        /\ \A s \in Request \ {r} :
                             req'[r].row \in WrittenBy(req'[s]) => req'[s].pc \in Reading
        BY DEF DeletedInv, Reading
    <1>1. req'[r] = req[r] /\ DeletedInv(r) /\ AskInv(r)
        BY SameRequests DEF IInv
    <1>2. \A s \in Request : /\ WrittenBy(req'[s]) = WrittenBy(req[s])
                             /\ req'[s].earlier = req[s].earlier
                             /\ s # a => req'[s] = req[s]
        BY SameRequests
    <1>3. Undisturbed(r)
        BY <1>1, <1>2 DEF Undisturbed
    <1>4. req[r].kind = "delete" /\ x \in Row
        BY <1>1, <1>3, WrittenRows DEF Undisturbed
    <1>5. /\ rows[x] = NoRow
          /\ \A s \in Request \ {r} : x \in WrittenBy(req[s]) => req[s].pc \in Reading
        BY <1>1, <1>3 DEF DeletedInv, Reading
    <1>6. x \in WrittenBy(req[a]) => x # a
        <2>1. x \in WrittenBy(req[a]) => a \in req[r].earlier \/ r \in req[a].earlier
            BY <1>3 DEF Undisturbed
        <2>2. /\ a \notin req[r].earlier
              /\ r \in req[a].earlier => ~(req[r].kind \in {"save", "delete"} /\ req[r].row = a)
            BY ServedIsNotEarlier DEF Serves
        <2> QED BY <1>4, <2>1, <2>2
    <1>7. /\ rows'[x] = NoRow
          /\ x \in WrittenBy(req[a]) => req'[a].pc \in Reading
        BY <1>4, <1>5, <1>6 DEF SparesDeleted
    <1> QED BY <1>1, <1>2, <1>5, <1>7

(* What request a does to row x when it is about a secret. *)
Careful(a, x) ==
    /\ Wrote(a, x) => Wrote(a, x)'
    /\ Entered(a, x)' /\ ~Entered(a, x) => Stored(x)' = Given(req[a], x)
    /\ Wrote(a, x) \/ ~Wrote(a, x)' => rows'[x] = rows[x]
    /\ req[a].kind = "save" /\ x \in WrittenBy(req[a]) /\ x # a
       /\ Given(req[a], x) \in {Blank, Mask} =>
         /\ Wrote(a, x)' =>
              \/ rows'[x] = rows[x]
              \/ req[a].pc \in Carrying /\ Stored(x)' = req[a].seen.secret
         /\ req'[a].pc \in Carrying /\ ~req'[a].failed /\ Stored(x) \in Secret \cup {Broken} =>
              req'[a].seen.secret = Stored(x)
    /\ req[a].pc \in Carrying /\ ~req'[a].failed => ~req[a].failed

LEMMA LastWordBack ==
    ASSUME IInv, NEW a \in Request, Serves(a), NEW x \in Row, Careful(a, x), NEW r \in Request,
           Entered(r, x), LastWord(r, x)'
    PROVE  LastWord(r, x)
PROOF
    <1>1. \A s \in Request : /\ \A y : Given(req'[s], y) = Given(req[s], y)
                             /\ WrittenBy(req'[s]) = WrittenBy(req[s])
                             /\ req'[s].kind = req[s].kind /\ req'[s].earlier = req[s].earlier
                             /\ s # a => req'[s] = req[s]
        BY SameRequests
    <1>2. ASSUME NEW s \in Request \ {r}, Wrote(s, x)
          PROVE  s \in req[r].earlier \/ CarriesOver(s, r, x)
        <2>1. Wrote(s, x)'
            <3>1. CASE s = a
                BY <1>2, <3>1 DEF Careful
            <3>2. CASE s # a
                BY <1>1, <1>2, <3>2 DEF Wrote, At
            <3> QED BY <3>1, <3>2
        <2>2. s \in req[r].earlier \/ CarriesOver(s, r, x)'
            BY <1>1, <2>1 DEF LastWord
        <2>3. CASE CarriesOver(s, r, x)' /\ s # a
            BY <1>1, <2>3 DEF CarriesOver
        <2>4. CASE s = a /\ req[a].kind = "save" /\ CarriesOver(s, r, x)'
            <3>1. ~At(a, "set") /\ req[a].answer = "none"
                BY <2>4 DEF IInv, PcInv, Serves
            <3> QED BY <1>2, <2>4, <3>1 DEF Wrote
        <2> QED BY <1>1, <2>2, <2>3, <2>4 DEF CarriesOver
    <1> QED BY <1>2 DEF LastWord

LEMMA LastKept ==
    ASSUME IInv, NEW a \in Request, Serves(a), NEW x \in Row, Careful(a, x), NEW r \in Request,
           LastWord(r, x)'
    PROVE  /\ Stored(x)' = Given(req'[r], x)
           /\ \A s \in Request \ {r} :
                CarriesOver(s, r, x)' /\ req'[s].pc \in Carrying =>
                  req'[s].seen.secret = Given(req'[r], x)
PROOF
    <1>1. \A s \in Request : /\ \A y : Given(req'[s], y) = Given(req[s], y)
                             /\ WrittenBy(req'[s]) = WrittenBy(req[s])
                             /\ req'[s].kind = req[s].kind /\ req'[s].earlier = req[s].earlier
                             /\ req'[s].row = req[s].row
                             /\ s # a => req'[s] = req[s]
        BY SameRequests
    <1>2. \A s \in Request : /\ a \notin req[s].earlier
                             /\ s # a /\ s \in req[a].earlier =>
                                  ~(req[s].kind \in {"save", "delete"} /\ req[s].row = a)
        BY ServedIsNotEarlier DEF IInv, EarlierInv, Serves
    <1>3. Entered(r, x)'
        BY DEF LastWord
    <1>4. CASE ~Entered(r, x)
        <2>1. r = a
            BY <1>1, <1>3, <1>4 DEF Entered, At
        <2>2. Stored(x)' = Given(req[a], x)
            BY <1>3, <1>4, <2>1 DEF Careful
        <2>3. \A s \in Request : ~CarriesOver(s, r, x)'
            BY <1>1, <1>2, <2>1 DEF CarriesOver
        <2> QED BY <1>1, <2>1, <2>2, <2>3
    <1>5. CASE Entered(r, x) /\ r = a
        <2>1. Wrote(a, x) /\ LastWord(a, x) /\ LastInv(a)
            BY <1>5, LastWordBack DEF Wrote, Entered, IInv
        <2>2. Stored(x) = Given(req[a], x) /\ rows'[x] = rows[x]
            BY <2>1 DEF LastInv, Careful
        <2>3. Stored(x)' = Stored(x)
            BY <2>2 DEF Stored, DomainRow, HookRow, AlipayRow, Event
        <2>4. \A s \in Request : ~CarriesOver(s, r, x)'
            BY <1>1, <1>2, <1>5 DEF CarriesOver
        <2> QED BY <1>1, <1>5, <2>2, <2>3, <2>4
    <1>6. CASE Entered(r, x) /\ r # a
        <2>1. LastWord(r, x) /\ LastInv(r) /\ AskInv(r) /\ AskInv(a)
            BY <1>6, LastWordBack DEF IInv
        <2>2. /\ Stored(x) = Given(req[r], x)
              /\ \A s \in Request \ {r} :
                   CarriesOver(s, r, x) /\ req[s].pc \in Carrying =>
                     req[s].seen.secret = Given(req[r], x)
            BY <2>1 DEF LastInv, Carrying
        <2>3. Given(req[r], x) \in Secret \cup {Broken}
            BY <1>6, <2>1, EnteredIsSecret DEF Entered
        <2>4. r \in req[a].earlier /\ req[a].kind = "save" /\ x \in WrittenBy(req[a]) => x # a
            <3>1. x \in WrittenBy(req[r]) /\ req[r].kind \in {"save", "settings"}
                BY <1>6 DEF Entered, WrittenBy
            <3>2. req[r].kind = "settings" => x \in Key
                BY <2>1, <3>1, WrittenRows
            <3>3. req[r].kind = "settings" => x # a
                BY <3>2, ConsoleAssumption DEF Key
            <3>4. req[r].kind = "save" => x = req[r].row
                BY <3>1 DEF WrittenBy
            <3> QED BY <1>2, <1>6, <3>1, <3>3, <3>4
        <2>5. rows'[x] = rows[x] => Stored(x)' = Stored(x)
            BY DEF Stored, DomainRow, HookRow, AlipayRow, Event
        <2>6. Stored(x)' = Given(req[r], x)
            <3>1. CASE rows'[x] = rows[x]
                BY <2>2, <2>5, <3>1
            <3>2. CASE rows'[x] # rows[x]
                <4>1. Wrote(a, x)' /\ x \in WrittenBy(req[a])
                    BY <1>1, <3>2 DEF Careful, Wrote
                <4>2. CarriesOver(a, r, x)'
                    BY <1>1, <1>2, <1>6, <4>1 DEF LastWord
                <4>3. r \in req[a].earlier /\ req[a].kind = "save"
                      /\ Given(req[a], x) \in {Blank, Mask}
                    BY <1>1, <4>2 DEF CarriesOver
                <4>4. req[a].pc \in Carrying /\ Stored(x)' = req[a].seen.secret
                    BY <2>4, <3>2, <4>1, <4>3 DEF Careful
                <4>5. CarriesOver(a, r, x)
                    BY <4>1, <4>2, <4>3, <4>4 DEF CarriesOver, Careful
                <4> QED BY <1>6, <2>2, <4>4, <4>5
            <3> QED BY <3>1, <3>2
        <2>7. ASSUME NEW s \in Request \ {r}, CarriesOver(s, r, x)', req'[s].pc \in Carrying
              PROVE  req'[s].seen.secret = Given(req[r], x)
            <3>1. CASE s # a
                BY <1>1, <2>2, <2>7, <3>1 DEF CarriesOver
            <3>2. CASE s = a
                <4>1. r \in req[a].earlier /\ req[a].kind = "save" /\ ~req'[a].failed
                      /\ x \in WrittenBy(req[a]) /\ Given(req[a], x) \in {Blank, Mask}
                    BY <1>1, <2>7, <3>2 DEF CarriesOver
                <4> QED BY <2>2, <2>3, <2>4, <2>7, <3>2, <4>1 DEF Careful
            <3> QED BY <3>1, <3>2
        <2> QED BY <1>1, <2>6, <2>7
    <1> QED BY <1>4, <1>5, <1>6
-----------------------------------------------------------------------------
(* What a step has to show of the request that makes it. *)

LEMMA NoteKeeps ==
    ASSUME IInv, Note, rows' \in [Row -> RowValue]
    PROVE  /\ was' \in [Request -> SUBSET (Row \X RowValue)] /\ Grows
           /\ \A r \in Request : WatchInv(r)'
PROOF
    <1>1. \A r \in Request : was[r] \in SUBSET (Row \X RowValue)
        BY DEF IInv
    <1>2. ASSUME NEW r \in Request
          PROVE  Watched(req[r])' \subseteq Row
        <2>1. "alipay" \in Row /\ Row' = Row
            BY DEF Row
        <2> QED BY <2>1 DEF Watched
    <1>3. \A r \in Request : was'[r] = was[r] \cup {<<x, rows'[x]>> : x \in Watched(req[r])'}
        BY DEF Note
    <1>4. \A r \in Request : was'[r] \in SUBSET (Row \X RowValue)
        BY <1>1, <1>2, <1>3
    <1>5. was' \in [Request -> SUBSET (Row \X RowValue)]
        BY <1>4 DEF Note
    <1>6. Grows
        BY <1>3 DEF Grows
    <1>7. \A r \in Request : WatchInv(r)'
        BY <1>3 DEF WatchInv
    <1> QED BY <1>5, <1>6, <1>7

LEMMA StepKeeps ==
    ASSUME IInv, Note, NEW a \in Request, Serves(a), sent' \cup heard' \subseteq Message,
           \A m \in (sent' \cup heard') \ (sent \cup heard) : MessageInv(m)',
           rows' \in [Row -> RowValue],
           orders' \in [{Order} \cup Request -> OrderRow \cup {NoRow}],
           \A x \in Row : rows'[x] # rows[x] => RowInv(x)',
           OrdersKept(a), PcInv(a)', OrderInv(a)', PriceInv(a)', DeletedInv(a)',
           SparesDeleted(a), \A x \in Row : Careful(a, x)
    PROVE  IInv'
PROOF
    <1>1. /\ was' \in [Request -> SUBSET (Row \X RowValue)] /\ Grows
          /\ \A r \in Request : WatchInv(r)'
        BY NoteKeeps
    <1>2. req' \in Reqs /\ sent' \cup heard' \subseteq Message
        BY DEF IInv, Serves
    <1>3. \A x \in Row : RowInv(x)'
        BY RowsKept
    <1>4. \A m \in sent' \cup heard' : MessageInv(m)'
        BY <1>1, MessagesKept
    <1>5. \A r \in Request : AskInv(r)' /\ EarlierInv(r)'
        BY AskKept, EarlierKept
    <1>6. \A r \in Request : PcInv(r)' /\ OrderInv(r)' /\ PriceInv(r)' /\ DeletedInv(r)'
        BY <1>1, PcOfOthers, OrderOfOthers, PriceOfOthers, DeletedKept
    <1>7. ASSUME NEW r \in Request
          PROVE  LastInv(r)'
        <2>1. \A x \in Row : LastWord(r, x)' =>
                /\ Stored(x)' = Given(req'[r], x)
                /\ \A s \in Request \ {r} :
                     CarriesOver(s, r, x)' /\ req'[s].pc \in Carrying =>
                       req'[s].seen.secret = Given(req'[r], x)
            BY LastKept
        <2>2. Row' = Row
            BY DEF Row
        <2>3. \A x : Given(req'[r], x) = Given(req[r], x)'
            BY DEF Given
        <2> QED BY <2>1, <2>2, <2>3 DEF LastInv, Carrying
    <1>8. Row' = Row
        BY DEF Row
    <1> QED BY <1>1, <1>2, <1>3, <1>4, <1>5, <1>6, <1>7, <1>8 DEF IInv, Message, RowValue,
            OrderRow, DomainRow, HookRow, AlipayRow, Event

LEMMA ServesKeep ==
    ASSUME IInv, Note, NEW a \in Request, Serves(a), UNCHANGED <<sent, heard>>,
           rows' \in [Row -> RowValue],
           orders' \in [{Order} \cup Request -> OrderRow \cup {NoRow}],
           \A x \in Row : rows'[x] # rows[x] => RowInv(x)',
           OrdersKept(a), PcInv(a)', OrderInv(a)', PriceInv(a)', DeletedInv(a)',
           SparesDeleted(a), \A x \in Row : Careful(a, x)
    PROVE  IInv'
PROOF
    <1>1. sent' \cup heard' \subseteq Message
        BY DEF IInv
    <1>2. \A m \in (sent' \cup heard') \ (sent \cup heard) : MessageInv(m)'
        OBVIOUS
    <1> QED BY <1>1, <1>2, StepKeeps

(* Only a deletion that is acknowledged leaves no row for sure. *)
LEMMA NotDeleted ==
    ASSUME NEW a \in Request, req'[a].kind # "delete" \/ req'[a].answer # "ok"
    PROVE  DeletedInv(a)'
PROOF
    BY DEF DeletedInv, Undisturbed

(* A request that ends without writing. *)
LEMMA EndsKeep ==
    ASSUME IInv, Note, NEW a \in Request, ~At(a, "idle"), ~At(a, "done"),
           UNCHANGED <<sent, heard, rows, orders>>, NEW y \in {"refused", "lost"},
           y = "refused" => ~At(a, "set"), Answers(a, y)
    PROVE  IInv'
PROOF
    <1>1. /\ Serves(a) /\ req'[a].pc = "done" /\ req'[a].seen = req[a].seen
          /\ req'[a].failed = req[a].failed /\ req'[a].answer = y
        BY AnswersFacts DEF IInv, AnswerSet
    <1>2. /\ rows' \in [Row -> RowValue]
          /\ orders' \in [{Order} \cup Request -> OrderRow \cup {NoRow}]
        BY DEF IInv
    <1>3. PcInv(a)'
        BY <1>1 DEF PcInv, At
    <1>4. /\ OrderInv(a) /\ PcInv(a)
          /\ WrittenBy(req'[a]) = WrittenBy(req[a]) /\ req'[a].kind = req[a].kind
        BY <1>1, SameRequests DEF IInv
    <1>5. OrderInv(a)' /\ PriceInv(a)' /\ DeletedInv(a)'
        BY <1>1, <1>4, NotDeleted DEF OrderInv, PriceInv, At
    <1>6. OrdersKept(a)
        BY DEF OrdersKept
    <1>7. SparesDeleted(a)
        BY <1>1 DEF SparesDeleted, Reading
    <1>8. ASSUME NEW x \in Row
          PROVE  Careful(a, x)
        <2>1. Wrote(a, x) => At(a, "set")
            BY <1>1, <1>4 DEF Wrote, PcInv, Serves
        <2>2. Wrote(a, x) => Wrote(a, x)'
            BY <1>1, <1>4, <2>1 DEF Wrote
        <2>3. ~Entered(a, x)'
            BY <1>1 DEF Entered, At
        <2> QED BY <1>1, <2>2, <2>3 DEF Careful, Carrying
    <1> QED BY <1>1, <1>2, <1>3, <1>5, <1>6, <1>7, <1>8, ServesKeep

(* A step of a request that writes no row. *)
LEMMA OthersSpare ==
    ASSUME IInv, NEW a \in Request, Serves(a), UNCHANGED rows,
           req[a].kind \in {"order", "mock", "notify", "dns"}
    PROVE  SparesDeleted(a) /\ DeletedInv(a)' /\ \A x \in Row : Careful(a, x)
PROOF
    <1>1. WrittenBy(req[a]) = {} /\ WrittenBy(req'[a]) = {} /\ req'[a].kind = req[a].kind
        BY SameRequests DEF WrittenBy
    <1>2. SparesDeleted(a) /\ DeletedInv(a)'
        BY <1>1, NotDeleted DEF SparesDeleted
    <1>3. \A x \in Row : ~Wrote(a, x) /\ ~Wrote(a, x)' /\ ~Entered(a, x)'
        BY <1>1 DEF Wrote, Entered
    <1>4. req[a].pc \notin Carrying
        BY DEF IInv, PcInv, Carrying
    <1> QED BY <1>1, <1>2, <1>3, <1>4 DEF Careful
-----------------------------------------------------------------------------
(* The saves. *)

LEMMA LoadConfigIs ==
    ASSUME NEW v \in AlipayRow \cup {NoRow, Broken}, NEW f \in BOOLEAN
    PROVE  /\ LoadConfig(v, f) \in AlipayRow \cup {Broken}
           /\ LoadConfig(v, f) \in AlipayRow => LoadConfig(v, f).rate \in Nat \ {0}
           /\ LoadConfig(v, f) = Broken <=> v = Broken /\ ~f
           /\ v \in AlipayRow /\ ~f => LoadConfig(v, f).secret = v.secret
PROOF
    <1>1. Broken \notin AlipayRow /\ NoRow \notin AlipayRow /\ NoRow # Broken
        BY NoValueIsARow, ConsoleAssumption
    <1>2. Default \in AlipayRow /\ Default.rate \in Nat \ {0}
        BY DEF Default, AlipayRow, DefaultRate
    <1>3. CASE v = NoRow \/ f
        <2>1. LoadConfig(v, f) = Default
            BY <1>3 DEF LoadConfig
        <2> QED BY <1>1, <1>2, <1>3, <2>1
    <1>4. CASE v = Broken /\ ~f
        <2>1. LoadConfig(v, f) = Broken
            BY <1>1, <1>4 DEF LoadConfig
        <2> QED BY <1>1, <1>4, <2>1
    <1>5. CASE v \in AlipayRow /\ v.rate = 0 /\ ~f
        <2>1. LoadConfig(v, f) = [v EXCEPT !.rate = DefaultRate]
            BY <1>1, <1>5 DEF LoadConfig
        <2>2. /\ [v EXCEPT !.rate = DefaultRate] \in AlipayRow
              /\ [v EXCEPT !.rate = DefaultRate].rate \in Nat \ {0}
              /\ [v EXCEPT !.rate = DefaultRate].secret = v.secret
            BY <1>5 DEF AlipayRow, DefaultRate
        <2> QED BY <1>1, <1>5, <2>1, <2>2
    <1>6. CASE v \in AlipayRow /\ v.rate # 0 /\ ~f
        <2>1. LoadConfig(v, f) = v
            BY <1>1, <1>6 DEF LoadConfig
        <2>2. v.rate \in Nat \ {0}
            BY <1>6 DEF AlipayRow
        <2> QED BY <1>1, <1>6, <2>1, <2>2
    <1> QED BY <1>3, <1>4, <1>5, <1>6

(* A save has read its row. *)
LEMMA ReadKeeps ==
    ASSUME IInv, Note, NEW a \in Request, UNCHANGED <<sent, heard>>,
           req[a].pc \in {"readDomain", "readHook"}, NEW p \in {"writeDomain", "writeHook"},
           Sees(a, rows[req[a].row], p),
           req[a].row = a \/ rows[req[a].row] # NoRow,
           rows[req[a].row] \in DomainRow \cup HookRow \cup {NoRow},
           Serves(a) /\ req'[a].pc = p /\ req'[a].seen = rows[req[a].row]
           /\ req'[a].answer = "none" => PcInv(a)'
    PROVE  IInv'
PROOF
    <1> DEFINE id == req[a].row
    <1>1. /\ req[a].kind = "save" /\ ~At(a, "idle") /\ ~At(a, "done") /\ ~At(a, "set")
          /\ req[a].answer = "none" /\ id \in Row
        BY WrittenRows DEF IInv, PcInv, At, WrittenBy
    <1>2. UNCHANGED <<rows, orders>> /\ p \in Pcs /\ p # "idle"
          /\ req' = [req EXCEPT ![a] = [@ EXCEPT !.pc = p, !.seen = rows[id]]]
        BY DEF Sees, Pcs
    <1>3. rows[id] \in SeenValue
        BY DEF SeenValue, RowValue
    <1>4. /\ Serves(a) /\ req'[a].pc = p /\ req'[a].seen = rows[id]
          /\ req'[a].failed = req[a].failed /\ req'[a].answer = req[a].answer
        BY <1>1, <1>2, <1>3, SeesFacts DEF IInv
    <1>5. PcInv(a)'
        BY <1>1, <1>4
    <1>6. req'[a].kind = "save" /\ WrittenBy(req'[a]) = {id} /\ WrittenBy(req[a]) = {id}
        BY <1>1, <1>4, SameRequests DEF WrittenBy
    <1>7. OrderInv(a)' /\ PriceInv(a)' /\ DeletedInv(a)'
        <2>1. orders[a] = NoRow
            BY <1>1 DEF IInv, OrderInv
        <2> QED BY <1>2, <1>6, <2>1, NotDeleted DEF OrderInv, PriceInv
    <1>8. OrdersKept(a)
        BY <1>2 DEF OrdersKept
    <1>9. SparesDeleted(a)
        BY <1>2, <1>6 DEF SparesDeleted
    <1>10. ASSUME NEW x \in Row
           PROVE  Careful(a, x)
        <2>1. ~Wrote(a, x) /\ ~Wrote(a, x)' /\ ~Entered(a, x)'
            BY <1>1, <1>4 DEF Wrote, Entered, At
        <2>2. x = id /\ Stored(x) \in Secret \cup {Broken} => rows[id].secret = Stored(x)
            BY ConsoleAssumption DEF Stored
        <2>3. req[a].pc \notin Carrying
            BY DEF Carrying
        <2> QED BY <1>2, <1>4, <1>6, <2>1, <2>2, <2>3 DEF Careful
    <1>11. /\ rows' \in [Row -> RowValue]
           /\ orders' \in [{Order} \cup Request -> OrderRow \cup {NoRow}]
        BY <1>2 DEF IInv
    <1> QED BY <1>2, <1>4, <1>5, <1>7, <1>8, <1>9, <1>10, <1>11, ServesKeep

(* A save writes its row back. *)
LEMMA WriteKeeps ==
    ASSUME IInv, Note, NEW a \in Request, UNCHANGED <<sent, heard>>,
           req[a].pc \in {"writeDomain", "writeAlipay", "writeHook", "createHook"},
           NEW v \in DomainRow \cup HookRow \cup AlipayRow, Writes(a, req[a].row, v),
           \/ IsDomain(req[a].row) /\ v \in DomainRow
           \/ IsHook(req[a].row) /\ v \in HookRow
           \/ req[a].row = "alipay" /\ v \in AlipayRow,
           req[a].new.secret \notin {Blank, Mask} => v.secret = req[a].new.secret,
           req[a].new.secret \in {Blank, Mask} /\ req[a].row # a =>
             req[a].pc \in Carrying /\ v.secret = req[a].seen.secret
    PROVE  IInv'
PROOF
    <1> DEFINE id == req[a].row
    <1>1. /\ req[a].kind = "save" /\ ~At(a, "idle") /\ ~At(a, "done") /\ ~At(a, "set")
          /\ req[a].answer = "none" /\ id \in Row
        BY WrittenRows DEF IInv, PcInv, At, WrittenBy
    <1>2. UNCHANGED orders /\ rows' = [rows EXCEPT ![id] = v] /\ Answers(a, "ok")
        BY DEF Writes
    <1>3. /\ Serves(a) /\ req'[a].pc = "done" /\ req'[a].seen = req[a].seen
          /\ req'[a].failed = req[a].failed /\ req'[a].answer = "ok"
        BY <1>1, <1>2, AnswersFacts DEF IInv, AnswerSet
    <1>4. v \in RowValue /\ rows \in [Row -> RowValue]
        BY DEF IInv, RowValue
    <1>5. /\ rows' \in [Row -> RowValue] /\ rows'[id] = v
          /\ \A x \in Row \ {id} : rows'[x] = rows[x]
          /\ orders' \in [{Order} \cup Request -> OrderRow \cup {NoRow}]
        BY <1>1, <1>2, <1>4 DEF IInv
    <1>6. req'[a].kind = "save" /\ WrittenBy(req'[a]) = {id} /\ WrittenBy(req[a]) = {id}
          /\ (\A x : Given(req'[a], x) = req[a].new.secret)
          /\ (\A x : Given(req[a], x) = req[a].new.secret)
        BY <1>1, <1>3, SameRequests DEF WrittenBy, Given
    <1>7. PcInv(a)'
        BY <1>3 DEF PcInv, At
    <1>8. OrderInv(a)' /\ PriceInv(a)' /\ DeletedInv(a)'
        <2>1. orders[a] = NoRow
            BY <1>1 DEF IInv, OrderInv
        <2> QED BY <1>2, <1>6, <2>1, NotDeleted DEF OrderInv, PriceInv
    <1>9. OrdersKept(a)
        BY <1>2 DEF OrdersKept
    <1>10. SparesDeleted(a)
        BY <1>5, <1>6 DEF SparesDeleted, Reading
    <1>11. \A x \in Row : rows'[x] # rows[x] => RowInv(x)'
        <2>1. \A x : (IsDomain(x)' <=> IsDomain(x)) /\ (IsHook(x)' <=> IsHook(x))
            BY <1>3, OwnersStay
        <2> QED BY <1>5, <2>1 DEF RowInv
    <1>12. \A x : x = id => Stored(x)' = v.secret
        BY <1>5 DEF Stored, DomainRow, HookRow, AlipayRow, Event
    <1>13. ASSUME NEW x \in Row
           PROVE  Careful(a, x)
        <2>1. ~Wrote(a, x)
            BY <1>1 DEF Wrote
        <2>2. Wrote(a, x)' <=> x = id
            BY <1>3, <1>6 DEF Wrote
        <2>3. Entered(a, x)' => x = id /\ req[a].new.secret \notin {Blank, Mask}
            BY <1>6 DEF Entered
        <2> QED BY <1>3, <1>5, <1>6, <1>12, <2>1, <2>2, <2>3 DEF Careful, Carrying
    <1> QED BY <1>3, <1>5, <1>7, <1>8, <1>9, <1>10, <1>11, <1>13, ServesKeep
LEMMA RefusedKeeps ==
    ASSUME IInv, Note, NEW a \in Request, req[a].pc \notin {"idle", "done", "set"},
           UNCHANGED <<sent, heard>>, Refused(a)
    PROVE  IInv'
PROOF
    BY EndsKeep DEF Refused, At

LEMMA FailKeeps ==
    ASSUME IInv, Note, NEW a \in Request, UNCHANGED <<sent, heard>>, Fail(a)
    PROVE  IInv'
PROOF
    BY EndsKeep DEF Fail, At

LEMMA ReadDomainKeeps ==
    ASSUME IInv, Note, NEW a \in Request, UNCHANGED <<sent, heard>>, ReadDomain(a)
    PROVE  IInv'
PROOF
    <1> DEFINE id == req[a].row
    <1>1. /\ At(a, "readDomain") /\ IsDomain(id) /\ req[a].new \in DomainForm
          /\ req[a].kind = "save"
        BY DEF ReadDomain, IInv, PcInv, At
    <1>2. rows[id] \in DomainRow \cup {NoRow}
        BY <1>1, Owners, RowIs DEF IInv
    <1>3. CASE Refused(a)
        BY <1>1, <1>3, RefusedKeeps DEF At
    <1>4. CASE /\ Sees(a, rows[id], "writeDomain")
               /\ ~(IF id = a THEN req[a].new.secret = Blank ELSE rows[id] = NoRow)
        <2>1. \A x : Serves(a) => (IsDomain(x)' <=> IsDomain(x))
            BY OwnersStay
        <2>2. ASSUME Serves(a), req'[a].pc = "writeDomain", req'[a].seen = rows[id],
                     req'[a].answer = "none"
              PROVE  PcInv(a)'
            <3>1. req'[a].kind = "save" /\ req'[a].row = id /\ req'[a].new = req[a].new
                  /\ IsDomain(id) /\ (\A x : IsDomain(x)' <=> IsDomain(x))
                BY <1>1, <2>1, <2>2, SameRequests
            <3>2. req[a].new.secret = Blank => rows[id] \in DomainRow
                <4>1. CASE id = a
                    BY <1>4, <4>1
                <4>2. CASE id # a
                    BY <1>2, <1>4, <4>2
                <4> QED BY <4>1, <4>2
            <3>3. \A x : x = id => IsDomain(x)'
                BY <3>1
            <3>4. req'[a].answer = "none"
                BY <2>2
            <3> QED BY <1>1, <2>2, <3>1, <3>2, <3>3, <3>4 DEF PcInv, At, DomainForm, GivenSecret, DomainRow
        <2>3. id = a \/ rows[id] # NoRow
            BY <1>4
        <2> QED BY <1>1, <1>2, <1>4, <2>2, <2>3, ReadKeeps DEF At
    <1> QED BY <1>3, <1>4 DEF ReadDomain

LEMMA WriteDomainKeeps ==
    ASSUME IInv, Note, NEW a \in Request, UNCHANGED <<sent, heard>>, WriteDomain(a)
    PROVE  IInv'
PROOF
    <1> DEFINE new == req[a].new
    <1> DEFINE v == [name |-> new.name,
                     secret |-> IF new.secret = Blank THEN req[a].seen.secret ELSE new.secret]
    <1>1. /\ At(a, "writeDomain") /\ IsDomain(req[a].row) /\ new \in DomainForm
          /\ new.secret = Blank => req[a].seen \in DomainRow
        BY DEF WriteDomain, IInv, PcInv, At
    <1>2. CASE Refused(a)
        BY <1>1, <1>2, RefusedKeeps DEF At
    <1>3. CASE Writes(a, req[a].row, v)
        <2>1. new.name \in Name /\ new.secret \in Secret \cup {Blank} /\ new.secret # Mask
            BY <1>1, ConsoleAssumption DEF DomainForm, GivenSecret
        <2>2. new.secret = Blank => req[a].seen.secret \in Secret
            BY <1>1 DEF DomainRow
        <2>3. v \in DomainRow
            BY <2>1, <2>2 DEF DomainRow
        <2>4. v.secret = IF new.secret = Blank THEN req[a].seen.secret ELSE new.secret
            OBVIOUS
        <2> HIDE DEF v
        <2>5. v \in DomainRow \cup HookRow \cup AlipayRow
            BY <2>3
        <2>6. req[a].pc \in Carrying /\ req[a].pc = "writeDomain"
            BY <1>1 DEF At, Carrying
        <2> QED BY <1>1, <1>3, <2>1, <2>3, <2>4, <2>5, <2>6, WriteKeeps
    <1> QED BY <1>2, <1>3 DEF WriteDomain

LEMMA DeleteKeeps ==
    ASSUME IInv, Note, NEW a \in Request, UNCHANGED <<sent, heard>>, Delete(a)
    PROVE  IInv'
PROOF
    <1> DEFINE id == req[a].row
    <1>1. /\ At(a, "delete") /\ req[a].kind = "delete" /\ req[a].answer = "none"
          /\ ~At(a, "idle") /\ ~At(a, "done") /\ id \in Row
        BY WrittenRows DEF Delete, IInv, PcInv, At
    <1>2. UNCHANGED orders /\ rows' = [rows EXCEPT ![id] = NoRow] /\ Answers(a, "ok")
        BY DEF Delete, Writes
    <1>3. /\ Serves(a) /\ req'[a].pc = "done" /\ req'[a].answer = "ok"
        BY <1>1, <1>2, AnswersFacts DEF IInv, AnswerSet
    <1>4. /\ rows' \in [Row -> RowValue] /\ rows'[id] = NoRow
          /\ \A x \in Row \ {id} : rows'[x] = rows[x]
          /\ orders' \in [{Order} \cup Request -> OrderRow \cup {NoRow}]
        BY <1>1, <1>2 DEF IInv, RowValue
    <1>5. /\ req'[a].kind = "delete" /\ WrittenBy(req'[a]) = {id} /\ WrittenBy(req[a]) = {id}
          /\ req'[a].row = id /\ req'[a].earlier = req[a].earlier
        BY <1>1, <1>3, SameRequests DEF WrittenBy
    <1>6. PcInv(a)'
        BY <1>3 DEF PcInv, At
    <1>7. OrderInv(a)' /\ PriceInv(a)'
        <2>1. orders[a] = NoRow
            BY <1>1 DEF IInv, OrderInv
        <2> QED BY <1>2, <1>5, <2>1 DEF OrderInv, PriceInv
    <1>8. DeletedInv(a)'
        <2>1. ASSUME NEW s \in Request \ {a}, Undisturbed(a)', id \in WrittenBy(req'[s])
              PROVE  req'[s].pc = "done"
            <3>1. s \in req'[a].earlier \/ a \in req'[s].earlier
                BY <1>5, <2>1 DEF Undisturbed
            <3>2. req'[s] = req[s] /\ a \notin req[s].earlier
                BY <1>1, <1>3, SameRequests, ServedIsNotEarlier
            <3>3. At(s, "done")
                BY <1>5, <3>1, <3>2 DEF IInv, EarlierInv
            <3> QED BY <3>2, <3>3 DEF At
        <2> QED BY <1>4, <1>5, <2>1 DEF DeletedInv
    <1>9. OrdersKept(a)
        BY <1>2 DEF OrdersKept
    <1>10. SparesDeleted(a)
        BY <1>3, <1>4, <1>5 DEF SparesDeleted, Reading
    <1>11. \A x \in Row : rows'[x] # rows[x] => RowInv(x)'
        BY <1>4 DEF RowInv
    <1>12. ASSUME NEW x \in Row
           PROVE  Careful(a, x)
        <2>1. ~Wrote(a, x) /\ ~Entered(a, x)'
            BY <1>1, <1>5 DEF Wrote, Entered, At
        <2>2. Wrote(a, x)' <=> x = id
            BY <1>3, <1>5 DEF Wrote
        <2>3. req[a].pc \notin Carrying
            BY <1>1 DEF Carrying, At
        <2> QED BY <1>1, <1>4, <2>1, <2>2, <2>3 DEF Careful
    <1> QED BY <1>3, <1>4, <1>6, <1>7, <1>8, <1>9, <1>10, <1>11, <1>12, ServesKeep

LEMMA SetOneKeeps ==
    ASSUME IInv, Note, NEW a \in Request, UNCHANGED <<sent, heard>>, SetOne(a)
    PROVE  IInv'
PROOF
    <1> DEFINE new == req[a].new
    <1>1. PICK k \in req[a].seen :
            /\ rows' = [rows EXCEPT ![k] = new[k]]
            /\ IF req[a].seen = {k} THEN Answers(a, "ok")
               ELSE req' = [req EXCEPT ![a].seen = @ \ {k}]
        BY DEF SetOne
    <1>2. /\ At(a, "set") /\ req[a].kind = "settings" /\ req[a].answer = "none"
          /\ new \in Settings /\ req[a].seen \in SUBSET DOMAIN new
          /\ ~At(a, "idle") /\ ~At(a, "done") /\ UNCHANGED orders
        BY DEF SetOne, IInv, AskInv, PcInv, At
    <1>3. /\ DOMAIN new \subseteq Key /\ k \in Key /\ Key \subseteq Row
          /\ k = "site" => new[k] \in Secret
          /\ k = "alipay" => new[k] = Broken
        BY <1>2 DEF Settings, Key, Row
    <1>4. Serves(a) /\ \/ req'[a].pc = "done" /\ req'[a].answer = "ok" /\ req[a].seen = {k}
                       \/ /\ req'[a].pc = "set" /\ req'[a].seen = req[a].seen \ {k}
                          /\ req'[a].answer = "none"
        <2>1. CASE req[a].seen = {k}
            BY <1>1, <1>2, <2>1, AnswersFacts DEF IInv, AnswerSet
        <2>2. CASE req[a].seen # {k}
            <3>1. req[a].seen \ {k} \in SUBSET Key
                BY <1>2, <1>3
            <3>2. req' = [req EXCEPT ![a].seen = req[a].seen \ {k}]
                BY <1>1, <2>2
            <3> QED BY <1>2, <3>1, <3>2, SetFacts DEF IInv
        <2> QED BY <2>1, <2>2
    <1>5. new[k] \in Secret \cup {Broken} /\ new[k] \in RowValue
        BY <1>3 DEF Key, RowValue
    <1>6. /\ rows' \in [Row -> RowValue] /\ rows'[k] = new[k]
          /\ \A x \in Row \ {k} : rows'[x] = rows[x]
          /\ orders' \in [{Order} \cup Request -> OrderRow \cup {NoRow}]
        BY <1>1, <1>2, <1>3, <1>5 DEF IInv
    <1>7. /\ req'[a].kind = "settings" /\ req'[a].new = new
          /\ WrittenBy(req'[a]) = DOMAIN new /\ WrittenBy(req[a]) = DOMAIN new
          /\ \A x : Given(req'[a], x) = new[x] /\ Given(req[a], x) = new[x]
        BY <1>2, <1>4, SameRequests DEF WrittenBy, Given
    <1>8. PcInv(a)'
        BY <1>2, <1>4, <1>7 DEF PcInv, At
    <1>9. OrderInv(a)' /\ PriceInv(a)' /\ DeletedInv(a)'
        <2>1. orders[a] = NoRow
            BY <1>2 DEF IInv, OrderInv
        <2> QED BY <1>2, <1>7, <2>1, NotDeleted DEF OrderInv, PriceInv
    <1>10. OrdersKept(a)
        BY <1>2 DEF OrdersKept
    <1>11. SparesDeleted(a)
        BY <1>2, <1>6, <1>7 DEF SparesDeleted, Reading, At
    <1>12. \A x \in Row : rows'[x] # rows[x] => RowInv(x)'
        BY <1>3, <1>6 DEF RowInv, Key
    <1>13. \A x : x = k => Stored(x)' = new[x]
        <2>1. new[k] \notin DomainRow \cup HookRow \cup AlipayRow
            BY <1>5, NoValueIsARow
        <2> QED BY <1>6, <2>1 DEF Stored, DomainRow, HookRow, AlipayRow, Event
    <1>14. ASSUME NEW x \in Row
           PROVE  Careful(a, x)
        <2>1. Wrote(a, x) <=> x \in DOMAIN new /\ x \notin req[a].seen
            BY <1>2, <1>7 DEF Wrote
        <2>2. Wrote(a, x)' <=> x \in DOMAIN new /\ x \notin req[a].seen \ {k}
            BY <1>4, <1>7 DEF Wrote, At
        <2>3. Entered(a, x) <=> Wrote(a, x) /\ new[x] \notin {Blank, Mask}
            BY <1>2, <1>7, <2>1 DEF Entered
        <2>4. Entered(a, x)' => Wrote(a, x)' /\ new[x] \notin {Blank, Mask}
            BY <1>4, <1>7, <2>2 DEF Entered, At
        <2>5. k \in DOMAIN new
            BY <1>2
        <2>6. req[a].pc \notin Carrying
            BY <1>2 DEF Carrying, At
        <2> QED BY <1>2, <1>6, <1>7, <1>13, <2>1, <2>2, <2>3, <2>4, <2>5, <2>6 DEF Careful
    <1> QED BY <1>4, <1>6, <1>8, <1>9, <1>10, <1>11, <1>12, <1>14, ServesKeep
LEMMA ReadAlipayKeeps ==
    ASSUME IInv, Note, NEW a \in Request, UNCHANGED <<sent, heard>>, ReadAlipay(a)
    PROVE  IInv'
PROOF
    <1>1. /\ At(a, "readAlipay") /\ req[a].kind = "save" /\ req[a].row = "alipay"
          /\ req[a].new \in AlipayForm /\ req[a].answer = "none"
          /\ ~At(a, "idle") /\ ~At(a, "done") /\ UNCHANGED <<rows, orders>>
        BY DEF ReadAlipay, IInv, PcInv, At
    <1>2. PICK failed \in BOOLEAN :
            LET old == LoadConfig(rows["alipay"], failed) IN
            IF old = Broken /\ req[a].new.secret \in {Blank, Mask}
            THEN Answers(a, "lost")
            ELSE Reads(a, old, failed, "writeAlipay")
        BY DEF ReadAlipay
    <1> DEFINE old == LoadConfig(rows["alipay"], failed)
    <1>3. rows["alipay"] \in AlipayRow \cup {NoRow, Broken}
        BY RowIs DEF IInv, Row
    <1>4. /\ old \in AlipayRow \cup {Broken}
          /\ old = Broken <=> rows["alipay"] = Broken /\ ~failed
          /\ rows["alipay"] \in AlipayRow /\ ~failed => old.secret = rows["alipay"].secret
        BY <1>3, LoadConfigIs
    <1> HIDE DEF old
    <1>5. CASE Answers(a, "lost")
        BY <1>1, <1>5, EndsKeep
    <1>6. CASE /\ Reads(a, old, failed, "writeAlipay")
               /\ ~(old = Broken /\ req[a].new.secret \in {Blank, Mask})
        <2>1. old \in SeenValue /\ "writeAlipay" \in Pcs
            BY <1>4 DEF SeenValue, RowValue, Pcs
        <2>2. /\ Serves(a) /\ req'[a].pc = "writeAlipay" /\ req'[a].seen = old
              /\ req'[a].failed = failed /\ req'[a].answer = "none"
            BY <1>1, <1>6, <2>1, ReadsFacts DEF IInv
        <2>3. /\ req'[a].kind = "save" /\ req'[a].row = "alipay" /\ req'[a].new = req[a].new
              /\ WrittenBy(req'[a]) = {"alipay"} /\ WrittenBy(req[a]) = {"alipay"}
              /\ \A x : Given(req[a], x) = req[a].new.secret
            BY <1>1, <2>2, SameRequests DEF WrittenBy, Given
        <2>4. PcInv(a)'
            BY <1>1, <1>4, <1>6, <2>2, <2>3 DEF PcInv, At, AlipayForm, AlipayRow, GivenSecret
        <2>5. OrderInv(a)' /\ PriceInv(a)' /\ DeletedInv(a)'
            <3>1. orders[a] = NoRow
                BY <1>1 DEF IInv, OrderInv
            <3> QED BY <1>1, <2>3, <3>1, NotDeleted DEF OrderInv, PriceInv
        <2>6. OrdersKept(a)
            BY <1>1 DEF OrdersKept
        <2>7. SparesDeleted(a)
            BY <1>1, <2>3 DEF SparesDeleted, Reading, At
        <2>8. ASSUME NEW x \in Row
              PROVE  Careful(a, x)
            <3>1. ~Wrote(a, x) /\ ~Wrote(a, x)' /\ ~Entered(a, x)' /\ req[a].pc \notin Carrying
                BY <1>1, <2>2 DEF Wrote, Entered, At, Carrying
            <3>2. ASSUME x = "alipay", ~failed, Stored(x) \in Secret \cup {Broken},
                         req[a].new.secret \in {Blank, Mask}
                  PROVE  old.secret = Stored(x)
                <4>1. rows["alipay"] # Broken
                    BY <1>4, <1>6, <3>2
                <4>2. rows["alipay"] # NoRow
                    <5>1. NoRow \notin DomainRow \cup HookRow \cup AlipayRow
                        BY NoValueIsARow
                    <5> QED BY <3>2, <5>1, ConsoleAssumption DEF Stored
                <4>3. rows["alipay"] \in AlipayRow
                    BY <1>3, <4>1, <4>2
                <4> QED BY <1>4, <3>2, <4>3 DEF Stored
            <3> QED BY <1>1, <2>2, <2>3, <3>1, <3>2 DEF Careful
        <2>9. /\ rows' \in [Row -> RowValue]
              /\ orders' \in [{Order} \cup Request -> OrderRow \cup {NoRow}]
            BY <1>1 DEF IInv
        <2> QED BY <1>1, <2>2, <2>4, <2>5, <2>6, <2>7, <2>8, <2>9, ServesKeep
    <1> QED BY <1>2, <1>5, <1>6 DEF old

LEMMA WriteAlipayKeeps ==
    ASSUME IInv, Note, NEW a \in Request, UNCHANGED <<sent, heard>>, WriteAlipay(a)
    PROVE  IInv'
PROOF
    <1> DEFINE new == req[a].new
    <1> DEFINE v == [new EXCEPT !.secret = Kept(@, req[a].seen.secret)]
    <1>1. /\ At(a, "writeAlipay") /\ req[a].row = "alipay" /\ new \in AlipayForm
          /\ new.secret \in {Blank, Mask} => req[a].seen \in AlipayRow
          /\ Writes(a, req[a].row, v)
        BY DEF WriteAlipay, IInv, PcInv, At
    <1>2. Kept(new.secret, req[a].seen.secret) \in Secret \cup {Blank}
        BY <1>1 DEF Kept, AlipayForm, AlipayRow, GivenSecret
    <1>3. v \in AlipayRow
        BY <1>1, <1>2, ConsoleAssumption DEF AlipayForm, AlipayRow
    <1>4. v.secret = Kept(new.secret, req[a].seen.secret)
        BY <1>1 DEF AlipayForm
    <1> HIDE DEF v
    <1>5. v \in DomainRow \cup HookRow \cup AlipayRow
        BY <1>3
    <1>6. req[a].pc \in Carrying /\ req[a].pc = "writeAlipay"
        BY <1>1 DEF At, Carrying
    <1> QED BY <1>1, <1>3, <1>4, <1>5, <1>6, WriteKeeps DEF Kept

LEMMA CreateHookKeeps ==
    ASSUME IInv, Note, NEW a \in Request, UNCHANGED <<sent, heard>>, CreateHook(a)
    PROVE  IInv'
PROOF
    <1> DEFINE v == [req[a].new EXCEPT !.enabled = TRUE]
    <1>1. /\ At(a, "createHook") /\ req[a].row = a /\ IsHook(a)
          /\ req[a].new \in HookForm /\ Writes(a, a, v)
        BY DEF CreateHook, IInv, PcInv, At
    <1>2. v \in HookRow /\ v.secret = req[a].new.secret
        BY <1>1 DEF HookForm, HookRow, GivenSecret
    <1> HIDE DEF v
    <1>3. v \in DomainRow \cup HookRow \cup AlipayRow
        BY <1>2
    <1>4. req[a].pc = "createHook"
        BY <1>1 DEF At
    <1> QED BY <1>1, <1>2, <1>3, <1>4, WriteKeeps

LEMMA ReadHookKeeps ==
    ASSUME IInv, Note, NEW a \in Request, UNCHANGED <<sent, heard>>, ReadHook(a)
    PROVE  IInv'
PROOF
    <1> DEFINE id == req[a].row
    <1>1. /\ At(a, "readHook") /\ IsHook(id) /\ req[a].new \in HookForm
          /\ req[a].kind = "save"
        BY DEF ReadHook, IInv, PcInv, At
    <1>2. rows[id] \in HookRow \cup {NoRow}
        BY <1>1, Owners, RowIs DEF IInv
    <1>3. CASE Refused(a)
        BY <1>1, <1>3, RefusedKeeps DEF At
    <1>4. CASE Sees(a, rows[id], "writeHook") /\ rows[id] # NoRow
        <2>1. \A x : Serves(a) => (IsHook(x)' <=> IsHook(x))
            BY OwnersStay
        <2>2. ASSUME Serves(a), req'[a].pc = "writeHook", req'[a].seen = rows[id],
                     req'[a].answer = "none"
              PROVE  PcInv(a)'
            <3>1. req'[a].kind = "save" /\ req'[a].row = id /\ req'[a].new = req[a].new
                  /\ IsHook(id) /\ (\A x : IsHook(x)' <=> IsHook(x))
                BY <1>1, <2>1, <2>2, SameRequests
            <3>2. \A x : x = id => IsHook(x)'
                BY <3>1
            <3> QED BY <1>1, <1>2, <1>4, <2>2, <3>1, <3>2 DEF PcInv, At, HookForm, HookRow,
                    GivenSecret, Event
        <2> QED BY <1>1, <1>2, <1>4, <2>2, ReadKeeps DEF At
    <1> QED BY <1>3, <1>4 DEF ReadHook

LEMMA WriteHookKeeps ==
    ASSUME IInv, Note, NEW a \in Request, UNCHANGED <<sent, heard>>, WriteHook(a)
    PROVE  IInv'
PROOF
    <1> DEFINE new == req[a].new
    <1> DEFINE old == req[a].seen.secret
    <1> DEFINE v == [new EXCEPT !.secret = IF @ = Blank THEN old ELSE @]
    <1>1. /\ At(a, "writeHook") /\ IsHook(req[a].row) /\ new \in HookForm
          /\ req[a].seen \in HookRow /\ Writes(a, req[a].row, v)
        BY DEF WriteHook, IInv, PcInv, At
    <1>2. old \in Secret \cup {Blank} /\ new.secret \in Secret \cup {Blank} /\ new.secret # Mask
        BY <1>1, ConsoleAssumption DEF HookRow, HookForm, GivenSecret
    <1>3. v \in HookRow /\ v.secret = IF new.secret = Blank THEN old ELSE new.secret
        BY <1>1, <1>2 DEF HookForm, HookRow
    <1> HIDE DEF v
    <1>4. v \in DomainRow \cup HookRow \cup AlipayRow
        BY <1>3
    <1>5. req[a].pc \in Carrying /\ req[a].pc = "writeHook"
        BY <1>1 DEF At, Carrying
    <1> QED BY <1>1, <1>2, <1>3, <1>4, <1>5, WriteKeeps
-----------------------------------------------------------------------------
(* Orders and events. *)

(* A request that asks for no row moves on, or ends. *)
LEMMA OtherKeeps ==
    ASSUME IInv, Note, NEW a \in Request, Serves(a), UNCHANGED <<sent, heard, rows>>,
           orders' \in [{Order} \cup Request -> OrderRow \cup {NoRow}],
           req[a].kind \in {"order", "mock", "notify", "dns"},
           OrdersKept(a), PcInv(a)', OrderInv(a)', PriceInv(a)'
    PROVE  IInv'
PROOF
    <1>1. SparesDeleted(a) /\ DeletedInv(a)' /\ \A x \in Row : Careful(a, x)
        BY OthersSpare
    <1>2. rows' \in [Row -> RowValue]
        BY DEF IInv
    <1> QED BY <1>1, <1>2, ServesKeep

LEMMA GotoKeeps ==
    ASSUME IInv, Note, NEW a \in Request, UNCHANGED <<sent, heard, rows, orders>>,
           req[a].pc \notin {"idle", "done"}, NEW p \in {"notify", "pay", "dispatch"},
           Goto(a, p), req[a].kind \in {"mock", "notify", "dns"},
           p = "dispatch" =>
             /\ req[a].kind # "mock"
             /\ req[a].kind = "notify" => req[a].new # "success",
           p \in {"notify", "pay"} => req[a].kind # "dns"
    PROVE  IInv'
PROOF
    <1>1. p \in Pcs /\ p # "idle" /\ ~At(a, "idle") /\ ~At(a, "done")
        BY DEF Pcs, At
    <1>2. Serves(a) /\ req'[a].pc = p /\ req'[a].answer = req[a].answer
        BY <1>1, GotoFacts DEF IInv
    <1>3. /\ req'[a].kind = req[a].kind /\ req'[a].new = req[a].new /\ req'[a].row = req[a].row
          /\ req[a].answer = "none"
        BY <1>1, <1>2, SameRequests DEF IInv, PcInv
    <1>4. PcInv(a)'
        BY <1>2, <1>3 DEF PcInv, At
    <1>5. orders[a] = NoRow
        BY DEF IInv, OrderInv
    <1>6. OrderInv(a)' /\ PriceInv(a)'
        BY <1>2, <1>3, <1>5 DEF OrderInv, PriceInv, At
    <1>7. OrdersKept(a) /\ orders' \in [{Order} \cup Request -> OrderRow \cup {NoRow}]
        BY DEF OrdersKept, IInv
    <1> QED BY <1>2, <1>4, <1>6, <1>7, OtherKeeps
(* A rate that was read is noted at the same step. *)
LEMMA RateIsInForce ==
    ASSUME IInv, Note, NEW a \in Request, rows' = rows, req[a].kind = "order",
           ~At(a, "idle"), ~At(a, "done"), NEW f \in BOOLEAN, req'[a].failed = f,
           LoadConfig(rows["alipay"], f) # Broken
    PROVE  LoadConfig(rows["alipay"], f).rate \in InForce(a)'
PROOF
    <1>1. Watched(req[a]) = {"alipay"}
        BY DEF Watched, At
    <1>2. <<"alipay", rows["alipay"]>> \in was[a]
        BY <1>1 DEF IInv, WatchInv
    <1>3. was[a] \subseteq was'[a]
        BY NoteKeeps DEF IInv, Grows
    <1>4. rows["alipay"] \in {w[2] : w \in was'[a]}
        BY <1>2, <1>3
    <1>5. rows["alipay"] \in AlipayRow \cup {NoRow, Broken}
        BY RowIs DEF IInv, Row
    <1>6. rows["alipay"] = Broken => f
        BY <1>5, LoadConfigIs
    <1> QED BY <1>4, <1>6 DEF InForce, LoadConfig, Default

LEMMA LoadForOrderKeeps ==
    ASSUME IInv, Note, NEW a \in Request, UNCHANGED <<sent, heard>>, LoadForOrder(a)
    PROVE  IInv'
PROOF
    <1>1. /\ At(a, "loadForOrder") /\ req[a].kind = "order" /\ req[a].answer = "none"
          /\ ~At(a, "idle") /\ ~At(a, "done") /\ ~At(a, "set") /\ UNCHANGED <<rows, orders>>
        BY DEF LoadForOrder, IInv, PcInv, At
    <1>2. PICK failed \in BOOLEAN :
            LET cfg == LoadConfig(rows["alipay"], failed) IN
            IF cfg = Broken \/ (~cfg.enabled /\ cfg.secret # Blank)
            THEN Answers(a, "refused")
            ELSE Reads(a, cfg, failed, "insertOrder")
        BY DEF LoadForOrder
    <1> DEFINE cfg == LoadConfig(rows["alipay"], failed)
    <1>3. rows["alipay"] \in AlipayRow \cup {NoRow, Broken}
        BY RowIs DEF IInv, Row
    <1>4. /\ cfg \in AlipayRow \cup {Broken}
          /\ cfg \in AlipayRow => cfg.rate \in Nat \ {0}
        BY <1>3, LoadConfigIs
    <1>5. CASE Answers(a, "refused")
        BY <1>1, <1>5, EndsKeep
    <1>6. CASE Reads(a, cfg, failed, "insertOrder") /\ cfg # Broken
        <2>1. cfg \in SeenValue /\ "insertOrder" \in Pcs
            BY <1>4 DEF SeenValue, RowValue, Pcs
        <2>2. /\ Serves(a) /\ req'[a].pc = "insertOrder" /\ req'[a].seen = cfg
              /\ req'[a].failed = failed /\ req'[a].answer = "none"
            <3> HIDE DEF cfg
            <3> QED BY <1>1, <1>6, <2>1, ReadsFacts DEF IInv
        <2>3. req'[a].kind = "order"
            BY <1>1, <2>2, SameRequests
        <2>4. cfg.rate \in InForce(a)'
            BY <1>1, <1>6, <2>2, RateIsInForce
        <2> HIDE DEF cfg
        <2>5. PcInv(a)'
            BY <1>4, <1>6, <2>2, <2>3 DEF PcInv, At, AlipayRow
        <2>6. orders[a] = NoRow
            BY <1>1 DEF IInv, OrderInv
        <2>7. OrderInv(a)' /\ PriceInv(a)'
            BY <1>1, <2>2, <2>3, <2>4, <2>6 DEF OrderInv, PriceInv
        <2>8. OrdersKept(a) /\ orders' \in [{Order} \cup Request -> OrderRow \cup {NoRow}]
            BY <1>1 DEF OrdersKept, IInv
        <2> QED BY <1>1, <2>2, <2>5, <2>7, <2>8, OtherKeeps
    <1> QED BY <1>2, <1>5, <1>6

LEMMA PointsAre ==
    ASSUME NEW cents \in Nat \ {0}, NEW rate \in Nat \ {0}
    PROVE  PointsFor(cents, rate) \in Nat
PROOF
    <1>1. (cents \div 100) * rate \in Nat /\ (cents * rate) \div 100 \in Nat
        <2>1. cents \div 100 \in Nat /\ cents * rate \in Nat
            OBVIOUS
        <2>2. \A n \in Nat : n * rate \in Nat /\ n \div 100 \in Nat
            OBVIOUS
        <2> QED BY <2>1, <2>2
    <1> QED BY <1>1 DEF PointsFor

LEMMA InsertOrderKeeps ==
    ASSUME IInv, Note, NEW a \in Request, UNCHANGED <<sent, heard>>, InsertOrder(a)
    PROVE  IInv'
PROOF
    <1> DEFINE rate == req[a].seen.rate
    <1> DEFINE n == PointsFor(req[a].new, rate)
    <1> DEFINE row == [points |-> n, paid |-> FALSE]
    <1>1. /\ At(a, "insertOrder") /\ req[a].kind = "order" /\ req[a].answer = "none"
          /\ ~At(a, "idle") /\ ~At(a, "done") /\ req[a].new \in Cents
          /\ req[a].seen \in AlipayRow /\ rate # 0 /\ rate \in InForce(a)
        BY DEF InsertOrder, IInv, AskInv, PcInv, PriceInv, At
    <1>2. /\ UNCHANGED rows /\ orders' = [orders EXCEPT ![a] = row] /\ Answers(a, "ok")
        BY DEF InsertOrder
    <1>3. /\ Serves(a) /\ req'[a].pc = "done" /\ req'[a].failed = req[a].failed
          /\ req'[a].answer = "ok"
        BY <1>1, <1>2, AnswersFacts DEF IInv, AnswerSet
    <1>4. rate \in Nat \ {0} /\ req[a].new \in Nat \ {0}
        BY <1>1, ConsoleAssumption DEF AlipayRow
    <1>5. n \in Nat
        BY <1>4, PointsAre
    <1>6. row \in OrderRow /\ row.points = n
        BY <1>5 DEF OrderRow
    <1>7. row # NoRow
        BY <1>6, NoValueIsARow
    <1> HIDE DEF row
    <1>8. /\ orders' \in [{Order} \cup Request -> OrderRow \cup {NoRow}] /\ orders'[a] = row
          /\ \A o \in ({Order} \cup Request) \ {a} : orders'[o] = orders[o]
        BY <1>2, <1>6 DEF IInv
    <1>9. orders[a] = NoRow
        BY <1>1 DEF IInv, OrderInv
    <1>10. OrdersKept(a)
        BY <1>8, <1>9 DEF OrdersKept
    <1>11. req'[a].kind = "order" /\ req'[a].new = req[a].new
        BY <1>1, <1>3, SameRequests
    <1>12. PcInv(a)'
        BY <1>3 DEF PcInv, At
    <1>13. OrderInv(a)'
        BY <1>3, <1>11 DEF OrderInv, At
    <1>14. InForce(a) \subseteq InForce(a)'
        <2>1. was[a] \subseteq was'[a]
            BY <1>2, NoteKeeps DEF IInv, Grows
        <2> QED BY <1>3, <2>1 DEF InForce, LoadConfig, Default
    <1>15. PriceInv(a)'
        <2>1. rate \in InForce(a)' /\ rate \in Nat \ {0} /\ orders'[a] # NoRow
              /\ orders'[a].points = PointsFor(req'[a].new, rate)
            BY <1>1, <1>4, <1>6, <1>7, <1>8, <1>11, <1>14
        <2> HIDE DEF rate
        <2> QED BY <1>3, <1>11, <2>1 DEF PriceInv, At, PointsFor
    <1> QED BY <1>1, <1>2, <1>3, <1>8, <1>10, <1>12, <1>13, <1>15, OtherKeeps

LEMMA MockPayKeeps ==
    ASSUME IInv, Note, NEW a \in Request, UNCHANGED <<sent, heard>>, MockPay(a)
    PROVE  IInv'
PROOF
    <1>1. /\ At(a, "mock") /\ req[a].kind = "mock" /\ UNCHANGED <<rows, orders>>
          /\ Answers(a, "refused") \/ Goto(a, "notify")
        BY DEF MockPay, IInv, PcInv
    <1>2. CASE Answers(a, "refused")
        BY <1>1, <1>2, RefusedKeeps DEF Refused, At
    <1>3. CASE Goto(a, "notify")
        BY <1>1, <1>3, GotoKeeps DEF At
    <1> QED BY <1>1, <1>2, <1>3

LEMMA LoadForNotifyKeeps ==
    ASSUME IInv, Note, NEW a \in Request, UNCHANGED <<sent, heard>>, LoadForNotify(a)
    PROVE  IInv'
PROOF
    <1>1. /\ At(a, "notify") /\ req[a].kind \in {"mock", "notify"}
          /\ req[a].kind = "mock" => req[a].new = "success"
          /\ UNCHANGED <<rows, orders>>
        BY DEF LoadForNotify, IInv, AskInv, PcInv, At
    <1>2. CASE Answers(a, "refused")
        BY <1>1, <1>2, RefusedKeeps DEF Refused, At
    <1>3. CASE req[a].new = "waiting" /\ Goto(a, "dispatch")
        BY <1>1, <1>3, GotoKeeps DEF At
    <1>4. CASE Goto(a, "pay")
        BY <1>1, <1>4, GotoKeeps DEF At
    <1> QED BY <1>2, <1>3, <1>4 DEF LoadForNotify

LEMMA DnsChangeKeeps ==
    ASSUME IInv, Note, NEW a \in Request, UNCHANGED <<sent, heard>>, DnsChange(a)
    PROVE  IInv'
PROOF
    <1>1. At(a, "dnsChange") /\ req[a].kind = "dns" /\ UNCHANGED <<rows, orders>>
        BY DEF DnsChange, IInv, PcInv, At
    <1>2. CASE Answers(a, "refused")
        BY <1>1, <1>2, RefusedKeeps DEF Refused, At
    <1>3. CASE Goto(a, "dispatch")
        BY <1>1, <1>3, GotoKeeps DEF At
    <1> QED BY <1>2, <1>3 DEF DnsChange

LEMMA PayKeeps ==
    ASSUME IInv, Note, NEW a \in Request, UNCHANGED <<sent, heard>>, Pay(a)
    PROVE  IInv'
PROOF
    <1> DEFINE o == req[a].row
    <1>1. /\ At(a, "pay") /\ req[a].kind \in {"mock", "notify"} /\ req[a].answer = "none"
          /\ ~At(a, "idle") /\ ~At(a, "done") /\ o \in {Order} \cup Request /\ o # a
        BY DEF Pay, IInv, AskInv, PcInv, At
    <1>2. CASE Refused(a)
        BY <1>1, <1>2, RefusedKeeps DEF At
    <1>3. CASE /\ orders[o] # NoRow /\ orders' = [orders EXCEPT ![o].paid = TRUE]
               /\ IF req[a].kind = "notify" THEN Goto(a, "dispatch") ELSE Answers(a, "ok")
               /\ UNCHANGED rows
        <2>1. /\ Serves(a)
              /\ \/ req[a].kind = "notify" /\ req'[a].pc = "dispatch" /\ req'[a].answer = "none"
                 \/ req[a].kind = "mock" /\ req'[a].pc = "done" /\ req'[a].answer = "ok"
            <3>1. CASE req[a].kind = "notify"
                <4>1. "dispatch" \in Pcs /\ Goto(a, "dispatch")
                    BY <1>3, <3>1 DEF Pcs
                <4> QED BY <1>1, <3>1, <4>1, GotoFacts DEF IInv
            <3>2. CASE req[a].kind # "notify"
                BY <1>1, <1>3, <3>2, AnswersFacts DEF IInv, AnswerSet
            <3> QED BY <3>1, <3>2
        <2>2. req'[a].kind = req[a].kind /\ req'[a].row = o
            BY <2>1, SameRequests
        <2>3. orders[o] \in OrderRow
            BY <1>1, <1>3 DEF IInv
        <2> DEFINE row == [orders[o] EXCEPT !.paid = TRUE]
        <2>4. row \in OrderRow /\ row.points = orders[o].points /\ row.paid
            BY <2>3 DEF OrderRow
        <2>5. row # NoRow
            BY <2>4, NoValueIsARow
        <2>6. orders' = [orders EXCEPT ![o] = row]
            BY <1>3
        <2> HIDE DEF row
        <2>7. /\ orders' \in [{Order} \cup Request -> OrderRow \cup {NoRow}] /\ orders'[o] = row
              /\ \A p \in ({Order} \cup Request) \ {o} : orders'[p] = orders[p]
            BY <1>1, <2>4, <2>6 DEF IInv
        <2>8. OrdersKept(a)
            BY <1>3, <2>4, <2>5, <2>7 DEF OrdersKept
        <2>9. PcInv(a)'
            BY <2>1, <2>2 DEF PcInv, At
        <2>10. orders'[a] = NoRow
            BY <1>1, <2>7 DEF IInv, OrderInv
        <2>11. OrderInv(a)' /\ PriceInv(a)'
            BY <1>1, <2>1, <2>2, <2>4, <2>5, <2>7, <2>10 DEF OrderInv, PriceInv, At
        <2> QED BY <1>1, <1>3, <2>1, <2>7, <2>8, <2>9, <2>11, OtherKeeps
    <1> QED BY <1>2, <1>3 DEF Pay
(* Whom a dispatch tells was switched on, and watched all the time. *)
LEMMA DispatchKeeps ==
    ASSUME IInv, Note, NEW a \in Request, UNCHANGED heard, Dispatch(a)
    PROVE  IInv'
PROOF
    <1> DEFINE hooks == {x \in Row : /\ rows[x] \in HookRow /\ rows[x].enabled
                                     /\ EventOf(a) \in rows[x].events}
    <1>1. /\ At(a, "dispatch") /\ req[a].kind \in {"dns", "notify"} /\ req[a].answer = "none"
          /\ ~At(a, "idle") /\ ~At(a, "done") /\ UNCHANGED <<rows, orders>> /\ Answers(a, "ok")
        BY DEF Dispatch, IInv, PcInv, At
    <1>2. PICK told \in {{}, hooks} :
            sent' = sent \cup {[by |-> a, hook |-> h, event |-> EventOf(a), as |-> rows[h]] :
                                 h \in told}
        BY DEF Dispatch
    <1>3. Serves(a) /\ req'[a].pc = "done" /\ req'[a].answer = "ok"
        BY <1>1, AnswersFacts DEF IInv, AnswerSet
    <1>4. req'[a].kind = req[a].kind /\ req'[a].row = req[a].row /\ req'[a].new = req[a].new
        BY <1>3, SameRequests
    <1>5. ASSUME NEW m \in (sent' \cup heard') \ (sent \cup heard)
          PROVE  m \in Message /\ MessageInv(m)'
        <2>1. PICK h \in hooks : m = [by |-> a, hook |-> h, event |-> EventOf(a), as |-> rows[h]]
            BY <1>2, <1>5
        <2>2. /\ m.by = a /\ m.hook = h /\ m.event = EventOf(a) /\ m.as = rows[h]
              /\ m \in Message
            BY <2>1 DEF Message, EventOf, Event
        <2>3. h \in Watched(req[a])
            BY <1>1 DEF Watched, At
        <2>4. <<h, rows[h]>> \in was[a]
            BY <2>3 DEF IInv, WatchInv
        <2>5. <<h, rows[h]>> \in was'[a]
            BY <1>1, <2>4, NoteKeeps DEF IInv, Grows
        <2>6. m.event = "payment" => req'[a].kind = "notify"
            BY <1>1, <1>4, <2>2 DEF EventOf
        <2> QED BY <1>3, <2>2, <2>5, <2>6 DEF MessageInv
    <1>6. sent' \cup heard' \subseteq Message
        BY <1>5 DEF IInv
    <1>7. PcInv(a)'
        BY <1>3 DEF PcInv, At
    <1>8. OrderInv(a)' /\ PriceInv(a)'
        <2>1. orders[a] = NoRow /\ OrderInv(a)
            BY <1>1 DEF IInv, OrderInv
        <2> QED BY <1>1, <1>3, <1>4, <2>1 DEF OrderInv, PriceInv, At
    <1>9. OrdersKept(a)
        BY <1>1 DEF OrdersKept
    <1>10. SparesDeleted(a) /\ DeletedInv(a)' /\ \A x \in Row : Careful(a, x)
        BY <1>1, <1>3, OthersSpare
    <1>11. /\ rows' \in [Row -> RowValue]
           /\ orders' \in [{Order} \cup Request -> OrderRow \cup {NoRow}]
        BY <1>1 DEF IInv
    <1> QED BY <1>1, <1>3, <1>5, <1>6, <1>7, <1>8, <1>9, <1>10, <1>11, StepKeeps

(* What neither a request nor a row depends on. *)
LEMMA SameKeeps ==
    ASSUME IInv, UNCHANGED <<rows, orders, req>>, Grows,
           was' \in [Request -> SUBSET (Row \X RowValue)], \A r \in Request : WatchInv(r)',
           sent' \cup heard' \subseteq sent \cup heard
    PROVE  IInv'
PROOF
    <1>1. \A x : (IsDomain(x)' <=> IsDomain(x)) /\ (IsHook(x)' <=> IsHook(x))
        BY DEF IsDomain, IsHook, Creates, DomainForm, HookForm, GivenSecret
    <1>2. \A x \in Row : RowInv(x)'
        BY <1>1 DEF IInv, RowInv
    <1>3. \A m \in sent' \cup heard' : MessageInv(m)'
        BY DEF IInv, MessageInv, Grows, Message
    <1>4. ASSUME NEW r \in Request
          PROVE  /\ AskInv(r)' /\ PcInv(r)' /\ EarlierInv(r)' /\ OrderInv(r)' /\ PriceInv(r)'
                 /\ DeletedInv(r)' /\ LastInv(r)'
        <2>1. /\ AskInv(r) /\ PcInv(r) /\ EarlierInv(r) /\ OrderInv(r) /\ PriceInv(r)
              /\ DeletedInv(r) /\ LastInv(r)
            BY DEF IInv
        <2>2. AskInv(r)'
            BY <1>1, <2>1 DEF AskInv, At, AlipayForm, DomainForm, HookForm, GivenSecret, Settings
        <2>3. PcInv(r)'
            BY <1>1, <2>1 DEF PcInv, At, AlipayForm, DomainForm, HookForm, GivenSecret
        <2>4. EarlierInv(r)' /\ OrderInv(r)'
            BY <2>1 DEF EarlierInv, OrderInv, At
        <2>5. PriceInv(r)'
            <3>1. InForce(r) \subseteq InForce(r)'
                BY DEF InForce, Grows, LoadConfig, Default
            <3> QED BY <2>1, <3>1 DEF PriceInv, At, PointsFor
        <2>6. DeletedInv(r)'
            BY <2>1 DEF DeletedInv, Undisturbed, WrittenBy
        <2>7. ASSUME NEW x \in Row, LastWord(r, x)'
              PROVE  /\ Stored(x)' = Given(req'[r], x)
                     /\ \A s \in Request \ {r} :
                          CarriesOver(s, r, x)' /\ req'[s].pc \in Carrying =>
                            req'[s].seen.secret = Given(req'[r], x)
            <3>1. LastWord(r, x)
                BY <2>7 DEF LastWord, Entered, Wrote, CarriesOver, WrittenBy, Given, At
            <3>2. /\ Stored(x) = Given(req[r], x)
                  /\ \A s \in Request \ {r} :
                       CarriesOver(s, r, x) /\ req[s].pc \in Carrying =>
                         req[s].seen.secret = Given(req[r], x)
                BY <2>1, <3>1 DEF LastInv, Carrying
            <3>3. Stored(x)' = Stored(x)
                BY DEF Stored, DomainRow, HookRow, AlipayRow, Event
            <3>4. \A s \in Request : CarriesOver(s, r, x)' <=> CarriesOver(s, r, x)
                BY DEF CarriesOver, WrittenBy, Given
            <3> QED BY <3>2, <3>3, <3>4
        <2>8. LastInv(r)'
            <3>1. Row' = Row
                BY DEF Row
            <3>2. \A x : Given(req'[r], x) = Given(req[r], x)'
                BY DEF Given
            <3> QED BY <2>7, <3>1, <3>2 DEF LastInv, Carrying
        <2> QED BY <2>2, <2>3, <2>4, <2>5, <2>6, <2>8
    <1>5. Row' = Row /\ Message' = Message
        BY DEF Row, Message, HookRow, Event
    <1> QED BY <1>2, <1>3, <1>4, <1>5 DEF IInv, RowValue, OrderRow, DomainRow, HookRow,
            AlipayRow, Event

LEMMA SendKeeps ==
    ASSUME IInv, Note, NEW m \in sent, Send(m)
    PROVE  IInv'
PROOF
    <1>1. UNCHANGED <<rows, orders, req>> /\ sent' \cup heard' \subseteq sent \cup heard
        BY DEF Send
    <1>2. rows' \in [Row -> RowValue]
        BY <1>1 DEF IInv
    <1>3. /\ was' \in [Request -> SUBSET (Row \X RowValue)] /\ Grows
          /\ \A r \in Request : WatchInv(r)'
        BY <1>2, NoteKeeps
    <1> QED BY <1>1, <1>3, SameKeeps

LEMMA StutterKeeps ==
    ASSUME IInv, UNCHANGED vars
    PROVE  IInv'
PROOF
    <1>1. UNCHANGED <<rows, orders, req>> /\ sent' \cup heard' \subseteq sent \cup heard
          /\ UNCHANGED was
        BY DEF vars
    <1>2. Grows /\ was' \in [Request -> SUBSET (Row \X RowValue)]
        BY <1>1 DEF Grows, IInv
    <1>3. \A r \in Request : WatchInv(r)'
        BY <1>1 DEF IInv, WatchInv, Watched, Row, HookRow, Event
    <1> QED BY <1>1, <1>2, <1>3, SameKeeps
-----------------------------------------------------------------------------
(* A request that arrives. *)

(* Where a request starts, of what kind, on which row and with which form. *)
Shape(a, p, k, x, v) ==
    \/ p = "readDomain" /\ k = "save" /\ (IsDomain(x) \/ x = a) /\ v \in DomainForm
    \/ p = "delete" /\ k = "delete" /\ (IsDomain(x) \/ IsHook(x)) /\ v = NoRow
    \/ p = "set" /\ k = "settings" /\ x = NoRow /\ v \in Settings
    \/ p = "readAlipay" /\ k = "save" /\ x = "alipay" /\ v \in AlipayForm
    \/ p = "loadForOrder" /\ k = "order" /\ x = NoRow /\ v \in Cents
    \/ p = "mock" /\ k = "mock" /\ x \in ({Order} \cup Request) \ {a} /\ v = "success"
    \/ p = "notify" /\ k = "notify" /\ x \in ({Order} \cup Request) \ {a}
       /\ v \in {"success", "waiting"}
    \/ p = "createHook" /\ k = "save" /\ x = a /\ v \in HookForm
    \/ p = "readHook" /\ k = "save" /\ IsHook(x) /\ v \in HookForm
    \/ p = "dnsChange" /\ k = "dns" /\ x = NoRow /\ v = NoRow

LEMMA ArrivalCases ==
    ASSUME IInv, NEW a \in Request, Arrival(a)
    PROVE  \E p, k, x, v : Starts(a, p, k, x, v) /\ Shape(a, p, k, x, v)
PROOF
    <1>1. \A y \in Row : /\ rows[y] \in DomainRow => IsDomain(y)
                         /\ rows[y] \in HookRow => IsHook(y)
        BY RowIs DEF IInv
    <1>2. IsDomain(Domain) /\ IsHook(Hook) /\ DOMAIN orders = {Order} \cup Request
        BY DEF IsDomain, IsHook, IInv
    <1>3. CASE \E x \in {Domain, a} \cup {y \in Row : rows[y] \in DomainRow},
                  n \in Name, s \in GivenSecret :
                 Starts(a, "readDomain", "save", x, [name |-> n, secret |-> s])
        <2>1. PICK x \in {Domain, a} \cup {y \in Row : rows[y] \in DomainRow},
                   n \in Name, s \in GivenSecret :
                Starts(a, "readDomain", "save", x, [name |-> n, secret |-> s])
            BY <1>3
        <2>2. [name |-> n, secret |-> s] \in DomainForm
            BY DEF DomainForm
        <2>3. Shape(a, "readDomain", "save", x, [name |-> n, secret |-> s])
            BY <1>1, <1>2, <2>2 DEF Shape
        <2> QED BY <2>1, <2>3
    <1>4. CASE \E x \in {y \in Row : rows[y] \in DomainRow \cup HookRow} :
                 Starts(a, "delete", "delete", x, NoRow)
        BY <1>1, <1>4 DEF Shape
    <1>5. CASE \E new \in Settings : Starts(a, "set", "settings", NoRow, new)
        BY <1>5 DEF Shape
    <1>6. CASE \E s \in GivenSecret \cup {Mask}, n \in Rate, e \in BOOLEAN :
                 Starts(a, "readAlipay", "save", "alipay",
                        [secret |-> s, rate |-> n, enabled |-> e])
        <2>1. PICK s \in GivenSecret \cup {Mask}, n \in Rate, e \in BOOLEAN :
                Starts(a, "readAlipay", "save", "alipay",
                       [secret |-> s, rate |-> n, enabled |-> e])
            BY <1>6
        <2>2. [secret |-> s, rate |-> n, enabled |-> e] \in AlipayForm
            BY DEF AlipayForm
        <2> QED BY <2>1, <2>2 DEF Shape
    <1>7. CASE \E n \in Cents : Starts(a, "loadForOrder", "order", NoRow, n)
        BY <1>7 DEF Shape
    <1>8. CASE \E o \in {x \in DOMAIN orders : x # a} :
                 \/ Starts(a, "mock", "mock", o, "success")
                 \/ \E status \in {"success", "waiting"} :
                      Starts(a, "notify", "notify", o, status)
        BY <1>2, <1>8 DEF Shape
    <1>9. CASE \E s \in GivenSecret, ev \in SUBSET Event :
                 \/ Starts(a, "createHook", "save", a,
                           [secret |-> s, events |-> ev, enabled |-> TRUE])
                 \/ \E x \in {Hook} \cup {y \in Row : rows[y] \in HookRow}, e \in BOOLEAN :
                      Starts(a, "readHook", "save", x,
                             [secret |-> s, events |-> ev, enabled |-> e])
        <2>1. \A s \in GivenSecret, ev \in SUBSET Event, e \in BOOLEAN :
                [secret |-> s, events |-> ev, enabled |-> e] \in HookForm
            BY DEF HookForm
        <2>2. CASE \E s \in GivenSecret, ev \in SUBSET Event :
                     Starts(a, "createHook", "save", a,
                            [secret |-> s, events |-> ev, enabled |-> TRUE])
            BY <2>1, <2>2 DEF Shape
        <2>3. CASE \E s \in GivenSecret, ev \in SUBSET Event,
                      x \in {Hook} \cup {y \in Row : rows[y] \in HookRow}, e \in BOOLEAN :
                     Starts(a, "readHook", "save", x,
                            [secret |-> s, events |-> ev, enabled |-> e])
            <3>1. PICK s \in GivenSecret, ev \in SUBSET Event,
                       x \in {Hook} \cup {y \in Row : rows[y] \in HookRow}, e \in BOOLEAN :
                     Starts(a, "readHook", "save", x,
                            [secret |-> s, events |-> ev, enabled |-> e])
                BY <2>3
            <3>2. IsHook(x) /\ [secret |-> s, events |-> ev, enabled |-> e] \in HookForm
                BY <1>1, <1>2, <2>1
            <3> QED BY <3>1, <3>2 DEF Shape
        <2> QED BY <1>9, <2>2, <2>3
    <1>10. CASE Starts(a, "dnsChange", "dns", NoRow, NoRow)
        BY <1>10 DEF Shape
    <1> QED BY <1>3, <1>4, <1>5, <1>6, <1>7, <1>8, <1>9, <1>10 DEF Arrival

(* A new request: a's, which was idle. *)
Arrives(a, p, k, x, v) ==
    /\ req[a] = Idle /\ Shape(a, p, k, x, v)
    /\ req' \in Reqs /\ OthersStay(a) /\ UNCHANGED <<rows, orders>>
    /\ req'[a].pc = p /\ req'[a].kind = k /\ req'[a].row = x /\ req'[a].new = v
    /\ req'[a].earlier = {s \in Request : At(s, "done")}
    /\ req'[a].answer = "none"
    /\ k = "settings" => req'[a].seen = DOMAIN v

LEMMA ArrivesBy ==
    ASSUME IInv, NEW a \in Request, At(a, "idle"), NEW p, NEW k, NEW x, NEW v,
           Starts(a, p, k, x, v), Shape(a, p, k, x, v)
    PROVE  Arrives(a, p, k, x, v)
PROOF
    <1>1. req[a] = Idle
        BY DEF IInv, AskInv
    <1>2. \A y : IsDomain(y) \/ IsHook(y) => y \in Row
        BY Owners
    <1>3. x \in Row \cup {Order, NoRow}
        BY <1>2 DEF Shape, Row
    <1>4. p \in Pcs /\ k \in Kinds /\ v \in NewValue /\ (k = "settings" => v \in Settings)
        BY DEF Shape, Pcs, Kinds, NewValue
    <1>5. p # "idle"
        BY DEF Shape
    <1>6. req \in Reqs
        BY DEF IInv
    <1> QED BY <1>1, <1>3, <1>4, <1>5, <1>6, StartsFacts DEF Arrives

LEMMA IdleIs ==
    ASSUME NEW a, req[a] = Idle
    PROVE  /\ At(a, "idle") /\ ~At(a, "done") /\ req[a].kind = "none" /\ req[a].answer = "none"
           /\ WrittenBy(req[a]) = {}
PROOF
    BY DEF Idle, At, WrittenBy

LEMMA OwnersGrow ==
    ASSUME IInv, NEW a \in Request, NEW p, NEW k, NEW x, NEW v, Arrives(a, p, k, x, v)
    PROVE  /\ \A y : IsDomain(y) => IsDomain(y)'
           /\ \A y : IsHook(y) => IsHook(y)'
           /\ k = "save" => \/ x = "alipay" /\ v \in AlipayForm
                            \/ IsDomain(x)' /\ v \in DomainForm
                            \/ IsHook(x)' /\ v \in HookForm
           /\ k = "delete" => IsDomain(x)' \/ IsHook(x)'
PROOF
    <1>1. req[a].kind = "none" /\ \A s \in Request \ {a} : req'[s] = req[s]
        BY IdleIs DEF Arrives, OthersStay
    <1>2. /\ \A y : IsDomain(y) => IsDomain(y)'
          /\ \A y : IsHook(y) => IsHook(y)'
        BY <1>1 DEF IsDomain, IsHook, Creates, DomainForm, HookForm, GivenSecret
    <1>3. /\ k = "save" /\ x = a /\ v \in DomainForm => IsDomain(x)'
          /\ k = "save" /\ x = a /\ v \in HookForm => IsHook(x)'
        BY DEF Arrives, IsDomain, IsHook, Creates, DomainForm, HookForm, GivenSecret
    <1> QED BY <1>2, <1>3 DEF Arrives, Shape

LEMMA AskAfterArrival ==
    ASSUME IInv, NEW a \in Request, NEW p, NEW k, NEW x, NEW v, Arrives(a, p, k, x, v),
           NEW r \in Request
    PROVE  AskInv(r)' /\ PcInv(r)' /\ EarlierInv(r)'
PROOF
    <1>1. /\ \A y : IsDomain(y) => IsDomain(y)'
          /\ \A y : IsHook(y) => IsHook(y)'
          /\ k = "save" => \/ x = "alipay" /\ v \in AlipayForm
                           \/ IsDomain(x)' /\ v \in DomainForm
                           \/ IsHook(x)' /\ v \in HookForm
          /\ k = "delete" => IsDomain(x)' \/ IsHook(x)'
        BY OwnersGrow
    <1>2. At(a, "idle") /\ ~At(a, "done") /\ req[a].kind = "none"
        BY IdleIs DEF Arrives
    <1>3. /\ req'[a].pc = p /\ req'[a].kind = k /\ req'[a].row = x /\ req'[a].new = v
          /\ req'[a].answer = "none" /\ k = "settings" => req'[a].seen = DOMAIN v
          /\ req'[a].earlier = {s \in Request : At(s, "done")}
          /\ \A s \in Request \ {a} : req'[s] = req[s]
        BY DEF Arrives, OthersStay
    <1>4. CASE r = a
        <2>1. AskInv(a)'
            BY <1>1, <1>3 DEF AskInv, At, Arrives, Shape, AlipayForm, DomainForm, HookForm,
                GivenSecret, Settings
        <2>2. IsDomain(req[a].row)' \/ p \notin {"readDomain", "writeDomain"}
            <3>1. p = "readDomain" => k = "save" /\ x = req'[a].row /\ (IsDomain(x) \/ x = a)
                                      /\ v \in DomainForm
                BY <1>3 DEF Arrives, Shape
            <3>2. \A y : y = a /\ x = a /\ k = "save" /\ v \in DomainForm => IsDomain(y)'
                BY <1>3 DEF IsDomain, Creates, DomainForm, GivenSecret
            <3>3. \A y : p = "readDomain" /\ y = x => IsDomain(y)'
                BY <1>1, <3>1, <3>2
            <3>4. p # "writeDomain"
                BY DEF Arrives, Shape
            <3> QED BY <1>3, <3>3, <3>4
        <2>3. IsHook(req[a].row)' \/ p \notin {"createHook", "readHook", "writeHook"}
            <3>1. /\ p = "readHook" => IsHook(x)
                  /\ p = "createHook" => x = a /\ k = "save" /\ v \in HookForm
                BY DEF Arrives, Shape
            <3>2. \A y : y = a /\ x = a /\ k = "save" /\ v \in HookForm => IsHook(y)'
                BY <1>3 DEF IsHook, Creates, HookForm, GivenSecret
            <3>3. \A y : p \in {"readHook", "createHook"} /\ y = x => IsHook(y)'
                BY <1>1, <3>1, <3>2
            <3>4. p # "writeHook"
                BY DEF Arrives, Shape
            <3> QED BY <1>3, <3>3, <3>4
        <2>4. PcInv(a)'
            BY <1>3, <2>2, <2>3 DEF PcInv, At, Arrives, Shape, AlipayForm, DomainForm, HookForm,
                GivenSecret
        <2>5. EarlierInv(a)'
            <3>1. ASSUME k \in {"save", "delete"}, x \in Request \ {a}
                  PROVE  ~At(x, "idle") /\ a \notin req[x].earlier
                <4>1. IsDomain(x) \/ IsHook(x)
                    BY <3>1, ConsoleAssumption DEF Arrives, Shape
                <4>2. x # Domain /\ x # Hook
                    BY <3>1, ConsoleAssumption
                <4>3. req[x].kind = "save"
                    BY <4>1, <4>2 DEF IsDomain, IsHook, Creates
                <4>4. AskInv(x) /\ EarlierInv(x)
                    BY <3>1 DEF IInv
                <4> QED BY <1>2, <4>3, <4>4 DEF AskInv, EarlierInv, Idle
            <3> QED BY <1>2, <1>3, <3>1 DEF EarlierInv, At
        <2> QED BY <1>4, <2>1, <2>4, <2>5
    <1>5. CASE r # a
        <2>1. AskInv(r) /\ PcInv(r) /\ EarlierInv(r) /\ req'[r] = req[r]
            BY <1>3, <1>5 DEF IInv
        <2>2. AskInv(r)'
            BY <1>1, <2>1 DEF AskInv, At, AlipayForm, DomainForm, HookForm, GivenSecret, Settings
        <2>3. PcInv(r)'
            BY <1>1, <2>1 DEF PcInv, At, AlipayForm, DomainForm, HookForm, GivenSecret
        <2>4. EarlierInv(r)'
            <3>1. req[r].earlier \subseteq Request
                BY DEF IInv, Reqs, Asking
            <3> QED BY <1>2, <1>3, <2>1, <3>1 DEF EarlierInv, At
        <2> QED BY <2>2, <2>3, <2>4
    <1> QED BY <1>4, <1>5
LEMMA OrdersAfterArrival ==
    ASSUME IInv, NEW a \in Request, NEW p, NEW k, NEW x, NEW v, Arrives(a, p, k, x, v), Grows,
           NEW r \in Request
    PROVE  OrderInv(r)' /\ PriceInv(r)'
PROOF
    <1>1. /\ req'[a].pc = p /\ req'[a].answer = "none" /\ UNCHANGED orders
          /\ \A s \in Request \ {a} : req'[s] = req[s]
          /\ p \notin {"insertOrder", "dispatch", "done"}
        BY DEF Arrives, Shape, OthersStay
    <1>2. CASE r = a
        <2>1. orders[a] = NoRow
            BY IdleIs DEF IInv, OrderInv, Arrives
        <2> QED BY <1>1, <1>2, <2>1 DEF OrderInv, PriceInv, At
    <1>3. CASE r # a
        <2>1. OrderInv(r) /\ PriceInv(r) /\ req'[r] = req[r]
            BY <1>1, <1>3 DEF IInv
        <2>2. InForce(r) \subseteq InForce(r)'
            BY <2>1 DEF InForce, Grows, LoadConfig, Default
        <2> QED BY <1>1, <2>1, <2>2 DEF OrderInv, PriceInv, At, PointsFor
    <1> QED BY <1>2, <1>3

LEMMA DeletedAfterArrival ==
    ASSUME IInv, NEW a \in Request, NEW p, NEW k, NEW x, NEW v, Arrives(a, p, k, x, v),
           NEW r \in Request
    PROVE  DeletedInv(r)'
PROOF
    <1>1. /\ req'[a].pc = p /\ req'[a].answer = "none" /\ UNCHANGED rows
          /\ \A s \in Request \ {a} : req'[s] = req[s]
        BY DEF Arrives, OthersStay
    <1>2. CASE r = a
        BY <1>1, <1>2, NotDeleted
    <1>3. CASE r # a
        <2> SUFFICES ASSUME Undisturbed(r)'
                     PROVE  /\ rows'[req'[r].row] = NoRow
                            /\ \A s \in Request \ {r} :
                                 req'[r].row \in WrittenBy(req'[s]) => req'[s].pc \in Reading
            BY DEF DeletedInv, Reading
        <2>1. req'[r] = req[r] /\ DeletedInv(r) /\ AskInv(r) /\ EarlierInv(r)
            BY <1>1, <1>3 DEF IInv
        <2>2. \A s \in Request \ {a} : WrittenBy(req'[s]) = WrittenBy(req[s])
            BY <1>1
        <2>3. WrittenBy(req[a]) = {} /\ At(a, "idle")
            BY IdleIs DEF Arrives
        <2>4. Undisturbed(r)
            BY <1>1, <2>1, <2>2, <2>3 DEF Undisturbed
        <2>5. req[r].kind = "delete" /\ req[r].row \in Row \ Key
            BY <2>1, <2>4, WrittenRows DEF Undisturbed
        <2>6. /\ rows[req[r].row] = NoRow
              /\ \A s \in Request \ {r} :
                   req[r].row \in WrittenBy(req[s]) => req[s].pc \in Reading
            BY <2>1, <2>4 DEF DeletedInv, Reading
        <2>7. req[r].row \in WrittenBy(req'[a]) => p \in Reading
            <3>1. req[r].row # a
                BY <1>3, <2>1, <2>3, <2>5 DEF EarlierInv
            <3>2. req'[a].kind = k /\ req'[a].row = x /\ req'[a].new = v
                BY DEF Arrives
            <3>3. v \in Settings => DOMAIN v \subseteq Key
                BY DEF Settings, Key
            <3> QED BY <2>5, <3>1, <3>2, <3>3 DEF Arrives, Shape, WrittenBy, Reading, Key
        <2> QED BY <1>1, <2>1, <2>2, <2>6, <2>7
    <1> QED BY <1>2, <1>3

LEMMA LastAfterArrival ==
    ASSUME IInv, NEW a \in Request, NEW p, NEW k, NEW x, NEW v, Arrives(a, p, k, x, v),
           NEW r \in Request
    PROVE  LastInv(r)'
PROOF
    <1>1. /\ req'[a].pc = p /\ req'[a].answer = "none" /\ UNCHANGED rows
          /\ \A s \in Request \ {a} : req'[s] = req[s]
          /\ p \notin Carrying
        BY DEF Arrives, OthersStay, Shape, Carrying
    <1>2. ASSUME NEW y \in Row, LastWord(r, y)'
          PROVE  /\ Stored(y)' = Given(req'[r], y)
                 /\ \A s \in Request \ {r} :
                      CarriesOver(s, r, y)' /\ req'[s].pc \in Carrying =>
                        req'[s].seen.secret = Given(req'[r], y)
        <2>1. Entered(r, y)'
            BY <1>2 DEF LastWord
        <2>2. r # a
            <3>1. ~Entered(a, y)'
                <4>1. p = "set" => WrittenBy(req'[a]) = req'[a].seen
                    BY DEF Arrives, Shape, WrittenBy
                <4> QED BY <1>1, <4>1 DEF Entered, At
            <3> QED BY <2>1, <3>1
        <2>3. req'[r] = req[r]
            BY <1>1, <2>2
        <2>4. Entered(r, y)
            BY <2>1, <2>3 DEF Entered, WrittenBy, Given, At
        <2>5. ~Wrote(a, y)
            BY IdleIs DEF Arrives, Wrote
        <2>6. \A s \in Request \ {a} : /\ Wrote(s, y)' <=> Wrote(s, y)
                                       /\ CarriesOver(s, r, y)' <=> CarriesOver(s, r, y)
            BY <1>1 DEF Wrote, CarriesOver, WrittenBy, Given, At
        <2>7. LastWord(r, y)
            BY <1>2, <2>3, <2>4, <2>5, <2>6 DEF LastWord
        <2>8. /\ Stored(y) = Given(req[r], y)
              /\ \A s \in Request \ {r} :
                   CarriesOver(s, r, y) /\ req[s].pc \in Carrying =>
                     req[s].seen.secret = Given(req[r], y)
            BY <2>7 DEF IInv, LastInv, Carrying
        <2>9. Stored(y)' = Stored(y)
            BY <1>1 DEF Stored, DomainRow, HookRow, AlipayRow, Event
        <2> QED BY <1>1, <2>3, <2>6, <2>8, <2>9
    <1>3. Row' = Row
        BY DEF Row
    <1>4. \A y : Given(req'[r], y) = Given(req[r], y)'
        BY DEF Given
    <1> QED BY <1>2, <1>3, <1>4 DEF LastInv, Carrying

LEMMA ArrivalKeeps ==
    ASSUME IInv, Note, NEW a \in Request, UNCHANGED <<sent, heard>>, Arrival(a)
    PROVE  IInv'
PROOF
    <1>1. PICK p, k, x, v : Arrives(a, p, k, x, v)
        <2>1. PICK p, k, x, v : Starts(a, p, k, x, v) /\ Shape(a, p, k, x, v)
            BY ArrivalCases
        <2>2. Arrives(a, p, k, x, v)
            BY <2>1, ArrivesBy DEF Arrival
        <2> QED BY <2>2
    <1>2. req' \in Reqs /\ UNCHANGED <<rows, orders>> /\ req[a].answer = "none"
          /\ \A s \in Request \ {a} : req'[s] = req[s]
        BY <1>1, IdleIs DEF Arrives, OthersStay
    <1>3. /\ was' \in [Request -> SUBSET (Row \X RowValue)] /\ Grows
          /\ \A r \in Request : WatchInv(r)'
        BY <1>2, NoteKeeps DEF IInv
    <1>4. \A x1 \in Row : RowInv(x1)'
        <2>1. /\ \A y : IsDomain(y) => IsDomain(y)'
              /\ \A y : IsHook(y) => IsHook(y)'
            BY <1>1, OwnersGrow
        <2> QED BY <1>2, <2>1 DEF IInv, RowInv
    <1>5. \A m \in sent' \cup heard' : MessageInv(m)'
        <2>1. ASSUME NEW m \in sent \cup heard
              PROVE  MessageInv(m)'
            <3>1. MessageInv(m) /\ m.by \in Request
                BY DEF IInv, Message
            <3>2. req'[m.by] = req[m.by]
                BY <1>2, <3>1 DEF MessageInv
            <3> QED BY <1>3, <3>1, <3>2 DEF MessageInv, Grows
        <2> QED BY <2>1
    <1>6. \A r \in Request : AskInv(r)' /\ PcInv(r)' /\ EarlierInv(r)'
        BY <1>1, AskAfterArrival
    <1>7. \A r \in Request : OrderInv(r)' /\ PriceInv(r)'
        BY <1>1, <1>3, OrdersAfterArrival
    <1>8. \A r \in Request : DeletedInv(r)' /\ LastInv(r)'
        BY <1>1, DeletedAfterArrival, LastAfterArrival
    <1>9. Row' = Row /\ Message' = Message
        BY DEF Row, Message, HookRow, Event
    <1> QED BY <1>2, <1>3, <1>4, <1>5, <1>6, <1>7, <1>8, <1>9 DEF IInv, RowValue, OrderRow,
            DomainRow, HookRow, AlipayRow, Event

LEMMA InitKeeps ==
    ASSUME Init
    PROVE  IInv
PROOF
    <1>1. Idle \in Asking
        BY DEF Idle, Asking, Pcs, Kinds, Row, NewValue, SeenValue, RowValue, AnswerSet
    <1>2. req \in Reqs /\ \A r \in Request : req[r] = Idle
        BY <1>1 DEF Init, Reqs
    <1>3. \A r \in Request : /\ At(r, "idle") /\ ~At(r, "done") /\ req[r].kind = "none"
                             /\ req[r].answer = "none" /\ WrittenBy(req[r]) = {}
                             /\ req[r].pc = "idle" /\ req[r].earlier = {}
        <2>1. Idle.pc = "idle" /\ Idle.earlier = {}
            BY DEF Idle
        <2> QED BY <1>2, <2>1, IdleIs
    <1>4. rows \in [Row -> RowValue] /\ \A x \in Row : RowInv(x)
        <2> DEFINE d == [name |-> FirstName, secret |-> FirstSecret]
        <2> DEFINE h == [secret |-> FirstSecret, events |-> Event, enabled |-> TRUE]
        <2>1. d \in DomainRow /\ h \in HookRow
            BY ConsoleAssumption DEF DomainRow, HookRow
        <2>2. rows = [x \in Row |-> CASE x = Domain -> d [] x = Hook -> h [] OTHER -> NoRow]
            BY DEF Init
        <2> HIDE DEF d, h
        <2>3. \A x \in Row : rows[x] = IF x = Domain THEN d ELSE IF x = Hook THEN h ELSE NoRow
            BY <2>2, ConsoleAssumption
        <2>4. IsDomain(Domain) /\ IsHook(Hook)
            BY DEF IsDomain, IsHook
        <2>5. \A x \in Row : RowInv(x) /\ rows[x] \in RowValue
            BY <2>1, <2>3, <2>4 DEF RowInv, RowValue
        <2>6. rows \in [Row -> RowValue]
            BY <2>2, <2>5
        <2> QED BY <2>5, <2>6
    <1>5. /\ orders \in [{Order} \cup Request -> OrderRow \cup {NoRow}]
          /\ \A r \in Request : orders[r] = NoRow
        <2> DEFINE first == [points |-> DefaultRate, paid |-> FALSE]
        <2>1. first \in OrderRow
            BY DEF OrderRow, DefaultRate
        <2>2. orders = [o \in {Order} \cup Request |-> IF o = Order THEN first ELSE NoRow]
            BY DEF Init
        <2> HIDE DEF first
        <2>3. Order \notin Request
            BY ConsoleAssumption
        <2> QED BY <2>1, <2>2, <2>3
    <1>6. sent \cup heard = {} /\ was \in [Request -> SUBSET (Row \X RowValue)]
        BY DEF Init
    <1>7. ASSUME NEW r \in Request
          PROVE  /\ AskInv(r) /\ PcInv(r) /\ EarlierInv(r) /\ OrderInv(r) /\ PriceInv(r)
                 /\ WatchInv(r) /\ DeletedInv(r) /\ LastInv(r)
        <2>1. AskInv(r) /\ EarlierInv(r)
            BY <1>2, <1>3 DEF AskInv, EarlierInv
        <2>2. PcInv(r)
            BY <1>3 DEF PcInv, At
        <2>3. OrderInv(r) /\ PriceInv(r)
            BY <1>3, <1>5 DEF OrderInv, PriceInv, At
        <2>4. WatchInv(r) /\ DeletedInv(r)
            BY <1>3 DEF WatchInv, Watched, DeletedInv, Undisturbed
        <2>5. LastInv(r)
            BY <1>3 DEF LastInv, LastWord, Entered
        <2> QED BY <2>1, <2>2, <2>3, <2>4, <2>5
    <1> QED BY <1>2, <1>4, <1>5, <1>6, <1>7 DEF IInv

LEMMA NextKeeps ==
    ASSUME IInv, Next
    PROVE  IInv'
PROOF
    <1>1. Note
        BY DEF Next
    <1>2. ASSUME NEW r \in Request, Arrival(r) \/ Step(r) \/ Fail(r), UNCHANGED <<sent, heard>>
          PROVE  IInv'
        <2>1. CASE Arrival(r)
            BY <1>1, <1>2, <2>1, ArrivalKeeps
        <2>2. CASE Step(r)
            <3>1. CASE ReadDomain(r) \/ WriteDomain(r) \/ Delete(r) \/ SetOne(r)
                BY <1>1, <1>2, <3>1, ReadDomainKeeps, WriteDomainKeeps, DeleteKeeps, SetOneKeeps
            <3>2. CASE ReadAlipay(r) \/ WriteAlipay(r)
                BY <1>1, <1>2, <3>2, ReadAlipayKeeps, WriteAlipayKeeps
            <3>3. CASE LoadForOrder(r) \/ InsertOrder(r) \/ MockPay(r)
                BY <1>1, <1>2, <3>3, LoadForOrderKeeps, InsertOrderKeeps, MockPayKeeps
            <3>4. CASE LoadForNotify(r) \/ Pay(r) \/ DnsChange(r)
                BY <1>1, <1>2, <3>4, LoadForNotifyKeeps, PayKeeps, DnsChangeKeeps
            <3>5. CASE CreateHook(r) \/ ReadHook(r) \/ WriteHook(r)
                BY <1>1, <1>2, <3>5, CreateHookKeeps, ReadHookKeeps, WriteHookKeeps
            <3> QED BY <2>2, <3>1, <3>2, <3>3, <3>4, <3>5 DEF Step
        <2>3. CASE Fail(r)
            BY <1>1, <1>2, <2>3, FailKeeps
        <2> QED BY <1>2, <2>1, <2>2, <2>3
    <1>3. ASSUME NEW r \in Request, Dispatch(r), UNCHANGED heard
          PROVE  IInv'
        BY <1>1, <1>3, DispatchKeeps
    <1>4. ASSUME NEW m \in sent, Send(m)
          PROVE  IInv'
        BY <1>1, <1>4, SendKeeps
    <1> QED BY <1>2, <1>3, <1>4 DEF Next
-----------------------------------------------------------------------------
(* What the invariant says of the model's properties. *)

LEMMA ImpliesTypeOK ==
    ASSUME IInv
    PROVE  TypeOK
PROOF
    <1>1. rows["alipay"] \in AlipayRow \cup {NoRow, Broken} /\ rows["site"] \in Secret \cup {NoRow}
        BY RowIs DEF IInv, Row
    <1>2. ASSUME NEW r \in Request
          PROVE  /\ req[r].answer \in {"none", "ok", "refused", "lost"}
                 /\ (req[r].answer = "none") = ~At(r, "done")
        <2>1. req[r].answer = "none" <=> ~At(r, "done")
            BY DEF IInv, PcInv
        <2>2. req[r].answer \in AnswerSet
            BY DEF IInv, Reqs, Asking
        <2>3. (req[r].answer = "none") = ~At(r, "done")
            BY <2>1 DEF At
        <2> QED BY <2>2, <2>3 DEF AnswerSet
    <1> QED BY <1>1, <1>2 DEF IInv, RowValue, TypeOK

LEMMA ImpliesLastEntered ==
    ASSUME IInv
    PROVE  LastEnteredHolds
PROOF
    <1> SUFFICES ASSUME NEW r \in Request, NEW x \in WrittenBy(req[r]),
                        req[r].answer = "ok", req[r].kind # "delete",
                        Given(req[r], x) \notin {Blank, Mask},
                        \A s \in Request \ {r} :
                          x \in WrittenBy(req[s]) /\ req[s].answer # "refused" =>
                            \/ s \in req[r].earlier
                            \/ /\ r \in req[s].earlier /\ req[s].kind = "save" /\ ~req[s].failed
                               /\ Given(req[s], x) \in {Blank, Mask}
                 PROVE  Stored(x) = Given(req[r], x)
        BY DEF LastEnteredHolds
    <1>1. x \in Row
        BY WrittenRows DEF IInv
    <1>2. Entered(r, x)
        BY DEF Entered
    <1>3. ASSUME NEW s \in Request \ {r}, Wrote(s, x)
          PROVE  s \in req[r].earlier \/ CarriesOver(s, r, x)
        <2>1. x \in WrittenBy(req[s]) /\ req[s].answer # "refused"
            BY <1>3 DEF Wrote, IInv, PcInv, At
        <2> QED BY <2>1 DEF CarriesOver
    <1>4. LastWord(r, x)
        BY <1>2, <1>3 DEF LastWord
    <1> QED BY <1>1, <1>4 DEF IInv, LastInv

LEMMA ImpliesDeleted ==
    ASSUME IInv
    PROVE  DeletedStaysDeleted
PROOF
    BY DEF IInv, DeletedInv, Undisturbed, DeletedStaysDeleted

(* What an amount is worth at a rate, to the last cent. *)
LEMMA PointsAreExact ==
    ASSUME NEW cents \in Nat \ {0}, NEW rate \in Nat \ {0}
    PROVE  LET exact == cents * rate
               points == PointsFor(cents, rate)
           IN IF exact < 100 THEN points * 100 >= exact /\ points > 0
              ELSE points * 100 <= exact /\ exact < (points + 1) * 100
PROOF
    <1> DEFINE exact == cents * rate
    <1> DEFINE yuan == cents \div 100
    <1>1. exact \in Nat \ {0} /\ exact >= rate /\ yuan \in Nat
          /\ cents = 100 * yuan + (cents % 100) /\ cents % 100 \in 0..99
        <2>1. cents >= 1 /\ rate >= 1
            OBVIOUS
        <2>2. (cents - 1) * rate >= 0
            BY <2>1
        <2>3. (cents - 1) * rate = cents * rate - rate
            OBVIOUS
        <2>4. exact \in Nat \ {0} /\ exact >= rate
            BY <2>1, <2>2, <2>3
        <2>5. yuan \in Nat /\ cents = 100 * yuan + (cents % 100) /\ cents % 100 \in 0..99
            OBVIOUS
        <2> QED BY <2>4, <2>5
    <1>2. CASE cents % 100 = 0
        <2>1. cents = 100 * yuan /\ yuan >= 1
            BY <1>1, <1>2
        <2>2. exact = (yuan * rate) * 100
            BY <2>1
        <2>3. yuan * rate \in Nat /\ yuan * rate > 0
            BY <1>1, <2>1
        <2>4. PointsFor(cents, rate) = yuan * rate
            BY <1>2, <2>3 DEF PointsFor
        <2> QED BY <2>2, <2>3, <2>4
    <1>3. CASE cents % 100 # 0
        <2> DEFINE q == exact \div 100
        <2>1. q \in Nat /\ q * 100 <= exact /\ exact < (q + 1) * 100
            BY <1>1
        <2>2. PointsFor(cents, rate) = IF q = 0 THEN rate ELSE q
            BY <1>3 DEF PointsFor
        <2> HIDE DEF q
        <2>3. CASE q = 0
            BY <1>1, <2>1, <2>2, <2>3
        <2>4. CASE q # 0
            BY <1>1, <2>1, <2>2, <2>4
        <2> QED BY <2>3, <2>4
    <1> QED BY <1>2, <1>3

LEMMA ImpliesPriced ==
    ASSUME IInv
    PROVE  PricedInForce
PROOF
    <1> SUFFICES ASSUME NEW r \in Request, req[r].kind = "order", req[r].answer = "ok"
                 PROVE  \E row \in {w[2] : w \in was[r]} \ (IF req[r].failed THEN {} ELSE {Broken}) :
                          LET exact == req[r].new * LoadConfig(row, req[r].failed).rate
                              points == orders[r].points
                          IN IF exact < 100 THEN points * 100 >= exact /\ points > 0
                             ELSE points * 100 <= exact /\ exact < (points + 1) * 100
        BY DEF PricedInForce
    <1>1. PICK rate \in InForce(r) \cap (Nat \ {0}) : orders[r].points = PointsFor(req[r].new, rate)
        BY DEF IInv, PriceInv
    <1>2. PICK row \in {w[2] : w \in was[r]} \ (IF req[r].failed THEN {} ELSE {Broken}) :
            rate = LoadConfig(row, req[r].failed).rate
        BY <1>1 DEF InForce
    <1>3. req[r].new \in Nat \ {0}
        BY ConsoleAssumption DEF IInv, AskInv
    <1>4. LET exact == req[r].new * rate
              points == PointsFor(req[r].new, rate)
          IN IF exact < 100 THEN points * 100 >= exact /\ points > 0
             ELSE points * 100 <= exact /\ exact < (points + 1) * 100
        BY <1>1, <1>3, PointsAreExact
    <1> QED BY <1>1, <1>2, <1>4

LEMMA ImpliesHeard ==
    ASSUME IInv
    PROVE  HeardAsSubscribed
PROOF
    BY DEF IInv, MessageInv, HeardAsSubscribed

LEMMA ImpliesPaid ==
    ASSUME IInv
    PROVE  PaidWhenTold
PROOF
    <1> SUFFICES ASSUME NEW m \in heard, m.event = "payment", req[m.by].new = "success"
                 PROVE  orders[req[m.by].row] # NoRow /\ orders[req[m.by].row].paid
        BY DEF PaidWhenTold
    <1>1. m.by \in Request /\ req[m.by].answer = "ok" /\ req[m.by].kind = "notify"
        BY DEF IInv, Message, MessageInv
    <1> QED BY <1>1 DEF IInv, OrderInv
-----------------------------------------------------------------------------
(* The inductive invariant holds in every behaviour. *)
THEOREM ConsoleInvariant == Spec => []IInv
PROOF
    <1>1. Init => IInv
        BY InitKeeps
    <1>2. IInv /\ [Next]_vars => IInv'
        BY NextKeeps, StutterKeeps
    <1> QED BY <1>1, <1>2, PTL DEF Spec

(* Every row is whole, the rows of settings hold what their keys may hold,  *)
(* and a request is answered when it is over: handleAdminSaveAlipay never   *)
(* stores the "***" that its form shows in the place of a key.              *)
THEOREM ConsoleTypeOK == Spec => []TypeOK
PROOF
    <1>1. IInv => TypeOK
        BY ImpliesTypeOK
    <1> QED BY <1>1, ConsoleInvariant, PTL

(* A secret or setting that was entered and acknowledged stays, whatever    *)
(* saves without one are made afterwards: domain's Service.Save,            *)
(* handleAdminSaveAlipay and webhook's Service.Update read the row first    *)
(* and write its secret back.                                               *)
THEOREM LastEnteredIsKept == Spec => []LastEnteredHolds
PROOF
    <1>1. IInv => LastEnteredHolds
        BY ImpliesLastEntered
    <1> QED BY <1>1, ConsoleInvariant, PTL

(* A deleted root domain or webhook stays away unless a save of it overlaps *)
(* the deletion: Service.Save of domain and Service.Update of webhook read  *)
(* the row first, and refuse a later save because there is none.            *)
THEOREM DeletionsHold == Spec => []DeletedStaysDeleted
PROOF
    <1>1. IInv => DeletedStaysDeleted
        BY ImpliesDeleted
    <1> QED BY <1>1, ConsoleInvariant, PTL

(* An order is priced to the cent at a rate that was in force while         *)
(* CreateOrder ran, for every amount and every rate, and is never worth     *)
(* nothing: the arithmetic of its whole and broken yuan.                    *)
THEOREM OrdersArePriced == Spec => []PricedInForce
PROOF
    <1>1. IInv => PricedInForce
        BY ImpliesPriced
    <1> QED BY <1>1, ConsoleInvariant, PTL

(* A webhook hears only what it was subscribed for while the operation was  *)
(* served: Dispatch reads the enabled rows once, a goroutine has its copy.  *)
THEOREM HearsAsSubscribed == Spec => []HeardAsSubscribed
PROOF
    <1>1. IInv => HeardAsSubscribed
        BY ImpliesHeard
    <1> QED BY <1>1, ConsoleInvariant, PTL

(* When a webhook hears that a payment succeeded, its order is paid:        *)
(* handleAlipayNotify dispatches once HandleNotify has succeeded.           *)
THEOREM ToldIsPaid == Spec => []PaidWhenTold
PROOF
    <1>1. IInv => PaidWhenTold
        BY ImpliesPaid
    <1> QED BY <1>1, ConsoleInvariant, PTL
=============================================================================
