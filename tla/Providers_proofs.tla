-------------------------- MODULE Providers_proofs --------------------------
(***************************************************************************)
(* Proofs about Providers, for any number of calls, values and lines: it   *)
(* implements Zone.                                                        *)
(*                                                                         *)
(* The argument: a request is pending until it is executed or refused, so  *)
(* it is executed at most once, and an answer that a client accepts is     *)
(* never a refusal's.  What Baidu's creation finds was not in its first    *)
(* listing; whoever gave the record its value therefore either was not     *)
(* over when the creation began, or had been listed before.                *)
(***************************************************************************)
EXTENDS Providers, TLAPS

(* The answers of an API that refused. *)
Refusals == {a \in Answer : a.body # "success" /\ (RefusesByStatus => a.status = "4xx")}

(* A creation was answered with this name: it may be updated and deleted. *)
Named(t) == \E d \in Call : call[d].result = "ok" /\ call[d].id = t

(* What a call was asked. *)
ArgsInv(c) ==
    /\ At(c, "idle") => call[c] = Idle
    /\ ~At(c, "idle") => call[c].op # "none"
    /\ call[c].op \in {"create", "update"} => call[c].value \in Value
    /\ call[c].op \in {"update", "delete"} => call[c].target \in Call /\ Named(call[c].target)
    /\ call[c].line \in Line \cup {""}
    /\ \A d \in call[c].since : d # c /\ d \in Settled

(* How far a call is. *)
PcInv(c) ==
    /\ At(c, "done") <=> call[c].result # "none"
    /\ call[c].pc \in {"idle", "begin", "create"} =>
         ~Pending(c) /\ c \notin executed /\ call[c].answer = NoAnswer
    /\ call[c].pc \in {"create", "find"} => provider = "baidu" /\ call[c].op = "create"
    /\ At(c, "find") => c \in executed
    /\ call[c].sent # "" /\ (Pending(c) => c \notin executed /\ call[c].result # "ok")
    /\ call[c].answer # NoAnswer =>
         ~Pending(c) /\ (c \in executed \/ call[c].answer \in Refusals)
    /\ call[c].result = "ok" => c \in executed
    /\ call[c].id # NoRecord => call[c].result = "ok" /\ call[c].op = "create"

(* Call d gave record i the value v. *)
Gives(d, i, v) ==
    /\ call[d].value = v
    /\ \/ call[d].op = "create" /\ d = i
       \/ call[d].op = "update" /\ call[d].target = i

(* A record is created by its call and got its value from one. *)
ZoneInv(i) ==
    /\ zone[i] # NoRecord =>
         /\ i \in executed /\ call[i].op = "create"
         /\ \E d \in executed : Gives(d, i, zone[i].value)
    /\ trails /\ Named(i) => i \in listed

(* Where listings do not trail, no other call is given a record's name, so *)
(* that nobody changes it before its creation is answered.                 *)
OwnInv(c) ==
    ~trails /\ call[c].op = "create" =>
      /\ call[c].result = "ok" => call[c].id = c
      /\ call[c].result # "ok" /\ c \in executed =>
           zone[c] # NoRecord /\ zone[c].value = call[c].value

(* What Baidu's creation may find: its own record, or one that got the value *)
(* from a call that was not over when the creation began.                    *)
Candidate(c, i) ==
    /\ call[c].op = "create" /\ call[c].pc \in {"create", "wait", "find"}
    /\ zone[i] # NoRecord /\ zone[i].value = call[c].value /\ i \notin call[c].before

FoundInv(c) ==
    /\ c \notin call[c].before
    /\ provider = "baidu" =>
         \A i \in Call : Candidate(c, i) =>
           i = c \/ \E d \in Call \ (call[c].since \cup {c}) : Gives(d, i, call[c].value)

(* A Volcengine update without a line carries the record's line, unless *)
(* the record is gone or another update came in between.                *)
LineInv(c) ==
    LET t == call[c].target IN
    /\ provider = "volcengine" /\ call[c].op = "update" /\ call[c].line = "" /\ Pending(c) =>
         /\ call[c].sent # "omitted" /\ t \in executed
         /\ \/ zone[t] = NoRecord
            \/ call[c].sent = zone[t].line
            \/ \E d \in Call \ (call[c].since \cup {c}) :
                 call[d].op = "update" /\ call[d].target = t

CallInv(c) ==
    ArgsInv(c) /\ PcInv(c) /\ ZoneInv(c) /\ OwnInv(c) /\ FoundInv(c) /\ LineInv(c)

IInv ==
    /\ TypeOK
    /\ trails => provider = "baidu"
    /\ \A c \in Call : CallInv(c)
-----------------------------------------------------------------------------
(* What the ways to move on do to a call. *)

Row == [pc : {"idle", "begin", "create", "wait", "find", "done"},
        op : {"none", "create", "update", "delete", "zones"},
        target : Call \cup {NoRecord}, value : Value \cup {NoRecord}, line : Lines,
        since : SUBSET Call, sent : Lines, answer : Answer \cup {NoAnswer},
        before : SUBSET Call, attempt : 0..2, result : {"none", "ok", "error"},
        id : Call \cup {NoRecord}]

Rows == [Call -> Row]

OthersStay(c) == \A s \in Call \ {c} : call'[s] = call[s]

SameArgs(c) ==
    /\ call'[c].op = call[c].op /\ call'[c].target = call[c].target
    /\ call'[c].value = call[c].value /\ call'[c].line = call[c].line
    /\ call'[c].since = call[c].since

SameResult(c) == call'[c].result = call[c].result /\ call'[c].id = call[c].id

LEMMA RowsInRows == TypeOK <=> /\ provider \in Provider /\ trails \in BOOLEAN
                               /\ zone \in [Call -> Record \cup {NoRecord}]
                               /\ listed \subseteq Call /\ executed \subseteq Call
                               /\ call \in Rows
PROOF
    BY DEF TypeOK, Rows, Row

LEMMA BeginFacts ==
    ASSUME call \in Rows, NEW c \in Call, NEW op \in {"create", "update", "delete", "zones"},
           NEW t \in Call \cup {NoRecord}, NEW v \in Value \cup {NoRecord}, NEW line \in Lines,
           Begin(c, op, t, v, line)
    PROVE  /\ call' \in Rows /\ OthersStay(c) /\ SameResult(c) /\ At(c, "idle")
           /\ UNCHANGED upstream
           /\ call'[c].pc = "begin" /\ call'[c].op = op /\ call'[c].target = t
           /\ call'[c].value = v /\ call'[c].line = line /\ call'[c].since = Settled
           /\ call'[c].sent = call[c].sent /\ call'[c].answer = call[c].answer
           /\ call'[c].before = call[c].before
PROOF
    <1> DEFINE q1 == [call[c] EXCEPT !.pc = "begin"]
    <1> DEFINE q2 == [q1 EXCEPT !.op = op]
    <1> DEFINE q3 == [q2 EXCEPT !.target = t]
    <1> DEFINE q4 == [q3 EXCEPT !.value = v]
    <1> DEFINE q5 == [q4 EXCEPT !.line = line]
    <1> DEFINE q6 == [q5 EXCEPT !.since = Settled]
    <1>1. q1 \in Row
        BY DEF Rows, Row
    <1>2. q2 \in Row
        BY <1>1 DEF Row
    <1>3. q3 \in Row
        BY <1>2 DEF Row
    <1>4. q4 \in Row
        BY <1>3 DEF Row
    <1>5. q5 \in Row
        BY <1>4 DEF Row
    <1>6. q6 \in Row
        BY <1>5 DEF Row, Settled
    <1>7. call' = [call EXCEPT ![c] = q6]
        BY DEF Begin
    <1>8. /\ q6.pc = "begin" /\ q6.op = op /\ q6.target = t /\ q6.value = v /\ q6.line = line
          /\ q6.since = Settled /\ q6.sent = call[c].sent /\ q6.answer = call[c].answer
          /\ q6.before = call[c].before /\ q6.result = call[c].result /\ q6.id = call[c].id
        BY DEF Rows, Row
    <1> HIDE DEF q6
    <1>9. call' \in Rows /\ OthersStay(c) /\ call'[c] = q6
        BY <1>6, <1>7 DEF Rows, OthersStay
    <1> QED BY <1>8, <1>9 DEF Begin, SameResult

LEMMA ReturnsFacts ==
    ASSUME call \in Rows, NEW c \in Call, NEW x \in {"ok", "error"},
           NEW i \in Call \cup {NoRecord}, Returns(c, x, i)
    PROVE  /\ call' \in Rows /\ OthersStay(c) /\ SameArgs(c) /\ UNCHANGED upstream
           /\ call'[c].pc = "done" /\ call'[c].result = x /\ call'[c].id = i
           /\ call'[c].sent = call[c].sent /\ call'[c].answer = NoAnswer
           /\ call'[c].before = {}
PROOF
    <1> DEFINE q1 == [call[c] EXCEPT !.pc = "done"]
    <1> DEFINE q2 == [q1 EXCEPT !.result = x]
    <1> DEFINE q3 == [q2 EXCEPT !.id = i]
    <1> DEFINE q4 == [q3 EXCEPT !.answer = NoAnswer]
    <1> DEFINE q5 == [q4 EXCEPT !.before = {}]
    <1> DEFINE q6 == [q5 EXCEPT !.attempt = 0]
    <1>1. q1 \in Row
        BY DEF Rows, Row
    <1>2. q2 \in Row
        BY <1>1 DEF Row
    <1>3. q3 \in Row
        BY <1>2 DEF Row
    <1>4. q4 \in Row
        BY <1>3 DEF Row
    <1>5. q5 \in Row
        BY <1>4 DEF Row
    <1>6. q6 \in Row
        <2>1. 0 \in 0..2
            OBVIOUS
        <2> HIDE DEF q5
        <2> QED BY <1>5, <2>1 DEF Row
    <1>7. call' = [call EXCEPT ![c] = q6]
        BY DEF Returns
    <1>8. /\ q6.pc = "done" /\ q6.op = call[c].op /\ q6.target = call[c].target
          /\ q6.value = call[c].value /\ q6.line = call[c].line /\ q6.since = call[c].since
          /\ q6.sent = call[c].sent /\ q6.answer = NoAnswer
          /\ q6.before = {} /\ q6.result = x /\ q6.id = i
        BY DEF Rows, Row
    <1> HIDE DEF q6
    <1>9. call' \in Rows /\ OthersStay(c) /\ call'[c] = q6
        BY <1>6, <1>7 DEF Rows, OthersStay
    <1> QED BY <1>8, <1>9 DEF Returns, SameArgs

LEMMA SendsFacts ==
    ASSUME call \in Rows, NEW c \in Call, NEW line \in Lines, Sends(c, line)
    PROVE  /\ call' \in Rows /\ OthersStay(c) /\ SameArgs(c) /\ SameResult(c)
           /\ UNCHANGED upstream /\ call'[c].pc = "wait" /\ call'[c].sent = line
           /\ call'[c].answer = call[c].answer /\ call'[c].before = call[c].before
PROOF
    <1> DEFINE q == [call[c] EXCEPT !.pc = "wait"]
    <1>1. q \in Row
        BY DEF Rows, Row
    <1>2. [q EXCEPT !.sent = line] \in Row
        BY <1>1 DEF Row
    <1>3. call' = [call EXCEPT ![c] = [q EXCEPT !.sent = line]]
        BY DEF Sends
    <1> QED BY <1>1, <1>2, <1>3 DEF Rows, Row, OthersStay, SameArgs, SameResult, Sends

LEMMA RepliesFacts ==
    ASSUME call \in Rows, NEW c \in Call, NEW answers \in SUBSET Answer, Replies(c, answers)
    PROVE  /\ call' \in Rows /\ OthersStay(c) /\ SameArgs(c) /\ SameResult(c)
           /\ call'[c].pc = call[c].pc /\ call'[c].sent = "nothing"
           /\ call'[c].before = call[c].before
           /\ (call'[c].answer \in answers /\ At(c, "wait")) \/ call'[c].answer = NoAnswer
PROOF
    <1>1. PICK a \in (IF At(c, "wait") THEN answers ELSE {NoAnswer}) :
            call' = [call EXCEPT ![c] = [@ EXCEPT !.sent = "nothing", !.answer = a]]
        BY DEF Replies
    <1> DEFINE q == [call[c] EXCEPT !.sent = "nothing"]
    <1>2. q \in Row
        <2>1. "nothing" \in Lines
            BY DEF Lines
        <2> QED BY <2>1 DEF Rows, Row
    <1>3. a \in Answer \cup {NoAnswer}
        BY <1>1
    <1>4. [q EXCEPT !.answer = a] \in Row
        BY <1>2, <1>3 DEF Row
    <1>5. call' = [call EXCEPT ![c] = [q EXCEPT !.answer = a]]
        BY <1>1
    <1>6. /\ call' \in Rows /\ OthersStay(c) /\ SameArgs(c) /\ SameResult(c)
          /\ call'[c].pc = call[c].pc /\ call'[c].sent = "nothing"
          /\ call'[c].before = call[c].before /\ call'[c].answer = a
        BY <1>2, <1>4, <1>5 DEF Rows, Row, OthersStay, SameArgs, SameResult
    <1> QED BY <1>1, <1>6

(* Baidu's steps between its exchanges. *)
LEMMA ListsFacts ==
    ASSUME call \in Rows, NEW c \in Call, NEW b \in SUBSET Call,
           call' = [call EXCEPT ![c] = [@ EXCEPT !.pc = "create", !.before = b]]
    PROVE  /\ call' \in Rows /\ OthersStay(c) /\ SameArgs(c) /\ SameResult(c)
           /\ call'[c].pc = "create" /\ call'[c].sent = call[c].sent
           /\ call'[c].answer = call[c].answer /\ call'[c].before = b
PROOF
    <1> DEFINE q == [call[c] EXCEPT !.pc = "create"]
    <1>1. q \in Row
        BY DEF Rows, Row
    <1>2. [q EXCEPT !.before = b] \in Row
        BY <1>1 DEF Row
    <1>3. call' = [call EXCEPT ![c] = [q EXCEPT !.before = b]]
        OBVIOUS
    <1> QED BY <1>1, <1>2, <1>3 DEF Rows, Row, OthersStay, SameArgs, SameResult

LEMMA SearchFacts ==
    ASSUME call \in Rows, NEW c \in Call,
           \/ call' = [call EXCEPT ![c].pc = "find"]
           \/ At(c, "find") /\ call[c].attempt < 2 /\ call' = [call EXCEPT ![c].attempt = @ + 1]
    PROVE  /\ call' \in Rows /\ OthersStay(c) /\ SameArgs(c) /\ SameResult(c)
           /\ call'[c].pc = "find" /\ call'[c].sent = call[c].sent
           /\ call'[c].answer = call[c].answer /\ call'[c].before = call[c].before
PROOF
    <1>1. CASE call' = [call EXCEPT ![c].pc = "find"]
        BY <1>1 DEF Rows, Row, OthersStay, SameArgs, SameResult
    <1>2. CASE At(c, "find") /\ call[c].attempt < 2 /\ call' = [call EXCEPT ![c].attempt = @ + 1]
        <2>1. call[c].attempt + 1 \in 0..2
            BY <1>2 DEF Rows, Row
        <2> QED BY <1>2, <2>1 DEF Rows, Row, OthersStay, SameArgs, SameResult, At
    <1> QED BY <1>1, <1>2
-----------------------------------------------------------------------------
(* The clients' steps, whichever the provider. *)

Sendable == Line \cup {"default", "omitted"}

(* A request goes out: Baidu's creation after its first listing, an update  *)
(* of Volcengine's without a line with the line the record has.             *)
SendsIt(c) ==
    \E line \in Sendable :
      /\ Sends(c, line)
      /\ At(c, "begin") \/ At(c, "create")
      /\ provider = "baidu" /\ call[c].op = "create" => At(c, "create")
      /\ LET t == call[c].target IN
         provider = "volcengine" /\ call[c].op = "update" /\ call[c].line = "" =>
           zone[t] # NoRecord /\ line = zone[t].line

LEMMA LinesSent ==
    ASSUME NEW line \in Line \cup {""}
    PROVE  /\ OrDefault(line) \in Sendable /\ OrOmitted(line) \in Sendable
           /\ line # "" => line \in Sendable
           /\ "omitted" \in Sendable /\ "default" \in Sendable
PROOF
    BY DEF OrDefault, OrOmitted, Sendable

LEMMA SendsLine ==
    ASSUME NEW c \in Call, NEW line \in Sendable, Sends(c, line), At(c, "begin"),
           provider = "baidu" => call[c].op # "create",
           provider = "volcengine" => call[c].op # "update" \/ call[c].line # ""
    PROVE  SendsIt(c)
PROOF
    BY DEF SendsIt

LEMMA ClientSteps ==
    ASSUME IInv, NEW c \in Call,
           ListZones(c) \/ CreateRecord(c) \/ UpdateRecord(c) \/ DeleteRecord(c)
    PROVE  \/ SendsIt(c)
           \/ BaiduListBefore(c)
           \/ BaiduFindNew(c)
           \/ At(c, "begin") /\ Returns(c, "error", NoRecord)
PROOF
    <1>1. call[c].line \in Line \cup {""} /\ ArgsInv(c) /\ PcInv(c) /\ TypeOK
        BY DEF IInv, CallInv, ArgsInv
    <1>2. /\ OrDefault(call[c].line) \in Sendable /\ OrOmitted(call[c].line) \in Sendable
          /\ call[c].line # "" => call[c].line \in Sendable
          /\ "omitted" \in Sendable /\ "default" \in Sendable
        BY <1>1, LinesSent
    <1>3. ASSUME NEW p, Starts(c, p, "zones") /\ Sends(c, "omitted")
          PROVE  SendsIt(c)
        BY <1>2, <1>3, SendsLine DEF Starts
    <1>4. ASSUME NEW p, NEW op \in {"update", "delete"}, p # "volcengine" \/ op = "delete",
                 Starts(c, p, op)
                 /\ (Sends(c, "omitted") \/ Sends(c, OrDefault(call[c].line)))
          PROVE  SendsIt(c)
        BY <1>2, <1>4, SendsLine DEF Starts
    <1>5. ASSUME NEW p, p # "baidu",
                 Starts(c, p, "create")
                 /\ (Sends(c, "omitted") \/ Sends(c, "default") \/ Sends(c, OrDefault(call[c].line))
                     \/ Sends(c, OrOmitted(call[c].line)))
          PROVE  SendsIt(c)
        BY <1>2, <1>5, SendsLine DEF Starts
    <1>6. ListZones(c) => SendsIt(c)
        BY <1>3 DEF ListZones, CloudflareListZones, DnspodListZones, AliyunListZones,
            WestcnListZones, HuaweicloudListZones, JdcloudListZones, XinnetListZones,
            DnslaListZones, VolcengineListZones, BaiduListZones
    <1>7. DeleteRecord(c) => SendsIt(c)
        BY <1>4 DEF DeleteRecord, CloudflareDelete, DnspodDelete, AliyunDelete, WestcnDelete,
            HuaweicloudDelete, JdcloudDelete, XinnetDelete, DnslaDelete, VolcengineDelete,
            BaiduDelete
    <1>8. ASSUME CreateRecord(c), ~BaiduListBefore(c), ~BaiduCreate(c), ~BaiduFindNew(c)
          PROVE  SendsIt(c)
        BY <1>5, <1>8 DEF CreateRecord, CloudflareCreate, DnspodCreate, AliyunCreate,
            WestcnCreate, HuaweicloudCreate, JdcloudCreate, XinnetCreate, DnslaCreate,
            VolcengineCreate
    <1>9. BaiduCreate(c) => SendsIt(c)
        BY <1>1, <1>2 DEF BaiduCreate, SendsIt, PcInv, At
    <1>10. ASSUME UpdateRecord(c), ~VolcengineUpdate(c)
           PROVE  SendsIt(c)
        BY <1>4, <1>10 DEF UpdateRecord, CloudflareUpdate, DnspodUpdate, AliyunUpdate,
            WestcnUpdate, HuaweicloudUpdate, JdcloudUpdate, XinnetUpdate, DnslaUpdate,
            BaiduUpdate
    <1>11. ASSUME VolcengineUpdate(c)
           PROVE  SendsIt(c) \/ (At(c, "begin") /\ Returns(c, "error", NoRecord))
        <2>1. provider = "volcengine" /\ At(c, "begin") /\ call[c].op = "update"
            BY <1>11 DEF VolcengineUpdate, Starts
        <2>2. CASE call[c].line # ""
            BY <1>2, <1>11, <2>1, <2>2, SendsLine DEF VolcengineUpdate
        <2>3. CASE call[c].line = "" /\ zone[call[c].target] = NoRecord
            BY <1>11, <2>1, <2>3 DEF VolcengineUpdate
        <2>4. CASE call[c].line = "" /\ zone[call[c].target] # NoRecord
            <3>1. call[c].target \in Call
                BY <1>1, <2>1 DEF ArgsInv
            <3>2. zone[call[c].target].line \in Sendable
                BY <1>1, <2>4, <3>1 DEF TypeOK, Record, Sendable
            <3>3. Sends(c, zone[call[c].target].line)
                BY <1>11, <2>4 DEF VolcengineUpdate
            <3> QED BY <2>1, <2>4, <3>2, <3>3 DEF SendsIt
        <2> QED BY <2>2, <2>3, <2>4
    <1> QED BY <1>6, <1>7, <1>8, <1>9, <1>10, <1>11

(* An answer that is accepted is not a refusal's. *)
LEMMA RefusalsNotAccepted ==
    ASSUME TypeOK, NEW c \in Call, call[c].answer \in Refusals
    PROVE  call[c].answer \notin Accepts(c)
PROOF
    <1>1. provider \in {"cloudflare", "dnspod", "aliyun", "westcn", "huaweicloud",
                        "jdcloud", "xinnet", "dnsla", "volcengine", "baidu"}
        BY ProvidersAssumption DEF TypeOK
    <1>2. CASE provider \in {"huaweicloud", "jdcloud"}
        BY <1>2 DEF Refusals, RefusesByStatus, Accepts, HuaweicloudAccepts, JdcloudAccepts
    <1>3. CASE provider \notin {"huaweicloud", "jdcloud"}
        BY <1>1, <1>3 DEF Refusals, Accepts, CloudflareAccepts, DnspodAccepts, AliyunAccepts,
            WestcnAccepts, XinnetAccepts, DnslaAccepts, VolcengineAccepts, BaiduAccepts
    <1> QED BY <1>2, <1>3

-----------------------------------------------------------------------------
(* A step of call c leaves the other calls alone, and undoes nothing. *)

Steady(c) ==
    /\ TypeOK' /\ OthersStay(c)
    /\ provider' = provider /\ trails' = trails
    /\ ~At(c, "idle") => SameArgs(c)
    /\ call[c].result # "none" => SameResult(c)
    /\ executed \subseteq executed' /\ executed' \subseteq executed \cup {c}
    /\ listed \subseteq listed'

LEMMA NamedStays ==
    ASSUME IInv, NEW c \in Call, Steady(c), NEW t, Named(t)
    PROVE  Named(t)'
PROOF
    BY DEF Named, Steady, OthersStay, SameResult

LEMMA SettledStays ==
    ASSUME IInv, NEW c \in Call, Steady(c)
    PROVE  Settled \subseteq Settled'
PROOF
    <1>1. \A d \in Call : call[d].result = "ok" => ~At(d, "idle")
        BY DEF IInv, CallInv, PcInv, At
    <1> QED BY <1>1 DEF Settled, Steady, OthersStay, SameResult, SameArgs

LEMMA IdleFacts ==
    ASSUME NEW c \in Call, ArgsInv(c), At(c, "idle")
    PROVE  /\ call[c].op = "none" /\ call[c].result = "none" /\ call[c].since = {}
           /\ call[c].before = {} /\ call[c].id = NoRecord
PROOF
    <1>1. call[c] = Idle
        BY DEF ArgsInv
    <1>2. /\ Idle.op = "none" /\ Idle.result = "none" /\ Idle.since = {}
          /\ Idle.before = {} /\ Idle.id = NoRecord
        BY DEF Idle
    <1> QED BY <1>1, <1>2

LEMMA GivesStays ==
    ASSUME IInv, NEW c \in Call, Steady(c), NEW d \in Call, NEW i, NEW v, Gives(d, i, v)
    PROVE  Gives(d, i, v)'
PROOF
    <1>1. ~At(d, "idle")
        BY IdleFacts DEF IInv, CallInv, Gives
    <1> QED BY <1>1 DEF Gives, Steady, OthersStay, SameArgs
(* A step that leaves the zone alone, and names only listed records. *)
Calm(c) ==
    /\ Steady(c) /\ zone' = zone /\ executed' = executed
    /\ trails => \A i \in Call : Named(i)' => Named(i) \/ i \in listed

LEMMA ArgsOfOthers ==
    ASSUME IInv, NEW c \in Call, Steady(c), NEW s \in Call \ {c}
    PROVE  ArgsInv(s)'
PROOF
    <1>1. ArgsInv(s) /\ call'[s] = call[s]
        BY DEF IInv, CallInv, Steady, OthersStay
    <1>2. \A t : Named(t) => Named(t)'
        BY NamedStays
    <1> QED BY <1>1, <1>2, SettledStays DEF ArgsInv, At

LEMMA PcOfOthers ==
    ASSUME IInv, NEW c \in Call, Steady(c), NEW s \in Call \ {c}
    PROVE  PcInv(s)'
PROOF
    <1>1. PcInv(s) /\ call'[s] = call[s]
        BY DEF IInv, CallInv, Steady, OthersStay
    <1>2. Refusals' = Refusals /\ (s \in executed' <=> s \in executed)
        BY DEF Refusals, RefusesByStatus, Steady
    <1> QED BY <1>1, <1>2 DEF PcInv, At, Pending, Steady

LEMMA ZoneKept ==
    ASSUME IInv, NEW c \in Call, Calm(c), NEW i \in Call
    PROVE  ZoneInv(i)'
PROOF
    <1>1. ZoneInv(i)
        BY DEF IInv, CallInv
    <1>2. ASSUME zone[i] # NoRecord
          PROVE  /\ i \in executed' /\ call'[i].op = "create"
                 /\ \E d \in executed' : Gives(d, i, zone[i].value)'
        <2>1. i \in executed /\ call[i].op = "create"
            BY <1>1, <1>2 DEF ZoneInv
        <2>2. ~At(i, "idle")
            BY <2>1 DEF IInv, CallInv, PcInv, At
        <2>3. call'[i].op = "create"
            BY <2>1, <2>2 DEF Calm, Steady, OthersStay, SameArgs
        <2>4. PICK d \in executed : Gives(d, i, zone[i].value)
            BY <1>1, <1>2 DEF ZoneInv
        <2>5. d \in Call
            BY DEF IInv, TypeOK
        <2>6. Gives(d, i, zone[i].value)'
            BY <2>4, <2>5, GivesStays DEF Calm
        <2> QED BY <2>1, <2>3, <2>4, <2>6 DEF Calm
    <1>3. trails' /\ Named(i)' => i \in listed'
        BY <1>1 DEF ZoneInv, Calm, Steady
    <1> QED BY <1>2, <1>3 DEF ZoneInv, Calm

LEMMA OthersKept ==
    ASSUME IInv, NEW c \in Call, Calm(c), NEW s \in Call \ {c}
    PROVE  CallInv(s)'
PROOF
    <1>1. CallInv(s) /\ call'[s] = call[s]
        BY DEF IInv, Calm, Steady, OthersStay
    <1>2. ArgsInv(s)' /\ PcInv(s)' /\ ZoneInv(s)'
        BY ArgsOfOthers, PcOfOthers, ZoneKept DEF Calm
    <1>3. OwnInv(s)'
        BY <1>1 DEF CallInv, OwnInv, Calm, Steady
    <1>4. FoundInv(s)'
        <2> SUFFICES ASSUME provider = "baidu", NEW i \in Call, Candidate(s, i), i # s
                     PROVE  \E d \in Call \ (call[s].since \cup {s}) :
                              Gives(d, i, call[s].value)'
            BY <1>1 DEF CallInv, FoundInv, Calm, Steady, Candidate
        <2>1. PICK d \in Call \ (call[s].since \cup {s}) : Gives(d, i, call[s].value)
            BY <1>1 DEF CallInv, FoundInv
        <2> QED BY <1>1, <2>1, GivesStays DEF Calm
    <1>5. LineInv(s)'
        <2> SUFFICES ASSUME provider = "volcengine", call[s].op = "update",
                            call[s].line = "", Pending(s)
                     PROVE  LineInv(s)'
            BY <1>1 DEF LineInv, Calm, Steady, Pending
        <2> DEFINE t == call[s].target
        <2>1. /\ call[s].sent # "omitted" /\ t \in executed
              /\ \/ zone[t] = NoRecord
                 \/ call[s].sent = zone[t].line
                 \/ \E d \in Call \ (call[s].since \cup {s}) :
                      call[d].op = "update" /\ call[d].target = t
            BY <1>1 DEF CallInv, LineInv
        <2>2. \A d \in Call : call[d].op = "update" /\ call[d].target = t =>
                                call'[d].op = "update" /\ call'[d].target = t
            BY IdleFacts DEF IInv, CallInv, Calm, Steady, OthersStay, SameArgs
        <2> QED BY <1>1, <2>1, <2>2 DEF LineInv, Calm, Steady
    <1> QED BY <1>2, <1>3, <1>4, <1>5 DEF CallInv

LEMMA CalmKeeps ==
    ASSUME IInv, NEW c \in Call, Calm(c), CallInv(c)'
    PROVE  IInv'
PROOF
    <1>1. \A s \in Call : CallInv(s)'
        BY OthersKept
    <1> QED BY <1>1 DEF IInv, Calm, Steady
LEMMA TypeStays ==
    ASSUME TypeOK, call' \in Rows, UNCHANGED upstream
    PROVE  TypeOK'
PROOF
    BY DEF TypeOK, Rows, Row, upstream

LEMMA CalmStep ==
    ASSUME IInv, NEW c \in Call, call' \in Rows, OthersStay(c), UNCHANGED upstream,
           ~At(c, "idle") => SameArgs(c),
           call[c].result # "none" => SameResult(c),
           \/ SameResult(c) \/ call'[c].result # "ok"
           \/ trails => call'[c].id \in listed \cup {NoRecord}
    PROVE  Calm(c)
PROOF
    <1>1. Steady(c)
        BY TypeStays DEF IInv, Steady, upstream
    <1>2. ASSUME trails, NEW i \in Call, Named(i)'
          PROVE  Named(i) \/ i \in listed
        <2>1. PICK d \in Call : call'[d].result = "ok" /\ call'[d].id = i
            BY <1>2 DEF Named
        <2>2. i # NoRecord
            BY ProvidersAssumption
        <2> QED BY <1>2, <2>1, <2>2 DEF Named, OthersStay, SameResult
    <1> QED BY <1>1, <1>2 DEF Calm, upstream

(* What the step keeps of the call that makes it. *)
LEMMA ArgsKept ==
    ASSUME IInv, NEW c \in Call, Steady(c), SameArgs(c), ~At(c, "idle"), ~At(c, "idle")'
    PROVE  ArgsInv(c)'
PROOF
    <1>1. ArgsInv(c)
        BY DEF IInv, CallInv
    <1> QED BY <1>1, NamedStays, SettledStays DEF ArgsInv, SameArgs

LEMMA OwnKept ==
    ASSUME IInv, NEW c \in Call, Calm(c), SameArgs(c), SameResult(c)
    PROVE  OwnInv(c)'
PROOF
    BY DEF IInv, CallInv, OwnInv, Calm, Steady, SameArgs, SameResult

LEMMA FoundKept ==
    ASSUME IInv, NEW c \in Call, Calm(c), SameArgs(c), call'[c].before = call[c].before,
           provider = "baidu" /\ call[c].op = "create"
           /\ call'[c].pc \in {"create", "wait", "find"} => call[c].pc \in {"create", "wait", "find"}
    PROVE  FoundInv(c)'
PROOF
    <1>1. FoundInv(c)
        BY DEF IInv, CallInv
    <1> SUFFICES ASSUME provider = "baidu", NEW i \in Call, Candidate(c, i)', i # c
                 PROVE  \E d \in Call \ (call[c].since \cup {c}) : Gives(d, i, call[c].value)'
        BY <1>1 DEF FoundInv, Calm, Steady, SameArgs
    <1>2. Candidate(c, i)
        BY DEF Candidate, Calm, Steady, SameArgs
    <1>3. PICK d \in Call \ (call[c].since \cup {c}) : Gives(d, i, call[c].value)
        BY <1>1, <1>2 DEF FoundInv
    <1>4. Gives(d, i, call[c].value)'
        BY <1>3, GivesStays DEF Calm, SameArgs, Gives
    <1> QED BY <1>3, <1>4

LEMMA LineKept ==
    ASSUME IInv, NEW c \in Call, Calm(c), SameArgs(c),
           call'[c].sent \in {call[c].sent, "nothing"}
    PROVE  LineInv(c)'
PROOF
    <1>1. LineInv(c)
        BY DEF IInv, CallInv
    <1>2. \A d \in Call : \A t : call[d].op = "update" /\ call[d].target = t =>
                                      call'[d].op = "update" /\ call'[d].target = t
        BY DEF Calm, Steady, OthersStay, SameArgs
    <1> SUFFICES ASSUME provider = "volcengine", call[c].op = "update",
                        call[c].line = "", Pending(c), call'[c].sent = call[c].sent
                 PROVE  LineInv(c)'
        BY <1>1 DEF LineInv, Calm, Steady, Pending, SameArgs
    <1> DEFINE t == call[c].target
    <1>3. /\ call[c].sent # "omitted" /\ t \in executed
          /\ \/ zone[t] = NoRecord
             \/ call[c].sent = zone[t].line
             \/ \E d \in Call \ (call[c].since \cup {c}) :
                  call[d].op = "update" /\ call[d].target = t
        BY <1>1 DEF LineInv
    <1> QED BY <1>2, <1>3 DEF LineInv, Calm, Steady, SameArgs

-----------------------------------------------------------------------------
(* The steps of a call. *)

LEMMA ArrivalKeeps ==
    ASSUME IInv, NEW c \in Call, Arrival(c)
    PROVE  IInv' /\ Calm(c) /\ CallInv(c)'
PROOF
    <1>1. PICK op \in {"create", "update", "delete", "zones"}, t \in Call \cup {NoRecord},
               v \in Value \cup {NoRecord}, line \in Line \cup {""} :
            /\ Begin(c, op, t, v, line)
            /\ op \in {"create", "update"} => v \in Value
            /\ op \in {"update", "delete"} => t \in Call
        BY DEF Arrival
    <1>2. call \in Rows /\ TypeOK /\ line \in Lines
        BY RowsInRows DEF IInv, Lines
    <1>3. /\ call' \in Rows /\ OthersStay(c) /\ SameResult(c) /\ At(c, "idle")
          /\ UNCHANGED upstream
          /\ call'[c].pc = "begin" /\ call'[c].op = op /\ call'[c].target = t
          /\ call'[c].value = v /\ call'[c].line = line /\ call'[c].since = Settled
          /\ call'[c].sent = call[c].sent /\ call'[c].answer = call[c].answer
          /\ call'[c].before = call[c].before
        BY <1>1, <1>2, BeginFacts
    <1>4. Calm(c)
        BY <1>3, CalmStep
    <1>5. PcInv(c) /\ ArgsInv(c) /\ ZoneInv(c)' /\ FoundInv(c) /\ call[c].result = "none"
          /\ call[c].id = NoRecord
        BY <1>3, <1>4, ZoneKept, IdleFacts DEF IInv, CallInv
    <1>6. op \in {"update", "delete"} => Named(t)'
        BY <1>1, <1>4, NamedStays DEF Begin, Named, Calm
    <1>7. \A d \in Settled : d # c /\ d \in Settled'
        BY <1>4, <1>5, SettledStays DEF Settled, Calm
    <1>8. ArgsInv(c)'
        BY <1>1, <1>3, <1>6, <1>7 DEF ArgsInv, At
    <1>9. PcInv(c)'
        BY <1>3, <1>5 DEF PcInv, At, Pending, SameResult, upstream
    <1>10. OwnInv(c)'
        BY <1>3, <1>5 DEF OwnInv, PcInv, At, SameResult, upstream
    <1>11. FoundInv(c)'
        BY <1>3, <1>5 DEF FoundInv, Candidate
    <1>12. LineInv(c)'
        BY <1>3, <1>5 DEF LineInv, PcInv, At, Pending
    <1>13. CallInv(c)'
        BY <1>5, <1>8, <1>9, <1>10, <1>11, <1>12 DEF CallInv
    <1> QED BY <1>4, <1>13, CalmKeeps

LEMMA SendsKeeps ==
    ASSUME IInv, NEW c \in Call, SendsIt(c)
    PROVE  IInv' /\ Calm(c) /\ SameArgs(c) /\ SameResult(c) /\ ~At(c, "idle")
           /\ ~At(c, "idle")'
PROOF
    <1>1. PICK line \in Sendable :
            /\ Sends(c, line)
            /\ At(c, "begin") \/ At(c, "create")
            /\ provider = "baidu" /\ call[c].op = "create" => At(c, "create")
            /\ LET t == call[c].target IN
               provider = "volcengine" /\ call[c].op = "update" /\ call[c].line = "" =>
                 zone[t] # NoRecord /\ line = zone[t].line
        BY DEF SendsIt
    <1>2. /\ call \in Rows /\ TypeOK /\ line \in Lines /\ line \notin {"nothing", ""}
        BY ProvidersAssumption, RowsInRows DEF IInv, Lines, Sendable
    <1>3. /\ call' \in Rows /\ OthersStay(c) /\ SameArgs(c) /\ SameResult(c)
          /\ UNCHANGED upstream /\ call'[c].pc = "wait" /\ call'[c].sent = line
          /\ call'[c].answer = call[c].answer /\ call'[c].before = call[c].before
        BY <1>1, <1>2, SendsFacts
    <1>4. Calm(c)
        BY <1>3, CalmStep
    <1>5. PcInv(c) /\ ArgsInv(c) /\ ZoneInv(c)' /\ ~At(c, "idle") /\ ~At(c, "idle")'
        BY <1>1, <1>3, <1>4, ZoneKept DEF IInv, CallInv, At
    <1>6. ArgsInv(c)' /\ OwnInv(c)' /\ FoundInv(c)'
        BY <1>1, <1>3, <1>4, <1>5, ArgsKept, OwnKept, FoundKept DEF Calm, At
    <1>7. PcInv(c)'
        BY <1>1, <1>2, <1>3, <1>5 DEF PcInv, At, Pending, SameResult, SameArgs, upstream
    <1>8. LineInv(c)'
        <2> DEFINE t == call[c].target
        <2> SUFFICES ASSUME provider = "volcengine", call[c].op = "update", call[c].line = ""
                     PROVE  line # "omitted" /\ t \in executed /\ line = zone[t].line
            BY <1>3 DEF LineInv, SameArgs, upstream
        <2>1. zone[t] # NoRecord /\ line = zone[t].line /\ t \in Call
            BY <1>1, <1>5 DEF ArgsInv
        <2>2. zone[t] \in Record
            BY <1>2, <2>1 DEF TypeOK
        <2>3. line # "omitted"
            BY <2>1, <2>2, ProvidersAssumption DEF Record
        <2> QED BY <2>1, <2>3 DEF IInv, CallInv, ZoneInv
    <1> QED BY <1>3, <1>4, <1>5, <1>6, <1>7, <1>8, CalmKeeps DEF CallInv
(* A call is over.  Success is for what was executed; a name is given for a *)
(* creation, and it is the call's own where listings do not trail.          *)
LEMMA ReturnsKeeps ==
    ASSUME IInv, NEW c \in Call, NEW x \in {"ok", "error"}, NEW i \in Call \cup {NoRecord},
           Returns(c, x, i), ~At(c, "idle"), ~At(c, "done"),
           x = "ok" => c \in executed,
           i # NoRecord => /\ x = "ok" /\ call[c].op = "create"
                           /\ trails => i \in listed,
           x = "ok" /\ ~trails /\ call[c].op = "create" => i = c
    PROVE  IInv' /\ Calm(c) /\ SameArgs(c) /\ call'[c].result = x /\ call'[c].id = i
           /\ call[c].result = "none"
PROOF
    <1>1. call \in Rows /\ TypeOK /\ PcInv(c)
        BY RowsInRows DEF IInv, CallInv
    <1>2. /\ call' \in Rows /\ OthersStay(c) /\ SameArgs(c) /\ UNCHANGED upstream
          /\ call'[c].pc = "done" /\ call'[c].result = x /\ call'[c].id = i
          /\ call'[c].sent = call[c].sent /\ call'[c].answer = NoAnswer
          /\ call'[c].before = {}
        BY <1>1, ReturnsFacts
    <1>3. call[c].result = "none"
        BY <1>1 DEF PcInv
    <1>4. Calm(c)
        BY <1>2, <1>3, CalmStep
    <1>5. ArgsInv(c)' /\ ZoneInv(c)' /\ LineInv(c)'
        BY <1>2, <1>4, ArgsKept, ZoneKept, LineKept DEF Calm, At
    <1>6. PcInv(c)'
        BY <1>1, <1>2 DEF PcInv, At, Pending, upstream, SameArgs
    <1>7. OwnInv(c)'
        BY <1>2, <1>3 DEF OwnInv, SameArgs, upstream, IInv, CallInv
    <1>8. FoundInv(c)'
        BY <1>2 DEF FoundInv, Candidate
    <1> QED BY <1>2, <1>3, <1>4, <1>5, <1>6, <1>7, <1>8, CalmKeeps DEF CallInv

LEMMA ListBeforeKeeps ==
    ASSUME IInv, NEW c \in Call, BaiduListBefore(c)
    PROVE  IInv' /\ Calm(c) /\ SameArgs(c) /\ SameResult(c) /\ ~At(c, "idle")
           /\ ~At(c, "idle")'
PROOF
    <1>1. /\ provider = "baidu" /\ At(c, "begin") /\ call[c].op = "create" /\ UNCHANGED upstream
          /\ call' = [call EXCEPT ![c] = [@ EXCEPT !.pc = "create", !.before = BaiduMatching(c)]]
          /\ BaiduMatching(c) \in SUBSET Call
        BY DEF BaiduListBefore, Starts, BaiduMatching
    <1>2. call \in Rows /\ TypeOK /\ PcInv(c) /\ ZoneInv(c)
        BY RowsInRows DEF IInv, CallInv
    <1>3. /\ call' \in Rows /\ OthersStay(c) /\ SameArgs(c) /\ SameResult(c)
          /\ call'[c].pc = "create" /\ call'[c].sent = call[c].sent
          /\ call'[c].answer = call[c].answer /\ call'[c].before = BaiduMatching(c)
        BY <1>1, <1>2, ListsFacts
    <1>4. Calm(c)
        BY <1>1, <1>3, CalmStep
    <1>5. /\ ArgsInv(c)' /\ ZoneInv(c)' /\ OwnInv(c)' /\ LineInv(c)'
          /\ ~At(c, "idle") /\ ~At(c, "idle")'
        BY <1>1, <1>3, <1>4, ArgsKept, ZoneKept, OwnKept, LineKept DEF Calm, At
    <1>6. PcInv(c)'
        BY <1>1, <1>2, <1>3 DEF PcInv, At, Pending, upstream, SameArgs, SameResult
    <1>7. c \notin executed /\ zone[c] = NoRecord
        BY <1>1, <1>2 DEF PcInv, At, ZoneInv
    <1>8. c \notin BaiduMatching(c)
        BY <1>7 DEF BaiduMatching
    <1>9. ASSUME NEW i \in Call, Candidate(c, i)'
          PROVE  \E d \in Call \ (call[c].since \cup {c}) : Gives(d, i, call[c].value)'
        <2>1. zone[i] # NoRecord /\ zone[i].value = call[c].value /\ i \notin BaiduMatching(c)
            BY <1>1, <1>3, <1>9 DEF Candidate, SameArgs, upstream
        <2>2. trails /\ i \notin listed
            BY <2>1 DEF BaiduMatching
        <2>3. ~Named(i) /\ ZoneInv(i)
            BY <2>2 DEF IInv, CallInv, ZoneInv
        <2>4. PICK d \in executed : Gives(d, i, call[c].value)
            BY <2>1, <2>3 DEF ZoneInv
        <2>5. d \in Call /\ d # c
            BY <1>2, <1>7, <2>4 DEF TypeOK
        <2>6. d \notin Settled
            <3>1. CASE call[d].op = "create" /\ d = i
                BY <2>3, <3>1 DEF Settled, Named
            <3>2. CASE call[d].op = "update" /\ call[d].target = i
                BY <2>3, <2>5, <3>2 DEF IInv, CallInv, ArgsInv
            <3> QED BY <2>4, <3>1, <3>2 DEF Gives
        <2>7. d \notin call[c].since
            BY <2>6 DEF IInv, CallInv, ArgsInv
        <2>8. Gives(d, i, call[c].value)'
            BY <1>3, <1>4, <2>4, <2>5, GivesStays DEF Calm, Gives, SameArgs
        <2> QED BY <2>5, <2>7, <2>8
    <1>10. FoundInv(c)'
        BY <1>3, <1>8, <1>9 DEF FoundInv, SameArgs
    <1> QED BY <1>3, <1>4, <1>5, <1>6, <1>10, CalmKeeps DEF CallInv

(* Another look, or the first one. *)
LEMMA SearchKeeps ==
    ASSUME IInv, NEW c \in Call, UNCHANGED upstream,
           provider = "baidu", call[c].op = "create", At(c, "wait") \/ At(c, "find"),
           ~Pending(c) /\ c \in executed,
           \/ call' = [call EXCEPT ![c].pc = "find"]
           \/ At(c, "find") /\ call[c].attempt < 2 /\ call' = [call EXCEPT ![c].attempt = @ + 1]
    PROVE  IInv' /\ Calm(c) /\ SameArgs(c) /\ SameResult(c) /\ ~At(c, "idle")
           /\ ~At(c, "idle")'
PROOF
    <1>1. call \in Rows /\ TypeOK /\ PcInv(c)
        BY RowsInRows DEF IInv, CallInv
    <1>2. /\ call' \in Rows /\ OthersStay(c) /\ SameArgs(c) /\ SameResult(c)
          /\ call'[c].pc = "find" /\ call'[c].sent = call[c].sent
          /\ call'[c].answer = call[c].answer /\ call'[c].before = call[c].before
        BY <1>1, SearchFacts
    <1>3. Calm(c)
        BY <1>2, CalmStep
    <1>4. /\ ArgsInv(c)' /\ ZoneInv(c)' /\ OwnInv(c)' /\ LineInv(c)' /\ FoundInv(c)'
          /\ ~At(c, "idle") /\ ~At(c, "idle")'
        BY <1>2, <1>3, ArgsKept, ZoneKept, OwnKept, LineKept, FoundKept DEF Calm, At
    <1>5. Refusals' = Refusals
        BY DEF Refusals, RefusesByStatus, upstream
    <1>6. PcInv(c)'
        BY <1>1, <1>2, <1>5 DEF PcInv, At, Pending, upstream, SameArgs, SameResult
    <1> QED BY <1>2, <1>3, <1>4, <1>6, CalmKeeps DEF CallInv

LEMMA FindNewKeeps ==
    ASSUME IInv, NEW c \in Call, BaiduFindNew(c)
    PROVE  \/ IInv' /\ Calm(c) /\ SameArgs(c) /\ SameResult(c) /\ ~At(c, "idle")
              /\ ~At(c, "idle")'
           \/ At(c, "find") /\ Returns(c, "error", NoRecord)
           \/ \E i \in Call : /\ At(c, "find") /\ Candidate(c, i) /\ Returns(c, "ok", i)
                              /\ trails => i \in listed
                              /\ ~trails => i = c
PROOF
    <1> DEFINE new == BaiduMatching(c) \ call[c].before
    <1>1. At(c, "find") /\ PcInv(c) /\ OwnInv(c) /\ FoundInv(c) /\ TypeOK
        BY DEF BaiduFindNew, IInv, CallInv
    <1>2. provider = "baidu" /\ call[c].op = "create" /\ c \in executed /\ ~Pending(c)
          /\ call[c].result = "none"
        BY <1>1 DEF PcInv, At
    <1>3. CASE Returns(c, "error", NoRecord)
        BY <1>1, <1>3
    <1>4. CASE call[c].attempt < 2 /\ call' = [call EXCEPT ![c].attempt = @ + 1]
               /\ UNCHANGED upstream
        BY <1>1, <1>2, <1>4, SearchKeeps
    <1>5. ASSUME NEW i \in new, new = {i}, Returns(c, "ok", i)
          PROVE  \E j \in Call : /\ At(c, "find") /\ Candidate(c, j) /\ Returns(c, "ok", j)
                                 /\ trails => j \in listed
                                 /\ ~trails => j = c
        <2>1. i \in Call /\ Candidate(c, i) /\ (trails => i \in listed)
            BY <1>1, <1>2 DEF BaiduMatching, Candidate, At
        <2>2. ASSUME ~trails
              PROVE  i = c
            <3>1. zone[c] # NoRecord /\ zone[c].value = call[c].value
                BY <1>1, <1>2, <2>2 DEF OwnInv
            <3>2. c \in new
                BY <1>1, <2>2, <3>1 DEF BaiduMatching, FoundInv
            <3> QED BY <1>5, <3>2
        <2> QED BY <1>1, <1>5, <2>1, <2>2
    <1> QED BY <1>3, <1>4, <1>5 DEF BaiduFindNew

LEMMA ReceiveCases ==
    ASSUME IInv, NEW c \in Call, Receive(c)
    PROVE  \/ At(c, "wait") /\ Returns(c, "error", NoRecord)
           \/ IInv' /\ Calm(c) /\ SameArgs(c) /\ SameResult(c) /\ ~At(c, "idle")
              /\ ~At(c, "idle")'
           \/ /\ At(c, "wait") /\ c \in executed
              /\ Returns(c, "ok", IF call[c].op = "create" THEN c ELSE NoRecord)
              /\ provider # "baidu" \/ call[c].op # "create"
PROOF
    <1>1. At(c, "wait") /\ call[c].answer # NoAnswer /\ PcInv(c) /\ TypeOK
        BY DEF Receive, IInv, CallInv
    <1>2. call[c].answer \in Accepts(c) => c \in executed
        BY <1>1, RefusalsNotAccepted DEF PcInv
    <1>3. CASE call[c].answer \notin Accepts(c)
        BY <1>1, <1>3 DEF Receive
    <1>4. CASE call[c].answer \in Accepts(c) /\ provider = "baidu" /\ call[c].op = "create"
        <2>1. call' = [call EXCEPT ![c].pc = "find"] /\ UNCHANGED upstream
            BY <1>4 DEF Receive
        <2> QED BY <1>1, <1>2, <1>4, <2>1, SearchKeeps DEF PcInv
    <1>5. CASE call[c].answer \in Accepts(c) /\ ~(provider = "baidu" /\ call[c].op = "create")
        BY <1>1, <1>2, <1>5 DEF Receive
    <1> QED BY <1>3, <1>4, <1>5

LEMMA RefuseKeeps ==
    ASSUME IInv, NEW c \in Call, Refuse(c)
    PROVE  IInv' /\ Calm(c) /\ SameArgs(c) /\ SameResult(c) /\ ~At(c, "idle")
           /\ ~At(c, "idle")'
PROOF
    <1>1. call \in Rows /\ TypeOK /\ PcInv(c)
        BY RowsInRows DEF IInv, CallInv
    <1>2. Pending(c) /\ Replies(c, Refusals) /\ Refusals \in SUBSET Answer /\ UNCHANGED upstream
        BY DEF Refuse, Refusals
    <1>3. /\ call' \in Rows /\ OthersStay(c) /\ SameArgs(c) /\ SameResult(c)
          /\ call'[c].pc = call[c].pc /\ call'[c].sent = "nothing"
          /\ call'[c].before = call[c].before
          /\ (call'[c].answer \in Refusals /\ At(c, "wait")) \/ call'[c].answer = NoAnswer
        BY <1>1, <1>2, RepliesFacts
    <1>4. Calm(c)
        BY <1>2, <1>3, CalmStep
    <1>5. ~At(c, "idle") /\ ~At(c, "idle")'
        BY <1>1, <1>2, <1>3 DEF PcInv, At
    <1>6. /\ ArgsInv(c)' /\ ZoneInv(c)' /\ OwnInv(c)' /\ LineInv(c)' /\ FoundInv(c)'
        BY <1>3, <1>4, <1>5, ArgsKept, ZoneKept, OwnKept, LineKept, FoundKept DEF Calm
    <1>7. Refusals' = Refusals
        BY <1>2 DEF Refusals, RefusesByStatus, upstream
    <1>8. PcInv(c)'
        BY <1>1, <1>2, <1>3, <1>7 DEF PcInv, At, Pending, upstream, SameArgs, SameResult
    <1> QED BY <1>3, <1>4, <1>5, <1>6, <1>8, CalmKeeps DEF CallInv

LEMMA ShowKeeps ==
    ASSUME IInv, NEW i \in Call, Show(i)
    PROVE  IInv'
PROOF
    <1>1. UNCHANGED <<provider, trails, zone, executed, call>> /\ listed' = listed \cup {i}
        BY DEF Show
    <1>2. TypeOK'
        BY <1>1 DEF IInv, TypeOK
    <1>3. Calm(i)
        BY <1>1, <1>2 DEF Calm, Steady, OthersStay, SameArgs, SameResult, Named
    <1>4. ArgsInv(i) /\ PcInv(i) /\ OwnInv(i) /\ FoundInv(i) /\ LineInv(i)
        BY DEF IInv, CallInv
    <1>5. ArgsInv(i)' /\ PcInv(i)' /\ OwnInv(i)'
        BY <1>1, <1>4 DEF ArgsInv, At, Named, Settled, PcInv, Pending, Refusals,
                          RefusesByStatus, OwnInv
    <1>6. FoundInv(i)' /\ LineInv(i)' /\ ZoneInv(i)'
        <2>1. FoundInv(i)'
            BY <1>1, <1>4 DEF FoundInv, Candidate, Gives
        <2>2. LineInv(i)'
            BY <1>1, <1>4 DEF LineInv, Pending
        <2>3. ZoneInv(i)'
            BY <1>3, ZoneKept
        <2> QED BY <2>1, <2>2, <2>3
    <1> QED BY <1>3, <1>5, <1>6, CalmKeeps DEF CallInv
-----------------------------------------------------------------------------
(* The API executes a call. *)

LEMMA ExecuteFacts ==
    ASSUME IInv, NEW c \in Call, Execute(c)
    PROVE  /\ zone' \in [Call -> Record \cup {NoRecord}]
           /\ \A i \in Call : zone'[i] # zone[i] =>
                \/ call[c].op = "create" /\ i = c
                \/ call[c].op \in {"update", "delete"} /\ i = call[c].target
           /\ \A i \in Call : zone'[i] # zone[i] /\ zone'[i] # NoRecord =>
                /\ zone'[i].value = call[c].value /\ Gives(c, i, call[c].value)
                /\ (i = c /\ call[c].op = "create") \/ zone[i] # NoRecord
           /\ call[c].op = "create" => zone'[c] # NoRecord /\ zone'[c].value = call[c].value
           /\ call[c].op = "update" =>
                LET t == call[c].target IN
                /\ zone[t] # NoRecord /\ zone'[t] # NoRecord
                /\ zone'[t].value = call[c].value
                /\ call[c].sent # "omitted" => zone'[t].line = call[c].sent
           /\ call[c].op = "delete" => zone'[call[c].target] = NoRecord
           /\ call[c].op \notin {"create", "update", "delete"} => zone' = zone
PROOF
    <1> DEFINE q == call[c]
    <1> DEFINE t == q.target
    <1>1. TypeOK /\ ArgsInv(c) /\ PcInv(c) /\ Pending(c)
        BY DEF IInv, CallInv, Execute
    <1>2. q.sent \in Line \cup {"default", "omitted"}
        BY <1>1, RowsInRows DEF Rows, Row, Lines, PcInv, Pending
    <1>3. CASE q.op = "create"
        <2>1. PICK line \in NewLines(c) : zone' = [zone EXCEPT ![c] = [value |-> q.value, line |-> line]]
            BY <1>3 DEF Execute
        <2>2. line \in Line \cup {"default"} /\ q.value \in Value
            BY <1>1, <1>2, <1>3, <2>1 DEF NewLines, ArgsInv
        <2> DEFINE new == [value |-> q.value, line |-> line]
        <2>3. new \in Record /\ new.value = q.value /\ new # NoRecord
            <3>1. new \in Record
                BY <2>2 DEF Record
            <3>2. new # NoRecord
                BY <3>1, ProvidersAssumption
            <3> QED BY <3>1, <3>2
        <2>4. Gives(c, c, q.value)
            BY <1>3 DEF Gives
        <2>5. zone' = [zone EXCEPT ![c] = new]
            BY <2>1
        <2> HIDE DEF new
        <2> QED BY <1>1, <1>3, <2>3, <2>4, <2>5 DEF TypeOK
    <1>4. CASE q.op = "update"
        <2>1. PICK line \in NewLines(c) : zone' = [zone EXCEPT ![t] = [value |-> q.value, line |-> line]]
            BY <1>4 DEF Execute
        <2>2. zone[t] # NoRecord /\ t \in Call /\ q.value \in Value
            BY <1>1, <1>4 DEF Execute, ArgsInv
        <2>3. zone[t].line \in Line \cup {"default"}
            BY <1>1, <2>2 DEF TypeOK, Record
        <2>4. line \in Line \cup {"default"} /\ (q.sent # "omitted" => line = q.sent)
            BY <1>2, <1>4, <2>1, <2>3 DEF NewLines
        <2> DEFINE new == [value |-> q.value, line |-> line]
        <2>5. new \in Record /\ new.value = q.value /\ new.line = line /\ new # NoRecord
            <3>1. new \in Record
                BY <2>2, <2>4 DEF Record
            <3>2. new # NoRecord
                BY <3>1, ProvidersAssumption
            <3> QED BY <3>1, <3>2
        <2>6. Gives(c, t, q.value)
            BY <1>4 DEF Gives
        <2>7. zone' = [zone EXCEPT ![t] = new]
            BY <2>1
        <2> HIDE DEF new
        <2> QED BY <1>1, <1>4, <2>2, <2>4, <2>5, <2>6, <2>7 DEF TypeOK
    <1>5. CASE q.op = "delete"
        <2>1. zone' = [zone EXCEPT ![t] = NoRecord] /\ t \in Call
            BY <1>1, <1>5 DEF Execute, ArgsInv
        <2> QED BY <1>1, <1>5, <2>1 DEF TypeOK
    <1>6. CASE q.op \notin {"create", "update", "delete"}
        <2>1. zone' = zone
            BY <1>6 DEF Execute
        <2> QED BY <1>1, <1>6, <2>1 DEF TypeOK
    <1> QED BY <1>3, <1>4, <1>5, <1>6

LEMMA ExecuteSteady ==
    ASSUME IInv, NEW c \in Call, Execute(c)
    PROVE  /\ Steady(c) /\ SameArgs(c) /\ SameResult(c) /\ ~At(c, "idle") /\ ~At(c, "idle")'
           /\ call'[c].pc = call[c].pc /\ call'[c].sent = "nothing"
           /\ call'[c].before = call[c].before
           /\ At(c, "wait") \/ call'[c].answer = NoAnswer
           /\ c \notin executed /\ executed' = executed \cup {c} /\ call[c].result # "ok"
           /\ listed' = listed
PROOF
    <1>1. call \in Rows /\ TypeOK /\ PcInv(c) /\ Pending(c)
        BY RowsInRows DEF IInv, CallInv, Execute
    <1> DEFINE answers == {a \in Answer : a.status = "2xx" /\ a.body # "failure"}
    <1>2. Replies(c, answers) /\ answers \in SUBSET Answer
        BY DEF Execute
    <1> HIDE DEF answers
    <1>3. /\ call' \in Rows /\ OthersStay(c) /\ SameArgs(c) /\ SameResult(c)
          /\ call'[c].pc = call[c].pc /\ call'[c].sent = "nothing"
          /\ call'[c].before = call[c].before
          /\ (call'[c].answer \in answers /\ At(c, "wait")) \/ call'[c].answer = NoAnswer
        BY <1>1, <1>2, RepliesFacts
    <1>4. /\ executed' = executed \cup {c}
          /\ UNCHANGED <<provider, trails, listed>>
        BY DEF Execute
    <1>5. TypeOK'
        BY <1>1, <1>3, <1>4, ExecuteFacts DEF TypeOK, Rows, Row
    <1>6. ~At(c, "idle") /\ ~At(c, "idle")' /\ c \notin executed /\ call[c].result # "ok"
        BY <1>1, <1>3 DEF PcInv, At
    <1> QED BY <1>3, <1>4, <1>5, <1>6 DEF Steady

LEMMA ExecuteKeeps ==
    ASSUME IInv, NEW c \in Call, Execute(c)
    PROVE  IInv'
PROOF
    <1> DEFINE v == call[c].value
    <1>1. /\ Steady(c) /\ SameArgs(c) /\ SameResult(c) /\ ~At(c, "idle") /\ ~At(c, "idle")'
          /\ call'[c].pc = call[c].pc /\ call'[c].sent = "nothing"
          /\ call'[c].before = call[c].before
          /\ At(c, "wait") \/ call'[c].answer = NoAnswer
          /\ c \notin executed /\ executed' = executed \cup {c} /\ call[c].result # "ok"
          /\ listed' = listed
        BY ExecuteSteady
    <1>2. /\ \A i \in Call : zone'[i] # zone[i] =>
               \/ call[c].op = "create" /\ i = c
               \/ call[c].op \in {"update", "delete"} /\ i = call[c].target
          /\ \A i \in Call : zone'[i] # zone[i] /\ zone'[i] # NoRecord =>
               /\ zone'[i].value = v /\ Gives(c, i, v)
               /\ (i = c /\ call[c].op = "create") \/ zone[i] # NoRecord
          /\ call[c].op = "create" => zone'[c] # NoRecord /\ zone'[c].value = v
        BY ExecuteFacts
    <1>3. \A s \in Call \ {c} : call'[s] = call[s]
        BY <1>1 DEF Steady, OthersStay
    <1>4. \A s \in Call : /\ call'[s].op = call[s].op /\ call'[s].target = call[s].target
                          /\ call'[s].value = call[s].value /\ call'[s].line = call[s].line
                          /\ call'[s].since = call[s].since
                          /\ call'[s].result = call[s].result /\ call'[s].id = call[s].id
                          /\ call'[s].pc = call[s].pc /\ call'[s].before = call[s].before
        BY <1>1, <1>3 DEF SameArgs, SameResult
    <1>5. \A i : Named(i)' => Named(i)
        BY <1>4 DEF Named
    <1>6. \A i, w : \A d \in Call : Gives(d, i, w) => Gives(d, i, w)'
        BY <1>4 DEF Gives
    <1>7. TypeOK' /\ (trails' => provider' = "baidu")
        BY <1>1 DEF Steady, IInv
    <1>8. \A s \in Call : CallInv(s)
        BY DEF IInv
    <1>9. \A s \in Call : c \notin call[s].since
        BY <1>1, <1>8 DEF CallInv, ArgsInv, Settled
    <1>10. \A s \in Call : ArgsInv(s)'
        BY <1>1, ArgsOfOthers, ArgsKept
    <1>11. PcInv(c)'
        <2>1. Pending(c) /\ PcInv(c)
            BY <1>8 DEF Execute, CallInv
        <2> QED BY <1>1, <2>1 DEF CallInv, PcInv, At, Pending, SameResult, SameArgs, Steady
    <1>12. \A s \in Call : PcInv(s)'
        BY <1>1, <1>11, PcOfOthers
    <1>13. ASSUME NEW i \in Call
           PROVE  ZoneInv(i)'
        <2>1. ZoneInv(i)
            BY <1>8 DEF CallInv
        <2>2. trails' /\ Named(i)' => i \in listed'
            BY <1>1, <1>5, <2>1 DEF ZoneInv, Steady
        <2>3. ASSUME zone'[i] # NoRecord, zone'[i] = zone[i]
              PROVE  /\ i \in executed' /\ call'[i].op = "create"
                     /\ \E d \in executed' : Gives(d, i, zone[i].value)'
            <3>1. PICK d \in executed : Gives(d, i, zone[i].value)
                BY <2>1, <2>3 DEF ZoneInv
            <3>2. d \in Call
                BY DEF IInv, TypeOK
            <3>3. zone[i].value = zone'[i].value
                BY <2>3
            <3>4. call'[d].value = zone'[i].value
                  /\ (\/ call'[d].op = "create" /\ d = i
                      \/ call'[d].op = "update" /\ call'[d].target = i)
                BY <1>4, <3>1, <3>2, <3>3 DEF Gives
            <3> QED BY <1>1, <1>4, <2>1, <2>3, <3>1, <3>4 DEF ZoneInv, Gives
        <2>4. ASSUME zone'[i] # NoRecord, zone'[i] # zone[i]
              PROVE  /\ i \in executed' /\ call'[i].op = "create"
                     /\ \E d \in executed' : Gives(d, i, zone[i].value)'
            <3>1. zone'[i].value = v /\ Gives(c, i, v)
                BY <1>2, <2>4
            <3>2. call'[c].value = zone'[i].value
                  /\ (\/ call'[c].op = "create" /\ c = i
                      \/ call'[c].op = "update" /\ call'[c].target = i)
                BY <1>4, <3>1 DEF Gives
            <3>3. i \in executed' /\ call'[i].op = "create"
                BY <1>1, <1>2, <1>4, <2>1, <2>4 DEF ZoneInv
            <3> QED BY <1>1, <3>2, <3>3 DEF Gives
        <2> QED BY <2>2, <2>3, <2>4 DEF ZoneInv
    <1>14. ASSUME NEW s \in Call
           PROVE  OwnInv(s)'
        <2>1. OwnInv(s)
            BY <1>8 DEF CallInv
        <2> SUFFICES ASSUME ~trails, call[s].op = "create", call[s].result # "ok", s \in executed'
                     PROVE  zone'[s] # NoRecord /\ zone'[s].value = call[s].value
            BY <1>1, <1>4, <2>1 DEF OwnInv, Steady
        <2>2. CASE s = c
            BY <1>2, <2>2
        <2>3. CASE s # c
            <3>1. zone[s] # NoRecord /\ zone[s].value = call[s].value
                BY <1>1, <2>1, <2>3 DEF OwnInv
            <3>2. ~Named(s)
                BY <1>8, ProvidersAssumption DEF Named, CallInv, PcInv, OwnInv
            <3>3. zone'[s] = zone[s]
                BY <1>2, <1>8, <2>3, <3>2 DEF CallInv, ArgsInv
            <3> QED BY <3>1, <3>3
        <2> QED BY <2>2, <2>3
    <1>15. ASSUME NEW s \in Call
           PROVE  FoundInv(s)'
        <2>1. FoundInv(s)
            BY <1>8 DEF CallInv
        <2> SUFFICES ASSUME provider = "baidu", NEW i \in Call, Candidate(s, i)', i # s
                     PROVE  \E d \in Call \ (call[s].since \cup {s}) : Gives(d, i, call[s].value)'
            BY <1>1, <1>4, <2>1 DEF FoundInv, Steady
        <2>2. CASE zone'[i] = zone[i]
            <3>1. Candidate(s, i)
                BY <1>4, <2>2 DEF Candidate
            <3>2. PICK d \in Call \ (call[s].since \cup {s}) : Gives(d, i, call[s].value)
                BY <2>1, <3>1 DEF FoundInv
            <3>3. Gives(d, i, call[s].value)'
                BY <1>4, <3>2 DEF Gives
            <3> QED BY <3>2, <3>3
        <2>3. CASE zone'[i] # zone[i]
            <3>1. zone'[i].value = v /\ Gives(c, i, v)
                BY <1>2, <2>3 DEF Candidate
            <3>2. zone'[i].value = call[s].value /\ call[s].op = "create"
                BY <1>4 DEF Candidate
            <3>3. c # s
                BY <3>1, <3>2 DEF Gives
            <3>4. Gives(c, i, call[s].value)'
                BY <1>4, <3>1, <3>2 DEF Gives
            <3> QED BY <1>9, <3>3, <3>4
        <2> QED BY <2>2, <2>3
    <1>16. ASSUME NEW s \in Call
           PROVE  LineInv(s)'
        <2> DEFINE t == call[s].target
        <2> SUFFICES ASSUME provider = "volcengine", call[s].op = "update",
                            call[s].line = "", Pending(s)', s # c
                     PROVE  LineInv(s)'
            BY <1>1, <1>4 DEF LineInv, Steady, Pending
        <2>1. Pending(s) /\ call'[s] = call[s] /\ t \in Call
            BY <1>3, <1>8 DEF Pending, CallInv, ArgsInv
        <2>2. /\ call[s].sent # "omitted" /\ t \in executed
              /\ \/ zone[t] = NoRecord
                 \/ call[s].sent = zone[t].line
                 \/ \E d \in Call \ (call[s].since \cup {s}) :
                      call[d].op = "update" /\ call[d].target = t
            BY <1>8, <2>1 DEF CallInv, LineInv
        <2>3. t # c
            BY <1>1, <2>2
        <2>4. \/ zone'[t] = NoRecord
              \/ call[s].sent = zone'[t].line
              \/ \E d \in Call \ (call[s].since \cup {s}) :
                   call[d].op = "update" /\ call[d].target = t
            <3>1. CASE zone'[t] = zone[t]
                BY <2>2, <3>1
            <3>2. CASE zone'[t] # zone[t] /\ zone'[t] # NoRecord
                <4>1. call[c].op = "update" /\ call[c].target = t
                    BY <1>2, <2>1, <2>3, <3>2 DEF Gives
                <4> QED BY <1>9, <4>1
            <3> QED BY <3>1, <3>2
        <2>5. \/ zone'[t] = NoRecord
              \/ call'[s].sent = zone'[t].line
              \/ \E d \in Call \ (call'[s].since \cup {s}) :
                   call'[d].op = "update" /\ call'[d].target = t
            <3>1. call'[s].sent = call[s].sent /\ call'[s].since = call[s].since
                BY <2>1
            <3>2. \A d \in Call : call'[d].op = call[d].op /\ call'[d].target = call[d].target
                BY <1>4
            <3> HIDE DEF t
            <3> QED BY <2>4, <3>1, <3>2
        <2>6. call'[s].target = t
            BY <2>1
        <2>7. call'[s].sent # "omitted"
            BY <2>1, <2>2
        <2>8. t \in executed'
            BY <1>1, <2>2
        <2> HIDE DEF t
        <2> QED BY <2>5, <2>6, <2>7, <2>8 DEF LineInv
    <1> QED BY <1>7, <1>10, <1>12, <1>13, <1>14, <1>15, <1>16 DEF IInv, CallInv
-----------------------------------------------------------------------------
(* The refinement: each step is a step of Zone or hidden from it. *)

LEMMA AbstractVars ==
    /\ Abstract!vars = <<ZoneBar, AskedBar, executed, ResultBar>>
    /\ Abstract!vars' = <<ZoneBar', AskedBar', executed', ResultBar'>>
PROOF
    BY DEF Abstract!vars

LEMMA StaysHidden ==
    ASSUME IInv, NEW c \in Call, Calm(c), SameArgs(c), SameResult(c), ~At(c, "idle"),
           ~At(c, "idle")'
    PROVE  UNCHANGED Abstract!vars
PROOF
    <1>1. \A d \in Call \ {c} : call'[d] = call[d]
        BY DEF Calm, Steady, OthersStay
    <1>2. \A d \in Call : AskedOf(d)' = AskedOf(d) /\ ResultOf(d)' = ResultOf(d)
        BY <1>1 DEF AskedOf, ResultOf, IsOf, SameArgs, SameResult, At
    <1>3. \A i \in Call : ValueOf(i)' = ValueOf(i)
        BY DEF ValueOf, Calm
    <1>4. ZoneBar' = ZoneBar /\ AskedBar' = AskedBar /\ ResultBar' = ResultBar
        BY <1>2, <1>3 DEF ZoneBar, AskedBar, ResultBar
    <1> QED BY <1>4, AbstractVars DEF Calm

LEMMA Opened ==
    [[is |-> "none", id |-> NoRecord] EXCEPT !.is = "open"] = [is |-> "open", id |-> NoRecord]
PROOF
    OBVIOUS

LEMMA ArrivalMaps ==
    ASSUME IInv, NEW c \in Call, Arrival(c)
    PROVE  Abstract!Ask(c)
PROOF
    <1>1. PICK op \in {"create", "update", "delete", "zones"}, t \in Call \cup {NoRecord},
               v \in Value \cup {NoRecord}, line \in Line \cup {""} :
            Begin(c, op, t, v, line)
        BY DEF Arrival
    <1>2. call \in Rows /\ TypeOK /\ line \in Lines
        BY RowsInRows DEF IInv, Lines
    <1>3. /\ call' \in Rows /\ OthersStay(c) /\ SameResult(c) /\ At(c, "idle")
          /\ UNCHANGED upstream
          /\ call'[c].pc = "begin" /\ call'[c].op = op /\ call'[c].target = t
          /\ call'[c].value = v /\ call'[c].line = line /\ call'[c].since = Settled
          /\ call'[c].sent = call[c].sent /\ call'[c].answer = call[c].answer
          /\ call'[c].before = call[c].before
        BY <1>1, <1>2, BeginFacts
    <1>4. call[c].result = "none" /\ call[c].id = NoRecord
        BY <1>3, IdleFacts DEF IInv, CallInv
    <1>5. /\ AskedOf(c)' = [op |-> op, target |-> t, value |-> v, since |-> Settled]
          /\ ResultOf(c) = [is |-> "none", id |-> NoRecord]
          /\ ResultOf(c)' = [is |-> "open", id |-> NoRecord]
        BY <1>3, <1>4 DEF AskedOf, ResultOf, IsOf, At, SameResult
    <1>6. \A d \in Call \ {c} : AskedOf(d)' = AskedOf(d) /\ ResultOf(d)' = ResultOf(d)
        BY <1>3 DEF AskedOf, ResultOf, IsOf, At, OthersStay
    <1>7. AskedBar' = [AskedBar EXCEPT ![c] = [op |-> op, target |-> t, value |-> v, since |-> Settled]]
        BY <1>5, <1>6 DEF AskedBar
    <1>8. ResultBar[c].is = "none" /\ ResultBar' = [ResultBar EXCEPT ![c].is = "open"]
        <2>1. ResultBar[c] = [is |-> "none", id |-> NoRecord]
            BY <1>5 DEF ResultBar
        <2>2. ResultBar' = [ResultBar EXCEPT ![c] = [is |-> "open", id |-> NoRecord]]
            BY <1>5, <1>6 DEF ResultBar
        <2>3. [ResultBar[c] EXCEPT !.is = "open"] = [is |-> "open", id |-> NoRecord]
            BY <2>1, Opened
        <2>4. [ResultBar EXCEPT ![c].is = "open"]
              = [ResultBar EXCEPT ![c] = [ResultBar[c] EXCEPT !.is = "open"]]
            OBVIOUS
        <2>5. ResultBar[c].is = "none"
            <3>1. ResultOf(c).is = "none"
                BY <1>3, <1>4 DEF ResultOf, IsOf
            <3> QED BY <3>1 DEF ResultBar
        <2> QED BY <2>2, <2>3, <2>4, <2>5
    <1>9. ZoneBar' = ZoneBar /\ executed' = executed
        BY <1>3 DEF ZoneBar, ValueOf, upstream
    <1>10. \A d \in Call : /\ ResultBar[d].is = "ok" <=> call[d].result = "ok"
                           /\ ResultBar[d].id = call[d].id /\ AskedBar[d].op = call[d].op
        BY <1>2 DEF ResultBar, ResultOf, IsOf, AskedBar, AskedOf, Rows, Row
    <1>11. Settled = {d \in Call : /\ ResultBar[d].is = "ok"
                                   /\ AskedBar[d].op = "create" => ResultBar[d].id = d}
        BY <1>10 DEF Settled
    <1>12. op \in {"update", "delete"} => \E d \in Call : ResultBar[d].is = "ok" /\ ResultBar[d].id = t
        BY <1>1, <1>10 DEF Begin
    <1> QED BY <1>7, <1>8, <1>9, <1>11, <1>12
            DEF Abstract!Ask, Abstract!Settled
(* What an answer changes for the caller. *)
LEMMA AnswerShows ==
    ASSUME IInv, NEW c \in Call, NEW x \in {"ok", "error"}, NEW i, Calm(c), SameArgs(c),
           call'[c].result = x, call'[c].id = i, call[c].result = "none", ~At(c, "idle")
    PROVE  /\ ResultBar[c].is = "open" /\ ResultBar' = [ResultBar EXCEPT ![c] = [is |-> x, id |-> i]]
           /\ ZoneBar' = ZoneBar /\ AskedBar' = AskedBar /\ executed' = executed
PROOF
    <1>1. \A d \in Call \ {c} : call'[d] = call[d]
        BY DEF Calm, Steady, OthersStay
    <1>2. \A d \in Call \ {c} : ResultOf(d)' = ResultOf(d)
        BY <1>1 DEF ResultOf, IsOf, At
    <1>3. \A d \in Call : AskedOf(d)' = AskedOf(d)
        BY <1>1 DEF AskedOf, SameArgs
    <1>4. \A d \in Call : ValueOf(d)' = ValueOf(d)
        BY DEF ValueOf, Calm
    <1>5. ZoneBar' = ZoneBar /\ AskedBar' = AskedBar /\ executed' = executed
        BY <1>3, <1>4 DEF ZoneBar, AskedBar, Calm
    <1>6. ResultOf(c)' = [is |-> x, id |-> i]
        BY DEF ResultOf, IsOf
    <1>7. ResultBar' = [ResultBar EXCEPT ![c] = [is |-> x, id |-> i]]
        BY <1>2, <1>6 DEF ResultBar
    <1>8. ResultOf(c).is = "open"
        BY DEF ResultOf, IsOf
    <1>9. ResultBar[c].is = "open"
        BY <1>8 DEF ResultBar
    <1> QED BY <1>5, <1>7, <1>9

LEMMA ErrorMaps ==
    ASSUME IInv, NEW c \in Call, Returns(c, "error", NoRecord), ~At(c, "idle"), ~At(c, "done")
    PROVE  IInv' /\ Abstract!Refuse(c)
PROOF
    <1>1. /\ IInv' /\ Calm(c) /\ SameArgs(c) /\ call'[c].result = "error"
          /\ call'[c].id = NoRecord /\ call[c].result = "none"
        BY ReturnsKeeps
    <1>2. /\ ResultBar[c].is = "open"
          /\ ResultBar' = [ResultBar EXCEPT ![c] = [is |-> "error", id |-> NoRecord]]
          /\ ZoneBar' = ZoneBar /\ AskedBar' = AskedBar /\ executed' = executed
        BY <1>1, AnswerShows
    <1> QED BY <1>1, <1>2 DEF Abstract!Refuse

LEMMA SuccessMaps ==
    ASSUME IInv, NEW c \in Call, NEW i \in Call \cup {NoRecord}, Returns(c, "ok", i),
           ~At(c, "idle"), ~At(c, "done"), c \in executed,
           IF call[c].op = "create" THEN i \in Call ELSE i = NoRecord,
           trails /\ i # NoRecord => i \in listed, ~trails /\ call[c].op = "create" => i = c,
           i \notin {c, NoRecord} => provider = "baidu" /\ Candidate(c, i)
    PROVE  IInv' /\ Abstract!Succeed(c, i)
PROOF
    <1>1. /\ IInv' /\ Calm(c) /\ SameArgs(c) /\ call'[c].result = "ok"
          /\ call'[c].id = i /\ call[c].result = "none"
        BY ReturnsKeeps
    <1>2. /\ ResultBar[c].is = "open"
          /\ ResultBar' = [ResultBar EXCEPT ![c] = [is |-> "ok", id |-> i]]
          /\ ZoneBar' = ZoneBar /\ AskedBar' = AskedBar /\ executed' = executed
        BY <1>1, AnswerShows
    <1>3. \A d \in Call : AskedBar[d] = AskedOf(d)
        BY DEF AskedBar
    <1>4. \A d \in Call : /\ AskedBar[d].op = call[d].op /\ AskedBar[d].target = call[d].target
                          /\ AskedBar[d].value = call[d].value /\ AskedBar[d].since = call[d].since
        <2> TAKE d \in Call
        <2>1. /\ AskedOf(d).op = call[d].op /\ AskedOf(d).target = call[d].target
              /\ AskedOf(d).value = call[d].value /\ AskedOf(d).since = call[d].since
            BY DEF AskedOf
        <2> QED BY <1>3, <2>1
    <1>5. call[c].op = "create" => Abstract!MayName(c, i)
        <2>1. CASE i = c
            BY <2>1 DEF Abstract!MayName
        <2>2. CASE i # c /\ call[c].op = "create"
            <3>1. i \in Call /\ i # NoRecord
                BY <2>2, ProvidersAssumption
            <3>2. PICK d \in Call \ (call[c].since \cup {c}) : Gives(d, i, call[c].value)
                BY <2>2, <3>1 DEF IInv, CallInv, FoundInv
            <3> QED BY <1>4, <3>2 DEF Abstract!MayName, Abstract!Gives, Gives
        <2> QED BY <2>1, <2>2
    <1> QED BY <1>1, <1>2, <1>4, <1>5 DEF Abstract!Succeed

LEMMA ExecuteMaps ==
    ASSUME IInv, NEW c \in Call, Execute(c)
    PROVE  Abstract!Execute(c)
PROOF
    <1> DEFINE q == call[c]
    <1>1. /\ Steady(c) /\ SameArgs(c) /\ SameResult(c) /\ ~At(c, "idle") /\ ~At(c, "idle")'
          /\ c \notin executed /\ executed' = executed \cup {c} /\ q.result # "ok"
        BY ExecuteSteady
    <1>2. /\ zone' \in [Call -> Record \cup {NoRecord}]
          /\ \A i \in Call : zone'[i] # zone[i] =>
               \/ q.op = "create" /\ i = c
               \/ q.op \in {"update", "delete"} /\ i = q.target
          /\ q.op = "create" => zone'[c] # NoRecord /\ zone'[c].value = q.value
          /\ q.op = "update" => /\ zone[q.target] # NoRecord /\ zone'[q.target] # NoRecord
                                /\ zone'[q.target].value = q.value
          /\ q.op = "delete" => zone'[q.target] = NoRecord
          /\ q.op \notin {"create", "update", "delete"} => zone' = zone
        BY ExecuteFacts
    <1>3. ArgsInv(c) /\ call \in Rows
        BY RowsInRows DEF IInv, CallInv
    <1>4. \A d \in Call \ {c} : call'[d] = call[d]
        BY <1>1 DEF Steady, OthersStay
    <1>5. \A d \in Call : AskedOf(d)' = AskedOf(d) /\ ResultOf(d)' = ResultOf(d)
        BY <1>1, <1>4 DEF AskedOf, ResultOf, IsOf, SameArgs, SameResult, At
    <1>6. AskedBar' = AskedBar /\ ResultBar' = ResultBar
        BY <1>5 DEF AskedBar, ResultBar
    <1>7. \A i \in Call : zone'[i] = zone[i] => ValueOf(i)' = ValueOf(i)
        BY DEF ValueOf
    <1>8. AskedBar[c] = AskedOf(c) /\ ResultBar[c] = ResultOf(c)
        BY DEF AskedBar, ResultBar
    <1>9. /\ AskedBar[c].op = q.op /\ AskedBar[c].target = q.target
          /\ AskedBar[c].value = q.value
        BY <1>8 DEF AskedOf
    <1>10. ResultBar[c].is \in {"open", "error"}
        <2>1. IsOf(c) \in {"open", "error"}
            BY <1>1, <1>3 DEF IsOf, Rows, Row
        <2> QED BY <1>8, <2>1 DEF ResultOf
    <1>11. q.op = "update" => ZoneBar[q.target] # NoRecord
        <2> SUFFICES ASSUME q.op = "update"
                     PROVE  ZoneBar[q.target] # NoRecord
            OBVIOUS
        <2>1. q.target \in Call /\ zone[q.target] # NoRecord
            BY <1>2, <1>3 DEF ArgsInv
        <2>2. zone[q.target].value \in Value
            BY <2>1 DEF IInv, TypeOK, Record
        <2> QED BY <2>1, <2>2, ProvidersAssumption DEF ZoneBar, ValueOf
    <1>12. ZoneBar' = Abstract!Effect(c)
        <2>1. CASE q.op = "create"
            <3>1. ZoneBar' = [ZoneBar EXCEPT ![c] = q.value]
                <4>1. ValueOf(c)' = q.value /\ \A i \in Call \ {c} : ValueOf(i)' = ValueOf(i)
                    BY <1>2, <1>7, <2>1 DEF ValueOf
                <4> QED BY <4>1 DEF ZoneBar
            <3> QED BY <1>9, <2>1, <3>1 DEF Abstract!Effect
        <2>2. CASE q.op = "update"
            <3>1. ZoneBar' = [ZoneBar EXCEPT ![q.target] = q.value]
                <4>1. /\ ValueOf(q.target)' = ValueOf(q.target)'
                      /\ \A i \in Call \ {q.target} : ValueOf(i)' = ValueOf(i)
                    BY <1>2, <1>7, <2>2
                <4>2. ZoneBar'[q.target] = q.value
                    BY <1>2, <1>3, <2>2 DEF ZoneBar, ValueOf, ArgsInv
                <4> QED BY <4>1, <4>2 DEF ZoneBar
            <3> QED BY <1>9, <2>2, <3>1 DEF Abstract!Effect
        <2>3. CASE q.op = "delete"
            <3>1. ZoneBar' = [ZoneBar EXCEPT ![q.target] = NoRecord]
                <4>1. \A i \in Call \ {q.target} : ValueOf(i)' = ValueOf(i)
                    BY <1>2, <1>7, <2>3
                <4>2. q.target \in Call /\ ZoneBar'[q.target] = NoRecord
                    BY <1>2, <1>3, <2>3 DEF ZoneBar, ValueOf, ArgsInv
                <4> QED BY <4>1, <4>2 DEF ZoneBar
            <3> QED BY <1>9, <2>3, <3>1 DEF Abstract!Effect
        <2>4. CASE q.op \notin {"create", "update", "delete"}
            <3>1. ZoneBar' = ZoneBar
                BY <1>2, <1>7, <2>4 DEF ZoneBar
            <3> QED BY <1>9, <2>4, <3>1 DEF Abstract!Effect
        <2> QED BY <2>1, <2>2, <2>3, <2>4
    <1> QED BY <1>1, <1>6, <1>9, <1>10, <1>11, <1>12 DEF Abstract!Execute
(* Nothing a caller or the zone shows. *)
LEMMA ShowMaps ==
    ASSUME NEW i \in Call, Show(i)
    PROVE  UNCHANGED Abstract!vars
PROOF
    <1>1. UNCHANGED <<zone, executed, call>>
        BY DEF Show
    <1>2. \A d \in Call : AskedOf(d)' = AskedOf(d) /\ ResultOf(d)' = ResultOf(d) /\ ValueOf(d)' = ValueOf(d)
        BY <1>1 DEF AskedOf, ResultOf, IsOf, ValueOf, At
    <1>3. ZoneBar' = ZoneBar /\ AskedBar' = AskedBar /\ ResultBar' = ResultBar
        BY <1>2 DEF ZoneBar, AskedBar, ResultBar
    <1> QED BY <1>1, <1>3, AbstractVars
-----------------------------------------------------------------------------
(* Every step keeps the invariant, and maps to a step of Zone or to none. *)

Mapped(c) ==
    \/ Abstract!Ask(c) \/ Abstract!Execute(c) \/ Abstract!Refuse(c)
    \/ \E i \in Call \cup {NoRecord} : Abstract!Succeed(c, i)
    \/ UNCHANGED Abstract!vars

LEMMA ErrorStep ==
    ASSUME IInv, NEW c \in Call, Returns(c, "error", NoRecord),
           call[c].pc \notin {"idle", "done"}
    PROVE  IInv' /\ Mapped(c)
PROOF
    BY ErrorMaps DEF Mapped, At

LEMMA HiddenStep ==
    ASSUME IInv, NEW c \in Call,
           IInv' /\ Calm(c) /\ SameArgs(c) /\ SameResult(c) /\ ~At(c, "idle") /\ ~At(c, "idle")'
    PROVE  IInv' /\ Mapped(c)
PROOF
    BY StaysHidden DEF Mapped

LEMMA ReceiveStep ==
    ASSUME IInv, NEW c \in Call, Receive(c)
    PROVE  IInv' /\ Mapped(c)
PROOF
    <1> DEFINE i == IF call[c].op = "create" THEN c ELSE NoRecord
    <1>1. CASE At(c, "wait") /\ Returns(c, "error", NoRecord)
        BY <1>1, ErrorStep DEF At
    <1>2. CASE IInv' /\ Calm(c) /\ SameArgs(c) /\ SameResult(c) /\ ~At(c, "idle")
               /\ ~At(c, "idle")'
        BY <1>2, HiddenStep
    <1>3. CASE /\ At(c, "wait") /\ c \in executed /\ Returns(c, "ok", i)
               /\ provider # "baidu" \/ call[c].op # "create"
        <2>1. trails => provider = "baidu"
            BY DEF IInv
        <2>2. i \in Call \cup {NoRecord} /\ i \in {c, NoRecord}
            OBVIOUS
        <2>3. trails => i = NoRecord
            BY <1>3, <2>1
        <2>4. IF call[c].op = "create" THEN i \in Call ELSE i = NoRecord
            OBVIOUS
        <2>5. ~trails /\ call[c].op = "create" => i = c
            OBVIOUS
        <2>6. ~At(c, "idle") /\ ~At(c, "done") /\ c \in executed /\ Returns(c, "ok", i)
            BY <1>3 DEF At
        <2> HIDE DEF i
        <2>7. trails /\ i # NoRecord => i \in listed
            BY <2>3
        <2>8. i \notin {c, NoRecord} => provider = "baidu" /\ Candidate(c, i)
            BY <2>2
        <2>9. IInv' /\ Abstract!Succeed(c, i)
            BY <2>2, <2>4, <2>5, <2>6, <2>7, <2>8, SuccessMaps
        <2> QED BY <2>2, <2>9 DEF Mapped
    <1> QED BY <1>1, <1>2, <1>3, ReceiveCases

LEMMA FindStep ==
    ASSUME IInv, NEW c \in Call, BaiduFindNew(c)
    PROVE  IInv' /\ Mapped(c)
PROOF
    <1>1. CASE IInv' /\ Calm(c) /\ SameArgs(c) /\ SameResult(c) /\ ~At(c, "idle")
               /\ ~At(c, "idle")'
        BY <1>1, HiddenStep
    <1>2. CASE At(c, "find") /\ Returns(c, "error", NoRecord)
        BY <1>2, ErrorStep DEF At
    <1>3. ASSUME NEW i \in Call, At(c, "find"), Candidate(c, i), Returns(c, "ok", i),
                 trails => i \in listed, ~trails => i = c
          PROVE  IInv' /\ Mapped(c)
        <2>1. /\ ~At(c, "idle") /\ ~At(c, "done") /\ c \in executed /\ call[c].op = "create"
              /\ provider = "baidu"
            BY <1>3 DEF At, IInv, CallInv, PcInv
        <2>2. IInv' /\ Abstract!Succeed(c, i)
            BY <1>3, <2>1, SuccessMaps
        <2> QED BY <2>2 DEF Mapped
    <1> QED BY <1>1, <1>2, <1>3, FindNewKeeps

LEMMA ClientStep ==
    ASSUME IInv, NEW c \in Call,
           ListZones(c) \/ CreateRecord(c) \/ UpdateRecord(c) \/ DeleteRecord(c)
    PROVE  IInv' /\ Mapped(c)
PROOF
    <1>1. CASE SendsIt(c)
        BY <1>1, SendsKeeps, HiddenStep
    <1>2. CASE BaiduListBefore(c)
        BY <1>2, ListBeforeKeeps, HiddenStep
    <1>3. CASE BaiduFindNew(c)
        BY <1>3, FindStep
    <1>4. CASE At(c, "begin") /\ Returns(c, "error", NoRecord)
        BY <1>4, ErrorStep DEF At
    <1> QED BY <1>1, <1>2, <1>3, <1>4, ClientSteps

LEMMA NextMaps ==
    IInv /\ Next => IInv' /\ (Abstract!Next \/ UNCHANGED Abstract!vars)
PROOF
    <1> SUFFICES ASSUME IInv, Next
                 PROVE  IInv' /\ (Abstract!Next \/ UNCHANGED Abstract!vars)
        OBVIOUS
    <1>1. CASE \E i \in Call : Show(i)
        BY <1>1, ShowKeeps, ShowMaps
    <1>2. ASSUME NEW c \in Call,
                 \/ Arrival(c)
                 \/ ListZones(c) \/ CreateRecord(c) \/ UpdateRecord(c) \/ DeleteRecord(c)
                 \/ Receive(c) \/ GiveUp(c)
                 \/ Execute(c) \/ Refuse(c)
          PROVE  IInv' /\ Mapped(c)
        <2>1. CASE Arrival(c)
            BY <2>1, ArrivalKeeps, ArrivalMaps DEF Mapped
        <2>2. CASE ListZones(c) \/ CreateRecord(c) \/ UpdateRecord(c) \/ DeleteRecord(c)
            BY <2>2, ClientStep
        <2>3. CASE Receive(c)
            BY <2>3, ReceiveStep
        <2>4. CASE GiveUp(c)
            BY <2>4, ErrorStep DEF GiveUp
        <2>5. CASE Execute(c)
            BY <2>5, ExecuteKeeps, ExecuteMaps DEF Mapped
        <2>6. CASE Refuse(c)
            BY <2>6, RefuseKeeps, HiddenStep
        <2> QED BY <1>2, <2>1, <2>2, <2>3, <2>4, <2>5, <2>6
    <1>3. ASSUME NEW c \in Call, Mapped(c)
          PROVE  Abstract!Next \/ UNCHANGED Abstract!vars
        BY <1>3 DEF Mapped, Abstract!Next
    <1> QED BY <1>1, <1>2, <1>3 DEF Next

LEMMA StutterMaps ==
    IInv /\ UNCHANGED vars => IInv' /\ UNCHANGED Abstract!vars
PROOF
    <1> SUFFICES ASSUME IInv, UNCHANGED vars
                 PROVE  IInv' /\ UNCHANGED Abstract!vars
        OBVIOUS
    <1>1. UNCHANGED <<provider, trails, zone, listed, executed, call>>
        BY DEF vars
    <1>2. TypeOK'
        BY <1>1 DEF IInv, TypeOK
    <1>3. ASSUME NEW c \in Call
          PROVE  CallInv(c)'
        <2>1. ArgsInv(c)' /\ PcInv(c)' /\ OwnInv(c)'
            BY <1>1 DEF IInv, CallInv, ArgsInv, At, Named, Settled, PcInv, Pending, Refusals,
                        RefusesByStatus, OwnInv
        <2>2. FoundInv(c)' /\ LineInv(c)'
            <3>1. FoundInv(c) /\ LineInv(c)
                BY DEF IInv, CallInv
            <3>2. FoundInv(c)'
                BY <1>1, <3>1 DEF FoundInv, Candidate, Gives
            <3>3. LineInv(c)'
                BY <1>1, <3>1 DEF LineInv, Pending
            <3> QED BY <3>2, <3>3
        <2>3. ZoneInv(c)'
            BY <1>1 DEF IInv, CallInv, ZoneInv, Named, Gives
        <2> QED BY <2>1, <2>2, <2>3 DEF CallInv
    <1>4. ZoneBar' = ZoneBar /\ AskedBar' = AskedBar /\ ResultBar' = ResultBar
        BY <1>1 DEF ZoneBar, ValueOf, AskedBar, AskedOf, ResultBar, ResultOf, IsOf, At
    <1> QED BY <1>1, <1>2, <1>3, <1>4, AbstractVars DEF IInv

LEMMA StepMaps ==
    IInv /\ [Next]_vars => IInv' /\ [Abstract!Next]_(Abstract!vars)
PROOF
    BY NextMaps, StutterMaps

LEMMA InitKeeps ==
    Init => IInv
PROOF
    <1> SUFFICES ASSUME Init
                 PROVE  IInv
        OBVIOUS
    <1>1. Idle \in Row
        <2>1. 0 \in 0..2 /\ "" \in Lines /\ "nothing" \in Lines
            BY DEF Lines
        <2> QED BY <2>1 DEF Idle, Row
    <1>2. call \in Rows
        BY <1>1 DEF Init, Rows
    <1>3. TypeOK
        BY <1>2, RowsInRows DEF Init
    <1>4. ASSUME NEW c \in Call
          PROVE  CallInv(c)
        <2>1. call[c] = Idle /\ zone[c] = NoRecord
            BY DEF Init
        <2>2. /\ Idle.pc = "idle" /\ Idle.op = "none" /\ Idle.line = "" /\ Idle.since = {}
              /\ Idle.sent = "nothing" /\ Idle.answer = NoAnswer /\ Idle.before = {}
              /\ Idle.result = "none" /\ Idle.id = NoRecord
            BY DEF Idle
        <2> HIDE DEF Idle
        <2>3. ArgsInv(c) /\ PcInv(c)
            BY <2>1, <2>2 DEF ArgsInv, PcInv, At, Pending, Init
        <2>4. ~Named(c)
            BY <2>2 DEF Named, Init
        <2>5. ZoneInv(c) /\ OwnInv(c) /\ FoundInv(c) /\ LineInv(c)
            BY <2>1, <2>2, <2>4 DEF ZoneInv, OwnInv, FoundInv, Candidate, LineInv, Pending
        <2> QED BY <2>3, <2>5 DEF CallInv
    <1> QED BY <1>3, <1>4 DEF IInv, Init

LEMMA InitMaps ==
    Init => Abstract!Init
PROOF
    <1> SUFFICES ASSUME Init
                 PROVE  Abstract!Init
        OBVIOUS
    <1>1. \A c \in Call : zone[c] = NoRecord /\ call[c] = Idle
        BY DEF Init
    <1>2. /\ Idle.pc = "idle" /\ Idle.op = "none" /\ Idle.target = NoRecord
          /\ Idle.value = NoRecord /\ Idle.since = {} /\ Idle.result = "none"
          /\ Idle.id = NoRecord
        BY DEF Idle
    <1>3. \A c \in Call : ValueOf(c) = NoRecord
        BY <1>1 DEF ValueOf
    <1>4. \A c \in Call : AskedOf(c) = Abstract!Nothing
        BY <1>1, <1>2 DEF AskedOf, Abstract!Nothing
    <1>5. \A c \in Call : ResultOf(c) = [is |-> "none", id |-> NoRecord]
        BY <1>1, <1>2 DEF ResultOf, IsOf, At
    <1> QED BY <1>3, <1>4, <1>5 DEF Abstract!Init, ZoneBar, AskedBar, ResultBar, Init

LEMMA StepKeeps ==
    IInv /\ [Next]_vars => IInv'
PROOF
    BY StepMaps

-----------------------------------------------------------------------------
(* What the invariant says of the properties. *)

LEMMA ImpliesOwnRecord ==
    IInv => OwnRecord
PROOF
    BY DEF IInv, CallInv, OwnInv, OwnRecord

(* Only the API executes. *)
LEMMA OnlyExecuteExecutes ==
    ASSUME IInv, [Next]_vars, NEW c \in Call, c \in executed' \ executed
    PROVE  Execute(c)
PROOF
    <1>1. Next
        BY DEF vars
    <1>2. CASE \E i \in Call : Show(i)
        BY <1>2 DEF Show
    <1>3. ASSUME NEW d \in Call,
                 \/ Arrival(d)
                 \/ ListZones(d) \/ CreateRecord(d) \/ UpdateRecord(d) \/ DeleteRecord(d)
                 \/ Receive(d) \/ GiveUp(d)
                 \/ Execute(d) \/ Refuse(d)
          PROVE  Execute(c)
        <2>1. CASE Arrival(d)
            BY <2>1, ArrivalKeeps DEF Calm
        <2>2. CASE ListZones(d) \/ CreateRecord(d) \/ UpdateRecord(d) \/ DeleteRecord(d)
            <3>1. executed' = executed
                BY <2>2, ClientSteps DEF SendsIt, Sends, BaiduListBefore, BaiduFindNew, Returns,
                   upstream
            <3> QED BY <3>1
        <2>3. CASE Receive(d) \/ GiveUp(d) \/ Refuse(d)
            BY <2>3 DEF Receive, GiveUp, Refuse, Returns, upstream
        <2>4. CASE Execute(d)
            <3>1. executed' = executed \cup {d}
                BY <2>4 DEF Execute
            <3>2. d = c
                BY <3>1
            <3> QED BY <2>4, <3>2
        <2> QED BY <1>3, <2>1, <2>2, <2>3, <2>4
    <1> QED BY <1>1, <1>2, <1>3 DEF Next

LEMMA StepsKeepLines ==
    IInv /\ [Next]_vars =>
      [\A c \in Call :
         LET t == call[c].target IN
         /\ provider = "volcengine" /\ call[c].op = "update" /\ call[c].line = ""
         /\ c \in executed' \ executed
         => \/ zone'[t].line = zone[t].line
            \/ \E d \in Call \ (call[c].since \cup {c}) :
                 call[d].op = "update" /\ call[d].target = t]_vars
PROOF
    <1> SUFFICES ASSUME IInv, [Next]_vars, NEW c \in Call,
                        provider = "volcengine", call[c].op = "update", call[c].line = "",
                        c \in executed' \ executed
                 PROVE  \/ zone'[call[c].target].line = zone[call[c].target].line
                        \/ \E d \in Call \ (call[c].since \cup {c}) :
                             call[d].op = "update" /\ call[d].target = call[c].target
        OBVIOUS
    <1> DEFINE t == call[c].target
    <1>1. Execute(c)
        BY OnlyExecuteExecutes
    <1>2. /\ zone[t] # NoRecord
          /\ call[c].sent # "omitted" => zone'[t].line = call[c].sent
        BY <1>1, ExecuteFacts
    <1>3. Pending(c) /\ LineInv(c)
        BY <1>1 DEF Execute, IInv, CallInv
    <1> QED BY <1>2, <1>3 DEF LineInv

-----------------------------------------------------------------------------
(* The theorems. *)

(* The inductive invariant holds throughout. *)
THEOREM ProvidersInvariant == Spec => []IInv
PROOF
    BY InitKeeps, StepKeeps, PTL DEF Spec

(* Every variable keeps its type; Baidu's creation looks three times. *)
THEOREM ProvidersTypeOK == Spec => []TypeOK
PROOF
    <1>1. IInv => TypeOK
        BY DEF IInv
    <1> QED BY <1>1, ProvidersInvariant, PTL

(* Where listings show what was written, a creation names its own record *)
(* (dns/providers/baidu.go:149-177).                                     *)
THEOREM NamesOwnRecord == Spec => []OwnRecord
PROOF
    BY ImpliesOwnRecord, ProvidersInvariant, PTL

(* An update without a line leaves a Volcengine record on its line, unless *)
(* another update came in between (dns/providers/volcengine.go:112-122).   *)
THEOREM LinesAreKept == Spec => LineIsKept
PROOF
    BY StepsKeepLines, ProvidersInvariant, PTL DEF Spec, LineIsKept

(* Every provider is a Zone: what the record service relies on holds of each *)
(* of the ten clients (dns/provider.go).                                     *)
THEOREM ProvidersImplementZone == Spec => ImplementsZone
PROOF
    BY InitMaps, StepMaps, ProvidersInvariant, PTL DEF Spec, ImplementsZone, Abstract!Spec
=============================================================================
