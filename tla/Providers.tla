----------------------------- MODULE Providers -----------------------------
(***************************************************************************)
(* The implementations of dns.Provider (dns/providers/): the request each  *)
(* sends for a call, the answers it takes for success, and what it returns. *)
(* Baidu's creation is three exchanges, because its API does not name the  *)
(* record it creates; Volcengine's update is two, because its API wants    *)
(* the line.                                                               *)
(*                                                                         *)
(* The API behind them is external.  It executes a request once, or        *)
(* refuses it, or never receives it; the answer may be lost or cut, and    *)
(* the caller may have given up when the request is executed.  An API      *)
(* reports a refusal in the body, except Huawei's and JD's, which report   *)
(* it in the HTTP status.  Its listings may trail its records.             *)
(*                                                                         *)
(* One zone, one host and one record type: only values and lines differ.   *)
(***************************************************************************)
EXTENDS Integers, FiniteSets

CONSTANTS
    Call,       \* calls of the interface; a record is named by the call that creates it
    Value,      \* record values
    Line,       \* resolution lines other than the default one
    Provider,   \* the providers that Init chooses from
    NoRecord

Record == [value : Value, line : Line \cup {"default"}]

(* The clients of dns/providers; what a line may be called. *)
ASSUME ProvidersAssumption ==
    /\ IsFiniteSet(Call)
    /\ Provider \subseteq {"cloudflare", "dnspod", "aliyun", "westcn", "huaweicloud",
                           "jdcloud", "xinnet", "dnsla", "volcengine", "baidu"}
    /\ NoRecord \notin Call \cup Value \cup Record
    /\ Line \cap {"default", "omitted", "nothing", ""} = {}

VARIABLES
    provider,   \* the provider of the domain
    trails,     \* its listings may trail its records
    zone,       \* its records: [value, line]
    listed,     \* the records its listings show, when they trail
    executed,   \* the calls it has executed
    call        \* per call: program counter, arguments, locals and exchange

vars == <<provider, trails, zone, listed, executed, call>>
upstream == <<provider, trails, zone, listed, executed>>

-----------------------------------------------------------------------------
Answer == [status : {"2xx", "4xx"}, body : {"success", "failure", "garbled"}]
NoAnswer == [status |-> "none", body |-> "none"]

Idle == [pc |-> "idle", op |-> "none", target |-> NoRecord, value |-> NoRecord, line |-> "",
         since |-> {}, sent |-> "nothing", answer |-> NoAnswer, before |-> {}, attempt |-> 0,
         result |-> "none", id |-> NoRecord]

At(c, pc) == call[c].pc = pc

Returns(c, result, id) ==
    /\ call' = [call EXCEPT ![c] = [@ EXCEPT !.pc = "done", !.result = result, !.id = id,
                                             !.answer = NoAnswer, !.before = {}, !.attempt = 0]]
    /\ UNCHANGED upstream

(* The request goes out, with its line or with the line omitted; until the *)
(* API answers it, it may still be executed.                               *)
Sends(c, line) ==
    /\ call' = [call EXCEPT ![c] = [@ EXCEPT !.pc = "wait", !.sent = line]]
    /\ UNCHANGED upstream

Starts(c, p, op) == provider = p /\ At(c, "begin") /\ call[c].op = op

OrDefault(line) == IF line = "" THEN "default" ELSE line
OrOmitted(line) == IF line = "" THEN "omitted" ELSE line

Settled == {d \in Call : /\ call[d].result = "ok"
                         /\ call[d].op = "create" => call[d].id = d}

(* The record service calls; it updates and deletes what a creation named. *)
Begin(c, op, t, v, line) ==
    /\ At(c, "idle")
    /\ op \in {"update", "delete"} => \E d \in Call : call[d].result = "ok" /\ call[d].id = t
    /\ call' = [call EXCEPT ![c] = [@ EXCEPT !.pc = "begin", !.op = op, !.target = t,
                                             !.value = v, !.line = line, !.since = Settled]]
    /\ UNCHANGED upstream

-----------------------------------------------------------------------------
(* Cloudflare knows no lines. *)
CloudflareListZones(c) == Starts(c, "cloudflare", "zones") /\ Sends(c, "omitted")
CloudflareCreate(c) == Starts(c, "cloudflare", "create") /\ Sends(c, "omitted")
CloudflareUpdate(c) == Starts(c, "cloudflare", "update") /\ Sends(c, "omitted")
CloudflareDelete(c) == Starts(c, "cloudflare", "delete") /\ Sends(c, "omitted")

(* Defect: the success flag is not read. *)
CloudflareAcceptsStatus == {a \in Answer : a.status = "2xx" /\ a.body # "garbled"}

CloudflareAccepts == {a \in Answer : a.status = "2xx" /\ a.body = "success"}

(* DNSPod always sends a line. *)
DnspodListZones(c) == Starts(c, "dnspod", "zones") /\ Sends(c, "omitted")
DnspodCreate(c) == Starts(c, "dnspod", "create") /\ Sends(c, OrDefault(call[c].line))
DnspodUpdate(c) == Starts(c, "dnspod", "update") /\ Sends(c, OrDefault(call[c].line))
DnspodDelete(c) == Starts(c, "dnspod", "delete") /\ Sends(c, "omitted")
DnspodAccepts == {a \in Answer : a.status = "2xx" /\ a.body = "success"}

(* Aliyun and West send a line when they create. *)
AliyunListZones(c) == Starts(c, "aliyun", "zones") /\ Sends(c, "omitted")
AliyunCreate(c) == Starts(c, "aliyun", "create") /\ Sends(c, OrOmitted(call[c].line))
AliyunUpdate(c) == Starts(c, "aliyun", "update") /\ Sends(c, "omitted")
AliyunDelete(c) == Starts(c, "aliyun", "delete") /\ Sends(c, "omitted")
AliyunAccepts == {a \in Answer : a.status = "2xx" /\ a.body = "success"}

WestcnListZones(c) == Starts(c, "westcn", "zones") /\ Sends(c, "omitted")
WestcnCreate(c) == Starts(c, "westcn", "create") /\ Sends(c, OrOmitted(call[c].line))
WestcnUpdate(c) == Starts(c, "westcn", "update") /\ Sends(c, "omitted")
WestcnDelete(c) == Starts(c, "westcn", "delete") /\ Sends(c, "omitted")
WestcnAccepts == {a \in Answer : a.status = "2xx" /\ a.body = "success"}

(* Huawei and JD: the status decides; only a creation and a listing read the body. *)
HuaweicloudListZones(c) == Starts(c, "huaweicloud", "zones") /\ Sends(c, "omitted")
HuaweicloudCreate(c) == Starts(c, "huaweicloud", "create") /\ Sends(c, "omitted")
HuaweicloudUpdate(c) == Starts(c, "huaweicloud", "update") /\ Sends(c, "omitted")
HuaweicloudDelete(c) == Starts(c, "huaweicloud", "delete") /\ Sends(c, "omitted")
HuaweicloudAccepts(op) ==
    {a \in Answer : a.status = "2xx" /\ (op \in {"create", "zones"} => a.body # "garbled")}

JdcloudListZones(c) == Starts(c, "jdcloud", "zones") /\ Sends(c, "omitted")
JdcloudCreate(c) == Starts(c, "jdcloud", "create") /\ Sends(c, "default")
JdcloudUpdate(c) == Starts(c, "jdcloud", "update") /\ Sends(c, "omitted")
JdcloudDelete(c) == Starts(c, "jdcloud", "delete") /\ Sends(c, "omitted")
JdcloudAccepts(op) ==
    {a \in Answer : a.status = "2xx" /\ (op \in {"create", "zones"} => a.body # "garbled")}

XinnetListZones(c) == Starts(c, "xinnet", "zones") /\ Sends(c, "omitted")
XinnetCreate(c) == Starts(c, "xinnet", "create") /\ Sends(c, "omitted")
XinnetUpdate(c) == Starts(c, "xinnet", "update") /\ Sends(c, "omitted")
XinnetDelete(c) == Starts(c, "xinnet", "delete") /\ Sends(c, "omitted")
XinnetAccepts == {a \in Answer : a.status = "2xx" /\ a.body = "success"}

DnslaListZones(c) == Starts(c, "dnsla", "zones") /\ Sends(c, "omitted")
DnslaCreate(c) == Starts(c, "dnsla", "create") /\ Sends(c, "omitted")
DnslaUpdate(c) == Starts(c, "dnsla", "update") /\ Sends(c, "omitted")
DnslaDelete(c) == Starts(c, "dnsla", "delete") /\ Sends(c, "omitted")
DnslaAccepts == {a \in Answer : a.status = "2xx" /\ a.body = "success"}

-----------------------------------------------------------------------------
(* Volcengine *)
VolcengineListZones(c) == Starts(c, "volcengine", "zones") /\ Sends(c, "omitted")
VolcengineCreate(c) == Starts(c, "volcengine", "create") /\ Sends(c, OrOmitted(call[c].line))
VolcengineDelete(c) == Starts(c, "volcengine", "delete") /\ Sends(c, "omitted")

(* Defect: an update without a line names the default line. *)
VolcengineUpdateDefault(c) ==
    Starts(c, "volcengine", "update") /\ Sends(c, OrDefault(call[c].line))

(* An update without a line first asks for the record's line, in an exchange *)
(* of its own; a record that has gone ends the call.                         *)
VolcengineUpdate(c) ==
    LET line == call[c].line
        rec == zone[call[c].target] IN
    /\ Starts(c, "volcengine", "update")
    /\ IF line # "" THEN Sends(c, line)
       ELSE IF rec = NoRecord THEN Returns(c, "error", NoRecord)
       ELSE Sends(c, rec.line)

(* The client library reads the body; a creation must carry an id. *)
VolcengineAccepts == {a \in Answer : a.status = "2xx" /\ a.body = "success"}

-----------------------------------------------------------------------------
(* Baidu *)
BaiduListZones(c) == Starts(c, "baidu", "zones") /\ Sends(c, "omitted")
BaiduUpdate(c) == Starts(c, "baidu", "update") /\ Sends(c, "omitted")
BaiduDelete(c) == Starts(c, "baidu", "delete") /\ Sends(c, "omitted")
BaiduAccepts == {a \in Answer : a.status = "2xx" /\ a.body = "success"}

(* The listing of the host's records with this type and value, on any line. *)
BaiduMatching(c) ==
    {i \in Call : /\ zone[i] # NoRecord /\ zone[i].value = call[c].value
                  /\ trails => i \in listed}

BaiduListBefore(c) ==
    /\ Starts(c, "baidu", "create")
    /\ call' = [call EXCEPT ![c] = [@ EXCEPT !.pc = "create", !.before = BaiduMatching(c)]]
    /\ UNCHANGED upstream

BaiduCreate(c) == At(c, "create") /\ Sends(c, OrOmitted(call[c].line))

(* Defect: any matching record is taken, also one that was there before. *)
BaiduFindAny(c) ==
    LET found == BaiduMatching(c) IN
    /\ At(c, "find")
    /\ IF found # {} THEN \E i \in found : Returns(c, "ok", i)
       ELSE Returns(c, "error", NoRecord)

(* Defect: one listing too many. *)
BaiduFindOnceMore(c) ==
    LET new == BaiduMatching(c) \ call[c].before IN
    /\ At(c, "find")
    /\ IF new # {} THEN \E i \in new : Returns(c, "ok", i)
       ELSE call[c].attempt < 3 /\ call' = [call EXCEPT ![c].attempt = @ + 1] /\ UNCHANGED upstream

(* Three listings, 200 ms apart, look for the one record that is new. *)
BaiduFindNew(c) ==
    LET new == BaiduMatching(c) \ call[c].before IN
    /\ At(c, "find")
    /\ CASE \E i \in new : new = {i} -> \E i \in new : Returns(c, "ok", i)
         [] new = {} /\ call[c].attempt < 2 ->
              call' = [call EXCEPT ![c].attempt = @ + 1] /\ UNCHANGED upstream
         [] OTHER -> Returns(c, "error", NoRecord)

-----------------------------------------------------------------------------
Accepts(c) ==
    [cloudflare |-> CloudflareAccepts, dnspod |-> DnspodAccepts, aliyun |-> AliyunAccepts,
     westcn |-> WestcnAccepts, huaweicloud |-> HuaweicloudAccepts(call[c].op),
     jdcloud |-> JdcloudAccepts(call[c].op), xinnet |-> XinnetAccepts,
     dnsla |-> DnslaAccepts, volcengine |-> VolcengineAccepts, baidu |-> BaiduAccepts][provider]

(* The answer arrives.  An accepted creation names the record in the answer; *)
(* Baidu's has none and goes on.                                             *)
Receive(c) ==
    LET a == call[c].answer
        created == call[c].op = "create" IN
    /\ At(c, "wait") /\ a # NoAnswer
    /\ IF a \notin Accepts(c) THEN Returns(c, "error", NoRecord)
       ELSE IF provider = "baidu" /\ created
       THEN call' = [call EXCEPT ![c].pc = "find"] /\ UNCHANGED upstream
       ELSE Returns(c, "ok", IF created THEN c ELSE NoRecord)

(* The deadline passes, the connection fails, or the provider cannot be *)
(* configured for this call.                                            *)
GiveUp(c) ==
    /\ call[c].pc \notin {"idle", "done"}
    /\ Returns(c, "error", NoRecord)

-----------------------------------------------------------------------------
(* The API *)

Pending(c) == call[c].sent # "nothing"

RefusesByStatus == provider \in {"huaweicloud", "jdcloud"}

(* The answer reaches a caller that still waits. *)
Replies(c, answers) ==
    \E a \in IF At(c, "wait") THEN answers ELSE {NoAnswer} :
      call' = [call EXCEPT ![c] = [@ EXCEPT !.sent = "nothing", !.answer = a]]

NewLines(c) ==
    LET sent == call[c].sent
        rec == zone[call[c].target] IN
    IF sent # "omitted" THEN {sent}
    ELSE IF call[c].op = "create" THEN {"default"} ELSE {"default", rec.line}

Execute(c) ==
    LET q == call[c] IN
    /\ Pending(c)
    /\ CASE q.op = "create" ->
              \E line \in NewLines(c) :
                zone' = [zone EXCEPT ![c] = [value |-> q.value, line |-> line]]
         [] q.op = "update" ->
              /\ zone[q.target] # NoRecord
              /\ \E line \in NewLines(c) :
                   zone' = [zone EXCEPT ![q.target] = [value |-> q.value, line |-> line]]
         [] q.op = "delete" -> zone' = [zone EXCEPT ![q.target] = NoRecord]
         [] OTHER -> zone' = zone
    /\ executed' = executed \cup {c}
    /\ Replies(c, {a \in Answer : a.status = "2xx" /\ a.body # "failure"})
    /\ UNCHANGED <<provider, trails, listed>>

Refuse(c) ==
    /\ Pending(c)
    /\ Replies(c, {a \in Answer : a.body # "success" /\ (RefusesByStatus => a.status = "4xx")})
    /\ UNCHANGED upstream

(* A record shows in the listings. *)
Show(i) ==
    /\ trails /\ zone[i] # NoRecord /\ i \notin listed
    /\ listed' = listed \cup {i}
    /\ UNCHANGED <<provider, trails, zone, executed, call>>

-----------------------------------------------------------------------------
Init ==
    /\ provider \in Provider
    /\ trails \in BOOLEAN /\ (trails => provider = "baidu")
    /\ zone = [i \in Call |-> NoRecord]
    /\ listed = {}
    /\ executed = {}
    /\ call = [c \in Call |-> Idle]

(* The others do not look at the line of a call. *)
KnowsLines == provider \in {"dnspod", "aliyun", "westcn", "volcengine", "baidu"}

Arrival(c) ==
    \/ \E v \in Value, line \in {""} \cup (IF KnowsLines THEN Line ELSE {}) :
         \/ Begin(c, "create", NoRecord, v, line)
         \/ \E t \in Call : Begin(c, "update", t, v, line)
    \/ \E t \in Call : Begin(c, "delete", t, NoRecord, "")
    \/ Begin(c, "zones", NoRecord, NoRecord, "")

ListZones(c) ==
    \/ CloudflareListZones(c) \/ DnspodListZones(c) \/ AliyunListZones(c)
    \/ WestcnListZones(c) \/ HuaweicloudListZones(c) \/ JdcloudListZones(c)
    \/ XinnetListZones(c) \/ DnslaListZones(c) \/ VolcengineListZones(c) \/ BaiduListZones(c)

CreateRecord(c) ==
    \/ CloudflareCreate(c) \/ DnspodCreate(c) \/ AliyunCreate(c) \/ WestcnCreate(c)
    \/ HuaweicloudCreate(c) \/ JdcloudCreate(c) \/ XinnetCreate(c) \/ DnslaCreate(c)
    \/ VolcengineCreate(c) \/ BaiduListBefore(c) \/ BaiduCreate(c) \/ BaiduFindNew(c)

UpdateRecord(c) ==
    \/ CloudflareUpdate(c) \/ DnspodUpdate(c) \/ AliyunUpdate(c) \/ WestcnUpdate(c)
    \/ HuaweicloudUpdate(c) \/ JdcloudUpdate(c) \/ XinnetUpdate(c) \/ DnslaUpdate(c)
    \/ VolcengineUpdate(c) \/ BaiduUpdate(c)

DeleteRecord(c) ==
    \/ CloudflareDelete(c) \/ DnspodDelete(c) \/ AliyunDelete(c) \/ WestcnDelete(c)
    \/ HuaweicloudDelete(c) \/ JdcloudDelete(c) \/ XinnetDelete(c) \/ DnslaDelete(c)
    \/ VolcengineDelete(c) \/ BaiduDelete(c)

Next ==
    \/ \E c \in Call :
         \/ Arrival(c)
         \/ ListZones(c) \/ CreateRecord(c) \/ UpdateRecord(c) \/ DeleteRecord(c)
         \/ Receive(c) \/ GiveUp(c)
         \/ Execute(c) \/ Refuse(c)
    \/ \E i \in Call : Show(i)

Spec == Init /\ [][Next]_vars

-----------------------------------------------------------------------------
(* Properties *)

Lines == Line \cup {"default", "omitted", "nothing", ""}

(* Every variable has its type; in particular Baidu's creation looks for *)
(* its record three times and no more.                                   *)
TypeOK ==
    /\ provider \in Provider /\ trails \in BOOLEAN
    /\ zone \in [Call -> Record \cup {NoRecord}]
    /\ listed \subseteq Call /\ executed \subseteq Call
    /\ call \in [Call ->
         [pc : {"idle", "begin", "create", "wait", "find", "done"},
          op : {"none", "create", "update", "delete", "zones"},
          target : Call \cup {NoRecord}, value : Value \cup {NoRecord}, line : Lines,
          since : SUBSET Call, sent : Lines, answer : Answer \cup {NoAnswer},
          before : SUBSET Call, attempt : 0..2, result : {"none", "ok", "error"},
          id : Call \cup {NoRecord}]]

(* What a caller sees of a call: what it asked, and how it was answered. *)
AskedOf(c) == [op |-> call[c].op, target |-> call[c].target, value |-> call[c].value,
               since |-> call[c].since]
IsOf(c) == IF call[c].result # "none" THEN call[c].result
           ELSE IF At(c, "idle") THEN "none" ELSE "open"
ResultOf(c) == [is |-> IsOf(c), id |-> call[c].id]
ValueOf(i) == IF zone[i] = NoRecord THEN NoRecord ELSE zone[i].value

ZoneBar == [i \in Call |-> ValueOf(i)]
AskedBar == [c \in Call |-> AskedOf(c)]
ResultBar == [c \in Call |-> ResultOf(c)]

(* What Records assumes of every provider: success only for what was       *)
(* executed, and a creation is not given the name of a record that was     *)
(* already known, although Baidu finds it by comparing two listings        *)
(* (dns/providers/baidu.go:149-177).                                       *)
Abstract == INSTANCE Zone WITH zone <- ZoneBar, asked <- AskedBar, result <- ResultBar

ImplementsZone == Abstract!Spec

(* When listings show what was written, a creation is given the name of    *)
(* the record it created, also when identical creations overlap: the       *)
(* ambiguous ones fail (baidu.go:165-168).                                 *)
OwnRecord ==
    \A c \in Call :
      ~trails /\ call[c].op = "create" /\ call[c].result = "ok" => call[c].id = c

(* An update that gives no line does not move a Volcengine record to       *)
(* another line (volcengine.go:112-122: the line is asked for and written  *)
(* back), unless there is another update of the record that was not over   *)
(* when this one began.                                                    *)
LineIsKept ==
    [][\A c \in Call :
         LET t == call[c].target IN
         /\ provider = "volcengine" /\ call[c].op = "update" /\ call[c].line = ""
         /\ c \in executed' \ executed
         => \/ zone'[t].line = zone[t].line
            \/ \E d \in Call \ (call[c].since \cup {c}) :
                 call[d].op = "update" /\ call[d].target = t]_vars
============================================================================
