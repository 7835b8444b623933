------------------------------ MODULE Records ------------------------------
(***************************************************************************)
(* record.Service: subdomains and DNS records kept in two places, the      *)
(* database and the zone at the DNS provider, by requests that overlap,    *)
(* fail half-way and crash (record/service.go).                            *)
(*                                                                         *)
(* One action is one statement or one provider call.  A creation charges   *)
(* its user and calls the provider inside one database transaction: the    *)
(* charge keeps the user's row, the subdomain its full_domain, until the   *)
(* transaction ends.  The checks before the transaction, and all of        *)
(* UpdateRecord and DeleteRecord, run on their own.  What is staged in a   *)
(* transaction is published by its last action.  SQLite's single writer    *)
(* only removes behaviours or adds the failures that Fail already allows,  *)
(* so one model stands for the three databases; the ledger behind a charge *)
(* is the subject of Billing.                                              *)
(***************************************************************************)
EXTENDS Integers, FiniteSets

CONSTANTS
    User,       \* the accounts
    Admin,      \* those with role admin
    Name,       \* subdomain prefixes of the one root domain modelled
    Value,      \* record values
    Request,    \* HTTP requests, each served once
    Cost,       \* domain.PointsCost
    Balance,    \* the points every user starts with
    HasTTL,     \* domain.SubdomainTTLDays > 0
    NoRow       \* an absent row

ASSUME RecordsAssumption ==
    /\ Admin \subseteq User
    /\ Cost \in Nat /\ Balance \in Nat
    /\ HasTTL \in BOOLEAN

(* The rows a request inserts, and the record it creates at the provider,  *)
(* are identified by the request: auto-increment and provider ids are fresh. *)
SubRow == [user : User, name : Name, active : BOOLEAN, lapsed : BOOLEAN]
RecordRow == [user : User, sub : Request, value : Value]

ASSUME NoRowAssumption == NoRow \notin SubRow \cup RecordRow \cup Value

Resource == ({"user"} \X User) \cup ({"name"} \X Name)

VARIABLES
    domain,    \* the root domain's row: "active" or "deleted"
    points,    \* users.points
    subs,      \* table subdomains; lapsed: expires_at has passed
    records,   \* table records
    zone,      \* at the provider: the value of the record a request created
    req,       \* per request: its program counter, arguments and locals
    locks      \* per request: what its open transaction holds

tables == <<domain, points, subs, records>>
vars == <<tables, zone, req, locks>>

-----------------------------------------------------------------------------
Idle == [pc |-> "idle", kind |-> "none", user |-> NoRow, target |-> NoRow, name |-> NoRow,
         value |-> NoRow, seen |-> NoRow, listed |-> {}, cleaned |-> FALSE, asked |-> FALSE,
         earlier |-> {}, answer |-> "none"]

At(r, pc) == req[r].pc = pc

Goto(r, pc) == req' = [req EXCEPT ![r].pc = pc]

(* History, for the properties: the requests answered so far. *)
Answered == {s \in Request : At(s, "done")}

Creating(r) == req[r].kind \in {"bundle", "add"}

(* Defect: the handler returns without ending its transaction. *)
AnswersHolding(r, answer) ==
    /\ req' = [req EXCEPT ![r] = [@ EXCEPT !.pc = "done", !.seen = NoRow, !.answer = answer]]
    /\ UNCHANGED locks

(* The handler returns; its transaction, if open, is over. *)
Answers(r, answer) ==
    /\ req' = [req EXCEPT ![r] = [@ EXCEPT !.pc = "done", !.seen = NoRow, !.answer = answer]]
    /\ locks' = [locks EXCEPT ![r] = {}]

Refused(r) == Answers(r, "refused") /\ UNCHANGED <<tables, zone>>

Free(r, x) == \A s \in Request \ {r} : x \notin locks[s]

Takes(r, x) ==
    /\ Free(r, x)
    /\ locks' = [locks EXCEPT ![r] = @ \cup {x}]

(* Defect: any user is let through. *)
MayTouchAny(r, owner) == TRUE

(* The requester owns the row or is an administrator. *)
MayTouch(r, owner) == req[r].user = owner \/ req[r].user \in Admin

IsExpired(sub) == sub.lapsed /\ sub.active

(* checkExpired: an expired subdomain is disabled on the spot. *)
DisableIfExpired(s) ==
    subs' = [subs EXCEPT ![s] = IF @ # NoRow /\ IsExpired(@) THEN [@ EXCEPT !.active = FALSE] ELSE @]

Arrives(r, args) ==
    /\ At(r, "idle")
    /\ req' = [req EXCEPT ![r] = args]
    /\ UNCHANGED <<tables, zone, locks>>

-----------------------------------------------------------------------------
(* CreateBundle and AddRecord *)

CreateBundle(r, u, n, v) ==
    Arrives(r, [Idle EXCEPT !.pc = "check", !.kind = "bundle", !.user = u, !.name = n,
                            !.target = r, !.value = v])

AddRecord(r, u, s, v) ==
    Arrives(r, [Idle EXCEPT !.pc = "check", !.kind = "add", !.user = u, !.target = s,
                            !.value = v])

(* The domain is there and active and the name is not taken; nothing is    *)
(* locked.  Bad input, a type the domain does not allow or a provider that *)
(* cannot be configured refuse the request as well.                        *)
CheckBundle(r) ==
    /\ At(r, "check") /\ req[r].kind = "bundle"
    /\ \/ Refused(r)
       \/ /\ domain = "active"
          /\ \A s \in Request : subs[s] # NoRow => subs[s].name # req[r].name
          /\ Goto(r, "charge")
          /\ UNCHANGED <<tables, zone, locks>>

(* The subdomain is there, the requester's and active; an expired one is   *)
(* disabled and refused.  The row is not locked.                           *)
CheckAdd(r) ==
    LET s == req[r].target IN
    /\ At(r, "check") /\ req[r].kind = "add"
    /\ \/ /\ subs[s] # NoRow => ~MayTouch(r, subs[s].user) \/ ~IsExpired(subs[s])
          /\ Refused(r)
       \/ /\ subs[s] # NoRow /\ MayTouch(r, subs[s].user) /\ IsExpired(subs[s])
          /\ DisableIfExpired(s)
          /\ Answers(r, "refused")
          /\ UNCHANGED <<domain, points, records, zone>>
       \/ /\ subs[s] # NoRow /\ MayTouch(r, subs[s].user)
          /\ subs[s].active /\ ~IsExpired(subs[s])
          /\ domain # "deleted"
          /\ req' = [req EXCEPT ![r] = [@ EXCEPT !.pc = "charge", !.seen = subs[s]]]
          /\ UNCHANGED <<tables, zone, locks>>

AfterCharge(r) == IF req[r].kind = "bundle" THEN "insertSub" ELSE "callCreate"

(* Defect: the charge is written outside the transaction. *)
ChargeOutsideTx(r) ==
    /\ At(r, "charge")
    /\ IF points[req[r].user] < Cost
       THEN Refused(r)
       ELSE /\ points' = [points EXCEPT ![req[r].user] = @ - Cost]
            /\ Goto(r, AfterCharge(r))
            /\ UNCHANGED <<domain, subs, records, zone, locks>>

(* Defect: the balance is not compared with the cost. *)
ChargeOverdrawn(r) ==
    /\ At(r, "charge")
    /\ Takes(r, <<"user", req[r].user>>)
    /\ Goto(r, AfterCharge(r))
    /\ UNCHANGED <<tables, zone>>

(* The transaction begins with the charge: the caller pays, also when an   *)
(* administrator adds to another user's subdomain.                         *)
ChargeUser(r) ==
    LET u == req[r].user IN
    /\ At(r, "charge")
    /\ IF Cost = 0
       THEN /\ Goto(r, AfterCharge(r))
            /\ UNCHANGED <<tables, zone, locks>>
       ELSE /\ Free(r, <<"user", u>>)
            /\ IF points[u] < Cost
               THEN Refused(r)
               ELSE /\ Takes(r, <<"user", u>>)
                    /\ Goto(r, AfterCharge(r))
                    /\ UNCHANGED <<tables, zone>>

(* Defect: full_domain has no unique index. *)
InsertSubNoIndex(r) ==
    /\ At(r, "insertSub")
    /\ Goto(r, "callCreate")
    /\ UNCHANGED <<tables, zone, locks>>

(* The unique index on full_domain decides between creations of one name. *)
InsertSub(r) ==
    LET n == req[r].name IN
    /\ At(r, "insertSub")
    /\ Free(r, <<"name", n>>)
    /\ IF \E s \in Request : subs[s] # NoRow /\ subs[s].name = n
       THEN Refused(r)
       ELSE /\ Takes(r, <<"name", n>>)
            /\ Goto(r, "callCreate")
            /\ UNCHANGED <<tables, zone>>

(* Defect: an upstream error is taken for success. *)
CallCreateUnchecked(r) ==
    /\ At(r, "callCreate")
    /\ \E done \in BOOLEAN : zone' = IF done THEN [zone EXCEPT ![r] = req[r].value] ELSE zone
    /\ Goto(r, "insertRecord")
    /\ UNCHANGED <<tables, locks>>

(* The provider creates the record, refuses, or does not answer within 25 s *)
(* although it created it.                                                 *)
CallCreate(r) ==
    /\ At(r, "callCreate")
    /\ \/ /\ zone' = [zone EXCEPT ![r] = req[r].value]
          /\ Goto(r, "insertRecord")
          /\ UNCHANGED locks
       \/ /\ Answers(r, "upstream")
          /\ \E done \in BOOLEAN :
                zone' = IF done THEN [zone EXCEPT ![r] = req[r].value] ELSE zone
    /\ UNCHANGED tables

(* The record row is inserted and the transaction commits: charge, *)
(* subdomain and record become visible together.                   *)
CommitBundle(r) ==
    /\ At(r, "insertRecord") /\ req[r].kind = "bundle"
    /\ subs' = [subs EXCEPT ![r] = [user |-> req[r].user, name |-> req[r].name,
                                    active |-> TRUE, lapsed |-> FALSE]]
    /\ records' = [records EXCEPT ![r] = [user |-> req[r].user, sub |-> r,
                                          value |-> req[r].value]]
    /\ points' = [points EXCEPT ![req[r].user] = @ - Cost]
    /\ Answers(r, "ok")
    /\ UNCHANGED <<domain, zone>>

(* The record belongs to the owner of the subdomain that was read. *)
CommitAdd(r) ==
    /\ At(r, "insertRecord") /\ req[r].kind = "add"
    /\ records' = [records EXCEPT ![r] = [user |-> req[r].seen.user, sub |-> req[r].target,
                                          value |-> req[r].value]]
    /\ points' = [points EXCEPT ![req[r].user] = @ - Cost]
    /\ Answers(r, "ok")
    /\ UNCHANGED <<domain, subs, zone>>

(* The insert fails: CreateBundle tries to delete the remote record, which *)
(* may fail unnoticed.                                                     *)
BundleInsertFails(r) ==
    /\ At(r, "insertRecord") /\ req[r].kind = "bundle"
    /\ \E left \in {zone[r], NoRow} : zone' = [zone EXCEPT ![r] = left]
    /\ req' = [req EXCEPT ![r] = [@ EXCEPT !.pc = "done", !.cleaned = TRUE, !.answer = "save"]]
    /\ locks' = [locks EXCEPT ![r] = {}]
    /\ UNCHANGED tables

(* The insert fails: AddRecord returns the error. *)
AddInsertFails(r) ==
    /\ At(r, "insertRecord") /\ req[r].kind = "add"
    /\ Answers(r, "save")
    /\ UNCHANGED <<tables, zone>>

-----------------------------------------------------------------------------
(* UpdateRecord and DeleteRecord *)

UpdateRecord(r, u, rec, v) ==
    Arrives(r, [Idle EXCEPT !.pc = "check", !.kind = "update", !.user = u, !.target = rec,
                            !.value = v, !.earlier = Answered])

DeleteRecord(r, u, rec) ==
    Arrives(r, [Idle EXCEPT !.pc = "check", !.kind = "delete", !.user = u, !.target = rec,
                            !.earlier = Answered])

(* The row is read and the requester checked; the subdomain may be missing, *)
(* and only an active one counts as expired.                                *)
CheckRecord(r) ==
    LET rec == records[req[r].target]
        sub == subs[rec.sub] IN
    /\ At(r, "check") /\ req[r].kind \in {"update", "delete"}
    /\ \/ /\ rec # NoRow => ~MayTouch(r, rec.user) \/ sub = NoRow \/ ~IsExpired(sub)
          /\ Refused(r)
       \/ /\ rec # NoRow /\ MayTouch(r, rec.user) /\ sub # NoRow /\ IsExpired(sub)
          /\ DisableIfExpired(rec.sub)
          /\ Answers(r, "refused")
          /\ UNCHANGED <<domain, points, records, zone>>
       \/ /\ rec # NoRow /\ MayTouch(r, rec.user)
          /\ sub # NoRow => ~IsExpired(sub)
          /\ domain # "deleted"
          /\ req' = [req EXCEPT ![r] = [@ EXCEPT !.pc = "call", !.seen = rec]]
          /\ UNCHANGED <<tables, zone, locks>>

(* Defect: an upstream error is taken for success. *)
CallUpdateUnchecked(r) ==
    LET i == req[r].target IN
    /\ At(r, "call") /\ req[r].kind = "update"
    /\ zone' \in IF zone[i] = NoRow THEN {zone} ELSE {zone, [zone EXCEPT ![i] = req[r].value]}
    /\ Goto(r, "save")
    /\ UNCHANGED <<tables, locks>>

(* The provider updates the record it knows, or answers with an error, the *)
(* update made or not.                                                     *)
CallUpdate(r) ==
    LET i == req[r].target
        updated == [zone EXCEPT ![i] = req[r].value] IN
    /\ At(r, "call") /\ req[r].kind = "update"
    /\ \/ /\ zone[i] # NoRow
          /\ zone' = updated
          /\ Goto(r, "save")
          /\ UNCHANGED locks
       \/ /\ zone' \in IF zone[i] = NoRow THEN {zone} ELSE {zone, updated}
          /\ Answers(r, "upstream")
    /\ UNCHANGED tables

(* gorm's Save writes the whole row that was read, and inserts it when it  *)
(* is no longer there.                                                     *)
SaveRecord(r) ==
    /\ At(r, "save")
    /\ \/ /\ records' = [records EXCEPT ![req[r].target] =
                           [req[r].seen EXCEPT !.value = req[r].value]]
          /\ Answers(r, "ok")
       \/ /\ UNCHANGED records
          /\ Answers(r, "save")
    /\ UNCHANGED <<domain, points, subs, zone>>

(* The provider is asked to delete; the request goes on (asked: history). *)
AsksThenGoto(r, pc) == req' = [req EXCEPT ![r] = [@ EXCEPT !.pc = pc, !.asked = TRUE]]

(* Defect: an upstream error does not stop the deletion. *)
CallDeleteIgnored(r) ==
    LET i == req[r].target IN
    /\ At(r, "call") /\ req[r].kind = "delete"
    /\ zone' \in {zone, [zone EXCEPT ![i] = NoRow]}
    /\ AsksThenGoto(r, "remove")
    /\ UNCHANGED <<tables, locks>>

(* The provider deletes the record or answers with an error, which ends the *)
(* request; of a record it does not know it may say either.                 *)
CallDelete(r) ==
    LET deleted == [zone EXCEPT ![req[r].target] = NoRow] IN
    /\ At(r, "call") /\ req[r].kind = "delete"
    /\ \/ /\ zone' = deleted
          /\ AsksThenGoto(r, "remove")
          /\ UNCHANGED locks
       \/ /\ zone' \in {zone, deleted}
          /\ req' = [req EXCEPT ![r] = [@ EXCEPT !.pc = "done", !.seen = NoRow, !.asked = TRUE,
                                                !.answer = "upstream"]]
          /\ locks' = [locks EXCEPT ![r] = {}]
    /\ UNCHANGED tables

RemoveRecord(r) ==
    /\ At(r, "remove")
    /\ \/ /\ records' = [records EXCEPT ![req[r].target] = NoRow]
          /\ Answers(r, "ok")
       \/ /\ UNCHANGED records
          /\ Answers(r, "save")
    /\ UNCHANGED <<domain, points, subs, zone>>

-----------------------------------------------------------------------------
(* DeleteSubdomain *)

DeleteSubdomain(r, u, s) ==
    Arrives(r, [Idle EXCEPT !.pc = "check", !.kind = "deleteSub", !.user = u, !.target = s,
                            !.earlier = Answered])

(* An expired subdomain is disabled; only an administrator goes on. *)
CheckDeleteSub(r) ==
    LET s == req[r].target
        allowed == subs[s] # NoRow /\ MayTouch(r, subs[s].user) IN
    /\ At(r, "check") /\ req[r].kind = "deleteSub"
    /\ IF ~allowed
       THEN Refused(r)
       ELSE /\ DisableIfExpired(s)
            /\ IF IsExpired(subs[s]) /\ req[r].user \notin Admin
               THEN Answers(r, "refused")
               ELSE Goto(r, "list") /\ UNCHANGED locks
            /\ UNCHANGED <<domain, points, records, zone>>

(* The record rows are listed before the transaction that deletes them. *)
ListRecords(r) ==
    /\ At(r, "list")
    /\ \/ Refused(r)
       \/ /\ domain # "deleted"
          /\ req' = [req EXCEPT ![r] = [@ EXCEPT
                       !.pc = "callDeletes",
                       !.listed = {i \in Request : /\ records[i] # NoRow
                                                   /\ records[i].sub = req[r].target}]]
          /\ UNCHANGED <<tables, zone, locks>>

(* Every listed remote record is asked to go; errors are ignored. *)
CallDeletes(r) ==
    /\ At(r, "callDeletes")
    /\ \E gone \in SUBSET req[r].listed :
         zone' = [i \in Request |-> IF i \in gone THEN NoRow ELSE zone[i]]
    /\ AsksThenGoto(r, "removeSub")
    /\ UNCHANGED <<tables, locks>>

(* Defect: the subdomain goes, its rows stay. *)
RemoveSubdomainOnly(r) ==
    /\ At(r, "removeSub")
    /\ subs' = [subs EXCEPT ![req[r].target] = NoRow]
    /\ Answers(r, "ok")
    /\ UNCHANGED <<domain, points, records, zone>>

(* The listed rows and the subdomain go in one commit. *)
RemoveSubdomain(r) ==
    /\ At(r, "removeSub")
    /\ \/ /\ records' = [i \in Request |-> IF i \in req[r].listed THEN NoRow ELSE records[i]]
          /\ subs' = [subs EXCEPT ![req[r].target] = NoRow]
          /\ Answers(r, "ok")
       \/ /\ UNCHANGED <<records, subs>>
          /\ Answers(r, "save")
    /\ UNCHANGED <<domain, points, zone>>

-----------------------------------------------------------------------------
(* A crash of the process, or a commit that fails: the open transaction is  *)
(* rolled back, what the provider did stays.                                *)
Fail(r) ==
    /\ req[r].pc \notin {"idle", "done"}
    /\ Answers(r, "lost")
    /\ UNCHANGED <<tables, zone>>

(* expires_at of a subdomain passes. *)
Lapse(s) ==
    /\ HasTTL
    /\ subs[s] # NoRow /\ ~subs[s].lapsed
    /\ subs' = [subs EXCEPT ![s].lapsed = TRUE]
    /\ UNCHANGED <<domain, points, records, zone, req, locks>>

(* An administrator deletes the root domain: its row and nothing else. *)
DeleteDomain ==
    /\ domain = "active"
    /\ domain' = "deleted"
    /\ UNCHANGED <<points, subs, records, zone, req, locks>>

Init ==
    /\ domain = "active"
    /\ points = [u \in User |-> Balance]
    /\ subs = [s \in Request |-> NoRow]
    /\ records = [i \in Request |-> NoRow]
    /\ zone = [i \in Request |-> NoRow]
    /\ req = [r \in Request |-> Idle]
    /\ locks = [r \in Request |-> {}]

Arrival(r) ==
    \E u \in User :
      \/ \E n \in Name, v \in Value : CreateBundle(r, u, n, v)
      \/ \E s \in Request, v \in Value : subs[s] # NoRow /\ AddRecord(r, u, s, v)
      \/ \E i \in Request, v \in Value : records[i] # NoRow /\ UpdateRecord(r, u, i, v)
      \/ \E i \in Request : records[i] # NoRow /\ DeleteRecord(r, u, i)
      \/ \E s \in Request : subs[s] # NoRow /\ DeleteSubdomain(r, u, s)

Step(r) ==
    \/ CheckBundle(r) \/ CheckAdd(r) \/ ChargeUser(r) \/ InsertSub(r) \/ CallCreate(r)
    \/ CommitBundle(r) \/ CommitAdd(r) \/ BundleInsertFails(r) \/ AddInsertFails(r)
    \/ CheckRecord(r) \/ CallUpdate(r) \/ SaveRecord(r) \/ CallDelete(r) \/ RemoveRecord(r)
    \/ CheckDeleteSub(r) \/ ListRecords(r) \/ CallDeletes(r) \/ RemoveSubdomain(r)

Next ==
    \/ \E r \in Request : Arrival(r) \/ Step(r) \/ Fail(r)
    \/ \E s \in Request : Lapse(s)
    \/ DeleteDomain

Spec == Init /\ [][Next]_vars

(* A goroutine goes on: provider calls carry a deadline, locks are waited for. *)
FairSpec == Spec /\ \A r \in Request : WF_vars(Step(r))

-----------------------------------------------------------------------------
(* Properties *)

Req == [pc : {"idle", "check", "charge", "insertSub", "callCreate", "insertRecord", "call",
              "save", "remove", "list", "callDeletes", "removeSub", "done"},
        kind : {"none", "bundle", "add", "update", "delete", "deleteSub"},
        user : User \cup {NoRow}, target : Request \cup {NoRow}, name : Name \cup {NoRow},
        value : Value \cup {NoRow}, seen : SubRow \cup RecordRow \cup {NoRow},
        listed : SUBSET Request, cleaned : BOOLEAN, asked : BOOLEAN, earlier : SUBSET Request,
        answer : {"none", "ok", "refused", "upstream", "save", "lost"}]

(* Every variable has its type; in particular no balance goes below zero. *)
TypeOK ==
    /\ domain \in {"active", "deleted"}
    /\ points \in [User -> Nat]
    /\ subs \in [Request -> SubRow \cup {NoRow}]
    /\ records \in [Request -> RecordRow \cup {NoRow}]
    /\ zone \in [Request -> Value \cup {NoRow}]
    /\ req \in [Request -> Req]
    /\ locks \in [Request -> SUBSET Resource]

Created(u) == {r \in Request : Creating(r) /\ req[r].user = u /\ req[r].answer = "ok"}

(* A user has paid for its acknowledged creations and for nothing else:    *)
(* not for a creation that the provider refused, that lost a race for the  *)
(* name or that crashed, nor twice, nor for updates and deletions          *)
(* (docs/usage.md:16-18, record/service.go:105-110).                       *)
ChargedForCreations ==
    \A u \in User : points[u] = Balance - Cost * Cardinality(Created(u))

(* Two subdomains never share a full domain, although the check for it     *)
(* (record/service.go:79-86) is made before the transaction.               *)
FullDomainUnique ==
    \A s, t \in Request :
      s # t /\ subs[s] # NoRow /\ subs[t] # NoRow => subs[s].name # subs[t].name

(* The provider was asked by r to delete the record of i. *)
AskedToDelete(r, i) ==
    /\ req[r].asked
    /\ (req[r].kind = "delete" /\ req[r].target = i) \/ i \in req[r].listed

Overlap(r, s) == r \notin req[s].earlier /\ s \notin req[r].earlier

(* A row is in the database without its record at the provider only when   *)
(* the provider was asked to delete that record by a request of the row's  *)
(* owner or of an administrator, one that is not acknowledged, or one that *)
(* is while an update that overlapped it wrote the row back                *)
(* (record/service.go:329).  In particular no creation is acknowledged for *)
(* a record the provider does not have (127-149).                          *)
RecordHasUpstream ==
    \A i \in Request :
      records[i] # NoRow /\ zone[i] = NoRow =>
        \E r \in Request :
          /\ AskedToDelete(r, i)
          /\ req[r].user = records[i].user \/ req[r].user \in Admin
          /\ \/ req[r].answer # "ok"
             \/ \E u \in Request : /\ req[u].kind = "update" /\ req[u].target = i
                                   /\ req[u].answer = "ok" /\ Overlap(r, u)

(* A record resolves without a row only while its creation is at work or   *)
(* after one that failed once the provider had been called, never after a  *)
(* refusal; and a record whose creation was acknowledged, only after an    *)
(* acknowledged DeleteSubdomain, which ignores the provider's errors       *)
(* (record/service.go:127-149, 237-247, 417).  DeleteRecord keeps the row  *)
(* when the provider fails (360-362).                                      *)
LeftoverHasCause ==
    \A i \in Request :
      zone[i] # NoRow /\ records[i] = NoRow =>
        \/ At(i, "insertRecord")
        \/ Creating(i) /\ req[i].answer \in {"upstream", "save", "lost"}
        \/ \E r \in Request :
             req[r].kind = "deleteSub" /\ req[r].answer = "ok" /\ AskedToDelete(r, i)

(* The value in the database and the value that resolves differ only while *)
(* an update is under way, after one that failed, or after two updates of  *)
(* the record that overlapped: they may reach the provider and the         *)
(* database in different orders (record/service.go:312-329 takes no lock). *)
(* Updates that come one after the other leave the copies equal, however   *)
(* many there are.                                                         *)
DivergenceHasCause ==
    \A i \in Request :
      records[i] # NoRow /\ zone[i] # NoRow /\ records[i].value # zone[i] =>
        LET updates == {r \in Request : req[r].kind = "update" /\ req[r].target = i} IN
        \/ \E r \in updates : req[r].answer # "ok"
        \/ \E r, s \in updates : r # s /\ Overlap(r, s)

(* A record row whose subdomain is gone was not there when the deletion of *)
(* the subdomain listed the rows (record/service.go:401), or was written   *)
(* back by an update that had read it before (329).                        *)
OrphanHasCause ==
    \A i \in Request :
      records[i] # NoRow /\ subs[records[i].sub] = NoRow =>
        \E r \in Request :
          /\ req[r].kind = "deleteSub" /\ req[r].target = records[i].sub
          /\ req[r].answer = "ok"
          /\ \/ i \notin req[r].listed
             \/ \E u \in Request : /\ req[u].kind = "update" /\ req[u].target = i
                                   /\ req[u].answer = "ok"

(* A row changes or goes only by a request of its owner or of an           *)
(* administrator, whatever happened since that request was checked         *)
(* (docs/usage.md:19).                                                     *)
OnlyOwnerOrAdmin ==
    [][\A i \in Request :
         records[i] # NoRow /\ records'[i] # records[i] =>
           \E r \in Request : /\ req'[r] # req[r]
                              /\ \/ req[r].user = records[i].user
                                 \/ req[r].user \in Admin]_vars

(* Requests that hold rows over a provider call never block one another    *)
(* for ever: each is answered.                                             *)
EveryRequestIsAnswered ==
    \A r \in Request : (req[r].pc # "idle") ~> (req[r].pc = "done")

(* When a creation cannot be saved, deleting the remote record is          *)
(* attempted (docs/architecture.md:113).  AddRecord does not attempt it.   *)
SaveFailureIsCompensated ==
    \A r \in Request : Creating(r) /\ req[r].answer = "save" => req[r].cleaned

(* The records of an expired subdomain cannot be changed through the API   *)
(* ("subdomain has expired", record/service.go:175).  The refusal disables *)
(* the subdomain, after which it no longer counts as expired               *)
(* (models/models.go:71) and the next attempt goes through.                *)
ExpiredIsRefused ==
    [][\A r \in Request :
         At(r, "check") /\ req'[r].pc = "call" =>
           LET sub == subs[records[req[r].target].sub] IN sub # NoRow => ~sub.lapsed]_vars
============================================================================
