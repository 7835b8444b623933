-------------------------- MODULE Records_proofs --------------------------
(***************************************************************************)
(* Proofs about Records, for any number of users, names, values and        *)
(* requests and any cost.                                                  *)
(*                                                                         *)
(* The argument: a creation keeps its user's row and its name until it is  *)
(* acknowledged, and nobody else can name its remote record before that;   *)
(* afterwards the owner of the record and of its subdomain never change,   *)
(* and a remote record that is gone does not come back.  So what a request *)
(* established when it was checked still holds when it writes.  At the end *)
(* of the module, what has become of a record is traced back to the        *)
(* updates and deletions that could have done it: its values, its          *)
(* subdomain, and the row or the remote record that is missing.            *)
(***************************************************************************)
EXTENDS Records, FiniteSetTheorems, TLAPS

(* The creation i was acknowledged: its row was committed. *)
Acked(i) == Creating(i) /\ req[i].answer = "ok"

(* The owner of the subdomain a creation belongs to; of a bundle, itself. *)
Owner(i) == req[req[i].target].user

(* What a program counter says of the kind of a request. *)
PcInv(r) ==
    /\ req[r].pc = "idle" => req[r] = Idle
    /\ req[r].answer = "none" <=> req[r].pc # "done"
    /\ req[r].pc # "idle" => req[r].kind # "none" /\ req[r].user \in User
    /\ req[r].pc \in {"charge", "callCreate", "insertRecord"} => Creating(r)
    /\ req[r].pc = "insertSub" => req[r].kind = "bundle"
    /\ req[r].pc = "call" => req[r].kind \in {"update", "delete"}
    /\ req[r].pc = "save" => req[r].kind = "update"
    /\ req[r].pc = "remove" => req[r].kind = "delete"
    /\ req[r].pc \in {"list", "callDeletes", "removeSub"} => req[r].kind = "deleteSub"
    /\ req[r].listed # {} => req[r].pc \in {"callDeletes", "removeSub", "done"}

(* What a request names was created and acknowledged before it arrived. *)
ArgsInv(r) ==
    /\ req[r].kind = "bundle" =>
         req[r].target = r /\ req[r].name \in Name /\ req[r].value \in Value
    /\ req[r].kind \in {"add", "deleteSub"} =>
         /\ req[r].target \in Request
         /\ Acked(req[r].target) /\ req[req[r].target].kind = "bundle"
    /\ req[r].kind \in {"update", "delete"} =>
         req[r].target \in Request /\ Acked(req[r].target)
    /\ req[r].kind \in {"add", "update"} => req[r].value \in Value
    /\ \A i \in req[r].listed :
         req[r].kind = "deleteSub" /\ Acked(i) /\ req[i].target = req[r].target

(* What a creation in progress holds protects what it has established. *)
HoldInv(r) ==
    /\ Cost # 0 /\ req[r].pc \in {"insertSub", "callCreate", "insertRecord"} =>
         <<"user", req[r].user>> \in locks[r] /\ points[req[r].user] >= Cost
    /\ req[r].kind = "bundle" /\ req[r].pc \in {"callCreate", "insertRecord"} =>
         /\ <<"name", req[r].name>> \in locks[r]
         /\ \A s \in Request : subs[s] # NoRow => subs[s].name # req[r].name
    /\ req[r].pc = "insertRecord" => zone[r] = req[r].value

(* What a request was allowed when it was checked it is still allowed. *)
SeenInv(r) ==
    /\ req[r].kind = "add" /\ req[r].pc \in {"charge", "callCreate", "insertRecord"} =>
         req[r].seen \in SubRow /\ req[r].seen.user = req[req[r].target].user
    /\ req[r].pc \in {"call", "save", "remove"} =>
         /\ req[r].seen \in RecordRow
         /\ req[r].seen.sub = req[req[r].target].target
         /\ req[r].seen.user = Owner(req[r].target)
         /\ MayTouch(r, Owner(req[r].target))
    /\ req[r].pc = "remove" => zone[req[r].target] = NoRow
    /\ req[r].pc \in {"list", "callDeletes", "removeSub"} =>
         MayTouch(r, req[req[r].target].user)

ReqInv(r) == PcInv(r) /\ ArgsInv(r) /\ HoldInv(r) /\ SeenInv(r)

(* Nothing is held by two requests. *)
HeldOnce == \A r, s \in Request : r # s => locks[r] \cap locks[s] = {}

(* A row belongs to the acknowledged creation that inserted it. *)
RowsInv ==
    /\ \A i \in Request : records[i] # NoRow =>
         Acked(i) /\ records[i].sub = req[i].target /\ records[i].user = Owner(i)
    /\ \A s \in Request : subs[s] # NoRow =>
         Acked(s) /\ req[s].kind = "bundle" /\ subs[s].user = req[s].user

IInv ==
    /\ TypeOK
    /\ \A r \in Request : ReqInv(r)
    /\ HeldOnce
    /\ RowsInv
    /\ FullDomainUnique

-----------------------------------------------------------------------------
(* A subdomain's creation is acknowledged, and its own parent. *)
LEMMA ParentAcked ==
  ASSUME IInv, NEW i \in Request, Acked(i)
  PROVE  req[i].target \in Request /\ Acked(req[i].target)
<1>1. ArgsInv(i) BY DEF IInv, ReqInv
<1>2. CASE req[i].kind = "bundle" BY <1>1, <1>2 DEF ArgsInv
<1>3. CASE req[i].kind = "add" BY <1>1, <1>3 DEF ArgsInv
<1> QED BY <1>2, <1>3 DEF Acked, Creating

SameArgs(r) ==
    /\ req'[r].kind = req[r].kind /\ req'[r].user = req[r].user
    /\ req'[r].target = req[r].target
    /\ req'[r].name = req[r].name /\ req'[r].value = req[r].value
    /\ req'[r].earlier = req[r].earlier

(* What a step of r never does to the other requests. *)
Leaves(r) ==
    /\ req[r].pc # "done"
    /\ req[r].pc # "idle" => SameArgs(r)
    /\ \A s \in Request \ {r} : req'[s] = req[s] /\ locks'[s] = locks[s]
    /\ \A u \in User : points'[u] # points[u] => Cost # 0 /\ <<"user", u>> \in locks[r]
    /\ \A s \in Request : subs'[s] # NoRow =>
         \/ subs[s] # NoRow /\ subs'[s].name = subs[s].name
         \/ <<"name", subs'[s].name>> \in locks[r]
    /\ \A i \in Request : zone'[i] # zone[i] => i = r \/ (Acked(i) /\ zone[i] # NoRow)

(* An acknowledged creation stays one, with its owner. *)
LEMMA AckedStays ==
  ASSUME IInv, NEW r \in Request, Leaves(r), NEW i \in Request, Acked(i)
  PROVE  Acked(i)' /\ req'[i] = req[i] /\ i # r /\ Owner(i)' = Owner(i)
<1>1. ASSUME NEW j \in Request, Acked(j) PROVE req'[j] = req[j] /\ j # r
  <2>1. PcInv(j) BY DEF IInv, ReqInv
  <2>2. req[j].pc = "done" BY <1>1, <2>1 DEF PcInv, Acked
  <2> QED BY <2>2 DEF Leaves
<1>2. req'[i] = req[i] /\ i # r BY <1>1
<1>3. req[i].target \in Request /\ Acked(req[i].target) BY ParentAcked
<1>4. req'[req[i].target] = req[req[i].target] BY <1>1, <1>3
<1> QED BY <1>2, <1>4 DEF Acked, Creating, Owner

LEMMA OthersKeep ==
  ASSUME IInv, NEW r \in Request, Leaves(r), NEW s \in Request \ {r}
  PROVE  ReqInv(s)'
<1>0. /\ ReqInv(s) /\ req'[s] = req[s] /\ locks'[s] = locks[s]
      /\ req[s] \in Req
  BY DEF IInv, Leaves, TypeOK
<1>1. PcInv(s)' BY <1>0 DEF ReqInv, PcInv, Creating
<1>2. ArgsInv(s)'
  <2>1. CASE req[s].kind = "bundle"
    BY <1>0, <2>1 DEF ReqInv, ArgsInv
  <2>2. CASE req[s].kind # "bundle"
    <3>1. ASSUME NEW i \in Request, Acked(i) PROVE Acked(i)' /\ req'[i] = req[i]
      BY <3>1, AckedStays
    <3>2. \A i \in req[s].listed : i \in Request BY <1>0 DEF Req
    <3> QED BY <1>0, <2>2, <3>1, <3>2 DEF ReqInv, ArgsInv
  <2> QED BY <2>1, <2>2
<1>3. HoldInv(s)'
  <2>1. locks[r] \cap locks[s] = {} BY DEF IInv, HeldOnce
  <2>2. ASSUME Cost # 0, req[s].pc \in {"insertSub", "callCreate", "insertRecord"}
        PROVE  <<"user", req[s].user>> \in locks[s] /\ points'[req[s].user] >= Cost
    <3>1. req[s].user \in User BY <1>0, <2>2 DEF ReqInv, PcInv
    <3> QED BY <1>0, <2>1, <2>2, <3>1 DEF ReqInv, HoldInv, Leaves
  <2>3. ASSUME req[s].kind = "bundle", req[s].pc \in {"callCreate", "insertRecord"},
               NEW t \in Request, subs'[t] # NoRow
        PROVE  subs'[t].name # req[s].name
    <3>1. <<"name", req[s].name>> \notin locks[r]
      BY <1>0, <2>1, <2>3 DEF ReqInv, HoldInv
    <3> QED BY <1>0, <2>3, <3>1 DEF ReqInv, HoldInv, Leaves
  <2>4. ASSUME req[s].pc = "insertRecord" PROVE zone'[s] = zone[s]
    <3>1. ~Acked(s) BY <1>0, <2>4 DEF ReqInv, PcInv, Acked
    <3> QED BY <3>1 DEF Leaves
  <2> QED BY <1>0, <2>2, <2>3, <2>4 DEF ReqInv, HoldInv
<1>4. SeenInv(s)'
  <2>1. ASSUME req[s].kind \in {"add", "update", "delete", "deleteSub"}
        PROVE  /\ req[s].target \in Request /\ Acked(req[s].target)
               /\ req'[req[s].target] = req[req[s].target] /\ req[s].target # r
               /\ Owner(req[s].target)' = Owner(req[s].target)
    <3>1. req[s].target \in Request /\ Acked(req[s].target)
      BY <1>0, <2>1 DEF ReqInv, ArgsInv
    <3> DEFINE i == req[s].target
    <3>2. req'[i] = req[i] /\ i # r /\ Owner(i)' = req'[req[i].target].user
      BY <1>0, <3>1, AckedStays DEF Owner
    <3>3. req'[req[i].target] = req[req[i].target]
      BY <3>1, ParentAcked, AckedStays
    <3> QED BY <3>1, <3>2, <3>3 DEF Owner
  <2>2. req[s].pc \in {"call", "save", "remove", "list", "callDeletes", "removeSub"} =>
          req[s].kind \in {"add", "update", "delete", "deleteSub"}
    BY <1>0 DEF ReqInv, PcInv
  <2>3. ASSUME req[s].pc = "remove" PROVE zone'[req[s].target] = NoRow
    BY <1>0, <2>1, <2>2, <2>3 DEF ReqInv, SeenInv, Leaves
  <2> QED BY <1>0, <2>1, <2>2, <2>3 DEF ReqInv, SeenInv, Owner, MayTouch
<1> QED BY <1>1, <1>2, <1>3, <1>4 DEF ReqInv

-----------------------------------------------------------------------------
(* The frame of a step of r whose new locals are t and whose new locks are S. *)
LEMMA StepKeeps ==
  ASSUME IInv, NEW r \in Request, NEW t \in Req, NEW S \in SUBSET Resource,
         req' = [req EXCEPT ![r] = t], locks' = [locks EXCEPT ![r] = S],
         \A s \in Request \ {r} : S \cap locks[s] = {},
         Leaves(r), ReqInv(r)',
         domain' \in {"active", "deleted"}, points' \in [User -> Nat],
         subs' \in [Request -> SubRow \cup {NoRow}],
         records' \in [Request -> RecordRow \cup {NoRow}],
         zone' \in [Request -> Value \cup {NoRow}],
         RowsInv', FullDomainUnique'
  PROVE  IInv'
<1>1. TypeOK' BY DEF IInv, TypeOK
<1>2. ASSUME NEW s \in Request PROVE ReqInv(s)'
  BY OthersKeep
<1>3. HeldOnce' BY DEF IInv, HeldOnce, TypeOK
<1> QED BY <1>1, <1>2, <1>3 DEF IInv

(* What a step of r may write: a subdomain only loses its row or its status,  *)
(* a record row goes or is the acknowledged creation's, and a remote record   *)
(* is that of r's own creation or changes while it exists.                    *)
SubsWritten ==
    /\ subs' \in [Request -> SubRow \cup {NoRow}]
    /\ \A s \in Request : subs'[s] # NoRow =>
         subs[s] # NoRow /\ subs'[s].user = subs[s].user /\ subs'[s].name = subs[s].name

RecordsWritten ==
    /\ records' \in [Request -> RecordRow \cup {NoRow}]
    /\ \A i \in Request : records'[i] \notin {records[i], NoRow} =>
         Acked(i) /\ records'[i].sub = req[i].target /\ records'[i].user = Owner(i)

ZoneWritten(r) ==
    /\ zone' \in [Request -> Value \cup {NoRow}]
    /\ \A i \in Request : zone'[i] # zone[i] =>
         IF Acked(i) THEN zone[i] # NoRow ELSE i = r

(* A step of r that acknowledges no creation. *)
LEMMA WriteStep ==
  ASSUME IInv, NEW r \in Request, NEW t \in Req, NEW S \in SUBSET Resource,
         req' = [req EXCEPT ![r] = t], locks' = [locks EXCEPT ![r] = S],
         \A s \in Request \ {r} : S \cap locks[s] = {},
         Leaves(r), ReqInv(r)', req[r].listed \subseteq t.listed,
         ~(t.kind \in {"bundle", "add"} /\ t.answer = "ok"),
         UNCHANGED <<domain, points>>, SubsWritten, RecordsWritten, ZoneWritten(r)
  PROVE  IInv'
<1>0. req'[r] = t BY DEF IInv, TypeOK
<1>1. ASSUME NEW i \in Request PROVE Acked(i)' <=> Acked(i)
  <2>1. CASE i = r BY <1>0, <2>1, AckedStays DEF Acked, Creating
  <2>2. CASE i # r BY <2>2 DEF Leaves, Acked, Creating
  <2> QED BY <2>1, <2>2
<1>2. ASSUME NEW i \in Request, Acked(i)
      PROVE  req'[i] = req[i] /\ i # r /\ Owner(i)' = Owner(i)
  BY <1>2, AckedStays
<1>3. RowsInv'
  <2>1. ASSUME NEW i \in Request, records'[i] # NoRow
        PROVE  Acked(i)' /\ records'[i].sub = req'[i].target /\ records'[i].user = Owner(i)'
    <3>1. Acked(i) /\ records'[i].sub = req[i].target /\ records'[i].user = Owner(i)
      <4>1. CASE records'[i] = records[i] BY <2>1, <4>1 DEF IInv, RowsInv
      <4>2. CASE records'[i] # records[i] BY <2>1, <4>2 DEF RecordsWritten
      <4> QED BY <4>1, <4>2
    <3> QED BY <1>1, <1>2, <3>1
  <2>2. ASSUME NEW s \in Request, subs'[s] # NoRow
        PROVE  Acked(s)' /\ req'[s].kind = "bundle" /\ subs'[s].user = req'[s].user
    BY <1>1, <1>2, <2>2 DEF IInv, RowsInv, SubsWritten
  <2> QED BY <2>1, <2>2 DEF RowsInv
<1>6. FullDomainUnique' BY DEF IInv, FullDomainUnique, SubsWritten
<1>7. /\ domain' \in {"active", "deleted"} /\ points' \in [User -> Nat]
      /\ subs' \in [Request -> SubRow \cup {NoRow}]
      /\ records' \in [Request -> RecordRow \cup {NoRow}]
      /\ zone' \in [Request -> Value \cup {NoRow}]
  BY DEF IInv, TypeOK, SubsWritten, RecordsWritten, ZoneWritten
<1> QED BY <1>3, <1>6, <1>7, StepKeeps

(* A step that changes no row but the status of a subdomain, and no remote  *)
(* record but that of its own creation.                                     *)
LEMMA QuietStep ==
  ASSUME IInv, NEW r \in Request, NEW t \in Req, NEW S \in SUBSET Resource,
         req' = [req EXCEPT ![r] = t], locks' = [locks EXCEPT ![r] = S],
         \A s \in Request \ {r} : S \cap locks[s] = {},
         Leaves(r), ReqInv(r)', req[r].listed \subseteq t.listed,
         ~(t.kind \in {"bundle", "add"} /\ t.answer = "ok"),
         UNCHANGED <<domain, points, records>>,
         subs' \in [Request -> SubRow \cup {NoRow}],
         \A s \in Request : /\ subs'[s] = NoRow <=> subs[s] = NoRow
                            /\ subs[s] # NoRow => /\ subs'[s].user = subs[s].user
                                                  /\ subs'[s].name = subs[s].name,
         zone' \in [Request -> Value \cup {NoRow}],
         \A i \in Request \ {r} : zone'[i] = zone[i]
  PROVE  IInv'
<1>1. records \in [Request -> RecordRow \cup {NoRow}] BY DEF IInv, TypeOK
<1>2. ~Acked(r) BY AckedStays
<1>3. SubsWritten BY DEF SubsWritten
<1>4. RecordsWritten BY <1>1 DEF RecordsWritten
<1>5. ZoneWritten(r) BY <1>2 DEF ZoneWritten
<1> QED BY <1>3, <1>4, <1>5, WriteStep

-----------------------------------------------------------------------------
(* Steps before an acknowledgement *)

(* Rows of subdomains that keep their user and their name. *)
SubsKept ==
    /\ subs' \in [Request -> SubRow \cup {NoRow}]
    /\ \A s \in Request : /\ subs'[s] = NoRow <=> subs[s] = NoRow
                          /\ subs[s] # NoRow => /\ subs'[s].user = subs[s].user
                                                /\ subs'[s].name = subs[s].name

(* Remote records that only the creation r may touch. *)
ZoneKept(r) ==
    /\ zone' \in [Request -> Value \cup {NoRow}]
    /\ \A i \in Request \ {r} : zone'[i] = zone[i]

LEMMA NothingKept ==
  ASSUME IInv, NEW r \in Request
  PROVE  /\ subs' = subs => SubsKept
         /\ zone' = zone => ZoneKept(r)
BY DEF IInv, TypeOK, SubsKept, ZoneKept

LEMMA KeptLeaves ==
  ASSUME IInv, NEW r \in Request, NEW t \in Req, NEW S \in SUBSET Resource,
         req' = [req EXCEPT ![r] = t], locks' = [locks EXCEPT ![r] = S],
         t.kind = req[r].kind, t.user = req[r].user, t.target = req[r].target,
         t.name = req[r].name, t.value = req[r].value, t.earlier = req[r].earlier,
         req[r].pc # "done", points' = points, SubsKept, ZoneKept(r)
  PROVE  Leaves(r)
<1>1. req'[r] = t /\ \A s \in Request \ {r} : req'[s] = req[s] /\ locks'[s] = locks[s]
  BY DEF IInv, TypeOK
<1>2. SameArgs(r) BY <1>1 DEF SameArgs
<1>3. \A s \in Request : subs'[s] # NoRow => subs[s] # NoRow /\ subs'[s].name = subs[s].name
  BY DEF SubsKept
<1>4. \A i \in Request : zone'[i] # zone[i] => i = r
  BY DEF ZoneKept
<1> QED BY <1>1, <1>2, <1>3, <1>4 DEF Leaves

(* A request that is answered without acknowledging a creation. *)
LEMMA AnswerStep ==
  ASSUME IInv, NEW r \in Request, NEW t \in Req,
         req' = [req EXCEPT ![r] = t], locks' = [locks EXCEPT ![r] = {}],
         t.pc = "done", t.answer # "none",
         t.kind = req[r].kind, t.user = req[r].user, t.target = req[r].target,
         t.name = req[r].name, t.value = req[r].value, t.listed = req[r].listed,
         t.earlier = req[r].earlier,
         req[r].pc \notin {"idle", "done"},
         Creating(r) => t.answer # "ok",
         UNCHANGED <<domain, points, records>>, SubsKept, ZoneKept(r)
  PROVE  IInv'
<1>0. req'[r] = t BY DEF IInv, TypeOK
<1> {} \in SUBSET Resource /\ \A s \in Request \ {r} : {} \cap locks[s] = {}
  OBVIOUS
<1> PICK S \in SUBSET Resource : S = {} OBVIOUS
<1>1. Leaves(r)
  <2>1. locks' = [locks EXCEPT ![r] = S] OBVIOUS
  <2> QED BY <2>1, KeptLeaves
<1>2. ReqInv(r)'
  <2>0. ReqInv(r) /\ req[r] \in Req BY DEF IInv, TypeOK
  <2>1. PcInv(r)' BY <1>0, <2>0 DEF ReqInv, PcInv
  <2>2. ArgsInv(r)'
    <3>1. ASSUME NEW i \in Request, Acked(i) PROVE Acked(i)' /\ req'[i] = req[i]
      BY <1>1, <3>1, AckedStays
    <3>2. \A i \in req[r].listed : i \in Request BY <2>0 DEF Req
    <3> QED BY <1>0, <2>0, <3>1, <3>2 DEF ReqInv, ArgsInv
  <2>3. HoldInv(r)' /\ SeenInv(r)' BY <1>0 DEF HoldInv, SeenInv
  <2> QED BY <2>1, <2>2, <2>3 DEF ReqInv
<1>3. ~(t.kind \in {"bundle", "add"} /\ t.answer = "ok") BY DEF Creating
<1>4. req[r].listed \subseteq t.listed OBVIOUS
<1> QED BY <1>0, <1>1, <1>2, <1>3, <1>4, QuietStep DEF SubsKept, ZoneKept

(* Typed locals stay typed. *)
LEMMA AnsweredTyped ==
  ASSUME NEW q \in Req, NEW a \in {"ok", "refused", "upstream", "save", "lost"}
  PROVE  [q EXCEPT !.pc = "done", !.seen = NoRow, !.answer = a] \in Req
<1> DEFINE q1 == [q EXCEPT !.pc = "done"]
           q2 == [q1 EXCEPT !.seen = NoRow]
           q3 == [q2 EXCEPT !.answer = a]
<1>1. q1 \in Req BY DEF Req
<1> HIDE DEF q1
<1>2. q2 \in Req BY <1>1 DEF Req
<1> HIDE DEF q2
<1>3. q3 \in Req BY <1>2 DEF Req
<1>4. q3 = [q EXCEPT !.pc = "done", !.seen = NoRow, !.answer = a] BY Zenon DEF q1, q2
<1> QED BY <1>3, <1>4

LEMMA AnswersStep ==
  ASSUME IInv, NEW r \in Request, NEW a \in {"ok", "refused", "upstream", "save", "lost"},
         Answers(r, a), req[r].pc \notin {"idle", "done"}, Creating(r) => a # "ok",
         UNCHANGED <<domain, points, records>>, SubsKept, ZoneKept(r)
  PROVE  IInv'
<1> DEFINE t == [req[r] EXCEPT !.pc = "done", !.seen = NoRow, !.answer = a]
<1>1. req[r] \in Req BY DEF IInv, TypeOK
<1>0. t \in Req BY <1>1, AnsweredTyped
<1>2. /\ t.pc = "done" /\ t.answer = a /\ t.kind = req[r].kind
      /\ t.user = req[r].user /\ t.target = req[r].target /\ t.name = req[r].name
      /\ t.value = req[r].value /\ t.listed = req[r].listed
      /\ t.earlier = req[r].earlier
  BY <1>1 DEF Req
<1>3. req' = [req EXCEPT ![r] = t] /\ locks' = [locks EXCEPT ![r] = {}] BY DEF Answers
<1> HIDE DEF t
<1> QED BY <1>0, <1>2, <1>3, AnswerStep

LEMMA RefusedStep ==
  ASSUME IInv, NEW r \in Request, Refused(r), req[r].pc \notin {"idle", "done"}
  PROVE  IInv'
BY AnswersStep, NothingKept DEF Refused, tables

(* A request that goes on to the program counter p, having taken S. *)
LEMMA GotoStep ==
  ASSUME IInv, NEW r \in Request, NEW t \in Req, NEW S \in SUBSET Resource,
         req' = [req EXCEPT ![r] = t], locks' = [locks EXCEPT ![r] = S],
         \A s \in Request \ {r} : S \cap locks[s] = {},
         t.kind = req[r].kind, t.user = req[r].user, t.target = req[r].target,
         t.name = req[r].name, t.value = req[r].value, t.answer = req[r].answer,
         t.earlier = req[r].earlier,
         req[r].listed \subseteq t.listed,
         \A i \in t.listed : /\ i \in Request /\ t.kind = "deleteSub"
                             /\ Acked(i) /\ req[i].target = t.target,
         req[r].pc \notin {"idle", "done"}, t.pc \notin {"idle", "done"},
         PcInv(r)', HoldInv(r)', SeenInv(r)',
         UNCHANGED <<domain, points, records>>, SubsKept, ZoneKept(r)
  PROVE  IInv'
<1>0. req'[r] = t BY DEF IInv, TypeOK
<1>1. Leaves(r) BY KeptLeaves
<1>2. ReqInv(r)'
  <2>0. ReqInv(r) /\ req[r] \in Req BY DEF IInv, TypeOK
  <2>1. ArgsInv(r)'
    <3>1. ASSUME NEW i \in Request, Acked(i) PROVE Acked(i)' /\ req'[i] = req[i]
      BY <1>1, <3>1, AckedStays
    <3> QED BY <1>0, <2>0, <3>1 DEF ReqInv, ArgsInv
  <2> QED BY <2>1 DEF ReqInv
<1>3. ~(t.kind \in {"bundle", "add"} /\ t.answer = "ok")
  BY DEF IInv, ReqInv, PcInv
<1> QED BY <1>0, <1>1, <1>2, <1>3, QuietStep DEF SubsKept, ZoneKept

-----------------------------------------------------------------------------
(* Arrivals *)

LEMMA ArrivesStep ==
  ASSUME IInv, NEW r \in Request, NEW t \in Req, Arrives(r, t),
         t.pc = "check", t.answer = "none", t.listed = {}, t.user \in User,
         t.kind # "none",
         t.kind = "bundle" => t.target = r /\ t.name \in Name /\ t.value \in Value,
         t.kind \in {"add", "deleteSub"} =>
           /\ t.target \in Request /\ Acked(t.target)
           /\ req[t.target].kind = "bundle",
         t.kind \in {"update", "delete"} => t.target \in Request /\ Acked(t.target),
         t.kind \in {"add", "update"} => t.value \in Value
  PROVE  IInv'
<1>0. /\ req'[r] = t /\ req' = [req EXCEPT ![r] = t]
      /\ \A s \in Request \ {r} : req'[s] = req[s]
      /\ req[r].pc = "idle" /\ UNCHANGED <<tables, zone, locks>>
  BY DEF IInv, TypeOK, Arrives, At
<1>1. req[r].listed = {} BY <1>0 DEF IInv, ReqInv, PcInv, Idle
<1> PICK S \in SUBSET Resource : S = locks[r] BY DEF IInv, TypeOK
<1>2. locks' = [locks EXCEPT ![r] = S] /\ \A s \in Request \ {r} : S \cap locks[s] = {}
  BY <1>0 DEF IInv, TypeOK, HeldOnce
<1>3. Leaves(r) BY <1>0 DEF Leaves, tables
<1>4. ReqInv(r)'
  <2>1. PcInv(r)' BY <1>0 DEF PcInv
  <2>2. ArgsInv(r)'
    <3>1. ASSUME NEW i \in Request, Acked(i) PROVE Acked(i)' /\ req'[i] = req[i]
      BY <1>3, <3>1, AckedStays
    <3> QED BY <1>0, <3>1 DEF ArgsInv
  <2>3. HoldInv(r)' /\ SeenInv(r)' BY <1>0 DEF HoldInv, SeenInv
  <2> QED BY <2>1, <2>2, <2>3 DEF ReqInv
<1>5. SubsKept /\ ZoneKept(r) BY <1>0, NothingKept DEF tables
<1>6. UNCHANGED <<domain, points, records>> BY <1>0 DEF tables
<1>7. /\ req[r].listed \subseteq t.listed
      /\ ~(t.kind \in {"bundle", "add"} /\ t.answer = "ok")
  BY <1>1
<1>8. /\ subs' \in [Request -> SubRow \cup {NoRow}]
      /\ \A s \in Request :
           /\ subs'[s] = NoRow <=> subs[s] = NoRow
           /\ subs[s] # NoRow => subs'[s].user = subs[s].user /\ subs'[s].name = subs[s].name
      /\ zone' \in [Request -> Value \cup {NoRow}]
      /\ \A i \in Request \ {r} : zone'[i] = zone[i]
  BY <1>5 DEF SubsKept, ZoneKept
<1>9. req' = [req EXCEPT ![r] = t] BY <1>0
<1> QED BY <1>2, <1>3, <1>4, <1>6, <1>7, <1>8, <1>9, QuietStep

(* A row that a request names belongs to an acknowledged creation. *)
LEMMA ArrivalStep ==
  ASSUME IInv, NEW r \in Request, Arrival(r)
  PROVE  IInv'
<1>1. PICK u \in User :
        \/ \E n \in Name, v \in Value : CreateBundle(r, u, n, v)
        \/ \E s \in Request, v \in Value : subs[s] # NoRow /\ AddRecord(r, u, s, v)
        \/ \E i \in Request, v \in Value : records[i] # NoRow /\ UpdateRecord(r, u, i, v)
        \/ \E i \in Request : records[i] # NoRow /\ DeleteRecord(r, u, i)
        \/ \E s \in Request : subs[s] # NoRow /\ DeleteSubdomain(r, u, s)
  BY DEF Arrival
<1>0. RowsInv BY DEF IInv
<1>2. ASSUME NEW n \in Name, NEW v \in Value, CreateBundle(r, u, n, v) PROVE IInv'
  <2> DEFINE t == [Idle EXCEPT !.pc = "check", !.kind = "bundle", !.user = u, !.name = n,
                               !.target = r, !.value = v]
  <2>1. /\ t \in Req /\ t.pc = "check" /\ t.kind = "bundle" /\ t.user = u
        /\ t.name = n /\ t.target = r /\ t.value = v /\ t.answer = "none" /\ t.listed = {}
    BY DEF Idle, Req
  <2>2. Arrives(r, t) BY <1>2 DEF CreateBundle
  <2> HIDE DEF t
  <2> QED BY <2>1, <2>2, ArrivesStep
<1>3. ASSUME NEW s \in Request, NEW v \in Value, subs[s] # NoRow, AddRecord(r, u, s, v)
      PROVE  IInv'
  <2> DEFINE t == [Idle EXCEPT !.pc = "check", !.kind = "add", !.user = u, !.target = s,
                               !.value = v]
  <2>1. /\ t \in Req /\ t.pc = "check" /\ t.kind = "add" /\ t.user = u
        /\ t.target = s /\ t.value = v /\ t.answer = "none" /\ t.listed = {}
    BY DEF Idle, Req
  <2>2. Arrives(r, t) BY <1>3 DEF AddRecord
  <2>3. Acked(s) /\ req[s].kind = "bundle" BY <1>0, <1>3 DEF RowsInv
  <2> HIDE DEF t
  <2> QED BY <2>1, <2>2, <2>3, ArrivesStep
<1>4. ASSUME NEW i \in Request, NEW v \in Value, records[i] # NoRow, UpdateRecord(r, u, i, v)
      PROVE  IInv'
  <2> DEFINE t == [Idle EXCEPT !.pc = "check", !.kind = "update", !.user = u, !.target = i,
                               !.value = v, !.earlier = Answered]
  <2>1. /\ t \in Req /\ t.pc = "check" /\ t.kind = "update" /\ t.user = u
        /\ t.target = i /\ t.value = v /\ t.answer = "none" /\ t.listed = {}
    BY DEF Idle, Req, Answered
  <2>2. Arrives(r, t) BY <1>4 DEF UpdateRecord
  <2>3. Acked(i) BY <1>0, <1>4 DEF RowsInv
  <2> HIDE DEF t
  <2> QED BY <2>1, <2>2, <2>3, ArrivesStep
<1>5. ASSUME NEW i \in Request, records[i] # NoRow, DeleteRecord(r, u, i) PROVE IInv'
  <2> DEFINE t == [Idle EXCEPT !.pc = "check", !.kind = "delete", !.user = u, !.target = i,
                               !.earlier = Answered]
  <2>1. /\ t \in Req /\ t.pc = "check" /\ t.kind = "delete" /\ t.user = u
        /\ t.target = i /\ t.answer = "none" /\ t.listed = {}
    BY DEF Idle, Req, Answered
  <2>2. Arrives(r, t) BY <1>5 DEF DeleteRecord
  <2>3. Acked(i) BY <1>0, <1>5 DEF RowsInv
  <2> HIDE DEF t
  <2> QED BY <2>1, <2>2, <2>3, ArrivesStep
<1>6. ASSUME NEW s \in Request, subs[s] # NoRow, DeleteSubdomain(r, u, s) PROVE IInv'
  <2> DEFINE t == [Idle EXCEPT !.pc = "check", !.kind = "deleteSub", !.user = u, !.target = s,
                               !.earlier = Answered]
  <2>1. /\ t \in Req /\ t.pc = "check" /\ t.kind = "deleteSub" /\ t.user = u
        /\ t.target = s /\ t.answer = "none" /\ t.listed = {}
    BY DEF Idle, Req, Answered
  <2>2. Arrives(r, t) BY <1>6 DEF DeleteSubdomain
  <2>3. Acked(s) /\ req[s].kind = "bundle" BY <1>0, <1>6 DEF RowsInv
  <2> HIDE DEF t
  <2> QED BY <2>1, <2>2, <2>3, ArrivesStep
<1> QED BY <1>1, <1>2, <1>3, <1>4, <1>5, <1>6

(* The creation that a request names stays as it is, and so does its owner. *)
LEMMA TargetKeeps ==
  ASSUME IInv, NEW r \in Request, Leaves(r), NEW s \in Request,
         req[s].kind \in {"add", "update", "delete", "deleteSub"}
  PROVE  /\ req[s].target \in Request /\ Acked(req[s].target)
         /\ req'[req[s].target] = req[req[s].target] /\ req[s].target # r
         /\ req[req[s].target].target \in Request
         /\ req'[req[req[s].target].target] = req[req[req[s].target].target]
<1> DEFINE i == req[s].target
<1>1. i \in Request /\ Acked(i) BY DEF IInv, ReqInv, ArgsInv
<1> HIDE DEF i
<1>2. req'[i] = req[i] /\ i # r BY <1>1, AckedStays
<1>3. req[i].target \in Request /\ Acked(req[i].target) BY <1>1, ParentAcked
<1>4. req'[req[i].target] = req[req[i].target] BY <1>3, AckedStays
<1> QED BY <1>1, <1>2, <1>3, <1>4 DEF i

(* A request that goes on, with what it needs for its next step. *)
LEMMA GoesOn ==
  ASSUME IInv, NEW r \in Request, NEW t \in Req, NEW S \in SUBSET Resource,
         req' = [req EXCEPT ![r] = t], locks' = [locks EXCEPT ![r] = S],
         \A s \in Request \ {r} : S \cap locks[s] = {},
         t.kind = req[r].kind, t.user = req[r].user, t.target = req[r].target,
         t.name = req[r].name, t.value = req[r].value, t.answer = req[r].answer,
         t.earlier = req[r].earlier,
         req[r].listed \subseteq t.listed,
         \A i \in t.listed : /\ i \in Request /\ t.kind = "deleteSub"
                             /\ Acked(i) /\ req[i].target = t.target,
         req[r].pc \notin {"idle", "done"},
         t.pc \in {"charge", "insertSub", "callCreate", "insertRecord", "call", "list",
                   "callDeletes"},
         t.pc \in {"charge", "callCreate", "insertRecord"} => t.kind \in {"bundle", "add"},
         t.pc = "insertSub" => t.kind = "bundle",
         t.pc = "call" => t.kind \in {"update", "delete"},
         t.pc \in {"list", "callDeletes"} => t.kind = "deleteSub",
         t.listed # {} => t.pc = "callDeletes",
         Cost # 0 /\ t.pc \in {"insertSub", "callCreate", "insertRecord"} =>
           <<"user", t.user>> \in S /\ points[t.user] >= Cost,
         t.kind = "bundle" /\ t.pc \in {"callCreate", "insertRecord"} =>
           /\ <<"name", t.name>> \in S
           /\ \A s \in Request : subs[s] # NoRow => subs[s].name # t.name,
         t.pc = "insertRecord" => zone'[r] = t.value,
         t.kind = "add" /\ t.pc \in {"charge", "callCreate", "insertRecord"} =>
           t.seen \in SubRow /\ t.seen.user = req[t.target].user,
         t.pc = "call" => /\ t.seen \in RecordRow
                          /\ t.seen.sub = req[t.target].target
                          /\ t.seen.user = Owner(t.target)
                          /\ MayTouch(r, Owner(t.target)),
         t.pc \in {"list", "callDeletes"} => MayTouch(r, req[t.target].user),
         UNCHANGED <<domain, points, records>>, SubsKept, ZoneKept(r)
  PROVE  IInv'
<1>0. req'[r] = t /\ locks'[r] = S BY DEF IInv, TypeOK
<1>1. Leaves(r) BY KeptLeaves
<1>2. ReqInv(r) BY DEF IInv
<1>3. PcInv(r)' BY <1>0, <1>2 DEF ReqInv, PcInv, Creating
<1>4. HoldInv(r)' BY <1>0 DEF HoldInv, SubsKept
<1>5. SeenInv(r)'
  <2>1. CASE t.kind \in {"add", "update", "delete", "deleteSub"}
    BY <1>0, <1>1, <2>1, TargetKeeps DEF SeenInv, Owner, MayTouch
  <2>2. CASE t.kind \notin {"add", "update", "delete", "deleteSub"}
    BY <1>0, <2>2 DEF SeenInv
  <2> QED BY <2>1, <2>2
<1>6. t.pc \notin {"idle", "done"} OBVIOUS
<1> QED BY <1>3, <1>4, <1>5, <1>6, GotoStep

(* The same for a step that changes nothing but the program counter and, *)
(* possibly, its locks.                                                  *)
LEMMA PlainGoto ==
  ASSUME IInv, NEW r \in Request, NEW S \in SUBSET Resource,
         NEW p \in {"charge", "insertSub", "callCreate", "insertRecord", "list"},
         Goto(r, p), locks' = [locks EXCEPT ![r] = S],
         \A s \in Request \ {r} : S \cap locks[s] = {},
         req[r].pc \notin {"idle", "done", "callDeletes", "removeSub"},
         p \in {"charge", "callCreate", "insertRecord"} => Creating(r),
         p = "insertSub" => req[r].kind = "bundle",
         p = "list" => req[r].kind = "deleteSub" /\ MayTouch(r, req[req[r].target].user),
         Cost # 0 /\ p \in {"insertSub", "callCreate", "insertRecord"} =>
           <<"user", req[r].user>> \in S /\ points[req[r].user] >= Cost,
         req[r].kind = "bundle" /\ p \in {"callCreate", "insertRecord"} =>
           /\ <<"name", req[r].name>> \in S
           /\ \A s \in Request : subs[s] # NoRow => subs[s].name # req[r].name,
         p = "insertRecord" => zone'[r] = req[r].value,
         req[r].kind = "add" =>
           req[r].seen \in SubRow /\ req[r].seen.user = req[req[r].target].user,
         UNCHANGED <<domain, points, records>>, SubsKept, ZoneKept(r)
  PROVE  IInv'
<1> DEFINE t == [req[r] EXCEPT !.pc = p]
<1>1. req[r] \in Req /\ ReqInv(r) BY DEF IInv, TypeOK
<1>2. /\ t \in Req /\ t.pc = p /\ t.kind = req[r].kind
      /\ t.user = req[r].user /\ t.target = req[r].target /\ t.name = req[r].name
      /\ t.value = req[r].value /\ t.seen = req[r].seen /\ t.listed = req[r].listed
      /\ t.earlier = req[r].earlier
      /\ t.answer = req[r].answer
  BY <1>1 DEF Req
<1>3. req' = [req EXCEPT ![r] = t] BY DEF Goto, IInv, TypeOK
<1> HIDE DEF t
<1>4. \A i \in t.listed : /\ i \in Request /\ t.kind = "deleteSub"
                          /\ Acked(i) /\ req[i].target = t.target
  BY <1>1, <1>2 DEF ReqInv, ArgsInv, Req
<1>5. t.pc \in {"charge", "insertSub", "callCreate", "insertRecord", "call", "list",
                "callDeletes"} /\ t.pc # "call" /\ t.pc # "callDeletes"
  BY <1>2
<1>6. t.listed = {} /\ req[r].listed \subseteq t.listed BY <1>1, <1>2 DEF ReqInv, PcInv
<1>7. /\ t.pc \in {"charge", "callCreate", "insertRecord"} => t.kind \in {"bundle", "add"}
      /\ t.pc = "insertSub" => t.kind = "bundle"
      /\ Cost # 0 /\ t.pc \in {"insertSub", "callCreate", "insertRecord"} =>
           <<"user", t.user>> \in S /\ points[t.user] >= Cost
      /\ t.kind = "bundle" /\ t.pc \in {"callCreate", "insertRecord"} =>
           /\ <<"name", t.name>> \in S
           /\ \A s \in Request : subs[s] # NoRow => subs[s].name # t.name
      /\ t.pc = "insertRecord" => zone'[r] = t.value
  BY <1>2 DEF Creating
<1>8. /\ t.kind = "add" => t.seen \in SubRow /\ t.seen.user = req[t.target].user
      /\ t.pc = "list" => t.kind = "deleteSub" /\ MayTouch(r, req[t.target].user)
  BY <1>2
<1> QED BY <1>2, <1>3, <1>4, <1>5, <1>6, <1>7, <1>8, GoesOn

LEMMA LocksKept ==
  ASSUME IInv, NEW r \in Request
  PROVE  /\ locks[r] \in SUBSET Resource /\ locks = [locks EXCEPT ![r] = @]
         /\ \A s \in Request \ {r} : locks[r] \cap locks[s] = {}
BY DEF IInv, TypeOK, HeldOnce

LEMMA DisableKept ==
  ASSUME IInv, NEW s \in Request, DisableIfExpired(s)
  PROVE  SubsKept
<1>1. subs \in [Request -> SubRow \cup {NoRow}] /\ NoRow \notin SubRow
  BY NoRowAssumption DEF IInv, TypeOK
<1>2. CASE subs[s] # NoRow /\ IsExpired(subs[s])
  <2>1. subs[s] \in SubRow BY <1>1, <1>2
  <2> DEFINE row == [subs[s] EXCEPT !.active = FALSE]
  <2>2. row \in SubRow /\ row.user = subs[s].user /\ row.name = subs[s].name
    BY <2>1 DEF SubRow
  <2>3. row # NoRow BY <1>1, <2>2
  <2>4. subs' = [subs EXCEPT ![s] = row] BY <1>2 DEF DisableIfExpired
  <2> HIDE DEF row
  <2> QED BY <1>1, <1>2, <2>2, <2>3, <2>4 DEF SubsKept
<1>3. CASE ~(subs[s] # NoRow /\ IsExpired(subs[s]))
  <2>1. subs' = subs BY <1>1, <1>3 DEF DisableIfExpired
  <2> QED BY <2>1, NothingKept
<1> QED BY <1>2, <1>3

-----------------------------------------------------------------------------
(* One lemma per action *)

LEMMA CheckBundleStep ==
  ASSUME IInv, NEW r \in Request, CheckBundle(r)
  PROVE  IInv'
<1>1. CASE Refused(r) BY <1>1, RefusedStep DEF CheckBundle, At
<1>2. CASE Goto(r, "charge") /\ UNCHANGED <<tables, zone, locks>>
  <2>1. SubsKept /\ ZoneKept(r) BY <1>2, NothingKept DEF tables
  <2>2. locks' = [locks EXCEPT ![r] = locks[r]] BY <1>2, LocksKept
  <2>3. req[r].kind = "bundle" /\ req[r].pc = "check" BY DEF CheckBundle, At
  <2> QED BY <1>2, <2>1, <2>2, <2>3, LocksKept, PlainGoto DEF tables, Creating
<1> QED BY <1>1, <1>2 DEF CheckBundle

(* The subdomain that was read belongs to whoever created it. *)
LEMMA CheckAddStep ==
  ASSUME IInv, NEW r \in Request, CheckAdd(r)
  PROVE  IInv'
<1> DEFINE s == req[r].target
<1>0. /\ req[r].kind = "add" /\ req[r].pc = "check" /\ ReqInv(r) /\ req[r] \in Req
      /\ subs \in [Request -> SubRow \cup {NoRow}] /\ RowsInv
  BY DEF CheckAdd, At, IInv, TypeOK
<1>1. s \in Request BY <1>0 DEF ReqInv, ArgsInv
<1>2. CASE Refused(r) BY <1>0, <1>2, RefusedStep
<1>3. CASE DisableIfExpired(s) /\ Answers(r, "refused")
             /\ UNCHANGED <<domain, points, records, zone>>
  BY <1>0, <1>1, <1>3, DisableKept, NothingKept, AnswersStep
<1>4. CASE /\ subs[s] # NoRow
           /\ req' = [req EXCEPT ![r] = [@ EXCEPT !.pc = "charge", !.seen = subs[s]]]
           /\ UNCHANGED <<tables, zone, locks>>
  <2> DEFINE t == [req[r] EXCEPT !.pc = "charge", !.seen = subs[s]]
  <2>1. subs[s] \in SubRow /\ subs[s].user = req[s].user BY <1>0, <1>1, <1>4 DEF RowsInv
  <2>2. t \in Req
    <3> DEFINE q == [req[r] EXCEPT !.pc = "charge"]
    <3>1. q \in Req BY <1>0 DEF Req
    <3> HIDE DEF q
    <3>2. [q EXCEPT !.seen = subs[s]] \in Req BY <2>1, <3>1 DEF Req
    <3>3. [q EXCEPT !.seen = subs[s]] = t BY Zenon DEF q
    <3> QED BY <3>2, <3>3
  <2>3. /\ t.kind = "add" /\ t.user = req[r].user /\ t.target = s /\ t.name = req[r].name
        /\ t.value = req[r].value /\ t.answer = req[r].answer /\ t.listed = req[r].listed
        /\ t.earlier = req[r].earlier
        /\ t.pc = "charge" /\ t.seen = subs[s]
    BY <1>0 DEF Req
  <2>4. req' = [req EXCEPT ![r] = t] BY <1>4
  <2> HIDE DEF t
  <2>5. SubsKept /\ ZoneKept(r) BY <1>4, NothingKept DEF tables
  <2> PICK S \in SUBSET Resource : S = locks[r] BY LocksKept
  <2>6. locks' = [locks EXCEPT ![r] = S] /\ \A i \in Request \ {r} : S \cap locks[i] = {}
    BY <1>4, LocksKept
  <2>7. t.listed = {} BY <1>0, <2>3 DEF ReqInv, ArgsInv
  <2>8. req[r].pc \notin {"idle", "done"} /\ UNCHANGED <<domain, points, records>>
    BY <1>0, <1>4 DEF tables
  <2>9. t.seen \in SubRow /\ t.seen.user = req[t.target].user BY <2>1, <2>3
  <2> QED BY <1>0, <2>2, <2>3, <2>4, <2>5, <2>6, <2>7, <2>8, <2>9, GoesOn
<1> QED BY <1>2, <1>3, <1>4 DEF CheckAdd

LEMMA TakesLocks ==
  ASSUME IInv, NEW r \in Request, NEW x \in Resource, Free(r, x)
  PROVE  /\ locks[r] \cup {x} \in SUBSET Resource
         /\ \A s \in Request \ {r} : (locks[r] \cup {x}) \cap locks[s] = {}
BY LocksKept DEF Free

(* The balance that was compared is protected by the user's row. *)
LEMMA ChargeUserStep ==
  ASSUME IInv, NEW r \in Request, ChargeUser(r)
  PROVE  IInv'
<1> DEFINE u == req[r].user
           p == AfterCharge(r)
<1>0. /\ req[r].pc = "charge" /\ ReqInv(r) /\ u \in User
      /\ Creating(r) /\ points \in [User -> Nat] /\ Cost \in Nat
      /\ req[r].kind = "add" =>
           req[r].seen \in SubRow /\ req[r].seen.user = req[req[r].target].user
      /\ p \in {"insertSub", "callCreate"}
      /\ p = "insertSub" => req[r].kind = "bundle"
      /\ req[r].kind = "bundle" => p # "callCreate"
  BY RecordsAssumption DEF ChargeUser, At, IInv, TypeOK, ReqInv, PcInv, SeenInv, AfterCharge
<1>1. CASE Refused(r) BY <1>0, <1>1, RefusedStep
<1>2. CASE Cost = 0 /\ Goto(r, p) /\ UNCHANGED <<tables, zone, locks>>
  <2>1. SubsKept /\ ZoneKept(r) BY <1>2, NothingKept DEF tables
  <2> PICK S \in SUBSET Resource : S = locks[r] BY LocksKept
  <2>2. locks' = [locks EXCEPT ![r] = S] /\ \A s \in Request \ {r} : S \cap locks[s] = {}
    BY <1>2, LocksKept
  <2> HIDE DEF p
  <2> QED BY <1>0, <1>2, <2>1, <2>2, PlainGoto DEF tables
<1>3. CASE /\ Free(r, <<"user", u>>) /\ ~(points[u] < Cost) /\ Takes(r, <<"user", u>>)
           /\ Goto(r, p) /\ UNCHANGED <<tables, zone>>
  <2>0. <<"user", u>> \in Resource BY <1>0 DEF Resource
  <2> PICK S \in SUBSET Resource : S = locks[r] \cup {<<"user", u>>}
    BY <2>0, LocksKept
  <2>1. SubsKept /\ ZoneKept(r) BY <1>3, NothingKept DEF tables
  <2>2. locks' = [locks EXCEPT ![r] = S] BY <1>3 DEF Takes
  <2>3. \A s \in Request \ {r} : S \cap locks[s] = {}
    BY <1>3, LocksKept DEF Free
  <2>4. <<"user", u>> \in S /\ points[u] >= Cost BY <1>0, <1>3
  <2> HIDE DEF p
  <2> QED BY <1>0, <1>3, <2>1, <2>2, <2>3, <2>4, PlainGoto DEF tables
<1> QED BY <1>1, <1>2, <1>3 DEF ChargeUser

(* The name that was found free is protected by its index entry. *)
LEMMA InsertSubStep ==
  ASSUME IInv, NEW r \in Request, InsertSub(r)
  PROVE  IInv'
<1> DEFINE n == req[r].name
<1>0. /\ req[r].pc = "insertSub" /\ ReqInv(r) /\ req[r].kind = "bundle" /\ n \in Name
      /\ Cost # 0 => <<"user", req[r].user>> \in locks[r] /\ points[req[r].user] >= Cost
  BY DEF InsertSub, At, IInv, ReqInv, PcInv, ArgsInv, HoldInv
<1>1. CASE Refused(r) BY <1>0, <1>1, RefusedStep
<1>2. CASE /\ ~\E s \in Request : subs[s] # NoRow /\ subs[s].name = n
           /\ Takes(r, <<"name", n>>) /\ Goto(r, "callCreate") /\ UNCHANGED <<tables, zone>>
  <2>0. <<"name", n>> \in Resource BY <1>0 DEF Resource
  <2> PICK S \in SUBSET Resource : S = locks[r] \cup {<<"name", n>>}
    BY <2>0, LocksKept
  <2>1. SubsKept /\ ZoneKept(r) BY <1>2, NothingKept DEF tables
  <2>2. locks' = [locks EXCEPT ![r] = S] BY <1>2 DEF Takes
  <2>3. \A s \in Request \ {r} : S \cap locks[s] = {}
    BY <1>2, LocksKept DEF Takes, Free
  <2> QED BY <1>0, <1>2, <2>1, <2>2, <2>3, PlainGoto DEF tables, Creating
<1> QED BY <1>1, <1>2 DEF InsertSub

LEMMA CallCreateStep ==
  ASSUME IInv, NEW r \in Request, CallCreate(r)
  PROVE  IInv'
<1>0. /\ req[r].pc = "callCreate" /\ ReqInv(r) /\ Creating(r) /\ req[r].value \in Value
      /\ zone \in [Request -> Value \cup {NoRow}] /\ UNCHANGED tables
  BY DEF CallCreate, At, IInv, TypeOK, ReqInv, PcInv, ArgsInv, Creating
<1>1. SubsKept BY <1>0, NothingKept DEF tables
<1>2. CASE zone' = [zone EXCEPT ![r] = req[r].value]
             /\ Goto(r, "insertRecord") /\ UNCHANGED locks
  <2>1. ZoneKept(r) /\ zone'[r] = req[r].value BY <1>0, <1>2 DEF ZoneKept
  <2>2. locks' = [locks EXCEPT ![r] = locks[r]] BY <1>2, LocksKept
  <2>3. /\ Cost # 0 => <<"user", req[r].user>> \in locks[r] /\ points[req[r].user] >= Cost
        /\ req[r].kind = "bundle" =>
             /\ <<"name", req[r].name>> \in locks[r]
             /\ \A s \in Request : subs[s] # NoRow => subs[s].name # req[r].name
        /\ req[r].kind = "add" =>
             req[r].seen \in SubRow /\ req[r].seen.user = req[req[r].target].user
    BY <1>0 DEF ReqInv, HoldInv, SeenInv
  <2> QED BY <1>0, <1>1, <1>2, <2>1, <2>2, <2>3, LocksKept, PlainGoto DEF tables
<1>3. CASE /\ Answers(r, "upstream")
           /\ \E done \in BOOLEAN :
                zone' = IF done THEN [zone EXCEPT ![r] = req[r].value] ELSE zone
  <2>1. ZoneKept(r) BY <1>0, <1>3 DEF ZoneKept
  <2> QED BY <1>0, <1>1, <1>3, <2>1, AnswersStep DEF tables
<1> QED BY <1>2, <1>3 DEF CallCreate

(* A creation is acknowledged: its row appears beside its remote record. *)
LEMMA AckStep ==
  ASSUME IInv, NEW r \in Request, Answers(r, "ok"), req[r].pc = "insertRecord", Leaves(r),
         NEW row \in RecordRow, records' = [records EXCEPT ![r] = row],
         row.sub = req[r].target, row.user = Owner(r)',
         domain' = domain, zone' = zone, points' \in [User -> Nat],
         subs' \in [Request -> SubRow \cup {NoRow}],
         \A s \in Request : subs'[s] # NoRow =>
           \/ subs'[s] = subs[s]
           \/ s = r /\ req[r].kind = "bundle" /\ subs'[s].user = req[r].user,
         FullDomainUnique'
  PROVE  IInv'
<1> DEFINE t == [req[r] EXCEPT !.pc = "done", !.seen = NoRow, !.answer = "ok"]
<1>0. /\ req[r] \in Req /\ ReqInv(r) /\ Creating(r) /\ ~Acked(r)
      /\ records \in [Request -> RecordRow \cup {NoRow}]
      /\ zone \in [Request -> Value \cup {NoRow}]
      /\ NoRow \notin RecordRow /\ NoRow \notin Value
  BY NoRowAssumption DEF IInv, TypeOK, ReqInv, PcInv, Acked
<1>1. t \in Req BY <1>0, AnsweredTyped
<1>2. /\ t.pc = "done" /\ t.answer = "ok" /\ t.kind = req[r].kind /\ t.user = req[r].user
      /\ t.target = req[r].target /\ t.name = req[r].name /\ t.value = req[r].value
      /\ t.listed = req[r].listed
  BY <1>0 DEF Req
<1>3. req' = [req EXCEPT ![r] = t] /\ locks' = [locks EXCEPT ![r] = {}] BY DEF Answers
<1> HIDE DEF t
<1>4. req'[r] = t /\ \A s \in Request \ {r} : req'[s] = req[s]
  BY <1>3 DEF IInv, TypeOK
<1>5. ASSUME NEW i \in Request, Acked(i)
      PROVE  Acked(i)' /\ req'[i] = req[i] /\ i # r /\ Owner(i)' = Owner(i)
  BY <1>5, AckedStays
<1>6. ASSUME NEW i \in Request, i # r PROVE Acked(i)' <=> Acked(i)
  BY <1>4, <1>6 DEF Acked, Creating
<1>7. req[r].listed = {} BY <1>0 DEF ReqInv, ArgsInv, Creating
<1>8. ReqInv(r)'
  <2>1. PcInv(r)' BY <1>0, <1>2, <1>4 DEF ReqInv, PcInv
  <2>2. ArgsInv(r)' BY <1>0, <1>2, <1>4, <1>5, <1>7 DEF ReqInv, ArgsInv
  <2>3. HoldInv(r)' /\ SeenInv(r)' BY <1>2, <1>4 DEF HoldInv, SeenInv
  <2> QED BY <2>1, <2>2, <2>3 DEF ReqInv
<1>9. RowsInv'
  <2>1. ASSUME NEW i \in Request, records'[i] # NoRow
        PROVE  Acked(i)' /\ records'[i].sub = req'[i].target /\ records'[i].user = Owner(i)'
    <3>1. CASE i = r BY <1>0, <1>2, <1>4, <3>1 DEF Acked, Creating
    <3>2. CASE i # r BY <1>0, <1>5, <2>1, <3>2 DEF IInv, RowsInv
    <3> QED BY <3>1, <3>2
  <2>2. ASSUME NEW s \in Request, subs'[s] # NoRow
        PROVE  Acked(s)' /\ req'[s].kind = "bundle" /\ subs'[s].user = req'[s].user
    <3>1. CASE subs'[s] = subs[s] BY <1>5, <2>2, <3>1 DEF IInv, RowsInv
    <3>2. CASE s = r /\ req[r].kind = "bundle" /\ subs'[s].user = req[r].user
      BY <1>2, <1>4, <3>2 DEF Acked, Creating
    <3> QED BY <2>2, <3>1, <3>2
  <2> QED BY <2>1, <2>2 DEF RowsInv
<1> PICK S \in SUBSET Resource : S = {} OBVIOUS
<1>13. locks' = [locks EXCEPT ![r] = S] /\ \A s \in Request \ {r} : S \cap locks[s] = {}
  BY <1>3
<1>14. /\ domain' \in {"active", "deleted"} /\ zone' \in [Request -> Value \cup {NoRow}]
       /\ records' \in [Request -> RecordRow \cup {NoRow}]
  BY <1>0 DEF IInv, TypeOK
<1> QED BY <1>1, <1>3, <1>8, <1>9, <1>13, <1>14, StepKeeps

(* The charge is covered by the balance that the user's row protects. *)
LEMMA CommitCharges ==
  ASSUME IInv, NEW r \in Request, req[r].pc = "insertRecord",
         points' = [points EXCEPT ![req[r].user] = @ - Cost]
  PROVE  /\ points' \in [User -> Nat]
         /\ \A u \in User : points'[u] # points[u] => Cost # 0 /\ <<"user", u>> \in locks[r]
<1> DEFINE u == req[r].user
<1>1. u \in User /\ points \in [User -> Nat] /\ Cost \in Nat
  BY RecordsAssumption DEF IInv, TypeOK, ReqInv, PcInv
<1>2. Cost # 0 => <<"user", u>> \in locks[r] /\ points[u] >= Cost
  BY DEF IInv, ReqInv, HoldInv
<1>3. points[u] - Cost \in Nat BY <1>1, <1>2
<1>4. Cost = 0 => points[u] - Cost = points[u] BY <1>1
<1> HIDE DEF u
<1>5. points' = [points EXCEPT ![u] = points[u] - Cost] BY DEF u
<1> QED BY <1>1, <1>2, <1>3, <1>4, <1>5

LEMMA CommitBundleStep ==
  ASSUME IInv, NEW r \in Request, CommitBundle(r)
  PROVE  IInv'
<1> DEFINE sub == [user |-> req[r].user, name |-> req[r].name, active |-> TRUE,
                   lapsed |-> FALSE]
           row == [user |-> req[r].user, sub |-> r, value |-> req[r].value]
<1>0. /\ req[r].pc = "insertRecord" /\ req[r].kind = "bundle" /\ ReqInv(r)
      /\ req[r].user \in User /\ req[r].name \in Name /\ req[r].value \in Value
      /\ req[r].target = r
      /\ subs \in [Request -> SubRow \cup {NoRow}]
      /\ Answers(r, "ok") /\ UNCHANGED <<domain, zone>>
  BY DEF CommitBundle, At, IInv, TypeOK, ReqInv, PcInv, ArgsInv
<1>1. /\ points' \in [User -> Nat]
      /\ \A u \in User : points'[u] # points[u] => Cost # 0 /\ <<"user", u>> \in locks[r]
  BY <1>0, CommitCharges DEF CommitBundle
<1>2. /\ sub \in SubRow /\ sub.user = req[r].user /\ sub.name = req[r].name
      /\ row \in RecordRow /\ row.sub = r /\ row.user = req[r].user
  BY <1>0 DEF SubRow, RecordRow
<1>3. subs' = [subs EXCEPT ![r] = sub] /\ records' = [records EXCEPT ![r] = row]
  BY DEF CommitBundle
<1> HIDE DEF sub, row
<1>4. /\ <<"name", req[r].name>> \in locks[r]
      /\ \A s \in Request : subs[s] # NoRow => subs[s].name # req[r].name
  BY <1>0 DEF ReqInv, HoldInv
<1>5. /\ \A s \in Request \ {r} : req'[s] = req[s] /\ locks'[s] = locks[s]
      /\ SameArgs(r)
  BY <1>0 DEF Answers, IInv, TypeOK, SameArgs, Req
<1>6. Leaves(r)
  <2>1. \A s \in Request : subs'[s] # NoRow =>
          \/ subs[s] # NoRow /\ subs'[s].name = subs[s].name
          \/ <<"name", subs'[s].name>> \in locks[r]
    BY <1>0, <1>2, <1>3, <1>4
  <2> QED BY <1>0, <1>1, <1>5, <2>1 DEF Leaves
<1>7. row.user = Owner(r)' BY <1>0, <1>2, <1>5 DEF Owner, SameArgs
<1>8. FullDomainUnique' BY <1>0, <1>2, <1>3, <1>4 DEF IInv, FullDomainUnique
<1>9. /\ subs' \in [Request -> SubRow \cup {NoRow}]
      /\ \A s \in Request : subs'[s] # NoRow =>
           \/ subs'[s] = subs[s]
           \/ s = r /\ req[r].kind = "bundle" /\ subs'[s].user = req[r].user
  BY <1>0, <1>2, <1>3
<1> QED BY <1>0, <1>1, <1>2, <1>3, <1>6, <1>7, <1>8, <1>9, AckStep

LEMMA CommitAddStep ==
  ASSUME IInv, NEW r \in Request, CommitAdd(r)
  PROVE  IInv'
<1> DEFINE row == [user |-> req[r].seen.user, sub |-> req[r].target, value |-> req[r].value]
<1>0. /\ req[r].pc = "insertRecord" /\ req[r].kind = "add" /\ ReqInv(r)
      /\ req[r].seen \in SubRow /\ req[r].seen.user = req[req[r].target].user
      /\ req[r].value \in Value
      /\ req[r].target \in Request
      /\ subs \in [Request -> SubRow \cup {NoRow}]
      /\ Answers(r, "ok") /\ UNCHANGED <<domain, subs, zone>>
  BY DEF CommitAdd, At, IInv, TypeOK, ReqInv, SeenInv, ArgsInv
<1>1. /\ points' \in [User -> Nat]
      /\ \A u \in User : points'[u] # points[u] => Cost # 0 /\ <<"user", u>> \in locks[r]
  BY <1>0, CommitCharges DEF CommitAdd
<1>2. row \in RecordRow /\ row.sub = req[r].target /\ row.user = req[req[r].target].user
  BY <1>0 DEF SubRow, RecordRow
<1>3. records' = [records EXCEPT ![r] = row] BY DEF CommitAdd
<1> HIDE DEF row
<1>4. /\ \A s \in Request \ {r} : req'[s] = req[s] /\ locks'[s] = locks[s]
      /\ SameArgs(r)
  BY <1>0 DEF Answers, IInv, TypeOK, SameArgs, Req
<1>5. Leaves(r) BY <1>0, <1>1, <1>4 DEF Leaves
<1>6. row.user = Owner(r)'
  BY <1>0, <1>2, <1>4, <1>5, TargetKeeps DEF Owner, SameArgs
<1>7. FullDomainUnique' BY <1>0 DEF IInv, FullDomainUnique
<1>8. \A s \in Request : subs'[s] = subs[s] BY <1>0
<1> QED BY <1>0, <1>1, <1>2, <1>3, <1>5, <1>6, <1>7, <1>8, AckStep

(* A row that cannot be saved leaves no creation behind. *)
LEMMA InsertFailsStep ==
  ASSUME IInv, NEW r \in Request, BundleInsertFails(r) \/ AddInsertFails(r)
  PROVE  IInv'
<1>0. req[r].pc = "insertRecord" /\ req[r] \in Req /\ zone \in [Request -> Value \cup {NoRow}]
  BY DEF BundleInsertFails, AddInsertFails, At, IInv, TypeOK
<1>1. CASE AddInsertFails(r)
  BY <1>0, <1>1, NothingKept, AnswersStep DEF AddInsertFails, tables
<1>2. CASE BundleInsertFails(r)
  <2> DEFINE t == [req[r] EXCEPT !.pc = "done", !.cleaned = TRUE, !.answer = "save"]
  <2>1. t \in Req
    <3> DEFINE q1 == [req[r] EXCEPT !.pc = "done"]
               q2 == [q1 EXCEPT !.cleaned = TRUE]
               q3 == [q2 EXCEPT !.answer = "save"]
    <3>1. q1 \in Req BY <1>0 DEF Req
    <3> HIDE DEF q1
    <3>2. q2 \in Req BY <3>1 DEF Req
    <3> HIDE DEF q2
    <3>3. q3 \in Req BY <3>2 DEF Req
    <3>4. q3 = t BY Zenon DEF q1, q2
    <3> QED BY <3>3, <3>4
  <2>2. /\ t.pc = "done" /\ t.answer = "save" /\ t.kind = req[r].kind
        /\ t.user = req[r].user /\ t.target = req[r].target /\ t.name = req[r].name
        /\ t.value = req[r].value /\ t.listed = req[r].listed
        /\ t.earlier = req[r].earlier
    BY <1>0 DEF Req
  <2>3. /\ req' = [req EXCEPT ![r] = t] /\ locks' = [locks EXCEPT ![r] = {}]
        /\ UNCHANGED tables
    BY <1>2 DEF BundleInsertFails
  <2> HIDE DEF t
  <2>4. ZoneKept(r) BY <1>0, <1>2 DEF BundleInsertFails, ZoneKept
  <2>5. SubsKept BY <2>3, NothingKept DEF tables
  <2> QED BY <1>0, <2>1, <2>2, <2>3, <2>4, <2>5, AnswerStep DEF tables
<1> QED BY <1>1, <1>2

(* An answered request has nothing more to keep. *)
LEMMA DoneInv ==
  ASSUME IInv, NEW r \in Request, Leaves(r), NEW t \in Req, req'[r] = t,
         t.pc = "done", t.answer # "none",
         t.kind = req[r].kind, t.user = req[r].user, t.target = req[r].target,
         t.name = req[r].name, t.value = req[r].value, t.listed = req[r].listed,
         t.earlier = req[r].earlier,
         req[r].pc # "idle"
  PROVE  ReqInv(r)'
<1>0. ReqInv(r) /\ req[r] \in Req BY DEF IInv, TypeOK
<1>1. PcInv(r)' BY <1>0 DEF ReqInv, PcInv
<1>2. ArgsInv(r)'
  <2>1. ASSUME NEW i \in Request, Acked(i) PROVE Acked(i)' /\ req'[i] = req[i]
    BY <2>1, AckedStays
  <2>2. \A i \in req[r].listed : i \in Request BY <1>0 DEF Req
  <2> QED BY <1>0, <2>1, <2>2 DEF ReqInv, ArgsInv
<1>3. HoldInv(r)' /\ SeenInv(r)' BY DEF HoldInv, SeenInv
<1> QED BY <1>1, <1>2, <1>3 DEF ReqInv

(* Updates and deletions: the answer that ends them. *)
LEMMA WriteEnds ==
  ASSUME IInv, NEW r \in Request, NEW t \in Req,
         req' = [req EXCEPT ![r] = t], locks' = [locks EXCEPT ![r] = {}],
         t.pc = "done", t.answer # "none",
         t.kind = req[r].kind, t.user = req[r].user, t.target = req[r].target,
         t.name = req[r].name, t.value = req[r].value, t.listed = req[r].listed,
         t.earlier = req[r].earlier,
         req[r].pc \notin {"idle", "done"}, ~Creating(r),
         UNCHANGED <<domain, points>>, SubsWritten, RecordsWritten, ZoneWritten(r)
  PROVE  IInv'
<1>1. /\ req'[r] = t
      /\ \A s \in Request \ {r} : req'[s] = req[s] /\ locks'[s] = locks[s]
  BY DEF IInv, TypeOK
<1>2. ~Acked(r) BY DEF Acked
<1>3. Leaves(r)
  <2>1. SameArgs(r) BY <1>1 DEF SameArgs
  <2> QED BY <1>1, <1>2, <2>1 DEF Leaves, SubsWritten, ZoneWritten
<1>4. ReqInv(r)' BY <1>1, <1>3, DoneInv
<1> PICK S \in SUBSET Resource : S = {} OBVIOUS
<1>5. locks' = [locks EXCEPT ![r] = S] /\ \A s \in Request \ {r} : S \cap locks[s] = {}
  OBVIOUS
<1>6. req[r].listed \subseteq t.listed /\ t.kind \notin {"bundle", "add"}
  BY DEF Creating
<1> QED BY <1>3, <1>4, <1>5, <1>6, WriteStep

LEMMA WriteAnswers ==
  ASSUME IInv, NEW r \in Request, NEW a \in {"ok", "refused", "upstream", "save", "lost"},
         Answers(r, a), req[r].pc \notin {"idle", "done"}, ~Creating(r),
         UNCHANGED <<domain, points>>, SubsWritten, RecordsWritten, ZoneWritten(r)
  PROVE  IInv'
<1> DEFINE t == [req[r] EXCEPT !.pc = "done", !.seen = NoRow, !.answer = a]
<1>1. req[r] \in Req BY DEF IInv, TypeOK
<1>2. t \in Req BY <1>1, AnsweredTyped
<1>3. /\ t.pc = "done" /\ t.answer = a /\ t.kind = req[r].kind
      /\ t.user = req[r].user /\ t.target = req[r].target /\ t.name = req[r].name
      /\ t.value = req[r].value /\ t.listed = req[r].listed
      /\ t.earlier = req[r].earlier
  BY <1>1 DEF Req
<1>4. req' = [req EXCEPT ![r] = t] /\ locks' = [locks EXCEPT ![r] = {}] BY DEF Answers
<1> HIDE DEF t
<1> QED BY <1>2, <1>3, <1>4, WriteEnds

(* Updates and deletions: the provider has been called. *)
LEMMA WriteGoto ==
  ASSUME IInv, NEW r \in Request, NEW p \in {"save", "remove", "removeSub"},
         Goto(r, p) \/ AsksThenGoto(r, p),
         UNCHANGED <<tables, locks>>, ZoneWritten(r),
         p \in {"save", "remove"} => req[r].pc = "call",
         p = "save" => req[r].kind = "update",
         p = "remove" => req[r].kind = "delete" /\ zone'[req[r].target] = NoRow,
         p = "removeSub" => req[r].pc = "callDeletes"
  PROVE  IInv'
<1>1. req[r] \in Req /\ ReqInv(r) BY DEF IInv, TypeOK
<1> DEFINE Kept == {t \in Req : /\ t.pc = p /\ t.kind = req[r].kind /\ t.user = req[r].user
                               /\ t.target = req[r].target /\ t.name = req[r].name
                               /\ t.value = req[r].value /\ t.seen = req[r].seen
                               /\ t.listed = req[r].listed /\ t.answer = req[r].answer
                               /\ t.earlier = req[r].earlier}
<1>2. PICK t \in Kept : req' = [req EXCEPT ![r] = t]
  <2> DEFINE t1 == [req[r] EXCEPT !.pc = p]
             t2 == [t1 EXCEPT !.asked = TRUE]
             t3 == [req[r] EXCEPT !.pc = p, !.asked = TRUE]
  <2>1. t1 \in Kept BY <1>1 DEF Req
  <2>2. t2 \in Kept
    <3> HIDE DEF t1
    <3> QED BY <2>1 DEF Req
  <2>3. t3 = t2 BY Zenon
  <2>4. Goto(r, p) => req' = [req EXCEPT ![r] = t1] BY DEF Goto
  <2>5. AsksThenGoto(r, p) => req' = [req EXCEPT ![r] = t3] BY DEF AsksThenGoto
  <2> HIDE DEF t1, t2, t3
  <2> QED BY <2>1, <2>2, <2>3, <2>4, <2>5
<1>3. req' = [req EXCEPT ![r] = t] BY <1>2
<1>4. req'[r] = t /\ \A s \in Request \ {r} : req'[s] = req[s]
  BY <1>3 DEF IInv, TypeOK
<1>5. req[r].kind \in {"update", "delete", "deleteSub"} /\ req[r].pc \in {"call", "callDeletes"}
  BY <1>1 DEF ReqInv, PcInv
<1>6. Leaves(r)
  <2>1. SameArgs(r) BY <1>2, <1>4 DEF SameArgs
  <2> QED BY <1>4, <1>5, <2>1 DEF Leaves, ZoneWritten, tables
<1>7. ReqInv(r)'
  <2>1. PcInv(r)' BY <1>1, <1>2, <1>4, <1>5 DEF ReqInv, PcInv
  <2>2. ArgsInv(r)'
    <3>1. ASSUME NEW i \in Request, Acked(i) PROVE Acked(i)' /\ req'[i] = req[i]
      BY <1>6, <3>1, AckedStays
    <3>2. \A i \in req[r].listed : i \in Request BY <1>1 DEF Req
    <3> QED BY <1>1, <1>2, <1>4, <3>1, <3>2 DEF ReqInv, ArgsInv
  <2>3. HoldInv(r)' BY <1>2, <1>4 DEF HoldInv
  <2>4. SeenInv(r)'
    BY <1>1, <1>2, <1>4, <1>5, <1>6, TargetKeeps DEF ReqInv, SeenInv, Owner, MayTouch
  <2> QED BY <2>1, <2>2, <2>3, <2>4 DEF ReqInv
<1> PICK S \in SUBSET Resource : S = locks[r] BY LocksKept
<1>8. locks' = [locks EXCEPT ![r] = S] /\ \A s \in Request \ {r} : S \cap locks[s] = {}
  BY LocksKept
<1>9. req[r].listed \subseteq t.listed /\ t.kind \notin {"bundle", "add"}
  BY <1>2, <1>5
<1>10. SubsWritten /\ RecordsWritten
  BY DEF IInv, TypeOK, SubsWritten, RecordsWritten, tables
<1> QED BY <1>2, <1>3, <1>6, <1>7, <1>8, <1>9, <1>10, WriteStep DEF tables

(* What is not written is written as it was. *)
LEMMA NothingWritten ==
  ASSUME IInv, NEW r \in Request
  PROVE  /\ subs' = subs => SubsWritten
         /\ records' = records => RecordsWritten
         /\ zone' = zone => ZoneWritten(r)
BY DEF IInv, TypeOK, SubsWritten, RecordsWritten, ZoneWritten

(* The row that was read is that of an acknowledged creation. *)
LEMMA CheckRecordStep ==
  ASSUME IInv, NEW r \in Request, CheckRecord(r)
  PROVE  IInv'
<1> DEFINE i == req[r].target
           rec == records[i]
<1>0. /\ req[r].kind \in {"update", "delete"} /\ req[r].pc = "check" /\ ReqInv(r)
      /\ req[r] \in Req /\ records \in [Request -> RecordRow \cup {NoRow}] /\ RowsInv
  BY DEF CheckRecord, At, IInv, TypeOK
<1>1. i \in Request BY <1>0 DEF ReqInv, ArgsInv
<1>2. CASE Refused(r) BY <1>0, <1>2, RefusedStep
<1>3. CASE rec # NoRow /\ DisableIfExpired(rec.sub) /\ Answers(r, "refused")
             /\ UNCHANGED <<domain, points, records, zone>>
  <2>1. rec.sub \in Request BY <1>0, <1>1, <1>3 DEF RecordRow
  <2> QED BY <1>0, <1>3, <2>1, DisableKept, NothingKept, AnswersStep
<1>4. CASE /\ rec # NoRow /\ MayTouch(r, rec.user)
           /\ req' = [req EXCEPT ![r] = [@ EXCEPT !.pc = "call", !.seen = rec]]
           /\ UNCHANGED <<tables, zone, locks>>
  <2> DEFINE t == [req[r] EXCEPT !.pc = "call", !.seen = rec]
  <2>1. rec \in RecordRow /\ rec.sub = req[i].target /\ rec.user = Owner(i)
    BY <1>0, <1>1, <1>4 DEF RowsInv
  <2>2. t \in Req
    <3> DEFINE q == [req[r] EXCEPT !.pc = "call"]
    <3>1. q \in Req BY <1>0 DEF Req
    <3> HIDE DEF q
    <3>2. [q EXCEPT !.seen = rec] \in Req BY <2>1, <3>1 DEF Req
    <3>3. [q EXCEPT !.seen = rec] = t BY Zenon DEF q
    <3> QED BY <3>2, <3>3
  <2>3. /\ t.kind = req[r].kind /\ t.user = req[r].user /\ t.target = i /\ t.name = req[r].name
        /\ t.value = req[r].value /\ t.answer = req[r].answer /\ t.listed = req[r].listed
        /\ t.earlier = req[r].earlier
        /\ t.pc = "call" /\ t.seen = rec
    BY <1>0 DEF Req
  <2>4. req' = [req EXCEPT ![r] = t] BY <1>4
  <2> HIDE DEF t
  <2>5. SubsKept /\ ZoneKept(r) BY <1>4, NothingKept DEF tables
  <2> PICK S \in SUBSET Resource : S = locks[r] BY LocksKept
  <2>6. locks' = [locks EXCEPT ![r] = S] /\ \A s \in Request \ {r} : S \cap locks[s] = {}
    BY <1>4, LocksKept
  <2>7. t.listed = {} BY <1>0, <2>3 DEF ReqInv, ArgsInv
  <2>8. req[r].pc \notin {"idle", "done"} /\ UNCHANGED <<domain, points, records>>
    BY <1>0, <1>4 DEF tables
  <2>9. /\ t.seen \in RecordRow /\ t.seen.sub = req[t.target].target
        /\ t.seen.user = Owner(t.target) /\ MayTouch(r, Owner(t.target))
    BY <1>4, <2>1, <2>3
  <2> QED BY <1>0, <2>2, <2>3, <2>4, <2>5, <2>6, <2>7, <2>8, <2>9, GoesOn
<1> QED BY <1>2, <1>3, <1>4 DEF CheckRecord

LEMMA CallUpdateStep ==
  ASSUME IInv, NEW r \in Request, CallUpdate(r)
  PROVE  IInv'
<1> DEFINE i == req[r].target
           updated == [zone EXCEPT ![i] = req[r].value]
<1>0. /\ req[r].kind = "update" /\ req[r].pc = "call" /\ UNCHANGED tables
      /\ i \in Request /\ Acked(i) /\ req[r].value \in Value
      /\ zone \in [Request -> Value \cup {NoRow}] /\ NoRow \notin Value
      /\ ~Creating(r)
  BY NoRowAssumption DEF CallUpdate, At, IInv, TypeOK, ReqInv, ArgsInv, Creating
<1>1. zone[i] # NoRow /\ zone' = updated => ZoneWritten(r) BY <1>0 DEF ZoneWritten
<1>2. CASE zone[i] # NoRow /\ zone' = updated /\ Goto(r, "save") /\ UNCHANGED locks
  BY <1>0, <1>1, <1>2, WriteGoto
<1>3. CASE zone' \in (IF zone[i] = NoRow THEN {zone} ELSE {zone, updated})
             /\ Answers(r, "upstream")
  BY <1>0, <1>1, <1>3, NothingWritten, WriteAnswers DEF tables
<1> QED BY <1>2, <1>3 DEF CallUpdate

(* The row that is written back has the owner it was read with. *)
LEMMA SaveRecordStep ==
  ASSUME IInv, NEW r \in Request, SaveRecord(r)
  PROVE  IInv'
<1> DEFINE i == req[r].target
           row == [req[r].seen EXCEPT !.value = req[r].value]
<1>0. /\ req[r].kind = "update" /\ req[r].pc = "save"
      /\ UNCHANGED <<domain, points, subs, zone>>
      /\ i \in Request /\ Acked(i) /\ req[r].value \in Value
      /\ req[r].seen \in RecordRow /\ req[r].seen.sub = req[i].target
      /\ req[r].seen.user = Owner(i)
      /\ records \in [Request -> RecordRow \cup {NoRow}] /\ NoRow \notin RecordRow
      /\ ~Creating(r)
  BY NoRowAssumption
  DEF SaveRecord, At, IInv, TypeOK, ReqInv, PcInv, ArgsInv, SeenInv, Creating
<1>1. row \in RecordRow /\ row.sub = req[i].target /\ row.user = Owner(i)
  BY <1>0 DEF RecordRow
<1>2. CASE records' = [records EXCEPT ![i] = row] /\ Answers(r, "ok")
  <2> HIDE DEF row
  <2>1. RecordsWritten BY <1>0, <1>1, <1>2 DEF RecordsWritten
  <2> QED BY <1>0, <1>2, <2>1, NothingWritten, WriteAnswers
<1>3. CASE UNCHANGED records /\ Answers(r, "save")
  BY <1>0, <1>3, NothingWritten, WriteAnswers
<1> QED BY <1>2, <1>3 DEF SaveRecord

LEMMA AskedTyped ==
  ASSUME NEW q \in Req
  PROVE  LET t == [q EXCEPT !.pc = "done", !.seen = NoRow, !.asked = TRUE,
                            !.answer = "upstream"]
         IN  t \in Req /\ t.listed = q.listed
<1> DEFINE q1 == [q EXCEPT !.pc = "done"]
           q2 == [q1 EXCEPT !.seen = NoRow]
           q3 == [q2 EXCEPT !.asked = TRUE]
           q4 == [q3 EXCEPT !.answer = "upstream"]
           t == [q EXCEPT !.pc = "done", !.seen = NoRow, !.asked = TRUE, !.answer = "upstream"]
<1>1. q1 \in Req /\ q1.listed = q.listed BY DEF Req
<1> HIDE DEF q1
<1>2. q2 \in Req /\ q2.listed = q.listed BY <1>1 DEF Req
<1> HIDE DEF q2
<1>3. q3 \in Req /\ q3.listed = q.listed
  <2>1. ASSUME NEW b \in BOOLEAN
        PROVE  [q2 EXCEPT !.asked = b] \in Req /\ [q2 EXCEPT !.asked = b].listed = q2.listed
    BY <1>2 DEF Req
  <2>2. q3 \in Req /\ q3.listed = q2.listed BY <2>1, Zenon
  <2> QED BY <1>2, <2>2
<1> HIDE DEF q3
<1>4. q4 \in Req /\ q4.listed = q.listed BY <1>3 DEF Req
<1>5. q4 = t BY Zenon DEF q1, q2, q3
<1> QED BY <1>4, <1>5

LEMMA CallDeleteStep ==
  ASSUME IInv, NEW r \in Request, CallDelete(r)
  PROVE  IInv'
<1> DEFINE i == req[r].target
           deleted == [zone EXCEPT ![i] = NoRow]
<1>0. /\ req[r].kind = "delete" /\ req[r].pc = "call" /\ UNCHANGED tables
      /\ i \in Request /\ Acked(i) /\ zone \in [Request -> Value \cup {NoRow}]
      /\ ~Creating(r) /\ req[r] \in Req
  BY DEF CallDelete, At, IInv, TypeOK, ReqInv, ArgsInv, Creating
<1>1. /\ zone' = deleted => ZoneWritten(r) /\ zone'[i] = NoRow
      /\ zone' = zone => ZoneWritten(r)
      /\ SubsWritten /\ RecordsWritten
  BY <1>0, NothingWritten DEF ZoneWritten, tables
<1>2. CASE zone' = deleted /\ AsksThenGoto(r, "remove") /\ UNCHANGED locks
  BY <1>0, <1>1, <1>2, WriteGoto
<1>3. CASE /\ zone' \in {zone, deleted}
           /\ req' = [req EXCEPT ![r] = [@ EXCEPT !.pc = "done", !.seen = NoRow,
                                                 !.asked = TRUE, !.answer = "upstream"]]
           /\ locks' = [locks EXCEPT ![r] = {}]
  <2> DEFINE t == [req[r] EXCEPT !.pc = "done", !.seen = NoRow, !.asked = TRUE,
                                 !.answer = "upstream"]
  <2>1. t \in Req /\ t.listed = req[r].listed BY <1>0, AskedTyped
  <2>2. /\ t.pc = "done" /\ t.answer = "upstream" /\ t.kind = req[r].kind
        /\ t.user = req[r].user /\ t.target = req[r].target /\ t.name = req[r].name
        /\ t.value = req[r].value /\ t.earlier = req[r].earlier
    BY <1>0 DEF Req
  <2>3. req' = [req EXCEPT ![r] = t] BY <1>3
  <2> HIDE DEF t
  <2>4. ZoneWritten(r) /\ UNCHANGED <<domain, points>> BY <1>0, <1>1, <1>3 DEF tables
  <2> QED BY <1>0, <1>1, <1>3, <2>1, <2>2, <2>3, <2>4, WriteEnds
<1> QED BY <1>2, <1>3 DEF CallDelete

(* The row goes when the remote record is gone. *)
LEMMA RemoveRecordStep ==
  ASSUME IInv, NEW r \in Request, RemoveRecord(r)
  PROVE  IInv'
<1> DEFINE i == req[r].target
<1>0. /\ req[r].kind = "delete" /\ req[r].pc = "remove"
      /\ UNCHANGED <<domain, points, subs, zone>>
      /\ i \in Request /\ zone[i] = NoRow
      /\ records \in [Request -> RecordRow \cup {NoRow}]
      /\ ~Creating(r)
  BY DEF RemoveRecord, At, IInv, TypeOK, ReqInv, PcInv, ArgsInv, SeenInv, Creating
<1>1. CASE records' = [records EXCEPT ![i] = NoRow] /\ Answers(r, "ok")
  <2>1. RecordsWritten BY <1>0, <1>1 DEF RecordsWritten
  <2> QED BY <1>0, <1>1, <2>1, NothingWritten, WriteAnswers
<1>2. CASE UNCHANGED records /\ Answers(r, "save")
  BY <1>0, <1>2, NothingWritten, WriteAnswers
<1> QED BY <1>1, <1>2 DEF RemoveRecord

(* The subdomain that was read belongs to whoever created it. *)
LEMMA CheckDeleteSubStep ==
  ASSUME IInv, NEW r \in Request, CheckDeleteSub(r)
  PROVE  IInv'
<1> DEFINE s == req[r].target
           allowed == subs[s] # NoRow /\ MayTouch(r, subs[s].user)
<1>0. /\ req[r].kind = "deleteSub" /\ req[r].pc = "check" /\ ReqInv(r) /\ RowsInv
  BY DEF CheckDeleteSub, At, IInv
<1>1. s \in Request BY <1>0 DEF ReqInv, ArgsInv
<1>2. CASE Refused(r) BY <1>0, <1>2, RefusedStep
<1>3. CASE DisableIfExpired(s) /\ Answers(r, "refused")
             /\ UNCHANGED <<domain, points, records, zone>>
  BY <1>0, <1>1, <1>3, DisableKept, NothingKept, AnswersStep
<1>4. CASE allowed /\ DisableIfExpired(s) /\ Goto(r, "list")
             /\ UNCHANGED <<locks, domain, points, records, zone>>
  <2>1. SubsKept /\ ZoneKept(r) BY <1>1, <1>4, DisableKept, NothingKept
  <2> PICK S \in SUBSET Resource : S = locks[r] BY LocksKept
  <2>2. locks' = [locks EXCEPT ![r] = S] /\ \A i \in Request \ {r} : S \cap locks[i] = {}
    BY <1>4, LocksKept
  <2>3. MayTouch(r, req[req[r].target].user) BY <1>0, <1>1, <1>4 DEF RowsInv
  <2> QED BY <1>0, <1>4, <2>1, <2>2, <2>3, PlainGoto
<1> QED BY <1>2, <1>3, <1>4 DEF CheckDeleteSub

(* The listed rows were inserted by creations in this subdomain. *)
LEMMA ListRecordsStep ==
  ASSUME IInv, NEW r \in Request, ListRecords(r)
  PROVE  IInv'
<1> DEFINE listed == {i \in Request : records[i] # NoRow /\ records[i].sub = req[r].target}
<1>0. /\ req[r].kind = "deleteSub" /\ req[r].pc = "list" /\ ReqInv(r) /\ RowsInv
      /\ req[r] \in Req
  BY DEF ListRecords, At, IInv, TypeOK, ReqInv, PcInv
<1>1. CASE Refused(r) BY <1>0, <1>1, RefusedStep
<1>2. CASE /\ req' = [req EXCEPT ![r] = [@ EXCEPT !.pc = "callDeletes", !.listed = listed]]
           /\ UNCHANGED <<tables, zone, locks>>
  <2> DEFINE t == [req[r] EXCEPT !.pc = "callDeletes", !.listed = listed]
  <2>0. \A i \in listed : i \in Request /\ Acked(i) /\ req[i].target = req[r].target
    BY <1>0 DEF RowsInv
  <2>1. listed \in SUBSET Request OBVIOUS
  <2> HIDE DEF listed
  <2>2. t \in Req
    <3> DEFINE q == [req[r] EXCEPT !.pc = "callDeletes"]
    <3>1. q \in Req BY <1>0 DEF Req
    <3> HIDE DEF q
    <3>2. [q EXCEPT !.listed = listed] \in Req BY <2>1, <3>1 DEF Req
    <3>3. [q EXCEPT !.listed = listed] = t BY Zenon DEF q
    <3> QED BY <3>2, <3>3
  <2>3. /\ t.kind = req[r].kind /\ t.user = req[r].user /\ t.target = req[r].target
        /\ t.name = req[r].name /\ t.value = req[r].value /\ t.answer = req[r].answer
        /\ t.earlier = req[r].earlier
        /\ t.seen = req[r].seen /\ t.pc = "callDeletes" /\ t.listed = listed
    BY <1>0 DEF Req
  <2>4. req' = [req EXCEPT ![r] = t] BY <1>2
  <2> HIDE DEF t
  <2>5. SubsKept /\ ZoneKept(r) BY <1>2, NothingKept DEF tables
  <2> PICK S \in SUBSET Resource : S = locks[r] BY LocksKept
  <2>6. locks' = [locks EXCEPT ![r] = S] /\ \A s \in Request \ {r} : S \cap locks[s] = {}
    BY <1>2, LocksKept
  <2>7. req[r].listed \subseteq t.listed BY <1>0 DEF ReqInv, PcInv
  <2>8. req[r].pc \notin {"idle", "done"} /\ UNCHANGED <<domain, points, records>>
    BY <1>0, <1>2 DEF tables
  <2>9. MayTouch(r, req[t.target].user) BY <1>0, <2>3 DEF ReqInv, SeenInv
  <2>10. \A i \in t.listed : /\ i \in Request /\ t.kind = "deleteSub"
                             /\ Acked(i) /\ req[i].target = t.target
    BY <1>0, <2>0, <2>3
  <2> QED BY <1>0, <2>2, <2>3, <2>4, <2>5, <2>6, <2>7, <2>8, <2>9, <2>10, GoesOn
<1> QED BY <1>1, <1>2 DEF ListRecords

LEMMA CallDeletesStep ==
  ASSUME IInv, NEW r \in Request, CallDeletes(r)
  PROVE  IInv'
<1>0. /\ req[r].kind = "deleteSub" /\ req[r].pc = "callDeletes" /\ ReqInv(r)
      /\ zone \in [Request -> Value \cup {NoRow}] /\ UNCHANGED <<tables, locks>>
      /\ AsksThenGoto(r, "removeSub")
  BY DEF CallDeletes, At, IInv, TypeOK, ReqInv, PcInv
<1>1. PICK gone \in SUBSET req[r].listed :
        zone' = [i \in Request |-> IF i \in gone THEN NoRow ELSE zone[i]]
  BY DEF CallDeletes
<1>2. ZoneWritten(r)
  <2>1. zone' \in [Request -> Value \cup {NoRow}] BY <1>0, <1>1
  <2>2. \A i \in req[r].listed : Acked(i) BY <1>0 DEF ReqInv, ArgsInv
  <2> QED BY <1>0, <1>1, <2>1, <2>2 DEF ZoneWritten
<1> QED BY <1>0, <1>2, WriteGoto

LEMMA RemoveSubdomainStep ==
  ASSUME IInv, NEW r \in Request, RemoveSubdomain(r)
  PROVE  IInv'
<1>0. /\ req[r].kind = "deleteSub" /\ req[r].pc = "removeSub" /\ ~Creating(r)
      /\ records \in [Request -> RecordRow \cup {NoRow}]
      /\ subs \in [Request -> SubRow \cup {NoRow}]
      /\ UNCHANGED <<domain, points, zone>>
  BY DEF RemoveSubdomain, At, IInv, TypeOK, ReqInv, PcInv, Creating
<1>1. CASE /\ records' = [i \in Request |-> IF i \in req[r].listed THEN NoRow ELSE records[i]]
           /\ subs' = [subs EXCEPT ![req[r].target] = NoRow]
           /\ Answers(r, "ok")
  <2>1. RecordsWritten
    <3>1. records' \in [Request -> RecordRow \cup {NoRow}] BY <1>0, <1>1
    <3> QED BY <1>0, <1>1, <3>1 DEF RecordsWritten
  <2>2. SubsWritten BY <1>0, <1>1 DEF SubsWritten
  <2> QED BY <1>0, <1>1, <2>1, <2>2, NothingWritten, WriteAnswers
<1>2. CASE UNCHANGED <<records, subs>> /\ Answers(r, "save")
  BY <1>0, <1>2, NothingWritten, WriteAnswers
<1> QED BY <1>1, <1>2 DEF RemoveSubdomain

(* A lost request leaves its rows and its locks as if it had not begun. *)
LEMMA FailStep ==
  ASSUME IInv, NEW r \in Request, Fail(r)
  PROVE  IInv'
BY AnswersStep, NothingKept DEF Fail, tables

(* What happens outside the requests. *)
LEMMA OutsideStep ==
  ASSUME IInv, UNCHANGED <<points, records, zone, req, locks>>,
         domain' \in {"active", "deleted"}, SubsKept
  PROVE  IInv'
<1>1. TypeOK' BY DEF IInv, TypeOK, SubsKept
<1>2. ASSUME NEW r \in Request PROVE ReqInv(r)'
  <2>1. PcInv(r)' BY DEF IInv, ReqInv, PcInv, Creating
  <2>2. ArgsInv(r)' BY DEF IInv, ReqInv, ArgsInv, Acked, Creating
  <2>3. HoldInv(r)' BY DEF IInv, ReqInv, HoldInv, SubsKept
  <2>4. SeenInv(r)' BY DEF IInv, ReqInv, SeenInv, Owner, MayTouch
  <2> QED BY <2>1, <2>2, <2>3, <2>4 DEF ReqInv
<1>3. HeldOnce' BY DEF IInv, HeldOnce
<1>4. RowsInv' BY DEF IInv, RowsInv, SubsKept, Acked, Creating, Owner
<1>5. FullDomainUnique' BY DEF IInv, FullDomainUnique, SubsKept
<1> QED BY <1>1, <1>2, <1>3, <1>4, <1>5 DEF IInv

LEMMA LapseStep ==
  ASSUME IInv, NEW s \in Request, Lapse(s)
  PROVE  IInv'
<1>1. /\ subs \in [Request -> SubRow \cup {NoRow}] /\ NoRow \notin SubRow
      /\ subs[s] # NoRow /\ domain \in {"active", "deleted"}
      /\ UNCHANGED <<domain, points, records, zone, req, locks>>
  BY NoRowAssumption DEF IInv, TypeOK, Lapse
<1> DEFINE row == [subs[s] EXCEPT !.lapsed = TRUE]
<1>2. row \in SubRow /\ row.user = subs[s].user /\ row.name = subs[s].name
  BY <1>1 DEF SubRow
<1>3. subs' = [subs EXCEPT ![s] = row] BY DEF Lapse
<1> HIDE DEF row
<1>4. SubsKept BY <1>1, <1>2, <1>3 DEF SubsKept
<1> QED BY <1>1, <1>4, OutsideStep

LEMMA DeleteDomainStep ==
  ASSUME IInv, DeleteDomain
  PROVE  IInv'
<1>1. SubsKept BY DEF IInv, TypeOK, SubsKept, DeleteDomain
<1> QED BY <1>1, OutsideStep DEF DeleteDomain

-----------------------------------------------------------------------------
(* The invariant, and what follows from it *)

LEMMA InitIInv == Init => IInv
<1> SUFFICES ASSUME Init PROVE IInv OBVIOUS
<1>1. Idle \in Req BY DEF Idle, Req
<1>2. TypeOK BY <1>1, RecordsAssumption DEF Init, TypeOK
<1>3. \A r \in Request : req[r] = Idle /\ ~Acked(r) BY DEF Init, Acked, Idle
<1>4. ASSUME NEW r \in Request PROVE ReqInv(r)
  <2>1. /\ req[r] = Idle /\ Idle.pc = "idle" /\ Idle.kind = "none" /\ Idle.listed = {}
        /\ Idle.answer = "none"
    BY <1>3 DEF Idle
  <2>2. PcInv(r) BY <2>1 DEF PcInv
  <2>3. ArgsInv(r) BY <2>1 DEF ArgsInv
  <2>4. HoldInv(r) /\ SeenInv(r) BY <2>1 DEF HoldInv, SeenInv
  <2> QED BY <2>2, <2>3, <2>4 DEF ReqInv
<1>5. HeldOnce /\ RowsInv /\ FullDomainUnique
  BY DEF Init, HeldOnce, RowsInv, FullDomainUnique
<1> QED BY <1>2, <1>4, <1>5 DEF IInv

LEMMA StepStep ==
  ASSUME IInv, NEW r \in Request, Step(r)
  PROVE  IInv'
BY CheckBundleStep, CheckAddStep, ChargeUserStep, InsertSubStep, CallCreateStep,
   CommitBundleStep, CommitAddStep, InsertFailsStep, CheckRecordStep, CallUpdateStep,
   SaveRecordStep, CallDeleteStep, RemoveRecordStep, CheckDeleteSubStep, ListRecordsStep,
   CallDeletesStep, RemoveSubdomainStep
DEF Step

LEMMA NextIInv == IInv /\ [Next]_vars => IInv'
<1> SUFFICES ASSUME IInv, [Next]_vars PROVE IInv' OBVIOUS
<1>1. CASE UNCHANGED vars
  <2>1. SubsKept BY <1>1, NothingKept DEF IInv, TypeOK, SubsKept, vars, tables
  <2> QED BY <1>1, <2>1, OutsideStep DEF vars, tables, IInv, TypeOK
<1>2. CASE Next
  <2>1. ASSUME NEW r \in Request, Arrival(r) \/ Step(r) \/ Fail(r) PROVE IInv'
    BY <2>1, ArrivalStep, StepStep, FailStep
  <2>2. ASSUME NEW s \in Request, Lapse(s) PROVE IInv' BY <2>2, LapseStep
  <2> QED BY <1>2, <2>1, <2>2, DeleteDomainStep DEF Next
<1> QED BY <1>1, <1>2

(* What a creation in progress has established cannot be undone by another *)
(* request (record/service.go:63-290), and an acknowledged row keeps its   *)
(* owner and its parent.                                                   *)
THEOREM RecordsInvariant == Spec => []IInv
<1>1. Init => IInv BY InitIInv
<1>2. IInv /\ [Next]_vars => IInv' BY NextIInv
<1> QED BY <1>1, <1>2, PTL DEF Spec

(* Every variable keeps its type; no balance goes below zero although the  *)
(* balance is compared before the provider is called and written after.    *)
THEOREM RecordsTypeOK == Spec => []TypeOK
<1>1. IInv => TypeOK BY DEF IInv
<1> QED BY <1>1, RecordsInvariant, PTL

(* Two subdomains never share a full domain (record/service.go:79-125). *)
THEOREM NamesAreUnique == Spec => []FullDomainUnique
<1>1. IInv => FullDomainUnique BY DEF IInv
<1> QED BY <1>1, RecordsInvariant, PTL

(* A row is written only by who was allowed to when it was read; the owner *)
(* of a row never changes, so it is still allowed.                         *)
LEMMA WriterIsAllowed ==
  ASSUME IInv, [Next]_vars, NEW i \in Request, records[i] # NoRow, records'[i] # records[i]
  PROVE  \E r \in Request : /\ req'[r] # req[r]
                            /\ req[r].user = records[i].user \/ req[r].user \in Admin
<1>0. /\ Acked(i) /\ records[i].user = Owner(i)
      /\ records \in [Request -> RecordRow \cup {NoRow}] /\ req \in [Request -> Req]
  BY DEF IInv, RowsInv, TypeOK
<1>1. PICK r \in Request :
        \/ CommitBundle(r) \/ CommitAdd(r) \/ SaveRecord(r)
        \/ RemoveRecord(r) \/ RemoveSubdomain(r)
  <2>1. records' # records OBVIOUS
  <2>2. ASSUME NEW r \in Request, Arrival(r) \/ Fail(r) PROVE FALSE
    BY <2>1, <2>2 DEF Arrival, CreateBundle, AddRecord, UpdateRecord, DeleteRecord,
                      DeleteSubdomain, Arrives, Fail, tables
  <2>3. ASSUME NEW s \in Request, Lapse(s) PROVE FALSE BY <2>1, <2>3 DEF Lapse
  <2>4. ~DeleteDomain BY <2>1 DEF DeleteDomain
  <2>5. ~UNCHANGED vars BY <2>1 DEF vars, tables
  <2>6. PICK r \in Request : Step(r) BY <2>2, <2>3, <2>4, <2>5 DEF Next
  <2>7. ~CheckBundle(r) /\ ~CheckAdd(r) /\ ~ChargeUser(r) /\ ~InsertSub(r) /\ ~CallCreate(r)
    BY <2>1 DEF CheckBundle, CheckAdd, ChargeUser, InsertSub, CallCreate, Refused, tables
  <2>8. /\ ~BundleInsertFails(r) /\ ~AddInsertFails(r) /\ ~CheckRecord(r) /\ ~CallUpdate(r)
        /\ ~CallDelete(r) /\ ~CheckDeleteSub(r) /\ ~ListRecords(r) /\ ~CallDeletes(r)
    BY <2>1 DEF BundleInsertFails, AddInsertFails, CheckRecord, CallUpdate, CallDelete,
                CheckDeleteSub, ListRecords, CallDeletes, Refused, tables
  <2> QED BY <2>6, <2>7, <2>8 DEF Step
<1>2. ReqInv(r) /\ req[r] \in Req BY <1>0 DEF IInv
<1>3. ASSUME NEW a \in {"ok", "save"}, Answers(r, a), req[r].pc # "done" PROVE req'[r] # req[r]
  BY <1>0, <1>2, <1>3 DEF Answers, Req
<1>4. CASE CommitBundle(r) \/ CommitAdd(r)
  <2>1. i = r BY <1>0, <1>4 DEF CommitBundle, CommitAdd
  <2>2. req[r].answer = "none" BY <1>2, <1>4 DEF CommitBundle, CommitAdd, At, ReqInv, PcInv
  <2> QED BY <1>0, <2>1, <2>2 DEF Acked
<1>5. CASE SaveRecord(r) \/ RemoveRecord(r)
  <2>1. i = req[r].target BY <1>0, <1>5 DEF SaveRecord, RemoveRecord
  <2>2. MayTouch(r, Owner(i)) /\ req[r].pc # "done"
    BY <1>2, <1>5, <2>1 DEF SaveRecord, RemoveRecord, At, ReqInv, SeenInv
  <2>3. req'[r] # req[r] BY <1>3, <1>5, <2>2 DEF SaveRecord, RemoveRecord
  <2> QED BY <1>0, <2>2, <2>3 DEF MayTouch
<1>6. CASE RemoveSubdomain(r)
  <2>1. i \in req[r].listed BY <1>0, <1>6 DEF RemoveSubdomain
  <2>2. MayTouch(r, req[req[r].target].user) /\ req[r].pc # "done"
    BY <1>2, <1>6 DEF RemoveSubdomain, At, ReqInv, SeenInv
  <2>3. Owner(i) = req[req[r].target].user BY <1>2, <2>1 DEF ReqInv, ArgsInv, Owner
  <2>4. req'[r] # req[r] BY <1>3, <1>6, <2>2 DEF RemoveSubdomain
  <2> QED BY <1>0, <2>2, <2>3, <2>4 DEF MayTouch
<1> QED BY <1>1, <1>4, <1>5, <1>6

(* A row changes or goes only by a request of its owner or of an            *)
(* administrator (docs/usage.md:19), whatever happened since that request   *)
(* was checked.                                                             *)
THEOREM OwnersKeepTheirRows == Spec => OnlyOwnerOrAdmin
<1>1. IInv /\ [Next]_vars =>
        [\A i \in Request :
           records[i] # NoRow /\ records'[i] # records[i] =>
             \E r \in Request : /\ req'[r] # req[r]
                                /\ \/ req[r].user = records[i].user
                                   \/ req[r].user \in Admin]_vars
  BY WriterIsAllowed
<1> QED BY <1>1, RecordsInvariant, PTL DEF Spec, OnlyOwnerOrAdmin

-----------------------------------------------------------------------------
(* The charges *)

PaidInv ==
    \A u \in User : /\ IsFiniteSet(Created(u))
                    /\ points[u] = Balance - Cost * Cardinality(Created(u))

LEMMA NoCreation ==
  ASSUME IInv, NEW r \in Request, NEW t, req' = [req EXCEPT ![r] = t],
         req[r].pc # "done", ~(t.kind \in {"bundle", "add"} /\ t.answer = "ok")
  PROVE  \A u \in User : Created(u)' = Created(u)
<1>1. ~Acked(r) BY DEF IInv, ReqInv, PcInv, Acked
<1>2. req'[r] = t /\ \A s \in Request \ {r} : req'[s] = req[s] BY DEF IInv, TypeOK
<1>3. ASSUME NEW u \in User, NEW i \in Request PROVE i \in Created(u)' <=> i \in Created(u)
  <2>1. CASE i = r BY <1>1, <1>2, <2>1 DEF Created, Acked, Creating
  <2>2. CASE i # r BY <1>2, <2>2 DEF Created, Creating
  <2> QED BY <2>1, <2>2
<1> QED BY <1>3 DEF Created

LEMMA NoCreationAnswers ==
  ASSUME IInv, NEW r \in Request, NEW a \in {"ok", "refused", "upstream", "save", "lost"},
         Answers(r, a), req[r].pc # "done", Creating(r) => a # "ok"
  PROVE  \A u \in User : Created(u)' = Created(u)
<1> DEFINE t == [req[r] EXCEPT !.pc = "done", !.seen = NoRow, !.answer = a]
<1>1. t.kind = req[r].kind /\ t.answer = a BY DEF IInv, TypeOK, Req
<1>2. req' = [req EXCEPT ![r] = t] BY DEF Answers
<1> HIDE DEF t
<1> QED BY <1>1, <1>2, NoCreation DEF Creating

LEMMA NoCreationGoto ==
  ASSUME IInv, NEW r \in Request, NEW p, Goto(r, p), req[r].pc # "done"
  PROVE  \A u \in User : Created(u)' = Created(u)
<1> DEFINE t == [req[r] EXCEPT !.pc = p]
<1>1. t.answer = req[r].answer /\ req[r].answer = "none"
  BY DEF IInv, TypeOK, Req, ReqInv, PcInv
<1>2. req' = [req EXCEPT ![r] = t] BY DEF Goto
<1> HIDE DEF t
<1> QED BY <1>1, <1>2, NoCreation

(* What a request comes with. *)
LEMMA ArrivalArgs ==
  ASSUME NEW r \in Request, Arrival(r)
  PROVE  \E args \in Req :
           /\ Arrives(r, args) /\ args.pc = "check" /\ args.answer = "none" /\ ~args.asked
           /\ args.earlier \subseteq Answered
           /\ args.kind = "update" => args.earlier = Answered
<1> DEFINE New == {a \in Req : /\ a.pc = "check" /\ a.answer = "none" /\ ~a.asked
                               /\ a.earlier \subseteq Answered
                               /\ a.kind = "update" => a.earlier = Answered}
<1>1. PICK u \in User :
        \/ \E n \in Name, v \in Value : CreateBundle(r, u, n, v)
        \/ \E s \in Request, v \in Value : AddRecord(r, u, s, v)
        \/ \E i \in Request, v \in Value : UpdateRecord(r, u, i, v)
        \/ \E i \in Request : DeleteRecord(r, u, i)
        \/ \E s \in Request : DeleteSubdomain(r, u, s)
  BY DEF Arrival
<1>2. ASSUME NEW n \in Name, NEW v \in Value, CreateBundle(r, u, n, v)
      PROVE  \E args \in New : Arrives(r, args)
  <2> DEFINE t == [Idle EXCEPT !.pc = "check", !.kind = "bundle", !.user = u, !.name = n,
                               !.target = r, !.value = v]
  <2>1. t \in New BY DEF Idle, Req
  <2> QED BY <1>2, <2>1 DEF CreateBundle
<1>3. ASSUME NEW s \in Request, NEW v \in Value, AddRecord(r, u, s, v)
      PROVE  \E args \in New : Arrives(r, args)
  <2> DEFINE t == [Idle EXCEPT !.pc = "check", !.kind = "add", !.user = u, !.target = s,
                               !.value = v]
  <2>1. t \in New BY DEF Idle, Req
  <2> QED BY <1>3, <2>1 DEF AddRecord
<1>4. ASSUME NEW i \in Request, NEW v \in Value, UpdateRecord(r, u, i, v)
      PROVE  \E args \in New : Arrives(r, args)
  <2> DEFINE t == [Idle EXCEPT !.pc = "check", !.kind = "update", !.user = u, !.target = i,
                               !.value = v, !.earlier = Answered]
  <2>1. t \in New BY DEF Idle, Req, Answered
  <2> QED BY <1>4, <2>1 DEF UpdateRecord
<1>5. ASSUME NEW i \in Request, DeleteRecord(r, u, i) PROVE \E args \in New : Arrives(r, args)
  <2> DEFINE t == [Idle EXCEPT !.pc = "check", !.kind = "delete", !.user = u, !.target = i,
                               !.earlier = Answered]
  <2>1. t \in New BY DEF Idle, Req, Answered
  <2> QED BY <1>5, <2>1 DEF DeleteRecord
<1>6. ASSUME NEW s \in Request, DeleteSubdomain(r, u, s)
      PROVE  \E args \in New : Arrives(r, args)
  <2> DEFINE t == [Idle EXCEPT !.pc = "check", !.kind = "deleteSub", !.user = u, !.target = s,
                               !.earlier = Answered]
  <2>1. t \in New BY DEF Idle, Req, Answered
  <2> QED BY <1>6, <2>1 DEF DeleteSubdomain
<1>7. PICK args \in New : Arrives(r, args) BY <1>1, <1>2, <1>3, <1>4, <1>5, <1>6
<1> QED BY <1>7

(* Only a commit takes points, and it acknowledges its creation. *)
LEMMA OnlyCommitsCharge ==
  ASSUME IInv, NEW r \in Request, Arrival(r) \/ Step(r) \/ Fail(r),
         ~CommitBundle(r), ~CommitAdd(r)
  PROVE  points' = points /\ \A u \in User : Created(u)' = Created(u)
<1>0. req[r] \in Req /\ ReqInv(r) BY DEF IInv, TypeOK
<1>1. CASE Arrival(r)
  <2>1. PICK args \in Req : Arrives(r, args) /\ args.answer = "none" BY <1>1, ArrivalArgs
  <2> QED BY <2>1, NoCreation DEF Arrives, At, tables
<1>2. CASE Fail(r) BY <1>2, NoCreationAnswers DEF Fail, tables
<1>3. CASE Step(r)
  <2>1. ASSUME Refused(r), req[r].pc # "done"
        PROVE  points' = points /\ \A u \in User : Created(u)' = Created(u)
    BY <2>1, NoCreationAnswers DEF Refused, tables
  <2>2. CASE CheckBundle(r)
    BY <2>1, <2>2, NoCreationGoto DEF CheckBundle, At, tables
  <2>3. ASSUME NEW p, NEW row, UNCHANGED points, req[r].pc # "done",
               req' = [req EXCEPT ![r] = [@ EXCEPT !.pc = p, !.seen = row]]
        PROVE  points' = points /\ \A u \in User : Created(u)' = Created(u)
    <3> DEFINE t == [req[r] EXCEPT !.pc = p, !.seen = row]
    <3>1. t.answer = req[r].answer /\ req[r].answer = "none"
      BY <1>0, <2>3 DEF Req, ReqInv, PcInv
    <3>2. req' = [req EXCEPT ![r] = t] BY <2>3
    <3> HIDE DEF t
    <3> QED BY <2>3, <3>1, <3>2, NoCreation
  <2>4. CASE CheckAdd(r)
    BY <2>1, <2>3, <2>4, NoCreationAnswers DEF CheckAdd, At, tables
  <2>5. CASE ChargeUser(r) BY <2>1, <2>5, NoCreationGoto DEF ChargeUser, At, tables
  <2>6. CASE InsertSub(r) BY <2>1, <2>6, NoCreationGoto DEF InsertSub, At, tables
  <2>7. CASE CallCreate(r)
    BY <2>7, NoCreationGoto, NoCreationAnswers DEF CallCreate, At, tables
  <2>8. CASE BundleInsertFails(r)
    <3> DEFINE t == [req[r] EXCEPT !.pc = "done", !.cleaned = TRUE, !.answer = "save"]
    <3>1. t.answer = "save" BY <1>0 DEF Req
    <3>2. req' = [req EXCEPT ![r] = t] BY <2>8 DEF BundleInsertFails
    <3> HIDE DEF t
    <3> QED BY <2>8, <3>1, <3>2, NoCreation DEF BundleInsertFails, At, tables
  <2>9. CASE AddInsertFails(r) BY <2>9, NoCreationAnswers DEF AddInsertFails, At, tables
  <2>10. CASE CheckRecord(r)
    BY <2>1, <2>3, <2>10, NoCreationAnswers DEF CheckRecord, At, tables
  <2>11. ASSUME req[r].pc \in {"save", "remove", "removeSub"} \/ req[r].kind \in {"update", "delete"}
         PROVE  ~Creating(r)
    BY <1>0, <2>11 DEF ReqInv, PcInv, Creating
  <2>12. CASE CallUpdate(r)
    BY <2>12, NoCreationGoto, NoCreationAnswers DEF CallUpdate, At, tables
  <2>13. CASE CallDelete(r)
    <3>1. PICK t : req' = [req EXCEPT ![r] = t] /\ t.answer \in {req[r].answer, "upstream"}
      <4> DEFINE t1 == [req[r] EXCEPT !.pc = "remove", !.asked = TRUE]
                 t2 == [req[r] EXCEPT !.pc = "done", !.seen = NoRow, !.asked = TRUE,
                                      !.answer = "upstream"]
      <4>1. t1.answer = req[r].answer /\ t2.answer = "upstream" BY <1>0 DEF Req
      <4>2. req' = [req EXCEPT ![r] = t1] \/ req' = [req EXCEPT ![r] = t2]
        BY <2>13 DEF CallDelete, AsksThenGoto
      <4> HIDE DEF t1, t2
      <4> QED BY <4>1, <4>2
    <3>2. req[r].answer = "none" BY <1>0, <2>13 DEF CallDelete, At, ReqInv, PcInv
    <3> QED BY <2>13, <3>1, <3>2, NoCreation DEF CallDelete, At, tables
  <2>14. CASE SaveRecord(r) BY <2>11, <2>14, NoCreationAnswers DEF SaveRecord, At
  <2>15. CASE RemoveRecord(r) BY <2>11, <2>15, NoCreationAnswers DEF RemoveRecord, At
  <2>16. CASE RemoveSubdomain(r) BY <2>11, <2>16, NoCreationAnswers DEF RemoveSubdomain, At
  <2>17. CASE CheckDeleteSub(r)
    BY <2>1, <2>17, NoCreationGoto, NoCreationAnswers DEF CheckDeleteSub, At, tables
  <2>18. CASE ListRecords(r)
    <3>1. CASE Refused(r) BY <2>1, <2>18, <3>1 DEF ListRecords, At
    <3>2. CASE ~Refused(r)
      <4>1. PICK l : req' = [req EXCEPT ![r] = [@ EXCEPT !.pc = "callDeletes", !.listed = l]]
        BY <2>18, <3>2 DEF ListRecords
      <4> DEFINE t == [req[r] EXCEPT !.pc = "callDeletes", !.listed = l]
      <4>2. t.answer = req[r].answer /\ req[r].answer = "none"
        BY <1>0, <2>18 DEF ListRecords, At, Req, ReqInv, PcInv
      <4>3. req' = [req EXCEPT ![r] = t] BY <4>1
      <4> HIDE DEF t
      <4> QED BY <2>18, <3>2, <4>2, <4>3, NoCreation DEF ListRecords, At, tables
    <3> QED BY <3>1, <3>2
  <2>19. CASE CallDeletes(r)
    <3>1. PICK t : req' = [req EXCEPT ![r] = t] /\ t.answer = req[r].answer
      <4> DEFINE t1 == [req[r] EXCEPT !.pc = "removeSub", !.asked = TRUE]
      <4>1. t1.answer = req[r].answer BY <1>0 DEF Req
      <4>2. req' = [req EXCEPT ![r] = t1] BY <2>19 DEF CallDeletes, AsksThenGoto
      <4> HIDE DEF t1
      <4> QED BY <4>1, <4>2
    <3>2. req[r].answer = "none" BY <1>0, <2>19 DEF CallDeletes, At, ReqInv, PcInv
    <3> QED BY <2>19, <3>1, <3>2, NoCreation DEF CallDeletes, At, tables
  <2> QED BY <1>3, <2>2, <2>4, <2>5, <2>6, <2>7, <2>8, <2>9, <2>10, <2>12, <2>13, <2>14,
             <2>15, <2>16, <2>17, <2>18, <2>19 DEF Step
<1> QED BY <1>1, <1>2, <1>3

LEMMA CommitPays ==
  ASSUME IInv, PaidInv, NEW r \in Request, CommitBundle(r) \/ CommitAdd(r)
  PROVE  PaidInv'
<1> DEFINE p == req[r].user
<1>0. /\ req[r] \in Req /\ ReqInv(r) /\ req[r].pc = "insertRecord" /\ p \in User
      /\ Creating(r) /\ ~Acked(r) /\ points \in [User -> Nat] /\ Answers(r, "ok")
      /\ Cost \in Nat /\ Balance \in Nat
      /\ points' = [points EXCEPT ![p] = @ - Cost]
  BY RecordsAssumption
  DEF IInv, TypeOK, ReqInv, PcInv, Acked, CommitBundle, CommitAdd, At
<1>1. /\ \A s \in Request \ {r} : req'[s] = req[s]
      /\ req'[r].kind = req[r].kind /\ req'[r].user = p /\ req'[r].answer = "ok"
  BY <1>0 DEF Answers, IInv, TypeOK, Req
<1>2. ASSUME NEW u \in User
      PROVE  IsFiniteSet(Created(u)') /\ points'[u] = Balance - Cost * Cardinality(Created(u)')
  <2>1. /\ IsFiniteSet(Created(u)) /\ Cardinality(Created(u)) \in Nat
        /\ points[u] = Balance - Cost * Cardinality(Created(u))
    BY FS_CardinalityType DEF PaidInv
  <2>2. CASE u = p
    <3>1. Created(u)' = Created(u) \cup {r} /\ r \notin Created(u)
      BY <1>0, <1>1, <2>2 DEF Created, Creating, Acked
    <3>2. /\ IsFiniteSet(Created(u)')
          /\ Cardinality(Created(u)') = Cardinality(Created(u)) + 1
      BY <2>1, <3>1, FS_AddElement
    <3>3. points'[u] = points[u] - Cost BY <1>0, <2>2
    <3> DEFINE n == Cardinality(Created(u))
               b == points[u]
    <3>4. n \in Nat /\ b \in Nat /\ b = Balance - Cost * n BY <1>0, <2>1
    <3> HIDE DEF n, b
    <3>5. b - Cost = Balance - Cost * (n + 1) BY <1>0, <3>4
    <3> QED BY <3>2, <3>3, <3>5 DEF n, b
  <2>3. CASE u # p
    <3>1. Created(u)' = Created(u) BY <1>0, <1>1, <2>3 DEF Created, Creating
    <3> QED BY <1>0, <2>1, <2>3, <3>1
  <2> QED BY <2>2, <2>3
<1> QED BY <1>2 DEF PaidInv

(* A user has paid for its acknowledged creations and for nothing else      *)
(* (docs/usage.md:16-18, record/service.go:105-110).                        *)
THEOREM CreationsArePaid == Spec => []ChargedForCreations
<1>1. Init => PaidInv
  <2> SUFFICES ASSUME Init, NEW u \in User
               PROVE  /\ IsFiniteSet(Created(u))
                      /\ points[u] = Balance - Cost * Cardinality(Created(u))
    BY DEF PaidInv
  <2>1. Created(u) = {} BY DEF Init, Created, Creating, Idle
  <2>2. IsFiniteSet({}) /\ Cardinality({}) = 0 BY FS_EmptySet
  <2>3. points[u] = Balance /\ Balance \in Nat /\ Cost \in Nat BY RecordsAssumption DEF Init
  <2> QED BY <2>1, <2>2, <2>3
<1>2. IInv /\ PaidInv /\ [Next]_vars => PaidInv'
  <2> SUFFICES ASSUME IInv, PaidInv, [Next]_vars PROVE PaidInv' OBVIOUS
  <2>1. ASSUME points' = points, \A u \in User : Created(u)' = Created(u) PROVE PaidInv'
    BY <2>1 DEF PaidInv
  <2>2. ASSUME points' = points, req' = req PROVE PaidInv'
    <3>1. \A u \in User : Created(u)' = Created(u) BY <2>2 DEF Created, Creating
    <3> QED BY <2>1, <2>2, <3>1
  <2>3. ASSUME NEW r \in Request, Arrival(r) \/ Step(r) \/ Fail(r) PROVE PaidInv'
    BY <2>1, <2>3, OnlyCommitsCharge, CommitPays
  <2>4. ASSUME NEW s \in Request, Lapse(s) PROVE PaidInv' BY <2>2, <2>4 DEF Lapse
  <2>5. CASE DeleteDomain BY <2>2, <2>5 DEF DeleteDomain
  <2>6. CASE UNCHANGED vars BY <2>2, <2>6 DEF vars, tables
  <2> QED BY <2>3, <2>4, <2>5, <2>6 DEF Next
<1>3. PaidInv => ChargedForCreations BY DEF PaidInv, ChargedForCreations
<1> QED BY <1>1, <1>2, <1>3, RecordsInvariant, PTL DEF Spec
-----------------------------------------------------------------------------
(* Values and orphans *)

Updates(r, i) == req[r].kind = "update" /\ req[r].target = i
Untouched(i) == \A r \in Request : ~Updates(r, i)
Overlapped(i) ==
    \E r, s \in Request : /\ Updates(r, i) /\ Updates(s, i) /\ r # s
                          /\ Overlap(r, s)
Latest(u, i) ==
    /\ Updates(u, i)
    /\ \A r \in Request \ {u} : Updates(r, i) => r \in req[u].earlier
RemovedSub(r) == req[r].kind = "deleteSub" /\ req[r].answer = "ok"

(* A subdomain goes by an acknowledged deletion of it. *)
GoneInv ==
    \A p \in Request :
      Acked(p) /\ req[p].kind = "bundle" /\ subs[p] = NoRow =>
        \E r \in Request : RemovedSub(r) /\ req[r].target = p

(* A row that went with its subdomain comes back by an update only. *)
BackInv ==
    \A r \in Request : \A i \in req[r].listed :
      RemovedSub(r) /\ records[i] # NoRow =>
        \E u \in Request : Updates(u, i) /\ req[u].answer = "ok"

(* What came before an update was over when it came. *)
EarlierInv == \A u \in Request : \A s \in req[u].earlier : s \in Request /\ At(s, "done")

(* The two copies of a record hold the value its creation gave it or, when *)
(* no two of its updates overlap, the one the latest of them did.          *)
ValueInv(i) ==
    /\ Acked(i) /\ Untouched(i) =>
         /\ records[i] # NoRow => records[i].value = req[i].value
         /\ zone[i] # NoRow => zone[i] = req[i].value
    /\ Untouched(i) \/ Overlapped(i) \/ \E u \in Request : Latest(u, i)
    /\ \A u \in Request : Latest(u, i) =>
         /\ (req[u].pc = "save" \/ req[u].answer = "ok") /\ zone[i] # NoRow =>
              zone[i] = req[u].value
         /\ req[u].answer = "ok" /\ records[i] # NoRow => records[i].value = req[u].value

CauseInv == GoneInv /\ BackInv /\ EarlierInv /\ \A i \in Request : ValueInv(i)

(* What a step of r does to rows, values and its own locals. *)
Moves(r) ==
    /\ req[r].pc # "done" /\ \A s \in Request \ {r} : req'[s] = req[s]
    /\ IF req[r].pc = "idle"
       THEN /\ req'[r].pc = "check" /\ req'[r].answer = "none"
            /\ req'[r].earlier \subseteq Answered
            /\ req'[r].kind = "update" => req'[r].earlier = Answered
       ELSE SameArgs(r)
    /\ \A p \in Request : subs[p] # NoRow /\ subs'[p] = NoRow =>
         RemovedSub(r)' /\ req'[r].target = p
    /\ Acked(r)' =>
         /\ req'[r].kind = "bundle" => subs'[r] # NoRow
         /\ records'[r] # NoRow /\ records'[r].value = req'[r].value
         /\ zone'[r] = req'[r].value
    /\ RemovedSub(r)' => \A i \in req'[r].listed : records'[i] = NoRow
    /\ \A i \in Request \ {r} :
         /\ zone'[i] # zone[i] => zone'[i] = NoRow \/ (Updates(r, i) /\ req[r].pc = "call")
         /\ records'[i] # records[i] =>
              records'[i] = NoRow \/ (Updates(r, i) /\ req'[r].answer = "ok")
         /\ Updates(r, i) /\ req'[r].pc = "save" => zone'[i] = req[r].value
         /\ Updates(r, i) /\ req'[r].answer = "ok" =>
              /\ req[r].pc = "save" /\ zone' = zone
              /\ records'[i] # NoRow /\ records'[i].value = req[r].value

LEMMA DoneStays ==
  ASSUME IInv, NEW r \in Request, Moves(r), NEW s \in Request, req[s].answer # "none"
  PROVE  req'[s] = req[s] /\ s # r
<1>1. PcInv(s) BY DEF IInv, ReqInv
<1> QED BY <1>1 DEF PcInv, Moves

LEMMA GoneKept ==
  ASSUME IInv, GoneInv, NEW r \in Request, Moves(r)
  PROVE  GoneInv'
<1> SUFFICES ASSUME NEW p \in Request, Acked(p)', req'[p].kind = "bundle", subs'[p] = NoRow
             PROVE  \E s \in Request : RemovedSub(s)' /\ req'[s].target = p
  BY DEF GoneInv
<1>1. p # r BY DEF Moves
<1>2. req'[p] = req[p] BY <1>1 DEF Moves
<1>3. Acked(p) /\ req[p].kind = "bundle" BY <1>2 DEF Acked, Creating
<1>4. CASE subs[p] # NoRow BY <1>4 DEF Moves
<1>5. CASE subs[p] = NoRow
  <2>1. PICK s \in Request : RemovedSub(s) /\ req[s].target = p BY <1>3, <1>5 DEF GoneInv
  <2>2. req'[s] = req[s] BY <2>1, DoneStays DEF RemovedSub
  <2> QED BY <2>1, <2>2 DEF RemovedSub
<1> QED BY <1>4, <1>5

LEMMA BackKept ==
  ASSUME IInv, BackInv, NEW r \in Request, Moves(r)
  PROVE  BackInv'
<1> SUFFICES ASSUME NEW s \in Request, NEW i \in req'[s].listed, RemovedSub(s)',
                    records'[i] # NoRow
             PROVE  \E u \in Request : Updates(u, i)' /\ req'[u].answer = "ok"
  BY DEF BackInv
<1>1. s # r BY DEF Moves
<1>2. req'[s] = req[s] BY <1>1 DEF Moves
<1>3. i \in req[s].listed /\ RemovedSub(s) BY <1>2 DEF RemovedSub
<1>4. req[s].listed \subseteq Request BY DEF IInv, TypeOK, Req
<1>5. i \in Request /\ Acked(i) BY <1>3, <1>4 DEF IInv, ReqInv, ArgsInv
<1>6. i # r BY <1>5, DoneStays DEF Acked
<1>7. CASE records[i] = NoRow
  <2>1. Updates(r, i) /\ req'[r].answer = "ok" BY <1>5, <1>6, <1>7 DEF Moves
  <2>2. req[r].pc # "idle" BY <2>1 DEF IInv, ReqInv, PcInv, Updates, Idle
  <2>3. Updates(r, i)' BY <2>1, <2>2 DEF Moves, SameArgs, Updates
  <2> QED BY <2>1, <2>3
<1>8. CASE records[i] # NoRow
  <2>1. PICK u \in Request : Updates(u, i) /\ req[u].answer = "ok" BY <1>3, <1>8 DEF BackInv
  <2>2. req'[u] = req[u] BY <2>1, DoneStays
  <2> QED BY <2>1, <2>2 DEF Updates
<1> QED BY <1>7, <1>8

(* A step leaves the updates under way what they are. *)
LEMMA UpdatesStay ==
  ASSUME IInv, NEW i \in Request, NEW r \in Request, Moves(r)
  PROVE  /\ \A s \in Request : Updates(s, i) => /\ Updates(s, i)' /\ req'[s].value = req[s].value
                                               /\ req'[s].earlier = req[s].earlier
         /\ \A s \in Request \ {r} : Updates(s, i)' <=> Updates(s, i)
         /\ req[r].pc # "idle" => (Updates(r, i)' <=> Updates(r, i))
<1>1. \A s \in Request \ {r} : req'[s] = req[s] BY DEF Moves
<1>2. req[r].pc = "idle" => ~Updates(r, i)
  BY DEF IInv, ReqInv, PcInv, Updates, Idle
<1>3. req[r].pc # "idle" => /\ Updates(r, i)' <=> Updates(r, i)
                            /\ req'[r].value = req[r].value
                            /\ req'[r].earlier = req[r].earlier
  BY DEF Moves, SameArgs, Updates
<1>4. \A s \in Request \ {r} : Updates(s, i)' <=> Updates(s, i) BY <1>1 DEF Updates
<1> QED BY <1>1, <1>2, <1>3, <1>4

LEMMA EarlierKept ==
  ASSUME IInv, EarlierInv, NEW r \in Request, Moves(r)
  PROVE  EarlierInv'
<1>1. ASSUME NEW s \in Request, At(s, "done") PROVE At(s, "done")'
  BY <1>1 DEF Moves, At
<1> SUFFICES ASSUME NEW u \in Request, NEW s \in req'[u].earlier
             PROVE  s \in Request /\ At(s, "done")'
  BY DEF EarlierInv
<1>2. CASE u = r /\ req[r].pc = "idle"
  <2>1. s \in Request /\ At(s, "done") BY <1>2 DEF Moves, Answered
  <2> QED BY <1>1, <2>1
<1>3. CASE ~(u = r /\ req[r].pc = "idle")
  <2>1. req'[u].earlier = req[u].earlier BY <1>3 DEF Moves, SameArgs
  <2>2. s \in Request /\ At(s, "done") BY <2>1 DEF EarlierInv
  <2> QED BY <1>1, <2>2
<1> QED BY <1>2, <1>3

(* An update that comes finds the others over, or overlaps one of them. *)
LEMMA LatestKept ==
  ASSUME IInv, EarlierInv, NEW i \in Request, NEW r \in Request, Moves(r),
         Untouched(i) \/ Overlapped(i) \/ \E u \in Request : Latest(u, i)
  PROVE  Untouched(i)' \/ Overlapped(i)' \/ \E u \in Request : Latest(u, i)'
<1>1. /\ \A s \in Request : Updates(s, i) => /\ Updates(s, i)'
                                             /\ req'[s].earlier = req[s].earlier
      /\ \A s \in Request \ {r} : Updates(s, i)' <=> Updates(s, i)
      /\ req[r].pc # "idle" => (Updates(r, i)' <=> Updates(r, i))
  BY UpdatesStay
<1>2. CASE \A s \in Request : Updates(s, i)' <=> Updates(s, i)
  <2>1. Untouched(i) => Untouched(i)' BY <1>2 DEF Untouched
  <2>2. Overlapped(i) => Overlapped(i)' BY <1>1 DEF Overlapped, Overlap
  <2>3. ASSUME NEW u \in Request, Latest(u, i) PROVE Latest(u, i)'
    BY <1>1, <1>2, <2>3 DEF Latest
  <2> QED BY <2>1, <2>2, <2>3
<1>3. CASE Updates(r, i)' /\ req[r].pc = "idle"
  <2>1. req'[r].earlier = Answered BY <1>3 DEF Moves, Updates
  <2>2. CASE \E s \in Request \ {r} : Updates(s, i) /\ ~At(s, "done")
    <3>1. PICK s \in Request \ {r} : Updates(s, i) /\ ~At(s, "done") BY <2>2
    <3>2. s \notin req'[r].earlier BY <2>1, <3>1 DEF Answered
    <3>3. r \notin req[s].earlier BY <1>3 DEF EarlierInv, At
    <3> QED BY <1>1, <1>3, <3>1, <3>2, <3>3 DEF Overlapped, Overlap
  <2>3. CASE \A s \in Request \ {r} : Updates(s, i) => At(s, "done")
    <3>1. Latest(r, i)' BY <1>1, <1>3, <2>1, <2>3 DEF Latest, Answered
    <3> QED BY <3>1
  <2> QED BY <2>2, <2>3
<1>4. req[r].pc = "idle" => ~Updates(r, i)
  BY DEF IInv, ReqInv, PcInv, Updates, Idle
<1> QED BY <1>1, <1>2, <1>3, <1>4

(* Only a request that comes can take the place of the latest update. *)
LEMMA LatestBefore ==
  ASSUME IInv, EarlierInv, NEW i \in Request, NEW r \in Request, Moves(r),
         NEW u \in Request, Latest(u, i)', ~(u = r /\ req[r].pc = "idle")
  PROVE  Latest(u, i) /\ req'[u].value = req[u].value /\ (u # r => ~Updates(r, i)')
<1>1. /\ \A s \in Request : Updates(s, i) => /\ Updates(s, i)' /\ req'[s].value = req[s].value
                                             /\ req'[s].earlier = req[s].earlier
      /\ \A s \in Request \ {r} : Updates(s, i)' <=> Updates(s, i)
      /\ req[r].pc # "idle" => (Updates(r, i)' <=> Updates(r, i))
  BY UpdatesStay
<1>2. Updates(u, i) BY <1>1 DEF Latest
<1>3. Latest(u, i) BY <1>1, <1>2 DEF Latest
<1>4. ASSUME u # r, Updates(r, i)' PROVE FALSE
  <2>1. r \in req[u].earlier BY <1>1, <1>2, <1>4 DEF Latest
  <2> QED BY <2>1 DEF EarlierInv, At, Moves
<1> QED BY <1>1, <1>2, <1>3, <1>4

LEMMA ValueKept ==
  ASSUME IInv, IInv', EarlierInv, NEW i \in Request, ValueInv(i), NEW r \in Request, Moves(r)
  PROVE  ValueInv(i)'
<1>0. Untouched(i)' \/ Overlapped(i)' \/ \E u \in Request : Latest(u, i)'
  BY LatestKept DEF ValueInv
<1>1. /\ \A s \in Request : Updates(s, i) => Updates(s, i)'
      /\ \A s \in Request \ {r} : Updates(s, i)' <=> Updates(s, i)
  BY UpdatesStay
<1>2. ASSUME NEW s \in Request, Updates(s, i) PROVE Acked(i) /\ i # s
  <2>1. Acked(i) BY <1>2 DEF IInv, ReqInv, ArgsInv, Updates
  <2> QED BY <1>2, <2>1 DEF Updates, Acked, Creating
<1>3. CASE i = r
  <2>1. \A s \in Request : ~Updates(s, i)
    <3>1. ~Acked(i) BY <1>3, DoneStays DEF Acked
    <3> QED BY <1>2, <3>1
  <2>2. \A u \in Request : Updates(u, i)' => u = r BY <1>1, <2>1
  <2>3. Updates(r, i)' => req'[r].pc # "save" /\ req'[r].answer # "ok"
    <3>1. ReqInv(r)' BY DEF IInv
    <3> QED BY <1>3, <3>1 DEF ReqInv, ArgsInv, Updates, Acked, Creating
  <2>4. Acked(i)' => records'[i].value = req'[i].value /\ zone'[i] = req'[i].value
    BY <1>3 DEF Moves
  <2> QED BY <1>0, <2>2, <2>3, <2>4 DEF ValueInv, Latest
<1>4. CASE i # r
  <2>1. req'[i] = req[i] /\ (Acked(i)' <=> Acked(i)) BY <1>4 DEF Moves, Acked, Creating
  <2>2. ~Updates(r, i) => /\ zone'[i] \in {zone[i], NoRow}
                          /\ records'[i] \in {records[i], NoRow}
    BY <1>4 DEF Moves
  <2>3. Untouched(i)' => Untouched(i) /\ ~Updates(r, i) BY <1>1 DEF Untouched
  <2>4. Acked(i)' /\ Untouched(i)' =>
          /\ records'[i] # NoRow => records'[i].value = req'[i].value
          /\ zone'[i] # NoRow => zone'[i] = req'[i].value
    BY <2>1, <2>2, <2>3 DEF ValueInv
  <2>5. ASSUME NEW u \in Request, Latest(u, i)'
        PROVE  /\ (req'[u].pc = "save" \/ req'[u].answer = "ok") /\ zone'[i] # NoRow =>
                    zone'[i] = req'[u].value
               /\ req'[u].answer = "ok" /\ records'[i] # NoRow =>
                    records'[i].value = req'[u].value
    <3>1. CASE u # r
      <4>1. /\ Latest(u, i) /\ req'[u] = req[u] /\ ~Updates(r, i)
        BY <1>1, <2>5, <3>1, LatestBefore DEF Moves
      <4> QED BY <2>2, <4>1 DEF ValueInv
    <3>2. CASE u = r /\ req[r].pc = "idle" BY <3>2 DEF Moves
    <3>3. CASE u = r /\ req[r].pc # "idle"
      <4>1. Latest(r, i) /\ req'[r].value = req[r].value BY <2>5, <3>3, LatestBefore
      <4>2. Updates(r, i) BY <4>1 DEF Latest
      <4>3. req'[r].pc = "save" => zone'[i] = req[r].value BY <1>4, <4>2 DEF Moves
      <4>4. req'[r].answer = "ok" => /\ req[r].pc = "save" /\ zone'[i] = zone[i]
                                     /\ records'[i].value = req[r].value
        BY <1>4, <4>2 DEF Moves
      <4>5. req[r].pc = "save" /\ zone[i] # NoRow => zone[i] = req[r].value
        BY <4>1 DEF ValueInv
      <4> QED BY <3>3, <4>1, <4>3, <4>4, <4>5
    <3> QED BY <3>1, <3>2, <3>3
  <2> QED BY <1>0, <2>4, <2>5 DEF ValueInv
<1> QED BY <1>3, <1>4

LEMMA CauseKept ==
  ASSUME IInv, IInv', CauseInv, NEW r \in Request, Moves(r)
  PROVE  CauseInv'
<1>1. GoneInv' /\ BackInv' /\ EarlierInv' BY GoneKept, BackKept, EarlierKept DEF CauseInv
<1>2. \A i \in Request : ValueInv(i)' BY ValueKept DEF CauseInv
<1> QED BY <1>1, <1>2 DEF CauseInv

(* The locals after a step. *)
LEMMA AnswersLocals ==
  ASSUME IInv, NEW r \in Request, NEW a \in {"ok", "refused", "upstream", "save", "lost"},
         Answers(r, a)
  PROVE  /\ req'[r].pc = "done" /\ req'[r].answer = a
         /\ req'[r].listed = req[r].listed /\ req'[r].asked = req[r].asked
         /\ SameArgs(r) /\ \A s \in Request \ {r} : req'[s] = req[s]
<1> DEFINE t == [req[r] EXCEPT !.pc = "done", !.seen = NoRow, !.answer = a]
<1>1. /\ t.pc = "done" /\ t.answer = a /\ t.kind = req[r].kind
      /\ t.user = req[r].user /\ t.target = req[r].target /\ t.name = req[r].name
      /\ t.value = req[r].value /\ t.listed = req[r].listed /\ t.asked = req[r].asked
      /\ t.earlier = req[r].earlier
  BY DEF IInv, TypeOK, Req
<1>2. req' = [req EXCEPT ![r] = t] BY DEF Answers
<1> HIDE DEF t
<1>3. req'[r] = t /\ \A s \in Request \ {r} : req'[s] = req[s] BY <1>2 DEF IInv, TypeOK
<1> QED BY <1>1, <1>3 DEF SameArgs

LEMMA GotoLocals ==
  ASSUME IInv, NEW r \in Request, NEW p, Goto(r, p)
  PROVE  /\ req'[r].pc = p /\ req'[r].answer = req[r].answer /\ SameArgs(r)
         /\ req'[r].listed = req[r].listed /\ req'[r].asked = req[r].asked
         /\ \A s \in Request \ {r} : req'[s] = req[s]
BY DEF IInv, TypeOK, Req, Goto, SameArgs

LEMMA SeesLocals ==
  ASSUME IInv, NEW r \in Request, NEW p, NEW row,
         req' = [req EXCEPT ![r] = [@ EXCEPT !.pc = p, !.seen = row]]
  PROVE  /\ req'[r].pc = p /\ req'[r].answer = req[r].answer /\ SameArgs(r)
         /\ req'[r].listed = req[r].listed /\ req'[r].asked = req[r].asked
         /\ \A s \in Request \ {r} : req'[s] = req[s]
<1> DEFINE t == [req[r] EXCEPT !.pc = p, !.seen = row]
<1>1. /\ t.pc = p /\ t.answer = req[r].answer /\ t.kind = req[r].kind
      /\ t.user = req[r].user /\ t.target = req[r].target /\ t.name = req[r].name
      /\ t.value = req[r].value /\ t.earlier = req[r].earlier
      /\ t.listed = req[r].listed /\ t.asked = req[r].asked
  BY DEF IInv, TypeOK, Req
<1>2. req' = [req EXCEPT ![r] = t] OBVIOUS
<1> HIDE DEF t
<1>3. req'[r] = t /\ \A s \in Request \ {r} : req'[s] = req[s] BY <1>2 DEF IInv, TypeOK
<1> QED BY <1>1, <1>3 DEF SameArgs

LEMMA AsksLocals ==
  ASSUME IInv, NEW r \in Request, NEW p, AsksThenGoto(r, p)
  PROVE  /\ req'[r].pc = p /\ req'[r].answer = req[r].answer /\ SameArgs(r)
         /\ req'[r].listed = req[r].listed /\ req'[r].asked
         /\ \A s \in Request \ {r} : req'[s] = req[s]
BY DEF IInv, TypeOK, Req, AsksThenGoto, SameArgs

LEMMA FailedLocals ==
  ASSUME IInv, NEW r \in Request,
         req' = [req EXCEPT ![r] = [@ EXCEPT !.pc = "done", !.seen = NoRow, !.asked = TRUE,
                                           !.answer = "upstream"]]
  PROVE  /\ req'[r].pc = "done" /\ req'[r].answer = "upstream" /\ SameArgs(r)
         /\ req'[r].listed = req[r].listed /\ req'[r].asked
         /\ \A s \in Request \ {r} : req'[s] = req[s]
<1> DEFINE t == [req[r] EXCEPT !.pc = "done", !.seen = NoRow, !.asked = TRUE,
                               !.answer = "upstream"]
<1>1. /\ t.pc = "done" /\ t.answer = "upstream" /\ t.kind = req[r].kind
      /\ t.user = req[r].user /\ t.target = req[r].target /\ t.name = req[r].name
      /\ t.value = req[r].value /\ t.earlier = req[r].earlier
      /\ t.asked /\ t.listed = req[r].listed
  <2>0. req[r] \in Req BY DEF IInv, TypeOK
  <2>1. t.listed = req[r].listed BY <2>0, AskedTyped
  <2> QED BY <2>0, <2>1 DEF Req
<1>2. req' = [req EXCEPT ![r] = t] OBVIOUS
<1> HIDE DEF t
<1>3. req'[r] = t /\ \A s \in Request \ {r} : req'[s] = req[s] BY <1>2 DEF IInv, TypeOK
<1> QED BY <1>1, <1>3 DEF SameArgs

(* A remote record that r may touch: its own, one that goes, or one it updates. *)
ZoneMoves(r) ==
    \A i \in Request \ {r} :
      zone'[i] # zone[i] => zone'[i] = NoRow \/ (Updates(r, i) /\ req[r].pc = "call")

(* A step that acknowledges nothing and writes no row of records. *)
LEMMA QuietMoves ==
  ASSUME IInv, NEW r \in Request, req[r].pc \notin {"idle", "done"},
         \A s \in Request \ {r} : req'[s] = req[s], SameArgs(r),
         req'[r].answer # "ok",
         \A i \in Request : Updates(r, i) /\ req'[r].pc = "save" => zone'[i] = req[r].value,
         UNCHANGED records, SubsKept, ZoneMoves(r)
  PROVE  Moves(r)
<1>1. ~Acked(r)' /\ ~RemovedSub(r)' BY DEF Acked, RemovedSub
<1>2. \A p \in Request : ~(subs[p] # NoRow /\ subs'[p] = NoRow) BY DEF SubsKept
<1> QED BY <1>1, <1>2 DEF Moves, ZoneMoves

LEMMA AnswersMoves ==
  ASSUME IInv, NEW r \in Request, NEW a \in {"refused", "upstream", "save", "lost"},
         Answers(r, a), req[r].pc \notin {"idle", "done"},
         UNCHANGED records, SubsKept, ZoneMoves(r)
  PROVE  Moves(r)
<1>1. /\ req'[r].pc = "done" /\ req'[r].answer = a /\ SameArgs(r)
      /\ \A s \in Request \ {r} : req'[s] = req[s]
  BY AnswersLocals
<1> QED BY <1>1, QuietMoves

LEMMA GotoMoves ==
  ASSUME IInv, NEW r \in Request, NEW p,
         req[r].pc \notin {"idle", "done"}, p # "save",
         \/ Goto(r, p) \/ AsksThenGoto(r, p)
         \/ \E row : req' = [req EXCEPT ![r] = [@ EXCEPT !.pc = p, !.seen = row]],
         UNCHANGED records, SubsKept, ZoneMoves(r)
  PROVE  Moves(r)
<1>1. /\ req'[r].pc = p /\ req'[r].answer = req[r].answer /\ SameArgs(r)
      /\ \A s \in Request \ {r} : req'[s] = req[s]
  <2>1. CASE Goto(r, p) BY <2>1, GotoLocals
  <2>3. CASE AsksThenGoto(r, p) BY <2>3, AsksLocals
  <2>2. CASE \E row : req' = [req EXCEPT ![r] = [@ EXCEPT !.pc = p, !.seen = row]]
    <3>1. PICK row : req' = [req EXCEPT ![r] = [@ EXCEPT !.pc = p, !.seen = row]] BY <2>2
    <3> QED BY <3>1, SeesLocals
  <2> QED BY <2>1, <2>2, <2>3
<1>2. req[r].answer = "none" BY DEF IInv, ReqInv, PcInv
<1> QED BY <1>1, <1>2, QuietMoves

LEMMA RefusedMoves ==
  ASSUME IInv, NEW r \in Request, Refused(r), req[r].pc \notin {"idle", "done"}
  PROVE  Moves(r)
<1>1. SubsKept /\ ZoneMoves(r) BY NothingKept DEF Refused, tables, ZoneMoves
<1> QED BY <1>1, AnswersMoves DEF Refused, tables

LEMMA ArrivalMoves ==
  ASSUME IInv, NEW r \in Request, Arrival(r)
  PROVE  Moves(r)
<1>1. PICK args \in Req :
        /\ Arrives(r, args) /\ args.pc = "check" /\ args.answer = "none"
        /\ args.earlier \subseteq Answered
        /\ args.kind = "update" => args.earlier = Answered
  BY ArrivalArgs
<1>2. /\ req'[r] = args /\ \A s \in Request \ {r} : req'[s] = req[s]
      /\ req[r].pc = "idle" /\ UNCHANGED <<tables, zone>>
  BY <1>1 DEF Arrives, At, IInv, TypeOK
<1>3. \A i \in Request : ~Updates(r, i) BY <1>2 DEF IInv, ReqInv, PcInv, Idle, Updates
<1>4. /\ req'[r].pc = "check" /\ req'[r].answer = "none" /\ req'[r].earlier \subseteq Answered
      /\ req'[r].kind = "update" => req'[r].earlier = Answered
  BY <1>1, <1>2
<1>5. ~Acked(r)' /\ ~RemovedSub(r)' BY <1>4 DEF Acked, RemovedSub
<1> QED BY <1>2, <1>3, <1>4, <1>5 DEF Moves, tables
LEMMA CreationMoves ==
  ASSUME IInv, NEW r \in Request,
         CheckBundle(r) \/ CheckAdd(r) \/ ChargeUser(r) \/ InsertSub(r) \/ CallCreate(r)
  PROVE  Moves(r)
<1>0. req[r].pc \notin {"idle", "done"}
  BY DEF CheckBundle, CheckAdd, ChargeUser, InsertSub, CallCreate, At
<1>1. subs' = subs => SubsKept BY NothingKept
<1>2. CASE CheckBundle(r)
  BY <1>0, <1>1, <1>2, RefusedMoves, GotoMoves DEF CheckBundle, tables, ZoneMoves
<1>3. CASE CheckAdd(r)
  <2> DEFINE s == req[r].target
  <2>1. s \in Request BY <1>3 DEF CheckAdd, IInv, ReqInv, ArgsInv
  <2>2. CASE Refused(r) BY <1>0, <2>2, RefusedMoves
  <2>3. CASE DisableIfExpired(s) /\ Answers(r, "refused")
               /\ UNCHANGED <<domain, points, records, zone>>
    BY <1>0, <2>1, <2>3, DisableKept, AnswersMoves DEF ZoneMoves
  <2>4. CASE /\ req' = [req EXCEPT ![r] = [@ EXCEPT !.pc = "charge", !.seen = subs[s]]]
             /\ UNCHANGED <<tables, zone, locks>>
    BY <1>0, <1>1, <2>4, GotoMoves DEF tables, ZoneMoves
  <2> QED BY <1>3, <2>2, <2>3, <2>4 DEF CheckAdd
<1>4. CASE ChargeUser(r)
  <2>1. AfterCharge(r) # "save" BY DEF AfterCharge
  <2> QED BY <1>0, <1>1, <1>4, <2>1, RefusedMoves, GotoMoves DEF ChargeUser, tables, ZoneMoves
<1>5. CASE InsertSub(r)
  BY <1>0, <1>1, <1>5, RefusedMoves, GotoMoves DEF InsertSub, tables, ZoneMoves
<1>6. CASE CallCreate(r)
  <2>1. \A i \in Request \ {r} : zone'[i] = zone[i] BY <1>6 DEF CallCreate, IInv, TypeOK
  <2>2. ZoneMoves(r) BY <2>1 DEF ZoneMoves
  <2> QED BY <1>0, <1>1, <1>6, <2>2, AnswersMoves, GotoMoves DEF CallCreate, tables
<1> QED BY <1>2, <1>3, <1>4, <1>5, <1>6

LEMMA InsertFailsMoves ==
  ASSUME IInv, NEW r \in Request, BundleInsertFails(r) \/ AddInsertFails(r)
  PROVE  Moves(r)
<1>0. req[r].pc \notin {"idle", "done"} BY DEF BundleInsertFails, AddInsertFails, At
<1>1. subs' = subs => SubsKept BY NothingKept
<1>2. CASE AddInsertFails(r)
  BY <1>0, <1>1, <1>2, AnswersMoves DEF AddInsertFails, tables, ZoneMoves
<1>3. CASE BundleInsertFails(r)
  <2> DEFINE t == [req[r] EXCEPT !.pc = "done", !.cleaned = TRUE, !.answer = "save"]
  <2>1. /\ t.pc = "done" /\ t.answer = "save" /\ t.kind = req[r].kind
        /\ t.user = req[r].user /\ t.target = req[r].target /\ t.name = req[r].name
        /\ t.value = req[r].value /\ t.earlier = req[r].earlier
    BY DEF IInv, TypeOK, Req
  <2>2. req' = [req EXCEPT ![r] = t] BY <1>3 DEF BundleInsertFails
  <2> HIDE DEF t
  <2>3. req'[r] = t /\ \A s \in Request \ {r} : req'[s] = req[s] BY <2>2 DEF IInv, TypeOK
  <2>4. SameArgs(r) BY <2>1, <2>3 DEF SameArgs
  <2>5. \A i \in Request \ {r} : zone'[i] = zone[i] BY <1>3 DEF BundleInsertFails, IInv, TypeOK
  <2>6. ZoneMoves(r) BY <2>5 DEF ZoneMoves
  <2> QED BY <1>0, <1>1, <1>3, <2>1, <2>3, <2>4, <2>6, QuietMoves DEF BundleInsertFails, tables
<1> QED BY <1>2, <1>3

LEMMA CommitMoves ==
  ASSUME IInv, NEW r \in Request, CommitBundle(r) \/ CommitAdd(r)
  PROVE  Moves(r)
<1>0. /\ req[r].pc = "insertRecord" /\ ReqInv(r) /\ req[r] \in Req /\ Creating(r)
      /\ Answers(r, "ok") /\ zone' = zone /\ req[r].value \in Value
      /\ subs \in [Request -> SubRow \cup {NoRow}]
      /\ records \in [Request -> RecordRow \cup {NoRow}]
      /\ NoRow \notin SubRow \cup RecordRow
  BY NoRowAssumption
  DEF CommitBundle, CommitAdd, At, IInv, TypeOK, Creating, ReqInv, ArgsInv
<1>1. /\ req'[r].pc = "done" /\ req'[r].answer = "ok" /\ SameArgs(r)
      /\ \A s \in Request \ {r} : req'[s] = req[s]
  BY <1>0, AnswersLocals
<1>2. zone'[r] = req'[r].value BY <1>0, <1>1 DEF ReqInv, HoldInv, SameArgs
<1>3. ~RemovedSub(r)' /\ \A i \in Request : ~Updates(r, i)
  BY <1>0, <1>1 DEF RemovedSub, Updates, Creating, SameArgs
<1>4. CASE CommitBundle(r)
  <2> DEFINE sub == [user |-> req[r].user, name |-> req[r].name,
                     active |-> TRUE, lapsed |-> FALSE]
             row == [user |-> req[r].user, sub |-> r, value |-> req[r].value]
  <2>1. req[r].kind = "bundle" BY <1>4 DEF CommitBundle
  <2>2. sub \in SubRow /\ row \in RecordRow /\ row.value = req[r].value
    BY <1>0, <2>1 DEF SubRow, RecordRow, ReqInv, PcInv, ArgsInv
  <2>3. sub # NoRow /\ row # NoRow BY <1>0, <2>2
  <2>4. subs' = [subs EXCEPT ![r] = sub] /\ records' = [records EXCEPT ![r] = row]
    BY <1>4 DEF CommitBundle
  <2> HIDE DEF sub, row
  <2>5. /\ subs'[r] # NoRow /\ records'[r] # NoRow /\ records'[r].value = req'[r].value
        /\ \A p \in Request : subs[p] # NoRow => subs'[p] # NoRow
        /\ \A i \in Request \ {r} : records'[i] = records[i]
    BY <1>0, <1>1, <2>2, <2>3, <2>4 DEF SameArgs
  <2> QED BY <1>0, <1>1, <1>2, <1>3, <2>5 DEF Moves
<1>5. CASE CommitAdd(r)
  <2> DEFINE row == [user |-> req[r].seen.user, sub |-> req[r].target, value |-> req[r].value]
  <2>1. req[r].kind = "add" BY <1>5 DEF CommitAdd
  <2>2. row \in RecordRow /\ row.value = req[r].value
    BY <1>0, <2>1 DEF RecordRow, SubRow, ReqInv, SeenInv, ArgsInv
  <2>3. row # NoRow BY <1>0, <2>2
  <2>4. subs' = subs /\ records' = [records EXCEPT ![r] = row] BY <1>5 DEF CommitAdd
  <2> HIDE DEF row
  <2>5. /\ records'[r] # NoRow /\ records'[r].value = req'[r].value
        /\ \A i \in Request \ {r} : records'[i] = records[i]
    BY <1>0, <1>1, <2>2, <2>3, <2>4 DEF SameArgs
  <2>6. req'[r].kind # "bundle" BY <1>1, <2>1 DEF SameArgs
  <2> QED BY <1>0, <1>1, <1>2, <1>3, <2>4, <2>5, <2>6 DEF Moves
<1> QED BY <1>4, <1>5

LEMMA RecordMoves ==
  ASSUME IInv, NEW r \in Request, CheckRecord(r) \/ CallUpdate(r) \/ CallDelete(r)
  PROVE  Moves(r)
<1>0. /\ req[r].pc \notin {"idle", "done"} /\ req[r].target \in Request
      /\ req[r].answer = "none" /\ zone \in [Request -> Value \cup {NoRow}]
  BY DEF CheckRecord, CallUpdate, CallDelete, At, IInv, TypeOK, ReqInv, ArgsInv, PcInv
<1>1. subs' = subs => SubsKept BY NothingKept
<1>2. CASE CheckRecord(r)
  <2> DEFINE rec == records[req[r].target]
  <2>1. CASE Refused(r) BY <1>0, <2>1, RefusedMoves
  <2>2. CASE rec # NoRow /\ DisableIfExpired(rec.sub) /\ Answers(r, "refused")
               /\ UNCHANGED <<domain, points, records, zone>>
    <3>1. rec.sub \in Request BY <1>0, <2>2 DEF IInv, TypeOK, RecordRow
    <3> QED BY <1>0, <2>2, <3>1, DisableKept, AnswersMoves DEF ZoneMoves
  <2>3. CASE /\ req' = [req EXCEPT ![r] = [@ EXCEPT !.pc = "call", !.seen = rec]]
             /\ UNCHANGED <<tables, zone, locks>>
    BY <1>0, <1>1, <2>3, GotoMoves DEF tables, ZoneMoves
  <2> QED BY <1>2, <2>1, <2>2, <2>3 DEF CheckRecord
<1>3. CASE CallUpdate(r)
  <2> DEFINE i == req[r].target
             updated == [zone EXCEPT ![i] = req[r].value]
  <2>1. Updates(r, i) /\ req[r].pc = "call" BY <1>3 DEF CallUpdate, Updates, At
  <2>2. \A j \in Request : updated[j] # zone[j] => j = i BY <1>0
  <2>3. ZoneMoves(r) BY <1>3, <2>1, <2>2 DEF ZoneMoves, CallUpdate
  <2>4. CASE Answers(r, "upstream")
    BY <1>0, <1>1, <1>3, <2>3, <2>4, AnswersMoves DEF CallUpdate, tables
  <2>5. CASE zone' = updated /\ Goto(r, "save")
    <3>1. /\ req'[r].pc = "save" /\ req'[r].answer = "none" /\ SameArgs(r)
          /\ \A s \in Request \ {r} : req'[s] = req[s]
      BY <1>0, <2>5, GotoLocals
    <3>2. \A j \in Request : Updates(r, j) => zone'[j] = req[r].value
      BY <1>0, <2>5 DEF Updates
    <3> QED BY <1>0, <1>1, <1>3, <2>3, <3>1, <3>2, QuietMoves DEF CallUpdate, tables
  <2> QED BY <1>3, <2>4, <2>5 DEF CallUpdate
<1>4. CASE CallDelete(r)
  <2> DEFINE deleted == [zone EXCEPT ![req[r].target] = NoRow]
  <2>1. \A j \in Request : deleted[j] # zone[j] => deleted[j] = NoRow BY <1>0
  <2>2. ZoneMoves(r) BY <1>4, <2>1 DEF ZoneMoves, CallDelete
  <2>3. CASE AsksThenGoto(r, "remove")
    BY <1>0, <1>1, <1>4, <2>2, <2>3, GotoMoves DEF CallDelete, tables
  <2>4. CASE req' = [req EXCEPT ![r] = [@ EXCEPT !.pc = "done", !.seen = NoRow, !.asked = TRUE,
                                                 !.answer = "upstream"]]
    <3>1. /\ req'[r].pc = "done" /\ req'[r].answer = "upstream" /\ SameArgs(r)
          /\ \A s \in Request \ {r} : req'[s] = req[s]
      BY <2>4, FailedLocals
    <3> QED BY <1>0, <1>1, <1>4, <2>2, <3>1, QuietMoves DEF CallDelete, tables
  <2> QED BY <1>4, <2>3, <2>4 DEF CallDelete
<1> QED BY <1>2, <1>3, <1>4
LEMMA SaveMoves ==
  ASSUME IInv, NEW r \in Request, SaveRecord(r)
  PROVE  Moves(r)
<1> DEFINE i == req[r].target
           row == [req[r].seen EXCEPT !.value = req[r].value]
<1>0. /\ req[r].pc = "save" /\ req[r].kind = "update" /\ i \in Request /\ Acked(i) /\ i # r
      /\ req[r].seen \in RecordRow /\ req[r].value \in Value /\ zone' = zone /\ subs' = subs
      /\ records \in [Request -> RecordRow \cup {NoRow}] /\ NoRow \notin RecordRow
  BY NoRowAssumption
  DEF SaveRecord, At, IInv, TypeOK, ReqInv, PcInv, ArgsInv, SeenInv, Acked, Creating
<1>1. SubsKept /\ ZoneMoves(r) BY <1>0, NothingKept DEF ZoneMoves
<1>2. CASE Answers(r, "save") /\ records' = records
  BY <1>0, <1>1, <1>2, AnswersMoves
<1>3. CASE Answers(r, "ok") /\ records' = [records EXCEPT ![i] = row]
  <2>1. /\ req'[r].pc = "done" /\ req'[r].answer = "ok" /\ SameArgs(r)
        /\ \A s \in Request \ {r} : req'[s] = req[s]
    BY <1>3, AnswersLocals
  <2>2. row \in RecordRow /\ row.value = req[r].value BY <1>0 DEF RecordRow
  <2>3. row # NoRow BY <1>0, <2>2
  <2>4. records' = [records EXCEPT ![i] = row] BY <1>3
  <2> HIDE DEF row
  <2>5. /\ records'[i] # NoRow /\ records'[i].value = req[r].value
        /\ \A j \in Request \ {i} : records'[j] = records[j]
    BY <1>0, <2>2, <2>3, <2>4
  <2>6. ~Acked(r)' /\ ~RemovedSub(r)'
    BY <1>0, <2>1 DEF Acked, Creating, RemovedSub, SameArgs
  <2>7. \A j \in Request : Updates(r, j) <=> j = i BY <1>0 DEF Updates
  <2>8. \A j \in Request \ {r} :
          /\ zone'[j] = zone[j] /\ zone' = zone
          /\ records'[j] # records[j] => Updates(r, j) /\ req'[r].answer = "ok"
          /\ Updates(r, j) => /\ req[r].pc = "save" /\ records'[j] # NoRow
                              /\ records'[j].value = req[r].value
    BY <1>0, <2>1, <2>5, <2>7
  <2> QED BY <1>0, <2>1, <2>6, <2>8 DEF Moves
<1> QED BY <1>2, <1>3 DEF SaveRecord

(* A step of a deletion, which writes no row but drops some. *)
LEMMA DropMoves ==
  ASSUME IInv, NEW r \in Request, Answers(r, "ok"), req[r].pc \in {"remove", "removeSub"},
         UNCHANGED zone,
         \A i \in Request : records'[i] \in {records[i], NoRow},
         \A p \in Request : subs[p] # NoRow /\ subs'[p] = NoRow =>
           req[r].kind = "deleteSub" /\ req[r].target = p,
         req[r].kind = "deleteSub" => \A i \in req[r].listed : records'[i] = NoRow
  PROVE  Moves(r)
<1>1. /\ req'[r].pc = "done" /\ req'[r].answer = "ok" /\ req'[r].listed = req[r].listed
      /\ SameArgs(r) /\ \A s \in Request \ {r} : req'[s] = req[s]
  BY AnswersLocals
<1>2. req[r].kind \in {"delete", "deleteSub"} BY DEF IInv, ReqInv, PcInv
<1>3. ~Acked(r)' /\ \A i \in Request : ~Updates(r, i)
  BY <1>1, <1>2 DEF Acked, Creating, Updates, SameArgs
<1>4. /\ RemovedSub(r)' <=> req[r].kind = "deleteSub"
      /\ req'[r].target = req[r].target
  BY <1>1 DEF RemovedSub, SameArgs
<1> QED BY <1>1, <1>3, <1>4 DEF Moves

LEMMA DeletionMoves ==
  ASSUME IInv, NEW r \in Request,
         RemoveRecord(r) \/ CheckDeleteSub(r) \/ ListRecords(r) \/ CallDeletes(r)
           \/ RemoveSubdomain(r)
  PROVE  Moves(r)
<1>0. /\ req[r].pc \notin {"idle", "done"} /\ req[r].target \in Request
      /\ req[r].answer = "none" /\ ReqInv(r) /\ req[r].listed \subseteq Request
      /\ subs \in [Request -> SubRow \cup {NoRow}]
      /\ records \in [Request -> RecordRow \cup {NoRow}]
  BY DEF RemoveRecord, CheckDeleteSub, ListRecords, CallDeletes, RemoveSubdomain, At, IInv,
         TypeOK, Req, ReqInv, ArgsInv, PcInv
<1>1. subs' = subs => SubsKept BY NothingKept
<1>2. CASE RemoveRecord(r)
  <2>1. CASE Answers(r, "save") /\ UNCHANGED records
    BY <1>0, <1>1, <1>2, <2>1, AnswersMoves DEF RemoveRecord, ZoneMoves
  <2>2. CASE Answers(r, "ok") /\ records' = [records EXCEPT ![req[r].target] = NoRow]
    <3>1. /\ subs' = subs /\ zone' = zone /\ req[r].pc = "remove" /\ req[r].kind = "delete"
      BY <1>0, <1>2 DEF RemoveRecord, At, ReqInv, PcInv
    <3>2. \A i \in Request : records'[i] \in {records[i], NoRow} BY <1>0, <2>2
    <3> QED BY <2>2, <3>1, <3>2, DropMoves
  <2> QED BY <1>2, <2>1, <2>2 DEF RemoveRecord
<1>3. CASE CheckDeleteSub(r)
  <2>1. CASE Refused(r) BY <1>0, <2>1, RefusedMoves
  <2>2. CASE /\ DisableIfExpired(req[r].target)
             /\ Answers(r, "refused") \/ (Goto(r, "list") /\ UNCHANGED locks)
             /\ UNCHANGED <<domain, points, records, zone>>
    BY <1>0, <2>2, DisableKept, AnswersMoves, GotoMoves DEF ZoneMoves
  <2> QED BY <1>3, <2>1, <2>2 DEF CheckDeleteSub
<1>4. CASE ListRecords(r)
  <2>1. CASE Refused(r) BY <1>0, <2>1, RefusedMoves
  <2>2. CASE ~Refused(r)
    <3>1. PICK l : req' = [req EXCEPT ![r] = [@ EXCEPT !.pc = "callDeletes", !.listed = l]]
      BY <1>4, <2>2 DEF ListRecords
    <3> DEFINE t == [req[r] EXCEPT !.pc = "callDeletes", !.listed = l]
    <3>2. /\ t.pc = "callDeletes" /\ t.answer = "none" /\ t.kind = req[r].kind
          /\ t.user = req[r].user /\ t.target = req[r].target /\ t.name = req[r].name
          /\ t.value = req[r].value /\ t.earlier = req[r].earlier
      BY <1>0 DEF IInv, TypeOK, Req
    <3>3. req' = [req EXCEPT ![r] = t] BY <3>1
    <3> HIDE DEF t
    <3>4. req'[r] = t /\ \A s \in Request \ {r} : req'[s] = req[s] BY <3>3 DEF IInv, TypeOK
    <3>5. SameArgs(r) BY <3>2, <3>4 DEF SameArgs
    <3>6. UNCHANGED <<tables, zone>> BY <1>4, <2>2 DEF ListRecords
    <3> QED BY <1>0, <1>1, <3>2, <3>4, <3>5, <3>6, QuietMoves DEF tables, ZoneMoves
  <2> QED BY <2>1, <2>2
<1>5. CASE CallDeletes(r)
  <2>1. \A i \in Request : zone'[i] # zone[i] => zone'[i] = NoRow BY <1>5 DEF CallDeletes
  <2> QED BY <1>0, <1>1, <1>5, <2>1, GotoMoves DEF CallDeletes, tables, ZoneMoves
<1>6. CASE RemoveSubdomain(r)
  <2>1. CASE Answers(r, "save") /\ UNCHANGED <<records, subs>>
    BY <1>0, <1>1, <1>6, <2>1, AnswersMoves DEF RemoveSubdomain, ZoneMoves
  <2>2. CASE /\ records' = [i \in Request |-> IF i \in req[r].listed THEN NoRow ELSE records[i]]
             /\ subs' = [subs EXCEPT ![req[r].target] = NoRow]
             /\ Answers(r, "ok")
    <3>1. zone' = zone /\ req[r].pc = "removeSub" /\ req[r].kind = "deleteSub"
      BY <1>0, <1>6 DEF RemoveSubdomain, At, ReqInv, PcInv
    <3>2. /\ \A i \in Request : records'[i] \in {records[i], NoRow}
          /\ \A i \in req[r].listed : records'[i] = NoRow
      BY <1>0, <2>2
    <3>3. \A p \in Request : subs[p] # NoRow /\ subs'[p] = NoRow => req[r].target = p
      BY <1>0, <2>2
    <3> QED BY <2>2, <3>1, <3>2, <3>3, DropMoves
  <2> QED BY <1>6, <2>1, <2>2 DEF RemoveSubdomain
<1> QED BY <1>2, <1>3, <1>4, <1>5, <1>6

LEMMA FailMoves ==
  ASSUME IInv, NEW r \in Request, Fail(r)
  PROVE  Moves(r)
BY NothingKept, AnswersMoves DEF Fail, tables, ZoneMoves

LEMMA RequestMoves ==
  ASSUME IInv, NEW r \in Request, Arrival(r) \/ Step(r) \/ Fail(r)
  PROVE  Moves(r)
BY ArrivalMoves, CreationMoves, CommitMoves, InsertFailsMoves, RecordMoves, SaveMoves,
   DeletionMoves, FailMoves
DEF Step

(* What happens outside the requests writes no value and drops no row. *)
LEMMA CauseOutside ==
  ASSUME IInv, CauseInv, UNCHANGED <<records, zone, req>>,
         \A p \in Request : subs'[p] = NoRow => subs[p] = NoRow
  PROVE  CauseInv'
<1>1. GoneInv' BY DEF CauseInv, GoneInv, RemovedSub, Acked, Creating
<1>2. BackInv' BY DEF CauseInv, BackInv, RemovedSub, Updates
<1>3. \A i \in Request : ValueInv(i)'
  BY DEF CauseInv, ValueInv, Acked, Creating, Untouched, Overlapped, Overlap, Latest, Updates
<1>4. EarlierInv' BY DEF CauseInv, EarlierInv, At
<1> QED BY <1>1, <1>2, <1>3, <1>4 DEF CauseInv

(* A remote record that is gone took an update or a deletion of it; a        *)
(* subdomain goes only by an acknowledged DeleteSubdomain, a row it listed   *)
(* returns only by an update, and unless two updates of a record overlapped  *)
(* both copies hold what the creation or the latest of its updates gave them *)
(* (record/service.go:312-329, 401-432).                                     *)
THEOREM CausesAreRecorded == Spec => []CauseInv
<1>1. Init => CauseInv
  <2> SUFFICES ASSUME Init PROVE CauseInv OBVIOUS
  <2>1. \A r \in Request : /\ req[r] = Idle /\ Idle.kind = "none" /\ Idle.answer = "none"
                           /\ Idle.pc = "idle" /\ Idle.listed = {} /\ Idle.earlier = {}
    BY DEF Init, Idle
  <2>2. GoneInv /\ BackInv /\ EarlierInv BY <2>1 DEF GoneInv, BackInv, EarlierInv, Acked
  <2>3. \A i \in Request : ValueInv(i)
    BY <2>1 DEF ValueInv, Acked, Untouched, Latest, Updates
  <2> QED BY <2>2, <2>3 DEF CauseInv
<1>2. IInv /\ CauseInv /\ [Next]_vars => CauseInv'
  <2> SUFFICES ASSUME IInv, CauseInv, [Next]_vars PROVE CauseInv' OBVIOUS
  <2>1. IInv' BY NextIInv
  <2>2. ASSUME NEW r \in Request, Arrival(r) \/ Step(r) \/ Fail(r) PROVE CauseInv'
    BY <2>1, <2>2, RequestMoves, CauseKept
  <2>3. ASSUME NEW s \in Request, Lapse(s) PROVE CauseInv'
    <3>1. subs \in [Request -> SubRow \cup {NoRow}] /\ subs[s] \in SubRow /\ NoRow \notin SubRow
      BY <2>3, NoRowAssumption DEF IInv, TypeOK, Lapse
    <3> DEFINE row == [subs[s] EXCEPT !.lapsed = TRUE]
    <3>2. row \in SubRow BY <3>1 DEF SubRow
    <3>3. subs' = [subs EXCEPT ![s] = row] BY <2>3 DEF Lapse
    <3> HIDE DEF row
    <3>4. \A p \in Request : subs'[p] = NoRow => subs[p] = NoRow BY <3>1, <3>2, <3>3
    <3> QED BY <2>3, <3>4, CauseOutside DEF Lapse
  <2>4. CASE DeleteDomain BY <2>4, CauseOutside DEF DeleteDomain
  <2>5. CASE UNCHANGED vars BY <2>5, CauseOutside DEF vars, tables
  <2> QED BY <2>2, <2>3, <2>4, <2>5 DEF Next
<1> QED BY <1>1, <1>2, RecordsInvariant, PTL DEF Spec

(* A row outlives its subdomain only because the deletion did not list it,  *)
(* or because an update that had read it wrote it back                      *)
(* (record/service.go:329, 401).                                            *)
THEOREM OrphansHaveCause == Spec => []OrphanHasCause
<1>1. IInv /\ CauseInv => OrphanHasCause
  <2> SUFFICES ASSUME IInv, CauseInv, NEW i \in Request, records[i] # NoRow,
                      subs[records[i].sub] = NoRow
               PROVE  \E r \in Request :
                        /\ req[r].kind = "deleteSub" /\ req[r].target = records[i].sub
                        /\ req[r].answer = "ok"
                        /\ \/ i \notin req[r].listed
                           \/ \E u \in Request : /\ req[u].kind = "update" /\ req[u].target = i
                                                 /\ req[u].answer = "ok"
    BY DEF OrphanHasCause
  <2> DEFINE p == records[i].sub
  <2>1. Acked(i) /\ p = req[i].target BY DEF IInv, RowsInv
  <2>2. p \in Request /\ Acked(p) BY <2>1, ParentAcked
  <2>3. req[p].kind = "bundle" BY <2>1 DEF IInv, ReqInv, ArgsInv, Acked, Creating
  <2>4. PICK r \in Request : RemovedSub(r) /\ req[r].target = p
    BY <2>2, <2>3 DEF CauseInv, GoneInv
  <2>5. i \in req[r].listed => \E u \in Request : Updates(u, i) /\ req[u].answer = "ok"
    BY <2>4 DEF CauseInv, BackInv
  <2> QED BY <2>4, <2>5 DEF RemovedSub, Updates
<1> QED BY <1>1, RecordsInvariant, CausesAreRecorded, PTL

(* The database and the provider disagree on a value only while an update   *)
(* is under way, after one that failed, or after two updates of the record  *)
(* that overlapped (record/service.go:312-329).                             *)
THEOREM DivergenceIsExplained == Spec => []DivergenceHasCause
<1>1. IInv /\ CauseInv => DivergenceHasCause
  <2> SUFFICES ASSUME IInv, CauseInv, NEW i \in Request, records[i] # NoRow, zone[i] # NoRow,
                      records[i].value # zone[i],
                      \A r \in {s \in Request : req[s].kind = "update" /\ req[s].target = i} :
                        req[r].answer = "ok"
               PROVE  Overlapped(i)
    BY DEF DivergenceHasCause, Overlapped, Updates
  <2>1. Acked(i) /\ ValueInv(i) BY DEF IInv, RowsInv, CauseInv
  <2>2. ~Untouched(i) BY <2>1 DEF ValueInv
  <2>3. ASSUME NEW u \in Request, Latest(u, i) PROVE FALSE
    <3>1. req[u].answer = "ok" BY <2>3 DEF Latest, Updates
    <3> QED BY <2>1, <2>3, <3>1 DEF ValueInv
  <2> QED BY <2>1, <2>2, <2>3 DEF ValueInv
<1> QED BY <1>1, RecordsInvariant, CausesAreRecorded, PTL

-----------------------------------------------------------------------------
(* Rows without a remote record, and remote records without a row *)

(* The provider is asked only by a request that was allowed to.  *)
AskedInv ==
    \A r \in Request :
      /\ req[r].pc \in {"remove", "removeSub"} => req[r].asked
      /\ req[r].asked => /\ req[r].kind \in {"delete", "deleteSub"}
                         /\ MayTouch(r, Owner(req[r].target))

WrittenBack(i, r) ==
    \E u \in Request : Updates(u, i) /\ req[u].answer = "ok" /\ Overlap(r, u)

(* A row without its remote record. *)
GapInv ==
    \A i \in Request :
      records[i] # NoRow /\ zone[i] = NoRow =>
        \E r \in Request : AskedToDelete(r, i) /\ (req[r].answer # "ok" \/ WrittenBack(i, r))

(* An update that is about to write its row back, the remote record gone:  *)
(* whoever deleted it had not been answered when the update came.          *)
SaveInv ==
    \A u, i \in Request :
      Updates(u, i) /\ At(u, "save") /\ zone[i] = NoRow =>
        \E r \in Request : /\ AskedToDelete(r, i)
                           /\ req[r].answer # "ok" \/ r \notin req[u].earlier

(* Where a remote record comes from. *)
LeftInv ==
    \A i \in Request :
      zone[i] # NoRow =>
        Acked(i) \/ At(i, "insertRecord")
          \/ (Creating(i) /\ req[i].answer \in {"upstream", "save", "lost"})

(* A remote record that lost its row. *)
TrackInv ==
    \A i \in Request :
      Acked(i) /\ zone[i] # NoRow /\ records[i] = NoRow =>
        \E r \in Request : RemovedSub(r) /\ AskedToDelete(r, i)

CopiesInv == AskedInv /\ GapInv /\ SaveInv /\ LeftInv /\ TrackInv

(* What a step of r does to the two copies. *)
Deals(r) ==
    /\ req[r].listed \subseteq req'[r].listed
    /\ req[r].asked => req'[r].asked
    /\ req'[r].asked /\ ~req[r].asked =>
         req[r].pc \in {"call", "callDeletes"} /\ req[r].kind \in {"delete", "deleteSub"}
    /\ req'[r].pc \in {"remove", "removeSub"} => req'[r].asked
    /\ zone'[r] \notin {zone[r], NoRow} =>
         Creating(r) /\ (req'[r].pc = "insertRecord" \/ req'[r].answer = "upstream")
    /\ req[r].pc = "insertRecord" => req'[r].answer \in {"ok", "save", "lost"}
    /\ req[r].kind = "delete" /\ req'[r].answer = "ok" => records'[req[r].target] = NoRow
    /\ \A i \in Request \ {r} :
         /\ zone[i] = NoRow => zone'[i] = NoRow
         /\ zone[i] # NoRow /\ zone'[i] = NoRow => AskedToDelete(r, i)' /\ req'[r].answer # "ok"
         /\ records[i] # NoRow /\ records'[i] = NoRow =>
              \/ zone'[i] = NoRow
              \/ RemovedSub(r)' /\ req[r].pc = "removeSub" /\ i \in req[r].listed

(* Requests that are over keep what they have, and owners stay. *)
LEMMA OwnerStays ==
  ASSUME IInv, NEW r \in Request, Moves(r), NEW i \in Request, Acked(i)
  PROVE  Acked(i)' /\ i # r /\ req'[i] = req[i] /\ Owner(i)' = Owner(i)
<1>1. ASSUME NEW j \in Request, Acked(j) PROVE req'[j] = req[j] /\ j # r
  BY <1>1, DoneStays DEF Acked
<1>2. req[i].target \in Request /\ Acked(req[i].target) BY ParentAcked
<1>3. req'[i] = req[i] /\ i # r BY <1>1
<1>4. req'[req[i].target] = req[req[i].target] BY <1>1, <1>2
<1> QED BY <1>3, <1>4 DEF Acked, Creating, Owner

LEMMA AskedStays ==
  ASSUME NEW r \in Request, Moves(r), Deals(r), NEW s \in Request, NEW i \in Request,
         AskedToDelete(s, i), req[r].pc # "idle"
  PROVE  AskedToDelete(s, i)'
<1>1. CASE s = r BY <1>1 DEF Moves, Deals, AskedToDelete, SameArgs
<1>2. CASE s # r BY <1>2 DEF Moves, AskedToDelete
<1> QED BY <1>1, <1>2

LEMMA AskedKept ==
  ASSUME IInv, AskedInv, NEW r \in Request, Moves(r), Deals(r)
  PROVE  AskedInv'
<1> SUFFICES ASSUME NEW s \in Request
             PROVE  /\ req'[s].pc \in {"remove", "removeSub"} => req'[s].asked
                    /\ req'[s].asked => /\ req'[s].kind \in {"delete", "deleteSub"}
                                        /\ MayTouch(s, Owner(req[s].target))'
  BY DEF AskedInv
<1>1. req[s].kind \in {"delete", "deleteSub"} =>
        /\ req[s].target \in Request /\ Acked(req[s].target)
        /\ Owner(req[s].target) = req[req[req[s].target].target].user
        /\ req[s].kind = "deleteSub" => req[req[s].target].target = req[s].target
  BY DEF IInv, ReqInv, ArgsInv, Owner
<1>2. CASE s # r
  <2>1. req'[s] = req[s] BY <1>2 DEF Moves
  <2>2. ASSUME req[s].asked PROVE MayTouch(s, Owner(req[s].target))'
    <3>1. req[s].kind \in {"delete", "deleteSub"} /\ MayTouch(s, Owner(req[s].target))
      BY <2>2 DEF AskedInv
    <3>2. PICK i \in Request : i = req[s].target /\ Acked(i) BY <1>1, <3>1
    <3>3. Owner(i)' = Owner(i) BY <3>2, OwnerStays
    <3> QED BY <2>1, <3>1, <3>2, <3>3 DEF MayTouch, Owner
  <2> QED BY <2>1, <2>2 DEF AskedInv
<1>3. CASE s = r /\ req'[r].asked
  <2>1. req[r].pc # "idle" BY <1>3 DEF Deals, IInv, ReqInv, PcInv, Idle
  <2>2. req[r].kind \in {"delete", "deleteSub"} BY <1>3 DEF Deals, AskedInv
  <2>3. MayTouch(r, Owner(req[r].target))
    <3>1. CASE req[r].asked BY <3>1 DEF AskedInv
    <3>2. CASE ~req[r].asked
      <4>1. ReqInv(r) /\ req[r].pc \in {"call", "callDeletes"} BY <1>3, <3>2 DEF Deals, IInv
      <4>2. CASE req[r].pc = "call" BY <4>1, <4>2 DEF ReqInv, SeenInv
      <4>3. CASE req[r].pc = "callDeletes"
        <5>1. req[r].kind = "deleteSub" /\ MayTouch(r, req[req[r].target].user)
          BY <4>1, <4>3 DEF ReqInv, PcInv, SeenInv
        <5> QED BY <1>1, <1>3, <5>1
      <4> QED BY <4>1, <4>2, <4>3
    <3> QED BY <3>1, <3>2
  <2>4. SameArgs(r) BY <2>1 DEF Moves
  <2>5. PICK i \in Request : i = req[r].target /\ Acked(i) BY <1>1, <1>3, <2>2
  <2>6. Owner(i)' = Owner(i) BY <2>5, OwnerStays
  <2>7. MayTouch(r, Owner(req[r].target))' BY <2>3, <2>4, <2>5, <2>6 DEF MayTouch, SameArgs, Owner
  <2> QED BY <1>3, <2>2, <2>4, <2>7 DEF SameArgs
<1>4. CASE s = r /\ ~req'[r].asked BY <1>4 DEF Deals
<1> QED BY <1>2, <1>3, <1>4

(* A row loses its remote record by a request that has asked for it; the    *)
(* row it removes comes back by an update that had read it before.          *)
LEMMA GapKept ==
  ASSUME IInv, IInv', EarlierInv, AskedInv, GapInv, SaveInv, NEW r \in Request, Moves(r), Deals(r)
  PROVE  GapInv'
<1> SUFFICES ASSUME NEW i \in Request, records'[i] # NoRow, zone'[i] = NoRow
             PROVE  \E s \in Request : /\ AskedToDelete(s, i)'
                                       /\ req'[s].answer # "ok" \/ WrittenBack(i, s)'
  BY DEF GapInv
<1>1. i # r
  <2>1. Acked(i)' BY DEF IInv, RowsInv
  <2>2. req'[i].value \in Value /\ NoRow \notin Value
    BY <2>1, NoRowAssumption DEF IInv, ReqInv, ArgsInv, Acked, Creating
  <2> QED BY <2>1, <2>2 DEF Moves
<1>2. CASE zone[i] # NoRow BY <1>1, <1>2 DEF Deals
<1>3. CASE zone[i] = NoRow /\ records[i] # NoRow
  <2>1. PICK s \in Request : AskedToDelete(s, i) /\ (req[s].answer # "ok" \/ WrittenBack(i, s))
    BY <1>3 DEF GapInv
  <2>2. CASE s # r
    <3>1. req'[s] = req[s] BY <2>2 DEF Moves
    <3>2. WrittenBack(i, s) => WrittenBack(i, s)'
      <4> SUFFICES ASSUME NEW u \in Request, Updates(u, i), req[u].answer = "ok", Overlap(s, u)
                   PROVE  WrittenBack(i, s)'
        BY DEF WrittenBack
      <4>1. req'[u] = req[u] BY DoneStays
      <4> QED BY <3>1, <4>1 DEF WrittenBack, Updates, Overlap
    <3> QED BY <2>1, <3>1, <3>2 DEF AskedToDelete
  <2>3. CASE s = r
    <3>1. req[r].pc # "idle" BY <2>1, <2>3 DEF AskedToDelete, IInv, ReqInv, PcInv, Idle
    <3>2. AskedToDelete(r, i)' BY <2>1, <2>3, <3>1, AskedStays
    <3>3. ASSUME req'[r].answer = "ok" PROVE FALSE
      <4>1. req[r].kind = "delete" \/ (i \in req[r].listed /\ req[r].kind = "deleteSub")
        BY <2>1, <2>3 DEF AskedInv, AskedToDelete, IInv, ReqInv, ArgsInv
      <4>2. CASE req[r].kind = "delete"
        <5>1. req[r].target = i BY <2>1, <2>3, <4>2 DEF AskedToDelete, IInv, ReqInv, ArgsInv
        <5> QED BY <3>3, <4>2, <5>1 DEF Deals
      <4>3. CASE i \in req[r].listed /\ req[r].kind = "deleteSub"
        BY <3>1, <3>3, <4>3 DEF Deals, Moves, SameArgs, RemovedSub
      <4> QED BY <4>1, <4>2, <4>3
    <3> QED BY <3>2, <3>3
  <2> QED BY <2>2, <2>3
<1>4. CASE zone[i] = NoRow /\ records[i] = NoRow
  <2>1. Updates(r, i) /\ req'[r].answer = "ok" BY <1>1, <1>4 DEF Moves
  <2>2. At(r, "save") BY <1>1, <2>1 DEF Moves, At
  <2>3. PICK s \in Request : AskedToDelete(s, i) /\ (req[s].answer # "ok" \/ s \notin req[r].earlier)
    BY <1>4, <2>1, <2>2 DEF SaveInv, Updates
  <2>4. s # r BY <2>1, <2>3 DEF AskedInv, AskedToDelete, Updates
  <2>5. req'[s] = req[s] BY <2>4 DEF Moves
  <2>6. Updates(r, i)' /\ req'[r].earlier = req[r].earlier
    BY <2>1, <2>2 DEF Moves, At, SameArgs, Updates
  <2>7. r \notin req[s].earlier BY <2>2 DEF EarlierInv, At
  <2>8. s \notin req[r].earlier => WrittenBack(i, s)'
    BY <2>1, <2>5, <2>6, <2>7 DEF WrittenBack, Overlap
  <2> QED BY <2>3, <2>5, <2>8 DEF AskedToDelete
<1> QED BY <1>2, <1>3, <1>4

LEMMA SaveKept ==
  ASSUME IInv, IInv', EarlierInv, SaveInv, NEW r \in Request, Moves(r), Deals(r)
  PROVE  SaveInv'
<1> SUFFICES ASSUME NEW u \in Request, NEW i \in Request,
                    Updates(u, i)', At(u, "save")', zone'[i] = NoRow
             PROVE  \E s \in Request : /\ AskedToDelete(s, i)'
                                       /\ req'[s].answer # "ok" \/ s \notin req'[u].earlier
  BY DEF SaveInv
<1>0. Acked(i)' /\ req'[u].value \in Value /\ NoRow \notin Value
  BY NoRowAssumption DEF IInv, ReqInv, ArgsInv, Updates
<1>1. CASE u = r
  <2>1. SameArgs(r) BY <1>1 DEF Moves, At
  <2>2. Updates(r, i) BY <1>1, <2>1 DEF Updates, SameArgs
  <2>3. i # r BY <1>0, <1>1 DEF Acked, Creating, Updates
  <2>4. zone'[i] = req'[u].value BY <1>1, <2>1, <2>2, <2>3 DEF Moves, At, SameArgs
  <2> QED BY <1>0, <2>4
<1>2. CASE u # r
  <2>1. req'[u] = req[u] BY <1>2 DEF Moves
  <2>2. Updates(u, i) /\ At(u, "save") BY <2>1 DEF Updates, At
  <2>3. i # r
    <3>1. Acked(i) BY <2>2 DEF IInv, ReqInv, ArgsInv, Updates
    <3> QED BY <3>1, OwnerStays
  <2>4. CASE zone[i] # NoRow BY <2>3, <2>4 DEF Deals
  <2>5. CASE zone[i] = NoRow
    <3>1. PICK s \in Request :
            AskedToDelete(s, i) /\ (req[s].answer # "ok" \/ s \notin req[u].earlier)
      BY <2>2, <2>5 DEF SaveInv
    <3>2. req[r].pc # "idle" \/ s # r BY <3>1 DEF AskedToDelete, IInv, ReqInv, PcInv, Idle
    <3>3. AskedToDelete(s, i)'
      <4>1. CASE s = r BY <3>1, <3>2, <4>1, AskedStays
      <4>2. CASE s # r BY <3>1, <4>2 DEF Moves, AskedToDelete
      <4> QED BY <4>1, <4>2
    <3>4. req'[s].answer # "ok" \/ s \notin req'[u].earlier
      <4>1. CASE s = r
        <5>1. r \notin req[u].earlier BY DEF EarlierInv, At, Moves
        <5> QED BY <2>1, <4>1, <5>1
      <4>2. CASE s # r BY <2>1, <3>1, <4>2 DEF Moves
      <4> QED BY <4>1, <4>2
    <3> QED BY <3>3, <3>4
  <2> QED BY <2>4, <2>5
<1> QED BY <1>1, <1>2

LEMMA LeftKept ==
  ASSUME IInv, IInv', LeftInv, NEW r \in Request, Moves(r), Deals(r)
  PROVE  LeftInv'
<1> SUFFICES ASSUME NEW i \in Request, zone'[i] # NoRow
             PROVE  \/ Acked(i)' \/ At(i, "insertRecord")'
                    \/ Creating(i)' /\ req'[i].answer \in {"upstream", "save", "lost"}
  BY DEF LeftInv
<1>1. CASE i # r
  <2>1. zone[i] # NoRow /\ req'[i] = req[i] BY <1>1 DEF Deals, Moves
  <2> QED BY <2>1 DEF LeftInv, Acked, At, Creating
<1>2. CASE i = r /\ zone'[r] # zone[r]
  <2>1. Creating(r) /\ (req'[r].pc = "insertRecord" \/ req'[r].answer = "upstream")
    BY <1>2 DEF Deals
  <2>2. Creating(r)'
    <3>1. req[r].pc # "idle" BY <2>1 DEF IInv, ReqInv, PcInv, Idle, Creating
    <3> QED BY <2>1, <3>1 DEF Moves, SameArgs, Creating
  <2> QED BY <1>2, <2>1, <2>2 DEF At
<1>3. CASE i = r /\ zone'[r] = zone[r]
  <2>1. ~Acked(r) /\ req[r].answer = "none"
    BY DEF IInv, ReqInv, PcInv, Moves, Acked
  <2>2. At(r, "insertRecord") BY <1>3, <2>1 DEF LeftInv
  <2>3. Creating(r)' BY <2>2 DEF IInv, ReqInv, PcInv, Moves, SameArgs, Creating, At
  <2>4. req'[r].answer \in {"ok", "save", "lost"} BY <2>2 DEF Deals, At
  <2> QED BY <1>3, <2>3, <2>4 DEF Acked
<1> QED BY <1>1, <1>2, <1>3

LEMMA TrackKept ==
  ASSUME IInv, IInv', AskedInv, TrackInv, NEW r \in Request, Moves(r), Deals(r)
  PROVE  TrackInv'
<1> SUFFICES ASSUME NEW i \in Request, Acked(i)', zone'[i] # NoRow, records'[i] = NoRow
             PROVE  \E s \in Request : RemovedSub(s)' /\ AskedToDelete(s, i)'
  BY DEF TrackInv
<1>1. i # r BY DEF Moves
<1>2. Acked(i) /\ zone[i] # NoRow BY <1>1 DEF Moves, Deals, Acked, Creating
<1>3. CASE records[i] = NoRow
  <2>1. PICK s \in Request : RemovedSub(s) /\ AskedToDelete(s, i) BY <1>2, <1>3 DEF TrackInv
  <2>2. req'[s] = req[s] BY <2>1, DoneStays DEF RemovedSub
  <2> QED BY <2>1, <2>2 DEF RemovedSub, AskedToDelete
<1>4. CASE records[i] # NoRow
  <2>1. RemovedSub(r)' /\ req[r].pc = "removeSub" /\ i \in req[r].listed
    BY <1>1, <1>4 DEF Deals
  <2>2. AskedToDelete(r, i) BY <2>1 DEF AskedInv, AskedToDelete
  <2>3. AskedToDelete(r, i)' BY <2>1, <2>2, AskedStays
  <2> QED BY <2>1, <2>3
<1> QED BY <1>3, <1>4

(* Remote records that a step makes or takes: only that of r's creation. *)
ZoneDeals(r) ==
    /\ zone'[r] \notin {zone[r], NoRow} =>
         Creating(r) /\ (req'[r].pc = "insertRecord" \/ req'[r].answer = "upstream")
    /\ \A i \in Request \ {r} : zone'[i] = NoRow <=> zone[i] = NoRow

LEMMA QuietDeals ==
  ASSUME NEW r \in Request, UNCHANGED records,
         req[r].listed \subseteq req'[r].listed, req'[r].asked = req[r].asked,
         req'[r].answer # "ok", req'[r].pc \notin {"remove", "removeSub"},
         req[r].pc = "insertRecord" => req'[r].answer \in {"save", "lost"},
         ZoneDeals(r)
  PROVE  Deals(r)
BY DEF Deals, ZoneDeals

LEMMA AnswersDeals ==
  ASSUME IInv, NEW r \in Request, NEW a \in {"refused", "upstream", "save", "lost"},
         Answers(r, a), UNCHANGED records,
         req[r].pc = "insertRecord" => a \in {"save", "lost"}, zone' = zone \/ ZoneDeals(r)
  PROVE  Deals(r)
<1>1. /\ req'[r].pc = "done" /\ req'[r].answer = a
      /\ req'[r].listed = req[r].listed /\ req'[r].asked = req[r].asked
  BY AnswersLocals
<1>2. ZoneDeals(r) BY DEF ZoneDeals
<1> QED BY <1>1, <1>2, QuietDeals

LEMMA GotoDeals ==
  ASSUME IInv, NEW r \in Request, NEW p, Goto(r, p),
         p \notin {"remove", "removeSub"}, req[r].pc \notin {"idle", "done", "insertRecord"},
         UNCHANGED records, zone' = zone \/ ZoneDeals(r)
  PROVE  Deals(r)
<1>1. req'[r].pc = p /\ req'[r].answer = req[r].answer /\ req'[r].listed = req[r].listed
  BY GotoLocals
<1>2. req'[r].asked = req[r].asked BY GotoLocals
<1>3. req[r].answer = "none" BY DEF IInv, ReqInv, PcInv
<1>4. ZoneDeals(r) BY DEF ZoneDeals
<1> QED BY <1>1, <1>2, <1>3, <1>4, QuietDeals

LEMMA SeesDeals ==
  ASSUME IInv, NEW r \in Request, NEW p, NEW row,
         req' = [req EXCEPT ![r] = [@ EXCEPT !.pc = p, !.seen = row]],
         p \notin {"remove", "removeSub"}, req[r].pc \notin {"idle", "done", "insertRecord"},
         UNCHANGED <<records, zone>>
  PROVE  Deals(r)
<1>1. req'[r].pc = p /\ req'[r].answer = req[r].answer /\ req'[r].listed = req[r].listed
  BY SeesLocals
<1>2. req'[r].asked = req[r].asked BY SeesLocals
<1>3. req[r].answer = "none" BY DEF IInv, ReqInv, PcInv
<1>4. ZoneDeals(r) BY DEF ZoneDeals
<1> QED BY <1>1, <1>2, <1>3, <1>4, QuietDeals

LEMMA RefusedDeals ==
  ASSUME IInv, NEW r \in Request, Refused(r), req[r].pc # "insertRecord"
  PROVE  Deals(r)
BY AnswersDeals DEF Refused, tables

LEMMA CreationDeals ==
  ASSUME IInv, NEW r \in Request,
         CheckBundle(r) \/ CheckAdd(r) \/ ChargeUser(r) \/ InsertSub(r) \/ CallCreate(r)
  PROVE  Deals(r)
<1>0. req[r].pc \notin {"idle", "done", "insertRecord"}
  BY DEF CheckBundle, CheckAdd, ChargeUser, InsertSub, CallCreate, At
<1>1. CASE CheckBundle(r)
  <2>1. CASE Refused(r) BY <1>0, <2>1, RefusedDeals
  <2>2. CASE Goto(r, "charge") /\ UNCHANGED <<tables, zone, locks>>
    BY <1>0, <2>2, GotoDeals DEF tables
  <2> QED BY <1>1, <2>1, <2>2 DEF CheckBundle
<1>2. CASE CheckAdd(r)
  <2> DEFINE s == req[r].target
  <2>1. CASE Refused(r) BY <1>0, <2>1, RefusedDeals
  <2>2. CASE Answers(r, "refused") /\ UNCHANGED <<domain, points, records, zone>>
    BY <1>0, <2>2, AnswersDeals
  <2>3. CASE /\ req' = [req EXCEPT ![r] = [@ EXCEPT !.pc = "charge", !.seen = subs[s]]]
             /\ UNCHANGED <<tables, zone, locks>>
    <3>1. PICK row : row = subs[s] OBVIOUS
    <3>2. req' = [req EXCEPT ![r] = [@ EXCEPT !.pc = "charge", !.seen = row]] BY <2>3, <3>1
    <3>3. UNCHANGED <<records, zone>> BY <2>3 DEF tables
    <3>4. "charge" \notin {"remove", "removeSub"} OBVIOUS
    <3> QED BY <1>0, <3>2, <3>3, <3>4, SeesDeals, Zenon
  <2> QED BY <1>2, <2>1, <2>2, <2>3 DEF CheckAdd
<1>3. CASE ChargeUser(r)
  <2>1. AfterCharge(r) \notin {"remove", "removeSub"} BY DEF AfterCharge
  <2>2. CASE Refused(r) BY <1>0, <2>2, RefusedDeals
  <2>3. CASE Goto(r, AfterCharge(r)) /\ UNCHANGED <<tables, zone>>
    <3>1. PICK p : p = AfterCharge(r) OBVIOUS
    <3>2. Goto(r, p) BY <2>3, <3>1
    <3> QED BY <1>0, <2>1, <2>3, <3>1, <3>2, GotoDeals DEF tables
  <2> QED BY <1>3, <2>2, <2>3 DEF ChargeUser
<1>4. CASE InsertSub(r)
  <2>1. CASE Refused(r) BY <1>0, <2>1, RefusedDeals
  <2>2. CASE Goto(r, "callCreate") /\ UNCHANGED <<tables, zone>>
    BY <1>0, <2>2, GotoDeals DEF tables
  <2> QED BY <1>4, <2>1, <2>2 DEF InsertSub
<1>5. CASE CallCreate(r)
  <2>1. Creating(r) /\ zone \in [Request -> Value \cup {NoRow}]
    BY <1>5 DEF CallCreate, At, IInv, TypeOK, ReqInv, PcInv
  <2>2. \A i \in Request \ {r} : zone'[i] = zone[i] BY <1>5, <2>1 DEF CallCreate
  <2>3. CASE Goto(r, "insertRecord")
    <3>1. req'[r].pc = "insertRecord" BY <2>3, GotoLocals
    <3>2. ZoneDeals(r) BY <2>1, <2>2, <3>1 DEF ZoneDeals
    <3> QED BY <1>0, <1>5, <2>3, <3>2, GotoDeals DEF CallCreate, tables
  <2>4. CASE Answers(r, "upstream")
    <3>1. req'[r].answer = "upstream" BY <2>4, AnswersLocals
    <3>2. ZoneDeals(r) BY <2>1, <2>2, <3>1 DEF ZoneDeals
    <3> QED BY <1>0, <1>5, <2>4, <3>2, AnswersDeals DEF CallCreate, tables
  <2> QED BY <1>5, <2>3, <2>4 DEF CallCreate
<1> QED BY <1>1, <1>2, <1>3, <1>4, <1>5

LEMMA InsertDeals ==
  ASSUME IInv, NEW r \in Request,
         CommitBundle(r) \/ CommitAdd(r) \/ BundleInsertFails(r) \/ AddInsertFails(r)
  PROVE  Deals(r)
<1>0. /\ zone \in [Request -> Value \cup {NoRow}] /\ req[r].pc = "insertRecord" /\ Creating(r)
      /\ records \in [Request -> RecordRow \cup {NoRow}]
  BY DEF CommitBundle, CommitAdd, BundleInsertFails, AddInsertFails, At, IInv, TypeOK, ReqInv,
         PcInv
<1>1. CASE AddInsertFails(r) BY <1>1, AnswersDeals DEF AddInsertFails, tables
<1>2. CASE BundleInsertFails(r)
  <2> DEFINE t == [req[r] EXCEPT !.pc = "done", !.cleaned = TRUE, !.answer = "save"]
  <2>1. /\ t.pc = "done" /\ t.answer = "save"
        /\ t.asked = req[r].asked /\ t.listed = req[r].listed
    BY DEF IInv, TypeOK, Req
  <2>2. req' = [req EXCEPT ![r] = t] BY <1>2 DEF BundleInsertFails
  <2> HIDE DEF t
  <2>3. req'[r] = t BY <2>2 DEF IInv, TypeOK
  <2>4. ZoneDeals(r) BY <1>0, <1>2 DEF BundleInsertFails, ZoneDeals
  <2> QED BY <1>0, <1>2, <2>1, <2>3, <2>4, QuietDeals DEF BundleInsertFails, tables
<1>3. CASE CommitBundle(r) \/ CommitAdd(r)
  <2>1. /\ req'[r].pc = "done" /\ req'[r].answer = "ok"
        /\ req'[r].listed = req[r].listed /\ req'[r].asked = req[r].asked
    BY <1>3, AnswersLocals DEF CommitBundle, CommitAdd
  <2>2. zone' = zone /\ \A i \in Request \ {r} : records'[i] = records[i]
    BY <1>0, <1>3 DEF CommitBundle, CommitAdd
  <2>3. req[r].kind # "delete" BY <1>0 DEF Creating
  <2> QED BY <1>0, <2>1, <2>2, <2>3 DEF Deals
<1> QED BY <1>1, <1>2, <1>3

LEMMA UpdateDeals ==
  ASSUME IInv, NEW r \in Request, CheckRecord(r) \/ CallUpdate(r) \/ SaveRecord(r)
  PROVE  Deals(r)
<1>0. /\ req[r].pc \notin {"idle", "done", "insertRecord"} /\ req[r].target \in Request
      /\ Acked(req[r].target) /\ ~Creating(r) /\ zone \in [Request -> Value \cup {NoRow}]
      /\ records \in [Request -> RecordRow \cup {NoRow}]
      /\ req[r].kind = "update" => req[r].value \in Value
      /\ NoRow \notin Value \cup RecordRow
  BY NoRowAssumption
  DEF CheckRecord, CallUpdate, SaveRecord, At, IInv, TypeOK, ReqInv, PcInv, ArgsInv, Creating
<1>1. CASE CheckRecord(r)
  <2> DEFINE rec == records[req[r].target]
  <2>1. CASE Refused(r) BY <1>0, <2>1, RefusedDeals
  <2>2. CASE Answers(r, "refused") /\ UNCHANGED <<domain, points, records, zone>>
    BY <1>0, <2>2, AnswersDeals
  <2>3. CASE /\ req' = [req EXCEPT ![r] = [@ EXCEPT !.pc = "call", !.seen = rec]]
             /\ UNCHANGED <<tables, zone, locks>>
    <3>1. PICK row : row = rec OBVIOUS
    <3>2. req' = [req EXCEPT ![r] = [@ EXCEPT !.pc = "call", !.seen = row]] BY <2>3, <3>1
    <3>3. UNCHANGED <<records, zone>> BY <2>3 DEF tables
    <3>4. "call" \notin {"remove", "removeSub"} OBVIOUS
    <3> QED BY <1>0, <3>2, <3>3, <3>4, SeesDeals, Zenon
  <2> QED BY <1>1, <2>1, <2>2, <2>3 DEF CheckRecord
<1>2. CASE CallUpdate(r)
  <2>1. req[r].target # r BY <1>0 DEF Acked
  <2>2. ZoneDeals(r)
    <3>1. req[r].value # NoRow BY <1>0, <1>2 DEF CallUpdate
    <3>2. zone' = zone \/ (zone[req[r].target] # NoRow /\
                           zone' = [zone EXCEPT ![req[r].target] = req[r].value])
      BY <1>2 DEF CallUpdate
    <3> QED BY <1>0, <2>1, <3>1, <3>2 DEF ZoneDeals
  <2>3. CASE Goto(r, "save") BY <1>0, <1>2, <2>2, <2>3, GotoDeals DEF CallUpdate, tables
  <2>4. CASE Answers(r, "upstream") BY <1>0, <1>2, <2>2, <2>4, AnswersDeals DEF CallUpdate, tables
  <2> QED BY <1>2, <2>3, <2>4 DEF CallUpdate
<1>3. CASE SaveRecord(r)
  <2>1. CASE Answers(r, "save") /\ UNCHANGED records
    BY <1>0, <1>3, <2>1, AnswersDeals DEF SaveRecord
  <2>2. CASE /\ Answers(r, "ok")
             /\ records' = [records EXCEPT ![req[r].target] =
                              [req[r].seen EXCEPT !.value = req[r].value]]
    <3>1. /\ req'[r].pc = "done" /\ req'[r].answer = "ok"
          /\ req'[r].listed = req[r].listed /\ req'[r].asked = req[r].asked
      BY <2>2, AnswersLocals
    <3> DEFINE row == [req[r].seen EXCEPT !.value = req[r].value]
    <3>2. req[r].kind = "update" /\ req[r].seen \in RecordRow /\ zone' = zone
      BY <1>3 DEF SaveRecord, At, IInv, ReqInv, PcInv, SeenInv
    <3>3. row \in RecordRow BY <1>0, <3>2 DEF RecordRow
    <3>4. records' = [records EXCEPT ![req[r].target] = row] BY <2>2
    <3> HIDE DEF row
    <3>5. \A i \in Request : records'[i] = NoRow => records[i] = NoRow
      BY <1>0, <3>3, <3>4
    <3> QED BY <1>0, <3>1, <3>2, <3>5 DEF Deals
  <2> QED BY <1>3, <2>1, <2>2 DEF SaveRecord
<1> QED BY <1>1, <1>2, <1>3

LEMMA DeleteDeals ==
  ASSUME IInv, AskedInv, NEW r \in Request, CallDelete(r) \/ RemoveRecord(r)
  PROVE  Deals(r)
<1>0. /\ req[r].pc \notin {"idle", "done", "insertRecord"} /\ req[r].target \in Request
      /\ req[r].kind = "delete" /\ Acked(req[r].target) /\ ~Acked(r)
      /\ zone \in [Request -> Value \cup {NoRow}] /\ req[r].answer = "none"
      /\ records \in [Request -> RecordRow \cup {NoRow}]
  BY DEF CallDelete, RemoveRecord, At, IInv, TypeOK, ReqInv, PcInv, ArgsInv, Acked, Creating
<1>1. req[r].target # r BY <1>0
<1>2. CASE CallDelete(r)
  <2>1. /\ req'[r].answer # "ok" /\ req'[r].asked /\ req'[r].listed = req[r].listed
        /\ SameArgs(r)
    BY <1>0, <1>2, AsksLocals, FailedLocals DEF CallDelete
  <2>2. /\ records' = records /\ zone'[r] = zone[r] /\ req[r].pc = "call"
        /\ \A i \in Request : zone'[i] # zone[i] => i = req[r].target /\ zone'[i] = NoRow
    BY <1>0, <1>1, <1>2 DEF CallDelete, At, tables
  <2>3. AskedToDelete(r, req[r].target)' BY <1>0, <2>1 DEF AskedToDelete, SameArgs
  <2>4. req'[r].target = req[r].target BY <2>1 DEF SameArgs
  <2>5. \A i \in Request : zone'[i] # zone[i] => AskedToDelete(r, i)'
    BY <1>0, <2>1, <2>2 DEF AskedToDelete, SameArgs
  <2> QED BY <1>0, <2>1, <2>2, <2>5 DEF Deals
<1>3. CASE RemoveRecord(r)
  <2>1. CASE Answers(r, "save") /\ UNCHANGED records
    BY <1>0, <1>3, <2>1, AnswersDeals DEF RemoveRecord
  <2>2. CASE Answers(r, "ok") /\ records' = [records EXCEPT ![req[r].target] = NoRow]
    <3>1. /\ req'[r].pc = "done" /\ req'[r].answer = "ok"
          /\ req'[r].listed = req[r].listed /\ req'[r].asked = req[r].asked
      BY <2>2, AnswersLocals
    <3>2. zone' = zone /\ zone[req[r].target] = NoRow
      BY <1>3 DEF RemoveRecord, At, IInv, ReqInv, SeenInv
    <3> QED BY <1>0, <2>2, <3>1, <3>2 DEF Deals
  <2> QED BY <1>3, <2>1, <2>2 DEF RemoveRecord
<1> QED BY <1>2, <1>3

LEMMA DeleteSubDeals ==
  ASSUME IInv, NEW r \in Request,
         CheckDeleteSub(r) \/ ListRecords(r) \/ CallDeletes(r) \/ RemoveSubdomain(r)
  PROVE  Deals(r)
<1>0. /\ req[r].pc \notin {"idle", "done", "insertRecord"} /\ req[r].kind = "deleteSub"
      /\ zone \in [Request -> Value \cup {NoRow}] /\ req[r].answer = "none"
      /\ records \in [Request -> RecordRow \cup {NoRow}] /\ ~Acked(r)
      /\ \A i \in req[r].listed : i \in Request /\ Acked(i)
  BY DEF CheckDeleteSub, ListRecords, CallDeletes, RemoveSubdomain, At, IInv, TypeOK, Req,
         ReqInv, PcInv, ArgsInv, Acked, Creating
<1>1. CASE CheckDeleteSub(r)
  <2>1. CASE Refused(r) BY <1>0, <2>1, RefusedDeals
  <2>2. CASE Answers(r, "refused") /\ UNCHANGED <<domain, points, records, zone>>
    BY <1>0, <2>2, AnswersDeals
  <2>3. CASE Goto(r, "list") /\ UNCHANGED <<domain, points, records, zone>>
    BY <1>0, <2>3, GotoDeals
  <2> QED BY <1>1, <2>1, <2>2, <2>3 DEF CheckDeleteSub
<1>2. CASE ListRecords(r)
  <2>1. CASE Refused(r) BY <1>0, <2>1, RefusedDeals
  <2>2. CASE ~Refused(r)
    <3>1. PICK l : req' = [req EXCEPT ![r] = [@ EXCEPT !.pc = "callDeletes", !.listed = l]]
      BY <1>2, <2>2 DEF ListRecords
    <3> DEFINE t == [req[r] EXCEPT !.pc = "callDeletes", !.listed = l]
    <3>2. t.pc = "callDeletes" /\ t.answer = "none" /\ t.asked = req[r].asked
      BY <1>0 DEF IInv, TypeOK, Req
    <3>3. req' = [req EXCEPT ![r] = t] BY <3>1
    <3> HIDE DEF t
    <3>4. req'[r] = t BY <3>3 DEF IInv, TypeOK
    <3>5. UNCHANGED <<records, zone>> /\ req[r].listed = {}
      BY <1>2, <2>2 DEF ListRecords, tables, At, IInv, ReqInv, PcInv
    <3>6. ZoneDeals(r) BY <3>5 DEF ZoneDeals
    <3> QED BY <1>0, <3>2, <3>4, <3>5, <3>6, QuietDeals
  <2> QED BY <2>1, <2>2
<1>3. CASE CallDeletes(r)
  <2>1. /\ req'[r].answer # "ok" /\ req'[r].asked /\ req'[r].listed = req[r].listed
    BY <1>0, <1>3, AsksLocals DEF CallDeletes
  <2>2. /\ records' = records /\ req[r].pc = "callDeletes"
        /\ \A i \in Request : zone'[i] # zone[i] => i \in req[r].listed /\ zone'[i] = NoRow
    BY <1>0, <1>3 DEF CallDeletes, At, tables
  <2>3. \A i \in Request : zone'[i] # zone[i] => AskedToDelete(r, i)'
    BY <2>1, <2>2 DEF AskedToDelete
  <2> QED BY <1>0, <2>1, <2>2, <2>3 DEF Deals
<1>4. CASE RemoveSubdomain(r)
  <2>1. CASE Answers(r, "save") /\ UNCHANGED <<records, subs>>
    BY <1>0, <1>4, <2>1, AnswersDeals DEF RemoveSubdomain
  <2>2. CASE /\ records' = [i \in Request |-> IF i \in req[r].listed THEN NoRow ELSE records[i]]
             /\ Answers(r, "ok")
    <3>1. /\ req'[r].pc = "done" /\ req'[r].answer = "ok" /\ SameArgs(r)
          /\ req'[r].listed = req[r].listed /\ req'[r].asked = req[r].asked
      BY <2>2, AnswersLocals
    <3>2. zone' = zone /\ req[r].pc = "removeSub" BY <1>4 DEF RemoveSubdomain, At
    <3>3. RemovedSub(r)' BY <1>0, <3>1 DEF RemovedSub, SameArgs
    <3>4. \A i \in Request : records'[i] # records[i] => i \in req[r].listed BY <2>2
    <3> QED BY <1>0, <3>1, <3>2, <3>3, <3>4 DEF Deals
  <2> QED BY <1>4, <2>1, <2>2 DEF RemoveSubdomain
<1> QED BY <1>1, <1>2, <1>3, <1>4

LEMMA RequestDeals ==
  ASSUME IInv, AskedInv, NEW r \in Request, Arrival(r) \/ Step(r) \/ Fail(r)
  PROVE  Deals(r)
<1>1. CASE Arrival(r)
  <2>1. PICK t \in Req : Arrives(r, t) /\ t.pc = "check" /\ t.answer = "none" /\ ~t.asked
    BY <1>1, ArrivalArgs
  <2>2. /\ req'[r] = t /\ req[r].pc = "idle" /\ UNCHANGED <<records, zone>>
    BY <2>1 DEF Arrives, At, IInv, TypeOK, tables
  <2>3. ~req[r].asked /\ req[r].listed = {} BY <2>2 DEF IInv, ReqInv, PcInv, Idle
  <2> QED BY <2>1, <2>2, <2>3 DEF Deals
<1>2. CASE Fail(r) BY <1>2, AnswersDeals DEF Fail, tables
<1>3. CASE Step(r)
  BY <1>3, CreationDeals, InsertDeals, UpdateDeals, DeleteDeals, DeleteSubDeals DEF Step
<1> QED BY <1>1, <1>2, <1>3

(* The two copies part company only as these say. *)
LEMMA CopiesInvariant == Spec => []CopiesInv
<1>1. Init => CopiesInv
  <2> SUFFICES ASSUME Init PROVE CopiesInv OBVIOUS
  <2>1. \A r \in Request : req[r].pc = "idle" /\ req[r].answer = "none" /\ ~req[r].asked
    BY DEF Init, Idle
  <2> QED BY <2>1 DEF Init, CopiesInv, AskedInv, GapInv, SaveInv, LeftInv, TrackInv, At
<1>2. IInv /\ CauseInv /\ CopiesInv /\ [Next]_vars => CopiesInv'
  <2> SUFFICES ASSUME IInv, CauseInv, CopiesInv, [Next]_vars PROVE CopiesInv' OBVIOUS
  <2>1. IInv' BY NextIInv
  <2>2. ASSUME NEW r \in Request, Arrival(r) \/ Step(r) \/ Fail(r) PROVE CopiesInv'
    <3>1. Moves(r) /\ Deals(r) BY <2>2, RequestMoves, RequestDeals DEF CopiesInv
    <3> QED BY <2>1, <3>1, AskedKept, GapKept, SaveKept, LeftKept, TrackKept
        DEF CopiesInv, CauseInv
  <2>3. ASSUME UNCHANGED <<records, zone, req>> PROVE CopiesInv'
    BY <2>3 DEF CopiesInv, AskedInv, GapInv, SaveInv, LeftInv, TrackInv, AskedToDelete,
                WrittenBack, Updates, Overlap, RemovedSub, At, Acked, Creating, MayTouch, Owner
  <2> QED BY <2>2, <2>3 DEF Next, Lapse, DeleteDomain, vars, tables
<1> QED BY <1>1, <1>2, RecordsInvariant, CausesAreRecorded, PTL DEF Spec

(* A row whose remote record is gone is one that the provider was asked to  *)
(* delete by a request allowed to, not acknowledged or overlapped by the    *)
(* update that wrote the row back (record/service.go:127-149, 329).         *)
THEOREM RowsResolve == Spec => []RecordHasUpstream
<1>1. IInv /\ CopiesInv => RecordHasUpstream
  <2> SUFFICES ASSUME IInv, CopiesInv, NEW i \in Request, records[i] # NoRow, zone[i] = NoRow
               PROVE  \E r \in Request :
                        /\ AskedToDelete(r, i)
                        /\ req[r].user = records[i].user \/ req[r].user \in Admin
                        /\ \/ req[r].answer # "ok"
                           \/ \E u \in Request : /\ req[u].kind = "update" /\ req[u].target = i
                                                 /\ req[u].answer = "ok" /\ Overlap(r, u)
    BY DEF RecordHasUpstream
  <2>1. PICK r \in Request : AskedToDelete(r, i) /\ (req[r].answer # "ok" \/ WrittenBack(i, r))
    BY DEF CopiesInv, GapInv
  <2>2. records[i].user = Owner(i) /\ Acked(i) BY DEF IInv, RowsInv
  <2>3. MayTouch(r, Owner(req[r].target)) /\ req[r].kind \in {"delete", "deleteSub"}
    BY <2>1 DEF CopiesInv, AskedInv, AskedToDelete
  <2>4. Owner(req[r].target) = Owner(i)
    <3>1. CASE req[r].kind = "delete"
      <4>1. req[r].listed = {} BY <3>1 DEF IInv, ReqInv, ArgsInv
      <4> QED BY <2>1, <4>1 DEF AskedToDelete
    <3>2. CASE req[r].kind = "deleteSub"
      <4>1. i \in req[r].listed BY <2>1, <3>2 DEF AskedToDelete
      <4>2. req[i].target = req[r].target BY <4>1 DEF IInv, ReqInv, ArgsInv
      <4>3. /\ req[r].target \in Request /\ req[req[r].target].kind = "bundle"
        BY <3>2 DEF IInv, ReqInv, ArgsInv
      <4>4. req[req[r].target].target = req[r].target BY <4>3 DEF IInv, ReqInv, ArgsInv
      <4> QED BY <4>2, <4>4 DEF Owner
    <3> QED BY <2>3, <3>1, <3>2
  <2> QED BY <2>1, <2>2, <2>3, <2>4 DEF MayTouch, WrittenBack, Updates
<1> QED BY <1>1, RecordsInvariant, CopiesInvariant, PTL

(* A record that resolves without a row was left by a creation that failed *)
(* after the provider was called, or by an acknowledged DeleteSubdomain    *)
(* (record/service.go:127-149, 360-362, 417).                              *)
THEOREM LeftoversHaveCause == Spec => []LeftoverHasCause
<1>1. IInv /\ CopiesInv => LeftoverHasCause
  BY DEF CopiesInv, LeftInv, TrackInv, LeftoverHasCause, RemovedSub
<1> QED BY <1>1, RecordsInvariant, CopiesInvariant, PTL
=============================================================================
