--------------------------- MODULE Access_proofs ---------------------------
(***************************************************************************)
(* Proofs about Access, for any number of names, passwords and requests.   *)
(*                                                                         *)
(* The argument: accounts and keys never vanish and a key never changes    *)
(* its owner, so that whom a request acts for and whose password it sets   *)
(* is settled when it arrives; a disabled key is never enabled again; and  *)
(* only requests that are still served write, which those an invariant     *)
(* looks back at (`earlier`) are not.                                      *)
(***************************************************************************)
EXTENDS Access, TLAPS

Registered(u) == u \in Account /\ users[u] # NoRow
Issued(k) == k \in Account /\ keys[k] # NoRow

RevokeKinds == {"revoke", "revokeAny"}
ShownKinds == {"change", "reset", "update", "createKey"} \cup RevokeKinds
Authorised == {"read", "write", "writeUser", "insertKey", "disableKey"}

(* The standing a kind of request needs. *)
Needed(q) == IF q.kind \in AdminKinds THEN "admin" ELSE "active"

(* Request q was acknowledged, and it disabled its key. *)
Effective(q) ==
    /\ q.answer = "ok" /\ q.kind \in RevokeKinds
    /\ q.kind = "revokeAny" \/ keys[q.target].user = Actor(q)

(* A request with another's password in hand, and one that has set it. *)
SameOwner(q, p) == q.kind \in PasswordKinds /\ Owner(q) = Owner(p)

(* Whoever owns a key has an account. *)
KeysOwned == \A k \in Account : keys[k] # NoRow => Registered(keys[k].user)

(* What a request shows and names is there. *)
ArgsInv(r) ==
    /\ req[r].by = "token" => Registered(req[r].shown)
    /\ req[r].by = "key" => Issued(req[r].shown)
    /\ req[r].kind \in {"reset", "update"} => Registered(req[r].target)
    /\ req[r].kind \in RevokeKinds => Issued(req[r].target)
    /\ req[r].kind = "register" => req[r].new \in Name
    /\ req[r].kind \in PasswordKinds => req[r].new \in Password
    /\ req[r].kind = "update" => req[r].new \in Changes
    /\ req[r].by # "none" <=> req[r].kind \in ShownKinds

(* What a program counter says of a request. *)
PcInv(r) ==
    /\ req[r].pc = "idle" => req[r].kind = "none"
    /\ req[r].answer = "none" <=> req[r].pc # "done"
    /\ req[r].pc \in {"checkName", "insert"} => req[r].kind = "register"
    /\ req[r].pc = "token" => req[r].by = "token"
    /\ req[r].pc \in {"key", "keyUser"} => req[r].by = "key"
    /\ req[r].pc = "read" => req[r].kind \in {"change", "update"}
    /\ req[r].pc = "write" => req[r].kind \in PasswordKinds
    /\ req[r].pc = "writeUser" => req[r].kind = "update"
    /\ req[r].pc = "insertKey" => req[r].kind = "createKey"
    /\ req[r].pc = "disableKey" => req[r].kind \in RevokeKinds

(* What a request creates is not there before it is done; what was over *)
(* when it arrived is over.                                             *)
OrderInv(r) ==
    /\ req[r].pc # "done" => users[r] = NoRow /\ keys[r] = NoRow
    /\ \A s \in req[r].earlier : s # r /\ At(s, "done")

(* The history of a request that is served knows how its account stands. *)
StandingInv(r) ==
    req[r].by # "none" =>
      /\ req[r].pc # "done" => Standing(req[r]) \subseteq held[r]
      /\ req[r].pc \in Authorised \/ req[r].answer = "ok" => Needed(req[r]) \in held[r]
      /\ req[r].by = "key" /\ (req[r].pc \notin {"key", "done"} \/ req[r].answer = "ok") =>
           "key" \in held[r]

(* A revoked key is disabled, and a request that came later with it does *)
(* not pass the comparison of keys.                                      *)
RevokeInv(r) ==
    /\ Effective(req[r]) => ~keys[req[r].target].enabled
    /\ req[r].by = "key" =>
         \A s \in req[r].earlier :
           Effective(req[s]) /\ req[s].target = req[r].shown =>
             req[r].pc \in {"key", "done"} /\ req[r].answer # "ok"

(* An administrator about to be disabled was promoted meanwhile. *)
PromotedInv(r) ==
    /\ At(r, "writeUser") /\ req[r].new.status = "disabled"
    /\ users[req[r].target].role = "admin"
    => \E s \in Request \ {r} :
         req[s].kind = "update" /\ req[s].target = req[r].target /\ s \notin req[r].earlier

(* The password of an account is one that r set or that was set since. *)
PasswordInv(r) ==
    req[r].answer = "ok" /\ req[r].kind \in PasswordKinds =>
      \E s \in Request :
        /\ req[s].answer = "ok" /\ SameOwner(req[s], req[r])
        /\ s = r \/ s \notin req[r].earlier
        /\ users[Owner(req[r])].password = req[s].new

RequestInv(r) ==
    /\ ArgsInv(r) /\ PcInv(r) /\ OrderInv(r) /\ StandingInv(r)
    /\ RevokeInv(r) /\ PromotedInv(r) /\ PasswordInv(r)

IInv ==
    /\ TypeOK /\ NamesAreUnique /\ KeysOwned
    /\ \A r \in Request : RequestInv(r)

-----------------------------------------------------------------------------
(* What a step of request a leaves alone. *)

OnlyMoves(a) ==
    /\ ~At(a, "done")
    /\ \A s \in Request \ {a} : req'[s] = req[s]
    /\ ~At(a, "idle") => req'[a].kind = req[a].kind /\ req'[a].target = req[a].target

RowsStay ==
    /\ \A u \in Account : users[u] # NoRow => users'[u] # NoRow
    /\ \A k \in Account : keys[k] # NoRow =>
         /\ keys'[k] # NoRow /\ keys'[k].user = keys[k].user
         /\ keys'[k].enabled => keys[k].enabled

OnlyCreates(a) ==
    \A s \in Request \ {a} :
      /\ users[s] = NoRow => users'[s] = NoRow
      /\ keys[s] = NoRow => keys'[s] = NoRow

OnlyWrites(a) ==
    \A u \in Account : users[u] # NoRow =>
      /\ users'[u].role # users[u].role \/ users'[u].active # users[u].active =>
           At(a, "writeUser") /\ req[a].target = u
      /\ users'[u].password # users[u].password =>
           /\ At(a, "write")
           /\ (req[a].kind \in PasswordKinds /\ Owner(req[a]) = u /\ req[a].answer = "ok")'
           /\ users'[u].password = req'[a].new

Steps(a) == OnlyMoves(a) /\ RowsStay /\ OnlyCreates(a) /\ OnlyWrites(a)

(* Whom a request acts for does not change. *)
LEMMA ActorStays ==
    ASSUME RowsStay, NEW s \in Request, ArgsInv(s), req'[s] = req[s]
    PROVE  Actor(req[s])' = Actor(req[s]) /\ Owner(req[s])' = Owner(req[s])
PROOF
    <1>1. Actor(req[s])' = Actor(req[s])
        BY DEF RowsStay, ArgsInv, Actor, Issued
    <1>2. Owner(req[s])' = Owner(req[s])
        BY <1>1 DEF Owner
    <1> QED BY <1>1, <1>2

(* Whom a request acts for has an account. *)
LEMMA ActorIsRegistered ==
    ASSUME TypeOK, KeysOwned, NEW s \in Request, ArgsInv(s), req[s].by # "none"
    PROVE  Registered(Actor(req[s]))
PROOF
    <1>1. req[s].by \in {"none", "token", "key"}
        BY DEF TypeOK, Req
    <1> QED BY <1>1 DEF KeysOwned, ArgsInv, Actor, Issued, Registered

(* Whether a request that stands still has revoked its key stays as it is. *)
LEMMA EffectiveStays ==
    ASSUME RowsStay, NEW s \in Request, ArgsInv(s), req'[s] = req[s]
    PROVE  Effective(req[s])' = Effective(req[s])
PROOF
    <1>1. Actor(req[s])' = Actor(req[s])
        BY ActorStays
    <1>2. req[s].kind \in RevokeKinds => keys'[req[s].target].user = keys[req[s].target].user
        BY DEF ArgsInv, RowsStay, Issued
    <1> QED BY <1>1, <1>2 DEF Effective

(* A step of request a keeps what the invariant says of the others. *)
LEMMA OthersKeep ==
    ASSUME IInv, Note, NEW a \in Request, Steps(a), NEW s \in Request \ {a}
    PROVE  RequestInv(s)'
PROOF
    <1> USE DEF Steps
    <1>1. RequestInv(s) /\ req'[s] = req[s] /\ TypeOK
        BY DEF IInv, OnlyMoves
    <1>2. Actor(req[s])' = Actor(req[s])
        BY <1>1, ActorStays DEF RequestInv
    <1>3. ArgsInv(s)'
        BY <1>1 DEF RequestInv, ArgsInv, RowsStay, Registered, Issued
    <1>4. PcInv(s)'
        BY <1>1 DEF RequestInv, PcInv
    <1>5. \A t \in req[s].earlier : t \in Request /\ t # s /\ t # a /\ At(t, "done") /\ req'[t] = req[t]
        BY <1>1 DEF RequestInv, OrderInv, OnlyMoves, TypeOK, Req
    <1>6. OrderInv(s)'
        BY <1>1, <1>5 DEF RequestInv, OrderInv, OnlyCreates, At
    <1>7. StandingInv(s)'
        <2>1. held[s] \subseteq held'[s]
            BY DEF Note
        <2>2. req'[s].by # "none" /\ req'[s].pc # "done" => Standing(req[s])' \subseteq held'[s]
            BY DEF Note
        <2>3. Needed(req[s])' = Needed(req[s])
            BY <1>1 DEF Needed
        <2> QED BY <1>1, <2>1, <2>2, <2>3 DEF RequestInv, StandingInv
    <1>8. RevokeInv(s)'
        <2>1. Effective(req[s])' = Effective(req[s])
            BY <1>1, EffectiveStays DEF RequestInv
        <2>2. Effective(req[s])' => ~keys'[req[s].target].enabled
            BY <1>1, <2>1 DEF RequestInv, RevokeInv, RowsStay, ArgsInv, Effective, Issued
        <2>3. ASSUME NEW t \in req[s].earlier
              PROVE  Effective(req[t])' = Effective(req[t]) /\ req'[t] = req[t]
            BY <1>5, EffectiveStays DEF IInv, RequestInv
        <2> QED BY <1>1, <2>2, <2>3 DEF RequestInv, RevokeInv
    <1>9. PromotedInv(s)'
        <2> SUFFICES ASSUME At(s, "writeUser")', (req[s].new.status = "disabled")',
                            (users[req[s].target].role = "admin")'
                     PROVE  \E t \in Request \ {s} :
                              /\ req'[t].kind = "update" /\ req'[t].target = req[s].target
                              /\ t \notin req[s].earlier
            BY <1>1 DEF PromotedInv
        <2>1. Registered(req[s].target) /\ At(s, "writeUser")
            BY <1>1 DEF RequestInv, ArgsInv, PcInv, At
        <2>2. CASE users[req[s].target].role = "admin"
            <3>1. PICK t \in Request \ {s} : /\ req[t].kind = "update"
                                             /\ req[t].target = req[s].target
                                             /\ t \notin req[s].earlier
                BY <1>1, <2>1, <2>2 DEF RequestInv, PromotedInv
            <3>2. ~At(t, "idle")
                BY <3>1 DEF IInv, RequestInv, PcInv, At
            <3> QED BY <3>1, <3>2 DEF OnlyMoves
        <2>3. CASE users[req[s].target].role # "admin"
            <3>1. At(a, "writeUser") /\ req[a].target = req[s].target
                BY <1>1, <2>1, <2>3 DEF OnlyWrites, Registered
            <3>2. req[a].kind = "update" /\ ~At(a, "idle")
                BY <3>1 DEF IInv, RequestInv, PcInv, At
            <3> QED BY <1>5, <3>1, <3>2 DEF OnlyMoves
        <2> QED BY <2>2, <2>3
    <1>10. PasswordInv(s)'
        <2> SUFFICES ASSUME (req[s].answer = "ok")', (req[s].kind \in PasswordKinds)'
                     PROVE  \E t \in Request :
                              /\ (req[t].answer = "ok" /\ SameOwner(req[t], req[s]))'
                              /\ t = s \/ t \notin req[s].earlier
                              /\ users'[Owner(req[s])'].password = req'[t].new
            BY <1>1 DEF PasswordInv
        <2>1. Owner(req[s])' = Owner(req[s])
            BY <1>1, ActorStays DEF RequestInv
        <2>2. Registered(Owner(req[s]))
            <3>1. req[s].kind = "change" => Registered(Actor(req[s]))
                BY <1>1, ActorIsRegistered DEF IInv, RequestInv, ArgsInv, ShownKinds
            <3> QED BY <1>1, <3>1 DEF RequestInv, ArgsInv, Owner, PasswordKinds
        <2>3. CASE users'[Owner(req[s])].password # users[Owner(req[s])].password
            <3>1. /\ (SameOwner(req[a], req[s]) /\ req[a].answer = "ok")'
                  /\ users'[Owner(req[s])].password = req'[a].new
                BY <2>1, <2>2, <2>3 DEF OnlyWrites, Registered, SameOwner
            <3>2. a \notin req[s].earlier
                BY <1>5
            <3> QED BY <2>1, <3>1, <3>2
        <2>4. CASE users'[Owner(req[s])].password = users[Owner(req[s])].password
            <3>1. PICK t \in Request : /\ req[t].answer = "ok" /\ SameOwner(req[t], req[s])
                                       /\ t = s \/ t \notin req[s].earlier
                                       /\ users[Owner(req[s])].password = req[t].new
                BY <1>1 DEF RequestInv, PasswordInv
            <3>2. t # a
                BY <3>1 DEF OnlyMoves, IInv, RequestInv, PcInv, At
            <3>3. req'[t] = req[t] /\ Owner(req[t])' = Owner(req[t])
                BY <3>1, <3>2, ActorStays DEF OnlyMoves, IInv, RequestInv, SameOwner
            <3> QED BY <2>1, <2>4, <3>1, <3>3 DEF SameOwner
        <2> QED BY <2>3, <2>4
    <1> QED BY <1>3, <1>4, <1>6, <1>7, <1>8, <1>9, <1>10 DEF RequestInv

-----------------------------------------------------------------------------
(* What the ways to step have in common. *)

Pcs == {"idle", "done", "checkName", "insert", "token", "key", "keyUser", "read",
        "write", "writeUser", "insertKey", "disableKey"}
Seen == UserRow \cup Password \cup {NoRow}
Answered == {"none", "ok", "refused", "lost"}

(* Moves changes a program counter, what was read and the answer. *)
LEMMA MoveFacts ==
    ASSUME TypeOK, NEW a \in Request, NEW pc \in Pcs, NEW seen \in Seen,
           NEW answer \in Answered, Moves(a, pc, seen, answer)
    PROVE  /\ req' \in [Request -> Req]
           /\ \A s \in Request \ {a} : req'[s] = req[s]
           /\ req'[a].pc = pc /\ req'[a].answer = answer
           /\ req'[a].kind = req[a].kind /\ req'[a].by = req[a].by
           /\ req'[a].shown = req[a].shown /\ req'[a].target = req[a].target
           /\ req'[a].new = req[a].new /\ req'[a].earlier = req[a].earlier
PROOF
    <1> DEFINE row == [req[a] EXCEPT !.pc = pc, !.seen = seen, !.answer = answer]
    <1>1. req[a] \in Req
        BY DEF TypeOK
    <1>2. row \in Req
        <2> DEFINE q1 == [req[a] EXCEPT !.pc = pc]
                   q2 == [q1 EXCEPT !.seen = seen]
        <2>1. q1 \in Req
            BY <1>1 DEF Req, Pcs
        <2> HIDE DEF q1
        <2>2. q2 \in Req
            BY <2>1 DEF Req, Seen
        <2> HIDE DEF q2
        <2>3. [q2 EXCEPT !.answer = answer] \in Req
            BY <2>2 DEF Req, Answered
        <2>4. row = [q2 EXCEPT !.answer = answer]
            BY DEF q1, q2
        <2> QED BY <2>3, <2>4
    <1>3. /\ row.pc = pc /\ row.answer = answer
          /\ row.kind = req[a].kind /\ row.by = req[a].by /\ row.shown = req[a].shown
          /\ row.target = req[a].target /\ row.new = req[a].new
          /\ row.earlier = req[a].earlier
        BY <1>1 DEF Req
    <1>4. req' = [req EXCEPT ![a] = row]
        BY DEF Moves
    <1> HIDE DEF row
    <1> QED BY <1>2, <1>3, <1>4 DEF TypeOK

(* The history has its type. *)
LEMMA HeldType ==
    ASSUME TypeOK, Note
    PROVE  held' \in [Request -> SUBSET {"active", "admin", "key"}]
PROOF
    <1>1. \A s \in Request : Standing(req[s])' \subseteq {"active", "admin", "key"}
        BY DEF Standing
    <1> QED BY <1>1 DEF TypeOK, Note

(* The invariant from its parts. *)
LEMMA Assemble ==
    ASSUME IInv, Note, NEW a \in Request, Steps(a), TypeOK', NamesAreUnique', KeysOwned',
           RequestInv(a)'
    PROVE  IInv'
PROOF
    <1>1. \A s \in Request : RequestInv(s)'
        BY OthersKeep
    <1> QED BY <1>1 DEF IInv

(* A step that writes no row. *)
LEMMA QuietStep ==
    ASSUME IInv, Note, NEW a \in Request, OnlyMoves(a), users' = users, keys' = keys,
           tokens' \subseteq {u \in Account : users[u] # NoRow}, req' \in [Request -> Req]
    PROVE  Steps(a) /\ TypeOK' /\ NamesAreUnique' /\ KeysOwned'
PROOF
    <1>1. Steps(a)
        BY DEF Steps, RowsStay, OnlyCreates, OnlyWrites
    <1>2. TypeOK'
        BY HeldType DEF IInv, TypeOK
    <1>3. NamesAreUnique' /\ KeysOwned'
        BY DEF IInv, NamesAreUnique, KeysOwned, Registered
    <1> QED BY <1>1, <1>2, <1>3

(* A request that moves on shows and names what it did; what was over *)
(* when it arrived does not move.                                     *)
LEMMA MovedArgs ==
    ASSUME IInv, NEW a \in Request, RowsStay, NEW pc \in Pcs, NEW seen \in Seen,
           NEW answer \in Answered, Moves(a, pc, seen, answer)
    PROVE  /\ ArgsInv(a)'
           /\ Actor(req[a])' = Actor(req[a])
           /\ \A t \in req[a].earlier :
                /\ t \in Request \ {a} /\ At(t, "done")' /\ req'[t] = req[t]
                /\ Effective(req[t])' = Effective(req[t])
PROOF
    <1>1. RequestInv(a) /\ TypeOK
        BY DEF IInv
    <1>2. /\ \A s \in Request \ {a} : req'[s] = req[s]
          /\ req'[a].kind = req[a].kind /\ req'[a].by = req[a].by
          /\ req'[a].shown = req[a].shown /\ req'[a].target = req[a].target
          /\ req'[a].new = req[a].new
        BY <1>1, MoveFacts
    <1>3. ArgsInv(a)'
        BY <1>1, <1>2 DEF RequestInv, ArgsInv, RowsStay, Registered, Issued
    <1>4. Actor(req[a])' = Actor(req[a])
        BY <1>1, <1>2 DEF RequestInv, ArgsInv, RowsStay, Issued, Actor
    <1>5. ASSUME NEW t \in req[a].earlier
          PROVE  t \in Request \ {a} /\ At(t, "done")' /\ req'[t] = req[t]
        BY <1>1, <1>2 DEF RequestInv, OrderInv, TypeOK, Req, At
    <1>6. ASSUME NEW t \in req[a].earlier
          PROVE  Effective(req[t])' = Effective(req[t])
        BY <1>5, EffectiveStays DEF IInv, RequestInv
    <1> QED BY <1>3, <1>4, <1>5, <1>6

(* A request that is refused or lost. *)
LEMMA Ends ==
    ASSUME IInv, Note, NEW a \in Request, NEW answer \in {"refused", "lost"},
           req[a].pc \notin {"idle", "done"}, Answers(a, answer), UNCHANGED tables
    PROVE  IInv'
PROOF
    <1>1. TypeOK /\ req[a].seen \in Seen /\ users' = users /\ keys' = keys /\ tokens' = tokens
        BY DEF IInv, TypeOK, Req, Seen, tables
    <1>2. Moves(a, "done", req[a].seen, answer) /\ "done" \in Pcs /\ answer \in Answered
        BY DEF Answers, Pcs, Answered
    <1>3. /\ req' \in [Request -> Req]
          /\ \A s \in Request \ {a} : req'[s] = req[s]
          /\ req'[a].pc = "done" /\ req'[a].answer = answer
          /\ req'[a].kind = req[a].kind /\ req'[a].by = req[a].by
          /\ req'[a].target = req[a].target /\ req'[a].earlier = req[a].earlier
        BY <1>1, <1>2, MoveFacts
    <1>4. Steps(a) /\ TypeOK' /\ NamesAreUnique' /\ KeysOwned'
        BY <1>1, <1>3, QuietStep DEF OnlyMoves, At, TypeOK
    <1>5. ArgsInv(a)' /\ \A t \in req[a].earlier : t # a /\ At(t, "done")'
        BY <1>1, <1>2, <1>4, MovedArgs DEF Steps
    <1>6. PcInv(a)' /\ OrderInv(a)' /\ StandingInv(a)'
        BY <1>3, <1>5 DEF PcInv, OrderInv, StandingInv, Authorised, At
    <1>7. RevokeInv(a)' /\ PromotedInv(a)' /\ PasswordInv(a)'
        BY <1>3 DEF RevokeInv, PromotedInv, PasswordInv, Effective, At
    <1> QED BY <1>4, <1>5, <1>6, <1>7, Assemble DEF RequestInv

(* A request that goes on to its next statement. *)
LEMMA GoesOn ==
    ASSUME IInv, Note, NEW a \in Request, NEW pc \in Pcs \ {"idle", "done"}, NEW seen \in Seen,
           req[a].pc \notin {"idle", "done"}, Moves(a, pc, seen, "none"), UNCHANGED tables,
           At(a, "key") => keys[req[a].shown].enabled, req[a].by = "key" => pc # "key",
           req[a].by # "none" /\ pc \in Authorised => Needed(req[a]) \in held[a],
           PcInv(a)', PromotedInv(a)'
    PROVE  IInv'
PROOF
    <1>1. TypeOK /\ users' = users /\ keys' = keys /\ tokens' = tokens /\ RequestInv(a)
        BY DEF IInv, TypeOK, tables
    <1>2. "none" \in Answered /\ pc \in Pcs
        BY DEF Answered
    <1>3. /\ req' \in [Request -> Req]
          /\ \A s \in Request \ {a} : req'[s] = req[s]
          /\ req'[a].pc = pc /\ req'[a].answer = "none"
          /\ req'[a].kind = req[a].kind /\ req'[a].by = req[a].by
          /\ req'[a].shown = req[a].shown
          /\ req'[a].target = req[a].target /\ req'[a].earlier = req[a].earlier
        BY <1>1, <1>2, MoveFacts
    <1>4. Steps(a) /\ TypeOK' /\ NamesAreUnique' /\ KeysOwned'
        BY <1>1, <1>3, QuietStep DEF OnlyMoves, At, TypeOK
    <1>5. /\ ArgsInv(a)'
          /\ \A t \in req[a].earlier : /\ t \in Request \ {a} /\ At(t, "done")' /\ req'[t] = req[t]
                                       /\ Effective(req[t])' = Effective(req[t])
        BY <1>1, <1>2, <1>4, MovedArgs DEF Steps
    <1>6. OrderInv(a)'
        BY <1>1, <1>3, <1>5 DEF RequestInv, OrderInv
    <1>7. StandingInv(a)'
        <2>1. held[a] \subseteq held'[a]
            BY DEF Note
        <2>2. req'[a].by # "none" /\ req'[a].pc # "done" => Standing(req[a])' \subseteq held'[a]
            BY DEF Note
        <2>3. Needed(req[a])' = Needed(req[a])
            BY <1>3 DEF Needed
        <2>4. req[a].by = "key" => "key" \in held[a]
            <3>1. CASE At(a, "key")
                <4>1. req[a].by = "key" => "key" \in Standing(req[a])
                    BY <3>1 DEF Standing
                <4> QED BY <1>1, <3>1, <4>1 DEF RequestInv, StandingInv, At
            <3>2. CASE ~At(a, "key")
                BY <1>1, <3>2 DEF RequestInv, StandingInv, At
            <3> QED BY <3>1, <3>2
        <2> QED BY <1>3, <2>1, <2>2, <2>3, <2>4 DEF StandingInv
    <1>8. RevokeInv(a)'
        <2>1. ~Effective(req[a])'
            BY <1>3 DEF Effective
        <2>2. ASSUME (req[a].by = "key")', NEW t \in req[a].earlier, Effective(req[t]),
                     req[t].target = req[a].shown
              PROVE  FALSE
            <3>1. req[a].by = "key" /\ t \in Request
                BY <1>3, <1>5, <2>2
            <3>2. req[a].pc = "key"
                BY <1>1, <2>2, <3>1 DEF RequestInv, RevokeInv
            <3>3. ~keys[req[a].shown].enabled
                BY <2>2, <3>1 DEF IInv, RequestInv, RevokeInv
            <3> QED BY <3>2, <3>3 DEF At
        <2> QED BY <1>3, <1>5, <2>1, <2>2 DEF RevokeInv
    <1>9. PasswordInv(a)'
        BY <1>3 DEF PasswordInv
    <1> QED BY <1>4, <1>5, <1>6, <1>7, <1>8, <1>9, Assemble DEF RequestInv

(* A request that has done its write. *)
LEMMA Finishes ==
    ASSUME IInv, Note, NEW a \in Request, req[a].pc \in Authorised \cup {"insert"},
           NEW answer \in {"ok", "lost"}, Answers(a, answer), RowsStay, OnlyCreates(a), OnlyWrites(a),
           users' \in [Account -> UserRow \cup {NoRow}],
           keys' \in [Account -> KeyRow \cup {NoRow}],
           tokens' \subseteq {u \in Account : users'[u] # NoRow},
           NamesAreUnique', KeysOwned', PasswordInv(a)',
           (Effective(req[a]) => ~keys[req[a].target].enabled)'
    PROVE  IInv'
PROOF
    <1>1. TypeOK /\ req[a].seen \in Seen /\ RequestInv(a)
        BY DEF IInv, TypeOK, Req, Seen
    <1>2. Moves(a, "done", req[a].seen, answer) /\ "done" \in Pcs /\ answer \in Answered
        BY DEF Answers, Pcs, Answered
    <1>3. /\ req' \in [Request -> Req]
          /\ \A s \in Request \ {a} : req'[s] = req[s]
          /\ req'[a].pc = "done" /\ req'[a].answer = answer
          /\ req'[a].kind = req[a].kind /\ req'[a].by = req[a].by
          /\ req'[a].shown = req[a].shown
          /\ req'[a].target = req[a].target /\ req'[a].earlier = req[a].earlier
        BY <1>1, <1>2, MoveFacts
    <1>4. Steps(a)
        BY <1>3 DEF Steps, OnlyMoves, At, Authorised
    <1>5. TypeOK'
        BY <1>1, <1>3, HeldType DEF TypeOK
    <1>6. /\ ArgsInv(a)'
          /\ \A t \in req[a].earlier : /\ t \in Request \ {a} /\ At(t, "done")' /\ req'[t] = req[t]
                                       /\ Effective(req[t])' = Effective(req[t])
        BY <1>1, <1>2, MovedArgs
    <1>7. PcInv(a)' /\ OrderInv(a)' /\ PromotedInv(a)'
        BY <1>3, <1>6 DEF PcInv, OrderInv, PromotedInv, At
    <1>8. StandingInv(a)'
        <2>1. req[a].by # "none" => req[a].pc \in Authorised
            BY <1>1 DEF RequestInv, PcInv, ArgsInv, ShownKinds, RevokeKinds
        <2>2. held[a] \subseteq held'[a] /\ Needed(req[a])' = Needed(req[a])
            BY <1>3 DEF Note, Needed
        <2>3. req[a].by = "key" => "key" \in held[a]
            BY <1>1, <2>1 DEF RequestInv, StandingInv, Authorised
        <2> QED BY <1>1, <1>3, <2>1, <2>2, <2>3 DEF RequestInv, StandingInv
    <1>9. RevokeInv(a)'
        <2>1. ASSUME req[a].by = "key", NEW t \in req[a].earlier, Effective(req[t]),
                     req[t].target = req[a].shown
              PROVE  FALSE
            BY <1>1, <2>1 DEF RequestInv, RevokeInv, PcInv, Authorised
        <2> QED BY <1>3, <1>6, <2>1 DEF RevokeInv
    <1> QED BY <1>4, <1>5, <1>6, <1>7, <1>8, <1>9, Assemble DEF RequestInv

(* A request that arrives. *)
LEMMA Arrived ==
    ASSUME IInv, Note, NEW a \in Request, At(a, "idle"), NEW c,
           NEW pc \in {"checkName", "token", "key", "done"}, NEW kind, NEW target, NEW new,
           NEW seen \in Seen, NEW answer \in {"none", "ok"},
           c.by \in {"none", "token", "key"}, c.shown \in Account \cup {NoRow},
           kind \in {"register", "login"} \cup ShownKinds, target \in Account \cup {NoRow},
           new \in Name \cup Password \cup Changes \cup {NoRow},
           c.by # "none" => pc = c.by,
           answer = "ok" => kind = "login",
           Arrives(a, c, pc, kind, target, new, seen, answer),
           users' = users, keys' = keys,
           tokens' \subseteq {u \in Account : users[u] # NoRow},
           ArgsInv(a)', PcInv(a)'
    PROVE  IInv'
PROOF
    <1> DEFINE done == {s \in Request : At(s, "done")}
               q == [pc |-> pc, kind |-> kind, by |-> c.by, shown |-> c.shown,
                     target |-> target, new |-> new, seen |-> seen, earlier |-> done,
                     answer |-> answer]
    <1>1. TypeOK /\ RequestInv(a) /\ a \notin done
        BY DEF IInv, At
    <1>2. q \in Req
        BY DEF Req, Seen, ShownKinds, RevokeKinds
    <1>3. /\ q.pc = pc /\ q.kind = kind /\ q.by = c.by /\ q.shown = c.shown
          /\ q.target = target /\ q.earlier = done /\ q.answer = answer
        OBVIOUS
    <1>4. req' = [req EXCEPT ![a] = q]
        BY DEF Arrives
    <1> HIDE DEF q
    <1>5. /\ req' \in [Request -> Req] /\ req'[a] = q
          /\ \A s \in Request \ {a} : req'[s] = req[s]
        BY <1>1, <1>2, <1>4 DEF TypeOK
    <1>6. Steps(a) /\ TypeOK' /\ NamesAreUnique' /\ KeysOwned'
        <2>1. OnlyMoves(a)
            BY <1>5 DEF OnlyMoves, At
        <2> QED BY <1>5, <2>1, QuietStep
    <1>7. OrderInv(a)'
        <2>1. \A s \in done : s \in Request /\ s # a /\ req'[s].pc = "done"
            BY <1>1, <1>5 DEF At
        <2> QED BY <1>1, <1>3, <1>5, <2>1 DEF RequestInv, OrderInv, At
    <1>8. StandingInv(a)'
        <2>1. req'[a].by # "none" /\ req'[a].pc # "done" => Standing(req[a])' \subseteq held'[a]
            BY DEF Note
        <2>2. pc \notin Authorised /\ (answer = "ok" => c.by = "none")
            <3>1. answer = "ok" => req'[a].by = "none"
                BY <1>3, <1>5 DEF ArgsInv, ShownKinds, RevokeKinds
            <3> QED BY <1>3, <1>5, <3>1 DEF Authorised
        <2> QED BY <1>3, <1>5, <2>1, <2>2 DEF StandingInv
    <1>9. RevokeInv(a)' /\ PromotedInv(a)' /\ PasswordInv(a)'
        <2>1. answer = "ok" => kind \notin RevokeKinds \cup PasswordKinds
            BY DEF RevokeKinds, PasswordKinds
        <2>2. c.by = "key" => pc = "key" /\ answer = "none"
            BY <1>3, <1>5 DEF PcInv
        <2>3. RevokeInv(a)'
            BY <1>3, <1>5, <2>1, <2>2 DEF RevokeInv, Effective
        <2>4. PromotedInv(a)' /\ PasswordInv(a)'
            BY <1>3, <1>5, <2>1 DEF PromotedInv, PasswordInv, At
        <2> QED BY <2>3, <2>4
    <1> QED BY <1>6, <1>7, <1>8, <1>9, Assemble DEF RequestInv

-----------------------------------------------------------------------------
(* One lemma per operation. *)

(* A request that shows a token or a key. *)
LEMMA ShowsKeeps ==
    ASSUME IInv, Note, NEW a \in Request, At(a, "idle"), NEW c \in Credentials,
           NEW kind \in ShownKinds, NEW target \in Account \cup {NoRow},
           NEW new \in Name \cup Password \cup Changes \cup {NoRow}, NEW seen \in Seen,
           kind \in {"reset", "update"} => Registered(target),
           kind \in RevokeKinds => Issued(target),
           kind \in PasswordKinds => new \in Password,
           kind = "update" => new \in Changes,
           Shows(a, c, kind, target, new, seen)
    PROVE  IInv'
PROOF
    <1>1. /\ users' = users /\ keys' = keys /\ tokens' = tokens
          /\ Arrives(a, c, c.by, kind, target, new, seen, "none")
        BY DEF Shows, tables
    <1>2. TypeOK
        BY DEF IInv
    <1>3. /\ c.by \in {"token", "key"} /\ c.shown \in Account
          /\ c.by = "token" => Registered(c.shown)
          /\ c.by = "key" => Issued(c.shown)
        BY <1>2 DEF Credentials, TypeOK, Registered, Issued
    <1>4. /\ req'[a].pc = c.by /\ req'[a].kind = kind /\ req'[a].by = c.by
          /\ req'[a].shown = c.shown /\ req'[a].target = target /\ req'[a].new = new
          /\ req'[a].answer = "none"
        BY <1>1, <1>2 DEF Arrives, TypeOK
    <1>5. ArgsInv(a)'
        BY <1>1, <1>3, <1>4 DEF ArgsInv, Registered, Issued, ShownKinds, RevokeKinds
    <1>6. PcInv(a)'
        BY <1>3, <1>4 DEF PcInv
    <1>7. /\ c.by \in {"none", "token", "key"} /\ c.shown \in Account \cup {NoRow}
          /\ kind \in {"register", "login"} \cup ShownKinds
          /\ c.by \in {"checkName", "token", "key", "done"}
          /\ tokens' \subseteq {u \in Account : users[u] # NoRow}
        BY <1>1, <1>2, <1>3 DEF TypeOK
    <1> QED BY <1>1, <1>5, <1>6, <1>7, Arrived

(* Registering, logging in, or showing something. *)
LEMMA ArrivalKeeps ==
    ASSUME IInv, Note, NEW a \in Request, Arrival(a)
    PROVE  IInv'
PROOF
    <1>1. TypeOK /\ At(a, "idle") /\ NoRow \in Seen /\ Password \subseteq Seen
        BY DEF IInv, Arrival, Seen
    <1>2. CASE \E n \in Name : /\ Arrives(a, Nobody, "checkName", "register", NoRow, n, NoRow, "none")
                               /\ UNCHANGED tables
        <2>1. PICK n \in Name : /\ Arrives(a, Nobody, "checkName", "register", NoRow, n, NoRow, "none")
                                /\ UNCHANGED tables
            BY <1>2
        <2>2. /\ users' = users /\ keys' = keys /\ tokens' = tokens
              /\ Nobody.by = "none" /\ Nobody.shown = NoRow
            BY <2>1 DEF tables, Nobody
        <2>3. /\ req'[a].pc = "checkName" /\ req'[a].kind = "register" /\ req'[a].by = "none"
              /\ req'[a].new = n /\ req'[a].answer = "none"
            BY <1>1, <2>1, <2>2 DEF Arrives, TypeOK
        <2>4. ArgsInv(a)' /\ PcInv(a)'
            BY <2>3 DEF ArgsInv, PcInv, RevokeKinds, PasswordKinds, ShownKinds
        <2>5. /\ NoRow \in Account \cup {NoRow}
              /\ n \in Name \cup Password \cup Changes \cup {NoRow}
              /\ tokens' \subseteq {u \in Account : users[u] # NoRow}
            BY <1>1, <2>2 DEF TypeOK
        <2> QED BY <1>1, <2>1, <2>2, <2>4, <2>5, Arrived
    <1>3. CASE \E u \in Account, p \in Password : Login(a, u, p)
        <2>1. PICK u \in Account, p \in Password : Login(a, u, p)
            BY <1>3
        <2>2. /\ users' = users /\ keys' = keys /\ users[u] # NoRow
              /\ tokens' = tokens \cup {u}
              /\ Arrives(a, Nobody, "done", "login", u, NoRow, NoRow, "ok")
              /\ Nobody.by = "none" /\ Nobody.shown = NoRow
            BY <2>1 DEF Login, Nobody
        <2>3. /\ req'[a].pc = "done" /\ req'[a].kind = "login" /\ req'[a].by = "none"
              /\ req'[a].answer = "ok"
            BY <1>1, <2>2 DEF Arrives, TypeOK
        <2>4. ArgsInv(a)' /\ PcInv(a)'
            BY <2>3 DEF ArgsInv, PcInv, RevokeKinds, PasswordKinds, ShownKinds
        <2>5. /\ NoRow \in Account \cup {NoRow} /\ u \in Account \cup {NoRow}
              /\ NoRow \in Name \cup Password \cup Changes \cup {NoRow}
              /\ tokens' \subseteq {v \in Account : users[v] # NoRow}
            BY <1>1, <2>2 DEF TypeOK
        <2> QED BY <1>1, <2>2, <2>4, <2>5, Arrived
    <1>4. ASSUME NEW c \in Credentials, NEW old \in Password, NEW new \in Password,
                 Shows(a, c, "change", NoRow, new, old)
          PROVE  IInv'
        <2>1. "change" \in ShownKinds \ RevokeKinds
            BY DEF ShownKinds, RevokeKinds
        <2> QED BY <1>1, <1>4, <2>1, ShowsKeeps
    <1>5. ASSUME NEW c \in Credentials, Shows(a, c, "createKey", NoRow, NoRow, NoRow)
          PROVE  IInv'
        <2>1. "createKey" \in ShownKinds \ (RevokeKinds \cup PasswordKinds)
            BY DEF ShownKinds, RevokeKinds, PasswordKinds
        <2> QED BY <1>1, <1>5, <2>1, ShowsKeeps
    <1>6. ASSUME NEW c \in Credentials, NEW k \in Account, NEW kind \in {"revoke", "revokeAny"},
                 keys[k] # NoRow, Shows(a, c, kind, k, NoRow, NoRow)
          PROVE  IInv'
        <2>1. kind \in ShownKinds /\ kind \notin PasswordKinds /\ Issued(k)
            BY <1>6 DEF ShownKinds, RevokeKinds, PasswordKinds, Issued
        <2> QED BY <1>1, <1>6, <2>1, ShowsKeeps
    <1>7. ASSUME NEW c \in Credentials, NEW u \in Account, users[u] # NoRow,
                 NEW new \in Password, Shows(a, c, "reset", u, new, NoRow)
          PROVE  IInv'
        <2>1. "reset" \in ShownKinds \ RevokeKinds /\ Registered(u)
            BY <1>7 DEF ShownKinds, RevokeKinds, Registered
        <2> QED BY <1>1, <1>7, <2>1, ShowsKeeps
    <1>8. ASSUME NEW c \in Credentials, NEW u \in Account, users[u] # NoRow,
                 NEW new \in Update, Shows(a, c, "update", u, new, NoRow)
          PROVE  IInv'
        <2>1. /\ "update" \in ShownKinds \ (RevokeKinds \cup PasswordKinds)
              /\ Registered(u)
            BY <1>8 DEF ShownKinds, RevokeKinds, PasswordKinds, Registered
        <2>2. new \in Changes
            <3>1. Unchanged \in Changes
                BY DEF Unchanged, Changes
            <3>2. CASE \E n \in Name : new = [Unchanged EXCEPT !.name = n]
                BY <3>1, <3>2 DEF Changes
            <3>3. ASSUME NEW x \in {"same", "user", "admin"},
                         NEW y \in {"same", "active", "disabled"},
                         new = [Unchanged EXCEPT !.role = x, !.status = y]
                  PROVE  new \in Changes
                <4>1. new = [name |-> "same", role |-> x, status |-> y]
                    BY <3>3 DEF Unchanged
                <4> QED BY <4>1 DEF Changes
            <3> QED BY <3>2, <3>3 DEF Update
        <2> QED BY <1>1, <1>8, <2>1, <2>2, ShowsKeeps
    <1> QED BY <1>2, <1>3, <1>4, <1>5, <1>6, <1>7, <1>8 DEF Arrival

LEMMA FailKeeps ==
    ASSUME IInv, Note, NEW a \in Request, Fail(a)
    PROVE  IInv'
PROOF
    BY Ends DEF Fail

LEMMA CheckNameKeeps ==
    ASSUME IInv, Note, NEW a \in Request, CheckName(a)
    PROVE  IInv'
PROOF
    <1>1. TypeOK /\ RequestInv(a) /\ req[a].pc = "checkName" /\ req[a].seen \in Seen
        BY DEF IInv, CheckName, At, TypeOK, Req, Seen
    <1>2. CASE Refused(a)
        BY <1>1, <1>2, Ends DEF Refused
    <1>3. CASE Goto(a, "insert") /\ UNCHANGED tables
        <2>1. Moves(a, "insert", req[a].seen, "none")
            BY <1>3 DEF Goto
        <2>2. "insert" \in Pcs \ {"idle", "done"} /\ "none" \in Answered
            BY DEF Pcs, Answered
        <2>3. /\ req'[a].pc = "insert" /\ req'[a].answer = "none"
              /\ req'[a].kind = req[a].kind /\ req'[a].by = req[a].by
            BY <1>1, <2>1, <2>2, MoveFacts
        <2>4. PcInv(a)' /\ PromotedInv(a)'
            BY <1>1, <2>3 DEF RequestInv, PcInv, PromotedInv, At
        <2>5. "insert" \notin Authorised /\ ~At(a, "key")
            BY <1>1 DEF Authorised, At
        <2> QED BY <1>1, <1>3, <2>1, <2>2, <2>4, <2>5, GoesOn
    <1> QED BY <1>2, <1>3 DEF CheckName

(* BearerAuth and AdminOnly: the account stands as the route needs. *)
LEMMA LetThroughKeeps ==
    ASSUME IInv, Note, NEW a \in Request, req[a].pc \in {"token", "keyUser"},
           LetThrough(a, users[Actor(req[a])].role)
    PROVE  IInv'
PROOF
    <1> DEFINE u == users[Actor(req[a])]
               pc == FirstStep(req[a].kind)
    <1>1. TypeOK /\ RequestInv(a) /\ req[a].seen \in Seen
        BY DEF IInv, TypeOK, Req, Seen
    <1>2. req[a].by # "none" /\ req[a].kind \in ShownKinds
        BY <1>1 DEF RequestInv, PcInv, ArgsInv
    <1>3. CASE Answers(a, "refused") /\ UNCHANGED tables
        BY <1>3, Ends
    <1>4. CASE /\ u # NoRow /\ u.active /\ (req[a].kind \in AdminKinds => u.role = "admin")
               /\ Goto(a, pc) /\ UNCHANGED tables
        <2>1. pc \in Authorised
            BY <1>2 DEF FirstStep, ShownKinds, RevokeKinds, Authorised
        <2>2. Needed(req[a]) \in held[a]
            <3>1. Needed(req[a]) \in Standing(req[a])
                BY <1>4 DEF Needed, Standing
            <3> QED BY <1>1, <1>2, <3>1 DEF RequestInv, StandingInv
        <2>3. /\ pc = "read" => req[a].kind \in {"change", "update"}
              /\ pc = "write" => req[a].kind \in PasswordKinds
              /\ pc = "insertKey" => req[a].kind = "createKey"
              /\ pc = "disableKey" => req[a].kind \in RevokeKinds
              /\ pc # "writeUser"
            BY <1>2 DEF FirstStep, ShownKinds, RevokeKinds, PasswordKinds
        <2> HIDE DEF pc
        <2>4. Moves(a, pc, req[a].seen, "none")
            BY <1>4 DEF Goto
        <2>5. pc \in Pcs \ {"idle", "done"} /\ pc # "key" /\ "none" \in Answered
            BY <2>1 DEF Pcs, Authorised, Answered
        <2>6. /\ req'[a].pc = pc /\ req'[a].answer = "none"
              /\ req'[a].kind = req[a].kind /\ req'[a].by = req[a].by
            BY <1>1, <2>4, <2>5, MoveFacts
        <2>7. PcInv(a)' /\ PromotedInv(a)'
            BY <2>1, <2>3, <2>6 DEF PcInv, PromotedInv, At, Authorised
        <2>8. ~At(a, "key")
            BY DEF At
        <2> QED BY <1>1, <1>4, <2>2, <2>4, <2>5, <2>7, <2>8, GoesOn
    <1> QED BY <1>3, <1>4 DEF LetThrough

LEMMA AuthTokenKeeps ==
    ASSUME IInv, Note, NEW a \in Request, AuthToken(a)
    PROVE  IInv'
PROOF
    <1>1. req[a].by = "token"
        BY DEF AuthToken, At, IInv, RequestInv, PcInv
    <1>2. Actor(req[a]) = req[a].shown
        BY <1>1 DEF Actor
    <1> QED BY <1>2, LetThroughKeeps DEF AuthToken, At

LEMMA AuthKeyKeeps ==
    ASSUME IInv, Note, NEW a \in Request, AuthKey(a)
    PROVE  IInv'
PROOF
    BY LetThroughKeeps DEF AuthKey, At

LEMMA ListKeysKeeps ==
    ASSUME IInv, Note, NEW a \in Request, ListKeys(a)
    PROVE  IInv'
PROOF
    <1>1. TypeOK /\ RequestInv(a) /\ req[a].pc = "key" /\ req[a].seen \in Seen
        BY DEF IInv, ListKeys, At, TypeOK, Req, Seen
    <1>2. CASE ~keys[req[a].shown].enabled
        BY <1>1, <1>2, Ends DEF ListKeys
    <1>3. CASE keys[req[a].shown].enabled
        <2>1. Moves(a, "keyUser", req[a].seen, "none") /\ UNCHANGED tables
            BY <1>3 DEF ListKeys, Goto
        <2>2. "keyUser" \in Pcs \ {"idle", "done"} /\ "none" \in Answered
            BY DEF Pcs, Answered
        <2>3. /\ req'[a].pc = "keyUser" /\ req'[a].answer = "none" /\ req'[a].by = req[a].by
            BY <1>1, <2>1, <2>2, MoveFacts
        <2>4. PcInv(a)' /\ PromotedInv(a)'
            BY <1>1, <2>3 DEF RequestInv, PcInv, PromotedInv, At
        <2>5. "keyUser" \notin Authorised
            BY DEF Authorised
        <2> QED BY <1>1, <1>3, <2>1, <2>2, <2>4, <2>5, GoesOn
    <1> QED BY <1>2, <1>3

LEMMA CheckOldKeeps ==
    ASSUME IInv, Note, NEW a \in Request, CheckOld(a)
    PROVE  IInv'
PROOF
    <1>1. /\ TypeOK /\ RequestInv(a) /\ req[a].pc = "read" /\ req[a].kind = "change"
          /\ req[a].seen \in Seen
        BY DEF IInv, CheckOld, At, TypeOK, Req, Seen
    <1>2. CASE Refused(a)
        BY <1>1, <1>2, Ends DEF Refused
    <1>3. CASE Goto(a, "write") /\ UNCHANGED tables
        <2>1. Moves(a, "write", req[a].seen, "none")
            BY <1>3 DEF Goto
        <2>2. "write" \in Pcs \ {"idle", "done"} /\ "none" \in Answered
            BY DEF Pcs, Answered
        <2>3. req'[a].pc = "write" /\ req'[a].answer = "none" /\ req'[a].kind = req[a].kind
            BY <1>1, <2>1, <2>2, MoveFacts
        <2>4. PcInv(a)' /\ PromotedInv(a)'
            BY <1>1, <2>3 DEF PcInv, PromotedInv, PasswordKinds, At
        <2>5. ~At(a, "key") /\ (req[a].by # "none" => Needed(req[a]) \in held[a])
            BY <1>1 DEF At, RequestInv, StandingInv, Authorised
        <2> QED BY <1>1, <1>3, <2>1, <2>2, <2>4, <2>5, GoesOn
    <1> QED BY <1>2, <1>3 DEF CheckOld

LEMMA ReadUserKeeps ==
    ASSUME IInv, Note, NEW a \in Request, ReadUser(a)
    PROVE  IInv'
PROOF
    <1> DEFINE u == users[req[a].target]
    <1>1. /\ TypeOK /\ RequestInv(a) /\ req[a].pc = "read" /\ req[a].kind = "update"
          /\ Registered(req[a].target)
        BY DEF IInv, RequestInv, ArgsInv, ReadUser, At
    <1>2. u \in Seen
        BY <1>1 DEF Registered, TypeOK, Seen
    <1>3. CASE Refused(a)
        BY <1>1, <1>3, Ends DEF Refused
    <1>4. CASE /\ ~(u.role = "admin" /\ req[a].new.status = "disabled")
               /\ Moves(a, "writeUser", u, "none") /\ UNCHANGED tables
        <2>1. "writeUser" \in Pcs \ {"idle", "done"} /\ "none" \in Answered
            BY DEF Pcs, Answered
        <2>2. /\ req'[a].pc = "writeUser" /\ req'[a].answer = "none"
              /\ req'[a].kind = req[a].kind /\ req'[a].target = req[a].target
              /\ req'[a].new = req[a].new
            BY <1>1, <1>2, <1>4, <2>1, MoveFacts
        <2>3. PcInv(a)'
            BY <1>1, <2>2 DEF PcInv
        <2>4. PromotedInv(a)'
            BY <1>4, <2>2 DEF PromotedInv, tables
        <2>5. ~At(a, "key") /\ (req[a].by # "none" => Needed(req[a]) \in held[a])
            BY <1>1 DEF At, RequestInv, StandingInv, Authorised
        <2> QED BY <1>1, <1>2, <1>4, <2>1, <2>3, <2>4, <2>5, GoesOn
    <1> QED BY <1>3, <1>4 DEF ReadUser

(* What a request that has done its write is left with. *)
LEMMA AnswersFacts ==
    ASSUME TypeOK, NEW a \in Request, NEW answer \in {"ok", "lost"}, Answers(a, answer)
    PROVE  /\ req'[a].pc = "done" /\ req'[a].answer = answer
           /\ req'[a].kind = req[a].kind /\ req'[a].by = req[a].by
           /\ req'[a].shown = req[a].shown /\ req'[a].target = req[a].target
           /\ req'[a].new = req[a].new /\ req'[a].earlier = req[a].earlier
PROOF
    <1>1. "done" \in Pcs /\ answer \in Answered /\ req[a].seen \in Seen
        BY DEF Pcs, Answered, Seen, TypeOK, Req
    <1> QED BY <1>1, MoveFacts DEF Answers

LEMMA InsertUserKeeps ==
    ASSUME IInv, Note, NEW a \in Request, InsertUser(a)
    PROVE  IInv'
PROOF
    <1>1. /\ TypeOK /\ RequestInv(a) /\ req[a].pc = "insert" /\ req[a].kind = "register"
          /\ req[a].new \in Name
        BY DEF IInv, RequestInv, ArgsInv, PcInv, InsertUser, At
    <1>2. CASE Refused(a)
        BY <1>1, <1>2, Ends DEF Refused
    <1>3. CASE /\ NameFree(req[a].new, a)
               /\ users' = [users EXCEPT ![a] = [name |-> req[a].new, role |-> "user",
                                                 active |-> TRUE, password |-> Initial]]
               /\ tokens' = tokens \cup {a}
               /\ Answers(a, "ok")
               /\ UNCHANGED keys
        <2> DEFINE row == [name |-> req[a].new, role |-> "user", active |-> TRUE,
                           password |-> Initial]
        <2>1. row \in UserRow /\ row # NoRow /\ row.name = req[a].new
            <3>1. row \in UserRow
                BY <1>1, AccessAssumption DEF UserRow
            <3> QED BY <3>1, NoRowAssumption
        <2>2. users' = [users EXCEPT ![a] = row] /\ a \in Account /\ users[a] = NoRow
            BY <1>1, <1>3 DEF Account, RequestInv, OrderInv
        <2> HIDE DEF row
        <2>3. /\ users'[a] = row
              /\ \A u \in Account \ {a} : users'[u] = users[u]
            BY <1>1, <2>2 DEF TypeOK
        <2>4. RowsStay /\ OnlyCreates(a) /\ OnlyWrites(a)
            BY <1>1, <1>3, <2>1, <2>2, <2>3 DEF RowsStay, OnlyCreates, OnlyWrites, Account
        <2>5. /\ users' \in [Account -> UserRow \cup {NoRow}]
              /\ keys' \in [Account -> KeyRow \cup {NoRow}]
              /\ tokens' \subseteq {u \in Account : users'[u] # NoRow}
            <3>1. users' \in [Account -> UserRow \cup {NoRow}]
                BY <1>1, <2>1, <2>2 DEF TypeOK
            <3>2. keys' \in [Account -> KeyRow \cup {NoRow}]
                BY <1>1, <1>3 DEF TypeOK
            <3>3. tokens \subseteq {u \in Account : users[u] # NoRow}
                BY <1>1 DEF TypeOK
            <3>4. /\ \A u \in Account : users[u] # NoRow => users'[u] # NoRow
                  /\ users'[a] # NoRow
                BY <2>1, <2>3
            <3>5. tokens' \subseteq {u \in Account : users'[u] # NoRow}
                BY <1>3, <2>2, <3>3, <3>4
            <3> QED BY <3>1, <3>2, <3>5
        <2>6. NamesAreUnique'
            BY <1>3, <2>1, <2>3 DEF IInv, NamesAreUnique, NameFree
        <2>7. KeysOwned'
            BY <1>3, <2>1, <2>3 DEF IInv, KeysOwned, Registered
        <2>8. PasswordInv(a)' /\ ~Effective(req[a])'
            BY <1>1, <1>3, AnswersFacts DEF PasswordInv, PasswordKinds, Effective, RevokeKinds
        <2> QED BY <1>1, <1>3, <2>4, <2>5, <2>6, <2>7, <2>8, Finishes
    <1> QED BY <1>2, <1>3 DEF InsertUser

LEMMA WritePasswordKeeps ==
    ASSUME IInv, Note, NEW a \in Request, WritePassword(a)
    PROVE  IInv'
PROOF
    <1> DEFINE u == Owner(req[a])
               row == [users[u] EXCEPT !.password = req[a].new]
    <1>1. /\ TypeOK /\ RequestInv(a) /\ KeysOwned /\ req[a].pc = "write"
          /\ req[a].kind \in PasswordKinds /\ req[a].new \in Password
        BY DEF IInv, RequestInv, ArgsInv, WritePassword, At
    <1>2. Registered(u)
        <2>1. req[a].kind = "change" => Registered(Actor(req[a]))
            BY <1>1, ActorIsRegistered DEF RequestInv, ArgsInv, ShownKinds
        <2> QED BY <1>1, <2>1 DEF RequestInv, ArgsInv, Owner, PasswordKinds
    <1>3. users[u] \in UserRow
        BY <1>1, <1>2 DEF Registered, TypeOK
    <1>4. /\ row \in UserRow /\ row # NoRow
          /\ row.name = users[u].name /\ row.role = users[u].role
          /\ row.active = users[u].active /\ row.password = req[a].new
        BY <1>1, <1>3, NoRowAssumption DEF UserRow
    <1>5. /\ users' = [users EXCEPT ![u] = row] /\ Answers(a, "ok")
          /\ keys' = keys /\ tokens' = tokens
        BY DEF WritePassword
    <1> HIDE DEF row
    <1>6. Owner(req[a])' = u /\ req'[a].kind = req[a].kind /\ req'[a].new = req[a].new
          /\ req'[a].answer = "ok"
        BY <1>1, <1>5, AnswersFacts DEF Owner, Actor
    <1> HIDE DEF u
    <1>7. /\ users'[u] = row /\ u \in Account /\ users[u] # NoRow
          /\ \A v \in Account \ {u} : users'[v] = users[v]
        BY <1>1, <1>2, <1>5 DEF TypeOK, Registered
    <1>8. RowsStay /\ OnlyCreates(a)
        BY <1>4, <1>5, <1>7 DEF RowsStay, OnlyCreates, Account
    <1>9. OnlyWrites(a)
        BY <1>1, <1>4, <1>6, <1>7 DEF OnlyWrites, At
    <1>10. /\ users' \in [Account -> UserRow \cup {NoRow}]
           /\ keys' \in [Account -> KeyRow \cup {NoRow}]
           /\ tokens' \subseteq {v \in Account : users'[v] # NoRow}
        BY <1>1, <1>4, <1>5, <1>7 DEF TypeOK
    <1>11. NamesAreUnique'
        BY <1>4, <1>7 DEF IInv, NamesAreUnique
    <1>12. KeysOwned'
        BY <1>1, <1>4, <1>5, <1>7 DEF KeysOwned, Registered
    <1>13. PasswordInv(a)' /\ ~Effective(req[a])'
        <2>1. PasswordInv(a)'
            BY <1>1, <1>4, <1>6, <1>7 DEF PasswordInv, SameOwner
        <2>2. ~Effective(req[a])'
            BY <1>1, <1>6 DEF PasswordKinds, Effective, RevokeKinds
        <2> QED BY <2>1, <2>2
    <1>14. req[a].pc \in Authorised
        BY <1>1 DEF Authorised
    <1> QED BY <1>5, <1>8, <1>9, <1>10, <1>11, <1>12, <1>13, <1>14, Finishes

(* What an UpdateUser makes of a row. *)
LEMMA UpdatedRow ==
    ASSUME NEW old \in UserRow, NEW new \in Changes
    PROVE  /\ Updated(old, new) \in UserRow
           /\ Updated(old, new).password = old.password
           /\ Updated(old, new).name = IF new.name = "same" THEN old.name ELSE new.name
PROOF
    <1> DEFINE n == IF new.name = "same" THEN old.name ELSE new.name
               x == IF new.role = "same" THEN old.role ELSE new.role
               y == IF new.status = "same" THEN old.active ELSE new.status = "active"
               q1 == [old EXCEPT !.name = n]
               q2 == [q1 EXCEPT !.role = x]
               q3 == [q2 EXCEPT !.active = y]
    <1>1. n \in Name
        BY DEF Changes, UserRow
    <1>2. x \in {"user", "admin"}
        BY DEF Changes, UserRow
    <1>3. y \in BOOLEAN
        BY DEF UserRow
    <1>4. Updated(old, new) = q3
        BY DEF Updated
    <1> HIDE DEF n, x, y
    <1>5. q1 \in UserRow /\ q1.name = n /\ q1.password = old.password
        BY <1>1 DEF UserRow
    <1> HIDE DEF q1
    <1>6. q2 \in UserRow /\ q2.name = n /\ q2.password = old.password
        BY <1>2, <1>5 DEF UserRow
    <1> HIDE DEF q2
    <1>7. q3 \in UserRow /\ q3.name = n /\ q3.password = old.password
        BY <1>3, <1>6 DEF UserRow
    <1> HIDE DEF q3
    <1> QED BY <1>4, <1>7 DEF n

LEMMA WriteUserKeeps ==
    ASSUME IInv, Note, NEW a \in Request, WriteUser(a)
    PROVE  IInv'
PROOF
    <1> DEFINE u == req[a].target
               new == req[a].new
               row == Updated(users[u], new)
    <1>1. /\ TypeOK /\ RequestInv(a) /\ KeysOwned /\ req[a].pc = "writeUser"
          /\ req[a].kind = "update" /\ new \in Changes /\ Registered(u)
        BY DEF IInv, RequestInv, ArgsInv, PcInv, WriteUser, At
    <1>2. CASE Refused(a)
        BY <1>1, <1>2, Ends DEF Refused
    <1>3. CASE /\ new.name = "same" \/ NameFree(new.name, u)
               /\ users' = [users EXCEPT ![u] = Updated(@, new)]
               /\ \E answer \in {"ok", "lost"} : Answers(a, answer)
               /\ UNCHANGED <<keys, tokens>>
        <2>0. PICK answer \in {"ok", "lost"} : Answers(a, answer)
            BY <1>3
        <2>1. users[u] \in UserRow
            BY <1>1 DEF Registered, TypeOK
        <2>2. /\ row \in UserRow /\ row # NoRow /\ row.password = users[u].password
              /\ row.name = IF new.name = "same" THEN users[u].name ELSE new.name
            BY <1>1, <2>1, UpdatedRow, NoRowAssumption
        <2>3. users' = [users EXCEPT ![u] = row] /\ keys' = keys /\ tokens' = tokens
            BY <1>3
        <2> HIDE DEF row
        <2>4. /\ users'[u] = row /\ u \in Account /\ users[u] # NoRow
              /\ \A v \in Account \ {u} : users'[v] = users[v]
            BY <1>1, <2>3 DEF TypeOK, Registered
        <2>5. RowsStay /\ OnlyCreates(a)
            BY <2>2, <2>3, <2>4 DEF RowsStay, OnlyCreates, Account
        <2>6. OnlyWrites(a)
            BY <1>1, <2>2, <2>4 DEF OnlyWrites, At
        <2>7. /\ users' \in [Account -> UserRow \cup {NoRow}]
              /\ keys' \in [Account -> KeyRow \cup {NoRow}]
              /\ tokens' \subseteq {v \in Account : users'[v] # NoRow}
            BY <1>1, <2>2, <2>3, <2>4 DEF TypeOK
        <2>8. NamesAreUnique'
            BY <1>3, <2>2, <2>4 DEF IInv, NamesAreUnique, NameFree
        <2>9. KeysOwned'
            BY <1>1, <2>2, <2>3, <2>4 DEF KeysOwned, Registered
        <2>10. PasswordInv(a)' /\ ~Effective(req[a])'
            BY <1>1, <2>0, AnswersFacts DEF PasswordInv, PasswordKinds, Effective, RevokeKinds
        <2>11. req[a].pc \in Authorised
            BY <1>1 DEF Authorised
        <2> QED BY <1>3, <2>0, <2>5, <2>6, <2>7, <2>8, <2>9, <2>10, <2>11, Finishes
    <1> QED BY <1>2, <1>3 DEF WriteUser

LEMMA CreateKeyKeeps ==
    ASSUME IInv, Note, NEW a \in Request, CreateKey(a)
    PROVE  IInv'
PROOF
    <1> DEFINE u == Actor(req[a])
               row == [user |-> u, enabled |-> TRUE]
    <1>1. /\ TypeOK /\ RequestInv(a) /\ KeysOwned /\ NamesAreUnique
          /\ req[a].pc = "insertKey" /\ req[a].kind = "createKey"
          /\ keys[a] = NoRow /\ a \in Account
        BY DEF IInv, RequestInv, OrderInv, PcInv, CreateKey, At, Account
    <1>2. Registered(u)
        BY <1>1, ActorIsRegistered DEF RequestInv, ArgsInv, ShownKinds
    <1>3. row \in KeyRow /\ row # NoRow /\ row.user = u
        <2>1. row \in KeyRow
            BY <1>2 DEF KeyRow, Registered
        <2> QED BY <2>1, NoRowAssumption
    <1>4. /\ keys' = [keys EXCEPT ![a] = row] /\ Answers(a, "ok")
          /\ users' = users /\ tokens' = tokens
        BY DEF CreateKey
    <1> HIDE DEF row, u
    <1>5. /\ keys'[a] = row
          /\ \A k \in Account \ {a} : keys'[k] = keys[k]
        BY <1>1, <1>4 DEF TypeOK
    <1>6. RowsStay /\ OnlyCreates(a) /\ OnlyWrites(a)
        BY <1>1, <1>4, <1>5 DEF RowsStay, OnlyCreates, OnlyWrites, Account
    <1>7. /\ users' \in [Account -> UserRow \cup {NoRow}]
          /\ keys' \in [Account -> KeyRow \cup {NoRow}]
          /\ tokens' \subseteq {v \in Account : users'[v] # NoRow}
        BY <1>1, <1>3, <1>4 DEF TypeOK
    <1>8. NamesAreUnique'
        BY <1>1, <1>4 DEF NamesAreUnique
    <1>9. KeysOwned'
        BY <1>1, <1>2, <1>3, <1>4, <1>5 DEF KeysOwned, Registered
    <1>10. PasswordInv(a)' /\ ~Effective(req[a])'
        BY <1>1, <1>4, AnswersFacts DEF PasswordInv, PasswordKinds, Effective, RevokeKinds
    <1>11. req[a].pc \in Authorised
        BY <1>1 DEF Authorised
    <1> QED BY <1>4, <1>6, <1>7, <1>8, <1>9, <1>10, <1>11, Finishes

LEMMA RevokeKeeps ==
    ASSUME IInv, Note, NEW a \in Request, Revoke(a)
    PROVE  IInv'
PROOF
    <1> DEFINE k == req[a].target
               mine == keys[k].user = Actor(req[a]) \/ req[a].kind = "revokeAny"
               row == IF mine THEN [keys[k] EXCEPT !.enabled = FALSE] ELSE keys[k]
    <1>1. /\ TypeOK /\ RequestInv(a) /\ KeysOwned /\ NamesAreUnique
          /\ req[a].pc = "disableKey" /\ req[a].kind \in RevokeKinds /\ Issued(k)
        BY DEF IInv, RequestInv, ArgsInv, PcInv, Revoke, At
    <1>2. keys[k] \in KeyRow /\ k \in Account
        BY <1>1 DEF Issued, TypeOK
    <1>3. /\ row \in KeyRow /\ row # NoRow /\ row.user = keys[k].user
          /\ row.enabled => keys[k].enabled
          /\ mine => ~row.enabled
        BY <1>2, NoRowAssumption DEF KeyRow
    <1>4. /\ keys' = [keys EXCEPT ![k] = row] /\ Answers(a, "ok")
          /\ users' = users /\ tokens' = tokens
        BY <1>1, <1>2 DEF Revoke, TypeOK
    <1> HIDE DEF row
    <1>5. /\ keys'[k] = row
          /\ \A i \in Account \ {k} : keys'[i] = keys[i]
        BY <1>1, <1>2, <1>4 DEF TypeOK
    <1>6. RowsStay /\ OnlyCreates(a) /\ OnlyWrites(a)
        BY <1>1, <1>3, <1>4, <1>5 DEF RowsStay, OnlyCreates, OnlyWrites, Issued, Account
    <1>7. /\ users' \in [Account -> UserRow \cup {NoRow}]
          /\ keys' \in [Account -> KeyRow \cup {NoRow}]
          /\ tokens' \subseteq {v \in Account : users'[v] # NoRow}
        BY <1>1, <1>3, <1>4 DEF TypeOK
    <1>8. NamesAreUnique'
        BY <1>1, <1>4 DEF NamesAreUnique
    <1>9. KeysOwned'
        BY <1>1, <1>4, <1>6 DEF KeysOwned, Registered, RowsStay, Issued
    <1>10. PasswordInv(a)'
        BY <1>1, <1>4, AnswersFacts DEF PasswordInv, PasswordKinds, RevokeKinds
    <1>11. (Effective(req[a]) => ~keys[req[a].target].enabled)'
        <2>1. /\ req'[a].kind = req[a].kind /\ req'[a].by = req[a].by
              /\ req'[a].shown = req[a].shown /\ req'[a].target = k
            BY <1>1, <1>4, AnswersFacts
        <2>2. Actor(req[a])' = Actor(req[a])
            BY <1>1, <1>6, <2>1 DEF RequestInv, ArgsInv, RowsStay, Issued, Actor
        <2> QED BY <1>3, <1>5, <2>1, <2>2 DEF Effective
    <1>12. req[a].pc \in Authorised
        BY <1>1 DEF Authorised
    <1> QED BY <1>4, <1>6, <1>7, <1>8, <1>9, <1>10, <1>11, <1>12, Finishes

-----------------------------------------------------------------------------
(* The invariant is inductive. *)

LEMMA InitKeeps == Init => IInv
PROOF
    <1> SUFFICES ASSUME Init PROVE IInv
        OBVIOUS
    <1>1. First \in Account /\ Second \in Account /\ First \notin Request /\ Second \notin Request
          /\ First # Second
        BY AccessAssumption DEF Account
    <1>2. \A r \in Request : r \in Account /\ req[r] = Idle /\ users[r] = NoRow /\ keys[r] = NoRow
        BY <1>1 DEF Init, Account
    <1>3. \A u \in Account : users[u] \in UserRow \cup {NoRow}
        BY AccessAssumption DEF Init, UserRow
    <1>4. \A k \in Account : k \notin Request => k \in {First, Second}
        BY DEF Account
    <1>5. users[First] \in UserRow /\ users[Second] \in UserRow
        BY <1>1, AccessAssumption DEF Init, UserRow
    <1>6. users[First] # NoRow /\ users[Second] # NoRow
        BY <1>5, NoRowAssumption
    <1>7. TypeOK
        <2>1. Idle \in Req
            BY DEF Idle, Req
        <2>2. keys \in [Account -> KeyRow \cup {NoRow}]
            BY DEF Init, KeyRow
        <2>3. users \in [Account -> UserRow \cup {NoRow}]
            BY <1>3 DEF Init
        <2> QED BY <1>1, <1>6, <2>1, <2>2, <2>3 DEF TypeOK, Init
    <1>8. NamesAreUnique
        <2>1. users[First].name = FirstName /\ users[Second].name = SecondName
            BY <1>1 DEF Init
        <2> QED BY <1>2, <1>4, <2>1, AccessAssumption DEF NamesAreUnique
    <1>9. KeysOwned
        <2>1. \A k \in Account : keys[k] # NoRow => k \in {First, Second} /\ keys[k].user = k
            BY <1>2, <1>4 DEF Init
        <2> QED BY <1>1, <1>6, <2>1 DEF KeysOwned, Registered
    <1>10. ASSUME NEW r \in Request PROVE RequestInv(r)
        <2>1. /\ req[r].pc = "idle" /\ req[r].kind = "none" /\ req[r].by = "none"
              /\ req[r].earlier = {} /\ req[r].answer = "none"
            BY <1>2 DEF Idle
        <2>2. ArgsInv(r)
            BY <2>1 DEF ArgsInv, RevokeKinds, PasswordKinds, ShownKinds
        <2>3. PcInv(r) /\ OrderInv(r) /\ StandingInv(r)
            BY <1>2, <2>1 DEF PcInv, OrderInv, StandingInv
        <2>4. RevokeInv(r) /\ PromotedInv(r) /\ PasswordInv(r)
            BY <2>1 DEF RevokeInv, PromotedInv, PasswordInv, Effective, At
        <2> QED BY <2>2, <2>3, <2>4 DEF RequestInv
    <1> QED BY <1>7, <1>8, <1>9, <1>10 DEF IInv

LEMMA StutterKeeps == IInv /\ UNCHANGED vars => IInv'
PROOF
    <1> SUFFICES ASSUME IInv, UNCHANGED vars PROVE IInv'
        OBVIOUS
    <1>1. users' = users /\ keys' = keys /\ tokens' = tokens /\ req' = req /\ held' = held
        BY DEF vars
    <1>2. TypeOK' /\ NamesAreUnique' /\ KeysOwned'
        BY <1>1 DEF IInv, TypeOK, NamesAreUnique, KeysOwned, Registered
    <1>3. ASSUME NEW r \in Request PROVE RequestInv(r)'
        <2>1. RequestInv(r)
            BY DEF IInv
        <2>2. ArgsInv(r)' /\ PcInv(r)' /\ OrderInv(r)'
            BY <1>1, <2>1 DEF RequestInv, ArgsInv, PcInv, OrderInv, Registered, Issued, At
        <2>3. StandingInv(r)' /\ PromotedInv(r)'
            BY <1>1, <2>1 DEF RequestInv, StandingInv, PromotedInv, Standing, Actor, Needed, At
        <2>4. RevokeInv(r)' /\ PasswordInv(r)'
            BY <1>1, <2>1 DEF RequestInv, RevokeInv, PasswordInv, Effective, SameOwner, Owner, Actor
        <2> QED BY <2>2, <2>3, <2>4 DEF RequestInv
    <1> QED BY <1>2, <1>3 DEF IInv

LEMMA NextKeeps == IInv /\ [Next]_vars => IInv'
PROOF
    <1>1. ASSUME IInv, Note, NEW a \in Request, Arrival(a) \/ Step(a) \/ Fail(a)
          PROVE  IInv'
        <2>1. CASE Arrival(a)
            BY <1>1, <2>1, ArrivalKeeps
        <2>2. CASE Fail(a)
            BY <1>1, <2>2, FailKeeps
        <2>3. CASE Step(a)
            <3>1. CASE CheckName(a)
                BY <1>1, <3>1, CheckNameKeeps
            <3>2. CASE InsertUser(a)
                BY <1>1, <3>2, InsertUserKeeps
            <3>3. CASE AuthToken(a)
                BY <1>1, <3>3, AuthTokenKeeps
            <3>4. CASE ListKeys(a)
                BY <1>1, <3>4, ListKeysKeeps
            <3>5. CASE AuthKey(a)
                BY <1>1, <3>5, AuthKeyKeeps
            <3>6. CASE CheckOld(a)
                BY <1>1, <3>6, CheckOldKeeps
            <3>7. CASE WritePassword(a)
                BY <1>1, <3>7, WritePasswordKeeps
            <3>8. CASE ReadUser(a)
                BY <1>1, <3>8, ReadUserKeeps
            <3>9. CASE WriteUser(a)
                BY <1>1, <3>9, WriteUserKeeps
            <3>10. CASE CreateKey(a)
                BY <1>1, <3>10, CreateKeyKeeps
            <3>11. CASE Revoke(a)
                BY <1>1, <3>11, RevokeKeeps
            <3> QED BY <2>3, <3>1, <3>2, <3>3, <3>4, <3>5, <3>6, <3>7, <3>8, <3>9, <3>10, <3>11
                    DEF Step
        <2> QED BY <1>1, <2>1, <2>2, <2>3
    <1> QED BY <1>1, StutterKeeps DEF Next

-----------------------------------------------------------------------------
(* What follows from it. *)

LEMMA ImpliesStanding == IInv => ActsWithStanding
PROOF
    BY DEF IInv, RequestInv, StandingInv, ActsWithStanding, Needed

LEMMA ImpliesRevoked == IInv => RevokedKeyIsDead
PROOF
    <1> SUFFICES ASSUME IInv, NEW r \in Request, NEW s \in Request,
                        req[s].answer = "ok", req[s].kind \in {"revoke", "revokeAny"},
                        req[s].kind = "revokeAny" \/ keys[req[s].target].user = Actor(req[s]),
                        s \in req[r].earlier, req[r].by = "key", req[r].shown = req[s].target
                 PROVE  req[r].answer # "ok"
        BY DEF RevokedKeyIsDead
    <1>1. Effective(req[s])
        BY DEF Effective, RevokeKinds
    <1> QED BY <1>1 DEF IInv, RequestInv, RevokeInv

LEMMA ImpliesPassword == IInv => LastPasswordHolds
PROOF
    BY DEF IInv, RequestInv, PasswordInv, SameOwner, LastPasswordHolds

(* A key changes by a revocation of someone entitled to it only. *)
LEMMA OnlyRevocationsDisable ==
    ASSUME IInv, [Next]_vars
    PROVE  \A k \in Account :
             keys[k] # NoRow /\ keys'[k] # keys[k] =>
               \E r \in Request :
                 /\ At(r, "disableKey") /\ req[r].target = k
                 /\ \/ /\ req[r].kind = "revoke" /\ keys[k].user = Actor(req[r])
                       /\ "active" \in held[r]
                    \/ req[r].kind = "revokeAny" /\ "admin" \in held[r]
PROOF
    <1> SUFFICES ASSUME NEW k \in Account, keys[k] # NoRow, keys'[k] # keys[k]
                 PROVE  \E r \in Request :
                          /\ At(r, "disableKey") /\ req[r].target = k
                          /\ \/ /\ req[r].kind = "revoke" /\ keys[k].user = Actor(req[r])
                                /\ "active" \in held[r]
                             \/ req[r].kind = "revokeAny" /\ "admin" \in held[r]
        OBVIOUS
    <1>1. PICK a \in Request : Arrival(a) \/ Step(a) \/ Fail(a)
        BY DEF Next, vars
    <1>2. TypeOK /\ RequestInv(a)
        BY DEF IInv
    <1>3. ASSUME UNCHANGED tables \/ UNCHANGED keys PROVE FALSE
        BY <1>3 DEF tables
    <1>4. CASE Arrival(a)
        BY <1>3, <1>4 DEF Arrival, Shows, Login
    <1>5. CASE Fail(a)
        BY <1>3, <1>5 DEF Fail
    <1>6. CASE CheckName(a) \/ AuthToken(a) \/ ListKeys(a) \/ AuthKey(a) \/ CheckOld(a)
               \/ ReadUser(a)
        BY <1>3, <1>6 DEF CheckName, AuthToken, ListKeys, AuthKey, CheckOld, ReadUser,
                          LetThrough, Refused
    <1>7. CASE InsertUser(a) \/ WritePassword(a) \/ WriteUser(a)
        BY <1>3, <1>7 DEF InsertUser, WritePassword, WriteUser, Refused
    <1>8. CASE CreateKey(a)
        BY <1>2, <1>8 DEF CreateKey, At, RequestInv, OrderInv, TypeOK
    <1>9. CASE Revoke(a)
        <2>1. /\ At(a, "disableKey") /\ keys' # keys /\ req[a].kind \in RevokeKinds
              /\ keys[req[a].target].user = Actor(req[a]) \/ req[a].kind = "revokeAny"
            BY <1>2, <1>9 DEF Revoke, RequestInv, PcInv, At
        <2>2. req[a].target = k
            BY <1>2, <1>9 DEF Revoke, TypeOK
        <2>3. Needed(req[a]) \in held[a]
            BY <1>2, <2>1 DEF RequestInv, StandingInv, ArgsInv, ShownKinds, Authorised, At
        <2> QED BY <2>1, <2>2, <2>3 DEF RevokeKinds, Needed, AdminKinds
    <1> QED BY <1>1, <1>4, <1>5, <1>6, <1>7, <1>8, <1>9 DEF Step

(* Only an UpdateUser that says so disables an account. *)
LEMMA OnlyUpdatesDisable ==
    ASSUME IInv, NEW a \in Request, Arrival(a) \/ Step(a) \/ Fail(a),
           NEW u \in Account, users[u] # NoRow, users[u].active, ~users'[u].active
    PROVE  /\ At(a, "writeUser") /\ req[a].target = u /\ req[a].new.status = "disabled"
           /\ At(a, "done")'
PROOF
    <1>1. TypeOK /\ RequestInv(a) /\ users[u] \in UserRow
        BY DEF IInv, TypeOK
    <1>2. ASSUME UNCHANGED tables PROVE FALSE
        BY <1>2 DEF tables
    <1>3. ASSUME \E v \in Account, p \in Password : Login(a, v, p) PROVE FALSE
        BY <1>3 DEF Login
    <1>4. CASE Arrival(a)
        BY <1>2, <1>3, <1>4 DEF Arrival, Shows
    <1>5. CASE Fail(a)
        BY <1>2, <1>5 DEF Fail
    <1>6. CASE CheckName(a) \/ AuthToken(a) \/ ListKeys(a) \/ AuthKey(a) \/ CheckOld(a)
               \/ ReadUser(a)
        BY <1>2, <1>6 DEF CheckName, AuthToken, ListKeys, AuthKey, CheckOld, ReadUser,
                          LetThrough, Refused
    <1>7. CASE CreateKey(a) \/ Revoke(a)
        BY <1>7 DEF CreateKey, Revoke
    <1>8. CASE InsertUser(a)
        BY <1>1, <1>2, <1>8 DEF InsertUser, Refused, TypeOK
    <1>9. CASE WritePassword(a)
        <2>1. users' = [users EXCEPT ![Owner(req[a])].password = req[a].new]
            BY <1>9 DEF WritePassword
        <2>2. users'[u].active = users[u].active
            BY <1>1, <2>1 DEF TypeOK, UserRow
        <2> QED BY <2>2
    <1>10. CASE WriteUser(a)
        <2>1. /\ users' = [users EXCEPT ![req[a].target] = Updated(@, req[a].new)]
              /\ At(a, "writeUser") /\ \E answer \in {"ok", "lost"} : Answers(a, answer)
            BY <1>2, <1>10 DEF WriteUser, Refused
        <2>2. req[a].target = u /\ users'[u] = Updated(users[u], req[a].new)
            BY <1>1, <2>1 DEF TypeOK
        <2>3. req[a].new \in Changes
            BY <1>1, <2>1 DEF RequestInv, PcInv, ArgsInv, At
        <2>4. req[a].new.status \notin {"same", "active"}
            BY <1>1, <2>2 DEF Updated, UserRow
        <2>5. At(a, "done")'
            BY <1>1, <2>1, AnswersFacts DEF At
        <2> QED BY <2>1, <2>2, <2>3, <2>4, <2>5 DEF Changes
    <1> QED BY <1>4, <1>5, <1>6, <1>7, <1>8, <1>9, <1>10 DEF Step

LEMMA StepsKeepAdmins ==
    ASSUME IInv, [Next]_vars
    PROVE  \A u \in Account :
             /\ users[u] # NoRow /\ users[u].role = "admin" /\ users[u].active
             /\ ~users'[u].active
             => \E r, s \in Request :
                  /\ r # s /\ At(r, "writeUser") /\ At(r, "done")'
                  /\ req[s].kind = "update" /\ req[s].target = u /\ s \notin req[r].earlier
PROOF
    <1> SUFFICES ASSUME NEW u \in Account, users[u] # NoRow, users[u].role = "admin",
                        users[u].active, ~users'[u].active
                 PROVE  \E r, s \in Request :
                          /\ r # s /\ At(r, "writeUser") /\ At(r, "done")'
                          /\ req[s].kind = "update" /\ req[s].target = u
                          /\ s \notin req[r].earlier
        OBVIOUS
    <1>1. PICK a \in Request : Arrival(a) \/ Step(a) \/ Fail(a)
        BY DEF Next, vars
    <1>2. /\ At(a, "writeUser") /\ req[a].target = u /\ req[a].new.status = "disabled"
          /\ At(a, "done")'
        BY <1>1, OnlyUpdatesDisable
    <1>3. PICK s \in Request \ {a} : /\ req[s].kind = "update" /\ req[s].target = u
                                     /\ s \notin req[a].earlier
        BY <1>2 DEF IInv, RequestInv, PromotedInv
    <1> QED BY <1>2, <1>3

-----------------------------------------------------------------------------
(* The theorems. *)

(* The inductive invariant holds throughout. *)
THEOREM AccessInvariant == Spec => []IInv
PROOF
    BY InitKeeps, NextKeeps, PTL DEF Spec

(* Every variable keeps its type; tokens are issued only for accounts. *)
THEOREM AccessTypeOK == Spec => []TypeOK
PROOF
    <1>1. IInv => TypeOK
        BY DEF IInv
    <1> QED BY <1>1, AccessInvariant, PTL

(* User names are unique although both Register and UpdateUser may race. *)
THEOREM NamesStayUnique == Spec => []NamesAreUnique
PROOF
    <1>1. IInv => NamesAreUnique
        BY DEF IInv
    <1> QED BY <1>1, AccessInvariant, PTL

(* What a request did, its account was entitled to and its key enabled *)
(* for at some moment while the request was served.                    *)
THEOREM StandingIsNeeded == Spec => []ActsWithStanding
PROOF
    BY ImpliesStanding, AccessInvariant, PTL

(* A revoked key opens no later request. *)
THEOREM RevokedKeysStayDead == Spec => []RevokedKeyIsDead
PROOF
    BY ImpliesRevoked, AccessInvariant, PTL

(* The password stored is the one last set, or set by a request that *)
(* overlapped that one.                                              *)
THEOREM LastPasswordStays == Spec => []LastPasswordHolds
PROOF
    BY ImpliesPassword, AccessInvariant, PTL

(* A key is disabled only by its owner or by an administrator. *)
THEOREM KeysAreKept == Spec => KeysStayEnabled
PROOF
    <1>1. IInv /\ [Next]_vars =>
            [\A k \in Account :
               keys[k] # NoRow /\ keys'[k] # keys[k] =>
                 \E r \in Request :
                   /\ At(r, "disableKey") /\ req[r].target = k
                   /\ \/ /\ req[r].kind = "revoke" /\ keys[k].user = Actor(req[r])
                         /\ "active" \in held[r]
                      \/ req[r].kind = "revokeAny" /\ "admin" \in held[r]]_vars
        BY OnlyRevocationsDisable
    <1> QED BY <1>1, AccessInvariant, PTL DEF Spec, KeysStayEnabled

(* An administrator is disabled only in a race of two UpdateUsers. *)
THEOREM AdminsAreKept == Spec => AdminsStayEnabled
PROOF
    <1>1. IInv /\ [Next]_vars =>
            [\A u \in Account :
               /\ users[u] # NoRow /\ users[u].role = "admin" /\ users[u].active
               /\ ~users'[u].active
               => \E r, s \in Request :
                    /\ r # s /\ At(r, "writeUser") /\ At(r, "done")'
                    /\ req[s].kind = "update" /\ req[s].target = u /\ s \notin req[r].earlier
            ]_vars
        BY StepsKeepAdmins
    <1> QED BY <1>1, AccessInvariant, PTL DEF Spec, AdminsStayEnabled
=============================================================================
