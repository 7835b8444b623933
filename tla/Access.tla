------------------------------- MODULE Access -------------------------------
(***************************************************************************)
(* Accounts, passwords, API keys and what a request may do (auth/, the     *)
(* account part of admin/, server/auth_middleware.go and the handlers).    *)
(*                                                                         *)
(* A request shows a token or a key; its account's role is read once, when *)
(* it is let through, and used until it ends.  Every statement runs on its *)
(* own: nothing here is in a transaction.  Tokens and passwords are values: *)
(* hashing and signing are not modelled, nor is the expiry of tokens.      *)
(***************************************************************************)
EXTENDS Integers, FiniteSets

CONSTANTS
    First,      \* the account of the installation: an administrator
    Second,     \* an ordinary account
    Name,       \* user names
    FirstName, SecondName,
    Password,
    Initial,    \* the password accounts start with
    Request,    \* requests, each served once; what one registers or creates is named by it
    NoRow

Account == {First, Second} \cup Request

ASSUME AccessAssumption ==
    /\ First # Second /\ {First, Second} \cap Request = {}
    /\ FirstName # SecondName /\ {FirstName, SecondName} \subseteq Name
    /\ Initial \in Password
    /\ NoRow \notin Account \cup Name \cup Password

VARIABLES
    users,      \* table users
    keys,       \* table api_keys: one of each first account, and those requests create
    tokens,     \* the accounts tokens have been issued for
    req,        \* per request: program counter, arguments, locals and answer
    held        \* history: how the account of a request has stood since it arrived

vars == <<users, keys, tokens, req, held>>
tables == <<users, keys, tokens>>

UserRow == [name : Name, role : {"user", "admin"}, active : BOOLEAN, password : Password]
KeyRow == [user : Account, enabled : BOOLEAN]

ASSUME NoRowAssumption == NoRow \notin UserRow \cup KeyRow

-----------------------------------------------------------------------------
(* `shown` is the account of the token or the key; `new` what is written,  *)
(* `seen` what was read before (of a password change: the old one given).  *)
Idle == [pc |-> "idle", kind |-> "none", by |-> "none", shown |-> NoRow, target |-> NoRow,
         new |-> NoRow, seen |-> NoRow, earlier |-> {}, answer |-> "none"]

At(r, pc) == req[r].pc = pc
Moves(r, pc, seen, answer) ==
    req' = [req EXCEPT ![r] = [@ EXCEPT !.pc = pc, !.seen = seen, !.answer = answer]]
Goto(r, pc) == Moves(r, pc, req[r].seen, "none")
Answers(r, answer) == Moves(r, "done", req[r].seen, answer)
Refused(r) == Answers(r, "refused") /\ UNCHANGED tables

AdminKinds == {"reset", "update", "revokeAny"}
PasswordKinds == {"change", "reset"}

(* The account a request acts for, and the one whose password it sets. *)
Actor(q) == IF q.by = "key" THEN keys[q.shown].user ELSE q.shown
Owner(q) == IF q.kind = "change" THEN Actor(q) ELSE q.target

NameFree(n, u) == \A v \in Account \ {u} : users[v] # NoRow => users[v].name # n

(* A request registers or logs in, or shows a token or a key. *)
Nobody == [by |-> "none", shown |-> NoRow]

Arrives(r, c, pc, kind, target, new, seen, answer) ==
    req' = [req EXCEPT ![r] =
              [pc |-> pc, kind |-> kind, by |-> c.by, shown |-> c.shown, target |-> target,
               new |-> new, seen |-> seen, earlier |-> {s \in Request : At(s, "done")},
               answer |-> answer]]

Shows(r, c, kind, target, new, seen) ==
    Arrives(r, c, c.by, kind, target, new, seen, "none") /\ UNCHANGED tables

-----------------------------------------------------------------------------
(* Register and Login *)

CheckName(r) ==
    /\ At(r, "checkName")
    /\ IF \E u \in Account : users[u] # NoRow /\ users[u].name = req[r].new
       THEN Refused(r)
       ELSE Goto(r, "insert") /\ UNCHANGED tables

(* Defect: user names have no unique index. *)
InsertUserNoIndex(r) ==
    /\ At(r, "insert")
    /\ users' = [users EXCEPT ![r] = [name |-> req[r].new, role |-> "user", active |-> TRUE,
                                      password |-> Initial]]
    /\ tokens' = tokens \cup {r}
    /\ Answers(r, "ok")
    /\ UNCHANGED keys

(* Defect: a token is issued whether or not the row was inserted. *)
InsertUserTokenAnyway(r) ==
    /\ At(r, "insert")
    /\ users' = IF NameFree(req[r].new, r)
                THEN [users EXCEPT ![r] = [name |-> req[r].new, role |-> "user",
                                           active |-> TRUE, password |-> Initial]]
                ELSE users
    /\ tokens' = tokens \cup {r}
    /\ Answers(r, "ok")
    /\ UNCHANGED keys

(* The unique index decides between registrations of one name. *)
InsertUser(r) ==
    /\ At(r, "insert")
    /\ \/ /\ NameFree(req[r].new, r)
          /\ users' = [users EXCEPT ![r] = [name |-> req[r].new, role |-> "user",
                                            active |-> TRUE, password |-> Initial]]
          /\ tokens' = tokens \cup {r}
          /\ Answers(r, "ok")
          /\ UNCHANGED keys
       \/ Refused(r)

(* One row is read; its status, then its password, decide. *)
Login(r, u, p) ==
    /\ users[u] # NoRow /\ users[u].active /\ users[u].password = p
    /\ tokens' = tokens \cup {u}
    /\ Arrives(r, Nobody, "done", "login", u, NoRow, NoRow, "ok")
    /\ UNCHANGED <<users, keys>>

-----------------------------------------------------------------------------
(* BearerAuth and AdminOnly *)

FirstStep(kind) ==
    CASE kind \in {"change", "update"} -> "read"
      [] kind = "createKey" -> "insertKey"
      [] kind \in {"revoke", "revokeAny"} -> "disableKey"
      [] OTHER -> "write"

(* The role that decides is the one AdminOnly finds. *)
LetThrough(r, role) ==
    /\ LET u == users[Actor(req[r])] IN
       IF u # NoRow /\ u.active /\ (req[r].kind \in AdminKinds => role = "admin")
       THEN Goto(r, FirstStep(req[r].kind))
       ELSE Answers(r, "refused")
    /\ UNCHANGED tables

(* Defect: the role is the one the token was issued with. *)
AuthTokenClaims(r) ==
    /\ At(r, "token")
    /\ LetThrough(r, IF req[r].shown = First THEN "admin" ELSE "user")

(* The row is read again: a token says only whose it is. *)
AuthToken(r) == At(r, "token") /\ LetThrough(r, users[req[r].shown].role)

(* Defect: disabled keys are compared as well. *)
ListAllKeys(r) ==
    /\ At(r, "key")
    /\ Goto(r, "keyUser")
    /\ UNCHANGED tables

(* Authenticate lists the enabled keys and compares them with the one shown, *)
(* then reads the account of the key.                                        *)
ListKeys(r) ==
    /\ At(r, "key")
    /\ IF keys[req[r].shown].enabled THEN Goto(r, "keyUser") ELSE Answers(r, "refused")
    /\ UNCHANGED tables

AuthKey(r) == At(r, "keyUser") /\ LetThrough(r, users[Actor(req[r])].role)

-----------------------------------------------------------------------------
(* ChangePassword and ResetPassword *)

(* The old password is compared with the row read here. *)
CheckOld(r) ==
    /\ At(r, "read") /\ req[r].kind = "change"
    /\ IF users[Owner(req[r])].password = req[r].seen
       THEN Goto(r, "write") /\ UNCHANGED tables
       ELSE Refused(r)

WritePassword(r) ==
    /\ At(r, "write") /\ req[r].kind \in PasswordKinds
    /\ users' = [users EXCEPT ![Owner(req[r])].password = req[r].new]
    /\ Answers(r, "ok")
    /\ UNCHANGED <<keys, tokens>>

-----------------------------------------------------------------------------
(* UpdateUser *)

Unchanged == [name |-> "same", role |-> "same", status |-> "same"]

(* Defect: nobody asks whether the account is an administrator's. *)
ReadUserUnchecked(r) ==
    /\ At(r, "read") /\ req[r].kind = "update"
    /\ Moves(r, "writeUser", users[req[r].target], "none")
    /\ UNCHANGED tables

(* An administrator is not disabled - judged by the role read here. *)
ReadUser(r) ==
    LET u == users[req[r].target] IN
    /\ At(r, "read") /\ req[r].kind = "update"
    /\ IF u.role = "admin" /\ req[r].new.status = "disabled"
       THEN Refused(r)
       ELSE Moves(r, "writeUser", u, "none") /\ UNCHANGED tables

Updated(row, new) ==
    [row EXCEPT !.name = IF new.name = "same" THEN @ ELSE new.name,
                !.role = IF new.role = "same" THEN @ ELSE new.role,
                !.active = IF new.status = "same" THEN @ ELSE new.status = "active"]

(* Defect: the whole row is written back. *)
WriteWholeUser(r) ==
    /\ At(r, "writeUser")
    /\ users' = [users EXCEPT ![req[r].target] = Updated(req[r].seen, req[r].new)]
    /\ Answers(r, "ok")
    /\ UNCHANGED <<keys, tokens>>

(* Only the columns given are written; a taken name fails the statement.   *)
(* The row is read again for the answer, and that read may fail (lost).    *)
WriteUser(r) ==
    LET new == req[r].new
        u == req[r].target IN
    /\ At(r, "writeUser")
    /\ IF new.name = "same" \/ NameFree(new.name, u)
       THEN /\ users' = [users EXCEPT ![u] = Updated(@, new)]
            /\ \E answer \in {"ok", "lost"} : Answers(r, answer)
            /\ UNCHANGED <<keys, tokens>>
       ELSE Refused(r)

-----------------------------------------------------------------------------
(* API keys *)

CreateKey(r) ==
    /\ At(r, "insertKey")
    /\ keys' = [keys EXCEPT ![r] = [user |-> Actor(req[r]), enabled |-> TRUE]]
    /\ Answers(r, "ok")
    /\ UNCHANGED <<users, tokens>>

(* Defect: the statement does not ask whose the key is. *)
RevokeAnyones(r) ==
    /\ At(r, "disableKey")
    /\ keys' = [keys EXCEPT ![req[r].target].enabled = FALSE]
    /\ Answers(r, "ok")
    /\ UNCHANGED <<users, tokens>>

(* One statement; of another account's key it updates no row, which is no error. *)
Revoke(r) ==
    LET k == req[r].target
        mine == keys[k].user = Actor(req[r]) \/ req[r].kind = "revokeAny" IN
    /\ At(r, "disableKey")
    /\ keys' = IF mine THEN [keys EXCEPT ![k].enabled = FALSE] ELSE keys
    /\ Answers(r, "ok")
    /\ UNCHANGED <<users, tokens>>

Fail(r) ==
    /\ req[r].pc \notin {"idle", "done"}
    /\ Answers(r, "lost")
    /\ UNCHANGED tables

-----------------------------------------------------------------------------
Init ==
    /\ users = [u \in Account |->
         CASE u = First -> [name |-> FirstName, role |-> "admin", active |-> TRUE,
                            password |-> Initial]
           [] u = Second -> [name |-> SecondName, role |-> "user", active |-> TRUE,
                             password |-> Initial]
           [] OTHER -> NoRow]
    /\ keys = [k \in Account |-> IF k \in Request THEN NoRow
                                 ELSE [user |-> k, enabled |-> TRUE]]
    /\ tokens = {First, Second}
    /\ req = [r \in Request |-> Idle]
    /\ held = [r \in Request |-> {}]

(* What an UpdateUser gives: here a name, or a role and a status. *)
Update ==
    {[Unchanged EXCEPT !.name = n] : n \in Name}
    \cup {[Unchanged EXCEPT !.role = x, !.status = y] :
            x \in {"same", "user", "admin"}, y \in {"same", "active", "disabled"}}

Credentials == [by : {"token"}, shown : tokens]
               \cup [by : {"key"}, shown : {k \in Account : keys[k] # NoRow}]

Arrival(r) ==
    /\ At(r, "idle")
    /\ \/ \E n \in Name :
            /\ Arrives(r, Nobody, "checkName", "register", NoRow, n, NoRow, "none")
            /\ UNCHANGED tables
       \/ \E u \in Account, p \in Password : Login(r, u, p)
       \/ \E c \in Credentials :
            \/ \E old, new \in Password : Shows(r, c, "change", NoRow, new, old)
            \/ Shows(r, c, "createKey", NoRow, NoRow, NoRow)
            \/ \E k \in Account, kind \in {"revoke", "revokeAny"} :
                 keys[k] # NoRow /\ Shows(r, c, kind, k, NoRow, NoRow)
            \/ \E u \in Account :
                 /\ users[u] # NoRow
                 /\ \/ \E new \in Password : Shows(r, c, "reset", u, new, NoRow)
                    \/ \E new \in Update \ {Unchanged} : Shows(r, c, "update", u, new, NoRow)

Step(r) ==
    \/ CheckName(r) \/ InsertUser(r)
    \/ AuthToken(r) \/ ListKeys(r) \/ AuthKey(r)
    \/ CheckOld(r) \/ WritePassword(r) \/ ReadUser(r) \/ WriteUser(r)
    \/ CreateKey(r) \/ Revoke(r)

(* What speaks for a request now: its account's status and role, and its key. *)
Standing(q) ==
    LET u == users[Actor(q)] IN
    (IF q.by = "key" /\ keys[q.shown].enabled THEN {"key"} ELSE {})
    \cup (IF u # NoRow /\ u.active
          THEN {"active"} \cup (IF u.role = "admin" THEN {"admin"} ELSE {}) ELSE {})

Note ==
    held' = [s \in Request |->
              IF req'[s].by # "none" /\ req'[s].pc # "done"
              THEN held[s] \cup Standing(req[s])' ELSE held[s]]

Next == \E r \in Request : (Arrival(r) \/ Step(r) \/ Fail(r)) /\ Note

Spec == Init /\ [][Next]_vars

-----------------------------------------------------------------------------
Changes == [name : Name \cup {"same"}, role : {"same", "user", "admin"},
            status : {"same", "active", "disabled"}]

Req == [pc : {"idle", "done", "checkName", "insert", "token", "key", "keyUser", "read",
              "write", "writeUser", "insertKey", "disableKey"},
        kind : {"none", "register", "login", "change", "reset", "update", "createKey",
                "revoke", "revokeAny"},
        by : {"none", "token", "key"}, shown : Account \cup {NoRow},
        target : Account \cup {NoRow}, new : Name \cup Password \cup Changes \cup {NoRow},
        seen : UserRow \cup Password \cup {NoRow}, earlier : SUBSET Request,
        answer : {"none", "ok", "refused", "lost"}]

(* Type invariant: every row is whole and every local has its range; a     *)
(* token is somebody's.                                                    *)
TypeOK ==
    /\ users \in [Account -> UserRow \cup {NoRow}]
    /\ keys \in [Account -> KeyRow \cup {NoRow}]
    /\ tokens \subseteq {u \in Account : users[u] # NoRow}
    /\ req \in [Request -> Req]
    /\ held \in [Request -> SUBSET {"active", "admin", "key"}]

(* Two accounts never have one user name, although Register looks before   *)
(* it inserts and UpdateUser renames without looking.                      *)
NamesAreUnique ==
    \A u, v \in Account :
        users[u] # NoRow /\ users[v] # NoRow /\ users[u].name = users[v].name => u = v

(* Whatever a request did with a token or a key, its account was active,   *)
(* and an administrator where the route asks for one, at some moment after *)
(* the request arrived, not when the token was issued; and its key was     *)
(* enabled at such a moment, though perhaps not at the same one: the keys  *)
(* are listed first, the account is read later (auth/apikey.go:66-78).     *)
ActsWithStanding ==
    \A r \in Request :
        req[r].answer = "ok" /\ req[r].by # "none" =>
          /\ (IF req[r].kind \in AdminKinds THEN "admin" ELSE "active") \in held[r]
          /\ req[r].by = "key" => "key" \in held[r]

(* A key whose revocation was acknowledged before a request arrived serves *)
(* that request no more, whoever revoked it: its owner or an administrator. *)
RevokedKeyIsDead ==
    \A r, s \in Request :
        /\ req[s].answer = "ok" /\ req[s].kind \in {"revoke", "revokeAny"}
        /\ req[s].kind = "revokeAny" \/ keys[req[s].target].user = Actor(req[s])
        /\ s \in req[r].earlier /\ req[r].by = "key" /\ req[r].shown = req[s].target
        => req[r].answer # "ok"

(* After an acknowledged change or reset the account's password is the one *)
(* it set, or one set by another that was not over when it arrived: a      *)
(* change that compared the old password before a reset may still          *)
(* overwrite it (auth/service.go:125-135), but only when the two overlap,  *)
(* and no UpdateUser in flight writes an old password back.                *)
LastPasswordHolds ==
    \A r \in Request :
        req[r].answer = "ok" /\ req[r].kind \in PasswordKinds =>
          \E s \in Request :
            /\ req[s].answer = "ok" /\ req[s].kind \in PasswordKinds
            /\ Owner(req[s]) = Owner(req[r])
            /\ s = r \/ s \notin req[r].earlier
            /\ users[Owner(req[r])].password = req[s].new

(* A key is disabled only by its owner, whose account was active, or by an *)
(* account that was an administrator's, at some moment after the request   *)
(* arrived: a revocation by another account takes nothing, although it is  *)
(* acknowledged (auth/apikey.go:55-61).                                    *)
KeysStayEnabled ==
    [][\A k \in Account :
         keys[k] # NoRow /\ keys'[k] # keys[k] =>
           \E r \in Request :
             /\ At(r, "disableKey") /\ req[r].target = k
             /\ \/ /\ req[r].kind = "revoke" /\ keys[k].user = Actor(req[r])
                   /\ "active" \in held[r]
                \/ req[r].kind = "revokeAny" /\ "admin" \in held[r]]_vars

(* An account that is an administrator's is disabled only by a request     *)
(* during which another UpdateUser of the same account was at work: the    *)
(* refusal of admin/service.go:64 looks at the role it read before.        *)
AdminsStayEnabled ==
    [][\A u \in Account :
         /\ users[u] # NoRow /\ users[u].role = "admin" /\ users[u].active
         /\ ~users'[u].active
         => \E r, s \in Request :
              /\ r # s /\ At(r, "writeUser") /\ At(r, "done")'
              /\ req[s].kind = "update" /\ req[s].target = u /\ s \notin req[r].earlier
      ]_vars
=============================================================================
