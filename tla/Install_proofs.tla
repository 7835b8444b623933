--------------------------- MODULE Install_proofs ---------------------------
(***************************************************************************)
(* Proofs about Install, for any number of databases, names and requests.  *)
(*                                                                         *)
(* The argument: a request is let through only before there is a lock, and *)
(* remembers whom it met.  So two installations that both come to write    *)
(* the lock have met, and so have a test that touches the global handle of *)
(* a locked system and the installation that locked it.  Where no two      *)
(* installations met, each finds the shared variables as it left them.     *)
(***************************************************************************)
EXTENDS Install, TLAPS

Working(r) == InFlight(r) /\ ~At(r, "check")

(* The installation r has created its administrator and has not failed. *)
Created(r) ==
    /\ Installs(r)
    /\ \/ req[r].pc \in {"truncate", "writeConfig", "lock", "load", "reopen", "wire"}
       \/ req[r].answer = "ok"

(* What a program counter says of a request. *)
PcInv(r) ==
    /\ req[r].pc = "idle" => req[r].kind = "none"
    /\ req[r].pc \in {"idle", "check"} => req[r].met = {} /\ req[r].opened = None
    /\ req[r].pc \in {"configure", "open", "count", "createAdmin", "truncate", "writeConfig",
                      "lock", "load", "reopen", "wire"} => Installs(r)
    /\ req[r].pc \in {"test", "close"} => req[r].kind = "test"
    /\ req[r].kind \in {"install", "test"} => req[r].db \in Db
    /\ Installs(r) => req[r].name \in Name
    /\ req[r].pc # "done" => req[r].answer = "none"
    /\ req[r].pc \in {"count", "createAdmin", "truncate", "writeConfig", "lock", "wire"} =>
         req[r].opened \in Db
    /\ req[r].locked => Installs(r) /\ req[r].pc \in {"load", "reopen", "wire", "done"}
    /\ req[r].pc \in {"load", "reopen", "wire"} => req[r].locked
    /\ Installs(r) /\ req[r].answer = "ok" => req[r].locked
    /\ InFlight(r) => up

(* Whoever is at work while another is, or was until it wrote the lock, has *)
(* met it: after the lock nobody is let through.                            *)
PairInv(r, s) ==
    r # s /\ (Working(r) \/ req[r].locked) /\ (Working(s) \/ req[s].locked) =>
      Overlapped(r, s)

(* Only a request writes the lock; services are wired on a locked system. *)
LockInv ==
    /\ lock <=> \E r \in Request : req[r].locked
    /\ wired # None => lock /\ global # None
    /\ ~up => wired = None

(* An installation that wrote the lock met q. *)
Beside(q) == \E s \in Request : Installs(s) /\ req[s].locked /\ Overlapped(q, s)

(* Who opened the global handle: a test did so beside an installation. *)
HandleInv ==
    global # None /\ global.by # None =>
      /\ ~At(global.by, "idle")
      /\ wired # None /\ req[global.by].kind = "test" => Beside(global.by)

(* Locked and not wired: an installation is at it, or failed to. *)
Unwired(s) == Installs(s) /\ req[s].locked /\ (InFlight(s) \/ req[s].answer # "ok")

WiringInv == up /\ lock /\ wired = None => \E s \in Request : Unwired(s)

(* An installation that met no other finds what it wrote. *)
Undisturbed(r) ==
    /\ At(r, "open") => cfgDb = req[r].db
    /\ req[r].pc \in {"count", "createAdmin", "truncate", "writeConfig", "lock"} =>
         req[r].opened = req[r].db
    /\ req[r].pc \in {"truncate", "writeConfig", "lock"} => admins[req[r].db] # {}
    /\ At(r, "lock") => dbFile = req[r].db

AloneInv ==
    ~SomeOverlapped =>
      /\ lock => dbFile \in Db /\ admins[dbFile] # {}
      /\ \A r \in Request : Undisturbed(r)

(* Where all installations ask for d and n, nothing else is configured, and *)
(* one of them at most creates the administrator.                           *)
AllAsk(d, n) == \A q \in Request : Installs(q) => req[q].db = d /\ req[q].name = n

OnlyOne(d, n) ==
    /\ cfgDb \in {d, None} /\ dbFile \in {d, "missing", "empty"}
    /\ \A q \in Request : Installs(q) => req[q].opened \in {d, None}
    /\ \A q \in Request : Created(q) => n \in admins[d]
    /\ \A q, p \in Request : Created(q) /\ Created(p) => q = p

SameInv == \A d \in Db, n \in Name : AllAsk(d, n) => OnlyOne(d, n)

IInv ==
    /\ TypeOK
    /\ \A r \in Request : PcInv(r)
    /\ \A r, s \in Request : PairInv(r, s)
    /\ LockInv /\ HandleInv /\ WiringInv /\ AloneInv /\ SameInv
-----------------------------------------------------------------------------
(* What the ways to move on do to a request. *)

Pcs == {"idle", "check", "configure", "open", "count", "createAdmin", "truncate",
        "writeConfig", "lock", "load", "reopen", "wire", "test", "close", "done"}

AnswerSet == {"none", "ok", "installed", "used", "open", "admin", "config", "lock",
              "reopen", "test", "notInstalled", "panic", "served", "lost"}

Row == [pc : Pcs, kind : {"none", "install", "test", "api"},
        db : Db \cup {None}, name : Name \cup {None}, opened : Db \cup {None},
        met : SUBSET Request, locked : BOOLEAN, answer : AnswerSet]

Rows == [Request -> Row]

OthersStay(a) == \A s \in Request \ {a} : req'[s] = req[s]

SameArgs(a) ==
    req'[a].kind = req[a].kind /\ req'[a].db = req[a].db /\ req'[a].name = req[a].name

LEMMA GotoFacts ==
    ASSUME req \in Rows, NEW a \in Request, NEW p \in Pcs, Goto(a, p)
    PROVE  /\ req' \in Rows /\ OthersStay(a) /\ SameArgs(a)
           /\ req'[a].pc = p /\ req'[a].opened = req[a].opened /\ req'[a].met = req[a].met
           /\ req'[a].locked = req[a].locked /\ req'[a].answer = req[a].answer
PROOF
    BY DEF Goto, Rows, Row, OthersStay, SameArgs

LEMMA AnswersFacts ==
    ASSUME req \in Rows, NEW a \in Request, NEW x \in AnswerSet, Answers(a, x)
    PROVE  /\ req' \in Rows /\ OthersStay(a) /\ SameArgs(a)
           /\ req'[a].pc = "done" /\ req'[a].opened = req[a].opened
           /\ req'[a].met = req[a].met /\ req'[a].locked = req[a].locked
           /\ req'[a].answer = x
PROOF
    <1> DEFINE q == [req[a] EXCEPT !.pc = "done"]
    <1>1. q \in Row
        BY DEF Rows, Row, Pcs
    <1>2. [q EXCEPT !.answer = x] \in Row
        BY <1>1 DEF Row
    <1>3. req' = [req EXCEPT ![a] = [q EXCEPT !.answer = x]]
        BY DEF Answers
    <1> QED BY <1>1, <1>2, <1>3 DEF Rows, Row, OthersStay, SameArgs

(* Those at work beside a. *)
Company(a) == {s \in Request \ {a} : Working(s)}

LEMMA PcKeepsRow ==
    ASSUME NEW t \in Row, NEW p \in Pcs
    PROVE  [t EXCEPT !.pc = p] \in Row
PROOF
    BY DEF Row

LEMMA PassesFacts ==
    ASSUME req \in Rows, NEW a \in Request, NEW p \in Pcs, Passes(a, p)
    PROVE  /\ req' \in Rows /\ OthersStay(a) /\ SameArgs(a)
           /\ req'[a].pc = p /\ req'[a].opened = req[a].opened /\ req'[a].met = Company(a)
           /\ req'[a].locked = req[a].locked /\ req'[a].answer = req[a].answer
PROOF
    <1> DEFINE q == [req[a] EXCEPT !.pc = p]
    <1> DEFINE m == Company(a)
    <1>1. q \in Row
        BY PcKeepsRow DEF Rows
    <1>2. m \in SUBSET Request
        BY DEF Company
    <1>3. req' = [req EXCEPT ![a] = [q EXCEPT !.met = m]]
        BY DEF Passes, Company, Working
    <1> HIDE DEF m
    <1>4. [q EXCEPT !.met = m] \in Row
        BY <1>1, <1>2 DEF Row
    <1>5. /\ req' \in Rows /\ OthersStay(a) /\ SameArgs(a)
          /\ req'[a].pc = p /\ req'[a].opened = req[a].opened /\ req'[a].met = m
          /\ req'[a].locked = req[a].locked /\ req'[a].answer = req[a].answer
        BY <1>1, <1>3, <1>4 DEF Rows, Row, OthersStay, SameArgs
    <1> QED BY <1>5 DEF m

LEMMA OpensFacts ==
    ASSUME req \in Rows, NEW a \in Request, NEW p \in Pcs, NEW d, Opens(a, d, p)
    PROVE  /\ req' \in Rows /\ OthersStay(a) /\ SameArgs(a)
           /\ req'[a].pc = p /\ req'[a].opened = d /\ req'[a].met = req[a].met
           /\ req'[a].locked = req[a].locked /\ req'[a].answer = req[a].answer
           /\ d \in Db /\ global' = [db |-> d, by |-> a] /\ global' \in Handle
PROOF
    <1> DEFINE q == [req[a] EXCEPT !.pc = p]
    <1>1. q \in Row
        BY PcKeepsRow DEF Rows
    <1>2. d \in Db
        BY DEF Opens
    <1>3. req' = [req EXCEPT ![a] = [q EXCEPT !.opened = d]]
        BY DEF Opens
    <1>4. [q EXCEPT !.opened = d] \in Row
        BY <1>1, <1>2 DEF Row
    <1>5. /\ req' \in Rows /\ OthersStay(a) /\ SameArgs(a)
          /\ req'[a].pc = p /\ req'[a].opened = d /\ req'[a].met = req[a].met
          /\ req'[a].locked = req[a].locked /\ req'[a].answer = req[a].answer
        BY <1>1, <1>3, <1>4 DEF Rows, Row, OthersStay, SameArgs
    <1>6. global' = [db |-> d, by |-> a]
        BY DEF Opens
    <1>7. global' \in Handle
        BY <1>2, <1>6 DEF Handle
    <1> QED BY <1>2, <1>5, <1>6, <1>7

LEMMA ArrivesFacts ==
    ASSUME req \in Rows, NEW a \in Request, NEW k \in {"install", "test", "api"},
           NEW d \in Db \cup {None}, NEW n \in Name \cup {None}, Arrives(a, k, d, n)
    PROVE  /\ req' \in Rows /\ OthersStay(a) /\ At(a, "idle") /\ up
           /\ req'[a].pc = "check" /\ req'[a].kind = k /\ req'[a].db = d /\ req'[a].name = n
           /\ req'[a].opened = req[a].opened /\ req'[a].met = req[a].met
           /\ req'[a].locked = req[a].locked /\ req'[a].answer = req[a].answer
           /\ UNCHANGED <<disk, memory>>
PROOF
    <1> DEFINE q1 == [req[a] EXCEPT !.pc = "check"]
    <1> DEFINE q2 == [q1 EXCEPT !.kind = k]
    <1> DEFINE q3 == [q2 EXCEPT !.db = d]
    <1> DEFINE q4 == [q3 EXCEPT !.name = n]
    <1>1. q1 \in Row
        BY DEF Rows, Row, Pcs
    <1>2. q2 \in Row
        BY <1>1 DEF Row
    <1>3. q3 \in Row
        BY <1>2 DEF Row
    <1>4. q4 \in Row
        BY <1>3 DEF Row
    <1>5. req' = [req EXCEPT ![a] = q4]
        BY DEF Arrives
    <1>6. /\ q4.pc = "check" /\ q4.kind = k /\ q4.db = d /\ q4.name = n
          /\ q4.opened = req[a].opened /\ q4.met = req[a].met
          /\ q4.locked = req[a].locked /\ q4.answer = req[a].answer
        BY DEF Rows, Row
    <1> HIDE DEF q4
    <1>7. req' \in Rows /\ OthersStay(a) /\ req'[a] = q4
        BY <1>4, <1>5 DEF Rows, OthersStay
    <1> QED BY <1>6, <1>7 DEF Arrives

LEMMA LocksFacts ==
    ASSUME req \in Rows, NEW a \in Request,
           req' = [req EXCEPT ![a] = [@ EXCEPT !.pc = "load", !.locked = TRUE]]
    PROVE  /\ req' \in Rows /\ OthersStay(a) /\ SameArgs(a)
           /\ req'[a].pc = "load" /\ req'[a].opened = req[a].opened
           /\ req'[a].met = req[a].met /\ req'[a].locked /\ req'[a].answer = req[a].answer
PROOF
    <1> DEFINE q == [req[a] EXCEPT !.pc = "load"]
    <1>1. q \in Row
        BY DEF Rows, Row, Pcs
    <1>2. [q EXCEPT !.locked = TRUE] \in Row
        BY <1>1 DEF Row
    <1>3. req' = [req EXCEPT ![a] = [q EXCEPT !.locked = TRUE]]
        OBVIOUS
    <1>4. /\ req' \in Rows /\ OthersStay(a) /\ SameArgs(a)
          /\ req'[a].pc = "load" /\ req'[a].opened = req[a].opened
          /\ req'[a].met = req[a].met /\ req'[a].answer = req[a].answer
        BY <1>1, <1>2, <1>3 DEF Rows, Row, OthersStay, SameArgs
    <1>5. req'[a] = [q EXCEPT !.locked = TRUE]
        BY <1>3 DEF Rows
    <1>6. req'[a].locked
        <2> HIDE DEF q
        <2> QED BY <1>1, <1>5 DEF Row
    <1> QED BY <1>4, <1>6
-----------------------------------------------------------------------------
(* What every step of a request does to the request and the lock. *)

Moved(a) ==
    /\ req' \in Rows /\ OthersStay(a)
    /\ up /\ up' /\ ~At(a, "done") /\ ~At(a, "idle")' /\ PcInv(a)'
    /\ ~At(a, "idle") => SameArgs(a)
    /\ req[a].pc \notin {"idle", "check"} => req'[a].met = req[a].met
    /\ req[a].locked => req'[a].locked
    /\ req'[a].locked => req[a].locked \/ Working(a)
    /\ Working(a)' => Working(a) \/ (At(a, "check") /\ ~lock /\ req'[a].met = Company(a))
    /\ lock' <=> lock \/ req'[a].locked
    /\ lock' \in BOOLEAN /\ up' \in BOOLEAN

LEMMA RowsInRows == TypeOK => req \in Rows
PROOF
    BY DEF TypeOK, Rows, Row, Pcs, AnswerSet

LEMMA RowsTyped ==
    ASSUME NEW a \in Request, req \in Rows
    PROVE  req[a].pc \in Pcs /\ req[a].locked \in BOOLEAN /\ req[a].met \subseteq Request
PROOF
    BY DEF Rows, Row

LEMMA LockedMeansLock ==
    ASSUME LockInv, NEW a \in Request, req[a].locked
    PROVE  lock
PROOF
    BY DEF LockInv

(* A step that keeps the lock file and the process. *)
LEMMA QuietlyMoved ==
    ASSUME IInv, NEW a \in Request, req' \in Rows, OthersStay(a), PcInv(a)', InFlight(a),
           SameArgs(a), ~At(a, "idle")', req'[a].locked = req[a].locked, lock' = lock, up' = up,
           \/ req'[a].met = req[a].met /\ (Working(a)' => Working(a))
           \/ At(a, "check") /\ ~lock /\ req'[a].met = Company(a)
    PROVE  Moved(a)
PROOF
    <1>1. up /\ ~At(a, "done") /\ ~At(a, "idle")
        BY DEF IInv, PcInv, InFlight, At
    <1>2. req[a].locked => lock
        BY LockedMeansLock DEF IInv
    <1>3. lock \in BOOLEAN /\ up \in BOOLEAN
        BY DEF IInv, TypeOK
    <1>4. lock' <=> lock \/ req'[a].locked
        BY <1>2, <1>3
    <1>5. At(a, "check") \/ (req'[a].met = req[a].met /\ (Working(a)' => Working(a)))
        OBVIOUS
    <1>6. req[a].pc \notin {"idle", "check"} => req'[a].met = req[a].met
        BY <1>5 DEF At
    <1>7. lock' \in BOOLEAN /\ up' \in BOOLEAN
        BY <1>3
    <1> QED BY <1>1, <1>4, <1>6, <1>7 DEF Moved

(* A refusal or an end. *)
LEMMA EndsMoved ==
    ASSUME IInv, NEW a \in Request, NEW x \in AnswerSet, Answers(a, x), InFlight(a),
           x = "ok" => ~Installs(a) \/ req[a].locked, lock' = lock, up' = up
    PROVE  Moved(a)
PROOF
    <1>1. /\ req' \in Rows /\ OthersStay(a) /\ SameArgs(a)
          /\ req'[a].pc = "done" /\ req'[a].opened = req[a].opened
          /\ req'[a].met = req[a].met /\ req'[a].locked = req[a].locked
          /\ req'[a].answer = x
        BY AnswersFacts, RowsInRows DEF IInv
    <1>2. PcInv(a)'
        BY <1>1 DEF IInv, PcInv, SameArgs, Installs, InFlight
    <1>3. ~At(a, "idle")' /\ (Working(a)' => Working(a))
        BY <1>1 DEF At, Working, InFlight
    <1> QED BY <1>1, <1>2, <1>3, QuietlyMoved

LEMMA FailsMoved ==
    ASSUME IInv, NEW a \in Request, NEW x \in AnswerSet \ {"ok"}, Fails(a, x), InFlight(a)
    PROVE  Moved(a)
PROOF
    <1>1. lock' = lock /\ up' = up /\ Answers(a, x)
        BY DEF Fails, disk, memory
    <1> QED BY <1>1, EndsMoved

(* The handler goes on to its next step. *)
LEMMA GotoMoved ==
    ASSUME IInv, NEW a \in Request,
           NEW p \in {"open", "createAdmin", "truncate", "writeConfig", "lock", "reopen"},
           Goto(a, p), Working(a), Installs(a),
           p = "reopen" <=> req[a].locked, lock' = lock, up' = up,
           p \in {"open", "reopen"} \/ req[a].opened \in Db
    PROVE  Moved(a)
PROOF
    <1>1. /\ req' \in Rows /\ OthersStay(a) /\ SameArgs(a)
          /\ req'[a].pc = p /\ req'[a].opened = req[a].opened /\ req'[a].met = req[a].met
          /\ req'[a].locked = req[a].locked /\ req'[a].answer = req[a].answer
        BY GotoFacts, RowsInRows DEF IInv, Pcs
    <1>2. InFlight(a) /\ PcInv(a)
        BY DEF IInv, Working
    <1>3. PcInv(a)'
        BY <1>1, <1>2 DEF PcInv, SameArgs, Installs, InFlight
    <1>4. ~At(a, "idle")' /\ (Working(a)' => Working(a))
        BY <1>1 DEF At, Working, InFlight
    <1> QED BY <1>1, <1>2, <1>3, <1>4, QuietlyMoved

LEMMA OpensMoved ==
    ASSUME IInv, NEW a \in Request, NEW d, NEW p \in {"count", "wire", "close"},
           Opens(a, d, p), Working(a), lock' = lock, up' = up,
           p \in {"count", "wire"} => Installs(a), p = "close" => req[a].kind = "test",
           p = "wire" <=> req[a].locked
    PROVE  Moved(a)
PROOF
    <1>1. /\ req' \in Rows /\ OthersStay(a) /\ SameArgs(a)
          /\ req'[a].pc = p /\ req'[a].opened = d /\ req'[a].met = req[a].met
          /\ req'[a].locked = req[a].locked /\ req'[a].answer = req[a].answer /\ d \in Db
        BY OpensFacts, RowsInRows DEF IInv, Pcs
    <1>2. InFlight(a) /\ PcInv(a)
        BY DEF IInv, Working
    <1>3. PcInv(a)'
        BY <1>1, <1>2 DEF PcInv, SameArgs, Installs, InFlight
    <1>4. ~At(a, "idle")' /\ (Working(a)' => Working(a))
        BY <1>1 DEF At, Working, InFlight
    <1> QED BY <1>1, <1>2, <1>3, <1>4, QuietlyMoved

LEMMA PassesMoved ==
    ASSUME IInv, NEW a \in Request, NEW p \in {"configure", "test"}, Passes(a, p),
           At(a, "check"), ~lock, lock' = lock, up' = up,
           p = "configure" => Installs(a), p = "test" => req[a].kind = "test"
    PROVE  Moved(a)
PROOF
    <1>1. /\ req' \in Rows /\ OthersStay(a) /\ SameArgs(a)
          /\ req'[a].pc = p /\ req'[a].opened = req[a].opened /\ req'[a].met = Company(a)
          /\ req'[a].locked = req[a].locked /\ req'[a].answer = req[a].answer
        BY PassesFacts, RowsInRows DEF IInv, Pcs
    <1>2. InFlight(a) /\ PcInv(a)
        BY DEF IInv, InFlight, At
    <1>3. PcInv(a)'
        BY <1>1, <1>2 DEF PcInv, SameArgs, Installs, InFlight, At
    <1>4. ~At(a, "idle")'
        BY <1>1 DEF At
    <1> QED BY <1>1, <1>2, <1>3, <1>4, QuietlyMoved

LEMMA ArrivesMoved ==
    ASSUME IInv, NEW a \in Request, Arrival(a)
    PROVE  Moved(a) /\ UNCHANGED <<disk, memory>>
PROOF
    <1>1. PICK k \in {"install", "test", "api"}, d \in Db \cup {None}, n \in Name \cup {None} :
            /\ Arrives(a, k, d, n) /\ (k \in {"install", "test"} => d \in Db)
            /\ (k = "install" => n \in Name)
        BY DEF Arrival
    <1>2. /\ req' \in Rows /\ OthersStay(a) /\ At(a, "idle") /\ up
          /\ req'[a].pc = "check" /\ req'[a].kind = k /\ req'[a].db = d /\ req'[a].name = n
          /\ req'[a].opened = req[a].opened /\ req'[a].met = req[a].met
          /\ req'[a].locked = req[a].locked /\ req'[a].answer = req[a].answer
          /\ UNCHANGED <<disk, memory>>
        BY <1>1, ArrivesFacts, RowsInRows DEF IInv
    <1>3. PcInv(a) /\ up' = up /\ lock' = lock
        BY <1>2 DEF IInv, disk, memory
    <1>4. PcInv(a)'
        BY <1>1, <1>2, <1>3 DEF PcInv, At, Installs, InFlight
    <1>5. ~req[a].locked /\ ~Working(a)' /\ ~At(a, "done") /\ ~At(a, "idle")'
        BY <1>2, <1>3 DEF PcInv, At, Working
    <1>6. lock \in BOOLEAN /\ up \in BOOLEAN
        BY DEF IInv, TypeOK
    <1>7. lock' \in BOOLEAN /\ up' \in BOOLEAN /\ (lock' <=> lock \/ req'[a].locked)
        BY <1>2, <1>3, <1>5, <1>6
    <1> QED BY <1>2, <1>3, <1>4, <1>5, <1>7 DEF Moved, At
LEMMA StepMoved ==
    ASSUME IInv, NEW a \in Request, Step(a)
    PROVE  Moved(a)
PROOF
    <1> USE DEF At
    <1>1. PcInv(a) /\ req[a].pc \in Pcs
        BY RowsInRows, RowsTyped DEF IInv
    <1>2. CASE CheckInstall(a)
        <2>1. UNCHANGED <<lock, up>> /\ InFlight(a) /\ Installs(a)
            BY <1>2 DEF CheckInstall, disk, memory, InFlight, Installs
        <2>2. CASE lock
            BY <1>2, <2>1, <2>2, EndsMoved DEF CheckInstall, AnswerSet
        <2>3. CASE ~lock
            BY <1>2, <2>1, <2>3, PassesMoved DEF CheckInstall
        <2> QED BY <2>2, <2>3
    <1>3. CASE Configure(a)
        <2>1. UNCHANGED <<lock, up>> /\ Working(a) /\ Installs(a) /\ ~req[a].locked
            BY <1>1, <1>3 DEF Configure, disk, InFlight, Working, PcInv
        <2> QED BY <1>3, <2>1, GotoMoved DEF Configure
    <1>4. CASE OpenNew(a)
        <2>1. Working(a) /\ InFlight(a) /\ Installs(a) /\ ~req[a].locked
            BY <1>1, <1>4 DEF OpenNew, InFlight, Working, PcInv
        <2>2. CASE Fails(a, "open")
            BY <2>1, <2>2, FailsMoved DEF AnswerSet
        <2>3. CASE Opens(a, cfgDb, "count") /\ UNCHANGED <<disk, up, cfgDb, wired>>
            BY <2>1, <2>3, OpensMoved DEF disk
        <2> QED BY <1>4, <2>2, <2>3 DEF OpenNew
    <1>5. CASE CountUsers(a)
        <2>1. /\ UNCHANGED <<lock, up>> /\ Working(a) /\ InFlight(a) /\ Installs(a)
              /\ ~req[a].locked /\ req[a].opened \in Db
            BY <1>1, <1>5 DEF CountUsers, disk, memory, InFlight, Working, PcInv
        <2>2. CASE Answers(a, "used")
            BY <2>1, <2>2, EndsMoved DEF AnswerSet
        <2>3. CASE Goto(a, "createAdmin")
            BY <2>1, <2>3, GotoMoved
        <2> QED BY <1>5, <2>2, <2>3 DEF CountUsers
    <1>6. CASE CreateAdmin(a)
        <2>1. /\ Working(a) /\ InFlight(a) /\ Installs(a)
              /\ ~req[a].locked /\ req[a].opened \in Db
            BY <1>1, <1>6 DEF CreateAdmin, InFlight, Working, PcInv
        <2>2. CASE Fails(a, "admin")
            BY <2>1, <2>2, FailsMoved DEF AnswerSet
        <2>3. CASE Goto(a, "truncate") /\ UNCHANGED <<lock, dbFile, memory>>
            BY <2>1, <2>3, GotoMoved DEF memory
        <2> QED BY <1>6, <2>2, <2>3 DEF CreateAdmin
    <1>7. CASE TruncateConfig(a)
        <2>1. /\ Working(a) /\ InFlight(a) /\ Installs(a)
              /\ ~req[a].locked /\ req[a].opened \in Db
            BY <1>1, <1>7 DEF TruncateConfig, InFlight, Working, PcInv
        <2>2. CASE Fails(a, "config")
            BY <2>1, <2>2, FailsMoved DEF AnswerSet
        <2>3. CASE Goto(a, "writeConfig") /\ UNCHANGED <<lock, up>>
            BY <2>1, <2>3, GotoMoved
        <2> QED BY <1>7, <2>2, <2>3 DEF TruncateConfig
    <1>8. CASE WriteConfig(a)
        <2>1. /\ Working(a) /\ Installs(a) /\ UNCHANGED <<lock, up>>
              /\ ~req[a].locked /\ req[a].opened \in Db
            BY <1>1, <1>8 DEF WriteConfig, InFlight, Working, PcInv, memory
        <2> QED BY <1>8, <2>1, GotoMoved DEF WriteConfig
    <1>9. CASE WriteLock(a)
        <2>1. /\ Working(a) /\ InFlight(a) /\ Installs(a)
              /\ ~req[a].locked /\ req[a].opened \in Db
            BY <1>1, <1>9 DEF WriteLock, InFlight, Working, PcInv
        <2>2. CASE Fails(a, "lock")
            BY <2>1, <2>2, FailsMoved DEF AnswerSet
        <2>3. CASE /\ lock' = TRUE /\ UNCHANGED <<dbFile, admins, memory>>
                   /\ req' = [req EXCEPT ![a] = [@ EXCEPT !.pc = "load", !.locked = TRUE]]
            <3>1. /\ req' \in Rows /\ OthersStay(a) /\ SameArgs(a)
                  /\ req'[a].pc = "load" /\ req'[a].opened = req[a].opened
                  /\ req'[a].met = req[a].met /\ req'[a].locked
                  /\ req'[a].answer = req[a].answer
                BY <2>3, LocksFacts, RowsInRows DEF IInv
            <3>2. up /\ up' = up /\ up' \in BOOLEAN /\ lock' \in BOOLEAN
                BY <1>1, <2>1, <2>3 DEF PcInv, memory, IInv, TypeOK
            <3>3. PcInv(a)'
                BY <1>1, <2>1, <3>1, <3>2 DEF PcInv, SameArgs, Installs, InFlight
            <3> QED BY <1>9, <2>1, <2>3, <3>1, <3>2, <3>3 DEF Moved, WriteLock, InFlight
        <2> QED BY <1>9, <2>2, <2>3 DEF WriteLock
    <1>10. CASE LoadInstalled(a)
        <2>1. Working(a) /\ Installs(a) /\ UNCHANGED <<lock, up>> /\ req[a].locked
            BY <1>1, <1>10 DEF LoadInstalled, InFlight, Working, PcInv, disk
        <2> QED BY <1>10, <2>1, GotoMoved DEF LoadInstalled
    <1>11. CASE OpenInstalled(a)
        <2>1. Working(a) /\ InFlight(a) /\ Installs(a) /\ req[a].locked
            BY <1>1, <1>11 DEF OpenInstalled, InFlight, Working, PcInv
        <2>2. CASE Fails(a, "reopen")
            BY <2>1, <2>2, FailsMoved DEF AnswerSet
        <2>3. CASE Opens(a, cfgDb, "wire") /\ UNCHANGED <<disk, up, cfgDb, wired>>
            BY <2>1, <2>3, OpensMoved DEF disk
        <2> QED BY <1>11, <2>2, <2>3 DEF OpenInstalled
    <1>12. CASE Wire(a)
        <2>1. InFlight(a) /\ req[a].locked /\ UNCHANGED <<lock, up>>
            BY <1>1, <1>12 DEF Wire, InFlight, PcInv, disk
        <2> QED BY <1>12, <2>1, EndsMoved DEF Wire, AnswerSet
    <1>13. CASE CheckTest(a)
        <2>1. UNCHANGED <<lock, up>> /\ InFlight(a) /\ req[a].kind = "test"
            BY <1>13 DEF CheckTest, disk, memory, InFlight
        <2>2. CASE lock
            BY <1>13, <2>1, <2>2, EndsMoved DEF CheckTest, AnswerSet
        <2>3. CASE ~lock
            BY <1>13, <2>1, <2>3, PassesMoved DEF CheckTest
        <2> QED BY <2>2, <2>3
    <1>14. CASE TestOpen(a)
        <2>1. Working(a) /\ InFlight(a) /\ req[a].kind = "test" /\ ~req[a].locked
            BY <1>1, <1>14 DEF TestOpen, InFlight, Working, PcInv
        <2>2. CASE Fails(a, "test")
            BY <2>1, <2>2, FailsMoved DEF AnswerSet
        <2>3. CASE Opens(a, req[a].db, "close") /\ UNCHANGED <<disk, up, cfgDb, wired>>
            BY <2>1, <2>3, OpensMoved DEF disk
        <2> QED BY <1>14, <2>2, <2>3 DEF TestOpen
    <1>15. CASE TestClose(a)
        <2>1. InFlight(a) /\ ~Installs(a) /\ UNCHANGED <<lock, up>>
            BY <1>1, <1>15 DEF TestClose, InFlight, PcInv, disk, memory, Installs
        <2> QED BY <1>15, <2>1, EndsMoved DEF TestClose, AnswerSet
    <1>16. CASE Serve(a)
        <2>1. InFlight(a) /\ UNCHANGED <<lock, up>>
            BY <1>16 DEF Serve, InFlight, disk, memory
        <2>2. PICK x \in {"notInstalled", "panic", "served"} : Answers(a, x)
            BY <1>16 DEF Serve
        <2> QED BY <2>1, <2>2, EndsMoved DEF AnswerSet
    <1> QED BY <1>2, <1>3, <1>4, <1>5, <1>6, <1>7, <1>8, <1>9, <1>10, <1>11, <1>12, <1>13,
               <1>14, <1>15, <1>16 DEF Step

-----------------------------------------------------------------------------
(* What follows of a step for each part of the invariant. *)

LEMMA PcKept ==
    ASSUME IInv, NEW a \in Request, Moved(a), NEW r \in Request
    PROVE  PcInv(r)'
PROOF
    <1>1. CASE r = a
        BY <1>1 DEF Moved
    <1>2. CASE r # a
        BY <1>2 DEF IInv, PcInv, Moved, OthersStay, Installs, InFlight
    <1> QED BY <1>1, <1>2

(* Who met whom is not forgotten. *)
LEMMA OverlappedKept ==
    ASSUME IInv, NEW a \in Request, Moved(a), NEW r \in Request, NEW s \in Request,
           Overlapped(r, s)
    PROVE  Overlapped(r, s)'
PROOF
    <1>1. \A q \in Request : req[q].met \subseteq req'[q].met
        BY DEF IInv, PcInv, Moved, OthersStay
    <1> QED BY <1>1 DEF Overlapped

LEMMA InstallsKept ==
    ASSUME IInv, NEW a \in Request, Moved(a), NEW r \in Request, Installs(r)
    PROVE  /\ Installs(r)' /\ req'[r].db = req[r].db /\ req'[r].name = req[r].name
           /\ req[r].locked => req'[r].locked
PROOF
    BY DEF IInv, PcInv, Moved, OthersStay, Installs, SameArgs, At

LEMMA SomeOverlappedKept ==
    ASSUME IInv, NEW a \in Request, Moved(a), SomeOverlapped
    PROVE  SomeOverlapped'
PROOF
    <1>1. PICK r, s \in Request : Installs(r) /\ Installs(s) /\ Overlapped(r, s)
        BY DEF SomeOverlapped
    <1>2. Installs(r)' /\ Installs(s)' /\ Overlapped(r, s)'
        BY <1>1, OverlappedKept, InstallsKept
    <1> QED BY <1>2 DEF SomeOverlapped

LEMMA PairKept ==
    ASSUME IInv, NEW a \in Request, Moved(a), NEW r \in Request, NEW s \in Request
    PROVE  PairInv(r, s)'
PROOF
    <1> DEFINE Involved(q) == Working(q) \/ req[q].locked
    <1> SUFFICES ASSUME r # s, Involved(r)', Involved(s)'
                 PROVE  Overlapped(r, s)'
        BY DEF PairInv
    <1>1. \A q \in Request \ {a} : Involved(q)' => Involved(q)
        BY DEF Moved, OthersStay, Working, InFlight, At
    <1>2. CASE Involved(a) \/ (r # a /\ s # a)
        <2>1. Involved(r) /\ Involved(s)
            BY <1>1, <1>2
        <2>2. Overlapped(r, s)
            BY <2>1 DEF IInv, PairInv
        <2> QED BY <2>2, OverlappedKept
    <1>3. CASE ~Involved(a) /\ (r = a \/ s = a)
        <2>1. Working(a)'
            BY <1>3 DEF Moved
        <2>2. ~lock /\ req'[a].met = Company(a)
            BY <1>3, <2>1 DEF Moved
        <2>3. \A q \in Request \ {a} : Involved(q) => q \in req'[a].met
            BY <2>2, LockedMeansLock DEF Company, IInv
        <2> QED BY <1>1, <1>3, <2>3 DEF Overlapped
    <1> QED BY <1>2, <1>3
(* Who changes what the requests share. *)
LEMMA SharedFacts ==
    ASSUME IInv, NEW a \in Request, Arrival(a) \/ Step(a), Moved(a)
    PROVE  /\ wired' = wired \/ Wire(a)
           /\ \/ global' = global
              \/ global' \in Handle /\ global'.by = a /\ Working(a)
           /\ (Installs(a) /\ Working(a)) \/ UNCHANGED <<disk, cfgDb>>
PROOF
    <1> USE DEF At
    <1>1. PcInv(a)
        BY DEF IInv
    <1>2. CASE Arrival(a)
        BY <1>2, ArrivesMoved DEF memory
    <1>3. CASE CheckInstall(a) \/ CheckTest(a) \/ TestClose(a) \/ Serve(a)
        BY <1>3 DEF CheckInstall, CheckTest, TestClose, Serve, disk, memory
    <1>4. CASE Configure(a) \/ CountUsers(a) \/ CreateAdmin(a) \/ TruncateConfig(a)
               \/ WriteConfig(a) \/ WriteLock(a) \/ LoadInstalled(a)
        <2>1. Installs(a) /\ Working(a)
            BY <1>1, <1>4 DEF Configure, CountUsers, CreateAdmin, TruncateConfig, WriteConfig,
                              WriteLock, LoadInstalled, PcInv, Working, InFlight
        <2>2. UNCHANGED <<wired, global>>
            BY <1>4 DEF Configure, CountUsers, CreateAdmin, TruncateConfig, WriteConfig,
                        WriteLock, LoadInstalled, Fails, disk, memory
        <2> QED BY <2>1, <2>2
    <1>5. CASE OpenNew(a) \/ OpenInstalled(a) \/ TestOpen(a)
        <2>1. Working(a) /\ (TestOpen(a) \/ Installs(a))
            BY <1>1, <1>5 DEF OpenNew, OpenInstalled, TestOpen, PcInv, Working, InFlight
        <2>2. CASE UNCHANGED <<disk, memory>>
            BY <2>2 DEF memory
        <2>3. ASSUME NEW d, NEW p \in {"count", "wire", "close"}, Opens(a, d, p),
                     UNCHANGED <<disk, up, cfgDb, wired>>
              PROVE  /\ wired' = wired /\ global' \in Handle /\ global'.by = a
                     /\ UNCHANGED <<disk, cfgDb>>
            <3>1. global' = [db |-> d, by |-> a] /\ global' \in Handle
                BY <2>3, OpensFacts, RowsInRows DEF IInv, Pcs
            <3> QED BY <2>3, <3>1
        <2> QED BY <1>5, <2>1, <2>2, <2>3 DEF OpenNew, OpenInstalled, TestOpen, Fails
    <1>6. CASE Wire(a)
        <2>1. Installs(a) /\ Working(a) /\ req[a].opened \in Db
            BY <1>1, <1>6 DEF Wire, PcInv, Working, InFlight
        <2>2. global' = [db |-> req[a].opened, by |-> a]
            BY <1>6 DEF Wire
        <2>3. global' \in Handle /\ global'.by = a
            BY <2>1, <2>2 DEF Handle
        <2> QED BY <1>6, <2>1, <2>3
    <1> QED BY <1>2, <1>3, <1>4, <1>5, <1>6 DEF Step

(* An installation is acknowledged by wiring the services. *)
LEMMA OnlyWireAcknowledges ==
    ASSUME IInv, NEW a \in Request, Arrival(a) \/ Step(a), Moved(a),
           req'[a].answer = "ok", Installs(a)'
    PROVE  Wire(a)
PROOF
    <1> USE DEF At
    <1>1. PcInv(a) /\ PcInv(a)' /\ req \in Rows
        BY RowsInRows DEF IInv, Moved
    <1>2. req'[a].pc = "done" /\ ~Arrival(a)
        <2>1. req'[a].pc = "done"
            BY <1>1 DEF PcInv
        <2> QED BY <2>1, <1>1, ArrivesFacts DEF Arrival
    <1>3. Installs(a)
        BY <1>1, <1>2 DEF Moved, SameArgs, Installs, PcInv, Step, At, CheckInstall, Configure, OpenNew,
            CountUsers, CreateAdmin, TruncateConfig, WriteConfig, WriteLock, LoadInstalled, OpenInstalled,
            Wire, CheckTest, TestOpen, TestClose, Serve
    <1>4. ASSUME NEW x \in AnswerSet \ {"ok"}, Answers(a, x)
          PROVE  FALSE
        BY <1>1, <1>4, AnswersFacts
    <1>5. ASSUME NEW p \in Pcs \ {"done"}, Goto(a, p) \/ Passes(a, p) \/ \E d : Opens(a, d, p)
          PROVE  FALSE
        BY <1>1, <1>2, <1>5, GotoFacts, PassesFacts, OpensFacts
    <1>6. ~TestOpen(a) /\ ~TestClose(a) /\ ~Serve(a) /\ ~CheckTest(a)
        BY <1>1, <1>3 DEF PcInv, Installs, TestOpen, TestClose, Serve, CheckTest
    <1>7. ~CheckInstall(a)
        BY <1>4, <1>5 DEF CheckInstall, Pcs, AnswerSet
    <1>8. ~OpenNew(a) /\ ~OpenInstalled(a)
        BY <1>4, <1>5 DEF OpenNew, OpenInstalled, Fails, Pcs, AnswerSet
    <1>9. ~Configure(a) /\ ~WriteConfig(a) /\ ~LoadInstalled(a)
        BY <1>5 DEF Configure, WriteConfig, LoadInstalled, Pcs
    <1>10. ~CountUsers(a) /\ ~CreateAdmin(a) /\ ~TruncateConfig(a)
        BY <1>4, <1>5 DEF CountUsers, CreateAdmin, TruncateConfig, Fails, Pcs, AnswerSet
    <1>11. ~WriteLock(a)
        BY <1>1, <1>2, <1>4, LocksFacts DEF WriteLock, Fails, AnswerSet
    <1> QED BY <1>2, <1>6, <1>7, <1>8, <1>9, <1>10, <1>11 DEF Step

LEMMA WireFacts ==
    ASSUME IInv, NEW a \in Request, Wire(a)
    PROVE  /\ Installs(a) /\ req[a].locked /\ req[a].opened \in Db
           /\ wired' = req[a].opened /\ wired' # None
           /\ global' = [db |-> req[a].opened, by |-> a]
PROOF
    BY InstallAssumption DEF IInv, PcInv, Wire, At

LEMMA LockKept ==
    ASSUME IInv, NEW a \in Request, Arrival(a) \/ Step(a), Moved(a)
    PROVE  LockInv'
PROOF
    <1>1. lock' <=> \E r \in Request : req'[r].locked
        <2>1. \A r \in Request \ {a} : req'[r] = req[r]
            BY DEF Moved, OthersStay
        <2> QED BY <2>1 DEF IInv, LockInv, Moved
    <1>2. global # None => global' # None
        BY SharedFacts, InstallAssumption
    <1>3. CASE wired' = wired
        BY <1>1, <1>2, <1>3 DEF IInv, LockInv, Moved
    <1>4. CASE Wire(a)
        <2>1. lock' /\ global' \in Handle
            BY <1>4, WireFacts, InstallAssumption DEF Moved, Handle
        <2> QED BY <1>1, <2>1, InstallAssumption DEF LockInv, Moved
    <1> QED BY <1>3, <1>4, SharedFacts

LEMMA HandleKept ==
    ASSUME IInv, NEW a \in Request, Arrival(a) \/ Step(a), Moved(a)
    PROVE  HandleInv'
PROOF
    <1> SUFFICES ASSUME global' # None, global'.by # None
                 PROVE  /\ req'[global'.by].pc # "idle"
                        /\ wired' # None /\ req'[global'.by].kind = "test" => Beside(global.by)'
        BY DEF HandleInv, At
    <1>1. \A q \in Request : Beside(q) => Beside(q)'
        BY InstallsKept, OverlappedKept DEF Beside
    <1>2. CASE Wire(a)
        <2>1. global'.by = a /\ Installs(a)'
            BY <1>2, WireFacts, InstallsKept
        <2> QED BY <2>1 DEF Moved, Installs, At
    <1>3. CASE global' = global /\ wired' = wired
        <2>1. global.by \in Request
            BY <1>3 DEF IInv, TypeOK, Handle
        <2>2. ~At(global.by, "idle")
            BY <1>3 DEF IInv, HandleInv
        <2>3. req'[global.by].pc # "idle" /\ req'[global.by].kind = req[global.by].kind
            BY <2>1, <2>2 DEF Moved, OthersStay, SameArgs, At
        <2>4. wired # None /\ req[global.by].kind = "test" => Beside(global.by)
            BY <1>3 DEF IInv, HandleInv
        <2>5. Beside(global.by) => Beside(global.by)'
            BY <1>1, <1>3, <2>1
        <2> QED BY <1>3, <2>1, <2>3, <2>4, <2>5
    <1>4. CASE global'.by = a /\ Working(a) /\ wired' = wired
        <2>1. ~At(a, "idle")' /\ req'[a].kind = req[a].kind
            BY <1>4 DEF Moved, SameArgs, Working, InFlight, At
        <2>2. ASSUME wired # None, req[a].kind = "test" PROVE Beside(a)
            <3>1. PICK s \in Request : req[s].locked
                BY <2>2 DEF IInv, LockInv
            <3>2. Installs(s) /\ s # a
                BY <2>2, <3>1 DEF IInv, PcInv, Installs
            <3>3. Overlapped(a, s)
                BY <1>4, <3>1, <3>2 DEF IInv, PairInv
            <3> QED BY <3>1, <3>2, <3>3 DEF Beside
        <2> QED BY <1>1, <1>4, <2>1, <2>2 DEF At
    <1> QED BY <1>2, <1>3, <1>4, SharedFacts

LEMMA WiringKept ==
    ASSUME IInv, NEW a \in Request, Arrival(a) \/ Step(a), Moved(a)
    PROVE  WiringInv'
PROOF
    <1> SUFFICES ASSUME lock', wired' = None
                 PROVE  \E s \in Request : Unwired(s)'
        BY DEF WiringInv
    <1>1. ~Wire(a) /\ wired = None
        BY WireFacts, SharedFacts
    <1>2. CASE req'[a].locked
        <2>1. Installs(a)' /\ (InFlight(a)' \/ req'[a].pc = "done")
            BY <1>2 DEF Moved, PcInv, InFlight
        <2>2. req'[a].answer # "ok"
            BY <1>1, <2>1, OnlyWireAcknowledges
        <2> QED BY <1>2, <2>1, <2>2 DEF Unwired
    <1>3. CASE ~req'[a].locked
        <2>1. lock /\ up
            BY <1>3 DEF Moved
        <2>2. PICK s \in Request : Unwired(s)
            BY <1>1, <2>1 DEF IInv, WiringInv
        <2>3. s # a
            BY <1>3, <2>2 DEF Unwired, Moved
        <2>4. req'[s] = req[s]
            BY <2>3 DEF Moved, OthersStay
        <2> QED BY <2>2, <2>4 DEF Unwired, Installs, InFlight
    <1> QED BY <1>2, <1>3
LEMMA TypeKept ==
    ASSUME IInv, NEW a \in Request, Arrival(a) \/ Step(a), Moved(a)
    PROVE  TypeOK'
PROOF
    <1> USE DEF At
    <1>1. TypeOK /\ PcInv(a) /\ req \in Rows
        BY RowsInRows DEF IInv
    <1>2. req' \in Rows /\ up' \in BOOLEAN /\ lock' \in BOOLEAN
        BY <1>1 DEF Moved, TypeOK
    <1>3. wired' \in Db \cup {None} /\ global' \in Handle \cup {None}
        BY <1>1, SharedFacts, WireFacts DEF TypeOK
    <1>4. ASSUME UNCHANGED <<disk, cfgDb>>
          PROVE  TypeOK'
        BY <1>1, <1>2, <1>3, <1>4 DEF TypeOK, Rows, Row, Pcs, AnswerSet, disk
    <1>5. ASSUME dbFile' \in Db \cup {"missing", "empty"}, admins' \in [Db -> SUBSET Name],
                 cfgDb' \in Db \cup {None}
          PROVE  TypeOK'
        BY <1>1, <1>2, <1>3, <1>5 DEF TypeOK, Rows, Row, Pcs, AnswerSet
    <1>6. CASE UNCHANGED <<disk, cfgDb>>
        BY <1>4, <1>6
    <1>7. CASE Configure(a) \/ TruncateConfig(a) \/ WriteConfig(a) \/ WriteLock(a)
               \/ LoadInstalled(a)
        <2>1. req[a].db \in Db
            BY <1>1, <1>7 DEF PcInv, Configure, TruncateConfig, WriteConfig, WriteLock,
                              LoadInstalled, Installs
        <2>2. admins' = admins
            BY <1>7 DEF Configure, TruncateConfig, WriteConfig, WriteLock, LoadInstalled, Fails, disk
        <2>3. dbFile' \in Db \cup {"missing", "empty"} /\ cfgDb' \in Db \cup {None}
            BY <1>1, <1>7, <2>1 DEF Configure, TruncateConfig, WriteConfig, WriteLock,
                                    LoadInstalled, Fails, disk, memory, TypeOK
        <2> QED BY <1>1, <1>5, <2>2, <2>3 DEF TypeOK
    <1>8. CASE CreateAdmin(a)
        <2>1. req[a].opened \in Db /\ req[a].name \in Name
            BY <1>1, <1>8 DEF PcInv, CreateAdmin
        <2>2. UNCHANGED <<dbFile, cfgDb>>
            BY <1>8 DEF CreateAdmin, Fails, disk, memory
        <2>3. admins' \in [Db -> SUBSET Name]
            BY <1>1, <1>8, <2>1 DEF CreateAdmin, Fails, disk, TypeOK
        <2> QED BY <1>1, <1>5, <2>2, <2>3 DEF TypeOK
    <1>9. CASE CheckInstall(a) \/ OpenNew(a) \/ CountUsers(a) \/ OpenInstalled(a) \/ Wire(a)
               \/ CheckTest(a) \/ TestOpen(a) \/ TestClose(a) \/ Serve(a) \/ Arrival(a)
        <2>1. UNCHANGED <<disk, cfgDb>>
            BY <1>9, ArrivesMoved DEF CheckInstall, OpenNew, CountUsers, OpenInstalled, Wire,
                CheckTest, TestOpen, TestClose, Serve, Fails, memory
        <2> QED BY <1>4, <2>1
    <1> QED BY <1>7, <1>8, <1>9 DEF Step

(* An installation that met no other is alone. *)
LEMMA Alone ==
    ASSUME IInv, NEW a \in Request, ~SomeOverlapped, Installs(a), Working(a)
    PROVE  /\ \A r \in Request \ {a} : ~(Installs(r) /\ (Working(r) \/ req[r].locked))
           /\ lock => req[a].locked
PROOF
    <1>1. \A r \in Request \ {a} : ~(Installs(r) /\ (Working(r) \/ req[r].locked))
        BY DEF IInv, PairInv, SomeOverlapped
    <1>2. \A r \in Request : req[r].locked => Installs(r)
        BY DEF IInv, PcInv
    <1> QED BY <1>1, <1>2 DEF IInv, LockInv

(* What an installation that met no other does, it finds done. *)
LEMMA UndisturbedKept ==
    ASSUME IInv, NEW a \in Request, Step(a), Moved(a), ~SomeOverlapped,
           Installs(a), Working(a)
    PROVE  /\ Undisturbed(a)'
           /\ lock' => dbFile' \in Db /\ admins'[dbFile'] # {}
PROOF
    <1> USE DEF At
    <1>1. /\ PcInv(a) /\ req \in Rows /\ TypeOK /\ Undisturbed(a)
          /\ lock => dbFile \in Db /\ admins[dbFile] # {}
        BY RowsInRows DEF IInv, AloneInv
    <1>2. lock => req[a].locked
        BY Alone
    <1>3. req'[a].db = req[a].db
        BY InstallsKept
    <1>4. req[a].db \in Db /\ req[a].name \in Name
        BY <1>1 DEF PcInv, Installs
    <1>5. ASSUME NEW x \in AnswerSet, Answers(a, x)
          PROVE  Undisturbed(a)'
        <2>1. req'[a].pc = "done"
            BY <1>1, <1>5, AnswersFacts
        <2> QED BY <2>1 DEF Undisturbed
    <1>6. ASSUME NEW x \in AnswerSet, Answers(a, x), UNCHANGED disk
          PROVE  /\ Undisturbed(a)'
                 /\ lock' => dbFile' \in Db /\ admins'[dbFile'] # {}
        BY <1>1, <1>5, <1>6 DEF disk
    <1>7. ASSUME NEW x \in AnswerSet, Fails(a, x)
          PROVE  /\ Undisturbed(a)'
                 /\ lock' => dbFile' \in Db /\ admins'[dbFile'] # {}
        BY <1>6, <1>7 DEF Fails
    <1>8. CASE Configure(a)
        <2>1. req'[a].pc = "open" /\ cfgDb' = req[a].db /\ UNCHANGED disk
            BY <1>1, <1>8, GotoFacts DEF Configure, Pcs
        <2> QED BY <1>1, <1>3, <2>1 DEF Undisturbed, disk
    <1>9. CASE OpenNew(a)
        <2>1. CASE Opens(a, cfgDb, "count") /\ UNCHANGED <<disk, up, cfgDb, wired>>
            <3>1. req'[a].pc = "count" /\ req'[a].opened = cfgDb
                BY <1>1, <2>1, OpensFacts DEF Pcs
            <3>2. cfgDb = req[a].db
                BY <1>1, <1>9 DEF OpenNew, Undisturbed
            <3> QED BY <1>1, <1>3, <2>1, <3>1, <3>2 DEF Undisturbed, disk
        <2> QED BY <1>7, <1>9, <2>1 DEF OpenNew, AnswerSet
    <1>10. CASE CountUsers(a)
        <2>1. UNCHANGED disk
            BY <1>10 DEF CountUsers
        <2>2. CASE Goto(a, "createAdmin")
            <3>1. req'[a].pc = "createAdmin" /\ req'[a].opened = req[a].opened
                BY <1>1, <2>2, GotoFacts DEF Pcs
            <3>2. req[a].opened = req[a].db
                BY <1>1, <1>10 DEF CountUsers, Undisturbed
            <3> QED BY <1>1, <1>3, <2>1, <3>1, <3>2 DEF Undisturbed, disk
        <2> QED BY <1>6, <1>10, <2>1, <2>2 DEF CountUsers, AnswerSet
    <1>11. CASE CreateAdmin(a)
        <2>1. CASE /\ admins' = [admins EXCEPT ![req[a].opened] = @ \cup {req[a].name}]
                   /\ Goto(a, "truncate") /\ UNCHANGED <<lock, dbFile, memory>>
            <3>1. req'[a].pc = "truncate" /\ req'[a].opened = req[a].opened
                BY <1>1, <2>1, GotoFacts DEF Pcs
            <3>2. req[a].opened = req[a].db /\ ~req[a].locked
                BY <1>1, <1>11 DEF CreateAdmin, Undisturbed, PcInv
            <3>3. req[a].name \in admins'[req[a].db]
                BY <1>1, <1>4, <2>1, <3>2 DEF TypeOK
            <3> QED BY <1>1, <1>2, <1>3, <2>1, <3>1, <3>2, <3>3 DEF Undisturbed
        <2> QED BY <1>7, <1>11, <2>1 DEF CreateAdmin, AnswerSet
    <1>12. CASE TruncateConfig(a)
        <2>1. CASE Goto(a, "writeConfig") /\ UNCHANGED <<lock, admins>>
            <3>1. req'[a].pc = "writeConfig" /\ req'[a].opened = req[a].opened
                BY <1>1, <2>1, GotoFacts DEF Pcs
            <3>2. ~lock' /\ req[a].opened = req[a].db /\ admins'[req[a].db] # {}
                BY <1>1, <1>2, <1>12, <2>1 DEF TruncateConfig, Undisturbed, PcInv
            <3> QED BY <1>3, <3>1, <3>2 DEF Undisturbed
        <2> QED BY <1>7, <1>12, <2>1 DEF TruncateConfig, AnswerSet
    <1>13. CASE WriteConfig(a)
        <2>1. req'[a].pc = "lock" /\ req'[a].opened = req[a].opened /\ dbFile' = req[a].db
            BY <1>1, <1>13, GotoFacts DEF Pcs, WriteConfig
        <2>2. ~lock' /\ req[a].opened = req[a].db /\ admins'[req[a].db] # {}
            BY <1>1, <1>2, <1>13 DEF WriteConfig, Undisturbed, PcInv
        <2> QED BY <1>3, <2>1, <2>2 DEF Undisturbed
    <1>14. CASE WriteLock(a)
        <2>1. CASE /\ req' = [req EXCEPT ![a] = [@ EXCEPT !.pc = "load", !.locked = TRUE]]
                   /\ UNCHANGED <<dbFile, admins, memory>>
            <3>1. req'[a].pc = "load"
                BY <1>1, <2>1, LocksFacts
            <3>2. dbFile' = req[a].db /\ admins'[req[a].db] # {}
                BY <1>1, <1>14, <2>1 DEF WriteLock, Undisturbed
            <3> QED BY <1>4, <3>1, <3>2 DEF Undisturbed
        <2> QED BY <1>7, <1>14, <2>1 DEF WriteLock, AnswerSet
    <1>15. CASE LoadInstalled(a)
        <2>1. req'[a].pc = "reopen" /\ UNCHANGED disk
            BY <1>1, <1>15, GotoFacts DEF Pcs, LoadInstalled
        <2> QED BY <1>1, <2>1 DEF Undisturbed, disk
    <1>16. CASE OpenInstalled(a)
        <2>1. CASE Opens(a, cfgDb, "wire") /\ UNCHANGED <<disk, up, cfgDb, wired>>
            <3>1. req'[a].pc = "wire"
                BY <1>1, <2>1, OpensFacts DEF Pcs
            <3> QED BY <1>1, <2>1, <3>1 DEF Undisturbed, disk
        <2> QED BY <1>7, <1>16, <2>1 DEF OpenInstalled, AnswerSet
    <1>17. CASE Wire(a)
        BY <1>6, <1>17 DEF Wire, AnswerSet
    <1>18. ~CheckInstall(a) /\ ~CheckTest(a) /\ ~TestOpen(a) /\ ~TestClose(a) /\ ~Serve(a)
        BY <1>1 DEF PcInv, Working, CheckInstall, CheckTest, TestOpen, TestClose, Serve, Installs
    <1> QED BY <1>8, <1>9, <1>10, <1>11, <1>12, <1>13, <1>14, <1>15, <1>16, <1>17, <1>18 DEF Step

LEMMA AloneKept ==
    ASSUME IInv, NEW a \in Request, Arrival(a) \/ Step(a), Moved(a)
    PROVE  AloneInv'
PROOF
    <1> SUFFICES ASSUME ~SomeOverlapped'
                 PROVE  /\ lock' => dbFile' \in Db /\ admins'[dbFile'] # {}
                        /\ \A r \in Request : Undisturbed(r)'
        BY DEF AloneInv
    <1> USE DEF At
    <1>1. ~SomeOverlapped
        BY SomeOverlappedKept
    <1>2. /\ lock => dbFile \in Db /\ admins[dbFile] # {}
          /\ \A r \in Request : Undisturbed(r) /\ PcInv(r)
        BY <1>1 DEF IInv, AloneInv
    <1>3. \A r \in Request \ {a} : req'[r] = req[r]
        BY DEF Moved, OthersStay
    <1>4. CASE Installs(a) /\ Working(a)
        <2>1. Step(a)
            BY <1>4, ArrivesFacts, RowsInRows DEF Arrival, Working, InFlight, IInv
        <2>2. \A r \in Request \ {a} : ~(Installs(r) /\ Working(r))
            BY <1>1, <1>4, Alone
        <2>3. \A r \in Request \ {a} : Undisturbed(r)'
            BY <1>2, <1>3, <2>2 DEF Undisturbed, Working, InFlight, PcInv
        <2> QED BY <1>1, <1>4, <2>1, <2>3, UndisturbedKept
    <1>5. CASE ~(Installs(a) /\ Working(a))
        <2>1. UNCHANGED <<disk, cfgDb>>
            BY <1>5, SharedFacts
        <2>2. \A r \in Request \ {a} : Undisturbed(r)'
            BY <1>2, <1>3, <2>1 DEF Undisturbed, disk
        <2>3. Undisturbed(a)'
            <3>1. CASE ~Working(a)'
                BY <3>1 DEF Undisturbed, Working, InFlight
            <3>2. CASE ~Installs(a)'
                BY <3>2 DEF Undisturbed, Moved, PcInv
            <3>3. CASE Working(a)' /\ Installs(a)'
                <4>1. At(a, "check") /\ Installs(a)
                    BY <1>5, <3>3 DEF Moved, Working, InFlight, SameArgs, Installs
                <4>2. CheckInstall(a)
                    BY <4>1, ArrivesFacts, RowsInRows DEF Arrival, IInv, Step, Configure, OpenNew,
                        CountUsers, CreateAdmin, TruncateConfig, WriteConfig, WriteLock,
                        LoadInstalled, OpenInstalled, Wire, CheckTest, TestOpen, TestClose,
                        Serve, Installs
                <4>3. req'[a].pc \in {"configure", "done"}
                    BY <4>2, AnswersFacts, PassesFacts, RowsInRows
                       DEF CheckInstall, IInv, Pcs, AnswerSet
                <4> QED BY <4>3 DEF Undisturbed
            <3> QED BY <3>1, <3>2, <3>3
        <2> QED BY <1>2, <2>1, <2>2, <2>3 DEF disk
    <1> QED BY <1>4, <1>5
(* What a step must not do where all ask for d and n. *)
LEMMA OnlyOneKept ==
    ASSUME NEW a \in Request, NEW d \in Db, NEW n \in Name, OnlyOne(d, n), OthersStay(a),
           cfgDb' \in {d, None}, dbFile' \in {d, "missing", "empty"},
           Installs(a)' => req'[a].opened \in {d, None},
           n \in admins[d] => n \in admins'[d],
           Created(a)' => Created(a) \/ (n \notin admins[d] /\ n \in admins'[d])
    PROVE  OnlyOne(d, n)'
PROOF
    <1>1. \A r \in Request \ {a} : /\ req'[r] = req[r]
                                   /\ Installs(r)' = Installs(r) /\ Created(r)' = Created(r)
        BY DEF OthersStay, Installs, Created
    <1>2. \A q \in Request : Installs(q)' => req'[q].opened \in {d, None}
        BY <1>1 DEF OnlyOne
    <1>3. \A q \in Request : Created(q)' => n \in admins'[d]
        BY <1>1 DEF OnlyOne
    <1>4. \A q, p \in Request : Created(q)' /\ Created(p)' => q = p
        BY <1>1 DEF OnlyOne
    <1> QED BY <1>2, <1>3, <1>4 DEF OnlyOne

LEMMA SameKept ==
    ASSUME IInv, NEW a \in Request, Arrival(a) \/ Step(a), Moved(a)
    PROVE  SameInv'
PROOF
    <1> SUFFICES ASSUME NEW d \in Db, NEW n \in Name, AllAsk(d, n)'
                 PROVE  OnlyOne(d, n)'
        BY DEF SameInv
    <1> USE DEF At
    <1>1. AllAsk(d, n)
        BY InstallsKept DEF AllAsk
    <1>2. /\ OnlyOne(d, n) /\ PcInv(a) /\ req \in Rows /\ TypeOK /\ OthersStay(a)
        BY <1>1, RowsInRows DEF IInv, SameInv, Moved
    <1>3. /\ cfgDb \in {d, None} /\ dbFile \in {d, "missing", "empty"}
          /\ Installs(a) => req[a].opened \in {d, None} /\ req[a].db = d /\ req[a].name = n
        BY <1>1, <1>2 DEF OnlyOne, AllAsk
    <1>4. SUFFICES /\ cfgDb' \in {d, None} /\ dbFile' \in {d, "missing", "empty"}
                   /\ Installs(a)' => req'[a].opened \in {d, None}
                   /\ n \in admins[d] => n \in admins'[d]
                   /\ Created(a)' => Created(a) \/ (n \notin admins[d] /\ n \in admins'[d])
        BY <1>2, OnlyOneKept
    <1> DEFINE Good == /\ cfgDb' \in {d, None} /\ dbFile' \in {d, "missing", "empty"}
                       /\ Installs(a)' => req'[a].opened \in {d, None}
                       /\ n \in admins[d] => n \in admins'[d]
                       /\ Created(a)' => Created(a) \/ (n \notin admins[d] /\ n \in admins'[d])
    <1>5. ASSUME NEW x \in AnswerSet, Answers(a, x), UNCHANGED <<disk, cfgDb>>, Wire(a) \/ x # "ok"
          PROVE  Good
        <2>1. /\ req'[a].opened = req[a].opened /\ SameArgs(a)
              /\ req'[a].pc = "done" /\ req'[a].answer = x
            BY <1>2, <1>5, AnswersFacts
        <2>2. Wire(a) => Created(a)
            BY <1>2 DEF Wire, PcInv, Created
        <2> QED BY <1>3, <1>5, <2>1, <2>2 DEF disk, SameArgs, Installs, Created
    <1>6. ASSUME NEW x \in AnswerSet \ {"ok"}, Fails(a, x)
          PROVE  Good
        BY <1>5, <1>6 DEF Fails, memory
    <1>7. CASE Configure(a)
        <2>1. Installs(a)
            BY <1>2, <1>7 DEF Configure, PcInv
        <2>2. /\ req'[a].pc = "open" /\ req'[a].opened = req[a].opened
              /\ req'[a].answer = req[a].answer
            BY <1>2, <1>7, GotoFacts DEF Configure, Pcs
        <2>3. cfgDb' = d /\ UNCHANGED disk
            BY <1>3, <1>7, <2>1 DEF Configure
        <2> QED BY <1>2, <1>3, <1>7, <2>1, <2>2, <2>3 DEF disk, Created, PcInv, Configure
    <1>8. CASE OpenNew(a) \/ OpenInstalled(a)
        <2>1. Installs(a)
            BY <1>2, <1>8 DEF OpenNew, OpenInstalled, PcInv
        <2>2. ASSUME NEW p \in {"count", "wire"}, Opens(a, cfgDb, p),
                     UNCHANGED <<disk, up, cfgDb, wired>>, p = "wire" => At(a, "reopen"),
                     req[a].answer = "none"
              PROVE  Good
            <3>1. /\ req'[a].pc = p /\ req'[a].opened = cfgDb
                  /\ req'[a].answer = req[a].answer
                BY <1>2, <2>2, OpensFacts DEF Pcs
            <3> QED BY <1>3, <2>1, <2>2, <3>1 DEF disk, Created
        <2>3. req[a].answer = "none"
            BY <1>2, <1>8 DEF OpenNew, OpenInstalled, PcInv
        <2> QED BY <1>6, <1>8, <2>2, <2>3 DEF OpenNew, OpenInstalled, AnswerSet
    <1>9. CASE CountUsers(a) \/ WriteConfig(a) \/ LoadInstalled(a)
        <2>1. Installs(a) /\ req[a].answer = "none"
            BY <1>2, <1>9 DEF CountUsers, WriteConfig, LoadInstalled, PcInv
        <2>2. ASSUME NEW p \in {"createAdmin", "lock", "reopen"}, Goto(a, p), admins' = admins,
                     p # "createAdmin" => Created(a),
                     cfgDb' \in {d, None}, dbFile' \in {d, "missing", "empty"}
              PROVE  Good
            <3>1. /\ req'[a].pc = p /\ req'[a].opened = req[a].opened
                  /\ req'[a].answer = req[a].answer
                BY <1>2, <2>2, GotoFacts DEF Pcs
            <3> QED BY <1>3, <2>1, <2>2, <3>1 DEF Created
        <2>3. CASE CountUsers(a)
            BY <1>3, <1>5, <2>2, <2>3 DEF CountUsers, AnswerSet, disk, memory
        <2>4. CASE WriteConfig(a)
            <3>1. Created(a) /\ dbFile' = d /\ UNCHANGED <<admins, cfgDb>>
                BY <1>3, <2>1, <2>4 DEF WriteConfig, Created, memory
            <3> QED BY <1>3, <2>2, <2>4, <3>1 DEF WriteConfig
        <2>5. CASE LoadInstalled(a)
            <3>1. Created(a) /\ UNCHANGED disk
                BY <2>1, <2>5 DEF LoadInstalled, Created
            <3>2. cfgDb' \in {d, None}
                BY <1>3, <2>5, InstallAssumption DEF LoadInstalled
            <3> QED BY <1>3, <2>2, <2>5, <3>1, <3>2 DEF LoadInstalled, disk
        <2> QED BY <1>9, <2>3, <2>4, <2>5
    <1>10. CASE CreateAdmin(a)
        <2>1. Installs(a) /\ req[a].opened = d /\ req[a].name = n
            BY <1>2, <1>3, <1>10, InstallAssumption DEF CreateAdmin, PcInv
        <2>2. CASE /\ n \notin admins[d] /\ admins' = [admins EXCEPT ![d] = @ \cup {n}]
                   /\ Goto(a, "truncate") /\ UNCHANGED <<lock, dbFile, memory>>
            <3>1. req'[a].opened = req[a].opened
                BY <1>2, <2>2, GotoFacts DEF Pcs
            <3>2. n \in admins'[d]
                BY <1>2, <2>2 DEF TypeOK
            <3> QED BY <1>3, <2>1, <2>2, <3>1, <3>2 DEF memory
        <2> QED BY <1>6, <1>10, <2>1, <2>2 DEF CreateAdmin, AnswerSet
    <1>11. CASE TruncateConfig(a)
        <2>1. Installs(a) /\ Created(a)
            BY <1>2, <1>11 DEF TruncateConfig, PcInv, Created
        <2>2. CASE cfgDb' = d /\ dbFile' = "empty" /\ Goto(a, "writeConfig") /\ admins' = admins
            <3>1. req'[a].opened = req[a].opened
                BY <1>2, <2>2, GotoFacts DEF Pcs
            <3> QED BY <1>3, <2>1, <2>2, <3>1
        <2> QED BY <1>3, <1>6, <1>11, <2>1, <2>2 DEF TruncateConfig, AnswerSet
    <1>12. CASE WriteLock(a)
        <2>1. Installs(a) /\ Created(a)
            BY <1>2, <1>12 DEF WriteLock, PcInv, Created
        <2>2. CASE /\ req' = [req EXCEPT ![a] = [@ EXCEPT !.pc = "load", !.locked = TRUE]]
                   /\ UNCHANGED <<dbFile, admins, memory>>
            <3>1. req'[a].opened = req[a].opened
                BY <1>2, <2>2, LocksFacts
            <3> QED BY <1>3, <2>1, <2>2, <3>1 DEF memory
        <2> QED BY <1>6, <1>12, <2>2 DEF WriteLock, AnswerSet
    <1>13. CASE Wire(a)
        BY <1>5, <1>13 DEF Wire, AnswerSet
    <1>14. CASE CheckInstall(a)
        <2>1. UNCHANGED <<disk, cfgDb>> /\ Installs(a) /\ req[a].answer = "none"
            BY <1>2, <1>14 DEF CheckInstall, memory, PcInv, Installs
        <2>2. CASE Passes(a, "configure")
            <3>1. /\ req'[a].pc = "configure" /\ req'[a].opened = req[a].opened
                  /\ req'[a].answer = req[a].answer
                BY <1>2, <2>2, PassesFacts DEF Pcs
            <3> QED BY <1>3, <2>1, <3>1 DEF disk, Created
        <2> QED BY <1>5, <1>14, <2>1, <2>2 DEF CheckInstall, AnswerSet
    <1>15. CASE CheckTest(a) \/ TestOpen(a) \/ TestClose(a) \/ Serve(a)
        <2>1. ~Installs(a) /\ ~At(a, "idle")
            BY <1>2, <1>15 DEF CheckTest, TestOpen, TestClose, Serve, PcInv, Installs
        <2>2. ~Installs(a)' /\ UNCHANGED <<disk, cfgDb>>
            BY <2>1, SharedFacts DEF Moved, SameArgs, Installs
        <2> QED BY <1>3, <2>2 DEF disk, Created
    <1>16. CASE Arrival(a)
        <2>1. UNCHANGED <<disk, cfgDb>>
            BY <1>16, ArrivesMoved DEF memory
        <2>2. /\ req'[a].pc = "check" /\ req'[a].opened = req[a].opened /\ At(a, "idle")
              /\ req'[a].answer = req[a].answer
            BY <1>2, <1>16, ArrivesFacts DEF Arrival
        <2>3. req[a].opened = None /\ req[a].answer = "none"
            BY <1>2, <2>2 DEF PcInv
        <2> QED BY <1>3, <2>1, <2>2, <2>3 DEF disk, Created
    <1> QED BY <1>7, <1>8, <1>9, <1>10, <1>11, <1>12, <1>13, <1>14, <1>15, <1>16 DEF Step
LEMMA StepKeeps ==
    ASSUME IInv, NEW a \in Request, Arrival(a) \/ Step(a)
    PROVE  IInv'
PROOF
    <1>1. Moved(a)
        BY ArrivesMoved, StepMoved
    <1>2. TypeOK' /\ LockInv' /\ HandleInv' /\ WiringInv' /\ AloneInv' /\ SameInv'
        BY <1>1, TypeKept, LockKept, HandleKept, WiringKept, AloneKept, SameKept
    <1>3. (\A r \in Request : PcInv(r)') /\ (\A r, s \in Request : PairInv(r, s)')
        BY <1>1, PcKept, PairKept
    <1> QED BY <1>2, <1>3 DEF IInv

-----------------------------------------------------------------------------
(* The process starts and stops. *)

(* A request that was in flight is lost; its arguments and whom it met stay. *)
LEMMA StopFacts ==
    ASSUME req \in Rows, Stop, NEW r \in Request
    PROVE  /\ req' \in Rows /\ SameArgs(r)
           /\ req'[r].opened = req[r].opened /\ req'[r].met = req[r].met
           /\ req'[r].locked = req[r].locked
           /\ IF InFlight(r) THEN req'[r].pc = "done" /\ req'[r].answer = "lost"
              ELSE req'[r].pc = req[r].pc /\ req'[r].answer = req[r].answer
PROOF
    <1>1. \A s \in Request :
            /\ [req[s] EXCEPT !.pc = "done"] \in Row
            /\ [req[s] EXCEPT !.pc = "done", !.answer = "lost"] \in Row
        <2> TAKE s \in Request
        <2> DEFINE q == [req[s] EXCEPT !.pc = "done"]
        <2>1. q \in Row
            BY DEF Rows, Row, Pcs
        <2>2. [q EXCEPT !.answer = "lost"] \in Row
            BY <2>1 DEF Row, AnswerSet
        <2> QED BY <2>1, <2>2
    <1>2. req' \in Rows
        BY <1>1 DEF Stop, Rows
    <1>3. CASE InFlight(r)
        <2> DEFINE q == [req[r] EXCEPT !.pc = "done"]
        <2>1. req'[r] = [q EXCEPT !.answer = "lost"]
            BY <1>3 DEF Stop
        <2>2. q \in Row /\ req[r] \in Row
            BY <1>1 DEF Rows
        <2>3. /\ SameArgs(r)
              /\ req'[r].opened = req[r].opened /\ req'[r].met = req[r].met
              /\ req'[r].locked = req[r].locked
            BY <2>1, <2>2 DEF Row, SameArgs
        <2>4. req'[r].pc = "done" /\ req'[r].answer = "lost"
            BY <2>1, <2>2 DEF Row
        <2> QED BY <1>2, <1>3, <2>3, <2>4
    <1>4. CASE ~InFlight(r)
        <2>1. req'[r] = req[r]
            BY <1>4 DEF Stop
        <2> QED BY <1>2, <1>4, <2>1 DEF SameArgs
    <1> QED BY <1>3, <1>4

LEMMA StopKeeps ==
    ASSUME IInv, Stop
    PROVE  IInv'
PROOF
    <1>1. req \in Rows /\ TypeOK /\ LockInv
        BY RowsInRows DEF IInv
    <1>2. /\ up' = FALSE /\ cfgDb' = None /\ global' = None /\ wired' = None
          /\ lock' = lock /\ dbFile' = dbFile /\ admins' = admins
        BY DEF Stop, disk
    <1>3. \A r \in Request :
            /\ SameArgs(r) /\ req'[r].met = req[r].met /\ req'[r].locked = req[r].locked
            /\ req'[r].opened = req[r].opened
            /\ IF InFlight(r) THEN req'[r].pc = "done" /\ req'[r].answer = "lost"
               ELSE req'[r].pc = req[r].pc /\ req'[r].answer = req[r].answer
        BY <1>1, StopFacts
    <1>4. \A r \in Request : ~InFlight(r)' /\ Installs(r)' = Installs(r)
        BY <1>3 DEF InFlight, SameArgs, Installs
    <1>5. TypeOK'
        <2>1. req' \in Rows
            BY <1>1, StopFacts DEF Stop, Rows
        <2> QED BY <1>1, <1>2, <2>1 DEF TypeOK, Rows, Row, Pcs, AnswerSet
    <1>6. ASSUME NEW r \in Request
          PROVE  PcInv(r)'
        BY <1>2, <1>3, <1>4 DEF IInv, PcInv, SameArgs, Installs, InFlight
    <1>7. ASSUME NEW r \in Request, NEW s \in Request
          PROVE  PairInv(r, s)'
        BY <1>3, <1>4 DEF IInv, PairInv, Overlapped, Working
    <1>8. LockInv'
        BY <1>1, <1>2, <1>3 DEF LockInv
    <1>9. HandleInv' /\ WiringInv'
        BY <1>2 DEF HandleInv, WiringInv
    <1>10. AloneInv'
        <2>1. SomeOverlapped' = SomeOverlapped
            BY <1>3, <1>4 DEF SomeOverlapped, Overlapped
        <2>2. \A r \in Request : Undisturbed(r)'
            BY <1>4 DEF Undisturbed, At, InFlight
        <2> QED BY <1>2, <2>1, <2>2 DEF IInv, AloneInv
    <1>11. SameInv'
        <2> SUFFICES ASSUME NEW d \in Db, NEW n \in Name, AllAsk(d, n)'
                     PROVE  OnlyOne(d, n)'
            BY DEF SameInv
        <2>1. AllAsk(d, n)
            BY <1>3, <1>4 DEF AllAsk, SameArgs
        <2>2. OnlyOne(d, n)
            BY <2>1 DEF IInv, SameInv
        <2>3. \A r \in Request : Created(r)' => Created(r)
            BY <1>3, <1>4 DEF Created, InFlight
        <2> QED BY <1>2, <1>3, <1>4, <2>2, <2>3 DEF OnlyOne
    <1> QED BY <1>5, <1>6, <1>7, <1>8, <1>9, <1>10, <1>11 DEF IInv

LEMMA StartKeeps ==
    ASSUME IInv, Start
    PROVE  IInv'
PROOF
    <1>1. TypeOK /\ LockInv /\ ~up /\ up' = TRUE /\ req' = req
          /\ lock' = lock /\ dbFile' = dbFile /\ admins' = admins
        BY DEF IInv, Start, disk
    <1>2. \/ ~lock /\ UNCHANGED <<cfgDb, global, wired>>
          \/ /\ dbFile \in Db /\ cfgDb' = dbFile /\ wired' = dbFile /\ lock
             /\ global' = [db |-> dbFile, by |-> None]
        BY DEF Start
    <1>3. global' = [db |-> dbFile, by |-> None] /\ dbFile \in Db =>
            global' \in Handle /\ global'.by = None /\ global' # None
        BY InstallAssumption DEF Handle
    <1>4. \A r \in Request : ~InFlight(r)
        BY <1>1 DEF IInv, PcInv
    <1>5. TypeOK'
        BY <1>1, <1>2, <1>3 DEF TypeOK
    <1>6. \A r, s \in Request : PcInv(r)' /\ PairInv(r, s)'
        BY <1>1 DEF IInv, PcInv, PairInv, Overlapped, Working, InFlight, At, Installs
    <1>7. LockInv'
        BY <1>1, <1>2, <1>3 DEF LockInv
    <1>8. HandleInv'
        <2>1. CASE global' = global /\ wired' = wired
            BY <1>1, <2>1 DEF IInv, HandleInv, Beside, At, Installs, Overlapped
        <2> QED BY <1>2, <1>3, <2>1 DEF HandleInv
    <1>9. WiringInv'
        BY <1>1, <1>2, InstallAssumption DEF WiringInv
    <1>10. AloneInv'
        <2>1. SomeOverlapped' = SomeOverlapped
            BY <1>1 DEF SomeOverlapped, Overlapped, Installs
        <2>2. \A r \in Request : Undisturbed(r)'
            BY <1>1, <1>4 DEF Undisturbed, At, InFlight
        <2> QED BY <1>1, <2>1, <2>2 DEF IInv, AloneInv
    <1>11. SameInv'
        <2> SUFFICES ASSUME NEW d \in Db, NEW n \in Name, AllAsk(d, n)
                     PROVE  OnlyOne(d, n)'
            BY <1>1 DEF SameInv, AllAsk, Installs
        <2>1. OnlyOne(d, n)
            BY DEF IInv, SameInv
        <2>2. cfgDb' \in {d, None}
            BY <1>2, <2>1, InstallAssumption DEF OnlyOne
        <2> QED BY <1>1, <2>1, <2>2 DEF OnlyOne, Installs, Created
    <1> QED BY <1>5, <1>6, <1>7, <1>8, <1>9, <1>10, <1>11 DEF IInv

LEMMA InitKeeps == Init => IInv
PROOF
    <1> SUFFICES ASSUME Init
                 PROVE  IInv
        OBVIOUS
    <1>1. /\ lock = FALSE /\ dbFile = "missing" /\ admins = [d \in Db |-> {}]
          /\ up = FALSE /\ cfgDb = None /\ global = None /\ wired = None
        BY DEF Init
    <1>2. Idle \in Row
        BY DEF Idle, Row, Pcs, AnswerSet
    <1>3. \A r \in Request : req[r] = Idle
        BY DEF Init
    <1>4. \A r \in Request : req[r].pc = "idle" /\ req[r].kind = "none" /\ req[r].met = {}
            /\ req[r].opened = None /\ req[r].answer = "none" /\ ~req[r].locked
        BY <1>3 DEF Idle
    <1>5. TypeOK
        <2>1. req \in Rows
            BY <1>2 DEF Init, Rows
        <2> QED BY <1>1, <2>1 DEF TypeOK, Rows, Row, Pcs, AnswerSet
    <1>6. \A r, s \in Request : PcInv(r) /\ PairInv(r, s) /\ ~Installs(r) /\ ~Created(r)
        BY <1>4 DEF PcInv, PairInv, Working, InFlight, At, Installs, Created
    <1>7. LockInv /\ HandleInv /\ WiringInv
        BY <1>1, <1>4 DEF LockInv, HandleInv, WiringInv
    <1>8. AloneInv
        BY <1>1, <1>4 DEF AloneInv, Undisturbed, At
    <1>9. SameInv
        BY <1>1, <1>6 DEF SameInv, OnlyOne
    <1> QED BY <1>5, <1>6, <1>7, <1>8, <1>9 DEF IInv

LEMMA StutterKeeps ==
    ASSUME IInv, UNCHANGED vars
    PROVE  IInv'
PROOF
    <1>1. UNCHANGED <<lock, dbFile, admins, up, cfgDb, global, wired, req>>
        BY DEF vars, disk, memory
    <1>2. TypeOK' /\ LockInv' /\ HandleInv' /\ WiringInv'
        BY <1>1 DEF IInv, TypeOK, LockInv, HandleInv, WiringInv, Beside, Unwired, Overlapped,
                    At, InFlight, Installs
    <1>3. \A r, s \in Request : PcInv(r)' /\ PairInv(r, s)'
        BY <1>1 DEF IInv, PcInv, PairInv, Overlapped, Working, InFlight, At, Installs
    <1>4. AloneInv'
        BY <1>1 DEF IInv, AloneInv, Undisturbed, SomeOverlapped, Overlapped, Installs, At
    <1>5. SameInv'
        BY <1>1 DEF IInv, SameInv, AllAsk, OnlyOne, Installs, Created
    <1> QED BY <1>2, <1>3, <1>4, <1>5 DEF IInv

LEMMA NextKeeps == IInv /\ [Next]_vars => IInv'
PROOF
    BY StepKeeps, StartKeeps, StopKeeps, StutterKeeps DEF Next

-----------------------------------------------------------------------------
(* The invariant implies the properties. *)

LEMMA ImpliesHasAdmin == IInv => LockedDatabaseHasAdmin
PROOF
    BY DEF IInv, AloneInv, LockedDatabaseHasAdmin

LEMMA ImpliesOnce == IInv => AcknowledgedOnce
PROOF
    <1> SUFFICES ASSUME IInv, NEW r \in Request, NEW s \in Request, r # s,
                        Installs(r), Installs(s), req[r].answer = "ok", req[s].answer = "ok"
                 PROVE  Overlapped(r, s) /\ \E q \in Request : Installs(q) /\ ~Same(q, r)
        BY DEF AcknowledgedOnce
    <1>1. Overlapped(r, s)
        BY DEF IInv, PcInv, PairInv
    <1>2. ASSUME \A q \in Request : Installs(q) => Same(q, r)
          PROVE  FALSE
        <2>1. req[r].db \in Db /\ req[r].name \in Name
            BY DEF IInv, PcInv, Installs
        <2>2. AllAsk(req[r].db, req[r].name)
            BY <1>2 DEF AllAsk, Same
        <2>3. OnlyOne(req[r].db, req[r].name)
            BY <2>1, <2>2 DEF IInv, SameInv
        <2> QED BY <2>3 DEF OnlyOne, Created
    <1> QED BY <1>1, <1>2

LEMMA ImpliesReady == IInv => ReadyOnceWired
PROOF
    <1> SUFFICES ASSUME IInv, lock, wired # None, Readyz # "ready"
                 PROVE  \E s \in Request : Installs(s) /\ req[s].locked /\ Overlapped(global.by, s)
        BY DEF ReadyOnceWired
    <1>1. global # None
        BY DEF IInv, LockInv
    <1>2. Closed(global)
        BY <1>1 DEF Readyz
    <1>3. Beside(global.by)
        BY <1>1, <1>2 DEF Closed, IInv, HandleInv
    <1> QED BY <1>3 DEF Beside

(* Only Serve panics. *)
LEMMA OnlyServePanics ==
    ASSUME IInv, NEW a \in Request, Arrival(a) \/ Step(a),
           req'[a].answer = "panic", req[a].answer # "panic"
    PROVE  lock /\ wired = None /\ up
PROOF
    <1>1. req \in Rows /\ PcInv(a) /\ Moved(a)
        BY RowsInRows, ArrivesMoved, StepMoved DEF IInv
    <1>2. ASSUME NEW x \in AnswerSet \ {"panic"}, Answers(a, x) \/ Fails(a, x)
          PROVE  FALSE
        BY <1>1, <1>2, AnswersFacts DEF Fails
    <1>3. ASSUME NEW p \in Pcs, Goto(a, p) \/ Passes(a, p) \/ \E d : Opens(a, d, p)
          PROVE  FALSE
        BY <1>1, <1>3, GotoFacts, PassesFacts, OpensFacts
    <1>4. ~Arrival(a)
        BY <1>1, ArrivesFacts DEF Arrival
    <1>5. ~CheckInstall(a) /\ ~CheckTest(a)
        BY <1>2, <1>3 DEF CheckInstall, CheckTest, Pcs, AnswerSet
    <1>6. ~OpenNew(a) /\ ~OpenInstalled(a) /\ ~TestOpen(a)
        BY <1>2, <1>3 DEF OpenNew, OpenInstalled, TestOpen, Pcs, AnswerSet
    <1>7. ~Configure(a) /\ ~WriteConfig(a) /\ ~LoadInstalled(a) /\ ~CountUsers(a)
          /\ ~CreateAdmin(a) /\ ~TruncateConfig(a)
        BY <1>2, <1>3 DEF Configure, WriteConfig, LoadInstalled, CountUsers, CreateAdmin,
                          TruncateConfig, Pcs, AnswerSet
    <1>8. ~WriteLock(a)
        BY <1>1, <1>2, LocksFacts DEF WriteLock, AnswerSet
    <1>9. ~Wire(a) /\ ~TestClose(a)
        BY <1>2 DEF Wire, TestClose, AnswerSet
    <1>10. Serve(a)
        BY <1>4, <1>5, <1>6, <1>7, <1>8, <1>9 DEF Step
    <1>11. lock /\ wired = None
        BY <1>2, <1>10 DEF Serve, AnswerSet
    <1> QED BY <1>1, <1>11 DEF Moved

LEMMA PanicsHaveCause ==
    ASSUME IInv, [Next]_vars
    PROVE  \A r \in Request :
             req'[r].answer = "panic" /\ req[r].answer # "panic" =>
               \E s \in Request : Installs(s) /\ req[s].locked
                                  /\ (InFlight(s) \/ req[s].answer # "ok")
PROOF
    <1> SUFFICES ASSUME NEW r \in Request, req'[r].answer = "panic", req[r].answer # "panic"
                 PROVE  \E s \in Request : Installs(s) /\ req[s].locked
                                           /\ (InFlight(s) \/ req[s].answer # "ok")
        OBVIOUS
    <1>1. ASSUME Start \/ UNCHANGED vars
          PROVE  FALSE
        BY <1>1 DEF Start, vars
    <1>2. ASSUME Stop
          PROVE  FALSE
        BY <1>2, StopFacts, RowsInRows DEF IInv
    <1>3. PICK a \in Request : Arrival(a) \/ Step(a)
        BY <1>1, <1>2 DEF Next
    <1>4. a = r
        <2>1. Moved(a)
            BY <1>3, ArrivesMoved, StepMoved
        <2> QED BY <2>1 DEF Moved, OthersStay
    <1>5. lock /\ wired = None /\ up
        BY <1>3, <1>4, OnlyServePanics
    <1> QED BY <1>5 DEF IInv, WiringInv, Unwired

-----------------------------------------------------------------------------
(* The theorems. *)

(* The inductive invariant holds throughout. *)
THEOREM InstallInvariant == Spec => []IInv
PROOF
    BY InitKeeps, NextKeeps, PTL DEF Spec

(* Every variable keeps its type. *)
THEOREM InstallTypeOK == Spec => []TypeOK
PROOF
    <1>1. IInv => TypeOK
        BY DEF IInv
    <1> QED BY <1>1, InstallInvariant, PTL

(* What is locked can be started and administered, whatever crashed in      *)
(* between (install/service.go:94), where no two installations overlapped.  *)
THEOREM LockedHasAdmin == Spec => []LockedDatabaseHasAdmin
PROOF
    BY ImpliesHasAdmin, InstallInvariant, PTL

(* Two installations are acknowledged only if they overlapped and did not *)
(* all ask for the same (install/service.go:53, 88).                      *)
THEOREM InstalledOnce == Spec => []AcknowledgedOnce
PROOF
    BY ImpliesOnce, InstallInvariant, PTL

(* A wired system is ready unless a connection test overlapped its *)
(* installation (db/db.go:113).                                    *)
THEOREM ReadyUnlessTested == Spec => []ReadyOnceWired
PROOF
    BY ImpliesReady, InstallInvariant, PTL

(* A request finds no services only beside an installation that wrote the *)
(* lock and has not wired them (server/router.go:266).                    *)
THEOREM PanicsAreExplained == Spec => PanicHasCause
PROOF
    <1>1. IInv /\ [Next]_vars =>
            [\A r \in Request :
               req'[r].answer = "panic" /\ req[r].answer # "panic" =>
                 \E s \in Request : Installs(s) /\ req[s].locked
                                    /\ (InFlight(s) \/ req[s].answer # "ok")]_vars
        BY PanicsHaveCause
    <1> QED BY <1>1, InstallInvariant, PTL DEF Spec, PanicHasCause
=============================================================================
