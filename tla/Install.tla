------------------------------ MODULE Install ------------------------------
(***************************************************************************)
(* First installation, start and stop (install/, config/, db/, main.go and *)
(* the installation handlers of server/router.go).                         *)
(*                                                                         *)
(* Installing writes four places one after the other: the database (its    *)
(* first administrator), database.yaml, install.lock, and the services of  *)
(* the running process.  The configured database (cfg.Database) and the    *)
(* database handle (db.global) are shared by all requests without a lock.  *)
(* A crash keeps the files and the databases and nothing else.             *)
(***************************************************************************)
EXTENDS Integers, FiniteSets

CONSTANTS
    Db,         \* the databases an administrator may name
    Name,       \* administrator names
    Request,    \* requests, each served once
    None        \* no database, no handle, no name

Handle == [db : Db, by : Request \cup {None}]

ASSUME InstallAssumption ==
    /\ None \notin Db \cup Name \cup Request \cup Handle
    /\ Db \cap {"missing", "empty"} = {}

VARIABLES
    lock,       \* install.lock exists
    dbFile,     \* the database in database.yaml; "missing", or "empty" once truncated
    admins,     \* per database: the administrators created in it
    up,         \* the process runs
    cfgDb,      \* cfg.Database: shared by the requests
    global,     \* db.global: a database and the request that opened it
    wired,      \* the database behind the App's services
    req         \* per request: program counter, arguments and locals

disk == <<lock, dbFile, admins>>
memory == <<up, cfgDb, global, wired>>
vars == <<disk, memory, req>>

-----------------------------------------------------------------------------
Idle == [pc |-> "idle", kind |-> "none", db |-> None, name |-> None, opened |-> None,
         met |-> {}, locked |-> FALSE, answer |-> "none"]

At(r, pc) == req[r].pc = pc
InFlight(r) == req[r].pc \notin {"idle", "done"}
Goto(r, pc) == req' = [req EXCEPT ![r].pc = pc]
Answers(r, answer) == req' = [req EXCEPT ![r] = [@ EXCEPT !.pc = "done", !.answer = answer]]

Fails(r, answer) == Answers(r, answer) /\ UNCHANGED <<disk, memory>>

Arrives(r, kind, d, n) ==
    /\ up /\ At(r, "idle")
    /\ req' = [req EXCEPT ![r] = [@ EXCEPT !.pc = "check", !.kind = kind, !.db = d, !.name = n]]
    /\ UNCHANGED <<disk, memory>>

(* The handler is let through; met records the others that already were. *)
Passes(r, pc) ==
    req' = [req EXCEPT ![r] = [@ EXCEPT !.pc = pc,
              !.met = {s \in Request \ {r} : InFlight(s) /\ ~At(s, "check")}]]

(* Defect: a configuration without a driver is opened. *)
OpensAnything(r, d, pc) ==
    /\ global' = [db |-> d, by |-> r]
    /\ req' = [req EXCEPT ![r] = [@ EXCEPT !.pc = pc, !.opened = d]]

(* db.Open makes the handle global. *)
Opens(r, d, pc) ==
    /\ d \in Db
    /\ global' = [db |-> d, by |-> r]
    /\ req' = [req EXCEPT ![r] = [@ EXCEPT !.pc = pc, !.opened = d]]

-----------------------------------------------------------------------------
(* handleInstall *)

(* The lock file is looked for by the handler and again by Install. *)
CheckInstall(r) ==
    /\ At(r, "check") /\ req[r].kind = "install"
    /\ IF lock THEN Answers(r, "installed") ELSE Passes(r, "configure")
    /\ UNCHANGED <<disk, memory>>

Configure(r) ==
    /\ At(r, "configure")
    /\ cfgDb' = req[r].db
    /\ Goto(r, "open")
    /\ UNCHANGED <<disk, up, global, wired>>

(* The database opened is the one configured last, by whichever request. *)
OpenNew(r) ==
    /\ At(r, "open")
    /\ \/ Opens(r, cfgDb, "count") /\ UNCHANGED <<disk, up, cfgDb, wired>>
       \/ Fails(r, "open")

CountUsers(r) ==
    /\ At(r, "count")
    /\ IF admins[req[r].opened] # {} THEN Answers(r, "used") ELSE Goto(r, "createAdmin")
    /\ UNCHANGED <<disk, memory>>

(* Defect: an administrator of that name is accepted. *)
CreateAdminAgain(r) ==
    /\ At(r, "createAdmin")
    /\ admins' = [admins EXCEPT ![req[r].opened] = @ \cup {req[r].name}]
    /\ Goto(r, "truncate")
    /\ UNCHANGED <<lock, dbFile, memory>>

(* Usernames are unique; the site name is set after it, errors ignored. *)
CreateAdmin(r) ==
    LET d == req[r].opened IN
    /\ At(r, "createAdmin")
    /\ \/ /\ req[r].name \notin admins[d]
          /\ admins' = [admins EXCEPT ![d] = @ \cup {req[r].name}]
          /\ Goto(r, "truncate")
          /\ UNCHANGED <<lock, dbFile, memory>>
       \/ Fails(r, "admin")

(* Defect: the lock is written before the configuration is. *)
TruncateAndLock(r) ==
    /\ At(r, "truncate")
    /\ cfgDb' = req[r].db
    /\ dbFile' = "empty"
    /\ lock' = TRUE
    /\ Goto(r, "writeConfig")
    /\ UNCHANGED <<admins, up, global, wired>>

(* SaveDatabaseConfig sets cfg.Database to this request's database, ... *)
TruncateConfig(r) ==
    /\ At(r, "truncate")
    /\ \/ /\ cfgDb' = req[r].db
          /\ dbFile' = "empty"
          /\ Goto(r, "writeConfig")
          /\ UNCHANGED <<lock, admins, up, global, wired>>
       \/ Fails(r, "config")

(* ... and writes that database, not the one that was opened. *)
WriteConfig(r) ==
    /\ At(r, "writeConfig")
    /\ dbFile' = req[r].db
    /\ Goto(r, "lock")
    /\ UNCHANGED <<lock, admins, memory>>

WriteLock(r) ==
    /\ At(r, "lock")
    /\ \/ /\ lock' = TRUE
          /\ req' = [req EXCEPT ![r] = [@ EXCEPT !.pc = "load", !.locked = TRUE]]
          /\ UNCHANGED <<dbFile, admins, memory>>
       \/ Fails(r, "lock")

(* OpenInstalled reads the file, which an overlapping installation may have *)
(* just truncated (an empty file configures no database) ...                *)
LoadInstalled(r) ==
    /\ At(r, "load")
    /\ cfgDb' = IF dbFile \in Db THEN dbFile ELSE None
    /\ Goto(r, "reopen")
    /\ UNCHANGED <<disk, up, global, wired>>

(* ... and opens what is configured; a failure leaves the services unwired. *)
OpenInstalled(r) ==
    /\ At(r, "reopen")
    /\ \/ Opens(r, cfgDb, "wire") /\ UNCHANGED <<disk, up, cfgDb, wired>>
       \/ Fails(r, "reopen")

Wire(r) ==
    /\ At(r, "wire")
    /\ wired' = req[r].opened
    /\ global' = [db |-> req[r].opened, by |-> r]
    /\ Answers(r, "ok")
    /\ UNCHANGED <<disk, up, cfgDb>>

-----------------------------------------------------------------------------
(* handleInstallTestDB *)

(* Defect: a connection is tested on an installed system too. *)
CheckTestAlways(r) ==
    /\ At(r, "check") /\ req[r].kind = "test"
    /\ Passes(r, "test")
    /\ UNCHANGED <<disk, memory>>

CheckTest(r) ==
    /\ At(r, "check") /\ req[r].kind = "test"
    /\ IF lock THEN Answers(r, "installed") ELSE Passes(r, "test")
    /\ UNCHANGED <<disk, memory>>

TestOpen(r) ==
    /\ At(r, "test")
    /\ \/ Opens(r, req[r].db, "close") /\ UNCHANGED <<disk, up, cfgDb, wired>>
       \/ Fails(r, "test")

(* The handle is closed and stays the global one. *)
TestClose(r) ==
    /\ At(r, "close")
    /\ Answers(r, "ok")
    /\ UNCHANGED <<disk, memory>>

-----------------------------------------------------------------------------
(* Any other request: requireInstalled, then a service. *)

(* Defect: only the handle is looked at. *)
ServeUnlocked(r) ==
    /\ At(r, "check") /\ req[r].kind = "api"
    /\ Answers(r, IF global = None THEN "notInstalled"
                  ELSE IF wired = None THEN "panic" ELSE "served")
    /\ UNCHANGED <<disk, memory>>

Serve(r) ==
    /\ At(r, "check") /\ req[r].kind = "api"
    /\ Answers(r, IF ~lock \/ global = None THEN "notInstalled"
                  ELSE IF wired = None THEN "panic" ELSE "served")
    /\ UNCHANGED <<disk, memory>>

-----------------------------------------------------------------------------
(* What /readyz answers: it pings the global handle. *)
Closed(handle) ==
    handle.by # None /\ req[handle.by].kind = "test" /\ At(handle.by, "done")

Readyz ==
    CASE ~lock -> "not_installed"
      [] global = None -> "no_db"
      [] Closed(global) -> "db"
      [] OTHER -> "ready"

(* main.  A database that cannot be opened ends the start. *)
Start ==
    /\ ~up
    /\ IF ~lock
       THEN /\ up' = TRUE
            /\ UNCHANGED <<cfgDb, global, wired>>
       ELSE /\ dbFile \in Db
            /\ up' = TRUE /\ cfgDb' = dbFile /\ wired' = dbFile
            /\ global' = [db |-> dbFile, by |-> None]
    /\ UNCHANGED <<disk, req>>

(* A crash, or a shutdown whose 15 s are over. *)
Stop ==
    /\ up
    /\ up' = FALSE /\ cfgDb' = None /\ global' = None /\ wired' = None
    /\ req' = [r \in Request |-> IF InFlight(r)
                                 THEN [req[r] EXCEPT !.pc = "done", !.answer = "lost"]
                                 ELSE req[r]]
    /\ UNCHANGED disk

Init ==
    /\ lock = FALSE
    /\ dbFile = "missing"
    /\ admins = [d \in Db |-> {}]
    /\ up = FALSE /\ cfgDb = None /\ global = None /\ wired = None
    /\ req = [r \in Request |-> Idle]

Step(r) ==
    \/ CheckInstall(r) \/ Configure(r) \/ OpenNew(r) \/ CountUsers(r) \/ CreateAdmin(r)
    \/ TruncateConfig(r) \/ WriteConfig(r) \/ WriteLock(r) \/ LoadInstalled(r)
    \/ OpenInstalled(r) \/ Wire(r)
    \/ CheckTest(r) \/ TestOpen(r) \/ TestClose(r) \/ Serve(r)

Arrival(r) ==
    \/ \E d \in Db, n \in Name : Arrives(r, "install", d, n)
    \/ \E d \in Db : Arrives(r, "test", d, None)
    \/ Arrives(r, "api", None, None)

Next ==
    \/ \E r \in Request : Arrival(r) \/ Step(r)
    \/ Start \/ Stop

Spec == Init /\ [][Next]_vars

-----------------------------------------------------------------------------
(* Properties *)

(* Every variable has its type. *)
TypeOK ==
    /\ lock \in BOOLEAN /\ up \in BOOLEAN
    /\ dbFile \in Db \cup {"missing", "empty"}
    /\ admins \in [Db -> SUBSET Name]
    /\ cfgDb \in Db \cup {None} /\ wired \in Db \cup {None}
    /\ global \in Handle \cup {None}
    /\ req \in [Request ->
         [pc : {"idle", "check", "configure", "open", "count", "createAdmin", "truncate",
                "writeConfig", "lock", "load", "reopen", "wire", "test", "close", "done"},
          kind : {"none", "install", "test", "api"},
          db : Db \cup {None}, name : Name \cup {None}, opened : Db \cup {None},
          met : SUBSET Request, locked : BOOLEAN,
          answer : {"none", "ok", "installed", "used", "open", "admin", "config", "lock",
                    "reopen", "test", "notInstalled", "panic", "served", "lost"}]]

Installs(r) == req[r].kind = "install"
Overlapped(r, s) == r # s /\ (s \in req[r].met \/ r \in req[s].met)
SomeOverlapped == \E r, s \in Request : Installs(r) /\ Installs(s) /\ Overlapped(r, s)

(* A locked installation can be started and administered: database.yaml    *)
(* names a database that has an administrator, whatever crashed in between *)
(* (install/service.go:94-107), unless two installations overlapped: the   *)
(* administrator is created in the database configured last (line 79), the *)
(* file names this request's own.                                          *)
LockedDatabaseHasAdmin ==
    lock /\ ~SomeOverlapped => dbFile \in Db /\ admins[dbFile] # {}

Same(r, s) == req[r].db = req[s].db /\ req[r].name = req[s].name

(* A form submitted twice installs once: two installations are both        *)
(* acknowledged only if they overlapped (install/service.go:53) and the    *)
(* overlapping ones did not all ask for the same: the unique user name     *)
(* stops the second (line 88), which the count of users does not.          *)
AcknowledgedOnce ==
    \A r, s \in Request :
      /\ r # s /\ Installs(r) /\ Installs(s)
      /\ req[r].answer = "ok" /\ req[s].answer = "ok"
      => Overlapped(r, s) /\ \E q \in Request : Installs(q) /\ ~Same(q, r)

(* An installed, wired system is ready (docs/data-storage.md:121), unless  *)
(* a connection test overlapped its installation and closed the global     *)
(* handle (db/db.go:113); a test that was over is undone by wire and main. *)
ReadyOnceWired ==
    up /\ lock /\ wired # None /\ Readyz # "ready" =>
      \E s \in Request : Installs(s) /\ req[s].locked /\ Overlapped(global.by, s)

(* requireInstalled (router.go:266) looks at the lock and at the handle,   *)
(* not at the services: a request finds no service only after an           *)
(* installation wrote the lock and before, or instead of, wiring.          *)
PanicHasCause ==
    [][\A r \in Request :
         req'[r].answer = "panic" /\ req[r].answer # "panic" =>
           \E s \in Request : Installs(s) /\ req[s].locked
                              /\ (InFlight(s) \/ req[s].answer # "ok")]_vars
============================================================================
