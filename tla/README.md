# TuDNS in TLA+

Models of TuDNS, a service that hands out subdomains of an operator's root domains for points:
a Go server (gin, gorm on SQLite, MySQL or PostgreSQL), a React frontend, and a dozen DNS
providers behind one interface.  The modules here are translated from the Go source; every
definition names, in `PROJECT.json` under `map`, the lines it stands for.

    tlasany Billing.tla                                   # parse
    tlc -workers 2 -config MCBilling.cfg MCBilling        # model-check
    tlapm Billing_proofs.tla                              # check proofs

## 1. The system

One process serves HTTP; every request runs on a goroutine of its own.  The database is shared
by all requests; most services use single statements, three of them use transactions.  The
provider's zone is a second store that no transaction covers.

| component | state it keeps | operations | interacts with |
|---|---|---|---|
| points ledger (`points/`) | `users.points`, `points_ledgers` | Adjust, Charge, List | called inside the transactions of redeem, alipay, admin, record |
| redeem codes (`redeem/`) | `redeem_codes`, `redeem_uses` | Create, List, Redeem | points |
| payment (`payment/alipay/`) | `payment_orders`, setting `alipay_config` | CreateOrder, HandleNotify, MockPay, SaveConfig | points, settings, Alipay (calls back, repeatedly) |
| record service (`record/`) | `subdomains`, `records`, the provider's zone | CreateBundle, AddRecord, UpdateRecord, DeleteRecord, DeleteSubdomain | points, domain, DNS provider |
| domain service (`domain/`) | `domains` with encrypted provider configuration | Save, Delete, BuildProvider, CheckProvider, ListZones | crypto, provider registry |
| DNS providers (`dns/`) | the registry; zones at the provider | Create/Update/DeleteRecord, ListZones, Check | HTTP APIs of the providers |
| installation (`install/`, `config/`, `db/`, `main.go`) | `install.lock`, `database.yaml`, the global handle | TestDB, Install, OpenInstalled, start and stop | auth (first administrator), router (`wire`) |
| accounts and access (`auth/`, `server/auth_middleware.go`) | `users`, `api_keys`, issued tokens | Register, Login, ChangePassword, CreateAdmin, key Create/Revoke/Authenticate | every authenticated request |
| administration (`admin/`, `server/handlers_admin.go`) | `users`, `operation_logs` | UpdateUser, AdjustPoints, ResetPassword, WriteLog | points, settings |
| rate limiter (`server/rate_limiter.go`) | one bucket per address | Middleware, cleanup | first in every request |
| webhooks, notifications (`webhook/`, `notification/`) | their tables | Create, Update, Delete, Dispatch | handlers, after the commit |
| settings (`config/settings.go`) | `settings` | Get, Set, All | alipay, admin |
| router (`server/router.go`) | `App` with its services | wire, requireInstalled | all |
| crypto, password hashing, frontend | none the server depends on | | |

### What is hard about it, and what makes each component correct

* **points** - adjustments of one user overlap; a number is looked up before it is inserted.
  Correct: the ledger explains each balance, no balance below zero, no number posted twice.
* **redeem** - three checks on unlocked reads, a counter written from a stale row, a business
  number shared within a second.  Correct: no more uses than allowed, none twice, every
  acknowledged redemption credited.
* **payment** - notifications arrive twice, concurrently, and fail half-way.  Correct: an order
  is paid exactly when its points are credited.
* **record service** - two stores and no common transaction; provider calls of up to 25 s that
  may fail although they were applied; rows read before a call and written after it.  Correct:
  whoever is charged has a creation to show for it, a full domain has one owner, an
  acknowledged record exists upstream and stays tracked, the two values agree unless something
  failed or overlapped, only the owner or an administrator changes a row.
* **domain service** - whole rows are read, changed and written back; a deletion that does not
  cascade; status 0 as "not given".  Correct: a saved configuration is the last one saved, a
  disabled domain stays disabled.
* **providers** - Baidu's create returns no identifier and finds it by comparing lists;
  Volcengine's update reads the line first; some report an error in the status, some in the body.
  Correct: the identifier returned is the one of the record created, and success is returned
  only for what was executed.
* **installation** - lock file, configuration file, database and global handle written one
  after the other; requests overlap; a crash or a connection test in between.  Correct: a lock
  means a database with an administrator; an installed, idle server serves from an open handle
  on that database; a failed installation can be repeated.
* **access** - role and status read once per request; promotion racing disabling; password
  change racing reset.  Correct: no disabled administrator but by a race, a reset password stays
  reset, a revoked key opens no later request, an account acts only with a role it had meanwhile.
* **rate limiter** - windows and clean-up.  Correct: at most `limit` requests in any window,
  an address that pauses is served again.
* **webhooks** - dispatched after the commit from goroutines.  Correct: an event only for
  something that happened; a disabled hook receives none that was dispatched later.
* **settings** - several keys, a statement each; the Alipay configuration is one of them and may
  be overwritten as text.  Correct: the last value given is the one kept, masked keys survive.

Every place where these bite is listed, with its line, under `hazards` in `PROJECT.json`.

## 2. The modules

| module | what it is |
|---|---|
| `Ledger` | abstract: an account with a balance and a history of postings |
| `Billing` | points, redemption, payment, administrator's adjustments and charges, one action per SQL statement |
| `MCBilling` (+ `.cfg`, `Live`, `Gained`, `Uses`) | small instances of `Billing` |
| `Billing_proofs` | theorems about `Billing`, with the lemmas and the inductive invariant |
| `Zone` | abstract: what a caller of a DNS provider may rely on |
| `Providers` | the ten provider clients and the API behind them, one action per request or answer |
| `MCProviders` | small instance of `Providers`, shown to implement `Zone` |
| `Providers_proofs` | theorems about `Providers`: its invariants and the refinement of `Zone` |
| `Install` | first installation, connection tests, start, stop and crash over two files, the databases and the shared handle |
| `MCInstall` | small instance of `Install` |
| `Install_proofs` | theorems about `Install`, with the lemmas and the inductive invariant |
| `Access` | accounts, passwords, API keys, and the role a request is let through with |
| `MCAccess` | small instance of `Access` |
| `Access_proofs` | theorems about `Access`, with the lemmas and the inductive invariant |
| `Console` | what administrators keep (domains, settings, Alipay, webhooks) and the orders and events that use it |
| `MCConsole` | small instance of `Console` |
| `Console_proofs` | theorems about `Console`, with the lemmas and the inductive invariant |
| `Records` | the record service, the provider's zone and the points its creations cost, one action per statement or provider call |
| `MCRecords` (+ `.cfg`, `Live`, `Cleanup`, `Expired`) | small instances of `Records` |
| `Records_proofs` | theorems about `Records`, with the lemmas and the inductive invariant |

### Billing

`points`, `ledger`, `codes`, `uses` and `orders` are the committed tables; `tx[r]` is the
goroutine that serves request `r` (program counter, locals, staged writes), `locks[r]` what its
transaction holds, `snap[r]` the snapshot of its first read.  A request arrives (`Arrives`),
executes one statement per `Step`, and ends with a commit, a refusal, or `Fail` (a statement
that fails, a deadlock victim, a crash: gorm rolls back).  Staged writes are published by the
commit.

The database is a variable chosen initially, because the code's correctness depends on it:

* `sqlite`: gorm's `BEGIN` is deferred and `FOR UPDATE` is not rendered.  A transaction reads
  the snapshot of its first read; its first write needs the single write lock and a snapshot
  that is still the latest, or fails with SQLITE_BUSY (`Busy`; the busy timeout does not apply
  to a transaction that has already read).
* `mysql`: plain reads come from the snapshot; locking reads and writes see the latest commit.
* `postgres`: every statement sees the latest commit.

On the last two a locked row or an uncommitted unique key is waited for.  Business numbers are
structured values: `<<"redeem", code, second>>`, `<<"pay", order, 0>>`, `<<"uuid", request, 0>>`;
that a redemption's number does not hold the user is exactly what the code does.

### Records

Rows are identified by the request that inserted them (auto-increment identifiers are fresh),
and so is the record it created at the provider: `zone[r]` is the value that resolves, `NoRow`
when there is none.  A creation runs check, charge, insert of the subdomain, provider call,
insert of the record and commit; `locks` holds the user row and the full domain until it ends.
Updates and deletions run without a transaction: read and check, call the provider, write the
row that was read.  A provider call succeeds, fails, or fails although it was applied (its
deadline passed).  `Lapse` lets a subdomain expire, `DeleteDomain` removes the root domain's row
and nothing else, `Fail` is a crash or a failing commit.  The ledger behind a charge is the
subject of `Billing`; here a charge is what it does to the balance.  SQLite's single writer
would only remove interleavings or add failures that `Fail` has, so one model stands for the
three databases.

A deletion of a subdomain lists its records, deletes them upstream, and deletes the rows it listed
and the subdomain's in one transaction.  A record row that survives its subdomain was therefore
added after the listing, or written back by an update that had read it (`OrphanHasCause`); both
happen in the model.  An update notes which requests were over when it came (`earlier`, a history
that no action reads): the two values differ only while an update is under way, after one that
failed, or after two that overlapped (`DivergenceHasCause`).

A deletion notes that it asked the provider (`asked`, read by no action).  One copy without the
other has such a cause: a row without its remote record was asked to be deleted by its owner or an
administrator, in a deletion that is not acknowledged or that overlapped the update which wrote
the row back (`RecordHasUpstream`); a remote record without a row is the leftover of a creation
that failed after the provider was called, or of a `DeleteSubdomain`, which ignores the provider's
errors (`LeftoverHasCause`).

Left out: a row whose `RemoteID` is empty, for which the provider is not called
(`record/service.go:359`, `416`): only an answer that confirms a creation and names no record
leaves one.  `DeleteSubdomain` calls the provider inside its transaction, deleting a row after
each call (414-423); the model makes the calls first and holds no row lock over them, which allows
more orders of the two copies, and makes others wait less.

### Zone and Providers

`Records` lets a provider call succeed, fail, or fail after it was applied, and gives a creation
the identifier of its own record.  `Zone` states that contract, with the one exception the code
has, and `Providers` is what is behind `dns.Provider`: per provider one action for each of its
four operations (which request goes out, with which line), the set of answers it takes for
success (`...Accepts`), and the two operations that need several exchanges, Volcengine's update
and Baidu's creation.  `wait`, `find` and `done` are where a call can be; `sent` is the request
that the API may still execute after the caller gave up; `listed` is what Baidu's listing shows
when it trails the records.  The run shows that all ten implement `Zone`: success is returned
only for what was executed - although Huawei's and JD's clients look at the HTTP status and the
others at the body - and a creation is not given the name of a record that was known before.

The exception is Baidu: its create returns no identifier and the client finds the record by
comparing two listings.  If the listings trail, two overlapping creations of one value may each
find the other's record (`Zone!MayName`); if they do not trail, an ambiguous creation fails and
`OwnRecord` holds.  `Records` assumes an identifier of its own, so what it shows of Baidu holds
for listings that do not trail.  Aliyun's, West's and Baidu's updates leave the line out; what
the API then does with the line is its own matter, and the model lets it keep or reset it.
`ListZones` reads one page; what follows is not listed.

### Install

`lock` and `dbFile` are the two files, `admins[d]` the administrators in each database an
administrator may name; `cfgDb`, `global` and `wired` are the process's memory: the configured
database, the handle `db.Open` leaves, and the database behind the services.  All requests share
them without a lock, and the actions read and write them in the order of the code: an
installation configures, opens what is configured *then*, counts users, creates the
administrator, writes the file (truncated first) and the lock, reads the file again, reopens and
wires.  `Stop` is a crash or the end of the 15 s that a shutdown waits: it keeps the files and the
databases.  `Start` is `main`.  Each of the following is reached in the model, and each property
says which cause it needs:

* two overlapping installations for two databases share `cfg.Database`: the administrator is
  created in the one configured last, and the file names the request's own, which may have none
  (`LockedDatabaseHasAdmin`);
* a crash between the administrator and the lock leaves users without a lock, and every retry is
  refused because there are users: the property that a failed installation can be repeated does
  not hold and is not stated;
* a connection test that overlaps an installation closes the global handle, and `/readyz` fails
  until a restart (`ReadyOnceWired`);
* between the lock and `wire` a request passes `requireInstalled` and finds no service
  (`PanicHasCause`).

### Access

`users`, `keys` and `tokens` are the accounts, the API keys and the accounts tokens were issued
for; a request registers, logs in, or shows a token or a key.  Authentication reads the account's
row (`AuthToken`; `ListKeys` and `AuthKey` are two statements) and the request continues with what
it found; `held` records how the account, and the key, stood at the moments since.  No handler here
runs in a transaction.  `UpdateUser` reads the row once more after writing it, and may answer an
error for an update that was applied (`WriteUser`).  A user's `UpdateUser` may promote and disable in one call, and the last
administrator may demote itself: the code allows both and no property forbids them.

### Console

`rows` holds root domains, webhooks and two settings, `orders` the orders; a save reads the row,
keeps the secret of it if none is given, and writes the whole row back, while settings are written
key by key.  `LoadConfig` takes a failed read for "nothing saved", which the model has as
`failed`: an order is then priced at the default rate, and a save erases the keys it was to keep,
although the form says that a key left blank is not changed (`AdminSettings.tsx:86`).  No property
forbids what the code does here: `LastEnteredHolds` and `PricedInForce` excuse a failed read, and
say that nothing else has this effect.
A text under `alipay_config` that is not a configuration (the settings form accepts any) makes a
save that gives no key panic.  `WriteDomain` of a row deleted meanwhile inserts it again.  Orders
are priced (`PointsFor`: points are cut to a whole number, and an amount worth less than one point
gets a whole yuan's points), notifications pay them, and `Dispatch` reads the webhooks once and
sends each a copy.  Webhooks hear of `payment.completed` also for a notification whose trade is
not complete, so that of an unpaid order it may be heard too (`PaidWhenTold` speaks of trades that
succeeded); `DeleteRecord` and `MockPay` tell no one; `DeleteSubdomain` sends `record.deleted` with
the subdomain's number.  The first of these is in the model, the others are events it does not
have.  An event is delivered to the row that was
read, so it may still reach a webhook that was disabled meanwhile; `HeardAsSubscribed` says that
the row was in force at some moment of the operation.  Left out: the float conversion of an amount
in yuan to cents and the overflow of points (`alipay/service.go:89`; amounts are cents here), and
that on MySQL the insert gorm's `Save` falls back to overwrites a row of the same name
(`domain/service.go:107`; here it is refused, as on the other databases).

Abstracted in all: names, values and payloads (model values), validation (a request may be
refused), formatting, logging and listing.

## 3. Runs

| run | bounds | shows |
|---|---|---|
| `billing` | 2 users, 1 code (max_uses 2), 1 order, 3 requests (symmetric), clock 0..1, 3 databases; 1.6 M states | type correctness, `LedgerExplainsPoints`, `BizNoPostedOnce`, `PaidIffCredited`, `SqliteRedeemIsExact`, `UsesBoundPayout` |
| `billing_live` | 2 requests, every kind of input, fairness; 0.3 M states | `ImplementsLedger`, `EveryRequestIsAnswered` |
| `billing_gained` | 2 requests | violated: `RedeemedPointsAreCredited` |
| `billing_uses` | 2 requests | violated: `MaxUsesRespected` |
| `records` | 1 user and 1 administrator, 1 name, 2 values, 3 requests (symmetric), cost 1, balance 2; 0.16 M states | type correctness, `ChargedForCreations`, `FullDomainUnique`, `RecordHasUpstream`, `LeftoverHasCause`, `DivergenceHasCause`, `OrphanHasCause`, `OnlyOwnerOrAdmin` |
| `records_live` | 3 requests, 1 value, no expiry, fairness | `EveryRequestIsAnswered` |
| `records_cleanup` | 3 requests | violated: `SaveFailureIsCompensated` |
| `records_expired` | 3 requests | violated: `ExpiredIsRefused` |
| `providers` | 10 providers, 3 calls and 2 values (symmetric), 1 further line, listings that trail or not; 0.65 M states | type correctness, `OwnRecord`, `ImplementsZone`, `LineIsKept` |
| `install` | 2 databases, 2 names, 3 requests (all symmetric), any number of crashes; 2.5 M states | type correctness, `LockedDatabaseHasAdmin`, `AcknowledgedOnce`, `ReadyOnceWired`, `PanicHasCause` |
| `access` | 2 accounts with a key each, 3 names, 2 passwords, 2 requests (symmetric); 0.48 M states | type correctness, `NamesAreUnique`, `ActsWithStanding`, `RevokedKeyIsDead`, `LastPasswordHolds`, `KeysStayEnabled`, `AdminsStayEnabled` |
| `console` | 1 root domain, 1 webhook, 1 order, 2 names, 2 secrets, rates 0 and 3, amounts 1, 150 and 200 cents, 2 requests (symmetric); 0.2 M states | type correctness, `LastEnteredHolds`, `DeletedStaysDeleted`, `PricedInForce`, `HeardAsSubscribed`, `PaidWhenTold` |

Why the bounds are enough for the cases that matter: every conflict in the code is between two
transactions over one row, number or name; the third request lets a third party (another user's
notification, a deletion after two updates) come between.  Two users are needed for a shared
business number, one code with two uses for the limit to be reached and passed, two clock
values for a number that is and one that is not shared; a balance of two creations with three
requests makes the charge run out.  The properties of `Access` and `Console` are about two requests, one
before, during or after the other; the third name is one nobody has, the second password and
secret a new one; the amounts are one below a point, one with cents and one without, and rate 0 is
the one that is not taken as saved.  `Install` needs two databases for an installation to open the
wrong one, and the third request to be the one that finds the system half installed.  `Providers`
needs a third call to be over, or at work, while two identical creations overlap.  Deadlock is not checked by TLC because a request is served
once and the models stop; that no request blocks for ever is `EveryRequestIsAnswered` instead.

**Fairness.**  Weak fairness of `Step(r)` for each request: a goroutine whose next statement can
execute will execute it, and provider calls carry a deadline.  Arrivals, crashes, the clock,
expiry and the administrator are not fair.

**What the violated runs say** (`findings` in `PROJECT.json`):

1. Two users who redeem one code within a second share a business number
   (`redeem/service.go:82`).  The second is told that it gained the points
   (`frontend/src/pages/PointsPage.tsx:52`), its use is spent, and its balance does not move.
2. On MySQL and PostgreSQL overlapping redemptions exceed `max_uses`: the row is checked
   unlocked (`redeem/service.go:62-74`).  `SqliteRedeemIsExact` shows that SQLite excludes it.
3. `docs/architecture.md:113` says that a creation which cannot be saved locally tries to delete
   the remote record; `AddRecord` does not (`record/service.go:247`).
4. The first call on an expired subdomain is refused and disables it; a disabled subdomain no
   longer counts as expired (`models/models.go:71`), so the second update or deletion passes.

## 4. Proofs

Every invariant and every action property that a passing run checks, and both refinements, are
theorems: the runs show them on a small instance, the proofs for every value of the constants.

`Billing_proofs` proves, for every number of users, codes, orders and requests, any prices and
any of the three databases:

* `BillingTypeOK`, `LedgerExplains`, `BizNoOnce`, `PaymentsAreCredited`: the invariants
  `TypeOK`, `LedgerExplainsPoints`, `BizNoPostedOnce` and `PaidIffCredited`;
* `BillingImplementsLedger`: `Billing` implements `Ledger` with `balance <- points`,
  `history <- ledger`.

None of the invariants is inductive alone.  `IInv` adds what a transaction knows at each program
counter (`TxInv`): past `lockUser` it holds the user's row and `next` is the committed balance
plus its delta; past `insert` it holds the business number and no ledger row has it; past
`saveOrder` it holds the order's row.  `HeldOnce` says that a resource has one holder, and is
why another request's commit disturbs none of these.  The argument is then: a commit appends the
staged entry to a history whose last balance is still the one that was read (the row is held),
with a number no other commit can have used (the key is held), and marks an order paid in the
same step.  `PaidIffCredited` needs one more fact: an order's number is only ever staged by a
notification for that order, so that "already posted" in `FindBiz` implies "already paid".

The same module proves of redeem codes, on top of `IInv` and by a second invariant `RedeemInv`:

* `SqliteRedemptionsAreExact`: `SqliteRedeemIsExact`;
* `UsesBoundWhatIsPaid`: `UsesBoundPayout`.

`Redeem` checks a code before it holds anything.  On every database the row it read had a use
left and counted no more uses than there were, and uses only grow (`ClaimInv`): so a lost update
of `used_count` counts too few, never too many.  A commit adds one use and at most one number to
the code's credits, which is why no induction over the uses is needed.  On SQLite more holds
(`ExactInv`): while a redemption's snapshot is the latest, and from its first write on, the row and
the uses are still those it read.  The first write asks for a latest snapshot and for the only
write lock (`OneWriter`), and afterwards no other redemption can commit; rows that administrators
and users insert meanwhile raise the version, but no redemption has read them.

`Records_proofs` proves, for every number of users, names, values and requests, any cost and
any initial balance:

* `RecordsTypeOK`, `CreationsArePaid`, `NamesAreUnique`, `RowsResolve`, `LeftoversHaveCause`:
  the invariants `TypeOK`, `ChargedForCreations`, `FullDomainUnique`, `RecordHasUpstream` and
  `LeftoverHasCause`;
* `OwnersKeepTheirRows`: the action property `OnlyOwnerOrAdmin`.

Its `IInv` says of each request what it has established and why that still holds.  While a
creation is in progress its locks protect it (`HoldInv`: the balance that was compared, the name
that was found free) and so does its anonymity: nobody can name a remote record whose row has
not been committed (`ArgsInv`), so the value in the zone is still the one it created.  Updates
and deletions hold nothing; what saves them is that an acknowledged creation never changes
(`AckedStays`): the owner and the parent of a row are those of its creation (`RowsInv`), also of
a row that `Save` inserts again, so the permission that was checked is still right when the row
is written (`SeenInv`).  Every action that acknowledges no creation is an instance
of one lemma, `WriteStep`; the two commits are instances of `AckStep`.  `CreationsArePaid` adds
`PaidInv` (the set of acknowledged creations is finite and explains the balance).

`OrphansHaveCause` and `DivergenceIsExplained` prove `OrphanHasCause` and `DivergenceHasCause`.
What has become of a record is traced back to the requests that could have done it
(`CausesAreRecorded`): a subdomain goes only by an acknowledged `DeleteSubdomain` (`GoneInv`), a
row that one listed is there again only after an update (`BackInv`).  An update that arrives
finds every other update of the record over, and is then the latest, or overlaps one that is not
(`EarlierInv`, `LatestKept`).  Unless two overlapped, both copies have the creation's value or that
of the latest update (`ValueInv`, which says it of each point at which that update can be); so
updates that come one after the other, however many, leave the two stores equal.  Each step is an
instance of `Moves`, which says what one request may do to the rows, the zone and itself.

`RowsResolve` and `LeftoversHaveCause` follow from five more (`CopiesInv`).  Who asks the provider
to delete was allowed to (`AskedInv`).  When an update is about to write its row and the remote
record is gone, whoever asked for that was not answered when the update came (`SaveInv`): so if
the row is there again at the end, the two overlapped (`GapInv`).  A remote record comes from a
creation and from nothing else (`LeftInv`), and one that was acknowledged loses its row only to
the transaction of `DeleteSubdomain` (`TrackInv`), as `DeleteRecord` gets to its row only after
the provider confirmed.  `Deals` says what one step does to the two copies.

`Access_proofs` proves all that the run `access` checks, for every number of names, passwords and
requests:

* `AccessTypeOK`, `NamesStayUnique`, `StandingIsNeeded`, `RevokedKeysStayDead`,
  `LastPasswordStays`: the invariants `TypeOK`, `NamesAreUnique`, `ActsWithStanding`,
  `RevokedKeyIsDead` and `LastPasswordHolds`;
* `KeysAreKept`, `AdminsAreKept`: the action properties `KeysStayEnabled` and
  `AdminsStayEnabled`.

Accounts and keys never vanish and a key never changes its owner (`RowsStay`), so that whom a
request acts for is settled when it arrives (`ActorStays`).  Nothing is locked: what an invariant
says of two requests survives a step of a third because that step writes only what its program
counter allows (`OnlyWrites`), and because requests that were over when another arrived do not
move (`OrderInv`).  `RevokeInv` carries a revocation to the comparison of keys, `PromotedInv` a
promotion to the write that disables, `StandingInv` the standing that was found to the answer.
Every request's step is an instance of `Ends`, `GoesOn`, `Finishes` or `Arrived`, and
`OthersKeep` says once what becomes of the other requests.

`Install_proofs` proves all that the run `install` checks, for every number of databases, names
and requests and any crashes:

* `InstallTypeOK`, `LockedHasAdmin`, `InstalledOnce`, `ReadyUnlessTested`: the invariants
  `TypeOK`, `LockedDatabaseHasAdmin`, `AcknowledgedOnce` and `ReadyOnceWired`;
* `PanicsAreExplained`: the action property `PanicHasCause`.

Nothing is locked here either, so the invariant is about who met whom.  A request is let through
only while there is no lock, and notes who is being served; so two requests that are past that
check have met, and so has whoever locked the system (`PairInv`).  From this follow the exceptions
the properties make: a test that touches the handle of a locked system met the installation that
locked it (`HandleInv`), and a locked system without services is in the hands of an installation
or was left by one that failed (`WiringInv`).  Where no two installations met, each finds the
configured database, the handle, the administrator and the file as it left them (`AloneInv`); where
all ask for the same, the unique user name lets one of them past `createAdmin` (`SameInv`).

`Providers_proofs` proves all that the run `providers` checks, for any of the ten clients and any
number of calls, values and lines:

* `ProvidersTypeOK`, `NamesOwnRecord`: the invariants `TypeOK` and `OwnRecord`;
* `LinesAreKept`: the action property `LineIsKept`;
* `ProvidersImplementZone`: `Providers` implements `Zone`, with the mapping that `Providers`
  defines - the zone's values, what each call was asked for, and its result.

A request is pending until it is executed or refused, hence executed at most once, and an answer
that a client accepts is never that of a refusal (`PcInv`): this is all the refinement needs, but
for Baidu.  There the record that a creation finds in its second listing was not in the first;
whoever gave it its value is therefore the creation itself or a call that was not over when the
creation began (`FoundInv`, by way of `ZoneInv`: every value was given by an executed call).  If
listings do not trail, `OwnInv` says that nobody else was told the name meanwhile, so the
creation's own record still has its value and is among those found: if one is found, it is that.

`Console_proofs` proves all that the run `console` checks, for every number of names, secrets,
rates, amounts and requests:

* `ConsoleTypeOK`, `LastEnteredIsKept`, `DeletionsHold`, `OrdersArePriced`, `HearsAsSubscribed`,
  `ToldIsPaid`: the invariants `TypeOK`, `LastEnteredHolds`, `DeletedStaysDeleted`,
  `PricedInForce`, `HeardAsSubscribed` and `PaidWhenTold`.

`LastInv` carries what was entered through every later save: whoever has the last word is stored,
and a save that is to carry the secret over and has read the row has read that secret.  It
speaks of each setting of a half-written form separately, because `Set` writes key by key.
`DeletedInv` does the same for a deletion: requests that come later find no row.  `WatchInv` says
that the history kept for a request holds the present rows at each moment, and with `PriceInv` and
`MessageInv` that what an order or a goroutine uses was in the table while it was served.
`RowInv` and `AskInv` keep the tables apart: which row is a root domain's, a webhook's or a setting.

Assumed: `BillingAssumption`, `RecordsAssumption`, `AccessAssumption`, `InstallAssumption`,
`ProvidersAssumption`, `ConsoleAssumption` and the three `NoRowAssumption`s, which TLC evaluates in
every run.  They give the constants their types and say that values which stand for different
things are different: that "no row", "no record" and "none" are none of the rows, names and
requests, that a database is not one of the words for a missing or an empty file, that a domain, a
webhook and the two settings are different rows, that "leave the line out" is no line.

Only model-checked: `EveryRequestIsAnswered` of `Billing` and `Records` (fairness and ENABLED are out
of the prover's reach), and the four violated properties, of which a counterexample is all there
is to show.

## 5. Plan

Built, in this order: `Ledger` and `Billing`, `Records`, `Zone` and `Providers`, `Install`,
`Access`, `Console`, each with its proofs.  Left:

1. What `Records` relies on, stated against `Zone`: every provider call of the record service as a
   call of `Zone`.
2. The rate limiter: windows with a clock, against "at most twice the limit in any window's
   length".
3. The columns of a root domain that `Console` leaves out, its status above all.

Runs are kept to one per question; a module has one safety run, with liveness in a run of its own
where the code promises an answer.

## 6. Not modelled

Hashing, token signing, encryption and request signing (pure computation on bytes), the wire
formats of the providers, listing and paging, the operation log (written, never read back), the
frontend (a client with no state the server depends on), response formatting, and of the routes
all but what they ask for.  Notifications: no code creates one, so that reading and marking them
never finds a row.  The rate limiter: one counter per address under one mutex, on which nothing
else depends; a window starts with an address's first request, so that two windows' worth of
requests can fall within one window's length.  The expiry of tokens: a token is good for as long
as the model runs, which is the worst case for the properties of `Access`.  The provider, zone, price
and status of a root domain are written as they are given - except that status 0 becomes
"active", because 0 is also what "not given" is.
