# Mentos backend: TLA+ models and proofs

Specifications of the property-management backend in `src/` (NestJS 11, TypeORM
0.3, PostgreSQL 16). At the centre is what costs money or homes: who lives where
(leases, units, tenants) and who owes what (invoices, payments). Around it are who
may act (sessions, users, roles), the record keeping (maintenance, documents,
properties, notifications) and what runs behind the answers (the overdue job,
background writes, shutdown). Requests are in flight at the same time and fail at
any statement. Line numbers of the code each definition models are in
`PROJECT.json` under `map`.

Contents: 1. the system · 2. the plan · 3. the modules and the code ·
4. what the runs show · 5. disagreements found · 6. what is proved ·
7. what is not modelled.

## 1. The system

One Node process. Handlers run on the event loop and interleave at every
`await`; the state that matters is in Postgres and the object store. Three
idioms recur, and every hazard below is one of them going wrong:

* **check, then transaction.** A service reads rows and refuses the request,
  then opens `dataSource.transaction` and writes, without reading again.
* **numbering.** `LOCK TABLE … IN SHARE ROW EXCLUSIVE MODE`, `MAX(code)+1`,
  `INSERT`; the lock lasts to the end of the *enclosing* transaction.
* **two kinds of write.** `repo.update(id, {…})` is a blind `UPDATE` of the named
  columns. `repo.save(loaded)` selects the row again, compares it with the entity
  and updates every column that differs, including those that changed under it.

Transactions are READ COMMITTED: a read sees committed rows and takes no lock.

| component | state | operations | correct when |
|---|---|---|---|
| leases | `leases` rows: tenant, unit, status | create (lease + invoice + occupancy + agreement in one transaction), terminate, PATCH of terms | one live lease per tenant; an ended lease stays ended; a lease has its invoice and agreement or does not exist |
| units | `units.status`, `tenantId`, `code`, `no` | add, PATCH, `occupy`, `vacate` (by leases and blacklisting) | names an occupant exactly if a live lease says so; codes unique |
| tenants | `tenants.status`, `unitId` | onboard, PATCH, blacklist, `occupyForLease`, `vacateForLease` | agrees with the unit row and the lease |
| invoices | amount, balance, status, items | issue (by lease creation), edit, void, reminder | amount = balance + money received; edit and void only before money came in |
| payments | receipts | record | never more than the balance; receipts numbered without gap or repeat |
| documents, storage | rows, objects in a bucket | generate a lease agreement, upload, remove, download | row and object agree, whatever fails |
| overdue job | `overdueNotifiedAt` | daily: list, notify, stamp | each overdue invoice announced once, and in the end |
| notifications | rows, template pairs, one preferences row | fire-and-forget insert after commit; announce; read; settings | none lost, settings that were put are what is read |
| task tracker | promises in flight | track, drain on shutdown for at most 5 s | shutdown loses no work |
| maintenance, technicians | request status, assignee; skills | submit, assign, start, complete, close | stages in order, assignee covers the category |
| auth, tokens, users | refresh tokens, mailed links, `tokenVersion`, user status | register, login, refresh, logout(-all), forgot, reset, invite, accept, change password, PATCH, suspend | a token is good once; a suspended user is out; an administrator remains |
| roles, permissions guard | roles and their permission keys | create, rename, set permissions, delete | requests need the permission when they begin |
| properties | `properties` rows: code, status | create, PATCH, archive | codes unique, never given twice |
| audit | append-only log numbered by a sequence | entry for each mutation, in the background | an answered request has its entry |
| reports | none, computed from the tables | figures on invoices, payments, units, tenants | different reports agree on the same figure |
| mail, health, config | none | – | – |

How they interact: `LeasesService.create` calls invoices, units, tenants and
documents with its own `EntityManager`, so all of it is one transaction, and
documents uploads the PDF *inside* it. `TenantsService.blacklist` calls units.
Payments write the invoice row. After commit, leases, payments, maintenance and
the overdue job fire notifications through the task tracker; nobody awaits them.
Nothing ever deletes a unit, a tenant, a lease, an invoice or a payment; documents
and roles can be removed. Auth and users open no transaction at all: a request
that fails half-way leaves what it has written.

What is hard: the checks before the transaction are not repeated under the
lock; table locks taken for numbering are held across later statements and an
upload, so lock order matters among handlers written in different files; an
upload cannot be rolled back; `save` writes columns back that its handler never
meant to touch; blacklisting moves a tenant out without ending the lease, so
any number of later operations run on a lease nobody expects to be alive; writes
nobody awaits meet shutdowns and crashes. The list with lines is `hazards` in `PROJECT.json`.

## 2. The plan

The order in which the models were made, most important behaviour first:

1. `Rental` (rows), `Occupancy` (one request at a time), then `PgLocks` and
   `LeaseHandlers` (by statement, interleaved, failing), shown to implement
   `Occupancy` when requests do not overlap.
2. `Ledger` (atomic) and `Billing` (by statement), shown to implement `Ledger`
   when no two requests address one invoice.
3. `Sessions`: tokens, links, suspension, roles.
4. `Desk` and the components that share its numbering, `Maintenance`,
   `Documents`, `Portfolio`, `Inbox`, composed in `Backoffice`.
5. `Reminders` on top of `Ledger`: the overdue job, audit entries and shutdown;
   `Reports` and `LettingReports` as functions of the tables.
6. Proofs: every safety invariant and action property the passing runs check,
   and both refinements; lock order as a ranking; sums over tables.

Left, most important first:

7. `Sessions` with requests overlapping, beyond the one race shown: which of its
   properties survive, and under which mix of endpoints.
8. Numbering at its cap of 5000, and the half-cent drift of amounts finer than a cent.
9. The reports that need calendar dates or costs.

## 3. The modules and the code

```
Rental ─┬─ Occupancy ── LettingReports ─────── OccupancyProofs ─┐
        └─ LeaseHandlers ⟹ Occupancy ──────── LeaseHandlersProofs
Ledger ─── Reports ── Reminders ────────────── LedgerProofs ────┼─ Totals (sums)
  ⇑                                                             │
Billing ────────────────────────────────────── BillingProofs ───┘
Desk ─┬─ Maintenance ─┐
      ├─ Documents ───┼─ Backoffice ── DeskProofs ── BackofficeProofs
      ├─ Portfolio ───┤
      └─ Inbox ───────┘
Sessions ───────────────────────────────────── SessionsProofs
PgLocks: used by LeaseHandlers, Billing and Desk
MCOccupancy, MCLeaseHandlers, MCLedger, MCBilling, MCSessions, MCBackoffice: instances for TLC
```

### Who lives where

**Rental**: the columns that say who lives where. A lease is the number in its
code, so `MAX(code)+1` is `IsNextCode`; a row not inserted has status `"none"`.
Rent, dates, names and contact details are left out: no guard reads them.

**Occupancy**: the three tables with each request one atomic step: `Onboard`,
`CreateLease`, `Terminate`, `Blacklist`. PATCH handlers write only columns left
out here and so are stuttering. `Init` is any database the seeders' shape
admits: `SeedLeases` leases, live or ended, with occupancy columns wired
from the live ones. **LettingReports** adds properties, rents and the reports
that are read off the status columns.

**PgLocks** (external): the two table lock modes and the row locks used, their
conflicts, `Acquire` and `Release` at the end of a transaction. A statement that
needs a table lock and a row lock gets both in one step.

**LeaseHandlers**: one step per awaited statement of `POST /leases`,
`…/terminate`, `POST /tenants`, `…/blacklist` and the three PATCH handlers.
`req[r]` is the handler's local state (`pc` and what it read); `held` the locks
of its transaction; `lease`, `unit`, `tenant`, `invoice`, `document` the
*committed* tables, so a transaction's writes appear in its `Commit…` action;
`object` the bucket, which no rollback undoes. `Fail(r)` is any refusal, database
or storage error: locks and uncommitted writes go, objects stay. A crash of the
process is `Fail` of every request, one after the other. `CreateWants`,
`TerminateWants`, `BlacklistWants` and `SaveWants` are the locks each statement
waits for. `Compare…`/`Save…` are the two halves of `repo.save`.

Lock order, read off the handlers: leases < invoices < units < tenants <
documents, and payments < invoices. It is nowhere stated in the code; `NoDeadlock`
is what depends on it.

### Who owes what, and what happens behind the answer

**Ledger**: invoices and `paid`, the sum of the receipts of each, one atomic
step per request: `Issue`, `Record` (refused when void or settled, capped),
`Edit`, `Void`. Whole cents, as the columns are `decimal(12,2)`.

**Billing**: the same by statement: `ReadForPayment` (checks and cap on the row
just read), `InsertReceipt` (lock on `payments`, next code), `WriteBalance` (row
lock), `CommitPayment`; edit and void as a check and a blind update;
`InsertInvoice` holding the lock on `invoices` to the commit of the lease.
Requests carry 1/`Fraction` cents and `ToCents` rounds half up when a column is
written, receipt and balance each on its own, as Postgres does.

**Reports**: rent collection, outstanding balances and the income side of income
against expenses, as operators on the two tables.

**Reminders**: `Ledger`'s requests, each leaving an audit entry, and the daily
job. `task` is the tracker's set of promises, a slot each; `job.todo` the
candidates read, `job.firing` the invoice announced and about to be stamped.
`Shutdown` marks the writes in flight as awaited, as `allSettled([...inFlight])`
does, and the process still serves while it drains; `Drained` and `Die` (five
seconds over, or killed) drop whatever is unfinished; `Restart` follows. `JobFails`
and `WriteFails` are failed writes. `sequence` is the audit sequence, which
survives everything. `history` records what went wrong, for the properties
only.

### Who may act

**Sessions**: the seventeen endpoints of auth, users and roles, one step for each
statement that changes a row. `user` has status, role and `tv` (`tokenVersion`);
`refresh` the refresh tokens with the login each descends from; `access` the
access tokens out there, each with its version; `link` the mailed reset and
invite links; `role` the permissions. `May(a, perm)` is
evaluated when a request begins, as the guard does. `Fail(r)` leaves what was written: nothing here
is a transaction. `torn` names the logins with a rotation that failed between its
two statements. A `save`'s re-read and `UPDATE` are one step here, so
`sessions_race` needs no more than a row loaded too early.

### Record keeping

**Desk**: request slots, locks, and `calls`, the endpoints taking part in a behaviour.
**Maintenance**: tickets and technicians; each transition reads, checks the
status and then updates blindly. `visited` collects the statuses a ticket has had.
**Documents**: row and object under a key of code and file name, stored before
the commit, deleted after the row; a removed document's code is given out again.
Bytes are told apart by the number of their upload. `abandoned` are keys that a
failed handler left behind.
**Portfolio**: properties and their units; a unit code is the property's number
and the unit's position, padded to two digits of base `Base` (10 in the code).
**Inbox**: announcements and read flags, template pairs, and the settings row made
on first read, stamped with the time its transaction began.
**Backoffice** composes the four on the same slots, with one `Fail` for all.

## 4. What the runs show

| run | question | size |
|---|---|---|
| `occupancy` | requests one at a time: do leases, units, tenants and the reports on them agree through any history, late terminations and blacklistings included? | 3 tenants, 2 units of different properties and rents, 5 leases; 104 040 states |
| `occupancy_blacklist` | does the active lease decide occupancy, as the entity's comment says? **no** | same |
| `lease_serial` | do the handlers, with failures at every await, implement `Occupancy` when they do not overlap? All seven endpoints; deadlock checked | 1 request, 2 tenants, 2 units, 3 leases; 10 216 states |
| `lease_handlers` | two requests interleaved: whole leases, unique codes, no lock cycle, every request answered | 2 requests, 2 tenants, 1 unit, 3 leases; 129 466 states |
| `lease_race` | can a tenant get two live leases? **yes** | 2 requests, 1 tenant, 2 units |
| `lease_edit` | can a PATCH change occupancy? **yes** | 2 requests, 1 tenant, 1 unit |
| `ledger` | money conserved, status truthful, reports agreed, and behind them nothing lost or repeated without a reason, every overdue invoice stamped | 2 invoices, totals 0 and 2, payments 1 and 3, 1 template, 2 background writes, 2 requests, 1 incident; 409 973 states |
| `billing` | do interleaved, failing requests for different invoices implement `Ledger`, with dense receipts and an answer for each? | 2 requests, 2 invoices, 4 receipts; 2 925 states |
| `billing_race` | is an invoice never overpaid? **no** | 2 requests, 1 invoice |
| `sessions` | all endpoints one request at a time, failing between any two statements: who is in, who is out? | 2 users, 2 roles, 2 refresh tokens, links and versions; 922 655 states |
| `sessions_race` | does a suspension kill access tokens for good? **no** | 2 requests, 2 users |
| `backoffice` | two requests interleaved and failing at each of five desks | 2 tickets, technicians, documents, properties, notifications, template pairs; 4 uploads, 3 units; 355 051 states |

The properties, beside one `TypeOK` per module:

* `OneLiveLeasePerTenant`, `OccupancyIsBacked`, `HousingIsBacked`: what survives
  blacklisting. A unit without a live lease is never occupied, a housed tenant
  always has a lease of that very unit; the converse (`LeaseDecidesOccupancy`)
  is false, and terminating a blacklisted tenant's lease can vacate a unit under
  the next tenant, who keeps lease and unit column.
* `RentRollIsLet`, `ActiveTenantsAreLeased`: the reports look at no lease, yet
  credit no property with rent that no live lease backs, and count as active
  only tenants with leases, each its own.
* `EndedIsFinal`: no history revives a lease or moves it.
* `ImplementsOccupancy`, `ImplementsLedger`: refinement. Every commit is one
  abstract operation, all other steps stutter. They hold without overlap, and
  `lease_race`, `lease_edit` and `billing_race` show that this condition is needed.
* `LeaseIsWhole`: a created lease has exactly one invoice, exactly one agreement
  row, and the object under that row's key is its own, although orphans of
  rolled-back creations lie under keys that are given out again.
* `CodesAreFree`, `ReceiptsAreDense`, `NumbersAreFree`: the table lock covers reading
  the maximum and the insert, so the unique indexes never refuse.
* `NoDeadlock`: no set of requests each waits for another of the set.
* `EveryRequestEnds`: every request that started is answered.
* `Conservation`, `StatusTellsBalance`, `PaidIsPaid`: what the two-column check
  "balance = amount" of edit and void is worth. `ReportsAgree`: the rent report,
  from invoices, and the income report, from payments, name the same sum.
* `AnnouncedOnce`: an invoice is announced again only where a run was cut off
  between the trigger and the stamp. `NothingIsDropped`: without a crash, a failed
  write, or work begun after the shutdown looked, every stamped invoice has its
  notifications and every answered request its audit entry. `OverdueIsStamped`:
  every invoice overdue is stamped or settled in the end.
* `SuspendedIsOut`, `ClosingEndsSessions`: suspension, logout-all, reset and
  password change revoke and then bump the version in two statements; after both,
  nothing works, not even after a reactivation. `OneLiveTokenPerLogin`,
  `OneUsableLink`: rotation and re-sending leave one that works.
  `AnAdministratorRemains`: no edit of accounts locks everybody out.
* `NothingIsSkipped`, `AssigneeIsQualified`: overlapping transitions can move a
  ticket back, but not past a stage, nor into unqualified hands.
* `ObjectIsOwn`, `OrphansWereAbandoned`: a download is the document's own bytes or
  nothing, and a file outlives its row only where a handler failed in between.
* `UnitCodesAreUnique`: while no position needs a third digit.
* `PutSettingsStand`: two first reads make two rows, but the oldest stays the one read.

**Bounds.** `MaxLeases`, `MaxReceipts` and the other maxima stop requests from
starting, never a request in flight (`MaxStamps` excepted: an insert beyond it
waits). Three tenants for two units let a unit pass on while an old
lease of it is still alive, the deepest interaction of `Occupancy`; five leases
give the unit's first tenant time to return. Two requests suffice for each
pairwise race and for a cycle between two lock orders; longer cycles are what the
proof excludes. One unit in `lease_handlers` makes every pair of handlers meet on
it. Payments of 1 and 3 are below and above a total of 2; `billing` has them at
the balance too. One incident is enough to cut any run of the job or any write
short, followed by the repair; two background writes and two served requests let
one entry be awaited and one be late. In `sessions` two refresh tokens are a
rotation or two logins, two versions a closing and what came before it. In
`ledger` one template keeps the run short; that a notification task may stop
between two is for any number of templates in `AnnouncedOnceOrCutShort` and
`NothingGoesMissing` (section 6). `Base` 2 with three units of a property reaches
the last position of two digits. Four uploads for two codes let a code be reused
twice. Each behaviour of `backoffice` calls one desk: the desks write disjoint
tables.

Requests, tenants, units, users and other interchangeable values are symmetric in
safety runs only; no run with liveness uses symmetry. `CHECK_DEADLOCK FALSE` appears where the bounds
leave nothing to ask for.

**Fairness.** `SF_vars(Advance(r))` for each request slot in `LeaseHandlers` and
`Billing`, and none for arrivals or failures. A statement runs when its locks are
free; strong rather than weak fairness because others may take and release the lock
meanwhile, and Postgres queues waiters first come first served. That the holder
releases is not assumed but follows from its own progress, which is what
`EveryRequestEnds` checks. An upload that never returns is outside the model: the
storage client either answers or fails. In `Reminders`, weak fairness of the
background writes (promises settle), of the job (it runs every day and goes on
while the process is up), of `Drained` (a drain ends by itself) and of `Restart`
(the process is restarted); none for requests, incidents or due dates.

Each property of a passing run has a mutant, a definition of its own headed
`MUTANT of …` beside the one it alters, that breaks it: a lookup left out, a row
forgotten, a lock not taken, a balance not reset.

## 5. Disagreements found

* **Blacklisting leaves the lease alive** (`occupancy_blacklist`,
  `tenants.service.ts:134`), against `lease.entity.ts:15` and `ARCHITECTURE.md:136`.
  The unit can be let again while the old lease is live.
* **Two leases for one tenant, or two tenants for one unit** (`lease_race`,
  `leases.service.ts:50`): the checks precede the transaction.
* **PATCH undoes occupancy** (`lease_edit`, `units.service.ts:136`,
  `tenants.service.ts:117`): `save` writes stale columns back, against
  `ARCHITECTURE.md:134`.
* **Overpayment** (`billing_race`, `payments.service.ts:72`): two payments are both
  capped at the balance before either, and the second overwrites the balance.
* **PATCH undoes a suspension** (`sessions_race`, `users.service.ts:207`): the row
  loaded before the suspension is saved after it, status and `tokenVersion`
  included, and access tokens the suspension had killed work again, against the
  comment at `users.service.ts:228`.

## 6. What is proved

Every invariant and every action property of the passing runs, and both
refinements, for every value of the constants. Left to TLC are the two liveness
properties, `EveryRequestEnds` and `OverdueIsStamped`, which are out of the
prover's reach.

The assumptions, which TLC evaluates too: `NullAssumption` (NULL is no tenant or
unit), `LeaseAssumption`, `MaintenanceAssumption`, `InboxAssumption` (bounds are
naturals), `OpsAssumption`, `MixAssumption` (endpoints are the modelled ones),
`RowAssumption` (rows of one table are not those of another), `MoneyAssumption`
and `BillingAssumption` (totals and payments are naturals, payments positive),
`DocumentsAssumption`, `PortfolioAssumption` (the bounds leave room for the seeded
rows, the agreement is a file name) and `RemindersAssumption`. Where things are
counted or added up they are finite: invoices (`ReportsAssumption`), units and
properties (in the assumption of `LettingReports`), background slots, and the
request slots of `Sessions` and `Documents`.

**Totals.** A report is a sum over a table, so proofs about it need what a sum
does when a row changes. `SumFunctionOnSet` is a recursive function on sets, and
the library's induction theorems cannot be instantiated here; the lemmas go by a
minimal counterexample instead, which only needs that `<` on the naturals is well
founded. That the recursion defines anything is `SumsExist`; from there
`SumTakes` (take out one element), `SumMoves` (one row changes), `SumNarrows`,
`SumSplits` and `SumOfParts` (sum by group) follow.

**OccupancyProofs.** `TypeCorrect`, `NoSecondLease`, `OccupancyNeedsLease`,
`HousingNeedsLease`, `EndedForGood`, `DirectoryCountsLeases`, `RentRollIsBacked`,
`LettingDecidesOccupancy`. The invariants are not inductive one by one.
Terminating lease *l* clears the unit and tenant it names; that nobody else loses
backing needs *l* to be the only live lease of its tenant, the unit to name a tenant
who names it back, and the tenant's unit to be one of a live lease. So `IInv` is
the conjunction of `TypeOK`, `RowsAreWhole` (an inserted lease names a real tenant
and unit), `OneLiveLeasePerTenant`, `OccupancyIsBacked` and `HousingIsBacked`, with
one lemma per action and one step per conjunct it can disturb.
`DirectoryCountsLeases` counts by an injection of active tenants into live leases,
`RentRollIsBacked` adds up rents by property with `SumOfParts`.
`LettingDecidesOccupancy` is about the system without `Blacklist`: there the false
`LeaseDecidesOccupancy` becomes an invariant, so blacklisting is the only operation
to blame.

**LeaseHandlersProofs.** `LettingTypes`, `CodesStayFree`, `LeasesStayWhole`,
`NoCircularWait`, for any number of requests, all seven endpoints included. Two
invariants carry them: `LocksInv`, which locks a handler holds at each `pc` and that
none conflict; and `LettingInv`, what a handler remembers is still true of the
tables (`Remembers`: the code it computed is free, because only the holder of the
table's lock inserts) and each committed lease has its papers. For
`NoCircularWait`, tables are ranked in the lock order; a handler holds only locks
of rank at most its `Level`, and each statement wants a lock of higher
rank than its handler's `Level`; so ranks rise strictly along a chain of waits, and
there are only five. `AloneTheyAreAtomic`: if no two requests
overlap, `Spec` implements `Occupancy` (the step simulation, PATCH's `save` included).

**LedgerProofs.** `TypeCorrect`, `MoneyIsConserved`, `StatusIsRight`,
`ReceivedMoneyStays`, `ReportsAlwaysAgree` for `Ledger`; `SystemServesLedger` (the
process of `Reminders` implements `Ledger`) and from it `BooksSurviveTrouble` and
`ReportsSurviveTrouble` (all of it holds through crashes and failed writes). Each action
changes one row, so soundness of a row is stated once and lifted (`OneRowStep`).
The edit and void guards compare balance with amount; that this means "nothing
was received" holds only through `Conservation`, which is why the action property
needs the invariant. The reports agree because `Conservation` can be added up
over the invoices, and because a row not issued owes nothing (`AbsentOwesNothing`).

`RemindersTypeCorrect`, `AnnouncedOnceOrCutShort` and `NothingGoesMissing` share the
invariant `RInv`. `RunIsFresh`: the invoices a run still has to announce are not
stamped. `CodesAreOwn`: the numbers drawn for audit entries are different and below
the sequence. `NoExcess`: the notifications an invoice has and those coming from
tasks in flight are at most one set per announcement. `NoLoss`: in a life without
failure, kill or late start they are at least one set, and entries written and
entries in flight are as many as the requests served. What is coming is a sum over
the slots, and a write moves one from there to the table (`SumMoves`).

**BillingProofs.** `BillingTypes` and `ReceiptsStayDense` hold for any requests on
any invoices, by `BInv`: what a handler remembers is typed, the lock on `payments`
is held from the numbering to the commit, and the number held is the first free
one (`Dense`). `ApartTheyAreAtomic` and `ApartTheyNeverOverpay` have two hypotheses.
`Apart`: the slots' invoices do not overlap, so no two requests in flight address
the same invoice; `billing_race` is what happens otherwise. `WholeCents`: what is
asked to be paid is of whole cents; finer amounts pass the validation, and receipt
and balance are then rounded each on its own, so that the two no longer move
together. `Fresh` says that under `Apart` what a handler has read of its
invoice is still so when it commits; with it each commit is a step of `Ledger`, the
sum of the receipts growing by the one inserted. That `Ledger` never overpays then
carries over (`Books`).

**SessionsProofs.** `SessionTypes` is for any number of overlapping requests. It
rests on `Types` (users hold roles that exist: a role is deleted only when nobody
holds it, and a user is not saved with a role that has gone meanwhile, the foreign
key in both directions) and on `Budget` (refresh tokens and the requests that may
still insert one fit the bound). The others are for requests one at a time
(`Alone`), as sections 5 and 7 show that overlap breaks them; each request still
fails at any statement, so what a half-done one left behind is what the invariants
are about.
`RotationLeavesOneToken`: between the successor's insert and the predecessor's
revocation a login has two live tokens, and if that revocation never comes the
login is `torn`. `LinksStaySingle`: a request about to insert a link has used up
those before it (`Links`). `AdministratorsRemain`: whoever edits an account is an
administrator other than it, or leaves it one (`Keepers`). `SuspensionIsFinal`: by
`Out`, no access token is newer than its user's row, a handler about to issue
tokens works for a user who is not suspended, and one about to save a suspended
row writes a version that kills what is out there. `ClosingIsComplete` follows
from the same.

**The desk.** `DeskProofs` has what the handlers share: who has allocated a number
holds the lock of its table, and whoever writes outside a transaction waits for it.
On this rest, with maintenance and the portfolio in `DeskProofs`, documents and
inbox in `BackofficeProofs`, `NumbersStayFree`, `NoStageSkipped`, `QualifiedWork`,
`CodesStayUnique`, `DownloadsAreOwn`, `ObjectsAreAccountedFor` and
`SettingsAreKept`. Each adds what a handler about to write still knows: a
transition, that the stages before its own were passed (`MaintenanceRemembers`); a
unit's insert, that the count is still the count (`PortfolioRemembers`); an upload,
that no row has its code and nobody else will write its key
(`DocumentsRemember`); a PUT of settings, that no insert still under way began
before the row it found (`SettingsInv`). Code uniqueness is arithmetic on two-digit
positions. `DeskTypes` puts these together, with two more: a slot that has answered
holds no lock (`IdleHandsAreEmpty`), and uploads done and under way fit the bound
that was looked at when they began (`UploadsFit`).

## 7. What is not modelled

* Reports over calendar months or costs: payment trends, lease expirations, the
  maintenance summary and the expenses side of income against expenses. Dates and
  costs are in no other model, since no guard reads them.
* Expiry of tokens (a token lives until something kills it; `purgeExpired` is
  called by nothing) and the text of mails, which are only logged.
* Which requests are audited, and the wording of entries; the texts of templates.
* The creation of the bucket at start and the idempotent seeding loop; what the
  seeders leave behind are the initial states.
* DTO validation and serialisation, configuration, health and module wiring.
* In the modelled components: names, contact details, rent and dates; the pool's
  limit on connections; and Postgres aborting a transaction for a deadlock (there is
  none to abort).

Overlapping requests are in every model but `Occupancy`, `Ledger`, `Reminders` and
`sessions`; what overlap does to these four is shown by the runs that expect a
violation, not exhaustively. Given two request slots, `sessions` also breaks
`OneLiveTokenPerLogin`: two refreshes that both find a token unspent
(`token.service.ts:142`) both get a successor.
