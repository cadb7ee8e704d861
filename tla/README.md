# Grehasoft PMS: TLA+ models

TLA+ modules, TLC configurations and TLAPS proofs for the back end of the
Grehasoft PMS (NestJS, Prisma, MySQL/MariaDB). All source paths below are
relative to `src/src/modules/` unless they start with `prisma/` or `core/`.

## 1. The system

One or more Node processes serve HTTP requests. A request handler is a sequence
of `await`s on the database, on files or on child processes; between two awaits
of one request any other request, of the same or another process, may run. Most
handlers read, check and then write without a transaction. Three use explicit
row locks (`SELECT ... FOR UPDATE`): invoice payments, asset renewals and domain
names. Two use MySQL's `GET_LOCK` with an in-process queue: receipt numbers and
company names. Backups run as background jobs of the process that received the
request. There is no message queue and no scheduler.

| Component | State | Operations | Interacts with | What makes it correct |
|---|---|---|---|---|
| Invoice money rules (`invoices/invoice-status.ts`) | none | rounding, balance, status, overdue, payment check, totals | every invoice screen, PDF and report | totals reconcile, dashboard and table agree |
| Invoices, items, payments (`invoices/`) | `invoices`, `invoice_items`, `invoice_payments` | create, update (with items and a payment), delete; payment create, edit, delete | clients; receipts | payments never grow beyond the total, never outlive the invoice; items match the subtotal |
| Receipt numbers (`invoice-payments.service.ts:77-236`) | `receipt_number`, an in-process queue, `GET_LOCK` | assign on first print | payments | written once, unique |
| Invoice numbers (`invoices.service.ts:82-139`) | `invoice_number` | next number | invoice creation | unique, increasing within a fiscal year |
| Backups (`backups/backups.service.ts:160-615, 1242-1352`) | `backup_records`, archives, work directories, `activeBackupProcesses` | generate, cancel, remove, the job | file system, `mysqldump` | every job settles, the registry is exact, COMPLETED has its archive |
| Restore and explorer (same file, 1355-2260) | extracted caches, the whole database | preview, full and category restore | backups (safety backup, archives) | a failed restore can be reverted, caches are whole |
| Asset renewals (`infrastructure/asset-renewals.service.ts`) | expiry dates, `asset_renewals`, idempotency and cycle keys | renew, record a failure, preview, history | reminders; edits of domains and servers | no cycle renewed twice, a retry is harmless, history explains the date |
| Domains and servers (`infrastructure/infrastructure.service.ts`) | `domains`, `servers` | create, edit, rename, delete | renewals, credentials | names unique, edits never undo a renewal |
| Reminders (`reminders/`) | `reminders`, links to assets | create, complete, delete; reviewed backfill of links | renewals | completed with the renewal of their own asset only |
| Tasks and progress (`tasks/`, `projects/services/`) | `tasks`, `milestones`, `projects` | write a task, recalculate milestone and project | members | progress follows the tasks once writes stop |
| Task reviews (`tasks/task-reviews.service.ts`) | `task_reviews` | create, edit, delete | files | an approved file is locked, versions are distinct |
| Clients (`projects/clients.service.ts`) | `clients`, portal users, company lock | create, update, portal account | users, leads | names unique |
| Leads, proposals (`crm/`, `proposals/`) | `leads`, `proposals` | convert to project | clients, projects | converted once, completely |
| Time tracking (`tracking/`) | `work_sessions`, `app_activities` | heartbeat, batch, logout | desktop tracker that retries | one active session per device, no time lost or counted twice |
| SEO work (`seo/`) | tasks, daily logs, timeline | submit, approve, reject, review | credentials | a task is completed only when its logs are approved |
| SEO reports (`seo-reports/`) | report status, PDF file | submit, approve, generate, publish, reopen | files | what is published was approved |
| Access control (`roles/`, `users/`, `core/guards/`) | roles, users | grant, assign, delete | all handlers | nobody delegates what they do not hold; no user on a deleted role |
| Credentials (`company-credentials/`, `website-credentials`, `core/credential-crypto`) | encrypted secrets, audit log | write, reveal, rotate keys | domains, SEO logs | every access audited with the write, rotation loses nothing |
| Expenses (`expenses/`) | expenses, categories, accounts | create, delete | invoices | no expense in a deleted category |
| HR, departments, templates, portal, reports, PDF, mail, authentication | rows, files | single statements or reads | - | nothing beyond the database's constraints |

Hard behaviour in this code: check-then-write without a lock; work spread over
several transactions; jobs that outlive their request and race with its
cancellation; retries (clients with idempotency keys, deadlock victims, the
desktop tracker); two in-process queues that several processes do not share.
`PROJECT.json` lists each hazard at its line, with the property that covers it
or the module that is planned for it.

## 2. Plan

Done, with what is proved in section 5:

1. Money: `InvoiceStatus`, `InvoiceTotals`, `InvoiceLedger` with the abstract
   `InvoiceAccount`, `Receipts`.
2. Backups: `BackupJobs`, `BackupRestore`.
3. Renewals: `AssetRenewals` with the abstract `RenewalBook`.
4. Time tracking: `WorkSessions`.
5. Projects: `ProjectWork`, `TaskFiles`.
6. Clients: `Onboarding`, `PortalAccounts`.
7. SEO: `SeoWork`, `SeoReports`.
8. Rights and secrets: `Access`, `CredentialVault`; what each user is shown:
   `ClientScope`, `SeoScopes`, `ProjectScopes`.
9. Two compositions: `Office`, `ClientServices`. The theorems about the modules
   they compose are stated of them.

Left, in this order: invoice numbers and expenses; names of domains and servers;
the reviewed backfill of reminder links. What a run checks of a state or of a
step is proved (section 5); what is left to prove comes with these modules.

## 3. Modules

**Conventions.** An action is the code between two awaits, together with the
effect of the await before it; an atomic database statement or a whole
transaction that holds no lock across an await is one action. `pc[r]` is the
statement request `r` executes next, `ctx[r]` what it keeps in local variables
across awaits; a slot is reused by later requests. A definition that comes just
before one it resembles (`UpdateUnlocked` before `Update`) is a plausible slip
in it; `PROJECT.json` pairs it with the property that detects it.

### InvoiceStatus, InvoiceTotals
Money is an integer number of tenths of a paisa, so that `toPaise` really
rounds. `InvoiceStatus` is `invoice-status.ts` operator by operator.
`InvoiceTotals` is the loop of `aggregateInvoiceFinancials` as `getAnalytics`
runs it: each invoice is formatted (`Shown`), its formatted rupees go through
`computeInvoiceFinancials` again (`Recomputed`), and the result is added up. The
sums of what the table shows are history variables.

### InvoiceLedger, InvoiceAccount, Sums
`live, total, advance, subtotal` are the invoice rows, `items` and `pay` the
rows that hang from them, `lock` the InnoDB row lock.

| Action | Code |
|---|---|
| `CreateInvoice` | `invoices.service.ts` 324-411, one transaction on rows nobody can see yet |
| `BeginUpdate`, `DeleteItems`, `AddItem`, `Update` | 413-541: read and compute, rewrite items outside any transaction, plain update |
| `Lock`, `Validate`, `Insert` | the payment transaction of 505-533, and of `invoice-payments.service.ts` 402-443 |
| `BeginPayment`, `BeginEdit`, `Rewrite` | 402-428, 445-481 |
| `BeginDeletePayment`, `DeletePayment`, `BeginDeleteInvoice`, `DeleteInvoice` | 483-494; 544-555 with the cascades of `prisma/schema.prisma` 988, 1003 |
| `Abort` | any request dies: rollback, the lock is freed |

`InvoiceAccount` is the promise: whole invoices change in single steps (open,
amend, receive, correct, take back, close), and what is received never grows
beyond what is billable. `RefinesAccount` maps `received` to the sum of the
payment rows. Abstracted: the tax column is part of the total, an item is its
amount, other columns are left out. An unchanged amount in a payment edit writes
no money and is not modelled further.

### BackupJobs
`status, message, filename` are the records, `archive` the storage directory by
file name (which job wrote it, and whether it is whole; `Mixed` when two jobs
write one file), `jobpc` the await each background job is at, `registered` and
`cancelled` the map `activeBackupProcesses`, `workDir` the directory in `tmp`.
The job is `JobStart, MarkRunning, Dump, Export, Lookup, Zip, Commit`, with
`DumpKilled`, `JobError` and `Fail` for its catch block and `End` for its
finally block (384-507); each check of `isCancelled` is a `Continue`.
Cancellation (512-566) and removal (1331-1352) are three and three steps.
`Crash` restarts the process: memory is lost, rows and files stay. `StartFails`
is a `mkdir` that throws before the `try` (386), `FailureLost` a failed update
in the catch block (500).

### BackupRestore
A restore, the explorer and the backup jobs share three things: `db`, the table
`backup_records` with its next id, which is itself part of every dump;
`archives`, the dump in each archive of the storage directory; and `cache`, the
dump unpacked for each backup. `jobs` are background jobs, `pc` and `ctx` the
requests.

| Action | Code (`backups.service.ts`) |
|---|---|
| `BeginGenerate`, `Check`, `Insert` | `generateBackup` 325-379, also as the safety backup of a restore |
| `MarkRunning`, `Dump`, `Zip`, `Commit`, `JobFails` | the job, 384-507, in fewer steps than in `BackupJobs` |
| `Explore`, `Open` with `Extract` | `ensureExtractedCache` 1361-1422 |
| `BeginRestore`, `CheckActive`, `Poll`, `GiveUp` | `executeRestore` 1860-1948 up to the completed safety backup |
| `ReplayRecords`, `ReplayRest`, `ReplayFails` | the replay of a dump, 1950-1980 and 2041-2073: the table of records first, the rest later or never |
| `RestoreRows` | a category restore, 2140-2234 |
| `Remove`, `Delete`, `Cancel`, `CancelWrite` | 1331-1352, 512-566 |

Left out: all of the database but the backup records, half-unpacked caches
(unpacking is one step), media files, and which rows a conflict strategy skips.
All backups are FULL_SYSTEM, and no two are made within one second, so that each
has its own file name; `BackupJobs` covers the others. `replaced` counts
replays, `discarded` holds the archives an administrator removed or cancelled,
`made` how many backups there were when a restore was requested: history, for
`SafetyFirst`. The property is promised until records have been replaced once.
After that ids are given out again, and a job from before the replay may complete
a record that is not its own.

### AssetRenewals, RenewalBook
`exists, expiry` are domains and servers, `history` the table `asset_renewals`,
`link, open` the reminders, `lock` the row lock of an asset. A renewal is
`BeginRenewal, Lookup, LockAsset, Check, Insert, Commit`; `Deadlock` is a victim
retried up to three times, `ReadRecorded` the answer after a duplicate
idempotency key. A transaction's rows are visible at `Commit` only, but its
inserted unique keys make other inserts wait. `BeginEdit` is `expiryWrite`,
`LockEdit`/`CommitEdit` the locked edit with its history row, `Overwrite` the
unlocked one. Dates are day numbers on a calendar of 31-day months, with real
month lengths, so that `addRenewalPeriod` really clamps. The period and the
caller's confirmation matter only in `Check` and are picked there.
`RenewalBook` is the promise: the date moves in one step with the row that says
why, and no date of an asset is renewed twice. Assets exist from the start and
reminder links change only when an asset is deleted.

### WorkSessions
`sessions` and `activities` are the two tracking tables of one user, in id
order, `now` the clock. Users share no rows, so one user is enough.

| Action | Code (`tracking.service.ts`) |
|---|---|
| `BeginPortal`, `FindDesktop`, `CloseDesktop` | `handleHeartbeat` of the portal: join the tracker's session or end a silent one |
| `BeginHeartbeat`, `ListOthers`, `CloseOther` | a tracker ends the sessions of the user's other devices |
| `FindOwn`, `Rollover`, `Create`, `Ping` | find, end after five silent minutes, create or prolong the device's own session |
| `Touch`, `Duplicate`, `Count`, `Last`, `Merge`, `Record` | live status, duplicate check, counters, activity rows |
| `BeginBatch`, `FindTarget`, `CreateTarget`, `PingTarget`, `Item`, `ReadTotal`, `WriteTotal` | `handleActivityBatchSync` |
| `BeginLogout`, `FindAny`, `Logout` | `handleLogout`: the latest active session, of whichever device |
| `Abort` | a request dies between two statements |

The productive, idle, mouse and key counters are read and written together, so
they are one number, and a report is one unit of it. The five minutes and the
two seconds are `Timeout` and `Tolerance`; a time stamp of the future counts as
the time of arrival (the sixty seconds the code tolerates are left out). Assumed
of the clients: a device waits for the answer to a request before it sends the
next; a tracker's heartbeat names an application, the portal's carries no
telemetry; batches come from trackers. When two requests of *one* device overlap
both can create a session, and a batch whose answer was lost can be counted
twice after a merge: see the hazards. `torn`, `latest` and `reports` are history
and bounds. Left out: the tracking switch, screenshots, reports (reads only).

### Receipts
`receipt` is the column, `queue` the promise chain of each process, `holder` the
`GET_LOCK` of an invoice, which belongs to a connection and outlives a request
that lost it. A request goes `Ask, Turn, Find, GetLock` or `GoOnWithout, Recheck,
Write, Release` (`invoice-payments.service.ts` 77-236); `Fail` is an error
anywhere, `LockStays` a release that reaches another connection.
`DeletePayment` and `RenameInvoice` may come in between. A number is the
invoice's base and a suffix. `by` remembers who wrote a number.

### ProjectWork, TaskFiles
One project: its row, milestones, tasks, assignments and members. A request
writes a row, then the assignments one by one, then runs the two recalculations
of `progress-aggregation.service.ts` statement by statement (`ReadMilestone,
StoreMilestone, ReadProject, StoreProject`). `disturbed` says during which requests another one acted; what
the code promises, it promises to undisturbed ones only.
`TaskFiles` is the upload: content (`Upload`), count of revisions (`Count`), row
(`Insert`), and the clean-up that only the failure of the last step runs
(`InsertFails`; after `CountFails` the content stays).

### Onboarding, PortalAccounts
Clients by the form (`clients.service.ts`, serialised by `companyLockPromise`)
and by the conversion of a lead or a proposal (`leads.service.ts`,
`proposals.service.ts`), where each write is an action and any may be the last
(`Fail`): `FindClient, MakeClient, LinkProposal, LinkLead, CreateProject,
MarkProposal, MarkLead`. `PortalAccounts` is one client's accounts and their
audit trail: a change is `Update`, its row is `Record`.

### SeoWork, SeoReports
Daily logs and SEO tasks with their decisions, and the life of a monthly report
with its PDF. A request reads and decides (`Begin...`, `Edit(r, u, l)`, `Decide`)
and writes later (`Update`, `Complete`, `Return`; `Submit`, `Approve`, `Publish`);
`Render` makes the file, `Mark` its row. `cleared` and
`approved` remember what a manager once approved. Two reports may share one file
name (`FileOf`), as company names are sanitized.

### Access
Roles, accounts and their permissions. A request is one step, as the delegation
rules are about what a sequence of requests may add up to. `given` and `passable`
are history: what an account got from super admins, and what anyone who may pass
on permissions got from them.

### CredentialVault
The five stores of passwords as records of one table that differ in their kind,
with the key each value is encrypted under, the audit trail, reveals in several
steps, cascades that delete records, and rotations of `CREDENTIAL_KEYS`.

### ClientScope, SeoScopes, ProjectScopes
Every scope filter of the lists, and every check on a single record, as an
operator over one row and what it belongs to. The two state machines only move
the row through every combination; the properties compare each list with the
check that guards the record, user by user.

### Office, ClientServices
The compositions. `Office` extends `InvoiceTotals` and instantiates `Receipts`,
`ProjectWork` (`Work`), `Access` (`Rights`), `Onboarding` for the form (`Forms`)
and `TaskFiles` (`Files`). `ClientServices` instantiates `SeoWork` (`Work`),
`SeoReports` (`Reports`), `CredentialVault` (`Vault`), `PortalAccounts`
(`Portal`), `Onboarding` for conversions (`Sales`), `SeoScopes` and
`ProjectScopes`. The components share no variable, so `part` picks in the
initial state the one that moves: a run is the union of the state spaces, not
their product, and nothing is lost, since no property relates two parts. The MC
modules give constants and symmetry only.

## 4. Runs

| Run | Bounds | Shows |
|---|---|---|
| Office | `InvoiceTotals`: 4 invoices, totals negative, zero, fractional, positive. `Receipts`: 2 processes, 2 payments, 2 requests. `ProjectWork`: 1 task, 2 milestones, 1 person, 2 requests. `Access`: 3 accounts, 2 roles, 3 permissions. `Onboarding` (form): 2 companies, 2 requests. `TaskFiles`: 3 uploads, 2 names | 8 properties, 818k states |
| ClientServices | `SeoWork`: 2 logs, 1 task, 2 requests. `SeoReports`: 2 reports that share a file. `CredentialVault`: 1 record of each kind, 2 keys. `PortalAccounts`: 1 account, 2 requests. `Onboarding` (conversions): 1 lead, 1 proposal. The scopes: every kind of user, 2 clients | 6 properties, 1.19M states |
| InvoiceLedger | 2 requests, 1 invoice, 2 payment rows | every safety property and the refinement of `InvoiceAccount`, 922k states |
| InvoiceLedgerItems | 1 request, 2 invoices, nothing aborts | counterexample, see section 6 |
| BackupJobs | 2 administrators, a full backup and then a category backup in the same second, errors, no restart, fair | `NothingLeftInTmp`, `CompletedHasArchive`, `EveryBackupSettles`, 696k states |
| BackupJobsCrash | 1 administrator, 2 backups of any kind, 2 seconds, restarts, lost failures | types, `RegistryMatchesJobs`, `EarlyCancelNeverCompletes` |
| BackupRestore | 2 requests, 2 backups | types, `SafetyFirst`, 1.3M states |
| BackupRestoreSafety | 1 request, 2 backups | counterexample, see section 6 |
| AssetRenewals | 2 requests, 1 asset, 2 keys, 1 reminder, 3 rows of history | every safety property but one and the refinement of `RenewalBook`, 439k states |
| AssetRenewalsLive | 2 requests, 2 assets that share 1 key, fair | `RetryIsHarmless`, `EveryRequestEnds`, 43k states |
| AssetRenewalsLegacy | clients that state no expected date | counterexample, see section 6 |
| WorkSessions | 2 requests at a time, 3 devices, 2 applications, 3 reports, 3 sessions, 2 instants | sessions and time, 554k states |

What the properties of the two compositions say (each is proved, section 5): a number that a receipt has is
overwritten only from another process, and only if one of the two went on
without the lock (`PrintedNumbersStay`); a request to a project that nobody
disturbs leaves the figures and assignments that the rows call for, whatever
earlier races left behind (`UndisturbedRequestTakesEffect`); what an account
holds came from a super admin, to it or to somebody who could pass it on
(`DelegationNeverEscalates`); no two active clients made by the form share a
name (`FormNamesStayUnique`); a row keeps its content, content without a row
belongs to an upload that runs or failed to count, and revisions differ unless
two uploads of a name raced (`RevisionsAreKept`); a log is approved only if a
manager has approved it (`NoSelfApproval`); a client sees no report, and no PDF
of one, that was never approved (`OnlyApprovedWorkIsPublished`); every secret
handed out has a row of its own, the trail names the last writer of each secret,
and every portal account has the rows of its creation and its deletion
(`AuditTrailsAreComplete`); what is stored can be decrypted after any rotation
that retires a key when nothing needs it (`StoredSecretsAreReadable`);
conversions that break off do not make a second client of one email
(`ConversionsFindTheirClient`, one request at a time); no list shows what the
single record refuses, nor the other way round (`ListsMatchAccess`).

**Why the bounds are enough.** The locks are per row, so one invoice or asset
has all the contention; a second one is there when something is shared, as the
idempotency key is in AssetRenewalsLive. Two requests interleave every pair of
handlers; a slot is reused, so a request also meets what several earlier ones
left behind. That more requests or more payment rows change nothing is what the
theorems of section 5 say, and the reason why they are stated for every value
of the constants. Two payment rows allow one to be inserted, edited or deleted
while the other exists. Values are chosen around the borders: amounts invalid,
below, at and above the balance; a renewal from 31 January, which ends on 28
February and still needs confirmation. Two backups in one second share a file
name; in two seconds they do not. Requests, administrators and keys are
interchangeable, which the symmetry sets of InvoiceLedger,
BackupRestore, AssetRenewals and WorkSessions (where trackers and applications
are too), Office and ClientServices use (in Office the objects of a component,
too: milestones, roles, companies, file names and payments); the properties of
these runs are about safety and single steps. Two
backups are the least a restore can do with: the one restored and its safety
backup. A second restore needs a third; that it changes nothing is proved. In WorkSessions a
timeout and a tolerance of zero make every pair of instants count: later is
silent, equal is a duplicate.

`CHECK_DEADLOCK FALSE` stands where the model may stop: in Office and
ClientServices the dashboard ends with its list and other parts with their last
client, log, report or upload; backups with `MaxBackups`, renewals with `MaxHistory` and with
their assets, trackers with `MaxReports`.

**Fairness.** `AssetRenewals` assumes strong fairness of each
request's next statement: Node executes what is ready, and InnoDB queues the
waiters of a row, so a statement that waits is served although the lock is taken
again and again by others. Nothing forces a request to be sent, a user to act or
a request to die. `BackupJobs` assumes weak fairness of each job: the event loop
runs what is due, child processes end, the database answers. It does not cover a
crash (the record then stays RUNNING for good, by the code), a job that fails before
its `try`, or a failure whose update fails too.

## 5. Proofs

Every invariant and action property that a passing run checks is a theorem, for
every value of the constants under the assumption of the module
(`MoneyAssumption`, `LedgerAssumption`, `BackupAssumption`, `RestoreAssumption`,
`RenewalAssumption`, `TrackingAssumption`; in `Office` `RightsAssumption`,
`ReceiptsAssumption`, `FilesAssumption`; in `ClientServices` `FilesAssumption`,
`VaultAssumption`, `SalesAssumption`). They say that amounts are numbers, that
the "none" values differ from real ones, that grants are sets of permissions,
and that there is room for a credential. TLC has checked each inductive
invariant on the run of its module before it was proved.

- **InvoiceLedgerProofs**: `TypeOK`, then `LockDiscipline`. The lock invariant
  needs that a request inside a transaction keeps its invoice in `ctx`.
  Then `AcceptedPaymentStillFits`, `PaymentsHaveInvoice`,
  `NoPaymentOverpays`. None is inductive alone. `MoneyInv` adds that recorded
  payments are positive, and what requests hold in their hands: the id of a row
  being inserted is unused and belongs to one request, a row being edited
  is gone or is a payment of the request's own invoice. Inside a transaction the lock keeps every other request
  from growing the payments or changing the invoice, while deletions of
  payments, which take no lock, only enlarge the balance. The sums
  come from **SumsProofs** (a sum changes by the change of one row, and is
  monotone), proved with the least counterexample, because the library's
  induction theorems take operators.
  It ends with the refinement: `LedgerImplementsAccount`, that `InvoiceLedger`
  implements `InvoiceAccount`. It adds to `MoneyInv` that deleted invoices
  have no total and no advance (`GoneIsZero`), and maps each statement:
  `CreateInvoice` opens an invoice, `Update` amends it, `Insert` receives a
  payment, `Rewrite` corrects one, `DeletePayment` takes one back,
  `DeleteInvoice` closes the invoice; what reads, locks, checks or aborts
  shows nothing of itself, nor does a write to a row that is gone by then.
- **BackupJobsProofs**: `TypeOK`, then `RegistryMatchesJobs` with `Unstarted`: ids
  not given out have no job, and a job that has not started is not cancelled.
  Without restarts, `NothingLeftInTmp`: a job may recreate the directory that its
  cancellation removed, but its last step is the `finally` block, and an id not
  given out has no directory. `EarlyCancelNeverCompletes`:
  a cancelled job that has not passed its last look at the flag is doomed, and
  stays so (`DoomedStays`), while only a job that is not doomed completes a
  record. Without restarts, `CompletedHasArchive` with `ArchiveInv`: the archive
  of a name that is not shared is the job's own when it is being written and
  whole from then on, until somebody cancels or removes the backup.
- **BackupRestoreProofs**: `TypeOK`, which needs that a dump, wherever it lies
  (in a job, an archive, a cache or a request's hands), has only records of
  backups that were made. Then `SafetyFirst` with `Inv`: while no record has been
  replaced, ids, jobs and file names count the same backups (`Aligned`), what
  has completed or is about to has its archive in storage unless it was
  discarded (`Stored`), and a request polls a backup later than it came
  (`Later`). `Aligned` is what a replay breaks, which is why the promise ends
  there.
- **AssetRenewalsProofs**: `TypeOK` (which needs that a renewal period takes a date
  to a later date, `PeriodMovesForward`) and `LockDiscipline`; then
  `AcceptedWritesStillFit`, `ReminderClosesWithItsRenewal` and `RetryIsHarmless`.
  `FitInv` adds to them what a request between its check and its commit may
  rely on: its asset exists, its key is recorded by nobody and is in nobody
  else's uncommitted row, its reminder is linked to its asset, and, with
  `KeysUnique`, no key is in two rows of history. Steps of others
  cannot disturb it because the lock keeps the asset and its date, and the unique
  indexes keep the key.
  `HistoryIsComplete` proves `HistoryExplainsExpiry` under one assumption, that
  every edit states the date it expects (`NotSent` is no expectation): the row a
  commit appends then starts from the date the last one left, because the lock
  kept that date since it was checked. Without the assumption it fails, which is
  what the run AssetRenewalsLegacy is about. `RenewalsKeepTheBook` is the
  refinement of `RenewalBook`: `Commit` renews or records a failed attempt,
  `CommitEdit` edits, `Overwrite` edits without a row (only when `NotSent` is an
  expectation), `DeleteAsset` removes, and every other step shows nothing.
- **WorkSessionsProofs**: the four properties of the run. Nothing is locked, so
  the argument is about whose row it is: a device has one request under way
  (`OneRequestPerDevice`), only the request of a session's own device writes its
  counters and activities, and what other devices write, pings and ends, touches
  neither. `Inv` says what each request knows at its statement (`Knows`): the
  session it found is its device's, the counter it read is still the counter, no
  duplicate came after it looked for one, and no other session of its device is
  active when it is about to create one. `OneActivePerDevice` and
  `EndedSessionsStayEnded` follow from it. `TimeAddsUp` needs what the two sides
  differ by while a report is half counted (`TimeInv`, `Ahead`): a heartbeat
  counts first, a batch last. `ResentHeartbeatCountsOnce` needs that the last
  answer is shown by an activity unless a batch is under way (`LatestInv`):
  what a heartbeat moves or records is at its own time, and becomes the last
  answer, while a batch may move that activity on, and its answer ends the claim.

- **OfficeProofs** and **ClientServicesProofs** first show that a behaviour of the
  composition is one of each component (`OfficeRunsRights`,
  `ServicesRunVault` and so on), and then prove about the component. Office:
  - *Dashboard* (`IInv`): the three invariants with the sign of the sums. The
    step is arithmetic on one invoice: rounding a whole paisa changes nothing,
    and paid - overpaid + balance = total.
  - *Rights* (`RightsInv`): whoever manages roles or users was given nothing
    that may not be passed on, so that what he passes on came from a super admin
    in the end. The step rests on `PassesOnItsOwn`: a change by a manager adds
    to what anybody holds only what he holds himself, and no credential
    permission (`assertCanGrant`, `assertCanAssignRole`).
  - *Form* (`FormsInv`): a request that saves is the first in the queue, and no
    other row of the form has the name it looked for. Nobody else can add one
    before it leaves the queue; conversions may, but promise nothing.
  - *Files* (`FilesInv`): an upload keeps content that no row and no other
    upload has; no revision exceeds the number of rows of its name, and
    revisions of a name rise with the rows except where an upload raced.
  - *Receipts* (`ReceiptsInv`): whoever is past its first look is the first of
    its process's queue, and if it got the lock of the invoice it still has it
    (`Waits`, `IsServed`, `HasLock`). A number that turns up between the second
    look and the write (`Looked`) therefore comes from another process, and not
    both had the lock: what `PrintedNumbersStay` says of every step.
  - *Projects* (`ProjectInv`): an undisturbed request is the only one that runs,
    and at each statement what it has done so far still holds (`SoFar`): the row
    is written, assignments outside the list still to do are as asked, the
    milestone has its figures, at last the project does.
- Client services:
  - *Reports* (`ReportsInv`): approval is remembered for every report that is
    locked, for what a request that renders, marks or publishes has read
    (`ReportKeeps`), and for the report that each file shows, also where
    reports share a file.
  - *SEO work* (`WorkInv`): a log that is approved, in the table or in the hands
    of a request that will write it back (`WorkKeeps`), was cleared by a manager.
  - *Credentials* (`VaultInv`): the trail only grows, and each change of a secret
    is one step with its row and with who set it (`Named`), while nobody has
    set a record that is not made yet; no key is retired while a value
    under it is stored.
  - *Portal accounts* (`PortalInv`): a request that is about to delete a login
    has found it and has written its row before, so whether the deletion
    succeeds or not the trail has it.
  - *Conversions* (`SalesInv`): when one request runs at a time, the email looked
    up is still free when the client is made, and a proposal is marked only
    with a project of the client it is linked to (`LookedUp`, `Linked`). What
    broken-off conversions left behind is covered: nothing is assumed of it.
    With two requests at a time it is false, which is a hazard in `PROJECT.json`.
  - *Scopes* (`ScopesTyped`): the row may be any row of its type; the rest is the
    definitions of the filters and of the checks, compared for every kind of user.

Model-checked only: liveness (`EveryBackupSettles`, `EveryRequestEnds`), as
fairness and `ENABLED` are outside TLAPS. Recursive definitions are functions or
avoided; no induction over data is proved beyond sums.

## 6. Where the code differs from its own words

1. *InvoiceLedgerItems*: items are rewritten before the transaction that
   validates the payment; a rejected payment does not roll them back
   (`invoices.service.ts` 483-497 against
   `invoice-payments.validation.spec.ts:210`).
2. *BackupRestoreSafety*: an administrator whose full restore failed is told that
   a safety backup exists to revert to (`backups.service.ts` 1977), but the dump
   that was replayed (1958) was made before the safety backup, so that its
   record is gone; only the file is left.
3. *AssetRenewalsLegacy*: the date just read is written back without the lock and
   undoes a renewal (`infrastructure.service.ts` 410, 419).

## 7. Not modelled

- Tokens, the cipher, PDF rendering, mail, spreadsheets and SQL text: data
  conversions, or input and output. That rendering takes time and may fail is
  part of `SeoReports`, that a key may be missing of `CredentialVault`.
- HR, departments, invoice templates, notifications: single statements on one
  table each.
- Invoice numbers and expenses: planned (section 2). Both are read and then
  written without a lock, so what could be promised is only that the unique key
  or the foreign key refuses.
- Reports and dashboards: reads that add up. Their scopes are in `SeoScopes` and
  `ProjectScopes`, their money rules in `InvoiceStatus`.
- Hazards without a property ("hazards" in `PROJECT.json`, with notes) are those
  the code does not prevent, so that nothing true can be stated about them:
  a crash leaves a backup RUNNING, two requests of one device create two
  sessions, two conversions at the same time create two clients, a completed SEO
  task can have a returned log beside it, two reports can share a PDF.

## 8. Running

    tlc -workers 2 -config InvoiceLedger.cfg MCInvoiceLedger
    tlapm InvoiceLedgerProofs.tla

`PROJECT.json` names the module of each run.
