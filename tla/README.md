# Verification of the factory rental system

TLA+ models, TLC runs and TLAPS proofs for the rental-management system of this
repository: a NestJS backend over PostgreSQL (`backend/src`), a Vue frontend
(`frontend/src`), a storage volume, and the scripts that back it up and update it.
One administrator uses it, from several browser tabs at once; there is one backend
process and one database at READ COMMITTED. What makes it hard is not scale but
interleaving: HTTP handlers that read before a transaction and write inside it, or that
have no transaction at all; a drain loop that renders PDFs in a child process for up to a
minute; files that no rollback restores; pages whose answers arrive in any order; and
restarts in the middle of all of it.

`PROJECT.json` maps every definition to the lines it models, and lists the runs,
mutants, findings, hazards and theorems.

## Inventory

| Component | State it keeps | Operations | What makes it correct | Modules |
|---|---|---|---|---|
| Contract document queue (`contracts/contract-document-queue.service.ts`, job entity, revision, renderer) and its cache | a job row per contract; `running`, `stopped` in memory; one child process; PDF files | enqueue, kick, drain, claim, render, publish, fail, status, generate, retry, start, stop | a PDF handed out was current during the request; a deleted contract leaves nothing; `ready` implies a file; every job settles | ContractDocuments, ContractDocumentQueue |
| Rent receivables and payments (`rent-receivables/*`, `rent-payments/*`) | schedule, payment and allocation rows | build and sync schedules, rebuild allocations, edit, create, move, remove | every cent is allocated or unallocated, first in, first out; due and paid periods are protected; no deadlock | RentSchedule, RentAllocation, RentLedger, RentLedgerTx |
| Views of the ledger (list rows, summaries, `rent-reconciliation/*`, the sums of `UNITS_PAGE_QUERY`) | none | read | all views agree | RentViews, RentReconciliation |
| Receipts (`receipts/*`) | receipt rows, PDF files, temporary directories | issue, void, list | one active receipt per source, gapless numbers, a page that states its source | ReceiptIssuing |
| Utility billing (`utilities/*`) | meters, records, items | prefill, save, mark paid, remove | a record's amount is the sum of its items; readings are billed once | UtilityBilling |
| Contracts, units, history (`contracts/*`, `units/*`) | contract and unit rows, meters, attachments, money history | create, update, attach, remove, check | leases of a unit do not overlap; a unit in use is not removed; history follows the money | ContractOccupancy |
| Deposits (`deposits/*`) | deposit rows | save, remove, accounts | accounts hold all the money; what they propose settles them | DepositAccounts |
| Stored files (`files/*`, `SignedContractUploadDialog.vue`) | files on the volume, rows | upload, register, attach, remove | no row without its file; files attached once | StoredFiles |
| Web update (`deployment/*`) | `starting`, `startFailure`; the updater's container | start, status; the script | one update at a time; success means deployed; the result shown is the last one's | DeploymentUpdate, AppShellUpdate |
| Backup (`scripts/backup.sh`, `verify-backup.sh`) | directories, lock, last success, a container | back up, verify, rotate | formal backups are verified; the last good one stays; every run ends | Backup |
| Login (`auth/*`, the store and the router) | accounts, a cookie, a store per tab | log in, log out, navigate | guarded pages need a user; tabs agree with the backend | Session |
| Units' page with the contract's dialog | list, detail, forms, uploads | page, open, save, remove | late answers never win; files stay with their contract | UnitsPage, ContractDialog, ContractDefaults |
| Document polling | poll timer, sequence numbers, downloads | poll, download, retry | downloads end; the state shown never goes back | DocumentPolling |
| Pages of utilities, payments, deposits, reconciliation | lists, dialogs, request numbers | load, save, upload, remove, print | lists end up current; vouchers stay with their record | UtilitiesPage, PaymentsPage, DepositsPage, ReconciliationPage |
| Amounts in capitals (`common/format/chinese-currency.ts`) | none | convert | the text reads as the amount | ChineseCurrency |
| Receipts' page, image publication, migrations' schema changes, PDF and DOCX layout, configuration, health, OpenAPI, the prototype `app.js` | | | not modelled, see the end | |

How they interact: the handlers of contracts enqueue documents, build instalments and
write history in one transaction, so ContractDocumentQueue, RentLedgerTx and
ContractOccupancy are three sides of it, each with the rows the others leave alone.
Payments and utility records are the sources of receipts: ReceiptIssuing has both sides of
that race. The pages' modules take the backend as what its answers say; what a request
does inside is in the backend's module.

## How the project is built

Every module stands for one component; RentLedgerTx implements RentLedger and
ContractDocumentQueue implements ContractDocuments by refinement. RentViews and
RentReconciliation extend RentLedger and compute over its states. Definitions called
`Mutant...` are plausible mistakes in the code: every conjunct of a property that a run
checks fails under one of them, and nothing else uses them.

MC modules instantiate the components. `MCPages`, `MCWaits`, `MCServer`, `MCContracts`,
`MCUtilities`, `MCRentLedger` and `MCRentTransactions` each hold several instances, of which
a behaviour is one: the variable `part` names it, and the variables of the others are a
value `"not in use"` (or stay as they are at first). Their properties say which instance
promises what; their assumptions are those of the instances. Where such a module extends a
component, that component's own constants are given in the .cfg. So are the bounds of an
instance that a theorem is about (`CopyRuns`, `RotationDays`, `OrderlyContracts`, `Leases`,
`MaxPicks`, ...), which then are constants of the MC module with the assumptions of the
component; the constants of the others are given in the instances.

An optional value is a set: `{}` is none, `{x}` is x. Amounts are cents or hundredths,
dates are numbers yyyymmdd or days counted from 1. A database transaction is one step when
nothing it reads can change before it commits, and is taken apart otherwise.

## Contract documents

`ContractDocuments` is the promise, without queue, worker, cache or lock: contracts and
the unit change, and whoever asks for a PDF is told a revision that was current at some
moment since the question, or nothing.

`ContractDocumentQueue` is the code. Its state is the database rows (`life`, `terms`,
`face`, `job`, `older` for the order of `updatedAt`), the cache directory (`files`), and
the process (`process`, `worker` for the drain loop with its local variables, `request`
for the handlers in flight). A handler or a stretch of the loop between two `await`s that
matter is one action:

| Code | Action |
|---|---|
| `POST`/`PUT /contracts`: read the unit; the transaction, then `kick()` | `BeginSave`; `CommitCreate`, `CommitUpdate` |
| `DELETE /contracts/:id`; the same, rolled back after the unlink | `Remove`, `RemoveRollsBack` |
| `PUT /units/:id` | `UpdateUnit` |
| `generate`, `status`, `retry` arrive | `Ask` |
| `ensureJob`: lock the contract, read the unit; enqueue, look for the file, commit | `EnsureLock`; `EnsureCommit` |
| `generate` reads the file; the answer leaves | `ReadCache`; `Answer` |
| `drain`: recover, findOne, claim, render, lock and check, rename, clean up, commit, catch | `Recover`, `Pick`, `Claim`, `Render`, `LockForPublish`, `WriteFile`, `CleanFiles`, `CommitPublish`, `RecordFailure` |
| `finally` of `kick`, the 2 s timer, `onModuleInit`, `onModuleDestroy` | `Leave`, `TimerKick`, `Restart`, `Stop` |

Decisions a reader should know:

- A revision is the pair of the contract's printed fields and the unit's printed fields:
  SHA-256 is taken to be injective. A cache file is named by its revision and holds the
  payload of that revision, so the two are identified.
- There is one unit. A move of a contract to another unit changes what `terms` and
  `face` together print, which the model covers by changing either.
- `job.payload` is stored with the revision by one `save`, so it is not a variable.
- A transaction is one step, taken when it has its last row lock; `ensureJob` and the
  saves are two because they read the unit outside the lock. A step that needs a lock
  waits for it as a guard (`ContractLocked`, `JobLocked`).
- The 10 s deadline and a database error of a request are `Answer`, which may happen at
  any time. The renderer's timeout is the failing outcome of `Render`.
- `Pick` takes any pending row that is not younger than another, since two rows
  recovered by one `UPDATE` share their `updatedAt`.

Failures are a constant, so that each run says which it allows:

| Fault | What happens |
|---|---|
| `crash` | the process dies; locks and transactions go |
| `stop` | `app.close()`: stopped, the render killed, and the process exits later |
| `db` | a query of the loop fails: `drain()` rejects |
| `disk` | the publishing transaction fails (file system or database) |
| `lock` | the publishing connection is dropped, its row lock with it, unnoticed |
| `unlink` | unlink errors, which the code ignores |
| `rollback` | the commit of `remove()` fails after its unlink |
| `loss` | a cache file disappears from the volume |

### Properties

- `ServedWasCurrent` and `RefinesDocuments`: no failure of any kind makes `generate()`
  hand out a PDF that was not current during the request.
- `CurrentFileKept` (the comment at `contract-document-queue.service.ts:209`): the loop
  never removes the file of the current revision. Needs the row lock to hold to the end
  of the clean-up: with `lock` it fails, and the next poll queues the render again.
- `DeletedLeavesNothing`: excludes `lock` (the loop may then publish a file after the
  delete) and `unlink`.
- `ReadyIsOnDisk`: excludes what removes files behind the queue's back (`loss`,
  `rollback`, and a clean-up without its lock). `ensureJob` repairs the row then.
- `ProcessingIsOwned` (the comment at line 175), `RenderedOnce`, `AttemptsKept`.
- `JobSettles`: every revision queued is ready, failed or superseded in the end.

Fairness is asked of the drain loop, of the timer, of the container's restart policy
(`restart: unless-stopped`) and of the exit after a shutdown. `setInterval`, a child that
is killed after 60 s and a single-threaded loop justify it. None is asked of users, so a
request may sleep for ever, and none of failures.

## Rent ledger

| Module | Code | What it is |
|---|---|---|
| `RentSchedule` | `rent-schedule.ts` | the instalments of a lease as a function of the lease |
| `RentAllocation` | `rent-allocation.ts`; migration `1712600000000`, lines 134-168 | `Allocate`, the loop; `PrefixSums`, the same in SQL for old rows |
| `RentLedger` | contracts, receivables and payments services | the requests, each as one step |
| `RentLedgerTx` | the same, with their locks | the requests taken apart, several at a time; implements `RentLedger` |
| `RentViews` | list rows, contract summaries, reconciliation, the units' page query (`UNITS_PAGE_QUERY`) | computations over the state of `RentLedger` |
| `RentReconciliation` | `rent-reconciliation.service.ts` | ledgers by tenant and year, periods and payments |

The state of the ledger is the rows: `lease` (the fields of a contract that shape its
instalments), `removed`, `schedules` (by contract and sequence number), `payments`,
`allocations` (by contract), with `today` in Shanghai and `used`, the payment ids given
out. Every request rebuilds the allocations of the contracts it touches in the same step,
as `rebuildPaymentAllocations` does at the end of each handler:

| Code | `RentLedger` | `RentLedgerTx` |
|---|---|---|
| `POST`/`PUT`/`DELETE /rent-payments` | `CreatePayment`, `UpdatePayment`, `RemovePayment` | `Begin...`: find the payment and its contract; `LockContract`: `lockContracts`, one row at a time; `LockPayment`: `FOR UPDATE` and `assertPaymentContractUnchanged`; `Read`; `Commit...` |
| `PUT /contracts/:id`, with `syncContractSchedules`; `DELETE` | `UpdateContract`, `RemoveContract` | `Begin...`, `LockContract`, `Read` (protection is checked here), `Commit...` |
| `POST /contracts` | `CreateContract` | `TxCreateContract`: the rows are new, nothing is read or locked |
| `PATCH /rent-receivables/:id` | `EditSchedule` | `BeginEdit`, `LockContract`, `Read`, `CommitEdit` |
| an exception; a lost connection | no step | `Refuse`; `Fail` |
| midnight | `Tomorrow` | `Midnight` |

Decisions a reader should know:

- Dates are numbers yyyymmdd, amounts are cents: `toCents` and `fromCents` are exact on
  the two-decimal numbers of the database.
- A handler reads the date inside its transaction and may commit after midnight. In
  `RentLedger` a request works with today or with the day before it (`AsOf`). Bound: no
  transaction lives through two midnights.
- The check for an active receipt is in ReceiptIssuing, so the ledger allows more changes
  of payments than the code. Everything shown here holds without it.
- An instalment is identified by its contract and sequence number. Where the code finds
  that the row it was asked to edit was replaced (a new id), the model may edit the
  replacement: it allows more.
- A transaction has no effect before its commit, and its reads are one step, `Read`: all
  the rows it reads belong to contracts whose rows it has locked by then, and no request
  writes a row of a contract it has not locked. `SeenIsCurrent` is that argument, and it
  is proved.
- The database's lock waits are guards (`ContractFree`, `PaymentFree`). `FOR UPDATE`
  looks at a row again after waiting for it, so a contract deleted meanwhile is refused.
- `removed` contracts keep their rows. In `RentViews` one tenant has all contracts;
  `RentReconciliation` lets every contract name its tenant, a blank name included.
- The loads of a reconciliation are taken at one moment. Active receipts, the search
  inside a name, the order of lists and the layout of the PDF are left out.

### Properties

- `AllocationsAreFifo`: the allocations that any history of requests leaves are those of
  the prefix sums. `RentAllocation` has the loop as the code has it (`InOrder` sorts, `Meet`
  hands over, `Spend` and `Settle` are the two loops, as recursive functions) and the
  reference as the migration has it: payments and instalments laid end to end on one line
  of cents (`PaidBefore`, `DueBefore`), a payment paying for what it overlaps (`Overlap`).
  It includes `AllocationsFollowRows`: no request forgets a contract whose rows it changed.
- `PeriodsFollowLease`, `ClosedRowsKept`: what `syncContractSchedules` and `update()` keep,
  replace and refuse leaves the periods those of the lease and never touches an instalment
  that is paid or was due before the last midnight.
- `FiguresAgree`: the pages show the same figures (`ViewsAgree`); in the summary of a
  contract every cent received and every cent due is shown once, the code's `max(_, 0)`
  hide nothing (`CentsConserved`), and no credit stands beside an instalment that is
  overdue (`ArrearsExcludeCredit`).
- `TenantsAgree`: the reconciliation of a tenant says the same in all its ways, whatever
  names the contracts have. The ledgers of the years add up to that of all years
  (`LedgersOfYearsAddUp`), a status says what its periods say (`StatusOfPeriods`), the lines
  of a payment are all of its money (`LinesAddUp`), and what the list shows can be opened
  (`ListHasDetails`).
- `PeriodsTileLease`, `AnniversaryKept`, `YearsAddUp`, `ExtensionKeepsPeriods`: the
  calendar, against one that only knows the day after a day.
- `SeenIsCurrent`, `ImplementsLedger`: whatever the interleaving, transactions act as whole
  requests, so everything shown of `RentLedger` holds of them.
- `TransactionsEnd`: no deadlock and no starvation. With the refinement it is the
  `CrossingsHold` of `MCRentTransactions`.

`TransactionsEnd` assumes strong fairness of a transaction's steps: PostgreSQL queues the
waiters of a row and grants its lock in turn, so a transaction whose lock is free again
and again gets it. No fairness is asked of the users, and `Fail` is never needed to make
progress. Two contracts and two payments are the smallest instance in which the order of
the locks matters.

## Receipts

`ReceiptIssuing` takes `ReceiptsService.create` apart at every await: nothing is locked
between the lookup of the source and the insert of the row, and a PDF is printed meanwhile.

| Code | Action |
|---|---|
| find the payment or record, refuse an unpaid or removed one | `Resolve` |
| look for an active receipt; count the receipts of the day | `CheckDuplicate`; `TakeNumber` |
| `mkdir`, the template, the conversion, an exception and the fallback page | `MakeDirectory`, `WriteDocx`, `ConvertDocx`, `TemplateFails`, `PrintFallback` |
| store the PDF, remove the directory, insert the row (the number is unique) | `RegisterFile`, `RemoveDirectory`, `SaveReceipt` |
| `void()` | `VoidReceipt` |
| a payment or record is created, changed (checked, then committed), paid | `CreateSource`, `ClearChange`, `CommitChange`, `ChangeFails`, `MarkPaid` |
| the process dies | `Crash`: handlers go, directories and rows stay |

A receipt number is the pair of a day and a number; a printed page is the number, the
source and the amount it was printed from, so that a page in the wrong directory shows.
`Separate` names what two requests in flight never share. With `{"source"}` the rows are
right (`OneActivePerSource`, `ReceiptMatchesSource`); with `{"source", "day"}` the files are
too (`PdfIsItsOwn`), after failed templates, failed uploads and directories a crash left.
`ReceiptsHold` says the three under those conditions.
`NumbersGapless` needs neither. What the code allows without these conditions is told
below; the run `receipt_twice` shows one case. What is left out: the words on the page; `list()`, which only reads.

## Utility billing

`UtilityBilling` has one unit, one type of meter and one contract, whose price and loss may
change. No handler opens a transaction of its own: `DeleteItems` and `SaveUpdate` of an
update, `Pay` (reads the row) and `SavePayment` (writes all of it back) are steps that
other tabs' steps come between. `save()` inserts the items the database lacks and fails on
items the entity does not know; `RequestFails` and `Crash` stop a request anywhere.

- `ItemsMatchAmount`: the items of a record add up to its amount or are all gone, whatever
  two updates, a payment and a removal do to each other. `PaidHasDate` likewise.
- `ReadingsChain`: what a meter counts is billed once. Holds for readings entered through
  the prefilled form in one tab, dated today, when only the newest record is edited
  (`Orderly`): the form is free to send anything else, and the backend takes it.
- `BillsConsistent` is the three, the last for an orderly tab. `VouchersKept` does not hold: a payment that sends no vouchers
  writes back those it read.

Bounds: one meter, readings of three values with a multiplier, three records over two days,
`MaxSaves` sets of items. The receipts that forbid a change are in ReceiptIssuing.

## Contracts and units

`ContractOccupancy` has the rows of units, meters and contracts, the attachments and the
history of the rent (which stands for all six amounts). The checks are steps of their own
before the write they guard: `CreateUnit` and `InsertUnit`, `FindUnit`, `CheckCode` and
`UpdateUnit`, `CountContracts`, `CountMeters` and `DeleteUnit`, `SubmitNew` or `SubmitForm`,
`CheckRange` and `InsertContract` or `UpdateContract`, `CreateMeter` and `InsertMeter`.
`AddAttachments` and `RemoveContract` work under the contract's row lock and are one step.

- With `Apart`, no two requests about one unit are under way at once, and requests about two
  units are, in any interleaving: leases do not overlap (`LeasesApart`) and a removed unit
  has nothing (`RemovedUnitEmpty`), over edits that move a contract to another unit. A
  request that moves a contract is about both units. Without `Apart` both fail: the checks
  are not repeated inside the transaction, and no row of the unit is locked.
- Without any such condition, `CodesUnique` holds by the unique index, which also covers
  removed units that an update may bring back, and `HistoryFollowsRent` by the transaction.
- `StatusesAgree`: the list of all units (TypeScript) and the page (SQL) give a unit one
  status. It needs leases that lie apart; of overlapping ones either may be picked.
- `RowsAgree` is all of it, the first and the third with `Apart`. `AttachmentsKept` does not hold: an edit saves the list
  of files its form was opened with.

Bounds of the orderly part: two units with a code each, two contracts, one meter, two
clients, three days, three leases: the second overlaps each of the other two on one day, and
the third begins on the day after the first one's end.
Both units get their rows, so contracts are signed, moved and removed on one while a request
is at work on the other. A move has both units to itself here; one beside a request about a
third unit is covered by the theorems (`UnitsInTurnAgree`, `OrderlyUnitsAlwaysHold`) only.
Location and area are left out.

## Stored files

`StoredFiles` has the dialog for signed copies in two browsers, its uploads one by one
(`WriteFile`, then `InsertRow`), the attaching (`CheckFiles`, then `AddAttachments` under
the contract's lock), and the removal of the contract or of a file in between. A request
may fail at each step or lose its answer; the dialog keeps what was stored and the user
saves again. `RowsHaveFiles`, `AttachedOnce`, `SavedIsAttached` and `AttachmentsKept` hold;
a file without a row may be left behind, and nothing refers to it. Bounds: three files, one
of them unfit, a limit of two per dialog (ten in the code), two failures.

## Deposits

In `DepositAccounts` a save reads its record and its contract and writes later, while
contracts are renamed, moved and removed. Blanks around names matter, so `Trim` is given as
a function on a few names. `SnapshotWasTrue`: a record names a unit and a tenant its
contract had together. `NoMoneyLost`, `AccountIsOfList`: accounts are the records grouped
once. `ProposalSettles`: booking what an account proposes makes it ask for nothing more.

A reader should know: a contract that is renamed takes its old records to another account
when they are edited, not before; `listAccounts` reads contracts and records by two queries,
taken as one moment; TypeORM's `save` of a row removed meanwhile may bring it back, which
`RemovedStays` allows to a save that had read it.

## Web update

`DeploymentUpdate` has `startUpdate()` with every call to Docker as a step (inspect, read
the release, pull, remove, create, start), the container with the script's steps (pull,
back up, replace each service, wait for health and versions), the restart of the backend by
its own update, crashes, and calls that time out but take effect later (`late`). Updating is
taken as enabled and the backup as configured; `getStatus` is atomic here.

`SuccessIsDeployed`, `BackedUpUpgrades`, `StartEnds` and `UpdateEnds` hold whatever fails.
`RunningIsNotRemoved` and `LastResultCounts` hold when Docker answers every call that starts
a container (`StartsAnswer`), and fail otherwise. Fairness: every
call of a start and every step of the script ends, fails or times out (all have time-outs in
the code); no service need become healthy.

## Backup

`Backup` has runs of `backup.sh` (any number of starts, by schedule or by an update) beside
an application that stores and removes files. A run takes the lock, dumps, archives, seals,
restores into an isolated container (`verify-backup.sh` as one of its processes), renames
its directory, records the success and rotates. Any step may fail, hang, be sent TERM (the
trap is a step of its own) or KILL; Docker may make the container after the client timed
out; damage may hit a file before the checks that would notice it.

- `FormalIsVerified`: what is renamed was complete and verified. The dump is one moment and
  the archive is not: of files stored or removed meanwhile, one without a row passes the
  verification, and a row without its file fails it.
- `OneAtATime`, `LeftoversAreKnown` (containers are removed or reported), `OthersAreKept`
  (rotation removes only old verified backups), `NeverWithoutBackup`, `LastSuccessIsThere`.
- `BackupEnds`: fairness is asked only of `timeout`, which sends its signals in time.
- `FailureKeepsLastSuccess` and `FormalIsWhole` do not hold of the rotation.

Bounds: budgets are at most a day, so a run sees at most one midnight; damage after the
checks is not noticed and not modelled. Settings, a verification started by hand and a host
that loses power are left out.

## Login

`Session` has two tabs with one cookie: accounts that are replaced, tokens that expire,
requests that fail, the store's one question (`/auth/me`) at the first page, the router's
guard and the redirect after a login. `GuardedNeedsUser`, `LoginReturns`, `FirstPageShown`;
`FreshTabAgrees` only of tabs opened since the session last changed: an expired session
does not redirect by itself. A second navigation while the first page loads is left out, as
are passwords and the limit of logins per minute.

## Amounts in capitals

`ChineseCurrency` is `toChineseCurrencyUppercase` over sections of four digits. A reference
reader (`Reading`) reads a text as a clerk would: `ReadsBack` says the amount survives,
`ZerosAreSingle` that no two 零 follow each other. `NoZeroInFront` fails: the sign for a gap
stands before the digit that ends it instead of behind its unit. TLC's integers limit the
highest section to 20 (amounts of up to 20 亿); all patterns of zeros are taken in two
sections. Rounding a floating number to cents is left out.

## The pages

The pages' modules have one browser (Session and StoredFiles have several tabs or browsers)
and a user who may click at any time what the page lets him click. A request is a record in
a set: it is made, handled by the backend, answered; answers arrive in any order, and with
faults allowed a request may fail before or after it was handled. Steps between two `await`s
are atomic, as the event loop makes them. A user who is `Patient` leaves a dialog alone
while it is saved: the dialogs do not force that, and some parts of the runs have a user who
is not. `PaymentsPage` has no such constant: its user opens and closes what he likes, and the
pictures during whose upload a dialog was opened again are recorded (`strayed`). Clicks, faults and changes from elsewhere are bounded by constants.

| Module | Code | State | What is abstracted |
|---|---|---|---|
| `UnitsPage` | the list and the detail of `UnitsView.vue`, `UnitsService.list` | units alive, a clock of changes, page, size, shown items, detail, calls | an answer carries the clock it was read at; filters and columns |
| `ContractDialog` | `saveContract`, `saveUnit`, the dialogs' forms and uploads | contracts, the two forms, saves under way | a draft stands for the text and the files of one opened dialog |
| `ContractDefaults` | dates, penalty, manager the form fills in; `rent-schedule-preview.ts` | the newest contract, the form, which fields were typed | one party for both |
| `DocumentPolling` | `useContractDocuments.ts` | document on the server, state shown, downloads that wait, timer, calls | the backend is waiting, generating, ready or failed |
| `UtilitiesPage` | `UtilitiesView.vue` | records, list, the two dialogs, calls | UtilityBilling's inside |
| `PaymentsPage` | `RentPaymentsView.vue`, `PaymentVoucherUpload.vue` | payments, list, numbered loads, dialog, save; history: `picked`, `strayed` | RentLedger's inside |
| `DepositsPage` | `DepositsView.vue`, the lists it asks for | contracts (signed, moved and removed elsewhere), deposits, two lists per load, dialog, save; history: `had` | amounts, notes |
| `ReconciliationPage` | `RentReconciliationView.vue` | filters, list, detail, PDFs, one sequence per kind of request | a reconciliation has an age |
| `AppShellUpdate` | the version dialog of `AppShell.vue` | dialog, status request, timer, start | DeploymentUpdate's inside |

Properties:

- Late answers: `QuietPageIsShown`, `ListFollowsOwnChanges`, `DetailNeverGoesBack`,
  `QuietListIsCurrent`, `QuietListsAreCurrent`, `DetailIsOfSelected`, `ListNeverGrowsOld`,
  `PdfIsOfDetail` (the PDF is asked for by the filter's year and not by the detail's),
  `ShownNeverGoesBack`. The utilities page numbers nothing: `ShowsChosenContract` fails.
- Forms that change while they are saved: `SavedAsSubmitted`, `FirstContractOnItsUnit`,
  `RecordsConsistent`, `VouchersOfTheirRecord` hold; for a user who is not patient
  `FilesUnderTheirContract` fails. Two hold under a condition that they state:
  `VouchersOfTheirPayment` of the pictures that did not stray, since the form is read again
  after the upload; `SavedUnderItsUnit` says that the unit a dialog showed and the unit its
  deposit is saved under were both units of the contract, hence one unit unless the contract
  was moved between them: the backend takes the contract's unit of that moment, and the
  dialog of an old record shows the unit of the record. Without these conditions both fail
  (see the table below).
- Once only: `OneContractPerForm`, `PaysOnce`, `SavesOnce`.
- What is followed: `DownloadsArePolled`, `DownloadsEnd`, `FollowedIsPolled`, and
  `NothingAfterLeaving`. `VisibleIsShown` fails after a click that fails; `ResultIsShown`
  holds unless a status read before a start is answered after it (`Overlaps`).
- What the form fills in: `DefaultLeaseIsOneInstalment`, `RenewalFollows`,
  `PreviewAgrees` (against `RentSchedule`), `PenaltyFollowsRent`, `SavedManagerKept`;
  `ManualManagerKept` fails.
- `SpinnerEnds`, `DialogComesBack`: liveness.

Fairness: the backend answers, be it with an error, and the browser handles every answer
and fires its timers. Polls may overtake each other when each takes longer than the 2 s
between them; `DownloadsEnd` assumes that this does not go on for ever (strong fairness).
Nothing is assumed of users.

## Runs

| Run | Module | Instance | Properties |
|---|---|---|---|
| `queue_safety` | MCContractDocumentQueue | 1 contract, 2 values of its fields, 2 of the unit's, 2 requests, one failure of `crash`, `stop`, `db`, `disk` | `TypeOK`, `FilesFollowRows` (`DeletedLeavesNothing`, `ReadyIsOnDisk`), `CurrentFileKept`, `RendersCounted` (`RenderedOnce`, `AttemptsKept`) |
| `queue_faults` | MCContractDocumentQueue | all eight failures, two of them in one behaviour, the unit fixed | `ServedWasCurrent`, `RefinesDocuments` |
| `queue_liveness` | MCContractDocumentQueue | 2 contracts, 2 values, 1 request, one failure of `crash`, `stop`, `db` | `ProcessingIsOwned`, `JobSettles` |
| `rent_ledger` | MCRentLedger | four parts, below | `TypeOK`, `PeriodsFollowLease`, `AllocationsAreFifo`, `FiguresAgree`, `TenantsAgree`, `ClosedRowsKept`, `CalendarHolds` |
| `rent_tx_payments` | MCRentLedgerTx | 2 transactions, 2 contracts of one instalment or two, 1 payment, 2 days | `SeenIsCurrent`, `ImplementsLedger` |
| `rent_tx_contracts` | MCRentTransactions | two parts | `ImplementsLedger`, `CrossingsHold` |
| `contracts` | MCContracts | five parts | `RowsAgree`, `OrderlyUnitsHold`, `UploadsHold`, `DepositsHold` |
| `utilities` | MCUtilities | two parts | `BillsConsistent`, `ReadingsOfBillsChain` |
| `server` | MCServer | six parts | `NumbersGapless`, `ReceiptsHold`, `PrintedRight`, `BackupsHold`, `UpdatesCount` |
| `pages` | MCPages | eleven parts | `LateAnswersLose`, `SavedAsShown`, `FilledInRight`, `DownloadsArePolled`, `VouchersStay` |
| `waits` | MCWaits | eight parts, with fairness | `PageWaitsEnd`, `ServerWorkEnds`, `OwnChangesHold`, `SessionHolds`, `UpdatesHold` |
| `receipt_twice` | ReceiptIssuing | one payment, two requests with different days of issue | `OneActivePerSource`, which fails |

One contract is enough for everything that relates a row of the queue to its own files and
requests; two values let an edit be undone (A, B, A) while a render of A runs; two requests
let a save race a poll, and two polls race.

The properties of the other runs are conjunctions of those of the modules, by part:

| Part | What it has | What it shows |
|---|---|---|
| `instalments` (rent_ledger) | 1 contract, 3 leases (one or two years, three halves with an odd cent), 2 payments, 3 days, early and late dates, amounts above and below an instalment | the properties of one contract's rows: reordered due dates, prepaid and overpaid instalments, leases made longer and shorter around them |
| `moves` | 2 contracts of two instalments, 2 payments, one day | payments moved between contracts, figures of several contracts |
| `tenants` | 2 contracts of one tenant or two, one of them unnamed | `TenantsAgree` of tenants with several contracts and years |
| `calendar` | leases from six first days (month ends, a leap day, ordinary days), of every length to April 2026, with an even and an odd rent, whole and half years | the calendar properties, an extension by one day at a time included |
| `extended` (rent_tx_contracts) | 1 contract, leases of one half and of two, 2 payments, a day before and one after the second falls due | every interleaving of changes of the lease, edits and payments of one contract, across midnight |
| `crossing` | 2 contracts, 2 payments | payments that cross between them leave what some order leaves, and every transaction ends |
| `mixed` (contracts) | 2 units, 2 codes, 1 meter, 1 contract, 2 clients | `CodesUnique`, `HistoryFollowsRent` with requests about one unit in any interleaving |
| `orderly` | 2 units with a code each, 2 contracts that move between them, 3 leases, 3 days, 2 clients, at most one to a unit | `LeasesApart`, `RemovedUnitEmpty`, `StatusesAgree` |
| `uploading` | 2 browsers, 3 files of which one is unfit, one failure | `RowsHaveFiles`, `AttachedOnce`, `SavedIsAttached`, `AttachmentsKept` |
| `accounts` | any two contracts, names with blanks around them, records of both kinds | `NoMoneyLost`, `AccountIsOfList`, `ProposalSettles` |
| `edited` | one record, two saves, two changes of its contracts | `SnapshotWasTrue`, `RemovedStays` |
| `rows` (utilities) | 1 record, 2 tabs, a crash | updates, payments and the removal of one record interleave at every await |
| `readings` | 3 records, one orderly tab, 2 days | `ReadingsChain` |
| `receipts` (server) | a payment and a record, two amounts, 2 requests not about one source, templates that fail | `NumbersGapless`, and of `ReceiptsHold` `OneActivePerSource`, `ReceiptMatchesSource` |
| `printing` | the same over 2 days, not of one day, with crashes and failed uploads | `PdfIsItsOwn` |
| `words` | every pattern of zero digits in two sections, four highest sections, four pairs of decimals, both signs | `ReadsBack`, `ZerosAreSingle` |
| `copying` | 2 runs, one file stored and removed meanwhile, one failed step, damage or kill | `FormalIsVerified`, `OneAtATime`, `LeftoversAreKnown` |
| `rotation` | 3 runs over three days, interrupted anywhere | `LastSuccessIsThere`, `OthersAreKept`, `NeverWithoutBackup` |
| `update` | 3 attempts, 2 releases, 3 failures, Docker answers each start of a container | `LastResultCounts`, `RunningIsNotRemoved` |
| `unit` (pages) | the open unit, 3 clicks, one write | `DetailNeverGoesBack` |
| `patient`, `hasty` | the contract's and the unit's dialog, 2 drafts; a user who waits for each save, and one who does not | `SavedAsSubmitted`, `OneContractPerForm`; `FirstContractOnItsUnit` |
| `dates`, `terms` | first days at month ends and on leap days; rents with a remainder, three names | `DefaultLeaseIsOneInstalment`, `RenewalFollows`, `PreviewAgrees`; `PenaltyFollowsRent`, `SavedManagerKept` |
| `polling` | one document, 4 clicks, one fault | `DownloadsArePolled`, `NothingAfterLeaving`, `ShownNeverGoesBack` |
| `charges`, `failing` | 2 utility records; 5 clicks without, 3 with a fault | `RecordsConsistent`, `PaysOnce`, `VouchersOfTheirRecord` (the first) |
| `payments` | 2 payments, 5 clicks, dialogs closed and opened during uploads | `QuietListIsCurrent`, `VouchersOfTheirPayment` |
| `ledger` | 2 tenants, 2 years, 4 clicks, one fault | `DetailIsOfSelected`, `PdfIsOfDetail`, `ListNeverGrowsOld`, `NothingAfterLeaving` |
| `deposits` | 2 units, 2 contracts, 3 clicks of a patient user, a contract signed, moved or removed elsewhere | `QuietListsAreCurrent`, `SavedUnderItsUnit` |
| `unit`, `payments`, `deposits`, `polling` (waits) | lists and dialogs with a fault, users who do not wait | `SpinnerEnds`, `DialogComesBack`, `DownloadsEnd`; `QuietPageIsShown`, `ListFollowsOwnChanges`, `SavesOnce` |
| `session` | 2 tabs, one cookie, 2 accounts, 4 clicks, one fault | `FirstPageShown`, `FreshTabAgrees`, `GuardedNeedsUser`, `LoginReturns` |
| `shell` | the version dialog, 4 clicks, 2 faults, no overlap of a status with a start | `ResultIsShown`, `FollowedIsPolled`, `NothingAfterLeaving` |
| `update` | as above, and starts that time out and take effect later | `StartEnds`, `UpdateEnds`, `SuccessIsDeployed`, `BackedUpUpgrades` |
| `backup` | 2 runs, whatever step hangs | `BackupEnds` |

Bounds of the queue: `MaxFaults` failures in a behaviour; `MaxAttempts`, above which the model's user
stops retrying a failed render. Each failure leaves the queue in a state that a poll or
the start of the next drain repairs, so two of them cover a failure during a repair.
Symmetry (requests, field values, contracts, clients, slots) is used in safety runs only.

Bounds of the ledger: the sets of the constants. Ids are given out once, as in the
database, so that payments run out; the last day is followed by none. Two payments and
two or three instalments let a payment span instalments and an instalment be paid by two;
dates before and after the due dates let either be first.

Bounds elsewhere are named with their modules; those of the pages are the clicks of a user
(three to five), the requests that fail (none to two) and one change from elsewhere:
enough for two loads or saves to overlap with a third answer late, a dialog to be closed
and opened again while it is saved, and a fault in any of them. Requests in flight of the
backend's modules are two or three: every race found or excluded is one of two writers and
what both read.

Deadlock is checked in the runs of the queue and of transactions, where somebody always has
to go on. Elsewhere it is off, because the system may really stop: clicks, ids, days or
faults are used up and nothing is under way, or every contract is removed. That nobody waits
for ever is stated there as liveness where the code has waits: `PageWaitsEnd` says that
there is a time when nothing is waited for (which the modules say one by one: `SpinnerEnds`,
`DialogComesBack`, `DownloadsEnd`, `FirstPageShown`, `ResultIsShown`), and `ServerWorkEnds` is
`StartEnds`, `UpdateEnds` and `BackupEnds`.

## Proofs

`ContractDocumentQueueProofs` proves, for every number of contracts, values, requests
and failures, without assumptions other than those on the constants:

- `RowsCorrect`: the inductive invariant `RowInv`. Types alone are not inductive:
  `Claim` and `CommitPublish` write into a row that must still be there, and why it is
  there needs the lock: while it lasts the row is the one the loop claimed (`LockHeld`).
  `TypeCorrect` follows.
- `DiskInvariant` adds what is on disk: a ready row has its file, a row being committed
  has its file, and a contract that is not live has neither row nor file.
  `ProcessingIsOwnedHolds`, `DeletedLeavesNothingHolds`, `ReadyIsOnDiskHolds` and the
  action property `CurrentFileKeptHolds` follow.
- `RendersAlwaysCounted`: the two action properties `RenderedOnce` and `AttemptsKept`. The
  loop writes back the attempts it read before it claims; `CountInv` says that they are not
  behind the row's as long as the row names the revision it picked, whatever is saved,
  retried or edited there and back in between (`RequestCounts`, `OtherCounts`).
- `SeenInvariant` adds that what a request holds (the unit it read, the revision it is
  about to deliver) is among the revisions it may be told. `ServedWasCurrentHolds` follows.
- `ImplementsDocuments`: the refinement, one lemma per action that an asker can notice.

Only model-checked there: `JobSettles`, which needs fairness and ENABLED and is out of the
prover's reach.

`RentLedgerProofs` proves of `RentLedger`, for all sets of contracts, leases, payments,
days, dates and amounts (`LedgerConstants`: ids are integers, leases have integer dates and
a natural rent, zero stands for a field not sent):

- `LedgerTypes`; on it rest the others.
- `AllocationsAlwaysFollowRows`: inductive given the types. The lemma `RebuildSuffices`
  says when a request keeps it: it must rebuild every contract whose instalments or
  payments it changes; per request it remains to show that those are all
  (`PaymentsOfPut`, `PaymentsOfDrop`).
- `PeriodsAlwaysFollowLease` and `ClosedRowsAlwaysKept`, from `SyncAccepted`, `Synced` and
  `Edited`.

It also proves that any number of transactions implement `RentLedger`
(`TransactionsImplementLedger`), with `ContractsOrdered` (contract ids are integers) as
the only further assumption. The inductive invariant `TxInv` says that

- locks are exclusive (`Exclusive`), and locked contracts with those still waited for are
  the contracts of the request (`Sound`), so a transaction that reads or writes holds all;
- a payment that was checked under its contract's lock stays in that contract;
- what a transaction read is in force (`Current`), and what it accepted it would accept now;
- the ids of payments being created are new (`Fresh`).

Two facts carry the induction: every commit is a whole request (`Commit...Implements`),
and a whole request changes nothing outside its contracts (`PaymentRequestFrame`,
`ContractRequestFrame`), so that it leaves every other transaction's reads in force.
`SeenStaysCurrent` follows, and `LedgerSurvivesTransactions` carries the theorems about
`RentLedger` over to the transactions.

`AllocatesByPrefixSums` is the allocation itself: for all instalments and payments the
loop and the prefix sums give the same rows. The library's induction theorems cannot be
used here, because they take an operator; what stands in for them is the least
counterexample: a set of naturals, or of subsets of a finite set, that is not empty has a
least element (`WFMin` of the library), and none can be least. In this way it is shown

- that sums over sets are what they should be (`SumAdd`, `SumParts`, `SumAtMost`) and that
  the recursive functions take the values of their definitions (`LoopRuns`);
- that a finite set in a strict order has a line, which `InOrder` chooses (`LineExists`,
  `InOrderSorts`), whose prefixes add up to `PaidBefore` and `DueBefore` (`LineAddsUp`);
- the invariant of the loops: after some payments and some instalments, what is handed
  over is the overlap of what both have covered of the line (`MeetAt`, `SpendAt`,
  `SettleAt`);
- that the parts of an instalment that payments cover add up (`PaidForAll`, `DueLater`).

Beside these it has the sums the figures need: a sum over pairs is a sum of sums, by either
of the two (`SumNested`, `SumSwapped`), and a sum over parts adds up (`PartsAddUp`); what
all instalments take of a payment is at most the payment (`SpentOn`).

On it rest:

- `AllocationsAlwaysFifo`.
- `FiguresAlwaysAgree`: a row of the list, a summary, the tenant's reconciliation and the
  units page are sums over instalments of what each is due and paid (`SummaryIs`,
  `TenantIs`), so that they agree; an instalment that is overdue lies before one that is not
  on the line of cents, so that the money reaches the second only past the first, and no
  maximum with zero hides a cent.
- `TenantsAlwaysAgree`: every figure of a tenant's ledger is the sum of what its instalments
  add to it (`LedgerIs`), so that the years add up (`PartsAddUp`); a status follows from
  which of the sums are zero (`Tells`); and the lines of a payment are what the instalments
  take of it (`LinesAre`, `SumSwapped`, `SpentOn`), over every tenant's name.

Both need no more of the rows than what the theorems before them say (`Whole`), and that
there are finitely many.

Only model-checked of the ledger: the calendar properties (`CalendarHolds`,
`CrossingsHold`) and `TransactionsEnd`, which is liveness.

`MCServerProofs` proves what the run `server` shows of three of its instances. Of
`ReceiptIssuing` it proves `TypesCorrect` and `NumbersAlwaysGapless` for any number of
requests, sources, days and failures. Types alone are not inductive: a request that has
counted holds a number within the bound, and one that has stored holds a file (`HeldOK`),
and there are finitely many rows. The numbers of a day are those from one to their count
(`NumbersGapless`); a request holds a number that is at most one above the count when it
took it, and since rows never go, the insert either is refused by the unique column or adds
exactly the next number (`CountedOK`).

`ReceiptsAlwaysHold` has two more invariants, each under its condition. `SourceInv`: what a
request read of its source holds until it ends, because nobody else in flight is about that
source; an insert then gives the source its only receipt, and a change finds none.
`PageInv`: a directory holds what the one request of its day has printed so far; what a
crash left there is written over before it is read.

`UpdatesAlwaysCount` has an inductive invariant of `DeploymentUpdate` with what each step of
a start and of the script can rely on (which container it is about, whether a backup was
taken, which release was pulled), and, under `StartsAnswer`, that no container starts late;
without that `LastResultCounts` and `KeepsRunning` are false (see below), so the theorem
states them under it, as `UpdatesCount` does. `BackupsAlwaysHold` carries the theorems of
`BackupProofs` over to the two instances of `Backup`.

`UtilityBillingProofs` proves `ItemsAlwaysMatchAmount` and `PaidAlwaysHasDate`. The
inductive invariant `RowsInv` says that every row, and every row with items that a request
holds, is sound by itself: what interleaving can do is replace one sound pair by another or
by no items, because a save writes a row together with its items. `ReadingsAlwaysChain`
adds `ReadInv` for the orderly tab: requests come one at a time (`Solo`), later records are
of later days (`Aged`), every reading starts where those of all older records end
(`Chained`), and so does what a form or a request is about to write (`Prepared`). `Chained`
is about all older records and not only the one before, since a removal makes another one
the one before. `BillsAlwaysConsistent` joins the three.

`ContractOccupancyProofs` proves `HistoryAlwaysFollowsRent` and `CodesAlwaysUnique`. Who
changes which rows is stated once (`RowsOnlyChangeBy`, `UnitsOnlyChangeBy`); the history
needs that a request about to write holds a rent and that a contract without a row has no
history; the codes need that a removal under way is of a unit that has a row
(`RemovalsHaveRows`), whose code the index still covers. `UnitsInTurnAgree` has the rest of
`RowsAgree` for requests that keep apart by unit: `TurnInv` says that the units of two
requests differ (`Own`), that what a request found still holds of its units (`Found`,
because whatever is written lies elsewhere, `Elsewhere`), and that leases lie apart; then at
most one lease runs on a day (`OneRuns`) and both pages find it (`OneStatus`).

`MCContractsProofs` proves what the run `contracts` shows of two of its instances.
`UploadsAlwaysHold`: what keeps a row's file on disk and an upload from being attached twice
is that nothing a dialog holds is attached already or held by another (`PicksApart`), that
what is not attached has been stored by one upload at most (`AttachedOnce`), and that a
request only carries what fits (`Fit`). `OrderlyUnitsAlwaysHold` carries `RowsAlwaysAgree`
and the types, `TypesInTurn`, over to the instance in which requests keep apart: any number
of units, codes, contracts, days and clients, with contracts that move between units.

`BackupProofs` proves what a run shows of the backups on a few runs and days, for any
number of them, with the bounds' types and a `KeepDays` of at least one as hypothesis:
`OneRunAtATime`, `FormalAlwaysVerified`, `LastSuccessAlwaysThere`, `LeftoversAlwaysKnown`,
and `RotationKeeps` for the two action properties. The inductive invariant `BackupInv` has
who has the lock (`LockInv`), what the directory of a run is like at each of its steps
(`Stage`), and who will remove a container (`LeftInv`). The rotation is the hard part: that
a run never removes its own backup needs that a run lives through one midnight at most and
that its directory is touched after it has begun (`OwnIsNew`); that nobody else removes it
later needs that whoever rotates is the last success himself. `RunDirectories` says that
every step leaves the directories alone, fills the run's own, or rotates.

`MCPagesProofs` proves four properties of the run `pages`. In the browser little can be told
from types: a page is right because of what each call under way may still do when its
answer comes.

- `DownloadsAlwaysPolled`: the inductive invariant `PollInv` says that one call for a
  document is the last (`CallsApart`), so that at most one answer counts; that attempts only
  grow, what is shown never being ahead of the document or of an answer that counts
  (`AttemptsGrow`); and that what is pending is waiting, and polled or about to be. Only
  with `AttemptsGrow` is an answer that arrives late known not to end a download that goes
  on, and with it each step also is `Polling!ShownGoesOn`.
- `VouchersAlwaysStay`: `ChargeInv` and `PayInv` say of each row, form and request of the
  page of charges and of payments that its vouchers were chosen in the dialog of its own
  record or payment, and that one payment, or one save and upload together, is under way. A
  picture changes hands four times (chosen, uploaded, in the form, in the request, in the
  row): the lemmas follow it through each, whatever else is answered in between. The dialog
  of payments may be another one by then: `PayInv` carries that a save under way is of the
  dialog that is open, or that its pictures are among those that strayed.
- `FormsAlwaysSavedAsShown`: in `DialogInv` one of the two dialogs is open at most, one save
  is under way, its dialog is still open, and at each step it carries what has become of the
  form it was begun for (`IsSave`). That two rows never come from one form follows from the
  text of a row, which names the draft it was typed in, and from a row that was edited in
  place; a draft is used up once its save is answered. `HastySaves` has what is left of this
  for a user who does not wait: the unit of a save is its own, so that the first contract of
  a new unit is on it. In `DepositInv` the unit of the dialog, of every row and of every late
  list is one that the contract beside it had (`UnitOf`, `IsDeposit`, `LeaseTable`), what a
  contract had only grows when it is moved, so do the clicks, and a save that is answered
  wrote the only row with its click.
- `LateAnswersAlwaysLose`: numbers alone do not say that a late answer loses; what does is
  that the last request of a kind is one, asked when what it asks for was selected, and no
  older than what is shown. For the reconciliation `LedgerCurrent` says so of each kind of
  request, with a spinner for as long as its last request is under way. A list that is
  shown differs from the server's only while a change is made whose own answer, and with it
  the next load, is still to come (`PaymentsChanged`, `DepositsChanged`): `PayQuiet` and
  `DepositQuiet` say that otherwise the last load brings the rows there are now, or has
  brought them. The detail of a unit is by a request no later than the last one (`UnitInv`).
  The pages of payments and deposits are those on which no request fails, after which their
  lists may stay old until they are loaded again.

Only model-checked: `BackupEnds` and the other liveness properties; the types of
UtilityBilling; `DepositsHold`; `PrintedRight` (the second instance of the receipts, and the
words of an amount, which are computed by a recursive definition); what the forms fill in
and preview (`FilledInRight`), and the login (`OwnChangesHold`).

## Where the code does something else than it says

The run `receipt_twice` is expected to end in a violation: two requests for one payment with
different dates of issue both pass the duplicate check, which `PROJECT.json` (`findings`)
quotes, and both insert. The other disagreements were found in the same way: a module states
what a document, comment or test says, or the promise of the code's own refusal, and TLC
finds a behaviour against it. They are kept here and in the modules, with the constants that
show them; no run repeats them.

| Property, with constants | Code | What happens |
|---|---|---|
| `ReceiptIssuing!ReceiptedPaymentFrozen`, `Separate = {}` | `backend/src/rent-payments/rent-payments.service.ts:182` | A payment is changed between the check of its update and its commit while its receipt is being issued (`docs/superpowers/specs/2026-08-26-rent-schedule-deposit-carryover-design.md:126`: no change). |
| `ReceiptIssuing!PdfIsItsOwn`, 2 payments, `Separate = {"source"}` | `backend/src/receipts/receipts.service.ts:88` | Two receipts of one day count the same number and share its directory: one of them stores the page of the other. |
| `UtilityBilling!VouchersKept`, one voucher, two tabs | `backend/src/utilities/utilities.service.ts:171` | A payment that sends only a date or a method writes back the vouchers it read before another request added one (`docs/superpowers/specs/2026-08-21-payment-voucher-drag-upload-design.md:66`: not lost). |
| `ContractOccupancy!LeasesApart`, `Apart = FALSE` | `backend/src/contracts/contracts.service.ts:276` | Two contracts for one unit pass the range check, which line 288 refuses, at the same time and are both saved. |
| `ContractOccupancy!RemovedUnitEmpty`, `Apart = FALSE` | `backend/src/units/units.service.ts:136` | A unit is removed, which line 140 refuses of units in use, between the check of a new contract or meter and its row. |
| `ContractOccupancy!AttachmentsKept`, two files | `backend/src/contracts/contracts.service.ts:170` | An edited contract is saved with the files its form was opened with, over a signed file added meanwhile (`README.md:144`). |
| `ContractDialog!FilesUnderTheirContract`, `Patient = FALSE` | `frontend/src/views/UnitsView.vue:1333` | The dialog is closed and opened for another contract while files are uploaded: they are saved under the other one (line 268). |
| `ContractDefaults!ManualManagerKept`, three names | `frontend/src/views/UnitsView.vue:753` | A manager entered by hand who is also the contact is replaced with the contact (`README.md:28`). |
| `DocumentPolling!VisibleIsShown`, 3 clicks, a fault | `frontend/src/features/units/composables/useContractDocuments.ts:67` | A click on download that fails drops the answer of the table's own lookup, and the row goes on loading. |
| `UtilitiesPage!ShowsChosenContract`, 2 contracts | `frontend/src/views/UtilitiesView.vue:441` | The prefill of the contract chosen before is answered last and replaces the items of the contract chosen now (`README.md:26`). |
| `PaymentsPage!VouchersOfTheirPayment` without `\ strayed`, 5 clicks | `frontend/src/views/RentPaymentsView.vue:453` | The dialog is closed and opened for another payment while pictures are uploaded: they are saved with the other one. |
| `DepositsPage!SavedUnderItsUnit` with `s.unit = {row.unit}` instead | `backend/src/deposits/deposits.service.ts:161` | A contract is moved to another unit: a deposit entered in a dialog that was open, or an old one that is edited, which shows its record's unit (`frontend/src/views/DepositsView.vue:249`), is saved under the contract's new unit. |
| `DeploymentUpdate!LastResultCounts`, `StartsAnswer = FALSE` | `backend/src/deployment/deployment-update.service.ts:84` | A start that failed is followed by one that times out but does run: the status goes on saying the first failure (against the comment above it). |
| `DeploymentUpdate!RunningIsNotRemoved`, `StartsAnswer = FALSE` | `backend/src/deployment/deployment-update.service.ts:71` | A start times out, Docker starts the container later, and the retry, which inspected it before, removes it while it runs. |
| `AppShellUpdate!ResultIsShown`, `Overlaps = TRUE` | `frontend/src/components/AppShell.vue:430` | A status that was read before the start arrives after its answer, with the dialog closed: the update is not followed any more. |
| `Backup!FailureKeepsLastSuccess`, 3 runs, 3 days | `scripts/backup.sh:104` | A run that times out while it removes old backups is reported as failed after it has become the last success (`docs/backup-restore.md:24`). |
| `Backup!FormalIsWhole`, 3 runs, 3 days | `scripts/backup.sh:107` | A rotation that is interrupted leaves half a backup under a formal name (`docs/backup-restore.md:10`). |
| `ChineseCurrency!NoZeroInFront` | `backend/src/common/format/chinese-currency.ts:17` | An amount with a zero between its digits is written with 零 in front: 408 as 零肆佰捌. |

## Not modelled

- Image publication (`docker-publish.yml`): a workflow of the hosting service, one at a
  time; `DeploymentUpdate` has the release it publishes.
- The receipts' page: a list loaded again after a void; its loads have no number, so a late
  answer may be shown until the next load. Voiding is in ReceiptIssuing.
- The schema changes of the migrations: they run once, in order. The back-fill of the
  allocations is the reference definition of RentAllocation.
- PDF and DOCX layout, configuration, health checks, OpenAPI: pure or request-local.
- Passwords, the limit of logins per minute: outside the state Session is about.
- The legacy static page `app.js`: kept for reference, not loaded by the system.
- Database errors beyond a failed request or transaction, and two backend processes: the
  deployment has one.

What could be done next: conditions weaker than `Separate` and `Apart` (row locks on
sources and units) with proofs that they suffice; the types of UtilityBilling and
of the remaining pages as theorems; summaries read by two queries (`rent-receivables.service.ts:321`), which RentViews takes as
one moment: a page may show such figures until it is loaded again, and nothing is written
from them.
