# Verification of InvoiceFast

InvoiceFast is a multi-tenant invoicing server written in Go (Fiber, gorm, SQLite
or Postgres, optionally Redis).  It keeps invoices and their payments, registers
invoices with the Kenyan tax authority (KRA e-TIMS), notifies people over several
channels, reports on the books, and bills the tenants themselves.  One process holds
the HTTP handlers and all background jobs; `k8s/deployment.yaml` runs two of them.

This directory holds TLA+ models of the parts where concurrency, failure, order or
arithmetic decide whether the result is right, TLC configurations that check them on
small instances, and TLAPS proofs for arbitrary ones.  Paths are relative to the
repository's sources; `services/` stands for `internal/services/` and so on.

1. [Files](#1-files)
2. [Inventory of the system](#2-inventory-of-the-system)
3. [What a replica stands on: breaker, server, migrations, backups, files](#3-what-a-replica-stands-on)
4. [Invoices: ledger, creation and numbering](#4-invoices)
5. [Registration with the tax authority](#5-registration-with-the-tax-authority)
6. [Tenants: subscriptions, billing, registration, settings](#6-tenants)
7. [Access: accounts, rate limits, columns, team, integrations](#7-access)
8. [Background jobs](#8-background-jobs)
9. [The books](#9-the-books)
10. [What is proved](#10-what-is-proved)
11. [What is only model-checked](#11-what-is-only-model-checked)
12. [Where code and documentation disagree](#12-where-code-and-documentation-disagree)
13. [What is not modelled](#13-what-is-not-modelled)
14. [Plan](#14-plan)

## 1. Files

| area (run, configuration) | module | what it models |
|---|---|---|
| platform (`breaker`, `CircuitBreaker.cfg`) | `CircuitBreaker` | a breaker of `circuitbreaker/circuitbreaker.go` and its callers |
| | `Server` | start, health, goroutines and end of a replica (`cmd/server/main.go`) |
| | `Migrations` | the versioned SQL migrations and the replicas that run them |
| | `Backups` | copies of the SQLite file beside commits and checkpoints |
| | `Attachments` | files of invoices and expenses and their records |
| | `MCPlatform` | one of these per behaviour |
| | `PlatformProofs` | 5 theorems |
| ledger (`ledger_sqlite`, `ledger_postgres`, `ledger_cancelled`; `LedgerSerial.cfg`, `LedgerPostgres.cfg`, `LedgerCancelled.cfg`) | `InvoiceLedger` | an invoice row, its payment rows, every operation that writes them |
| | `MCInvoiceLedger` | its symmetry |
| | `InvoiceLedgerProofs` | 8 theorems |
| invoicing (`invoicing`, `invoicing_tenants`; `Invoicing.cfg`, `InvoicingTenants.cfg`) | `SequentialNumbers` | abstract: what numbering promises |
| | `InvoiceCreation` | creation, duplication, notes, edits, deletion, totals |
| | `KRADocuments` | what an invoice declares to the tax authority |
| | `MCInvoiceCreation` | the orders that requests make |
| | `InvoiceCreationProofs` | 3 theorems, one of them the refinement |
| KRA (`kra`, `KRA.cfg`) | `KRASubmission` | registering an invoice, the retry queue and its worker |
| | `KRAProofs` | 5 theorems |
| tenants (`subscriptions`, `Subscriptions.cfg`) | `Subscriptions` | subscription rows, limits, usage counter, billing worker |
| | `Billing` | checkouts, prices, payment methods, provider's messages |
| | `Registration` | registering a tenant, verifying an address, trials at start |
| | `Settings` | the JSON document of a tenant's settings |
| | `MCSubscriptions` | one of these per behaviour |
| | `SubscriptionsProofs` | 7 theorems |
| access (`accounts`, `fields`; `Accounts.cfg`, `EncryptedFields.cfg`) | `Accounts` | login, second factor, sessions, password reset |
| | `RateLimiter` | general and stricter limits, the lock they share |
| | `EncryptedFields` | hooks that seal and open columns |
| | `Team` | roles, invitations, removals |
| | `Integrations` | providers' rows, QuickBooks |
| | `MCAccounts` | one of these per behaviour |
| | `AccountsProofs` | 6 theorems |
| jobs (`jobs`, `Jobs.cfg`) | `Notifications` | notification queue, goroutines, poller |
| | `Preferences` | what a user is notified of, and when |
| | `RecurringInvoices` | the scheduler of recurring invoices |
| | `Reminders` | the hourly reminders |
| | `PDFQueue` | the queue of PDFs in Redis |
| | `Automations` | templates, their jobs, rules and workflows |
| | `MCJobs` | one of these per behaviour |
| | `NotificationsProofs` | 7 theorems |
| books (`books`, `Books.cfg`) | `Books` | rows that requests write, and the main reports over them |
| | `Reports`, `Pages` | breakdowns by day, status, client, tax; lists, settlement, forecast |
| | `Expenses` | expenses, attachments, monthly trends |
| | `Clients` | clients, whose edit stores their invoices again |
| | `MCBooks` | books, expenses or clients per behaviour |
| | `BooksProofs` | 7 theorems |

To check a run: `tlc -config Subscriptions.cfg MCSubscriptions`; to check proofs:
`tlapm SubscriptionsProofs.tla`.  `PROJECT.json` maps every definition to the lines it
models and lists the runs, the hazards and the theorems.

**Composition.** An MC module that joins several components has a variable `part` (or
`job`) that is chosen at first and says which component moves in this behaviour; the
others stay in their initial states.  They share no state in the code either, or state
that is modelled in each of them as far as it matters there; one run then asks all of
their questions.  Components that do interact are one module: an invoice with its
payments and requests, a subscription with its worker and counter.

**Mutated forms.** Operators commented as "mutated form" are plausible bugs (a dropped
guard, a threshold off by one, a swapped order), used by no action.  Putting one in the place
of the definition it follows makes the property fail that `PROJECT.json` pairs it with.

## 2. Inventory of the system

| part | state | operations | hard about it | what makes it correct |
|---|---|---|---|---|
| Circuit breaker | state, counters, last failure, one RWMutex | Execute, recordFailure, recordSuccess, Reset | three critical sections per call; late outcomes of calls begun in an earlier state | closes only on evidence; recovers once the service does |
| Server | main, goroutines, exchange rates with a lock | start, signal, bounded waits, health probes | a panic that keeps a lock; a database closed on those still at work | closes on stragglers only; requests answered; stops when asked |
| Migrations | `schema_migrations`, the schema | run at every start | statements outside a transaction, two replicas at once | recorded means done, in order |
| Backups | SQLite file, log, copies | copy, prune | pages copied beside checkpoints; pruning counts failed copies | a copy is of one moment |
| Attachments | files, records | upload, delete | file and row are two writes; crash between | every record has its file |
| Invoice ledger | invoice row, payment rows | RecordPayment, CancelInvoice, ManualMatch, ReconcilePayment, SendInvoice, UpdateInvoice, DeleteInvoice, overdue job, KRA's columns | whole-row saves of stale rows; totals recalculated after payments; two databases with different isolation | credited beyond the total, and money lost, only by known writers; a key once |
| Creation and numbering | sequence rows, invoice rows and lines | create, duplicate, notes, edit, delete | number, rows and validation in one transaction; edits store deleted rows again | numbers gapless and distinct; totals agree |
| KRA registration | KRA columns, queue rows, KRA's registrations | SendInvoice's goroutine, SubmitToKRA, RetryKRA, SyncKRA, retry worker; edits and payments as savers of the row | network call inside a transaction; lost answers; crash | ICNs are real and kept; sends bounded; queue drains |
| Subscriptions | subscription row, usage row | create, cancel, reactivate, change plan, renew, count | limit checked before, usage counted after; creators that do neither; pages by offset over a shrinking set | limits hold; a cancellation stands; counter follows the invoices it hears of |
| Billing | subscription's price, payments, marks in Redis | checkout, webhook, plan and method | messages repeated, concurrent, late; mark set after the record | a checkout recorded once; price listed |
| Registration | tenants, users, trials, codes | register, verify, trials at start | four statements without a transaction; crash; replica's start | no tenant without a user |
| Settings | one JSON document | read, change a section, save | lost updates; secrets masked and encrypted again | sections and secrets stand |
| Accounts | user row, refresh tokens, reset tokens | login, 2FA, refresh, reset, change, remove | check, then delete or mark; whole-row saves | tokens serve once; sessions end with the password |
| Rate limiter | lists, counters, one lock | limits, clean-up | a lock kept during a handler; two windows in one list | at most so many per window; everybody answered |
| Encrypted columns | ciphertext columns | hooks at create, save, find | a hook compares with the stored row | a row once broken stays so; else sealed |
| Team | roles, tokens, invitations | invite, change, remove | role in a token older than the row | changes by right; an owner remains |
| Integrations | providers' rows, tokens | save, connect, synchronise | read-then-create, masks stored back | one row per provider, as asked for |
| Notifications, preferences | queue rows; preference rows | send, poll, retry; set | nobody claims an item; defaults overrule a first storing | sends bounded; wishes kept |
| Recurring invoices, reminders | parents, children, log rows | minute and hourly jobs in every replica | list, create, move on as separate statements | once per period; reminders apart |
| PDF queue, automations | sorted set; templates, jobs, rules | enqueue, pop; create, pause, delete | popped before rendered; rows stored again | queued gets reported; jobs match templates |
| Reports | none: read columns others write | overview, dashboards, ages, statements, exports | each page sums columns of its own choice; cents against shillings | pages that show one figure agree |
| Expenses, clients | rows, attachment counts | edit, approve, upload, delete | a save stores what was read with it again | sums add up; an edit takes nothing back |

Parts without a model are in section 13.

**How the parts interact.**

* Handlers call services directly; services share the database and nothing else.
  `database/database.go:156` gives SQLite one connection; Postgres gets a pool at READ
  COMMITTED.
* `SendInvoice` starts a goroutine that registers the invoice with KRA and does not wait
  for it.  KRA's ICN and status are columns of the row the ledger's operations save whole.
* Clients, subscriptions, users and tenants' settings are rows that several requests save
  whole in the same way.
* M-Pesa, KRA and WhatsApp are called through a breaker of their own each.
* Background actors (`cmd/server/main.go`): reminders hourly, KRA retries every 5 minutes,
  automations and recurring invoices every minute, billing hourly, overdue marking every
  30 minutes, the notification poller every 30 seconds, PDF loops, rates and backups
  daily.  Each replica has its own.  Shutdown waits 10 seconds for them at most.

The hazards, each at its line and with the properties that would catch it, are listed in
`PROJECT.json`.

## 3. What a replica stands on

`CircuitBreaker` models one breaker, its callers, the clock and the outside service.

| code (`circuitbreaker/circuitbreaker.go`) | model |
|---|---|
| `cb.state`, `cb.failures`, `cb.successes` | `state`, `failures`, `successes`; the counters saturate at their thresholds, beyond which only resetting them matters |
| `time.Since(cb.lastFail)` | `elapsed`, saturated at `RecoveryTimeout`; `Tick` |
| Execute: state under a read lock; lastFail under another; half-open under the write lock | `ReadState`, `ReadLastFail`, `TryHalfOpen` |
| the call, then `recordFailure` or `recordSuccess` | pc `calling`, `RecordFailure`, `RecordSuccess` |
| `Reset`; the service | `Reset`; `healthy`: if not, it may answer or fail |

`probes` is a history variable: the outcomes recorded since the breaker last half-opened.
`ClosesOnlyOnEvidence`: only Reset closes it otherwise than by a full run of successes.
`HealthyServiceRecovers`: if the service is healthy for good, the breaker closes for good.

`Server` is one life of a replica: main's phases (`Main`), the goroutines beside it, requests and health
probes over a pool of connections, the bank's rates with the lock a panic does not release,
and the two bounded waits at the end.  `Migrations` runs the SQL files statement by statement:
a version is recorded after its last statement, a failure ends the run and the replica
starts all the same; `Guarded` are the statements that may be repeated, `Refused` those
the database refuses.  `Backups` copies a file page by page while transactions are committed to the
log and checkpoints carry them over.  `Attachments` writes a file, then its record;
deletions look for the file in the wrong place (`/uploads` for `./uploads`) or not at all.

`ReplicaIsSound` is the conjunction of what the four promise:

* `ClosedOnStragglers`, `HealthTells`, `RatesComeLater`: the database is closed only on those
  whose time was up; a health report is good only if what it is about answered; the bank's
  rates are known only after a start without them (a bank that answers at the start makes
  `fetchRates` write into a nil map: main panics, the daily fetch later with the lock held).
* `RecordedIsDone`, `RepeatedOnlyGuarded`, `AloneGoesAsFar`: a version is recorded when it was
  executed, after those before it; a statement is repeated only if it may be; a replica alone goes
  exactly as far as the database lets it.
* `CopiesAreOfOneMoment`, `NewestAreKept`: a copy is torn only by a checkpoint beside it; and
  failed copies take the place of whole ones.
* `FilesAreKept`: every record has its file; a file without one is left by a deletion or a failure.

`AnswersAndStops`: a request is answered unless it asks for a rate whose lock is lost, and a
server that is told to stop stops.

Bounds: three callers (one with a stale reading and two that move the breaker on), thresholds 3
and 2, timeout 2; one goroutine, two requests of which one is a health probe, one connection, one
change of what is up; three versions of two statements, two replicas, two restarts; two pages,
two commits, three copies of which two are retained; one invoice, one expense, two file names, three requests,
one failure, one crash.  Fairness: time passes and callers go on (`WF`; every client has an HTTP
timeout); main and requests do not stop of themselves (`WF`); `database/sql` serves its waiters in
the order they asked, so a probe that keeps asking for a connection gets one (`SF`).

## 4. Invoices

**Ledger.** `InvoiceLedger` models one invoice.  A request is a goroutine that runs one
operation; each SQL statement that others can observe is a step.

| code | model |
|---|---|
| `models.Invoice` (status, paid_amount, balance_due, kra_status) | `inv`, or `NoRow` |
| `models.Payment` (amount, idempotency_key) | `payments[r]`, the payment request r created |
| `models.ValidTransitions`, `CanTransition` | the operators of the same names |
| RecordPayment (`services/invoice_payments.go:257`) | `RecordRead`, `RecordCheck`, `RecordCommit` |
| CancelInvoice | `CancelRead`, `CancelCommit` |
| ManualMatch, ReconcilePayment (`services/payment_matching.go`) | `MatchRead`, `MatchCommit`, `ReconcileRead`, `ReconcileCommit` |
| SendInvoice, UpdateInvoice | `SendRead`, `SendSave`, `UpdateRead`, `UpdateSave` |
| DeleteInvoice with the `BeforeDelete` hook | `DeleteRead`, `DeletePayments`, `DeleteRow` |
| overdue job, KRA's column update | `MarkOverdue`, `KRARegistered` |

gorm's `Save` writes every column of the row that was read; it inserts the row again if it has
gone, and the preloaded payments too (`Restore`).  `SerialTx` chooses the database: over SQLite's one
connection nobody else runs a statement while a transaction is open, and foreign keys are
not enforced; over Postgres at READ COMMITTED a transaction saves its row over whatever was committed
meanwhile, and foreign keys are enforced.  Over SQLite ManualMatch and ReconcilePayment never
commit: they ask for a second connection while they hold the only one.  MatchPayment (no code
creates the rows it looks for), UpdateInvoiceItems (no route calls it), notes and late fees are left out.

A row has its own total and discount.  UpdateInvoice may set the discount, with a status given also after the draft,
and recalculates the total from the items it read (`RecalculatedTotal`; nothing, if a deletion has just taken
them), leaving the balance: so an invoice can come to be paid more than its total one request after the other.

* `ledger_sqlite` (3 requests of all kinds, amounts 1 and 2 of a total of 2, a discount of 1, one key):
  `RecordsKeyOnce`, `MoneyLostOnlyBy` (credited money vanishes only by a plain Save of a row older than the
  payment, or when RecordPayment caps it at a total that an update had lowered).
* `ledger_postgres` (the same requests): what survives lost updates.  `SettledIsPaid`: until an update
  sets status or total by hand, the row that is left is marked paid exactly when it is credited in
  full.  `BalanceIsCalculated`: balance and paid amount add up to the total in every row, until a
  match credits, or an update recalculates the total, without the balance.  `OnlyEditsAndMatchesOverpay`: payments
  that race at READ COMMITTED lose each other's credit but never credit more than the total; an update
  that recalculates the total and a match, which has no cap, do.

Three requests are a payment, a second writer that makes its row stale and a third that makes the
difference visible.

**Creation and numbering.** `SequentialNumbers` says what numbering promises: a tenant's invoices get
1, 2, 3... in the order in which they are stored, none left out, none given twice, whatever becomes of
them (`Issue`, `Void`, `Return`).  `InvoiceCreation` models creation, duplication, notes, edits and deletion
with the sequence row (`models/models.go:364`), and how each of them computes subtotal, discount, tax and total.  A creation,
with number, rows and validation, is one transaction and one action.  `KRADocuments` is the
document built from a row: figures, lines, buyer.

* `invoicing`: `NumbersAreSequential` (the refinement; `last` is the sequence, `held` the rows) and
  `SoundIsDeclared` (creation, validation and edits agree on the totals but for the cases named in the
  property, and what is created as asked is declared as created).  Two tenants, two invoices, one editor, rates of the
  invoice 0 and 25 %, of lines 25 and 50 %, a discount of 20 that exceeds one line and not the others, a rate of zero,
  which is replaced on creation.  Prices are whole cents and quantities whole; `AskedLine` says what CreateInvoice limits the rates to.
  A request is `Sound` if it has no rate for the whole invoice, at most one taxed line, whose discount is
  whole cents, a discount that leaves something to pay, and no half cent.

The code computes in floats (`invoice_crud.go:75-116`, `money.go:38`).  The model's amounts are parts of a cent,
`Unit` of them to one, small enough for products with the rates to be whole: sixteenths here, any number in the theorem.  A float is off by far less than such a part
(for amounts below some 10^9 cents), so `math.Round` gives what it gives for the exact number, except at exactly half a cent, where the
error decides: `Cents(x)` has both neighbours then, every rounded figure is chosen from it on its own, and `Exact` says that there
is nothing to choose.  The case is real: one line of 0.29 at 50 % makes 0.29 + 0.145 = 0.43499999999999994, 43 cents, where
ValidateInvoiceTotals has 29 + 15, and the request is refused.  So nothing is claimed of such requests but that the figures of
what they store (`halved`) are within a cent of each other.

## 5. Registration with the tax authority

`KRASubmission` models the registration of one invoice: the columns `sent`, `kra_status`,
`kra_icn` (`inv`), KRA's own count of registrations (`registered`; the nth answer has the
ICN n), the retry queue, and one worker.

| code | model |
|---|---|
| SendInvoice and its goroutine (`services/invoice_payments.go:20`) | `SendRead`, `SaveRow`; `Call`, `SendQueues`, `SendMarks`, `SendRegistered` |
| UpdateInvoice, UpdateInvoiceItems, the late fee, payments of Stripe and IntaSend | `ReadRow` ("edit"), `SaveRow` |
| RecordPayment, CancelInvoice, matches, M-Pesa callbacks, refunds | `ReadRow` ("pay": in a transaction, `Booking`), `SaveRow` |
| SubmitToKRA, RetryKRA, SyncKRA, SubmitAllPending (handlers) | `Handle`, `ClearKRAData` |
| SubmitInvoiceToKRA (`services/invoice_kra.go:71`) | `Begin`, `StoreKey`, `Call`, `Commit`, `RollBack` |
| KRAService.SubmitInvoice, the breaker and HTTP | `SubmitInvoice(answer)`: "ok", "down", or "lost" when KRA has registered and the answer does not arrive |
| ProcessRetryQueue (`services/kra.go:677`) | `WorkerSends`, `WorkerSaves` |
| end of the process | `Crash`, at most `MaxCrashes` times |

`db` is chosen initially, so the run covers both databases.  Over Postgres `StoreKey` locks the
row until the transaction ends (`Writable`); over SQLite the transaction holds the only connection, and a
failed call that wants to queue an item waits for itself (`Hung`).  Over Postgres queue items are refused because their
id is no UUID.

* `kra` (2 requests of any operation, all answers, 2 retries, 1 crash): `CheckHoldsDuringCall` (over one connection
  the check made before the call holds until the commit), `SendsAreBounded` (an item is sent at most MaxRetries
  times and once more per crash), `ICNsAreLostOnlyBy` (a stored ICN goes only by a retry that clears it, or with
  the save of a whole row read before the registration: SendInvoice's, an edit's, and over Postgres a payment's too;
  over SQLite the transactions of payments and submissions keep each other out), `QueueDrains`.

What an edit or a payment does to amounts and status is section 4's; here it is one of the savers of the columns, and
`sent`, whether SendInvoice refuses the invoice, comes out of it either way.  The jobs that change nothing but the
status are left out.

Two requests are enough for a stale Save, a lock wait and a duplicate; two retries distinguish the first failure
from the last; one crash falls between any two steps.  Fairness: goroutines go on unless they wait for a connection or lock,
and the 5-minute ticker keeps calling the worker.  Requests need not come, and a crash need not happen.

## 6. Tenants

`Subscriptions`: a request reads the subscription (`sub[t]`), changes it and saves the whole row, in separate
statements; each replica's worker renews those that are due in the same way, page by page by offset (`Worker`).  Creating
an invoice asks twice whether the plan allows it (middleware and handler), creates it, reads the counter (`usage`) and
saves it; a check or an increment may fail (`LimitUnknown`, `CountFails`).  `PassesCounter` is the code that makes or removes an invoice
and neither checks nor counts: the duplicate route, notes, recurring invoices, onboarding, DeleteInvoice, a PUT that cancels.  `aside` is what the
counter never heard of, net.  `serial` says whether requests come one at a time, which is up to the users; the jobs among those that do not count are not bound by it.

* `LimitHolds`: one at a time and without a crash, no tenant has more invoices than a plan allows beyond those the counter never heard of.
* `CancellationsStand`: a cancellation is undone only by a reactivation or by someone who read the row before it.
* `DriftHasACause`: counter and invoices drift apart only by a crash, by increments that overlap or fail, and by the code that does not count.
* `DueIsSuspended`: a subscription whose period is over does not stay active (nothing ever renews its period), whatever the pages skip.

`Billing`: plans and prices, checkouts, the requests that set a price or a method in the subscription's row, and deliveries of the
provider's message, repeated or concurrent, whose mark in Redis is looked for before the payment is recorded and set after it.
`PaymentsAreRecorded` joins: the price is the listed one of the plan; a checkout is recorded once but for each failure of its guard; it is marked
only if recording was tried; a payment has a subscription; the pages of the history hold each payment once.

`Registration`: tenant, user, trial and counter in statements of their own, e-mail codes, and the trials each replica gives at its start.
A failed statement changes nothing, and most failures are only logged; a failed lookup is taken for an address nobody has, and a user who cannot be
stored leaves the tenant behind.  `OrphansHaveACause`: a tenant is left without a user only by a crash, by a failed statement, by capitals in an address, or by
overlapping registrations of one address.

`Settings`: the one JSON document read, changed in a section and stored whole, with masked and encrypted secrets.
`SettingsStand`: a section or step is lost only by a stale save or one that began with an empty document, and a secret can be read back only until the
next save of anything.

Bounds: two tenants, two requests, one worker with pages of one row, one plan with a limit of one; two registrations beside one
tenant of before, one address in small letters or not, two codes, one start, one crash or failed statement; two savers, one failing statement;
two requests about billing, or one beside two deliveries (`Few`), one checkout.  Fairness: the ticker runs the worker's jobs for ever and to their end.

## 7. Access

`Accounts`: one user's row, refresh tokens, reset tokens; login with lock-out and second factor, refresh, logout,
change of password, reset, removal, as statements that interleave.  `mode` tells how: "serial" requests come one at a time;
a "process" over SQLite runs them concurrently, except that those to `/auth` take turns, since `AuthRateLimiter` keeps the limiter's
lock until the handler is done (`turn`); "replicas" over Postgres have no turns, and no reset works there.  A failed statement ends the request
(`StatementFails`), except where the code goes on: clearing failed logins, invalidating reset tokens, deleting refresh tokens.

* `SessionsMatchPassword`: one at a time, a change of the password leaves no session that goes back to another one, except where the deletion of
  the refresh tokens failed, which is ignored, or a crash came before it (`kept`), until the next change ends these too.
* `TokensServeOnce`: in one process a login has one refresh token at most, and a reset token sets one password.
* `OnlyStaleSavesUndo`: a password, a second factor or a removal is undone only by someone who read the row before it.

`RateLimiter` has the general limit (in Redis or in the process), the stricter ones with their shared list and lock, and the
clean-up.  `EncryptedFields` has the hooks that seal and open columns around a whole-row save.  `Team` has roles, invitations, the role in a token
issued earlier, and saves of rows read before.  `Integrations` has the providers' rows, masks, QuickBooks' tokens and synchronisations.

* `AccessIsSound`: `WindowHeld` (no more passes of `/auth` in a window than allowed, unless Redis counted the rest and the list was dropped),
  `OwnerStays` (a tenant has its owner until he gives that up), `ConnectionsStand` (one row per provider as last asked for unless
  saves crossed; the latest tokens serve; an invoice is posted once per synchronisation).
* `RowsChangeByRight`: `BrokenStaysBroken` (a row with a column in the clear is repaired by no later request), `GrantsStand` (roles and removals come from
  somebody entitled to them unless a token or a row is older than what it tells).
* `EveryoneIsAnswered`: every request is answered unless a handler behind the lock never ends.

Bounds: three requests, two attempts before the lock-out, one crash or failed statement; one client, two requests, limits 4, 2, 2, 3, windows of 2 and 3 ticks; two columns, three texts, two
savers; three members, two requests, one token issued or expired; three requests and ids and one invoice for integrations.  Fairness: Go's mutex hands
itself to whoever has waited for a millisecond (`SF` of passing the lock), a handler ends or is one that hangs (`WF`).

## 8. Background jobs

`Notifications` models `services/notification_service.go`: Send stores an item and starts a goroutine (`Send`, `SendAsync`), the
30-second poller lists pending items and works off its list (`PollerLists`, `PollerMarks`, `PollerDelivers`, `PollerSaves`), the retry handler makes an item pending again
(`Requeue`), the process may end (`Crash`).  Nobody claims an item.  `Silent` are the channels whose sender
reports success without a delivery.  A delivery that reports an error may have arrived.

* `SendsAreBounded`: once by the goroutine, once by the poller and once per call of the retry handler, whatever crashes.
* `StoredIsTried`: what is stored is tried unless the process ends first.

`RecurringInvoices`: the scheduler of every replica lists the parents due, numbers and creates an invoice, and moves the date on, as separate
statements.  `Reminders`: the hourly job and the bulk request, each looking back in a log before sending; a look that fails finds nothing, a log that
cannot be written is passed over (`missed`).  `PDFQueue`: the sorted set in Redis.
`Automations`: templates with their jobs, rules, workflows; a request may be left half done (`cut`), and a deletion of jobs that fails goes unnoticed (`late`).
`Preferences`: what goes out to a user, and when: preferences that cannot be read hold nothing back, a store that fails is answered as a success, and quiet
hours are the texts a user sent, valid or not, compared as texts.

* `NothingTwice`: an invoice once per period if runs come one at a time and do not fail in between; two reminders of a kind apart by the
  time the code looks back, unless runs overlap, or one of that kind for that invoice was sent and not logged (a crash, a failed statement, a key of the
  same second, Postgres) or was logged and the look failed.
* `WishesAreKept`: templates and jobs agree unless a deletion was overtaken or failed, or a crash or failed statement left a request half done; what a user
  switched off or made quiet stays so, once stored, unless his requests crossed, the row's first storing overruled him (gorm's `default:true` replaces a
  FALSE in a new row), or his preferences could not be read.
* `DueIsServed`: a parent stays due for good only if the number it would draw is taken; a queued invoice gets a report unless a replica or Redis failed.

Bounds: two notifications (one silent), 2 retries, 1 call of the retry handler, 1 crash; two tenants, two workers, one request, of whom two act, one period, one further event; one invoice
and sender, 4 hours; two replicas, one edit, one failure; three requests on automations, one crash; two events, two requests, one notification, three hours,
two wishes (no mail, with quiet hours over midnight; mail alone, with quiet hours whose end is no hour); the number of crashes also bounds each part's failed statements.  Fairness: goroutines, poller, scheduler and PDF loops keep running; a request that has begun ends.

## 9. The books

`Books` has the rows (`inv`, `pay`) and a request that writes them per action (`InvoiceLedger` and `InvoiceCreation` have their steps), with the sums of the overview, the
dashboards, the ages and the statements.  `Reports` and `Pages` add the other pages.  `amiss` records what has been done to the columns since, and each
property names what makes two pages disagree.

* `OutstandingAgrees`, `RevenueAgrees`: what is owed and what was earned are the same on every page, but for the writers and columns named.
* `StatementsChain`: a statement opens where the one before closes, once cents and shillings are told apart, but for the course of the last day.
* `PaidIsReceived`: what an invoice says it was paid is what its payments come to, but for an excess, two matches, a refund, a move or a deletion.
* `PagesAddUp`: lists, days, statuses, clients and exports add up to their totals but for the cases named.
* `ExpensesAddUp`: trend, month and summary agree but for dates at the turn of a month, later than now or without one; however requests overlap,
  an expense is as was last asked and not refused unless an edit gave back what it had read, and its count, with what requests have still to count, is
  the number of its attachments unless a count failed or was cut short, an edit gave an old one back, or one attachment was removed twice.
* `EditsTakeNothingBack`: an edit of a client stores again the invoices and payments read with it; it takes no payment back and brings back only an invoice it held as
  that was deleted.

Bounds: two invoices, two payments, two totals and two amounts of which one is more than a total, three writes, times 2 to 4 with days of 2 ticks;
the pages are looked at after the second write.  One expense with one attachment, two requests, months and days of 2 ticks; one client and
invoice, two payments, two requests.

## 10. What is proved

The proof modules hold for every set of requests, tenants, callers or items, and every amount, key, total,
threshold and bound.  Their assumptions are the named `ASSUME`s on constants in the modules, which TLC
evaluates in every run; no theorem has hypotheses beside them: bounds are natural numbers, and positive
where the code counts up to them; a model value for "none" is none of the values it stands beside; tenants, requests,
deliveries, payments, expenses and attachments are finite where they are counted or added up; lines asked for are within the bounds
CreateInvoice puts them to, rates and the default VAT between 0 and 100 per cent, the default not 0; the plans asked for exist; versions, statements
and pages are numbered from 1; a day and a month have a length, a month of expenses whole days; and amounts in the books are whole
shillings (a report's division by 100 is in floating point, and exact in the model only for these); `SerialTx` for what only one connection gives.  Over Postgres the statements about one connection are
false, as their mutants show.

Every safety theorem has the same shape: an inductive invariant `IInv` that was checked by TLC on a small instance first,
`Init => IInv`, `IInv /\ [Next]_vars => IInv'` with a step per action, and `IInv => Inv`.  The column "why" says what the
invariant has to say beyond the property.

| theorem | property | why it holds |
|---|---|---|
| `PlatformProofs!TypeCorrect` | `TypeOK` | inductive; `Saturate` and `Remember` by lemmas |
| `ThresholdsHeeded`, `ProbesCounted` | `BelowThresholds`, `ProbesAllSucceeded` | a counter is compared in the step that increments it and reset when the state changes to one it guards; that keeps the history from being cut |
| `ClosingIsEarned` | `ClosesOnlyOnEvidence` | the closing step appends the last success to a full history |
| `ReplicaStands` | `ReplicaIsSound` | of the whole `PlatformSpec`.  `Served`: there are requests only once the server serves, and each has met what its checks were told; `Migrated`: a replica that migrates has gone past what is recorded and executed, and one that never had company has done what lies behind it and nothing else; `Copied`: the pages read so far are of one moment unless a checkpoint moved one since, and the files kept are the last that ended; `Filed`: who uploads has the name to himself, and nothing takes a recorded file off the disk |
| `InvoiceLedgerProofs!TypeCorrect` | `TypeOK` | needs `Readers`: a request under way holds a row it read |
| `SnapshotsAreFresh` | `FreshSnapshots` | one connection: whoever is connected has no open transaction beside it |
| `RecordingStaysWithinTotal` | `OnlyEditsAndMatchesOverpay` | over either database, from what each step may write to the row (`RowWritten`) and, over one connection, `SnapshotsAreFresh` |
| `KeysAreRecordedOnce` | `RecordsKeyOnce` | `KeyChecked`: what the duplicate check found still holds at the commit |
| `StatusMachineIsFollowed` | `TransactionsFollowStateMachine` | `CancelChecked`, and `SnapshotsAreFresh` to pass from the row read to the row stored |
| `MoneyLossHasACause` | `MoneyLostOnlyBy` | over either database: a payment credits less than was paid only to a row paid over its total |
| `PaidWhenSettled` | `SettledIsPaid` | over either database: `AllSettled` says it of the stored row and of every copy about to be saved |
| `BalancesAreCalculated` | `BalanceIsCalculated` | over either database: `AllBalanced`, of the stored row and every copy |
| `InvoiceCreationProofs!NumberingImplemented` | `NumbersAreSequential` | refinement: initial states map to initial states; a creation, duplication or note maps to `Issue`, a deletion to `Void`, an edit that stores a deleted row again to `Return`, all else stutters; the invariant knows the numbers of rows that an edit may still store |
| `NumbersStayDistinct` | -- | no two invoices of a tenant have one number, those an edit may bring back included |
| `CreationIsDeclared` | `SoundIsDeclared` | for any lines, rates, discounts and parts of a cent.  Without half a cent what may be chosen is what ToCents gives (`ExactDraft`, `ExactCalculates`), with it each figure is within half a cent of its amount (`HalvedDraft`).  Sums over the lines are linear in what they add up, and whole cents pass through rounding (`WholeCents`): so with one taxed line rounding the sum is the sum of what is rounded, and a rate worth three cents a line is more than rounding can hide.  `RowInv`: every row fits its label (figures and lines add up unless an edit, half a cent, a discounted line or a defaulted quantity explains it; an unedited row has a rate), and the lines an edit has read are the row's unless either has none |
| `KRAProofs!TypeCorrect` | `TypeOK` | with `Passage` (which operation a request at a step is in) and `Accounted` (sends against retries, crashes and the send under way) |
| `RetriesAreBounded` | `SendsAreBounded` | a part of `Accounted` |
| `SubmittedHaveICNs` | `SubmittedHasICN` | `ICNsKnown`: the same of every unsaved row and every answer a request holds |
| `ICNsAreKept` | `ICNsAreLostOnlyBy` | from `Passage` and `ICNsKnown`, step by step; over SQLite a payment's transaction is `Alone` |
| `ChecksHold` | `CheckHoldsDuringCall` | `Alone`: over SQLite a transaction is alone and holds the current row, unregistered while it submits |
| `SubscriptionsProofs!TypeCorrect` | `IInv` | types, with what each request and worker has read in each of its states |
| `CancellationsAreKept` | `CancellationsStand` | from the types: only a reactivation or a save of a row read before writes another status |
| `DriftIsCaused` | `DriftHasACause` | each request has a weight, what it has yet to count; no step but a crash or an increment over a counter that moved changes made - aside - counted - weights (`Even`), and only who does not count changes aside (`AsideLemma`) |
| `LimitsHold` | `LimitHolds` | `Orderly`: one request at a time, so that what was read when the limit was checked is still stored when the invoice is made; what passes by the counter does not disturb it |
| `OrphansAreExplained` | `OrphansHaveACause` | of the whole `TenantSpec`.  `Registering`: a request that found its address taken either wrote it in capitals or knew, when it looked, of nobody who has it; who is about to create a user has stored his tenant; a lookup that failed knew of nobody |
| `SettingsAreKept` | `SettingsStand` | of the whole `TenantSpec`.  `Merging`, `Updating`: what a saver is about to store differs from the stored document only in what its round gives, or what the merge lets go, unless somebody stored one in between |
| `PaymentsHold` | `PaymentsAreRecorded` | of the whole `TenantSpec`.  `PricesAre`: every row that is stored, or that somebody is about to save, has a listed price; `WithinSlips`: a checkout's payments, with the deliveries about to record it, are no more than its slips, and one more while it is marked or a delivery that will mark it is under way; `PagesFlatten`: what a recursion over the pages puts together is unique, and the entries in their order satisfy it |
| `AccountsProofs!TypeCorrect` | `Types` | types of the account, its tokens and what each request has read |
| `TokensAreSingle` | `TokensServeOnce` | `Turns` (whoever refreshes or resets holds the limiter's lock) and `Rotation` (a login's token is the one its refresh deleted or created) |
| `SessionsMatch` | `SessionsMatchPassword` | `InStep`: of requests one at a time, the one under way knows the stored password, and a session with another one was spared |
| `StaleSavesUndo` | `OnlyStaleSavesUndo` | from the types, step by step |
| `RowsStand` | `RowsChangeByRight` | of the whole `AccessSpec`.  `Hooks`: who saves a row stores in the clear or as he read it; `Claimed`: who is about to save or remove a member was entitled to, by his token, for the role he read |
| `AccessStands` | `AccessIsSound` | of the whole `AccessSpec`.  `Limiting`: a client's list says of each age at least what passed `/auth` then, unless Redis let it be dropped; who is before the strict limit came by the general one a tick ago at most; `Owned`: who is about to change or remove the owner has read that he is the owner; `Linked`: the row that somebody is about to save again is gone or still its provider's, and each synchronisation lists an invoice once |
| `NotificationsProofs!TypeCorrect`, `SentWereDelivered`, `DeadLettersAreUnreachable` | `TypeOK`, `SentWasDelivered`, `NoDeadLetters` | pending and listed items have no retries behind them, and whoever is about to write "sent" knows of a delivery |
| `DeliveriesAreBounded` | `SendsAreBounded` | `Due`: deliveries made, plus those owed by the goroutine, the poller's list and a pending row, never exceed 2 plus the calls of the retry handler |
| `NothingComesTwice` | `NothingTwice` | of the whole `JobsSpec`.  `InTurn`: of runs one at a time, the one that goes on holds periods not yet invoiced, and a parent's date lies behind none that was; `Remembered`: the last reminder of a kind is in the log, or the run that goes on is about to log it, or its kind is among the missed |
| `WishesStand` | `WishesAreKept` | of the whole `JobsSpec`.  `Choosing`: a request that goes on knows the row of its event, or has crossed with another; `Sending`: what a notification read is a row as last wished; `Scheduled`: a template has a job while nobody is scheduling or removing and nothing was left half done; `InHand`: of requests one at a time the one under way holds the stored template |
| `BooksProofs!OutstandingAddsUp`, `RevenueAddsUp`, `StatementsGoOn`, `PaymentsMatch` | `OutstandingAgrees`, `RevenueAgrees`, `StatementsChain`, `PaidIsReceived` | of the whole `BooksSpec`, over any number of rows.  A sum does not depend on the order `CHOOSE` takes the rows in: it splits with its set, adds up column by column, and collects by kind (each proved by taking the least set for which it fails).  `BooksAre`: while nobody did what spoils them, the columns of a row determine each other, and what an invoice was paid is the sum of its payments; each report is then a matter of which rows it takes |
| `PagesAgree` | `PagesAddUp` | of the whole `BooksSpec`, over any number of rows, days of any length, months of any length.  Periods of one length follow one another: each date falls into one of them, and what falls on a turn into the one before too when both ends of a period count.  What a page shows by day, month, status, bucket or client is then a sum by kind, and the kinds are all there are.  In a list that is newest first, a row alone in its moment comes after exactly what is newer, so it is on the same page whatever order the others come in; a payment that a client's timeline lacks is pushed out by as many later events or newer invoices |
| `ExpensesAgree` | `ExpensesAddUp` | of the whole `BooksSpec`, for any number of expenses, attachments, requests and months.  `ExpensesAre`: an expense to which no edit gave anything back is as last asked, and its count with what all its requests still owe is the number of its attachments; who removes an attachment finds it where it was or removed since.  The trend by induction on its months: a month more shares with the others exactly what is dated at the turn to it |
| `NothingIsTakenBack` | `EditsTakeNothingBack` | of the whole `BooksSpec`: an invoice that an edit holds and that is gone was deleted while somebody held it; a payment it holds is where it was or went with its invoice; two edits that hold a payment hold it alike |

Where it says so a theorem is about the composed specification of the MC module; the others are about the component's own, whose steps
are those of its part in the composition.

## 11. What is only model-checked

* Liveness: `HealthyServiceRecovers`, `AnswersAndStops`, `QueueDrains`, `DueIsSuspended`, `EveryoneIsAnswered`,
  `StoredIsTried`, `DueIsServed`.  Fairness and ENABLED are out of the prover's reach here.
* The runs in which a statement of the documentation fails.

## 12. Where code and documentation disagree

Three runs are expected to end with a violation; the counterexample is a behaviour of the code.

| run | statement | what happens |
|---|---|---|
| `ledger_cancelled` | cancelled is final (`models/models.go:302`) | SendInvoice saves a row read before the cancellation |
| `fields` | encrypted columns are stored as ciphertext (`models/models.go:41`): `UnchangedStaysSealed`, a save that changes no column leaves it sealed | a whole-row save stores the columns it did not change in the clear, and the row cannot be read any more (in the trace the PIN) |
| `invoicing_tenants` | a sequence of numbers per tenant (`models/models.go:352`) | all sequence rows have the same empty key: only the first tenant gets numbers |

Seen while reading, not kept as runs:

* Invoices: an overpayment replaces the payment's amount by the excess; `Version` is incremented and never compared; a second
  partial payment is no edge of the status machine and rolls back; the handler of RecordPayment passes no idempotency key;
  DeleteInvoice deletes the payments before its hook refuses; numbers are per tenant but unique over all (`models/models.go:177`); a tax rate of 0 becomes 16 on creation;
  a line both taxed and discounted may be refused over a cent: of KES 2.05 less 10 % with 16 % tax, CreateInvoice makes 30 cents of tax and
  ValidateInvoiceTotals, which rounds the discount first, 29; a line of 0.29 taxed at 50 % is refused, as floats round the sum down and the tax up.
* KRA: over Postgres a second submission waits for the lock and goes on with the row it read before; over SQLite a failed one
  waits for its own connection; SubmitInvoiceToKRA returns nil for a submitted invoice and the handler reads it; SubmitAllPending asks for an
  empty status, new invoices have "pending"; a registration by the retry worker is logged and not stored; an edited invoice's amount "excluding
  VAT" includes it; two rules about the kind of a buyer disagree.
* Tenants: a canceled subscription stays canceled after a payment; a change of plan needs no payment; a yearly cycle gets one month; the checkout asks US
  cents as shillings; recorded payments have amount 0; settings' masks are stored as secrets; PUT of the settings drops sections; an orphan tenant blocks its subdomain.
* Access: without Redis requests are counted twice (`middleware/ratelimit_fiber.go:120`); no request accepts an invitation; an owner can demote himself for ever; QuickBooks'
  tokens are never refreshed, and every synchronisation posts all unpaid invoices again; CSRF tokens are never stored.
* Platform: a bank that answers at start-up ends main with a panic; the attachments' deletions miss their files; over Postgres an invoice with
  attachments cannot be deleted, but loses payments and lines; backups can be torn, and RetentionDays counts files; `database/transaction.go:14`'s timeout is never applied;
  001's SQL is split at `$$` and fails, so 002 to 009 never run.
* Reports: tax_amount is no column, so VAT reports are empty; top paying clients are always empty; the payments page asks for a status nothing
  writes; a settlement counts midnight payments on two days; statements mix cents and shillings; ages count drafts and cancelled invoices.

## 13. What is not modelled

Each component of `PROJECT.json` says what its model leaves out.  Not modelled at all:

* Provider payments for invoices (M-Pesa, Intasend, Stripe, `services/payment.go`): unreachable.  The M-Pesa callback needs a local value nobody sets
  (`handlers/payment_handler.go:117`), the Intasend route has no tenant; completion and reversal have no caller.
* The idempotency service for them, whose middleware asks for keys no reachable code marks.
* Late fees: ProcessAllOverdue has no caller, and the reminder's fee is zero per cent.
* The claim and processing of scheduled jobs (`services/automation.go`): no worker claims one.
* The breaker's registry (a map under one mutex), discrepancy alerts, audit log and activity feed (append-only rows nothing decides on),
  the item library and query helpers (single rows; nothing imports the latter).
* Rendering, mail, PDF layout, QR codes, cryptography, token signing, metrics, logging, configuration: output or computation without
  state that the program decides on.

The abstractions within the models are named in the sections above: one invoice per ledger and KRA model (the properties
relate an invoice to its own payments, items and requests), a crash as the end of a whole process, a request per action in the books.

## 14. Plan

Every safety property that a passing run checks is a theorem.  What stays with TLC is liveness.  A change to the code starts at the map: it names
the definitions for its lines, their runs, and the proofs that have to hold again.  A proof module may extend the MC module of its area, as `BooksProofs` does,
so that the theorem is about the composed specification and the very property the run checks.
