# Formal models of mistiq_backend

TLA+ models of the backend (a multi-tenant ERP and electronic-billing system in
Go), checked with TLC, with proofs checked by TLAPS. Every definition is
translated from the source; `PROJECT.json` gives the lines of each ("map"), the
runs, a mutant of the code for every checked property, the places where the
code and what it says of itself disagree ("findings"), and the hazards.

Parse with `tlasany M.tla`, check with `tlc -config X.cfg M`, prove with `tlapm M.tla`
for each M of `Sums_proofs`, `TenantPool_proofs`, `DocQuota_proofs`,
`FiscalEmission_proofs`, `BillingQueue_proofs`, `Shop_proofs`, `SaleBook_proofs`,
`Subscriptions_proofs`.

## 1. The system

One process (any number of replicas) serves HTTP requests, runs the workers of
Redis queues and a few cron loops. A central MySQL database holds tenants,
plans and subscriptions; each tenant has a database of its own. Redis holds
queues, locks, claims and marks. The *facturador*, a separate service, signs
documents, sends them to SUNAT, and reports the outcome by webhook.

| Component | State | Operations | Interacts with | What is hard | What makes it correct |
|---|---|---|---|---|---|
| Billing states (`pkg/billingstate`) | the stage of an invoice and the columns derived from it | transition, derive, merge | every part that touches a document | late and repeated statuses; a terminal stage may replace another | nothing is "accepted" without an acceptance |
| Emission (`internal/billing/service`) | `tenant_invoices`, `tenant_sales.billing_status` | enqueue, manual send, resend, reissue, sync, wait | Redis lock and queue, facturador, webhook, quota | several writers of the same two rows with no transaction around them; an HTTP call in the middle | one sender at a time; acceptance reaches the tenant |
| Fiscal queue, webhook, reconciler (`pkg/fiscalqueue`, `billinglock`, `fiscaldedup`, `internal/fiscal`, `billing/worker/reconcile.go`) | lists, locks, claims, marks in Redis; timers in memory | pop, retry, receive, reconcile | emission | crash between row and push, lost webhook, lock left behind, lock with an ambiguous owner | no job lost, locks returned, every pass makes progress |
| Pool of tenant databases (`pkg/database`) | map of open handles with use counters | acquire, release, evict, remove, shutdown | every request | opens outside the mutex, shared by singleflight; close under use | tenant isolation, no use after close, no leak |
| Document quota (`pkg/saas/docusage`) | period rows, packages, usage rows | reserve, view, buy, approve, reject, expire | plans, subscriptions, emission | transactions under REPEATABLE READ, plan edited meanwhile, month boundary | one slot per document, never beyond the limit, plan before package |
| Older billing queue (`pkg/billingqueue`, `internal/billing/worker`) | main, processing and dead-letter lists, claims, locks; timers in memory | push, process, retry, recover | emission | retries in memory; recovery with several replicas | every job ends, and is worked on by one replica |
| Subscriptions, payments (`pkg/saas`, `internal/payments`) | subscription, tenant, cycles, payments | submit, approve, reject, revert, extend, annul, evaluate | quota, plans | reviews overlap each other and the daily evaluation, which has no transaction | a cycle is paid once, no days for nothing, who paid is not suspended |
| Shop orders (`internal/ecommerce`, `pkg/stockreserve`) | order and dispatch rows, stock | confirm, dispatch, return, close, convert | sales, inventory | two rows with locks of their own; reads before locks | stock covers reservations, one sale an order |
| Shop payments (`ecommerce/service/payments.go`) | payments of an order, its payment status | add, review, remove, convert | orders, sales | the status is recomputed from a snapshot | no overpayment, status follows payments |
| Sales, notas, notes, refunds, prepayments (`internal/sales`, `fiscal_post_accept.go`, `internal/prepayment`) | documents, returned stock, cash, vouchers | sell, issue, cancel, accept, refund, reverse | emission, inventory, cash | an acceptance is applied at every webhook and poll; checks and writes in different transactions | what a sale moved comes back once |
| Restaurant, cash sessions, transfers, serials | tables, sessions, balances | | sales | | see section 5 |
| Fleet migrations, cron, cache, catalogue, agents, reports, helpers | see `PROJECT.json` | | | | |

`PROJECT.json` lists all 22 components with their directories and, for what is
not modelled, why. Its 40 hazards are the list the properties are written for.

## 2. The modules

| Module | What it stands for | Checked by | Proofs in |
|---|---|---|---|
| `BillingState` | `pkg/billingstate`, the status maps of `sync_service.go` | through `FiscalEmission` | `FiscalEmission_proofs` |
| `FiscalEmission` | emission, fiscal queue, lock, webhook, reconciler | `MCEmission`, `MCLocks`, `MCBilling` | `FiscalEmission_proofs` |
| `TenantPool` | `tenant_manager.go` | `MCLocks` | `TenantPool_proofs` |
| `DocQuota` | `pkg/saas/docusage` | `MCDocQuota`, `MCSales` | `DocQuota_proofs` |
| `BillingQueue`, `JobQueue` | `pkg/billingqueue`, `internal/billing/worker`; what they promise | `MCBillingQueue` | `BillingQueue_proofs` |
| `ShopOrders`, `OrderJourney` | web orders, dispatches, reservations, conversion; what the buyer sees | `MCShop` | `Shop_proofs` |
| `OrderPayments` | `ecommerce/service/payments.go` | `MCShop` | `Shop_proofs` |
| `SaleBook` | sales, notas, notes, refunds, prepayments | `MCSales` | `SaleBook_proofs` |
| `Subscriptions` | `pkg/saas` (reviews, cycles, daily evaluation) | `MCBilling` | `Subscriptions_proofs` |
| `Requests`, `Sums` | the requests both shop modules share; `SUM` over a finite set of rows | | `Sums_proofs` |

Four MC modules (`MCLocks`, `MCBilling`, `MCSales`, `MCShop`) put two components side by side that share no variable: a
variable `side`, chosen in the first state, says which one moves. They are
compositions for TLC's sake, to explore two components in one run; what the
components do to each other (an order to its sale, an acceptance to a note) is
an action of the component that suffers it. Variables that start with history in
their comment (`accepted`, `granted`, `overtaken`, `raced`, ...) are not
in the code: they remember what a property speaks of and guard no action.

### FiscalEmission

`inv[s]` is the invoice row of a sale reduced to the columns the code decides
on (`pipe`, `job`, `sunat`, whether `external_id` is set, whether acceptance
evidence is stored); `bill[s]` the sale's own column. `lock`, `claim`, `queue`,
`seen` are the Redis keys, `timers` the pending `time.AfterFunc`s. `doc`,
`epoch` and `events` are the facturador: the status of the document, how often
it was (re)started, the webhooks in flight. `holder` and `accepted` are ghosts:
who really wrote the lock, and the last submission SUNAT accepted.

A process is a request, a queue worker, a webhook handler or the reconciler.
`pc[p]` is the next statement that reaches MySQL, Redis or the network, and
each action is one of them, so everything may happen between two statements.
`loc[p]` holds the locals that outlive a statement (the row `ApplyStatus` saves
whole, the status that was read). A subroutine returns to the label its caller
left in `ret`:

| Code | Actions |
|---|---|
| `PrepareFiscalOperation` | `Acquire`, `Fetch`…, `Classify`, `ReleaseLock` (also after a failed acquire, as the deferred call does) |
| `fetchAndApplyFiscalDocument`, `ApplyStatus` | `Fetch`, `ApplyRead`, `ApplySave`, `ApplyBill` |
| `EnqueueFiscalEmit` | `Claim`, `EnqueueRow`, `Push`, `EnqueueBill` |
| `ProcessJob`, `scheduleFiscalRetry` | `WorkerPop`, `Emit`, `FailRow`, `FailBill`, `TimerFire` |
| `executeFiscalSend`, `persistInvoiceAfterEmit` | `Check`, `Processing`, `Emit`, `Persist*`, `Verdict*`, `Sent` |
| `waitForFacturadorOutcome` | `Wait`, `Waited` |
| `ReconcileTenantPending` | `ReconcileSelect`, `ReconcileVisit`, `ReconcileAcquire`, `ReconcileSale`, `Reconciled`, `ReconcileRequeue`, `ReconcileRelease` |
| `PostStatus` | `HookReceive`, then the actions of `ApplyStatus` |

Faults, each of a kind a run may allow: the process dies, a webhook is dropped,
an emit call is refused or its answer lost, a tenant database cannot be opened,
the TTL of the lock ends under its holder, a push, a read of the status, an SQL
statement or Redis fails, no quota.

A pass of the reconciler selects once the oldest `reconcileBatchSize` stale sales
(`ORDER BY id ASC LIMIT 100`) and visits them by id (`batch`). `Unsent` are the sales
nobody emits: notas de venta and sales without an invoice are created `pending`,
admitted by the LEFT JOIN, and selected for ever.

Left out: the payload of a document, texts and codes of errors, ages in the
reconciler's selection (taken as reached), the branch that uses
`pkg/billingqueue`, audit rows. `Tick` says that the cron's seven minutes pass
only when what was under way has ended: a manual operation and the two-second
retries are far shorter.

### TenantPool

One step is one critical section of the mutex or one call of the singleflight
group. `lastUsed` is left out: any unused handle may be the oldest. `pins`
counts uses that a caller never releases (`PostStatus` returns without
`ReleaseTenantDB`); `forced` remembers tenants whose handle was closed in use,
`shared` handles that one open gave to several goroutines.

### DocQuota

A transaction is a sequence of steps, one per locking statement: `Begin` (the
first SELECT fixes the snapshot), `EnsureFound`/`EnsureMissing`/`Reread`
(`ensureQuotaPeriodTx`), `Lock`, `TakePlan`/`TakePackage`/`Exhausted`
(`consumeSlotTx`), `Record` (INSERT of the usage and COMMIT). MySQL's isolation
is the default one, REPEATABLE READ: the DSN built in `pkg/database/central.go`
sets none. So plain SELECTs read `snap`, locking statements the latest row, and
a lock lasts to the end of the transaction; the writes of an open transaction
are derived from its locals and reach the tables at the commit. The order among
packages, prices and dates of a package are left out.

### BillingQueue and JobQueue

A worker is a replica with one loop; each action is one Redis command or one
SQL statement of it. A list is the number of copies of each payload, which is
what `LREM 1` and the pops tell apart; the order in a list is left out. `timers` are
the retries that wait in memory (`time.AfterFunc`) and die with the replica;
`StartUp`, `RecoverTake`, `RecoverPut` are `recoverStuckProcessing`, which takes what
was in the list when the replica started, whoever is working on it. `JobQueue`
is the promise: a queued sale is finished, as done or as dead, and lost only when a
replica stops. `BillingQueue` implements it with `stage` as its mapping: queued is in
a list, in a timer or in a worker's hands.

### ShopOrders, OrderJourney, OrderPayments

The order and its dispatch are two rows, and requests lock them in two orders:
the return of an order locks it and then its dispatch, closing a dispatch locks its own
row and then the order's. A request that takes one lock is one step; one that takes a second, or
decides on an earlier plain read, stops between. `OrderJourney` is the stage that
the buyer is shown, computed in the code from both rows; `ShopOrders` implements it,
so no interleaving takes the buyer back. Conversion to a sale is a check,
the transaction of the sale and the one that marks the order (`ConvertBegin`,
`SaleCommit`, `MarkConverted`). A sale at the counter looks at the reservations before its
transaction, a transfer in its snapshot, a correction of the stock not at all. What
cannot be read does not block: a confirmation whose product cannot be read, a sale or a
transfer whose reservations cannot be read, and a preparation whose setting or payments cannot be
read go on (`ConfirmEnd`, `checkAvailableStock`, `MoveCommit`, `PrepareBegin`).

In `OrderPayments` a request opens a transaction that reads (`snap`), locks the order
row, and writes the payment and the status recomputed from its snapshot;
`stale` and `crossed` remember which transactions read what another changed, and whether
one of them committed.

### SaleBook

One row a document: a nota, an invoice, a full or a partial note. What undoes a
sale is checked in one transaction and done in another (`CancelRead`, `CancelEnd`;
`RefundBegin`, `RefundEnd`; `ReverseBegin`, `ReverseEnd`), and the effects of an accepted
note are applied each time its acceptance is reported: those of a partial note put units
of the sale back each time (`Restock`, counted on the sale). A refund asks for an open cash
session and for no earlier refund, never for the status of the sale or of the note, as
`ApplyPendingRefund` and `ApplyPendingNoteRefund` do; `CancelNotaVenta` takes a credit note too,
because its type contains NOTA. `raced` are the documents
that a request had read before another wrote them; the properties say what
holds of the others, and TLC shows that without the exception they fail. One
voucher (a prepayment) serves all invoices.

### Subscriptions

Days are counted from the start, a cycle is named by the day it ends. A review
is two steps: `Begin...` locks the payment, and reads, by plain SELECTs in the same
snapshot, the subscription, the tenant and the cycles; `End...` does the writes and commits. The
daily evaluation (`lifecycle.go`) has no transaction: `LookDaily` computes from one read
the list of statements, and `Write` executes them one by one, whatever happened meanwhile.
Lost access by strikes, provisional access, reverts of the latest approval,
extensions, the issue and annulment of cycles are modelled; amounts, several plans and
the change of plan, cancelled subscriptions and the panel's direct edits are not.

## 3. The runs

All runs set `CHECK_DEADLOCK FALSE`: requests, faults, opens, months, days are
bounded, so the models do stop. Where requests wait for each other's locks, a
property speaks of it (`NoLockCycle`).

| Run | Question | Bounds | States |
|---|---|---|---|
| `locks` | Do overlapping operations keep locks, jobs and verdicts right? And the pool: isolation, counting, use after close, leaks | 1 sale, 2 requests at once (one manual, one automatic handler), worker, webhook, reconciler, no faults, documents still being sent, accepted or rejected and webhooks of acceptances; 2 tenants, 3 goroutines, 2 opens, 1 slot, 1 abandoned use | 1 004 368 |
| `emission_faults` | Can any fault make the tenant see an acceptance that never was? Are reviews of a subscription's payments right while they overlap each other and the calendar? | 1 request of any kind, 2 faults of any kind, with a draft row from the start; 2 payments, 2 workers (symmetric), 3 days, cycles up to day 4, period, grace 1, 2 strikes | 864 797 |
| `emission_live` | Does an acceptance always surface, do retries end? | 3 sales (one never emitted, two with a draft row), a batch of 2, one emission (automatic, queued or manual), 1 fault of delivery or a crash, fairness | 193 936 |
| `doc_quota` | Are slots counted exactly and in order? Does a sale come back once? | 2 documents, 2 transactions, 1 package of 1, 2 months, 1 plan change from a plan of 1; 3 sale documents, 2 requests, an advance of 2 | 1 140 357 |
| `shop` | Do orders, dispatches, stock and payments agree? | 2 orders, 2 requests, 2 units, 2 sales; 2 payments, a total of 2, 1 pending payment a customer (3 in the code); symmetry | 780 202 |
| `billing_queue` | Does the older queue end every job? | 1 sale sent twice, 2 replicas, 2 attempts, 1 stop, fairness | 345 885 |
| `emission_settles`, `emission_release`, `emission_requeue`, `emission_reissue`, `emission_starved`, `doc_quota_reread` | Does the code do what its comment says? | the smallest that shows it | a violation each |

Why this is enough. Every row, key and lock of emission and of the older queue is
per sale. Sales meet in the list of jobs, in the workers that pop it and in the
reconciler's batch. Only the last can keep a sale from its turn for ever, so the
liveness run has three sales and a batch of two, with one older sale that stays stale; for
the other questions one sale suffices (the safety properties are proved for any number). Two
handlers of different sources with the worker, the webhook and the reconciler
put five writers on the two rows at once; `emission_faults` trades the second
request for every source and two faults. In the pool, three goroutines let two
share an open while a third evicts; two tenants with one slot make every open
evict; two handles are one that is evicted or closed and the one that takes its place. In the quota, the transactions meet on one period row and one package
row; two documents are one too many for a limit of 1 and a package of 1; two
months put a transaction across the boundary; plans of 0, 1 and no limit are the
three ways the code branches. In the book, an invoice issued from a nota with its
note is three rows. In the shop, two orders compete for two units that the counter
also sells, and two payments are too many for a total of 2; a customer's limit of 1
is reached where 3 would not be. In the queue, a second attempt is the last. For
the subscription, two payments and two reviews are what one approval and what
overtakes it need; it is explored three times (reviews on one day; reviews against the
annulment of cycles; one payment against the evaluation of four days), because a
state of one says nothing of the others. For what the bounds leave out, all
safety properties are proved (section 4).

What the passing runs show:

* `MutualExclusion`: while sources differ, two sends of a document never
  overlap. With two requests of one source they do (`NoForeignRelease` below).
* `LeakOnlyByReconcile`: no path of any operation leaves the lock behind, except
  the reconciler's `continue`.
* `AcceptedHasEvidence`: what a tenant is shown as accepted was accepted by
  SUNAT at some time, under every kind of fault.
* `JobNotLost`: a document waiting to be sent has a job in the list, in a timer
  or in a process, as long as nothing fails.
* `AcceptanceSurfaces`, `JobsDrain`: an acceptance reaches the tenant and stays, but for
  sales that older stale ones crowd out of the reconciler's batch (finding 5); the retries end.
  See fairness below.
* `SettledOnce`, `ReviewHasReceipt`, `NoFreeDays`, `SuspendsOnlyLate`: a cycle is paid
  by exactly one approved payment; a cycle in review has a receipt to decide on;
  nobody has days nobody paid or gave; only who is late loses access to the
  calendar. Their exceptions are real: a revert puts a cycle back in review with no
  receipt; a revert that overlaps an approval or an extension leaves days that are not
  paid (its check that the payment is the latest takes no lock); the evaluation writes
  from a subscription it read before an approval, and ends a provisional access that
  still runs.
* `Isolation`, `CountedUse`, `ClosedUseOnlyShared`, `LeakOnlyShared`: the pool
  never crosses tenants; a handle closed under its user, or never closed, needs
  a shared open or a forced removal. Those two exceptions do occur.
* `PlanSlots`, `PackageSlots`, `WithinLimit`, `PlanFirst`: a slot is used up by
  exactly one recorded document, below the limit in force at the commit, and a
  paid package is left alone while the plan has slots.
* `UndoneOnce`, `ElectronicOnce`, `VoucherAgrees`: the stock of a sale comes back with its
  cancellation, once and not before, and money at most once, however often acceptances repeat and
  refunds are asked for; a nota becomes one invoice; the voucher's balance is what
  its invoices left of it. Outside: what a request writes after reading it too early, and
  the stock of a sale with an accepted partial note, which comes back at every accepted
  webhook or poll (`fiscal_post_accept.go:117-119`) although `sale_cancel_stock.go:63` says
  "SOLO lo que corresponde". No property bounds that stock.
* `DispatchAgrees`, `HistoryChains`, `NoLockCycle`: order and dispatch agree
  at every commit, no status is decided on one that has changed, and the two orders
  of locking cannot deadlock, because the transitions that take the locks in
  opposite orders start from statuses that exclude each other.
* `ReservationCovered`, `SoldOnce`: the stock covers what confirmed orders reserve
  as long as every check was made and no commit overtook one, and a second sale of an order needs
  overlapping conversions or a failure between sale and mark. The exceptions happen: the comment in
  `pkg/stockreserve/check.go:31` says that FOR UPDATE serialises confirmations, but the
  sum of the reservations is read before the lock.
* `NoOverpay`, `StatusFresh`, `ConversionTakesAll`, `PreparedReviewed`: payments never
  exceed the total, and the status is that of the payments unless a transaction committed after
  another had changed what it read; a conversion takes every approved payment that it could see;
  an order is prepared with nothing under review when the request could read the setting and the payments.
* `JourneyForward`, `JobsServed`: the two refinements of section 2.
* `OneHolder`, `AcceptedNotDead`: two replicas work on a sale only after the lock of one
  expired; retries bury no sale that was accepted before the failing worker looked.

### Findings

1. `emission_settles`: the worker's `persistInvoiceAfterEmit` checks for a final status, but
   then writes; the webhook's acceptance between the two is replaced by
   `FACTURADOR_RECEIVED`. The CDR stays, so the sale is still `accepted`, until the request that
   queued the job writes `sent` last (`fiscal_enqueue.go:118`, after the push). The CDR
   then makes every pass of the reconciler skip the sale, which stays `sent` for ever.
2. `emission_release`: the owner stored in the lock is the source of the
   operation; a second manual request that fails to acquire it deletes the
   first one's lock.
3. `emission_requeue`: the reconciler requeues a stale job while holding the lock
   that the requeue needs, so it never does.
4. `emission_reissue`: a reissue is answered with the evidence of the first
   submission, which `executeFiscalSend` reads back after the send, and shown as accepted
   before SUNAT saw it. The run has no webhooks.
5. `emission_starved`: the reconciler's batch is the oldest stale sales, and those it can do
   nothing for stay in it: with as many notas de venta as the batch has room for, a later sale
   whose webhook was lost is never reached.
6. `doc_quota_reread`: of two first reservations of a month, the loser rereads
   by a plain SELECT in the same snapshot, finds nothing, and fails.

`PROJECT.json` quotes the lines on both sides of each.

### Fairness

Only `emission_live`, `billing_queue` and three of the violations use it. In
`billing_queue`: the loops of the replicas and their timers run, a stopped replica starts
again, Redis ends a lock; nobody has to enqueue, stop or accept. In the emission, a process that was
started runs on (weak fairness of its next step: the Go scheduler, and calls
that time out); idle workers and webhook handlers take what is there; timers
fire; the cron ticks, a pass selects its batch and visits all of it, and no sale has a
claim to be in one; Redis ends a key nobody keeps; the
facturador goes on with a document it has. A webhook is delivered unless the
fault `drop` takes it. No fairness on requests, faults or `Receive`: nobody has
to press a button, and a bounded fault may never happen.

## 4. What is proved

All safety properties that the passing runs check, the refinement of
`OrderJourney` and the safety part of that of `JobQueue` are theorems: TLC checks them on the instances above, TLAPS
proves them for every value of the constants. The assumptions on the constants
are stated with them, by name, and are as weak as the code gives them: finite
sets of rows, natural bounds, a positive total, period, grace and number of
attempts, `None` (`Nil` in the emission) no element of anything.

**Emission** (`FiscalEmission_proofs`; any sales, requests, workers, webhook
handlers, operations, answers):

| Theorem | Property | Hypotheses |
|---|---|---|
| `TypeCorrect` | `TypeOK` | none: under every fault |
| `AcceptanceIsReal` | `AcceptedHasEvidence` | none: under every fault |
| `SendsAlone` | `MutualExclusion` | requests of different sources (`SourcesApart`), no lock outlived (`"ttl"` is no fault) |
| `LocksReturned` | `LeakOnlyByReconcile` | no process dies |
| `JobsKeptOnTheirWay` | `JobNotLost` | no failed push, tenant, Redis, no crash (`NoLostJobs`) |

The hypotheses are needed: TLC finds a violation when any of them is dropped
(for the jobs, together with a refused emit call, which makes the worker retry;
for the sources, at the third operation). The lock plays no part in `AcceptanceIsReal`. Its invariant
`EmissionInv` says where a process is decides what it has in memory (`ProcsOK`), what
rows, webhooks and keys may hold (`StoresOK`), and that a reading of an acceptance is
made after the acceptance, wherever it is kept then: in the row, in the sale, in
a webhook, in a process (`Truthful`). `SendsAlone` adds that a process between acquiring and
releasing has the source it came with (`Sourced`) and is the one that really wrote
the lock (`Held`); `LocksReturned` that a lock in Redis has an owner at
work or is the reconciler's (`Owned`). `JobsInv` says, for each place where the
row is `PENDING_FISCAL`, which process, timer or list has the job (`JobsCome`), and that a
row the facturador answered is not waiting (`Answers`).

**Pool** (`TenantPool_proofs`; `PoolAssumption`): `TypeCorrect` (`PoolTypeOK`),
`TenantIsolation` (`Isolation`), `UseIsCounted` (`CountedUse`),
`NoUseAfterClose` (`ClosedUseOnlyShared`), `NoLeak` (`LeakOnlyShared`).

None of the four is inductive. `IInv` adds what they rest on:
who waits in a flight has missed on that tenant (`Members`); a held or pooled
handle was opened on the holder's tenant (`Owned`); a handle that was not shared
has one holder about to install it and is not yet in the map (`Solo`, without
which closing a spare could close a handle in use); a pooled handle is open or
was shared (`Alive`); users of a tenant nobody forced hold the handle in the map
(`Sharing`, which makes evicting at counter 0 safe); a tenant without an entry
has counter 0 (`Empty`). `InductiveInvariant` goes through the actions one by
one, with the counting lemmas about `Users` stated once.

**Quota** (`DocQuota_proofs`; `QuotaAssumption`): `TypeCorrect`, `PlanSlotsExact`
(`PlanSlots`), `PackageSlotsExact` (`PackageSlots`), `NeverBeyondLimit`
(`WithinLimit`) and `PackagesComeSecond` (`PlanFirst`), two action properties.

That the row in memory is the row of the table when a slot is recorded depends on
the lock taken before. `Known(c)` says what a transaction may rely on at each
point (a snapshot has no row the table lacks; past the lock, the row in memory
has the table's count and is locked; a chosen package is locked, approved and
has something left). `Frame(d)` is what a step of somebody else leaves alone of
transaction d, and `Framed` that `Known(d)` survives it; each action is checked
once for its own transaction (`OwnKnown`) and once for the others
(`OthersFrame`). `Unused` (nothing is used of a package before its approval)
carries `PackageSlots` through the approval.

**Shop** (`Shop_proofs`; `OrdersAssumption`, `PaymentsAssumption`):

| Theorem | Property |
|---|---|
| `OrdersTypeCorrect`, `PaymentsTypeCorrect` | `OrdersTypeOK`, `PaymentsTypeOK` |
| `DispatchFollowsOrder`, `LocksNeverCross` | `DispatchAgrees`, `NoLockCycle` |
| `OneSaleAnOrder`, `HistoriesTellAll`, `StockCoversConfirmed` | `SoldOnce`, `HistoryChains`, `ReservationCovered` |
| `OrdersImplementJourney` | `JourneyForward`: initial states and every step map to `OrderJourney` |
| `NeverOverpaid`, `StatusFollowsPayments` | `NoOverpay`, `StatusFresh` |
| `SaleTakesPayments`, `PreparedWhenReviewed` | `ConversionTakesAll`, `PreparedReviewed` |

Three of these say less than their names: `StockCoversConfirmed` ends when a commit overtakes a
check or one is not made (`overtaken`); `StatusFollowsPayments` when a transaction commits after
another changed what it read (`crossed`), which overlapping reviews and removals do;
`PreparedWhenReviewed` is about the requests that could read the setting and the payments.

`OInv` has the types, what a request that locked a row may rely on (`Held`), that
only what was confirmed has a branch, and `DispatchAgrees`, which is needed to keep
itself: a step of one row is decided on that row alone. `Once`, `Told` and
`Covered` carry the other three. For the payments, `PayInv` says that the
snapshot of a transaction nobody overtook is the table (`AllStand`), and that a row not
used yet is blank; what changes one row changes the sum by the difference, by
the lemmas of `Sums_proofs`.

**Sales** (`SaleBook_proofs`; `BookAssumption`): `BookTypeCorrect`,
`SalesUndoneOnce` (`UndoneOnce`), `OneElectronicANota` (`ElectronicOnce`),
`VoucherBalances` (`VoucherAgrees`). The second and third are about documents nobody wrote after
reading them too early, the fourth about behaviours where nobody wrote any so (`raced`);
`SalesUndoneOnce` does not bound the stock of a sale with an accepted partial note, and rests on
no look at the sale before a refund: the code has none. `BookInv` has what never changes of a document
(`Origins`), what a request knows of the one it read (`Targets`) and, for as long as
nobody has written it, that it still holds (`Fresh`).

**Older queue** (`BillingQueue_proofs`; `QueueAssumption`): `QueueTypeCorrect`,
`LockAnswersForOne` (`OneHolder`), `AcceptedNotBuried` (`AcceptedNotDead`), and
`QueueKeepsPromise`: every step of the queue is a step of `JobQueue` or none, the
safety part of `JobsServed`.
`QueueInv` adds that a job in a list or a timer has attempts left (`Attempts`),
that who works on a sale has its lock, and alone (`Locked`), and that a failing
worker has seen no acceptance (`Unaccepted`). The refinement follows the one job that a
step moves: it stays in a list, a timer or in hands (`Carried`), or an outcome is written
(`Ended`); a stop loses what only that replica had (`StopMap`).

**Subscriptions** (`Subscriptions_proofs`; `SubsAssumption`), in four layers:

| Theorem | Property | Layer of the invariant |
|---|---|---|
| `SubsTypeCorrect` | `SubsTypeOK` | `Basics`: types, the payment a review has locked (`Held`), what it remembers (`Remembered`), the statements an evaluation has still to write (`Planned`) |
| `CyclesSettledOnce` | `SettledOnce` | `Settled`: one payment waits for a cycle (`OneWaits`), a waiting payment's cycle is in review (`Reviewed`), what a review recalls of a cycle and a revert of what was there before (`Recalls`) |
| `ReviewsHaveReceipts` | `ReviewHasReceipt` | the same |
| `SuspensionsAreLate` | `SuspendsOnlyLate` | `UpToDate`: who rejects or evaluates remembers the end that is in force, unless an extension or a revert passed it |
| `NoDaysForFree` | `NoFreeDays` | `Chain`: approvals have turns, the latest revert undoes the last one (`Latest`), and each remembers an end that was given or paid before it (`Backed`) |

Two things came out of these proofs. `SuspendsOnlyLate` as it was first stated held on
the instance and not in general: approving an older cycle after a later one moves the
end of the subscription *back*, a revert then raises it again while a rejection that read
the lower end is open; so a revert, like an extension, passes those at work. And
two checks in the code are redundant: given that one payment waits for a cycle
at most, the check of `guardBillingCycleApprove` for another approved payment and the
branch of a rejection for a duplicate of a paid cycle are never reached.

**Sums** (`Sums_proofs`): that `SumOf(f, S)` exists, is a natural and changes by
one summand, for every finite set. The library's induction takes an operator, so the
induction is done first-order: the subsets for which the fact fails have, when there is one, a
smallest (`SmallestSubset`, from the well-foundedness of strict inclusion on finite sets).

Only model-checked: `AcceptanceSurfaces`, `JobsDrain` and the liveness of `JobsServed`, which
rest on fairness (ENABLED is beyond the prover), and the six violations. Assumed
nowhere, and so not in the proofs: that the facturador, Redis or a process answers.

## 5. Not modelled, and the plan

Inside what is modelled, left out on purpose:

* Emission: payloads, audit rows, the selection by age of the reconciler, and the write
  `EnrichSalesBillingStatus` makes when sales are listed (`effective.go`). Two
  hazards have no property: an emit call whose answer and webhook are both lost
  (nothing in the code promises anything then) and a manual wait longer than the
  lock's 45 seconds (with it `MutualExclusion` fails at once).
* Older queue: rejections and errors of the Redis commands themselves, which can also lose a
  job (`queue.go:217`, `queue.go:244`).
* Shop: several products in an order, amounts of an order, returns to stock by
  hand. The closing of a cash session against a refund and a serial
  number sold twice are not looked at.
* Book: several notes may be made of one invoice, and a partial note restocks at every
  repeated acceptance (`returned` shows it, no property bounds it); debit notes; a refund of
  a cash movement that is no income of a sale, which `ApplyPendingRefund` accepts; an
  invoice issued from a nota and voided returns no stock, and its cash goes by
  the older path; a failure between `Cancel` and `ReverseApplications` leaves the
  deduction in place. Bank movements and which session is open are left out.
* Subscriptions: amounts, several plans and their change, `Suspend`, `Cancel`,
  `AdjustValidity` of the panel, cancelled subscriptions; automatic suspension is taken as
  on, and `EnsureCycle`'s read and insert as one step. A cycle that was annulled
  cannot be issued again (unique index).

Not modelled: fleet migrations, tenant cache, restaurant, catalogue, quotations,
chatbot, dashboards, helpers; `PROJECT.json` says why for each. The map covers
the core of the program, not its breadth: most of the code left is one table and one
handler, where a model over time says nothing a unit test does not.

Next, in this order:

1. Fleet migrations (`pkg/database/migrations.go`, the runner and its lock): which
   version a tenant is on while several replicas migrate and one dies.
2. Series and correlatives: two sales, one number; gaps after a rollback.
3. Cash sessions against refunds and payments; then the serials.
4. Restaurant: a table's open account while its lines move, split and are charged.
5. Proof: that the lock of `FiscalEmission` implements an abstract lock (acquire,
   release by the holder) under the hypotheses of `SendsAlone`.

Left out for good: payload building, PDF and XML, catalogue forms, dashboards,
language-model agents, e-mail.
