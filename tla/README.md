# Formal models of the license application

TLA+ models of the parts of this application that keep promises to somebody:
where money turns into licenses, where a license is counted and checked, and
where an account or the catalog is changed by several people at once. Each
module is translated from the TypeScript under `src/app`, `src/commands` and
`src/sdk`. TLC checks small instances; TLAPS proves the main safety properties
for every value of the constants.

    tlc -workers 2 -config Purchase.cfg MCPurchase
    tlapm PurchaseProofs.tla

Contents: [1 the system](#1-the-system), [2 modules](#2-modules),
[3 runs](#3-runs), [4 disagreements](#4-where-the-code-and-its-comments-disagree),
[5 proofs](#5-proofs), [6 what is not modelled](#6-not-modelled).

## 1. The system

A Node (AdonisJS) application on Postgres. A web process answers the store, the
customer portal, the back office, the public license API and the provider's
webhooks; a second process, `queue:work`, runs background jobs with up to
`QUEUE_WORKER_CONCURRENCY` (default 5) in flight; a scheduler dispatches periodic
jobs. The processes share nothing but the database (and, for files, an object
store). Lucid models are read, changed in memory and saved, and `save()` writes
the columns that differ from the loaded values with an `UPDATE ... WHERE id`.
That one fact makes most of the interesting behaviours: **whatever a handler read
before an `await` may be stale when it writes.** Some paths lock a row
(`FOR UPDATE`) and read again; others do not.

| Component | State | Operations | Interacts with | Hard because | Correct when |
|---|---|---|---|---|---|
| Job queue and worker (`queue/queue_service.ts`, `commands/queue_work.ts`) | `jobs` rows: `reserved_by`, `reserved_at`, `attempts`, `failed_at`, `available_at` | dispatch, reserve (reclaim, list, claim, stamp), complete, fail, retry, discard | everything asynchronous | several workers, timeouts of live workers, crashes between statements, stale copies | a job is run at least once, by one worker while its reservation holds, leaves only when done or discarded by hand, always settles |
| Activations (`licensing/activation_service.ts`) | `license_activations`, `licenses.max_activations`, `products.count_dev_sites` | activate, deactivate, set the limit | license API, staff, portal | concurrent calls and retries, unlocked removals, limits lowered below use | one row per instance, no slot beyond the limit, no holder locked out |
| Webhook endpoint, ledger, replay (`controllers/billing/webhook_controller.ts`, `queue/jobs/process_webhook_job.ts`) | `webhook_events` | store and queue, apply, mark, replay | queue, handler | at-least-once delivery, any order, replays beside jobs | everything received is applied or parked where people see it, and the ledger says applied only then |
| Webhook handler (`billing/webhook_handler.ts`), license billing (`commerce/license_billing.ts`), orders (`commerce/order_service.ts`) | `orders`, `payments`, `subscriptions`, `licenses` | fulfil, apply payment, refund, dispute, subscription; sync expiry | license service, provider | several transactions per event, retries after half the work, order of events | what was paid for has its license, what was refunded has lost it, late events cannot undo newer ones |
| Reconciliation (`billing/reconciliation.ts`) | copies of `subscriptions`, corrections | scan, correct status, period, expiry | provider, license billing | acts on copies read before network calls | the database ends up saying what the provider says |
| License service (`licensing/license_service.ts`, `licensing/validation.ts`) | `licenses` | issue, suspend, resume, revoke, change expiry and limit, check, reissue | all of the above | mutates a loaded copy | revocation is final (it is not, section 4) |
| Seats, invitations, membership, plan limits (`organizations/`, `billing/plan_service.ts`) | `users`, `invitations`, `organizations` | invite, resend, accept, revoke, remove, transfer, leave, delete | API keys and storage share the organization lock | last seat, converted seats, two kinds of locks, ownership on stale copies | never more members and invitations than seats, one owner, a withdrawn link admits nobody |
| Files (`storage/file_service.ts`, logo, purge job) | `files`, `storage_used_bytes`, objects in the bucket | upload, delete, replace, purge | organization lock | bucket and database are two systems; double delete and counter on copies | every live row has its object, the limit holds, what is deleted is purged |
| API keys and usage (`api/`, `queue/jobs/rollup_api_usage_job.ts`) | `api_keys`, `api_requests`, `api_usage_days` | create, revoke, count, roll up, prune | organization lock, queue | the last key; a day is pruned by age and counted by calendar day | never more keys than the limit; a day's total never falls |
| Traffic buffer (`licensing/traffic.ts`) | in-memory counters and addresses, `license_api_days`, `license_ip_days` | hit, saw, flush, terminate | license API | overlapping flushes, failed writes put back, several processes on one row | every request counted once, nothing left behind |
| Client SDKs (`sdk/js`, `sdk/php`) | a cached record in the customer's installation | activate, validate, deactivate, offline grace | license API | calls in flight that save a record built from an old one | a record of one piece, a yes never older than the term it is given for |
| Catalog and releases (`catalog/catalog_service.ts`, `catalog/release_service.ts`) | `products`, `plans`, `entitlements`, values, `releases`, builds on the disk | edit, archive, delete, upload, publish, yank, discard | storage, license API | rules decided on copies; the build and its row are in two places | what has shipped is permanent, an offered release has its build and is the newest |
| Tokens, two-factor (`auth/`) | tokens, recovery codes | consume | users | copies of the code list | single use |
| Support, notifications, receipts, abuse, scheduler, search, metrics | their own rows | form handling, mail, reads | | mostly sequential | |

`PROJECT.json` lists every component with its status, and every hazard with the
line where it bites and the properties that would catch it.

## 2. Modules

| Module | Models | Checked by | Proved in |
|---|---|---|---|
| `JobQueue` | queue service, worker loop, staff actions | `queue_races` | `JobQueueProofs` |
| `AtLeastOnce` | the contract of `queue/contracts.ts`; abstract specification of `JobQueue` | as a property of `queue_races` | `Implements` |
| `Activation` | `ActivationService` and the edits it races with | `activation` | `ActivationProofs` |
| `Purchase` | ledger, job, replay, order, payment, refund, dispute, license status | `purchase`, `purchase_revoked` | `PurchaseProofs` |
| `Subscription` | ledger, job, replay, subscription row, watermark, expiry, reconciliation | `subscription`, `subscription_half_done` | `SubscriptionProofs` |
| `Organization` | seats, invitations, API keys, membership under the account's lock | `organization` | `OrganizationProofs` |
| `Quota` | what a counted limit promises; abstract specification of `Organization`'s seats and of its keys | as properties of `organization` | `SeatsWithinLimit`, `KeysWithinLimit` |
| `Storage` | uploads, deletions, logos, the purge, bucket and database | `storage` | `CounterProofs` |
| `SdkClient` | the SDK's protocol composed with the license API's check | `sdk` | `SdkClientProofs` |
| `Traffic` | the in-memory buffer of the license API and its flush | `traffic` | `CounterProofs` |
| `Faults` | what `Storage` and `Traffic` share: crashes and failures, a bounded number of times | `storage`, `traffic` | - |
| `Catalog`, `Versions` | products, plans, entitlements, releases; the order of versions | `catalog` | `CatalogProofs` |
| `ApiUsage` | request rows, roll-up, prune | `usage_prune` | - |

`MC*` modules name the finite sets of an instance; each `.cfg` fixes the bounds.

**One action is one statement or one committed transaction.** A transaction that
holds a row lock from its first read to its commit (`OrderService.fulfil`) is one
action, unless what it waits for is the point (`Organization`); a transaction that
reads without a lock and saves (`upsertSubscription`) is two, because on
Postgres' default isolation another handler can commit in between. Where a
handler keeps a model instance over an `await`, the module keeps a `copy`, and a
save writes only the columns that differ from the copy (`Dirty`).

### JobQueue
State: the rows of `jobs` (`row`), where each worker is in its loop (`pc`), what
it has read (`expired`, `candidates`, `copy`) and how far it is with each job of
its batch (`phase`). `reserve()` is `ReadExpired`, `Reclaim`, `ListCandidates`,
`Claim` (the compare-and-swap on `reserved_by`) and `Stamp` (the save of
`reserved_at`); the handler is `HandlerSucceeds` / `HandlerThrows`, then
`Complete`, or `FailSave` and `FailRelease`. A worker may `Crash` between any two
of them. Time is what the code compares: `due`, and a reservation that is recent
or old; `ReservationAges` may strike while the worker is alive. Several staff open
a failed job (`StaffOpens`) and retry or discard what they loaded
(`StaffRetries`, `StaffReleases`, `StaffDiscards`).

`AtLeastOnce` sees of all this where a job is, which jobs a handler has finished,
and who has found a job failed and is about to throw it away (`Open`). A job leaves
by `Finish`, or by `Discard` of a job that is parked. The comment at
`job_controller.ts:41-43` promises no more than that; the code does more, and the
contract names it: `DiscardOvertaken`, by somebody who found the job failed before
a colleague put it back. Nobody else takes a queued job away.

### Activation
`activate()` is `Lock` (`FOR UPDATE` on the license), `ReadProduct`, `ReadRows`
(with the decision whether to refuse, refresh, revive or create) and `Write`,
which commits and unlocks. Removal (`Load`, `Remove`) takes no lock. Staff change
the limit, which waits for the lock, and the product's rule on development sites,
which does not. `touch()` writes `last_seen_at` only and is left out.

### Purchase
One order of one item and its payment and license; the events are the payment, a
partial refund, a full refund and a dispute, in any order, each possibly retried
and replayed. A process is a job slot (`Workers`) or a web request or command that
replays (`Replayers`): a replay runs the handler beside the workers whatever
`QUEUE_WORKER_CONCURRENCY` is, asks nothing of the ledger and has no job to
complete. `at[p]` is the stage of a handler; the stages follow
`WebhookHandler.apply` statement by statement. A handler that throws (`GiveUp`)
counts its job's attempts up from the number it read and parks the job at
`MaxAttempts`, as `fail()` does; staff put a parked job back (`Retry`); a process
that dies counts nothing. Amounts are nothing, a part, or the price. A refund
webhook carries no order amount, so a payment it creates has amount 0 (`Merged`),
as in `applyPayment`. `ended` remembers that the license was revoked, `crossed`
that a partial refund was saved over a larger one it had not read (`Outdone`). The
queue's reservations, and staff discarding a parked job, are in `JobQueue` only:
here a parked job stays or is retried. Left out: receipts, mails, the account an
order is attributed to.

### Subscription
The provider's subscription goes through versions; each sends a webhook with the
state of that version, and webhooks may be lost. `Guard` is the watermark check
(the event occurred more than a second before the row was written), `Read` and
`Save` the upsert, `Fulfil` the order's license, `ReadLicense` and `SaveLicense`
`syncExpiry`. The sweep is `Look`, `Ask` (the provider), then `Check`,
`CorrectStatus` or `CorrectPeriodEnd`. Workers, replays and sweeps run beside each
other, any number of each. The watermark compares clock instants: `aged` counts
the versions older than a second, and a row remembers its value at the last write.
Three variables are history: `overtaken`, that something was written from an
outdated copy (`Outdated`: an upsert that the watermark would refuse by now, or an
expiry or period derived from a period the row no longer has); `halfDone`, that a
handler ended between its upsert and the fulfilment; `edited`, that staff set an
expiry. Abstractions: failures, replays and edits share one bound (`MaxExtras`),
below the attempts of a job, so that none is parked; every event carries the order's id; a period end is
never null (so `refetch` is not needed); the grace is one constant; suspension and
revocation are left to `Purchase`; two changes at the provider are more than a
second apart; trials and pauses are folded into active and canceled.

### Organization
Invitations, acceptances and new keys (`request`, one per slot) are transactions
with their statements as actions: `BeginInvite` / `BeginAccept` / `BeginKey`
check what the code checks first, `Supersede` locks the invitations a new one
replaces, `LockAndCount` waits for the lock on the account's row and counts, and
`CommitInvite`, `CommitAccept`, `CommitKey` or `Refuse` write and release
everything. `rowLock` and `lock` are Postgres' row locks. The membership changes
(`desk`) take no lock: `LoadTransfer`, `LoadRemove`, `LoadLeave`, `LoadDelete`,
`LoadRevoke` load models, and `Transfer`, `SoftDelete`, `DeleteOrganization`,
`Revoke` save them. Beside them invitations expire, keys are revoked and staff
override the limits. An address is a person; a row of `users` is `none`, an owner
or a member, and may be soft-deleted. `overtaken` is history: a membership request
was saved although the actor had lost the account, the target had left it, or the
target had come to own it since it was loaded (`Outdated`).

### Storage
An upload is `BeginUpload`, `Move` to the bucket, `LockAndCheck` (the account's
row and the limit), `Commit` (row and counter) or `Refuse` and `CleanUp` (the
object is removed again). A deletion loads its files (`BeginDelete`) and writes
them one by one (`Delete`). A logo uploads, deletes what it replaces and then
saves the account from the model it has had in memory all along (`SaveLogo`). The
purge lists what was deleted a month ago, removes the object, then the row. A
`Fault` is a process that dies or a call to the bucket that fails; `lost` remembers
the objects of uploads that ended so.

### SdkClient
The client's `record` (key, installation id, last answer, last good answer), the
calls under way, and the server: the facts of each license and the activated
installations. A method loads the record (`Begin`, `BeginFirst`), asks, is
answered in steps of their own (`CheckActivate` or `RefuseActivate` and then
`ServeActivate`, since the license is checked before the slot's transaction
begins; `ServeValidate`, `ServeDeactivate`) and saves a
record built from what it loaded (`Activated`, `Validated`, `Forget`). Any answer
may be unheard (`Offline`, `ActivateThrows`). Answers carry their age, which
`Tick` moves up to the longest of the three terms (`Oldest`): interval, minutes of
a remembered no, and grace are independent, as `validators/catalog.ts` leaves them. `lastYes` is history: how long ago the server last
said yes. The JavaScript and the PHP client follow the same protocol and both are
mapped; they differ when `deactivate` is refused by the server, which throws in
JavaScript before anything is forgotten (`Forget` is not taken) and is swallowed
in PHP. The clock of the client is taken to be right.

### Traffic
Every `await` of `flush()` is a step: it waits for the write under way, is woken,
takes the buffers, then for each row updates, inserts where nothing was updated,
and updates again where the insert lost the race; then the addresses. `Fail`,
`InsertFails` and `RecordFails` are the statements that throw, `Die` a process
that dies, `Terminate` and `Exit` the planned end with its last flush. History
variables (`served`, `twice`, `dropped`) say where a request may legitimately have
gone. The module's specification is `TrafficSpec`, its own names apart from those of
`Storage`, so that one module can prove about both.

### Catalog, Versions
A request (`desk`) opens copies and saves them: `OpenProduct`, `SaveProduct`;
`OpenPlan`, `UpdatePlan`, `SetPlanArchived`, `ReadDefinitions`, `SaveValues`;
`CreateEntitlement`, `DeleteEntitlement`; `OpenRelease`, `Publish`, `Yank`,
`Discard`. An upload is `BeginUpload` (the version is free), `MoveBuild`,
`CreateRelease` (unique index) or `RefuseRelease`, `RemoveBuild`; `Leave` is a
request that is refused, fails or dies. `Versions` has `CompareVersions`,
`Offered` and `PickLatest` as operators (the latter a recursive function, one
release after the other), and a reference order, `Precedes`, that says where one
version is older than another without finding the first difference. `Coerce` is what
`coerceEntitlementValue` does with a text, not the identity.

### ApiUsage
Time moves in half days, the least in which a calendar day and a window of age
differ. The nightly job lists the raw rows, overwrites the total of each of their
days, and prunes what is older than the retention.

## 3. Runs

| Run | Bounds | Shows |
|---|---|---|
| `queue_races` | 1 job, 2 workers with 1 job each, 2 staff, 2 attempts, 1 crash, 2 interventions (444 thousand states) | nobody else gets a job while its reservation holds (`HeldOnce`), attempts are counted right on stale copies, the queue implements `AtLeastOnce`, every job settles unless it is stranded between claim and stamp |
| `activation` | 3 instances, 4 rows, 2 calls, 2 removers, limits 1, 2 and none; symmetry | one row per instance, no slot beyond the limit, holders are not refused |
| `purchase` | all 4 events, 1 worker, 1 replayer, 1 staff, 2 attempts, 1 failure, 1 act by hand: replay, retry or license change (1.5 million) | processed is applied, a full refund is on the books unless a smaller one is saved over it, everything received is applied or parked in the end |
| `purchase_revoked` | all 4 events, 2 workers, nothing fails | **refutes** `RevokedStaysRevoked` |
| `subscription` | 3 versions, 2 periods, 1 worker, 1 replayer, 1 sweep, webhooks lost, 1 of: failure, replay, staff edit (1.9 million) | who entitles is licensed unless a handler ended half-way, only a write from an outdated copy moves an expiry back, row and license converge to what the provider says |
| `subscription_half_done` | 2 versions, 1 period, 1 failure | **refutes** `EntitledIsLicensed` |
| `organization` | 3 people, 2 invitations, 2 keys, 2 transactions, 2 membership requests, 1 or 2 seats, 1 key, up to the first overtaken save; symmetry (643 thousand) | seats and keys are quotas, one owner, no ring of waiting transactions, a withdrawn link admits nobody |
| `storage` | 2 files, 2 requests, size 1, limits 1 and 2, 3 kinds, 1 fault (121 thousand) | every live row has its object, orphans are lost uploads, the counter drifts at two places only, no upload beyond the limit, deleted is purged |
| `sdk` | 2 keys, 1 own and 1 other installation, 2 calls, 1 slot, licenses in order or revoked, interval 2, grace 1, a no remembered for 1; symmetry (1.5 million) | a record is of one key, a cached yes is within the interval and an offline one within the grace |
| `traffic` | 2 processes, 2 keys, 1 address, 1 timer flush beside the last one, 2 requests, 1 fault (408 thousand) | every request is in one place once, addresses are kept, nothing stays unwritten but what was put back |
| `catalog` | 2 requests at once, 3 in all, 2 slugs, 3 shapes, 2 texts, 2 definitions, 3 builds, 3 versions (1.1 million) | the offer is the newest and has its build, nothing goes back to draft, only outdated copies break what is permanent |
| `usage_prune` | 2 calls, retention of a day, 5 half days | **refutes** `TotalsStand` |

The type invariants of `JobQueue`, `Activation`, `Purchase` and `SdkClient` are
not properties of a run: they are theorems.

**Why the bounds suffice.** Two actors are the least that race and the code has no
step that three could take and two not: all copies are private and all tests are
on rows. Two attempts distinguish the last attempt from another. One failure can
fall between any two statements. Four rows for three instances leave one row to
spare for a wrong insert. Three versions are the first, a renewal or a failed
payment, and one more after it. Three people are the founder, a member to be
transferred to or removed and one more to be invited for the last of two seats;
two invitations are one and the one that supersedes it. Two files and a limit of
one or two bytes are two uploads that fit alone and not together. An
interval longer than the grace puts a cached yes within both, within the interval
only, and beyond both; the other order is covered by the proof. The versions of
the catalog are a release and two of its candidates that the order of texts would get
wrong (9 and 10); three builds are two uploads of one version and one of another.
The three shapes of a plan are sold for good, sold for good with a window of
updates, and sold for some days. No safety property that
holds rests on these bounds, since all of them are proved.

**Two handlers at once.** `purchase` and `subscription` have one job slot and one
replayer, which are two handlers of different kinds: `Begin` skips what the ledger
has, `Replay` does not. That is what `QUEUE_WORKER_CONCURRENCY=1` still leaves. Two
job slots beside each other are in `purchase_revoked` and, for any number, in the
proofs; none of the theorems assumes a single worker.

**A constraint.** `organization` follows a behaviour up to the first overtaken save
of a membership request (`NotOvertaken`), after which `OneOwnerUnlessOvertaken` has
nothing to say. The constraint keeps the run short; the other properties of this run
are theorems without it.

**Deadlock checking** is off where a system really stops: when every webhook has
been processed, every request has been made, or every bound is used up. The queue
and the activations never stop, and are checked for it.

### Fairness
`JobQueue`: the worker loop is an endless loop and a handler returns or throws
(weak fairness of each worker and each job in its batch); the clock moves; a staff
request that was begun ends. Dispatching, crashing and opening a page are nobody's
duty. `Purchase`: a handler in progress goes on, and an idle worker takes a job that
stays queued (weak). Nothing more is needed because attempts are bounded: a job that
keeps failing is parked, which is why the property is `ReceivedIsSettled`, applied
*or parked*, and why it is a matter of people what happens then. `Subscription`: the
sweep runs every night (weak); `Converges` asks nothing of the workers. Receiving a
webhook is never fair: a webhook may be lost. `Storage`: the
clock moves and the scheduler starts the purge every night (weak). `Traffic`: a
timer that is set fires and a statement returns (weak). The other modules state
safety only, and no fairness.

## 4. Where the code and its comments disagree

Three disagreements have a run of their own; the quoted lines are in `PROJECT.json`
under `findings`.

1. `subscription_half_done`: a handler that fails after the subscription was saved
   and before the order was fulfilled. Its retry is older than the row it wrote
   itself, is dropped as stale and marked processed; the paid order has no
   license, and the nightly sweep, which corrects status and expiry, issues none.
2. `usage_prune`: the prune removes the requests of the last retained day up to the
   hour it runs at; the next night's roll-up counts that day again and overwrites
   its total with less.
3. `purchase_revoked`: a dispute reads the license as active, a full refund revokes
   it, and the suspension is saved over the revocation (`license_billing.ts:86`),
   which staff can then resume. `license_service.ts:247-248` calls revoking
   permanent. A change of staff's that loaded the license before does the same.

Others came up while modelling. Each is inside a model, at the place where a
property has an exception, a bound or a word like "unless" - or outside of all of
them, which is then said.

* **Queue.** A worker that dies between the swap of `reserved_by` and the stamp of
  `reserved_at` leaves a job that nothing reclaims (`SettlesUnlessStranded`).
  `job_controller.ts:41-43` says that only ever a failed job is discarded, since
  "deleting something still due would silently drop work nobody knows is missing":
  the check is on a copy, and when a colleague has retried the job meanwhile, the
  discard deletes a job that is due or running (`DiscardOvertaken`).
* **Two handlers at once** (`Purchase`): two job slots, or a replay in the web
  process beside one. A partial refund that read the payment before a full one was
  saved overwrites the amount, the payment's status and the order's (`crossed`, the
  exception of `FullRefundIsOnTheBooks`), so an amount refunded can shrink in spite
  of the `Math.max` at `webhook_handler.ts:389`.
* **Writes from outdated copies** (`Subscription`, `overtaken`, the exception of
  `NeverCutShort`). `license_billing.ts:26-30` says a late event cannot shorten a
  license, because the watermark has dropped it; the guard and the upsert are not
  one step, and neither are reading and saving an expiry, so the older of two
  handlers can save last. `reconciliation.ts:54` says that nothing the sweep
  corrects can shorten anything; `correctStatus` re-derives the expiry from the
  period the sweep read before it asked the provider, and a renewal applied in
  between is taken back. The next night repairs both while the subscription renews
  (`Converges`).
* **Partial refund first.** Applied before the payment row exists, it creates the
  payment with amount 0, and so counts as a full one.
* **Watermark.** It is when the row was written, not when the applied event
  occurred: an old event applied late shuts out a newer one that is waiting. The
  sweep repairs this (`Converges`).
* **Membership.** `membership_service.ts:48-50` says the account "is never observed
  with two owners or none". Two membership requests break that: a transfer to a
  member whose removal is saved in between leaves an owner who is deleted; two
  transfers from one owner leave two (`overtaken`, the exception of
  `OneOwnerUnlessOvertaken`; the property says there is no other way). Two
  invitations to one address begun together leave two live links (each takes its
  own seat). A deletion of the
  account that meets an acceptance leaves a live user in a deleted account. The
  address of a removed member cannot be invited again, its row being there.
* **Storage counter.** Two steps part it from the sum of the files: the second of
  two deletions of one file, and the save of a logo (`DriftHasTwoSources`).
* **SDK.** The interval of a product may be 720 hours and its grace 0 days
  (`validators/catalog.ts:57-58`): a cached yes is then trusted for longer than the
  grace, and a license is called valid without asking where an unreachable server
  would have made it invalid. `YesIsRecent` therefore states a term for each source.
  `activate` looks at the license first and takes the slot afterwards; a license
  revoked in between still gets a yes (`CheckActivate`, `ServeActivate`).
  A validation in flight when `deactivate` returns saves its record
  afterwards, and the forgotten key is back. Two overlapping first uses each make
  an installation id; the run gives the client one id, as an application that
  names it in the options does, and the proofs any set of them.
* **Traffic.** An insert that fails for another reason than a lost race drops its
  numbers (`dropped`); a write that fails half-way puts back what it has written too
  (`twice`) and sets no timer (`putBack`); an address it had not yet recorded is
  not seen again that day by this process (`SeenIsKept` speaks of runs without a
  fault); the last flush may return while another's write is under way, which then
  dies with the process.
* **Catalog on outdated copies** (`PermanentUnlessOutdated`, without its first
  line). A slug or a plan's billing changes after the product has left draft; two
  saves that are each sensible make a plan that is not (a term in days with a
  window of updates); a value is left under a definition that has been deleted or
  made again with another type; a draft that has just been published is discarded
  with its file. Two staff who publish at once move `published_at`. Versions "1.2"
  and "1.2.0" are equal in the order, and the unique index lets both in.
* **Outside the models.** The monthly rate counter expires after 20 days
  (`middleware/api_rate_limit.ts`). `monthToDate` is counted from rows kept 30
  days "and therefore" covers the month, which has 31 days at times
  (`api/usage_service.ts:26`). A customer's reply to a ticket sets a status its
  copy already has, so that it is not written, and is lost against a resolve that
  was saved meanwhile (`support/support_service.ts:164-188`). A recovery code can
  be spent twice by two sign-ins (`auth/two_factor_service.ts:93`).

## 5. Proofs

Assumptions are those of the modules, each named: bounds are numbers, NULL is no
identifier, the sets that are counted are finite, events are of the four kinds.
There is no bound on the number of jobs, workers, replays, sweeps, calls, files,
people, keys, versions or requests, and no theorem assumes that something happens
only one at a time or that nothing fails. What a property excepts is in its own
statement, mostly as a history variable of the module (`overtaken`, `crossed`,
`halfDone`) that records the one kind of step that breaks it.

**`JobQueueProofs`.** `TypeCorrect` strengthens the types by "a worker about to
stamp holds a claim" and "a job that is not parked has an attempt left", since
otherwise `FailSave` could count past the limit; `AttemptsRemain` is its second
half. `ExclusiveUntilLapsed` needs more: a holder of a job whose reservation never
lapsed is the worker in `reserved_by`, nobody lists it as expired, and a job being
completed has a finished handler run (`QueueInv`). `Implements` adds that a job
somebody is about to discard has been dispatched (`Opened`), and shows, one action
at a time, that a step is one move of `AtLeastOnce` or none; a stale discard of a
job that is queued by now is `DiscardOvertaken`, of one that has gone
`DiscardNothing`.

**`ActivationProofs`.** `ActInv` says that exactly the holder of the lock is past
its first statement, that the limit it read is still the limit, that the row it
will write is still of its instance (or that the instance still has none), and
that there is still room for a slot it will take: removals only ever make room.
The cardinality steps are in `CountingSets` and `CountedFinite`.

**`PurchaseProofs`.** `PurchaseTypes`, with lemmas on what a save writes
(`StatusOfType`, `MergedType`, `DirtyType`). For `ProcessedEventsAreApplied` the
invariant attaches to every stage of a handler the facts it has established
(`Paid`, `Refunded`, `CopiesFit`): a full refund past the payment means the
license exists, and at the mark that it has been revoked. None of these facts is
ever withdrawn (`Grows`), although the license's *status* is overwritten by races;
that is why this property is about the revocation having happened.
`FullRefundsStayOnTheBooks` adds what copies may still do to the rows, whatever runs
beside each other: as long as nothing was `crossed`, the amount given back only
grows (`Keeps`), no copy of it is ahead of the row, and a handler of the full refund
has by each of its stages written what that stage says (`Booked`).

**`SubscriptionProofs`.** The types, with `HeldFits`: who holds a copy holds a
state of a stored subscription (`SubInv`). For `OnlyHalfDoneGoesWithout`, a row that
entitles was saved by a handler, and either the license is there or some handler is
still about to issue it (`Served`), unless one ended in between (`halfDone`); a
license that is there stays (`HasStays`), whatever fails. `LateEventsNeverShorten`
rests on `Forward`: paid periods only grow (`Paid`), what a process carries or
received is one of the provider's versions (`Arrived`, `Carried`), and, as long as
nothing was `overtaken`, an event the watermark lets through has no shorter period
than the row (`Watermark`), and no copy and no license is ahead of the row, unless
staff edited it (`Behind`). `WriteForward` is the step that writes, `RestForward`
all the others.

**`OrganizationProofs`.** `OrgInv` says what a transaction still relies on when it
commits: the invitations it has locked are as it found them (`RequestFits`), the
account is locked by exactly the one that has counted (`Locked`), and what it
counted bounds what is taken now, because everything that takes no lock only gives
back (`CountFits`). The counts of members, invitations and keys then make every
step a step of `Quota` or a stutter (`SeatsWithinLimit`, `KeysWithinLimit`).
`NobodyWaitsForever` is about any set of transactions: whoever holds the account
waits for nobody, and whoever waits for it has no more rows to lock.
`OnlyTheInvited` follows from `RequestFits` and the locked row. `OneOwnerUntilOvertaken`
goes over the three ways a row of an owner is written: what a request has loaded is
still so when it is saved, or the save is recorded as overtaken, and acceptances
make members only.

**`CounterProofs`.** The two modules with a counter beside what it counts, and the
lemmas on sums over finite sets they share: that a sum of numbers is a
number, and how `SumFunction` changes when one term does (`SumChanges`). `StInv`: an upload's file is its own
and has no row, its object is there exactly when it has been moved (`UploadsApart`);
what has been loaded to be deleted or listed to be purged has a row and, for the
purge, is not live (`DeletedHaveRows`, `PurgedAreGone`); an object without a row is
under way or lost; who commits holds the lock and what it checked still holds
(`LockedFits`), since the counter only shrinks otherwise. `OnlyTwoStepsDrift` then
compares, action by action, what a step adds to `storage_used_bytes` with what it
adds to the sum of the counted files: a commit and the first deletion of a file move
both alike, whatever the files' sizes.

`TrafficInv`: beside the types, a call that is not writing has nothing left to
write, and one about to insert or to update again has the key it is at among those
left (`CallsFit`); without the latter a statement could end an entry that is not
counted anywhere. `RequestsCount` is the sum over processes, calls and the row, and
each action moves a number from one of its terms to another, or to `twice` or
`dropped`; a write that is put back moves every number of the call at once, and the
end of a process all of its own. `SightingsAreKept` follows an address from the
buffer to the row in the same steps. Both are for any number of processes, keys,
calls, addresses and faults.

**`SdkClientProofs`.** `SdkInv`: every answer, in the record, in a call or on its
way, is about the key and installation it is kept beside, and a yes in it is no
younger than the server's last yes to them (`About`); the clock ages both alike,
and a new yes makes the server's younger. `OnePiece` and `YesWithinTerm` are read
off it; the terms are any numbers, in no order.

**`CatalogProofs`.** Beside the types (a plan never holds a value that is not of
its type, which needs the lemma on `Coerce`), `BuildIsThere` with "a build whose
row is about to be inserted belongs to one request alone" and "one about to be
removed has no row". `NoWayBack`: a save writes the status only where it differs
from the copy's, and the rule lets a copy that is not a draft become none, so that no
save of any age writes draft over a row.
`PermanentOnFreshCopies` adds that what is or was published has its date, in rows
and copies (`Dated`), so that publishing again changes the status alone.
`VersionsAreOrdered` is about every version there is: the sign of `compareVersions`
is `Precedes`, which is transitive and irreflexive and leaves no two versions apart.
`NewestIsOffered` needs all of it: by steps along the list, the best of the first n
releases is one the channel offers that none of them is newer than (`NewestStep`, where
transitivity keeps the older ones beaten), every release is in the list whatever its
order (`OrdersListAll`, since there are finitely many), and what is published has its
date and its build.

**Induction.** The library's theorems of induction take an operator, which the
provers cannot instantiate. Sums, sequences and the recursive function of
`PickLatest` are here done with sets instead: the numbers for which something holds
are a set, and by `WFMin` and `NatLessThanWellFounded` a set of numbers that misses
one misses a least one (`NaturalsBySteps`). That a recursive function of this kind
exists is a lemma of its own (`SumsExist`, `PicksExist`).

**Only model-checked.** Every liveness property (`SettlesUnlessStranded`,
`ReceivedIsSettled`, `Converges`, `DeletedIsPurged`, `WrittenUnlessPutBack`):
fairness and `ENABLED` are beyond the prover. The three properties that are refuted
are of course not proved. All other invariants and action properties of the runs are
theorems.

## 6. Not modelled

* **Data.** Formatting, parsing, wording, signatures (`signer.ts`, `keys.ts`),
  payload parsing of the provider, PDFs. No property here tells them apart. What a
  signature attests - whose key, which installation, yes or no, when - is the
  envelope of `SdkClient`.
* **Single inserts under a unique index, and read-only pages**: registration,
  receipts, back-office lists, search, metrics, the numbers shown beside a limit.
* **Tokens, recovery codes, support tickets**: small protocols of their own; their
  hazards are listed and, where the code breaks, described in section 4.
* **Abuse detection** reads counts and inserts flags for a person to look at.
* **Scheduler, notifications, mail**: the scheduler dispatches once per tick, which
  is a dispatch of `JobQueue`; mail is an outgoing effect that no state here
  depends on. That a mail may be sent twice or not at all is not stated.
* **Libraries**: Postgres' row locks and unique indexes, the rate limiter's
  counters, the bucket and the payment provider are modelled as the code uses
  them and no further.
* Of modelled components: reissue of a license key, checkout and the account an
  order is attributed to, renewal-failure mails, the hosted application's own plan
  subscription (the same upsert as a licensing one), creating products and plans,
  prices, defaults of entitlements, clock skew and update checks of the SDK.
