# MeSell: TLA+ models

MeSell is a FastAPI and Celery backend over PostgreSQL and Valkey, with an
Angular frontend, with which sellers build catalogues for Meesho.
`src/backend/app` holds the server; a few operations live in
`src/backend/scripts`; the pages are under `src/frontend`. This project models
the parts of it whose correctness depends on the order of steps of several
actors: the AI budget, subscription billing, the export pipeline, the category
monitor, the sessions of a browser with several tabs, the images of a product,
and a product with its autosave draft. The last three include the page's side,
because there the hard part is what the page believes of the server. Each model
is checked with TLC on a small instance, and every safety property the passing
runs check is proved with TLAPS for every instance; liveness stays with TLC.

Paths below are relative to `src/backend/app` unless they start with `docs`,
`scripts` or `src/frontend`.

## 1. Inventory

One process model holds everywhere. A request handler runs in one database
transaction that `get_db` (`shared/database.py`) commits after the handler has
returned, and rolls back if it raises. What a handler does elsewhere before
that commit (Valkey, Razorpay, the bucket, the broker) is not rolled back.
Valkey runs one command or one Lua script at a time. Celery tasks are
acknowledged when they end (`task_acks_late`), a lost worker's delivery goes
back (`task_reject_on_worker_lost`), and a delivery held past the broker's
visibility timeout is delivered again (`workers/celery_app.py`).

| Component | State | Operations | Interacts with | Hard behaviours | Correct when |
|---|---|---|---|---|---|
| AI operations (`ai_ops/`) | two counters per Kolkata day and one reservation key per call, in Valkey; the call's attempt and cost | reserve, release, the three-attempt loop, record | Gemini; every module that asks for text | concurrent calls at the cap; two release paths; crash, key expiry, midnight, lost Valkey reply | the cap holds up to what calls cost beyond their estimate; nothing is charged twice; a call returns |
| Billing (`modules/iam/service.py`, `tasks.py`) | subscription rows, `users.plan`, webhook dedupe rows, payments | subscribe, cancel, eleven webhook handlers, `billing.reconcile` | Razorpay (calls out, webhooks in); `core/plan_guard.py` reads the rows | webhooks late, lost, repeated, reordered, concurrent; a pass over rows loaded before network calls; a killed pass | the plan and every row have a payment behind them; no late message takes a period back; the plan ends after the subscription does |
| Exports (`modules/export`) | export rows, sheets in the bucket, deliveries | request, task, poll | catalogue (product snapshot), bucket, broker | task before commit; repeated delivery; edits and deletions meanwhile; a failure that cannot be written | a ready row has its sheet; a pending row has a task |
| Monitor (`modules/monitor`, `scripts/scrape_category.py`) | snapshots, in-flight claim, notifications, served cache | gate, scrape, diff, fan-out, serve | catalogue and onboarding (triggers), broker, `core/cache.py` | overlapping gates; claim expiry under its holder; fan-outs out of order; reader racing an evict | scrapes are serialised; the newest change is announced; nothing false is |
| Sessions (`modules/iam`, `src/frontend/libs/core`) | allowlist of refresh tokens in Valkey; one cookie per browser; token, timer and flags of each tab | login, rotate, logout; silent refresh, retry after a 401, page load | MSG91, Google, Valkey; every page | tabs share one cookie and refresh at once; rotation against logout; lost and late answers; a load in the middle | a login holds one accepted token; the server accepts a token of the login a tab shows; a logout is final |
| One-time codes (`modules/iam`) | a record per phone in Valkey | send, verify | MSG91 | read, compare and write back in separate commands | a code is tried at most so often |
| Trial (`modules/iam`) | `trial_ends_at`, audit rows | start, expiry sweep | billing | two starts; a sweep that dies between users | one trial per user, one expiry notice |
| Limits (`core/plan_guard.py`, `core/middleware`) | sorted sets in Valkey, product counts | sliding windows, product cap | every route | count and reserve in two steps | no more than the limit passes |
| Catalogue (`modules/catalog`, `src/frontend/apps/mfe-catalog` form) | products, drafts; values, timer and save status of each form | create, patch, autosave, ready, delete; edit, suggest, leave, load | pricing, AI, exports | saves that overlap; a session that keeps what it read before a lock; two tabs and an API client on one row | a ready product is complete; the draft is the product last autosaved; "saved" means stored |
| Images (`modules/image`, `src/frontend/apps/mfe-catalog` uploader) | objects, rows, deliveries; what the page shows, its poll cycle | select, upload, re-upload, poll, load; precheck with retries | bucket, broker | two uploads to one slot; task before commit; a poll's answer after a reset | the verdict is about the bytes stored; a pending image has a task and is polled |
| Category, pricing, profile, dashboard, i18n | reference data, one-row writes, pure functions | reads and formulas | | none beyond single-row writes | formulas agree with their tables |
| Core (errors, tenancy, metrics, audit), adapters | none | wrapping | all | an audit row is lost when its write fails | |

`PROJECT.json` lists every component with its status, and every hazard at its
line.

## 2. Modules and how they correspond to the code

| Module | Role |
|---|---|
| `AiBudget` / `AiBudgetProofs` | the budget, its two Lua scripts, and `call_gemini` that drives them / theorems |
| `Billing` / `MCBilling` / `BillingProofs` | one user's subscriptions, Razorpay, the webhook router and the reconcile pass / definitions for the runs / theorems |
| `ExportPromise` | what a poller of an export may see: the abstract specification |
| `ExportPipeline` / `ExportProofs` | requests, broker, workers, bucket, product edits / theorems, among them that the pipeline implements `ExportPromise` |
| `Monitor` / `MonitorProofs` | one category: gate, claim, snapshots, fan-out, read-through cache / theorems |
| `SessionPromise` | what a refresh cookie promises: the abstract specification |
| `Sessions` / `MCSessions` / `SessionsProofs`, `SessionsTabsProofs` | one browser: its tabs, its cookie, the allowlist and its endpoints / symmetry and bound of the run / theorems about the allowlist, among them that it implements `SessionPromise`, and about the tabs |
| `Images` / `ImagesProofs` | the images of one product: page, handler, bucket, precheck deliveries / theorems |
| `Drafts` / `MCDrafts` / `DraftsProofs` | one product and its draft: forms, transactions, API clients / symmetry / theorems |

`PROJECT.json` "map" gives the lines of every definition. The conventions:

* **One action per atomic step of the code.** A Lua script, a committed
  transaction or one command of Valkey is one action; reads that a later write
  depends on are actions of their own when something can happen between.
* **Observers** are variables no action reads: `fresh`, `carried`, `charge`,
  `over` (AiBudget), `paid` (Billing, Razorpay's side of the ledger),
  `dropped` (ExportPipeline), `expired`, `missed`, `raced` (Monitor),
  `disturbed`, `ended`, `seen` (Sessions), `early`, `dropped`, `reset`, `quit`
  (Images), `saves`, `bypassed`, `loose`, `crossed` (Drafts). They name the
  causes a property excuses, so that everything else is a violation.
* **Bounds** are constants whose names start with `Max`; they appear as guards
  of the environment or as counts of faults, never inside the program's own
  steps. `MaxSlots`, `MaxPolls` and `MaxTries` of `Images` are limits of the
  program itself, made smaller.

### AiBudget

`Reserve`, `Refuse` and `ReserveReplyLost` are the three ends of
`check_and_reserve`; `Accept`, `Retry`, `Exhaust` and `SdkFail` the ends of one
SDK call; `Release` and `ReleaseLost` those of `release_reservation`. Every
operation formats the key with the date of the moment, so the counters in the
model are today's: `NewDay` sets them to zero and a release of yesterday's
reservation is taken from today's counter. Money is integer units; the
estimates and the costs are independent, since the code has no relation between
them.

### Billing

Subscriptions are numbered in the order of `created_at`. `Webhook(n)` is the
router serving one webhook alone. `WebhookBegin`, `WebhookReadPlan` and
`WebhookCommit` split it where its transaction reads: the row first; then, for
the handlers that touch the plan (`ReadsPlan`), `users.plan`, by a `db.get` that
flushes the changed row before it; then the commit. Nothing is locked by the
reads, so under READ COMMITTED another commit can fall into either gap.
`MaxOverlap` says how many webhooks may be split at once. A commit writes the
columns the handler changed relative to what it read (`Merge`, `MergePlan`), as
the ORM does. A row that is flushed is locked, and its entry in the partial
unique index on active rows makes others wait: `MayWrite` lets a writer go only
when the index takes its row and no flushed transaction is in its way.
Webhooks are never removed from `sent` and may be handled in any order or never;
`seen` is the dedupe table, which commits with the handler, so repeats are
no-ops. A webhook that finds no row is recorded all the same, and so is a
captured or failed payment that belongs to no order (`LeavesPayment`).

The pass loads Set 1 once (`mem`), fetches (`Fetch`, `FetchFails`), applies
(`Converge`, with the loaded row), and sweeps Set 2. `Converge` needs no split:
its flush locks the row before the user is read, and the plan it reads only
decides whether an equal value is written again. `ConvergeRefused` is the way
the pass ends when the index refuses its write: the except clause reads an
expired attribute and raises out of the loop.

Razorpay's life cycle is written from what the adapter calls and the webhook
handlers expect of it. It mails the checkout link of a subscription itself
(`customer_notify` in `adapters/razorpay.py`), so a subscription may be
authenticated, paid and cancelled before its row is committed, or without one;
an order is paid by the client that got its id in the answer (`Payable`). A
charge has a payment leg of its own (`RzpCaptureCharge`), a payment may fail
(`RzpPaymentFails`), and a subscription may be paused, resumed or expire, which
only a pass learns of. A period reaches at most `MaxNow - 1`, so that every paid
period can lapse inside the bound.

### ExportPromise and ExportPipeline

`Initiate`, `Enqueue`, `Commit`, `RequestDies` are the request and its
transaction: the task is enqueued before the commit. A worker goes from
`lookup` to `snapshot`, `upload`, `mark` and `ack`; `failing` is the except
clause. The contents of a sheet (columns, enums, compliance shapes, round trip)
are the boolean `fits`, drawn again by every edit; `edition` tells which state
of the product a sheet shows. The ZIP branch cannot be reached: the format hint
is read with a coroutine that nobody awaits. `ExportPromise` has the row and
the stored sheets only, and `Promise == INSTANCE ExportPromise WITH stored <- ...`
is the refinement mapping.

### Monitor

A snapshot's contents are a number: equality stands for equality of content
hashes and distance for the drift the diff thresholds look at, so `Verdict` has
the three outcomes of `diff_category_snapshot`. `TakeScrape` reads freshness,
`Claim` is `SET NX EX`, `Insert`, `Diff`, `Evict`, `Announce`, `Release` are the
steps of `run_dedupe_gate` in their order; `Release` deletes the key whoever set
it. `FanoutLatest` and `FanoutNotify` are the two reads of the fan-out, each
with a snapshot of its own. `ReadFetch` and `ReadStore` are the two halves of
`get_or_set`, with any number of readers (readers that hold the same snapshot
are one). The category's sellers are told in one transaction and count as one
audience. Time enters as `GrowOld` (the TTL is a month, a task takes minutes,
so it passes while no task runs), `OrphanExpires`, `HeldClaimExpires` and
`CacheExpires`.

### SessionPromise and Sessions

A refresh token is its number in the order of issue and `origin` its login. The
server's side of a request is one step (`Serve`): rotation is one Lua script
over the key the lookup found, and a logout is one DEL. A request and its
answer are two more steps, so answers arrive late, in any order, or never; its
cookie is the one in the browser when it leaves, and its answer sets or clears
the one cookie of all tabs. A tab has the state of `AuthService`: `_token`,
`_loggedOut`, `_refreshInFlight`, the refresh timer; the interceptor's retry,
the forced logout, the silent refresh and the load are its actions.
`Promise == INSTANCE SessionPromise WITH ...` maps the allowlist to one
credential per login.

### Images

An upload is a number that stands for its bytes and for the row it inserts.
`Look`, `Store`, `InsertAndEnqueue` and `Commit` are `upload_image`: the slot is
looked at first, the object is stored at the slot's path before the insert, the
task is enqueued before the commit, and `RequestDies` may follow any of them. A
delivery goes through `Lookup`, `Download` and `WriteVerdict`; `DownloadFails`
retries until `MaxTries`, `TaskFails` ends it, `WorkerLost` and
`DeliveredAgain` bring it back. What the checks say of a file is its `good`. A
poll is a request that reads what is committed (`PollServed`), an answer that
replaces what is shown (`PollAnswered`), and a count up to `MaxPolls`.

### Drafts

A value is the number of the edit that gave it and `kind` its worth: filled,
blank or invalid. `Read`, `Update` and `Finish` are `patch_product`: the reads,
the JSONB merge that takes the row's lock, and everything after it with the
commit, which nobody can see inside. The session keeps the status it read
before the merge. A form merges its edits into an autosave after the debounce
(`PerformAutosave`), which does not wait for the one before. `ApiPatch` is a
client that sets the status or fields without the autosave header: no page of
this repository sets `ready`.

## 3. Runs

States are distinct states; a run takes between a few seconds and three and a
half minutes with two workers.

| Run | Asks | Result |
|---|---|---|
| `budget` (478k) | cap, ledger, single and whole charging, calls end | all hold |
| `budget_heals` | `PendingSelfHeals`: the module's docstring on self-healing | violated |
| `billing` (721k) | one subscription, four webhooks, fewer beside a fault or another rare case: plans, rows and cancellations have their cause; late webhooks leave a row over and take no period back; the plan ends even if every webhook is lost | all hold |
| `billing_two` (1.2M) | two subscriptions, recurring and lifetime, webhook transactions that overlap between any two of their steps and roll back | rows stay backed; a recurring one takes the plan from the lifetime one only through a transaction that read its own row as active |
| `billing_reactivate` | `ReconcileNeverReactivates`: the docstring of `_reconcile_one` | violated |
| `billing_sweep` | `SweepEventuallyDowngrades`: the comment in the cancelled handler | violated |
| `export` (325k) | two exports, two workers, two faults | sheet behind every ready row, a task behind every pending one, the promise, settling |
| `monitor` (1.1M) | three scrapes on two workers, one fault, readers; claims end and changes are announced | overlap, lost or false announcements and stale reads only from named causes; both endings hold |
| `sessions` (1.7M) | two tabs, two logins, three tokens, two requests at once, a lost answer or a load | one accepted token per login and the cookie holds it; tabs keep, renew and end their session; the promise |
| `images` (767k) | two uploads to two slots, one fault, one load | verdicts of the bytes stored, tasks behind pending rows, polls behind pending slots, prechecks settle |
| `images_reupload` | `ReuploadRestartsPolling`: the comment of the uploader | violated without any fault |
| `drafts` (2.1M) | two tabs, an API client, two requests at once, one fault | ready is complete, the draft follows, "saved" is stored, except for named causes |

**Why the bounds are enough.** *Budget*: two calls and cap 3 with estimates and
costs 1 and 2 reach a full cap, a refusal, an overrun, a release larger or
smaller than its reservation, an expired key and a midnight in the middle of a
call; a third call adds no kind of conflict because the scripts are atomic.
*Billing*: four webhooks, three of them late or lost at once, cover an
activation pair and any two that follow.
`FewRareCases` makes room for each rare case by taking webhooks away: one for a
fault (a failed fetch or a dead pass, which a next pass repeats), one once a
charge has a payment leg, two beside a pause or an expiry, three while Razorpay
has moved a subscription whose row is not there yet. No step of the pass or of
the clock changes these sums, so what fairness asks for never leaves the bound.
`NoRareCase` leaves them out of `billing_sweep`, whose counterexample needs
none. The cycles of `billing` let a period be renewed and lapse. Two
subscriptions are what the unique index and the "other entitlement" of the sweep
can tell apart; `billing_two` stays in the first cycle (`FirstPeriod`), with
three webhooks, or two beside a split transaction or a fault, and a tier that is
only changed to. `Overtaken` adds the case in which a subscription is activated
and cancelled while a lifetime order is captured, with four webhooks and a split
transaction: there the exception of `LtdNotReplaced` is reached. One split
transaction beside atomic ones gives every stale read; the theorems cover any
number.
*Export*: exports
interact only through workers and the product, so two suffice; two faults allow
a repeated delivery whose run then loses its failure. *Monitor*: contents 1 and
2 with threshold 2 give an equal capture, a change within the thresholds and a
first capture; three snapshots are needed for a superseded fan-out and for a
prior row that is not the one the gate saw; two workers overlap. A change
beyond the thresholds only takes branches away; the theorems about the others
cover it.
*Sessions*: two tabs compete for one cookie, three tokens let a rotated token
be rotated again or be followed by a second login; a behaviour loses an answer
or reloads a page, not both (`OneMishap`). *Images*: two uploads compete for a
slot or fill two; two polls and two tries reach both caps. *Drafts*: one
compulsory and one free field, two requests at once; two loads let a form come
back after its draft changed.

The tabs and the request slots are symmetric in `MCSessions` and `MCDrafts`:
no action or property prefers one, and no property there is temporal beyond an
action property.

`CHECK_DEADLOCK FALSE` stands in every configuration because the bounds let a
behaviour end: calls are over, the triggers are used up.

## 4. Fairness

* `AiBudget`: each call in flight keeps stepping. The SDK call has three
  transport retries and then raises, and the coroutine that awaits it is
  scheduled again. Crashes are excused: a gone call is finished.
* `Billing`: `PassStep` and `Tick` only. Beat starts a pass every six hours;
  nothing obliges Razorpay, the seller or a webhook to do anything.
* `ExportPipeline`: `WorkerStep` as a whole: workers keep consuming their
  queue. Requests are not fair: a request that never commits is allowed.
* `Monitor`: `WorkerStep` as a whole, and `OrphanExpires`: Valkey expires a key
  whose TTL has passed. Readers and triggers are not fair.
* `Images`: `TaskStep(d)` for each delivery: the worker pool takes every
  delivery in the end and runs what it took. The seller, the page and the
  handlers are not fair: a POST that never ends is allowed.
* `Sessions` and `Drafts` state safety only: a tab may be closed or asleep at
  any moment, so nothing obliges it to send a request.

## 5. Proofs

All theorems hold for every value of the constants that satisfies the module's
named assumption, and none assumes a bound larger than zero except
`MaxEdition` and the program's own limits in `Images` (slots, polls, tries).
Every theorem comes from an inductive invariant with the three facts
`Init => Inv`, `Inv /\ [Next]_vars => Inv'`, `Inv => property`, with one step or
lemma per action; where properties need different strengthenings, the invariants
are stacked, the later ones proved under those before them.

| Module | Assumption | Theorems | Why the property alone is not inductive |
|---|---|---|---|
| `AiBudgetProofs` | naturals for cap, amounts, days | `TypeCorrect`, `CapHolds`, `NoOvercharge`, `EarlyAnswerWhole`, `LedgerBalances` | `ChargedOnce`: the amount due at a release is at most the call's cost, and nothing was charged before that release, so no call is charged twice; `Balanced`: a call that has not reserved is not in today's sum, and the sum is over a finite set although `Calls` may be infinite |
| `BillingProofs` | no tier is called "free", "none" or "unread" | `TypeCorrect`, `PlanIsBacked`, `RowIsBacked`, `CancelIsBacked`, `PeriodNeverRewinds`, `LtdKeepsPlan`, `OverStaysOver` | a webhook writes what its event says onto a row and a plan read earlier and a pass writes an answer onto a row loaded earlier: `EventInv`, `TxnInv` and `PassInv` say of everything in transit what Razorpay has already done, its payments and its periods. `LtdInv`, on top: the row of a captured lifetime purchase stays active, so the unique index keeps other rows from being activated, and it is flushed before the plan is read, so no other row can be flushed active under it; a lifetime row a transaction read as active is active still (`ReadsWell`). `FreshInv`, for the periods: a webhook in flight is in flight once and nobody has processed it |
| `ExportProofs` | at least one edition | `TypeCorrect`, `ReadyIsStored`, `StoredIsCommitted`, `PendingHasDelivery`, `PipelineKeepsPromise` | what a worker has established depends on the step it stands at (`Progress`), and a delivery exists from the enqueue on, before the row does (`SentIsCarried`) |
| `MonitorProofs` | finitely many workers, none named like a sentinel | `TypeCorrect`, `ScrapesSerialised`, `ChangeIsCarried`, `StaleHasCause`, `NoticeIsEarned` | a late holder may delete another's claim: the count of holders against expiries is inductive only with `ClaimNamesHolder`, and a lost fan-out hands its hash back only with `Shape`, which ties the step a task stands at to its kind and hash; `Noticed` gives every queued or running fan-out its evidence, a snapshot with other contents, which later captures never take away |
| `SessionsProofs` | no tab or slot named like a sentinel | `OneTokenHolds`, `AllowlistKeepsPromise` | that logins are numbered without gaps (`Dense`) makes a new login the promise's next session, and one token per login makes `credential` well defined |
| `SessionsTabsProofs` | the same | `SessionsTypes`, `TabsFollow`, `LiveHeld`, `TabsRenew`, `LogoutsStick` | an answer is applied to a tab and a cookie that moved since the request left. Four layers: `Base` (what each kind of request carries, that a tab joins only its own refresh, that a booting tab has no other request), `Agree` (what a tab shows against what its session is, and whether a request or a timer will renew it), `Unended` (a login no tab ended keeps an accepted token), `Holds` (that token is the cookie, or travels with the only session request under way, unless the login was disturbed) |
| `ImagesProofs` | at least one slot, poll and try | `VerdictHolds`, `PendingCarried`, `PendingPolled` | a verdict is right only if every delivery in flight carries the bytes of its own image (`Deliveries`), every POST in flight has stored its object or was early (`Posts`), and an enqueued upload has a delivery before its row exists (`SentIsCarried`); `Polls` ties the shape of the cycle to the page |
| `DraftsProofs` | compulsory fields are fields, no tab or slot named like a sentinel | `TypeCorrect`, `ReadyComplete`, `DraftFollows`, `SavedStored` | what a transaction writes at its end rests on what it read: `Locking` says that who has merged holds the lock and that its merge is of the current row, `Carries` what a request brings; `Tracking` says that one save under way carries what its form shows |

`PipelineKeepsPromise` and `AllowlistKeepsPromise` are the refinements: every
step of the detailed specification is a step of the abstract one or leaves its
variables alone, under `IInv`.
`ScrapesSerialised` counts with the cardinality theorems of the library.

Two results rest on an induction over data, which the library's induction
theorems cannot be used for here. Both argue by a least counterexample instead,
and take from the library only that strict inclusion of finite sets is
well-founded. `LedgerBalances` needs that a sum over a finite set does not depend
on the order in which `CHOOSE` picks the members: a set least for inclusion among
those where it does is refuted by removing two members in both orders.
`NoticeIsEarned` needs that a content which differs from an earlier snapshot
follows a different one somewhere: the nearest such position is adjacent.

Three properties were changed by the attempt to prove them.
`LtdNotReplaced` had been stated without exception and was false: a webhook of a
recurring subscription can read its row active, wait while that subscription is
cancelled and the lifetime order captured, read the plan before or after the
capture, and commit its own plan over "ltd". That is now the exception of the
property, `billing_two` reaches it, and the theorem says that there is no other
way. The same exception of `WebhooksRespectOver` is needed only where webhooks
overlap, which its run does not have and its theorem does.
`SessionFollowsTab` excused disturbed logins; the proof showed that it need not,
so the excuse is gone.

Only model-checked: `CallsFinish`, `CancelEventuallyDowngrades`, `ExportSettles`,
`ClaimEnds`, `ChangeIsAnnounced` and `PrecheckSettles`, the properties under
fairness. Liveness and ENABLED are out of the prover's reach.

## 6. Where code and documents differ

Four differences have a run of their own; `PROJECT.json` "findings" quotes the
lines.

1. A crashed AI call never gives back what it had pending (`budget_heals`).
2. The reconcile pass can write a cancelled row active (`billing_reactivate`).
3. An unpaid created row keeps a lapsed plan for ever (`billing_sweep`).
4. A re-upload never restarts the polls: the server answers 409 to a slot that
   has a row, and the slot stays pending on the page (`images_reupload`).

Others met while modelling, built into the actions so that the properties hold
in spite of them, without a run:

* Billing. A charged webhook that commits after a cancelled one it overlapped
  can make the row active again, and period columns computed from a stale read
  can move back; `activated` sets the period and the status whatever the row
  holds, so that a late one shortens a period or revives a row that is over,
  until a pass corrects it (`service.py:1439`); `PeriodKept` and
  `WebhooksRespectOver` excuse these and nothing else. A webhook that arrives
  before the row of its subscription is committed, or whose row never will be
  because the request died after Razorpay answered, is recorded as processed and
  never handled again, and no pass looks for a subscription without a row
  (`service.py:1454`): the seller has paid and keeps the free plan. `halted` and
  `completed` set the plan to free although another subscription, a lifetime
  one included, is active (`service.py:1511, 1545`);
  `past_due` rows are not entitled (`plan_guard.py:108`) although the handler's
  comment grants a grace period (`service.py:1492`); a row the index refuses
  ends the whole pass (`tasks.py:308`) although the plan document says it must
  not; Set 2 is selected once and may downgrade a user whose row became active
  after the selection (`tasks.py:318`); two `completed` rows each count as the
  other's entitlement; a refund delivered before the charge it refunds finds no
  payment and is recorded as processed without one (`service.py:1676`); an
  `updated` or `activated` webhook that read its row as active before a
  lifetime purchase was captured writes its own plan over "ltd" when it commits
  (`service.py:1345, 1568`), since neither the user nor the row is locked.
* Export. The task is enqueued before the commit (`service.py:237`), so a fast
  worker skips it and the row stays pending; the pipeline swallows every
  exception, so the task never retries and reports completed
  (`tasks.py:86`); losing the write of a failure is only logged; the status
  checked at the request is not looked at again; a row that is ready or failed
  can change again, by a repeated delivery, although
  `modules/export/repository.py:66` lists pending to ready and pending to
  failed as the transitions. `PendingIsCarried` says these
  are the only ways a row is stranded (`dropped`).
* Monitor. The second of two equal snapshots makes a queued fan-out compare the
  content with itself, and the change is never announced; a change back to a
  content that was announced before meets the unique index and is not announced
  again; a superseded fan-out leaves the announcement to the fresher one
  (`service.py:453`), whose verdict may be "blocked"; a worker lost between
  insert and announcement is repeated, finds the snapshot fresh and announces
  nothing; a served value can be older than the latest capture, for its whole
  TTL if a reader stores after the evict, although `service.py:271-273` says it
  never is. The gate reads freshness before it claims, so two triggers can
  scrape one after the other within one TTL, although
  `docs/specs/RETENTION_CATEGORY_MONITOR.md:149` calls it the single chokepoint
  that guarantees one scrape per category per TTL. `LatestChangeIsCarried` and
  `StaleIsExplained` name each cause.
* Sessions. Any error of the request retried after a refresh forces a logout,
  although the interceptor's header says that a 401 of the refresh does
  (`src/frontend/libs/core/interceptors/refresh.interceptor.ts:31`), and the
  interceptor never stores the token it refreshed; an answer that was awaited
  at a logout puts the token back; a `/me` that fails after a forced logout
  leaves `_loggedOut` set beside a token; a silent refresh that meets an error
  other than 401 sets no timer, so the session ends with its access token; the
  401 of the tab that lost a refresh clears the cookie the winner just got; a
  login takes the cookie over without revoking the token it replaces.
* Images. A picker cancelled after a re-upload was asked leaves the slot
  pending, as the 409 of `images_reupload` does; one failed GET of a poll is
  taken for an empty list and ends the cycle, although
  `src/frontend/apps/mfe-catalog/src/app/images/image-uploader/image.service.ts:140`
  calls the backoff the retry and resilience mechanism; after a page load the
  images are not fetched and the indices start at 1 again, so the next upload
  meets a 409 and disables the feature; an index is the count of shown images;
  a list fetched before a commit and applied after the 202 drops the
  placeholder; the loser of two uploads to one slot stores its object before
  its insert fails, over the winner's bytes.
* Drafts. No page sends `status=ready`. A PATCH without fields that sets ready
  beside one that blanks a field leaves a ready product incomplete, because the
  session keeps what it read before it waited for the lock. A load that fails
  shows an empty form; leaving within the ten seconds of the debounce loses the
  edits; an applied suggestion is not saved before the next edit; one invalid
  value makes the whole autosave fail with 422.
* Left as prose, because a model of them would restate two lines: `verify`
  reads a code's record, compares and writes the count back in separate
  commands, so that two wrong attempts may count once, or bring back a record
  another deleted (`service.py:352`); two `start_trial` requests may both see
  no trial and both be granted, with two audit rows (`service.py:834`); the
  expiry notice commits user by user, so that only its audit row keeps a
  second sweep from repeating it (`tasks.py:437`); the rate limit
  (`core/middleware/rate_limit_mw.py:100`) and the plan windows
  (`core/plan_guard.py:221`) count in one transaction and reserve in another,
  although the docstring says atomically; the product cap
  (`core/plan_guard.py:262`) is a COUNT before the insert of another
  transaction, so that concurrent creations at the cap all pass.

## 7. Not modelled

* Trial, one-time codes, rate limit, plan windows and product cap: see the end
  of section 6.
* The services under `src/backend/services`, copies of these modules in
  processes of their own, and the scrapers and tools under
  `src/backend/scripts` and `src/tools`, programs one person runs once.
* Of the frontend, everything that shows what the server answers and keeps no
  state between requests.
* Of Billing: a pass that outlives the 600 seconds of its lock
  (`tasks.py:118`) and so overlaps the next one.
* Of Monitor: `captured_at` is stamped by the task before its commit
  (`scripts/scrape_category.py:540`), so that two overlapping scrapes may commit
  out of that order, while snapshots of the model are appended in it; contents
  whose hashes differ but whose compared dimensions do not, which pass
  (`scripts/diff_category_rules.py:374`): in the model different contents differ
  in a dimension.
* Of Sessions: the lapse of a refresh token after its TTL, the two seconds in
  which `refreshShared` returns the token it has, a second pepper. A `/me` is
  answered with the user or with an error that is not 401, which it is sent too
  early to get unless the user is gone: the interceptor would take a 401 of it
  through the refresh and the retry that `DataRefused` and `RetryEnds` model for
  every other request, and the handler of the error would then set the timer of
  a tab that was just signed out. A login is one with valid
  credentials; a 401 of `google/verify`, which is not among
  `SKIP_REFRESH_PATHS`, would start a refresh of whatever session the cookie
  holds.
* Of Images: the end of the session, the deletion of the product, files refused
  before the slot is looked at, and a 202 that is lost after the commit: the page
  then behaves as after a refusal, with a row it does not show.
* Of Drafts: creation, autofill, rules between fields, and `updated_at`, which a
  PATCH that changes nothing leaves alone and any other sets. An autosave
  without fields, which would write the draft without having locked the row, is
  sent by no client: the form saves only when it has edits.

* Contents: prompts, guardrail parsing, sheet columns, compliance strategies,
  diff dimensions, notification wording, error formatting. They decide between
  outcomes that the models choose among freely.
* Pure lookups and single-row writes: category, pricing, profile, dashboard,
  i18n, tenancy scoping.
* Audit rows: nothing reads them back except the trial sweep.
* The Celery prerun check of the user: raising Reject there does not stop a
  task.
* The single-flight path of the cache, which only the enum reads take.
* Connection pools, retries inside adapters: the caller's model has the call
  succeed or fail.

## 8. Plan

Done: the seven components above. Left, in this order:

1. **`CatalogExport`**: the composition in which the product of
   `ExportPipeline` is moved by the actions of `Drafts` in place of `Edit` and
   `Delete`: an export of a product whose draft is under way.
2. **`Trial`**: `start_trial` and the expiry sweep with its audit marker,
   beside the plan column of `Billing`.
3. **`Windows` and `Codes`**: the windows, the cap and the code attempts as two
   steps each, with the excess they let through as a function of the number of
   concurrent requests, which is what is worth proving of them.
4. **Pricing** as an operator over integers with explicit rounding, checked
   against a reference definition over a bounded grid.
5. Proofs: every safety property of the passing runs is a theorem. What is left
   is structure: the shared lemmas on webhooks of `BillingProofs` would carry a
   composition with `Trial`, and the lemmas on rows of `ExportProofs` one with
   `CatalogExport`.
