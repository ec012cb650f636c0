# Verification of finalmaxbot

TLA+ models of the bot: how an update of the messenger reaches its handler and takes
effect, what the chat makes of it, quotas, picture generation and delivery, referral
rewards, paid subscriptions with and without a bank; the TLC runs that check them;
and proofs, checked by TLAPS, of every safety property the passing runs check. Every
definition is translated from the Python source; `PROJECT.json` maps each one to the
lines it stands for.

    tlc -workers 2 -config BillingRenewals.cfg MCTbankBilling
    tlapm Dispatch_proofs.tla

## 1. The system

A bot for the MAX messenger sells greeting and marketing pictures made by an image
model. A user chats; a *flow* collects a prompt; a background task asks the provider
for a picture, stores it, charges the user's quota and sends it. Subscriptions raise
the quotas; they are bought by a link to T-Bank, activated and renewed by T-Bank's
notifications, charged again by a cron job. Everything shares one PostgreSQL
database at READ COMMITTED: *no* statement of the code takes a row lock, so what
protects a table is its unique indexes only.

| Component | Source | State | Operations |
|---|---|---|---|
| Subscription rows | `packages/billing/tbank_service.py` | `subscriptions` | activate, renew, fail renewal, charge, cancel, expire |
| Notification webhook | `packages/billing/webhook_logic.py`, `apps/api/billing_webhook.py` | `billing_events`, `stars_ledger` | one request per notification, keyed for idempotency |
| Renewal job | `packages/billing/renewal_job.py`, `renewal_cli.py` | none of its own | expire the overdue, then charge rows in the window |
| Generation pipeline | `apps/bot/generation_orchestrator.py` | `generation_jobs`, `stored_files` | greeting bundle, VK bundle, image job |
| Entitlements | `packages/entitlements/service.py`, `plan_definitions.py` | reads `usage_events` | five `can_...` decisions |
| Plan resolver | `packages/entitlements/resolver.py` | reads `subscriptions` | the plan of a user now |
| Referrals | `packages/referrals/service.py` | `referral_codes`, `referrals` | ensure code, attach, reward |
| Stars | `packages/stars/service.py` | `stars_ledger` | credit, debit, balance |
| Conversation | `apps/bot/state_machine_service.py` | `users`, `conversations`, `usage_events` | start, mode, menu buttons, messages, paywall, opt-out |
| Dispatch | `apps/bot/max_dispatch.py`, `webhook_idempotency.py`, `router.py` | `webhook_processed`, the background tasks | one transaction per update, then tasks |
| Long polling | `apps/bot/max_polling.py` | the marker | fetch, advance, dispatch |
| MAX client | `apps/bot/max_client.py` | none | send, upload, retry |
| Providers | `packages/providers` | none | text; picture (submit, poll) |
| Stub billing | `packages/billing/stub_service.py` | `subscriptions` | as T-Bank, without the bank |
| Media, storage, content | `packages/media`, `storage`, `greeting`, `content` | files | watermark, save, wording |
| Operator endpoints | `packages/ops`, `apps/api/internal_*.py` | none | reports, debug activation |

How they interact. Dispatch runs a conversation handler and the idempotency row in
one transaction, and only after the commit starts a background task, which is lost
if the process stops. The conversation asks Entitlements before a flow goes on; the
picture is *charged* by the pipeline, much later and in another transaction. The
webhook, the job and the opt-out button each load rows of `subscriptions`, and flush
them later, knowing nothing of each other; the job keeps its transaction open while
it waits, twice, for the bank. The pipeline calls Referrals, which calls Stars; so
does the webhook for top-ups. By webhook updates are handled at once; by long
polling one after the other. A handler sends its messages *before* its transaction
commits, so what the user reads may never have happened, and what happened may be
told twice.

What is hard here, all listed with its line under `hazards` in `PROJECT.json`:

- **interleaving**: notifications at once, overlapping cron runs, two tasks of one
  user;
- **stale state**: a row loaded, then an await of 45 s, then the flush;
- **delivery**: updates and notifications repeated, reordered, answered into a
  closed socket; a polling batch given up half way; a picture message sent again
  after a doubt;
- **long sequences**: a mode changed in the middle of a flow, keyboards of another
  mode or another release still in the chat;
- **failure**: a request, run, task or process that dies between any two steps;
- **retries**: a charge whose answer is lost, and the next hourly run.

What makes each component correct: a payment takes effect once, or not at all; time
on a subscription is covered by payments; a run that finds a user opted out does not
charge; an overdue subscription ends; quotas are respected up to what runs at once;
a picture is charged if and only if it is stored; a reward is earned; an update
takes effect at most once, and in the end; every button leads somewhere; a user
hears how each request ended.

## 2. The modules

| Module | Role |
|---|---|
| `SubscriptionRows` | pure: the rows, the edits, and the ORM's unit of work (`Save`) |
| `TbankBilling` | state machine: bank, notifications, webhook, opt-out, cron, over those rows |
| `PaymentLedger` | abstract: sold, paid, applied once; refined by `TbankBilling` |
| `Entitlements` | pure: pools, windows, limits, the decision |
| `Generation` | state machine: requests and tasks over jobs, files, usage, referrals, rewards |
| `ImageDelivery` | state machine: one task of `Generation` call by call (providers, store, MAX); refines `Generation` |
| `Conversation` | pure: what each handler makes of an input, the flows, buttons and keyboards; uses `Entitlements` |
| `Dispatch` | state machine: webhook or polling, the transaction around a handler of `Conversation`, the background tasks |
| `UpdateEffects` | abstract: an update takes effect once, its task is started once; refined by `Dispatch` |
| `StubBilling` | state machine: the stub service over `SubscriptionRows` |
| `MCTbankBilling`, `MCGeneration`, `MCDispatch`, `MCImageDelivery` | instances, scripts and symmetry sets for TLC |
| `SubscriptionRows_proofs` | lemmas about edits, flushes and the plan resolver, used by both billing modules |
| `TbankBilling_proofs` | theorems about the rows of `TbankBilling`: shape, opt-out, status, JSON column |
| `TbankLedger_proofs` | theorems about its money and time, and the refinement of `PaymentLedger` |
| `Dispatch_proofs` | theorems about `Dispatch` that hold whatever the handlers reply, and the refinement of `UpdateEffects` |
| `DispatchReplies_proofs` | theorems about `Dispatch` with the replies of `Conversation` |
| `Generation_proofs`, `ImageDelivery_proofs`, `StubBilling_proofs` | theorems about these modules; the second, the refinement of `Generation` |

Definitions named `Mut...` are wrong versions that a plausible bug would give, kept
beside the right one; no specification uses them. Each property of a passing run is
violated when the definition it is paired with (`PROJECT.json`, `mutants`) is
replaced by its wrong version.

### 2.1 SubscriptionRows and the flush

A table is a sequence, a row's index its id. An edit (`Renewed`, `RenewalDue`,
`Cancelled`, ...) is what a method does to the row *in memory*; `Save(rows, loaded,
edited)` is the UPDATE the ORM issues: the columns whose value differs from the
loaded one, over whatever the database holds now (`Written`, `Column`; the library
is external, modelled from its use). This is where lost updates come from and also
what limits them: a stale session overwrites the columns it changed, no more.

`StoredMeta` is the JSON column. The code writes `meta = sub.meta or {}; meta[k] =
v; sub.meta = meta`. The column type is plain JSON, without mutation tracking: a
non-empty dict is edited in place and compares equal to the loaded one, and the
UPDATE leaves it out. A row is always inserted with `external_payment_id`, so
`renewal_pending_payment_id` and `last_renewal_payment_id` never reach the database.
`MetaNeverRewritten` states it, and it is proved; the guards on a pending charge and
on a repeated renewal are modelled as written and, for that reason, never refuse.

`Serves` and `SubscribedPlan` are the plan resolver: the active row with the highest
id, whatever its end, decides the plan if it is not over. `PaidAccess` is its test
of a row.

### 2.2 TbankBilling

| Action | Code |
|---|---|
| `Checkout` | `create_checkout_session`: T-Bank `Init`, the user gets a link |
| `Settle` (external) | a payment is authorised, confirmed, rejected, refunded; a notification is queued |
| `WebhookBegin` | INSERT of the event under its unique key, SELECT of the rows of the branch |
| `WebhookDuplicate` | IntegrityError: rolled back, answered OK |
| `WebhookCommit` | `activate_subscription`, `apply_successful_renewal`, `apply_renewal_failure`, `credit`, or nothing; committed with the event, then answered |
| `WebhookAbort` | the request dies |
| `CancelBegin`, `CancelCommit` | `cancel_subscription` in the update's transaction |
| `JobStart`, `JobExpire` | `expire_subscriptions_past_due` and its commit |
| `JobSelect`, `JobLoad` | `run_renewal_charges`: ids, then each row in a session of its own |
| `JobInit`, `JobCharge`, `JobAccepted`, `JobRefused` | `run_mit_renewal_charge`: the two requests, success, refusal or lost answer |
| `JobDone`, `JobAbort` | the end of a run; the process killed |

A transaction is two steps, load and commit. That is READ COMMITTED as the code uses
it: each handler reads its rows once and writes them at the end. The unique index on
the event key makes a second INSERT wait for the transaction that holds it
(`Locked`). `apply_renewal_failure`, called by the job after its waits, runs a fresh
SELECT, but the row the session already holds is not refreshed: `SessionRows` says
so. A notification of a purchase may or may not carry a RebillId (`Rebills`; T-Bank
decides), and a row without one is never charged again. `granted` is a history
variable, the row each payment paid for; no action reads it.

### 2.3 Entitlements and Generation

`Accept` is the quota check of a message, `CommitIntake` the end of its transaction,
`Answer` a text question (answered and charged in the request). `TextReady` is a
bundle's text; a job is then run by `StartJob`, ends in `FailJob`, or goes on to
`PictureReady` (which selects the pending referral) and `StoreJob`, which commits
the file, the status, the charge and the reward together. `Leave` is the end of a
task, an exception in it, or the loss of the process: what it has not committed is
gone and the job stays queued, since no code looks for queued jobs. `Attach` is a
referral code entered by its invitee. Usage rows of the first release
(`image_intake`) are part of `Init`, as `_count_...` still reads them. Each user's
plan is a constant here (`PlanOf`): the job carries the watermark of the plan at its
intake, and no later step of the code reads the plan again.

### 2.4 ImageDelivery

One task, call by call. `TextReady` and `TextFails` end the text of a bundle.
`StubDraws` or `Submit` and the polling loop `PollAgain`, `PollDone` make the
picture: the deadline is read before the wait and the call, so the clock may pass it
by one wait and one call, and no more (`TypeOK`). `FailJob` and `StoreJob` are the
two commits. The user is then sent a list of messages, one call each: `SendText`,
`Upload`, `PostPicture` with `WaitPicture` between attempts, `Exhausted`. A call to
MAX is answered, refused or raises; unless it was answered 200, the message may or
may not be shown. `Raised` is the handler of exceptions, `Breaks` an exception of
the database or the disk, `Killed` the end of the process.

The module refines `Generation` with one task and no referral
(`ImplementsGeneration`): file, status and charge are one step, whatever the calls
around it do.

### 2.5 Conversation and Dispatch

A handler is an operator from a conversation (mode, flow, plan) and an input to the
set of replies the code may give: the mode and flow it leaves, the kind of answer,
the keyboards attached, and the row or task it adds. A set, since usage, the text
provider, the bank and the referral table may each decide either way; that the usage
decides right is `Generation`'s concern. Buttons are payloads split at `|`, and
those of earlier releases are included.

| Action | Code |
|---|---|
| `Act` | a user writes, or presses a button of any keyboard still in the chat |
| `WebhookCall` | `POST /webhooks/max`: the lookup of the key; a duplicate is answered |
| `PollGet`, `PollNext` | `max_long_polling_loop`: the marker is advanced, then the batch dispatched one by one |
| `Load`, `Insert`, `InsertFails` | `_get_or_create_user`, `_ensure_conversation`: SELECT, then INSERT under the unique index |
| `Handle` | the handler, its messages sent |
| `Commit`, `CommitFails` | the UPDATE of what changed, the rows, and the key of the update, under the unique indices |
| `Schedule` | `asyncio.create_task` for each deferred task; the update is answered |
| `Fail`, `Crash` | a call that raises: rollback, 500 or the end of the batch; the end of the process, and of the marker |

`Saved` is the ORM's flush again: a column a handler did not change keeps what
another handler has written meanwhile. MAX is external: it repeats a webhook call
until it is answered 200, and after a restart `GET /updates` without a marker goes
back to some update it had no confirmation for, or further.

### 2.6 StubBilling

The same rows without a bank: activation by the debug endpoint, the opt-out, the
cron run that only expires. `activate_subscription` looks for a row of the same
payment id before it inserts; nothing in the database keeps two of them from doing
so at once. Only the plans of `PlusPlans` are activated: the endpoint takes any
string, but any other code is resolved to no plan. The stub's renewal methods write
rows too and have no caller.

## 3. What is checked

Passing runs (states are distinct states, times with two workers):

| Run | Instance | States what |
|---|---|---|
| `billing_purchases` | 1 user, 3 purchases of 3 kinds, 2 requests, no cron (295,787 states, 40 s) | `ImplementsLedger`: the webhook refines `PaymentLedger`: each payment applied in one step, once, to one row or top-up, that never changes owner. `ActiveRowsBound`: active rows of a user do not build up beyond the requests handled at once. `NoPaymentLost`: a payment that went through is on record, or T-Bank still repeats its notification |
| `billing_renewals` | 1 purchase, 2 renewals, 1 request, 1 cron run at a time, 3 clock values, failures (326,416 states, 35 s) | `PaidTimeBound`, `GrantIsPaidFor`: no period without a distinct settled, recorded payment. `NoChargeAfterOptOut`: no run charges a row it loaded after the opt-out. `NoResurrection`: a superseded row stays so. `AccessKept`: nothing but time or a purchase changes what a user is subscribed to (one exception, below). `MetaNeverRewritten`. `TypeOK` |
| `billing_liveness` | 1 purchase and its renewal, 2 requests, cron, under `FairBilling` (120 s) | `EventuallyRecorded`: what T-Bank notifies of is recorded in the end. `EventuallyExpired`: an overdue row does not stay active |
| `generation` | a free user and a business subscriber who may invite each other, 2 tasks, 3 prompts, old usage (1.9 million states, 100 s) | `QuotaBound`: use plus what runs is at most limit + tasks − 1. `ChargedForOutput`: a charge if and only if a picture is stored. `RewardsEarned`: rewards go to the inviter, never more than the invitee's charged pictures. `RewardBound`: no more of them than tasks that run at once. `TypeOK` |
| `dispatch` | 1 user, 2 updates, 2 handlers, 1 fault; by webhook a text, a change of mode and a flow opened in any order and at once; by polling *every* input from every mode and flow, with every plan, and then a text; under `FairDispatch` (433,702 states, 130 s) | `ImplementsUpdateEffects`: whatever is delivered again or at once, an update takes effect at most once and its task is started at most once. `EventuallyHandled`: every update takes effect, or was in a batch an exception ended. `ForgottenBound`: work told to the user is forgotten only by a crash between the commit and its task. `LostOnlyInDroppedBatch`, `PolledFresh`: what polling can lose, and that it loses no update under another. `AnsweredTookEffect`: by webhook, MAX is never answered 200 for an update without effect. `MenusWork`: every button of every keyboard sent leads somewhere. `ForeignButtonInert`: a button of the other mode changes nothing. `WorkOfThePlan`: a flow that outlives a change of mode never takes on a picture the new plan does not have. `TypeOK` |
| `image` | one picture or bundle, both providers, timeout 3, interval 1, calls up to 2, 4 attempts, under `FairDelivery` (30,616 states) | `FailureIsFree`: who is told of a failure is not charged. `PictureCopies`: each copy beyond the first is one MAX showed without acknowledging it. `NeverSilent`: the user sees a picture or a notice, with one exception, below. `ImplementsGeneration`. `EventuallyEnds`. `TypeOK` |
| `stub` | 1 user, 3 activations, an opt-out and 2 cron runs at once, 4 clock values (191,756 states, 16 s) | `RowsBound`: no more rows than activations at once. `PaidRowServes`: a paid row gives a plan whichever row decides. `AccessKept`, `CancelSticks`: a stale opt-out or cron run takes nothing away. `TypeOK` |

Runs that find a documented statement violated (each a finding in `PROJECT.json`):

| Run | Statement | What happens |
|---|---|---|
| `billing_opt_out` | `CancelSticks` (`docs/m7_recurring.md`) | a charge or notification in flight writes its state over `cancelled` |
| `billing_late_renewal` | `RenewalExtends` (`docs/m7_recurring.md`) | a renewal notified after the row expired is recorded as processed, and extends nothing |
| `billing_stars` | `BalanceSnapshot` (`docs/m4_monetization.md`) | two top-ups at once record the same balance |
| `generation_quota` | `QuotaHolds` (`docs/m4_monetization.md`) | two prompts accepted at the last slot are both made |
| `generation_reward` | `RewardOnce` (`docs/m4_monetization.md`) | two first pictures at once reward the inviter twice |

`QuotaBound` and `RewardBound` are the other side of the last two findings: how far
concurrency can carry the code past its documented rules, and, with a single task,
that it does not. (`docs/m5_output_pipeline.md` also names a job status
`processing`; the code flushes it in the transaction that later commits the end, so
no other transaction ever reads it, as `TypeOK` of `Generation` says.) So are
`NoChargeAfterOptOut` (the overwritten state never leads a later run to a charge,
because the opt-out flag is another column; a run that loaded the row *before* the
opt-out and waits for the bank still charges it, as the code does) and
`PaidTimeBound` (no guard stops a second charge in one window, yet each charge taken
buys a period or none).

Exceptions that the passing properties name, each of them reachable:

- `AccessKept` of `TbankBilling` exempts a cron run that found the row overdue and
  commits after the row's renewal: `status` is a column the renewal does not change,
  so the expiry of the stale session wins and the paid period is not served.
- `NeverSilent` exempts a picture that is stored and charged and whose upload
  failed, or whose every attempt was refused: nobody looks at that result, and the
  user gets the menu alone.
- `MenusWork` exempts the answer to a question, which brings the consumer's menu
  also to a user who has gone over to business with the question open
  (`state_machine_service.py:346`; `docs/m3_flows.md:9` has the menu of the mode).
  Its buttons then answer "unknown".
- `FailureIsFree` exempts the notice `job_error`, which may follow the charge.
- `RowsBound` allows two rows to two activations at once, where
  `docs/m4_monetization.md` has one; `PaidRowServes` shows the user is served all
  the same.

**Bounds.** `MaxTime`, `MaxSales`, `MaxWork`, `MaxUpdates`, `MaxFaults`, and the
sizes of `Pids`, `Handlers`, `Jobs`, `Tasks`, `Requests`, `Runs` bound the
instances. Three payments are enough for a purchase and two renewals, hence for a
second charge in one window and for a renewal that meets a superseded row; two
requests for every race of two, the code having no step that involves three parties.
A period of one tick and a window of one make every order of expiry, window and
notification reachable within three clock values. In `Generation`, limits of two
images (of one VK post and one question) and three prompts reach the limit and, with
the old rows, pass it; a day of one tick and a month of two let both kinds of window
roll over. In `Dispatch`, `Init` holds every account, in any mode and flow, so one
input stands for the last of any sequence, and the second for what it leads to; two
updates are enough for one to be lost under or dropped with another; one fault at
any step of any handler, including the restart after it. In `ImageDelivery` the
attempts are the code's four; a timeout of three with an interval of one leaves room
for several polls and for one that passes the deadline. Notifications come with and
without a RebillId, except in `billing_purchases`, where no cron run reads it. No
run has `REFUNDED` among its `Statuses`, as two renewals with their refunds are too
many states; the theorems of section 4 hold for every set of statuses, and with two
`Pids` in place of three TLC finds no violation of the properties of
`billing_renewals` either (638,238 states). Symmetry is used only in runs without
liveness, over identifiers the code does not order.

**Fairness.** `FairBilling`: T-Bank repeats a notification until it is answered OK,
and requests are not all killed before their commit; strong, since a lock or a crash
disables the step again and again. Cron starts a run when the last ended, its HTTP
requests end (45 s timeouts), and a run that comes to its first commit again and
again is not always killed just there. `FairDispatch`: MAX calls again until it is
answered (strong: a call needs an idle handler), the loop goes on, and the calls a
handler makes end, as the clients have timeouts; faults are bounded. `FairDelivery`
of `ImageDelivery`: every call of a task ends, for the same reason. No fairness is
assumed of users, of the bank's decisions, of payments, or of what the provider and
MAX answer.

**Deadlock** is checked with the T-Bank cron job present. Elsewhere what is asked
for is bounded and the system rests when it is done: without cron
(`BillingPurchases`, `BillingStars`), in `Generation`, `Dispatch` and
`ImageDelivery`, and in `StubBilling`, where time is bounded too. Those
configurations say `CHECK_DEADLOCK FALSE`; for `Dispatch` and `ImageDelivery` the
liveness properties say that the rest is the right one.

## 4. What is proved

Every invariant, action property and refinement of the passing runs is a theorem,
for any number of users, payments, requests, handlers, tasks, cron runs, rows,
limits, faults and timeouts. The runs show them on small instances, and show by
their mutants that they can fail.

| Module | Theorem | States |
|---|---|---|
| `TbankBilling_proofs` | `TypeCorrect` | `Spec => []TypeOK` |
| | `OptOutHolds` | `Spec => []NoChargeAfterOptOut` |
| | `SupersededForGood` | `Spec => NoResurrection` |
| | `MetaIsFinal` | `Spec => MetaNeverRewritten` |
| `TbankLedger_proofs` | `PaidBeforeGranted` | `Spec => []GrantIsPaidFor` |
| | `TimeIsPaidFor` | `Spec => []PaidTimeBound` |
| | `CrowdIsBounded` | `Spec => []ActiveRowsBound` |
| | `WebhookImplementsLedger` | `Spec => ImplementsLedger` |
| | `AccessLasts` | `Spec => AccessKept` |
| | `PaymentsAreNotLost` | `Spec => []NoPaymentLost` |
| `Dispatch_proofs` | `DispatchImplementsUpdateEffects` | `Spec => ImplementsUpdateEffects` |
| | `PollingIsFresh` | `Spec => []PolledFresh` |
| | `PollingLosesOnlyDroppedBatches` | `Spec => []LostOnlyInDroppedBatch` |
| `DispatchReplies_proofs` | `TypeCorrect` | `Spec => []TypeOK` |
| | `EveryMenuWorks` | `Spec => []MenusWork` |
| | `ForeignButtonsAreInert` | `Spec => []ForeignButtonInert` |
| | `WorkFitsThePlan` | `Spec => []WorkOfThePlan` |
| | `OnlyCrashesForget` | `Spec => []ForgottenBound` |
| | `AnswersAreKept` | `Spec => []AnsweredTookEffect` |
| `Generation_proofs` | `GenerationTypeCorrect` | `Spec => []TypeOK` |
| | `PicturesChargedOnce` | `Spec => []ChargedForOutput` |
| | `RewardsAreEarned` | `Spec => []RewardsEarned` |
| | `RewardsAreBounded` | `Spec => []RewardBound` |
| | `QuotaIsBounded` | `OldUsageFits`, then `Spec => []QuotaBound` |
| `ImageDelivery_proofs` | `DeliveryTypeCorrect` | `Spec => []TypeOK` |
| | `FailuresAreFree` | `Spec => []FailureIsFree` |
| | `CopiesAreBounded` | `Spec => []PictureCopies` |
| | `SilenceIsExcused` | `Spec => []NeverSilent` |
| | `DeliveryImplementsGeneration` | `Spec => ImplementsGeneration` |
| `StubBilling_proofs` | `StubTypeCorrect` | `Spec => []TypeOK` |
| | `OptOutSticks` | `Spec => CancelSticks` |
| | `PaidRowsServe` | `Spec => []PaidRowServes` |
| | `DebugRowsAreBounded` | `Spec => []RowsBound` |
| | `AccessStays` | `Spec => AccessKept` |

**Assumptions.** The named assumptions of the modules (`RowsAssumption`,
`BillingAssumption`, `EntitlementsAssumption`, ...) give the constants their types.
Two say more. A server handles finitely many requests at once, so `Handlers` is
finite; what is counted against them would mean nothing otherwise. `QuotaIsBounded`
has a hypothesis, `OldUsageFits`: the rows the first release left behind do not by
themselves pass what this release can reach; a limit lowered at the release is the
only thing that breaks it, and then no code of the release is at fault.

**T-Bank billing: rows.** A commit writes what its session loaded long before, so
none of the properties is inductive by itself. The inductive invariant is `TypeOK`,
`Known` and `OptOutInv`. `Known` ties the actors together: a notification, or a
request that handles one, is of a payment the bank has; a run works on rows of the
table; past its load it holds exactly one row, and past `Init` a payment.
`OptOutInv` says that the opt-out is one fact in two columns (`autoRenew` is false
exactly if `cancelled_at` is set) in the table and in *every snapshot any session
holds*, and that a run past its load holds a row with `autoRenew`. Without the
snapshots it is not preserved: one stale flush of one of the two columns would
separate them. From it, `NoChargeAfterOptOut` follows.

`SubscriptionRows_proofs` shows of every edit that it is a `SafeEdit` of the row it
loaded (same meta, status kept or superseded, opt-out taken in both columns or in
neither; `MetaIsLost` is where the lost JSON edit enters) and, of the flush of a
safe edit over whatever other transactions made of the row meanwhile, that it is a
`SafeWrite` (`WrittenIsSafe`, `SaveIsSafe`). `TbankBilling_proofs` lifts this to the
table: every step of the system is a `TableStep`, in which no row disappears, each
is safely written, and new rows are consistent. The actions that write the table use
that lemma, the others leave it alone. `SupersededForGood` and `MetaIsFinal` are
then read off `TableStep`.

**T-Bank billing: money and time.** `PaymentInv` is the unique key of the events at
work. A notification of a success is truthful; a payment on record is in no request,
and one that is not on record is in one request at most (`OnePerPayment`); so what a
commit grants was never granted before. `TimeInv` states `PaidTimeBound` of the
table *and of every snapshot a request holds*: a renewal counts from the end its
request loaded, which may be long out of date, and is covered because periods are
only ever added to the grants of a row. `CrowdInv` is `ActiveRowsBound` made
inductive: for every row number `r`, the active rows of a user from `r` on and the
requests that loaded the table before it had row `r` are together no more than the
handlers. A purchase supersedes what its request saw, adds one row, and leaves the
second set. `SnapshotInv` says that a snapshot is an earlier state of the table,
which no later step contradicts. `AccessLasts` shows of each edit and of its flush
that it ends no subscription (`Keeps`, `KeepsAccess`), expiry aside, and of expiry
that it touches only rows overdue in the job's snapshot. `ItemInv` gives each row or
top-up to a payment on record; with it a commit of a success is one `Apply` of
`PaymentLedger` and every other step one of the bank's or a stutter.
`PaymentsAreNotLost` is inductive with `TypeOK` and `Known`: T-Bank is answered only
where the key of the notification is in the table, and the key of a success names
the payment.

**Dispatch.** That an update takes effect once is not inductive: a handler that has
committed still has its task to start. The invariant `IInv` adds that a row of
`work` belongs to a processed update (so a new update has none, and its commit adds
at most one), and that a committed handler's update is processed, is not started,
and that no other handler has committed it (`CommittedOnce`). `EffectsStep` then
maps every step to a step of `UpdateEffects` or a stutter. The proofs of
`Dispatch_proofs` use nothing of what the handlers reply: they hold for any
`Conversation`. For polling, `PolledInv` adds that one handler runs at a time, that
what is below the marker is done, dropped or in hand, and that what was confirmed is
done or dropped: the last is what a restart falls back on. `AnswersAreKept` needs
`CommittedOnce` too: the answer that ends a dispatch is for an update on record.

**Dispatch with its replies.** First, without any state: every reply of every
handler fits (`RespondFits`: it leads to a mode and a flow, and attaches only menus
of that mode); every button of every keyboard is one that is routed
(`EveryButtonRouted`), and in a mode the keyboard belongs to none has a dead end
(`KeyboardWorks`); a button made for another mode moves nothing (`ForeignButton`);
and a reply with work is for a plan that allows it (`EntitledPlan`). Then `ReplyInv`
carries this to the dispatches at once: the reply of a handler is one that
`Conversation` gives for what it loaded, and a user it saw with a mode has not since
lost it (`ModeStays`): a mode is never taken back, whatever two handlers flush over
each other. `RowInv` keeps the plan of each row; `ForgottenInv` counts the tasks a
crash can forget, step by step.

**Generation.** A picture is charged once because one task runs its job
(`TasksOwnJobs`: the job of a task between the two commits is queued, and no other
task has it), a queued job has no file (`FilesOfSucceeded`), and a charge names a
file (`ChargesOfFiles`); hence the commit of the result finds neither file nor
charge of its job, and `OneCharge` is kept. `RewardInv` counts the rewards of a
referral together with the tasks that still hold it as pending: such a task is of
the invitee, a selection finds it only while there is no reward, and each reward
comes with a picture its task has just been charged for. `QuotaInv` counts, in the
window of the pool, the charges and the tasks that are still to charge; a task is
accepted when the charges alone are below the limit, and there are at most as many
others as tasks less one; the clock only takes rows out of the windows.

**ImageDelivery.** `FailureIsFree` speaks of what the user has seen; the invariant
speaks also of what is still to be sent: while a notice that promises so is in
`todo`, nothing is charged (`PromiseKept`), and before the messages nothing is
charged or said (`NothingYet`). `CopyInv` says that while the picture is on its way
each attempt but the current one has gone wrong exactly once, and the copies are the
attempts that were shown all the same. `SilenceInv` says that until the user was
told, or MAX did not take it, a message that tells is still in `todo`. `RowsOfTask`
ties the three rows to how far the task has come, and with it each call is a step of
`Generation` or a stutter.

**StubBilling.** The column-wise flush of `SubscriptionRows` again: a session that
did not itself change the state leaves the database's, and the ones that change it
write `cancelled`, or supersede the row. `RowInv` adds that a later row ends no
earlier, which is why the newest active row decides as well as any. `RowsBound`
counts rows and open activations of a user together. `RunInv`: a cron run expires by
a clock that is not ahead and by ends that are still those of the table, as nothing
in the stub moves them; this is what `TbankBilling` lacks, and why its `AccessKept`
has an exception and this one has none.

**Only model-checked.** Liveness (`EventuallyRecorded`, `EventuallyExpired`,
`EventuallyHandled`, `EventuallyEnds`): fairness is about `ENABLED`, out of the
prover's reach. What they add to the theorems is that something happens at all:
`NoPaymentLost` and `AnsweredTookEffect` are their safe halves, and are proved. The
violated statements of section 3 are refuted by their counterexamples.

## 5. What is not modelled

- The rejected notifications (bad token, no `PaymentId`, no user): an audit row and
  nothing else. Messages sent after a commit, and their wording.
- The expiry notice, except that sending it may raise and end the run (`JobAbort`).
- `debit` of the stars ledger, and the renewal methods of the stub: nothing calls
  them.
- Of the idempotency key, the fallback hashes of updates without an id
  (`webhook_idempotency.py:44`): two updates have two keys here. The log of raw
  updates, committed first and read by nobody.
- The `Success` field of a notification: T-Bank's, taken to agree with the status
  (`webhook_logic.py:92` asks for both). A success without it would be handled as a
  notification of no success.
- A user's change of plan between the intake of a picture and its end.
- The choice between `chat_id` and `user_id` in the MAX client; the bubble that
  answers a button.
- Referral codes are drawn from a large alphabet and taken as distinct.
- Pixels, prompts, files, wording, logs, migrations, wiring, the registration of the
  webhook, the read-only reports of the operator.

## 6. Plan

Done: all the modules above, and a theorem for each safety property. The plan's
`Plans` (subscriptions that change while a picture is made) was dropped as a module:
the resolver is `SubscribedPlan`, stated about in both billing modules, and the
pipeline reads the plan once. Left, in this order:

1. Sharper statements that the proofs suggest: the exact excess of `QuotaBound` for
   each pool, `ActiveRowsBound` after all requests have ended.
2. The checkout and the rejected notifications of the T-Bank webhook as actions.
3. The plan of a user as a variable of `Generation`, composed with the rows.
