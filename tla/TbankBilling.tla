---------------------------- MODULE TbankBilling ----------------------------
(***************************************************************************)
(* The life of paid subscriptions: checkout, T-Bank notifications, the     *)
(* cron job that expires subscriptions and charges renewals, and the       *)
(* user's opt-out of auto-renewal, all running at once over one database.  *)
(*                                                                         *)
(* Every handler is a database transaction at READ COMMITTED: it loads     *)
(* rows in one step and flushes and commits in a later one, and any other  *)
(* transaction may commit in between.  The renewal job also waits twice    *)
(* for the bank (Init, Charge) inside its transaction.  T-Bank is          *)
(* external: it issues PaymentIds, settles payments when it likes, and     *)
(* sends a notification again until it is answered.                        *)
(***************************************************************************)
EXTENDS SubscriptionRows, FiniteSets

CONSTANTS
  Handlers,   \* concurrent requests to POST /webhooks/tbank/notification
  Jobs,       \* cron runs of renewal_cli that may overlap
  Advance,    \* m7_renewal_advance_hours, in ticks
  Recurring,  \* m7_recurring_enabled
  Rebills,    \* may a notification of a purchase carry a RebillId, may it not
  Offered,    \* plans the users of the instance buy
  Statuses,   \* statuses T-Bank notifies of in the instance
  MaxSales,   \* bound of the checkouts
  MaxTime     \* bound of the clock

Notified == {"AUTHORIZED", "CONFIRMED", "REJECTED", "REFUNDED"}

ASSUME BillingAssumption ==
  /\ IsFiniteSet(Handlers)
  /\ Advance \in Nat
  /\ Recurring \in BOOLEAN
  /\ Rebills \subseteq BOOLEAN /\ Rebills # {}
  /\ Offered \subseteq Plans
  /\ Statuses \subseteq Notified
  /\ MaxSales \in Nat /\ MaxTime \in Nat

VARIABLES
  now,      \* the clock
  subs,     \* table subscriptions
  events,   \* table billing_events: its idempotency keys
  ledger,   \* table stars_ledger: the top-ups
  bank,     \* payments T-Bank knows
  net,      \* notifications not yet answered OK
  handler,  \* transactions of the notification webhook
  job,      \* runs of the renewal job
  cancel,   \* transactions of the opt-out button, one per user
  granted   \* history: the row each payment paid for (0: none)

database == <<subs, events, ledger, granted>>
vars == <<now, subs, events, ledger, bank, net, handler, job, cancel, granted>>

Initial == "subscription_initial"
Renewal == "subscription_renewal"
NoNote == [pid |-> NoPid, status |-> "none"]
TopupStars == 10

Notes == [pid : Pids, status : Notified]
Payments == [status : {"open"} \cup Notified, charged : BOOLEAN,
             user : Users, plan : Plans, kind : {Initial, Renewal}]

IdleHandler == [note |-> NoNote, snap |-> <<>>, stars |-> 0]
IdleJob == [pc |-> "idle", at |-> 0, ids |-> {}, sid |-> 0, pid |-> NoPid, snap |-> <<>>]
IdleCancel == [open |-> FALSE, snap |-> <<>>]

Init ==
  /\ now = 0
  /\ subs = <<>>
  /\ events = {}
  /\ ledger = <<>>
  /\ bank = <<>>
  /\ net = {}
  /\ handler = [h \in Handlers |-> IdleHandler]
  /\ job = [j \in Jobs |-> IdleJob]
  /\ cancel = [u \in Users |-> IdleCancel]
  /\ granted = [p \in Pids |-> 0]

Tick ==
  /\ now < MaxTime
  /\ now' = now + 1
  /\ UNCHANGED <<database, bank, net, handler, job, cancel>>

-----------------------------------------------------------------------------
(* T-Bank (external). *)

\* Init: T-Bank answers with a PaymentId it has not used.
Issue(p, u, plan, kind) ==
  /\ p \in Pids \ DOMAIN bank
  /\ bank' = [q \in DOMAIN bank \cup {p} |->
                IF q = p THEN [status |-> "open", charged |-> kind = Initial,
                               user |-> u, plan |-> plan, kind |-> kind]
                ELSE bank[q]]

\* create_checkout_session: the user gets a payment link.
Checkout(u, plan, p) ==
  /\ Cardinality({q \in DOMAIN bank : bank[q].kind = Initial}) < MaxSales
  /\ Issue(p, u, plan, Initial)
  /\ UNCHANGED <<now, database, net, handler, job, cancel>>

Settles(from, to) ==
  <<from, to>> \in {<<"open", "AUTHORIZED">>, <<"open", "CONFIRMED">>, <<"open", "REJECTED">>,
                    <<"AUTHORIZED", "CONFIRMED">>, <<"CONFIRMED", "REFUNDED">>}

\* A payment reaches its next status and T-Bank queues the notification.
Settle(p, status) ==
  /\ p \in DOMAIN bank /\ bank[p].charged
  /\ Settles(bank[p].status, status)
  /\ bank' = [bank EXCEPT ![p].status = status]
  /\ net' = net \cup {[pid |-> p, status |-> status]}
  /\ UNCHANGED <<now, database, handler, job, cancel>>

-----------------------------------------------------------------------------
(* POST /webhooks/tbank/notification: process_tbank_notification_json.     *)

\* Wrong version: everything but a refund counts as paid.
MutIsPaymentSuccess(n) == n.status # "REFUNDED"

IsPaymentSuccess(n) == n.status \in {"AUTHORIZED", "CONFIRMED"}

IsRenewal(n) == bank[n.pid].kind = Renewal /\ bank[n.pid].plan \in PlusPlans

Branch(n) ==
  IF IsPaymentSuccess(n) THEN "paid"
  ELSE IF IsRenewal(n) THEN "renewal_fail" ELSE "ns"

\* Wrong version: one key per status.
MutKey(n) == [pid |-> n.pid, branch |-> Branch(n), status |-> n.status]

\* The idempotency key: the PaymentId alone for a success, with the status
\* for any other notification.
Key(n) == [pid |-> n.pid, branch |-> Branch(n),
           status |-> IF IsPaymentSuccess(n) THEN "" ELSE n.status]

PaidKey(p) == [pid |-> p, branch |-> "paid", status |-> ""]

Busy(h) == handler[h].note # NoNote

\* The unique index makes a second INSERT of a key wait for the transaction
\* that holds it.
Locked(key) == \E h \in Handlers : Busy(h) /\ Key(handler[h].note) = key

\* stars_ledger.balance_sum
BalanceSum(u) == TopupStars * Cardinality({k \in DOMAIN ledger : ledger[k].user = u})

\* Wrong version: the event is not looked up.
MutWebhookBegin(h, n) ==
  /\ ~Busy(h) /\ ~Locked(Key(n))
  /\ handler' = [handler EXCEPT ![h] =
                   [note |-> n, snap |-> subs, stars |-> BalanceSum(bank[n.pid].user)]]
  /\ UNCHANGED <<now, database, bank, net, job, cancel>>

\* The INSERT of the event and the SELECT of the rows the branch works on.
WebhookBegin(h, n) ==
  /\ ~Busy(h)
  /\ Key(n) \notin events
  /\ ~Locked(Key(n))
  /\ handler' = [handler EXCEPT ![h] =
                   [note |-> n, snap |-> subs, stars |-> BalanceSum(bank[n.pid].user)]]
  /\ UNCHANGED <<now, database, bank, net, job, cancel>>

\* The answer OK may be lost: T-Bank then sends the notification again.
Answer(n) == \/ net' = net \ {n}
             \/ net' = net

\* IntegrityError on the INSERT: rolled back and answered OK.
WebhookDuplicate(h, n) ==
  /\ ~Busy(h)
  /\ Key(n) \in events
  /\ Answer(n)
  /\ UNCHANGED <<now, database, bank, handler, job, cancel>>

\* activate_subscription, with the RebillId if the notification carries one
Activate(n, snap) ==
  LET pay == bank[n.pid] IN
  IF ActivatedBy(snap, pay.user, n.pid) THEN UNCHANGED <<subs, granted>>
  ELSE \E rebill \in Rebills :
         /\ subs' = Append(Save(subs, snap, SupersedeAll(snap, pay.user)),
                           NewRow(pay.user, pay.plan, n.pid, rebill, now))
         /\ granted' = [granted EXCEPT ![n.pid] = Len(subs) + 1]

\* apply_successful_renewal
ApplySuccessfulRenewal(n, snap) ==
  LET pay == bank[n.pid] IN
  /\ subs' = Save(subs, snap, ExtendLatest(snap, pay.user, pay.plan, n.pid, now))
  /\ \/ \E i \in DOMAIN snap :
          /\ IsLatest(snap, pay.user, pay.plan, i) /\ snap[i].meta.last # n.pid
          /\ granted' = [granted EXCEPT ![n.pid] = i]
     \/ /\ \A i \in DOMAIN snap :
             IsLatest(snap, pay.user, pay.plan, i) => snap[i].meta.last = n.pid
        /\ UNCHANGED granted

\* StarsLedgerService.credit
CreditTopup(n, balance) ==
  ledger' = Append(ledger, [user |-> bank[n.pid].user, pid |-> n.pid,
                            balance |-> balance + TopupStars])

\* The branch of a success, after the event is flushed.
ApplyPaid(n, snap, balance) ==
  CASE bank[n.pid].plan = StarsTopup ->
         CreditTopup(n, balance) /\ UNCHANGED <<subs, granted>>
    [] IsRenewal(n) ->
         ApplySuccessfulRenewal(n, snap) /\ UNCHANGED ledger
    [] OTHER ->
         Activate(n, snap) /\ UNCHANGED ledger

\* apply_renewal_failure, from the webhook
ApplyRenewalFailure(n, snap) ==
  /\ subs' = Save(subs, snap, FailLatest(snap, bank[n.pid].user, bank[n.pid].plan))
  /\ UNCHANGED <<ledger, granted>>

ApplyNote(n, snap, balance) ==
  CASE Branch(n) = "paid" -> ApplyPaid(n, snap, balance)
    [] Branch(n) = "renewal_fail" -> ApplyRenewalFailure(n, snap)
    [] Branch(n) = "ns" -> UNCHANGED <<subs, ledger, granted>>

\* The event and its effect are committed together, then answered.
WebhookCommit(h) ==
  /\ Busy(h)
  /\ ApplyNote(handler[h].note, handler[h].snap, handler[h].stars)
  /\ events' = events \cup {Key(handler[h].note)}
  /\ Answer(handler[h].note)
  /\ handler' = [handler EXCEPT ![h] = IdleHandler]
  /\ UNCHANGED <<now, bank, job, cancel>>

\* Wrong version: a failed transaction is answered OK.
MutWebhookAbort(h) ==
  /\ Busy(h)
  /\ net' = net \ {handler[h].note}
  /\ handler' = [handler EXCEPT ![h] = IdleHandler]
  /\ UNCHANGED <<now, database, bank, job, cancel>>

\* The process or the connection dies: the transaction is rolled back.
WebhookAbort(h) ==
  /\ Busy(h)
  /\ handler' = [handler EXCEPT ![h] = IdleHandler]
  /\ UNCHANGED <<now, database, bank, net, job, cancel>>

-----------------------------------------------------------------------------
(* The opt-out button, in the transaction of the bot update.               *)

\* With no row to change the transaction has no effect, and is left out.
CancelBegin(u) ==
  /\ ~cancel[u].open
  /\ CancelAll(subs, u) # subs
  /\ cancel' = [cancel EXCEPT ![u] = [open |-> TRUE, snap |-> subs]]
  /\ UNCHANGED <<now, database, bank, net, handler, job>>

CancelCommit(u) ==
  /\ cancel[u].open
  /\ subs' = Save(subs, cancel[u].snap, CancelAll(cancel[u].snap, u))
  /\ cancel' = [cancel EXCEPT ![u] = IdleCancel]
  /\ UNCHANGED <<now, events, ledger, granted, bank, net, handler, job>>

-----------------------------------------------------------------------------
(* renewal_cli: one run expires subscriptions, then charges renewals.      *)

JobGoes(j, next) ==
  /\ job' = [job EXCEPT ![j] = next]
  /\ UNCHANGED <<now, events, ledger, granted, net, handler, cancel>>

\* expire_subscriptions_past_due loads the active rows ...
JobStart(j) ==
  /\ job[j].pc = "idle"
  /\ JobGoes(j, [IdleJob EXCEPT !.pc = "expire", !.at = now, !.snap = subs])
  /\ UNCHANGED <<subs, bank>>

\* ... and commits the overdue ones as expired.
JobExpire(j) ==
  /\ job[j].pc = "expire"
  /\ subs' = Save(subs, job[j].snap, ExpireOverdue(job[j].snap, job[j].at))
  /\ JobGoes(j, [IdleJob EXCEPT !.pc = "select"])
  /\ UNCHANGED bank

\* run_renewal_charges selects the rows to charge, by id.
Chargeable(row) ==
  /\ row.status = "active" /\ row.rebill /\ row.autoRenew
  /\ row.state \notin {"cancelled", "expired"}

JobSelect(j) ==
  /\ job[j].pc = "select"
  /\ LET ids == IF Recurring THEN {i \in DOMAIN subs : Chargeable(subs[i])} ELSE {}
     IN  JobGoes(j, [IdleJob EXCEPT !.pc = "loop", !.at = now, !.ids = ids])
  /\ UNCHANGED <<subs, bank>>

\* The row as the session of this iteration sees it: in the window, nothing
\* pending, and run_mit_renewal_charge does not refuse it.
DueForCharge(row, at) ==
  /\ row.expires >= at /\ row.expires <= at + Advance
  /\ row.meta.pending = NoPid
  /\ row.rebill /\ row.autoRenew /\ row.state # "cancelled"

JobLoad(j, i) ==
  /\ job[j].pc = "loop" /\ i \in job[j].ids
  /\ JobGoes(j, IF DueForCharge(subs[i], job[j].at)
                THEN [job[j] EXCEPT !.pc = "init", !.ids = @ \ {i}, !.sid = i, !.snap = <<subs[i]>>]
                ELSE [job[j] EXCEPT !.ids = @ \ {i}])
  /\ UNCHANGED <<subs, bank>>

JobDone(j) ==
  /\ job[j].pc = "loop" /\ job[j].ids = {}
  /\ JobGoes(j, IdleJob)
  /\ UNCHANGED <<subs, bank>>

\* The row the iteration loaded before it waited for the bank.
Loaded(j) == job[j].snap[1]

\* The iteration is over: its transaction is committed.
NextRow(j) == [job[j] EXCEPT !.pc = "loop", !.sid = 0, !.pid = NoPid, !.snap = <<>>]

\* apply_renewal_failure in the job's session: the SELECT sees the database as
\* it is now, but the row loaded before the wait is still the one in memory.
SessionRows(j) == [subs EXCEPT ![job[j].sid] = Loaded(j)]

FailedRows(j) ==
  [i \in DOMAIN subs |-> IF IsLatest(subs, Loaded(j).user, Loaded(j).plan, i)
                         THEN RenewalFailed(SessionRows(j)[i]) ELSE SessionRows(j)[i]]

JobFailure(j) == subs' = Save(subs, SessionRows(j), FailedRows(j))

JobInit(j, p) ==
  /\ job[j].pc = "init"
  /\ Issue(p, Loaded(j).user, Loaded(j).plan, Renewal)
  /\ JobGoes(j, [job[j] EXCEPT !.pc = "charge", !.pid = p])
  /\ UNCHANGED subs

\* T-Bank accepts the charge; its answer is still to be read.
JobCharge(j) ==
  /\ job[j].pc = "charge"
  /\ bank' = [bank EXCEPT ![job[j].pid].charged = TRUE]
  /\ JobGoes(j, [job[j] EXCEPT !.pc = "charged"])
  /\ UNCHANGED subs

\* Init or Charge refused, or an answer that never comes (timeout, bad JSON):
\* in the last case the payment may well have gone through.
JobRefused(j) ==
  /\ job[j].pc \in {"init", "charge", "charged"}
  /\ JobFailure(j)
  /\ JobGoes(j, NextRow(j))
  /\ UNCHANGED bank

JobAccepted(j) ==
  /\ job[j].pc = "charged"
  /\ subs' = [subs EXCEPT ![job[j].sid] =
                Written(@, Loaded(j), RenewalDue(Loaded(j), job[j].pid))]
  /\ JobGoes(j, NextRow(j))
  /\ UNCHANGED bank

\* The process dies (or sending an expiry notice raises): nothing is committed.
JobAbort(j) ==
  /\ job[j].pc # "idle"
  /\ JobGoes(j, IdleJob)
  /\ UNCHANGED <<subs, bank>>

-----------------------------------------------------------------------------
BankStep ==
  \/ \E u \in Users, plan \in Offered, p \in Pids : Checkout(u, plan, p)
  \/ \E p \in Pids, s \in Statuses : Settle(p, s)

WebhookStep ==
  \/ \E h \in Handlers, n \in net : WebhookBegin(h, n) \/ WebhookDuplicate(h, n)
  \/ \E h \in Handlers : WebhookCommit(h) \/ WebhookAbort(h)

CancelStep == \E u \in Users : CancelBegin(u) \/ CancelCommit(u)

JobStep ==
  \E j \in Jobs :
    \/ JobStart(j) \/ JobExpire(j) \/ JobSelect(j) \/ JobDone(j)
    \/ \E i \in job[j].ids : JobLoad(j, i)
    \/ \E p \in Pids : JobInit(j, p)
    \/ JobCharge(j) \/ JobAccepted(j) \/ JobRefused(j) \/ JobAbort(j)

Next == Tick \/ BankStep \/ WebhookStep \/ CancelStep \/ JobStep

Spec == Init /\ [][Next]_vars
-----------------------------------------------------------------------------
(* Properties. *)

Runs == [pc : {"idle", "expire", "select", "loop", "init", "charge", "charged"},
         at : 0..MaxTime, ids : SUBSET Nat, sid : Nat,
         pid : Pids \cup {NoPid}, snap : Seq(Rows)]

\* Every table, transaction and external record has the shape its code gives it.
TypeOK ==
  /\ now \in 0..MaxTime
  /\ subs \in Seq(Rows)
  /\ events \subseteq [pid : Pids, branch : {"paid", "renewal_fail", "ns"},
                       status : Notified \cup {""}]
  /\ ledger \in Seq([user : Users, pid : Pids, balance : Nat])
  /\ DOMAIN bank \subseteq Pids /\ bank \in [DOMAIN bank -> Payments]
  /\ net \subseteq Notes
  /\ handler \in [Handlers -> [note : Notes \cup {NoNote}, snap : Seq(Rows), stars : Nat]]
  /\ job \in [Jobs -> Runs]
  /\ cancel \in [Users -> [open : BOOLEAN, snap : Seq(Rows)]]
  /\ granted \in [Pids -> Nat]

\* The payments whose success is recorded in billing_events.
Recorded == {p \in Pids : PaidKey(p) \in events}

RowsOf(p) == {i \in DOMAIN subs : subs[i].meta.ext = p}
TopupsOf(p) == {k \in DOMAIN ledger : ledger[k].pid = p}

\* The webhook implements PaymentLedger: whatever T-Bank repeats, reorders or
\* sends to two requests at once, and wherever a request dies, each settled
\* payment is applied in one step, once, and yields one row or one top-up.
Settled == {p \in DOMAIN bank : bank[p].status \in {"AUTHORIZED", "CONFIRMED", "REFUNDED"}}
Sold == {p \in DOMAIN bank : bank[p].kind = Initial}
Items == [p \in Pids |-> {<<"row", i>> : i \in RowsOf(p)} \cup {<<"stars", k>> : k \in TopupsOf(p)}]

Ledger == INSTANCE PaymentLedger
            WITH sold <- Sold, paid <- Settled, applied <- Recorded, items <- Items
ImplementsLedger == Ledger!Spec

\* No period is given away: what a row has left is covered by one period for
\* each distinct payment that paid for it, under duplicated and concurrent
\* notifications too.
PaidTimeBound ==
  \A i \in DOMAIN subs :
    subs[i].expires <= now + Period * Cardinality({p \in Pids : granted[p] = i})

\* A payment that went through is on record, or T-Bank still notifies of it: no
\* request that dies, is repeated or runs beside another loses one.
NoPaymentLost ==
  \A p \in Settled : p \in Recorded \/ \E n \in net : n.pid = p /\ IsPaymentSuccess(n)

\* Only a payment T-Bank settled, and whose success is on record, gives time.
GrantIsPaidFor ==
  \A p \in Pids : granted[p] # 0 =>
    /\ p \in Recorded
    /\ p \in DOMAIN bank /\ bank[p].charged
    /\ bank[p].status \in {"AUTHORIZED", "CONFIRMED", "REFUNDED"}

\* A renewal run never works on a row it loaded after the user opted out, even
\* though notifications of earlier charges go on rewriting the row's state.
NoChargeAfterOptOut ==
  \A j \in Jobs : job[j].pc \in {"init", "charge", "charged"} => ~Loaded(j).cancelled

\* Two purchases activated at once may leave a user two active rows; the excess
\* is bounded by the number of requests handled at once, it does not build up.
ActiveRowsBound ==
  \A u \in Users : Cardinality(Active(subs, u)) <= Cardinality(Handlers)

\* A row that was superseded or expired never becomes active again, whatever a
\* transaction that loaded it before goes on to write.
NoResurrection ==
  [][\A i \in DOMAIN subs : subs[i].status = "superseded" => subs'[i].status = "superseded"]_vars

\* docs/m7_recurring.md: access lasts until expires_at, opted out or not.  What a
\* user is subscribed to changes before that only with a purchase, or by a cron
\* run that found the row overdue and commits after its renewal.
AccessKept ==
  [][\A u \in Users :
       LET plan == SubscribedPlan(subs, u, now) IN
       plan # "none" /\ SubscribedPlan(subs', u, now') # plan =>
         \/ now' # now \/ Len(subs') # Len(subs)
         \/ \E j \in Jobs, i \in DOMAIN subs :
              /\ Serves(subs, u, i)
              /\ job[j].pc = "expire" /\ job'[j].pc = "select"
              /\ i \in DOMAIN job[j].snap /\ job[j].snap[i].expires < job[j].at]_vars

\* The JSON column of a row is never rewritten after the INSERT: neither the id
\* of a pending charge nor that of the last renewal ever reaches the database.
MetaNeverRewritten == [][\A i \in DOMAIN subs : subs'[i].meta = subs[i].meta]_vars

\* docs/m7_recurring.md: opting out leaves the subscription `cancelled` to the
\* end of its period.
CancelSticks ==
  [][\A i \in DOMAIN subs :
       subs[i].state = "cancelled" => subs'[i].state = "cancelled" \/ subs'[i].status = "superseded"]_vars

\* docs/m7_recurring.md: a processed renewal is a period extended.
RenewalExtends ==
  \A p \in DOMAIN bank : bank[p].kind = Renewal /\ p \in Recorded => granted[p] # 0

\* docs/m4_monetization.md: balance_after is the balance after the operation,
\* in the order of the ledger.
BalanceSnapshot ==
  \A k \in DOMAIN ledger :
    ledger[k].balance = TopupStars * Cardinality({m \in 1..k : ledger[m].user = ledger[k].user})

-----------------------------------------------------------------------------
(* Liveness. *)

\* The notifications of the statuses the instance settles.
SentNotes == [pid : Pids, status : Statuses]

\* T-Bank repeats a notification until it is answered, and the server is not
\* down for good.
FairDelivery ==
  /\ Spec
  /\ \A n \in SentNotes : SF_vars(n \in net /\ \E h \in Handlers : WebhookBegin(h, n))
  /\ \A h \in Handlers : SF_vars(WebhookCommit(h))

\* Cron starts a run when the last one ended, every HTTP request of a run ends
\* (its timeout is 45 s), and some run is not killed before its first commit.
JobProceeds(j) ==
  \/ JobStart(j) \/ JobExpire(j) \/ JobSelect(j) \/ JobDone(j) \/ JobRefused(j)
  \/ \E i \in job[j].ids : JobLoad(j, i)

FairBilling == FairDelivery /\ \A j \in Jobs : WF_vars(JobProceeds(j)) /\ SF_vars(JobExpire(j))

\* Whatever T-Bank notifies of is recorded in the end, unanswered requests,
\* crashes and duplicates notwithstanding.
EventuallyRecorded == \A n \in SentNotes : (n \in net) ~> (n.pid \in DOMAIN bank /\ Key(n) \in events)

Overdue(i) == i \in DOMAIN subs /\ subs[i].status = "active" /\ subs[i].expires < now

\* A subscription past its end does not stay active.
EventuallyExpired == \A i \in 1..Cardinality(Pids) : Overdue(i) ~> ~Overdue(i)
=============================================================================
