-------------------------- MODULE SubscriptionRows --------------------------
(***************************************************************************)
(* The table `subscriptions` (packages/db/models.py) and the edits that    *)
(* packages/billing/tbank_service.py makes to its rows.                    *)
(*                                                                         *)
(* A table is a sequence of rows; the index of a row is its autoincrement  *)
(* id, and rows are never deleted.  An edit is a pure operator on the rows *)
(* a session has LOADED; what the database keeps of it is decided by Save, *)
(* the unit of work of the ORM: an UPDATE names only the columns whose     *)
(* value differs from the loaded one, so a stale session overwrites the    *)
(* columns it changed and no other.                                        *)
(***************************************************************************)
EXTENDS Integers, Sequences

CONSTANTS
  Users,    \* internal user ids
  Pids,     \* T-Bank PaymentIds
  NoPid,    \* "no payment id"
  Period    \* m6_subscription_period_days, in ticks of the model's clock

ASSUME RowsAssumption ==
  /\ NoPid \notin Pids
  /\ Period \in Nat \ {0}

ConsumerPlus == "consumer_plus_290"
BusinessMarketer == "business_marketer_490"
StarsTopup == "stars_topup_99"

\* Plans with a period (renewal, cancellation and expiry select on them).
PlusPlans == {ConsumerPlus, BusinessMarketer}
Plans == PlusPlans \cup {StarsTopup}

\* subscription_states.py; a row is only ever written in one of these.
States == {"active", "renewal_due", "renewal_failed", "cancelled", "expired"}

\* The keys of the JSON column `meta` that the code reads back.  A row is only
\* ever inserted with the payment that bought it.
Metas == [ext : Pids,                   \* external_payment_id
          last : Pids \cup {NoPid},     \* last_renewal_payment_id
          pending : Pids \cup {NoPid}]  \* renewal_pending_payment_id

Rows == [user : Users, plan : PlusPlans, status : {"active", "superseded"},
         state : States, rebill : BOOLEAN, autoRenew : BOOLEAN,
         cancelled : BOOLEAN,           \* cancelled_at is set
         expires : Int, meta : Metas]

NoMeta == [ext |-> NoPid, last |-> NoPid, pending |-> NoPid]

-----------------------------------------------------------------------------
(* Selections. *)

Active(rows, u) == {i \in DOMAIN rows : rows[i].user = u /\ rows[i].status = "active"}

ActiveOn(rows, u, plan) == {i \in Active(rows, u) : rows[i].plan = plan}

\* ORDER BY id DESC LIMIT 1, of the active rows of a user on a plan.
IsLatest(rows, u, plan, i) ==
  /\ i \in ActiveOn(rows, u, plan)
  /\ \A k \in ActiveOn(rows, u, plan) : k <= i

\* Wrong version: only an active row is looked at.
MutActivatedBy(rows, u, pid) == \E i \in Active(rows, u) : rows[i].meta.ext = pid /\ rows[i].state = "active"

\* The payment has already produced a row (whatever became of that row).
ActivatedBy(rows, u, pid) ==
  \E i \in DOMAIN rows : rows[i].user = u /\ rows[i].meta.ext = pid

-----------------------------------------------------------------------------
(* Access: packages/entitlements/resolver.py. *)

\* Wrong version: no access once the user opted out.
MutPaidAccess(state) == state \in {"active", "renewal_due", "renewal_failed"}

\* PAID_ACCESS_STATES
PaidAccess(state) == state \in {"active", "renewal_due", "renewal_failed", "cancelled"}

\* Wrong version: the first row is taken, not the last.
MutServes(rows, u, i) == i \in Active(rows, u) /\ \A k \in Active(rows, u) : i <= k

\* The row that decides: the active one with the highest id, whatever its end.
Serves(rows, u, i) == i \in Active(rows, u) /\ \A k \in Active(rows, u) : k <= i

\* resolve_plan_code; "none" stands for the free plan of the user's mode.
SubscribedPlan(rows, u, now) ==
  LET good == {i \in Active(rows, u) : /\ Serves(rows, u, i) /\ rows[i].plan \in PlusPlans
                                       /\ PaidAccess(rows[i].state) /\ rows[i].expires >= now}
  IN  IF good = {} THEN "none" ELSE rows[CHOOSE i \in good : TRUE].plan

-----------------------------------------------------------------------------
(* Edits of one loaded row. *)

\* Wrong version: flag_modified(sub, "meta") after the edit.
MutStoredMeta(loaded, edited) == edited

\* `meta = sub.meta or {}; meta[k] = v; sub.meta = meta`.  The column is a plain
\* JSON type, without mutation tracking: a non-empty dict is edited in place and
\* assigned to itself, so the new value equals the "loaded" one and the UPDATE
\* leaves the column out.  Only an empty or NULL column takes the edit.
StoredMeta(loaded, edited) == IF loaded = NoMeta THEN edited ELSE loaded

Later(a, b) == IF a >= b THEN a ELSE b

Renewed(row, pid, now) ==
  [row EXCEPT !.expires = Later(row.expires, now) + Period,
              !.state = "active",
              !.meta = StoredMeta(row.meta, [row.meta EXCEPT !.last = pid, !.pending = NoPid])]

RenewalFailed(row) ==
  [row EXCEPT !.state = "renewal_failed",
              !.meta = StoredMeta(row.meta, [row.meta EXCEPT !.pending = NoPid])]

RenewalDue(row, pid) ==
  [row EXCEPT !.state = "renewal_due",
              !.meta = StoredMeta(row.meta, [row.meta EXCEPT !.pending = pid])]

\* Wrong versions: the opt-out recorded in the state only, or in the status.
MutCancelledState(row) == [row EXCEPT !.state = "cancelled", !.cancelled = TRUE]
MutCancelledStatus(row) ==
  [row EXCEPT !.autoRenew = FALSE, !.status = "cancelled", !.cancelled = TRUE]

Cancelled(row) == [row EXCEPT !.autoRenew = FALSE, !.state = "cancelled", !.cancelled = TRUE]

Superseded(row) == [row EXCEPT !.status = "superseded", !.state = "expired"]

NewRow(u, plan, pid, withRebill, now) ==
  [user |-> u, plan |-> plan, status |-> "active", state |-> "active",
   rebill |-> withRebill, autoRenew |-> TRUE, cancelled |-> FALSE,
   expires |-> now + Period,
   meta |-> [ext |-> pid, last |-> NoPid, pending |-> NoPid]]

-----------------------------------------------------------------------------
(* The operations, as the rows a session holds in memory when it flushes:  *)
(* `rows` is what it loaded.                                               *)

\* Wrong version: an opted-out row is not superseded.
MutSupersedeAll(rows, u) ==
  [i \in DOMAIN rows |->
     IF i \in Active(rows, u) /\ rows[i].state # "cancelled" THEN Superseded(rows[i]) ELSE rows[i]]

\* activate_subscription, before it adds its own row.
SupersedeAll(rows, u) ==
  [i \in DOMAIN rows |-> IF i \in Active(rows, u) THEN Superseded(rows[i]) ELSE rows[i]]

\* apply_successful_renewal: no active row of the plan, no effect.
ExtendLatest(rows, u, plan, pid, now) ==
  [i \in DOMAIN rows |->
     IF IsLatest(rows, u, plan, i) /\ rows[i].meta.last # pid
     THEN Renewed(rows[i], pid, now) ELSE rows[i]]

\* apply_renewal_failure
FailLatest(rows, u, plan) ==
  [i \in DOMAIN rows |-> IF IsLatest(rows, u, plan, i) THEN RenewalFailed(rows[i]) ELSE rows[i]]

\* Wrong version: an opted-out row is left to run on.
MutExpireOverdue(rows, now) ==
  [i \in DOMAIN rows |->
     IF rows[i].status = "active" /\ rows[i].state # "cancelled" /\ rows[i].expires < now
     THEN Superseded(rows[i]) ELSE rows[i]]

\* mark_subscription_expired, for every user with an overdue row.
ExpireOverdue(rows, now) ==
  [i \in DOMAIN rows |->
     IF rows[i].status = "active" /\ rows[i].expires < now
     THEN Superseded(rows[i]) ELSE rows[i]]

\* cancel_subscription
CancelAll(rows, u) ==
  [i \in DOMAIN rows |->
     IF i \in Active(rows, u) /\ rows[i].state # "cancelled"
     THEN Cancelled(rows[i]) ELSE rows[i]]

-----------------------------------------------------------------------------
(* The flush of a session. *)

\* Wrong version: the UPDATE writes every column back.
MutColumn(db, loaded, edited) == edited

\* A column in the UPDATE if the session changed it, else as the database has it.
Column(db, loaded, edited) == IF edited = loaded THEN db ELSE edited

\* One UPDATE: the columns the session changed, over what the database holds.
Written(db, loaded, edited) ==
  [db EXCEPT !.status = Column(@, loaded.status, edited.status),
             !.state = Column(@, loaded.state, edited.state),
             !.autoRenew = Column(@, loaded.autoRenew, edited.autoRenew),
             !.cancelled = Column(@, loaded.cancelled, edited.cancelled),
             !.expires = Column(@, loaded.expires, edited.expires),
             !.meta = Column(@, loaded.meta, edited.meta)]

Save(rows, loaded, edited) ==
  [i \in DOMAIN rows |->
     IF i \in DOMAIN loaded THEN Written(rows[i], loaded[i], edited[i]) ELSE rows[i]]
=============================================================================
