----------------------------- MODULE StubBilling -----------------------------
(***************************************************************************)
(* Billing without a T-Bank terminal (StubBillingCheckoutService): the     *)
(* debug endpoint that activates a subscription, the opt-out button, and   *)
(* the cron run that expires rows and charges nothing.  The edits of rows  *)
(* are those of SubscriptionRows, with a first period of ten years; the    *)
(* renewals of the service have no caller.                                 *)
(***************************************************************************)
EXTENDS SubscriptionRows, FiniteSets

CONSTANTS
  Requests,  \* requests to POST /internal/m4/subscription/activate-stub at once
  Runs,      \* cron runs that may overlap
  DebugPid,  \* "debug_stub", the payment id of every activation
  MaxTime    \* bound of the clock

ASSUME StubAssumption ==
  /\ IsFiniteSet(Requests) /\ Requests # {} /\ Users # {}
  /\ DebugPid \in Pids
  /\ MaxTime \in Nat

VARIABLES
  now,     \* the clock
  subs,    \* table subscriptions
  request, \* the activations in progress
  cancel,  \* the opt-outs in progress, one per user
  run      \* the cron runs in progress

vars == <<now, subs, request, cancel, run>>

IdleRequest == [open |-> FALSE, user |-> CHOOSE u \in Users : TRUE, plan |-> ConsumerPlus, snap |-> <<>>]
IdleCancel == [open |-> FALSE, snap |-> <<>>]
IdleRun == [open |-> FALSE, at |-> 0, snap |-> <<>>]

Init ==
  /\ now = 0
  /\ subs = <<>>
  /\ request = [r \in Requests |-> IdleRequest]
  /\ cancel = [u \in Users |-> IdleCancel]
  /\ run = [j \in Runs |-> IdleRun]

Tick ==
  /\ now < MaxTime
  /\ now' = now + 1
  /\ UNCHANGED <<subs, request, cancel, run>>

\* activate_subscription reads the rows of the user; with one from an earlier
\* activation it returns that, and has no effect.
ActivateBegin(r, u, plan) ==
  /\ ~request[r].open
  /\ ~ActivatedBy(subs, u, DebugPid)
  /\ request' = [request EXCEPT ![r] = [open |-> TRUE, user |-> u, plan |-> plan, snap |-> subs]]
  /\ UNCHANGED <<now, subs, cancel, run>>

ActivateCommit(r) ==
  /\ request[r].open
  /\ LET q == request[r] IN
     subs' = Append(Save(subs, q.snap, SupersedeAll(q.snap, q.user)),
                    NewRow(q.user, q.plan, DebugPid, TRUE, now))
  /\ request' = [request EXCEPT ![r] = IdleRequest]
  /\ UNCHANGED <<now, cancel, run>>

\* cancel_subscription, in the transaction of the bot update; with no row to
\* change it has no effect.
CancelBegin(u) ==
  /\ ~cancel[u].open
  /\ CancelAll(subs, u) # subs
  /\ cancel' = [cancel EXCEPT ![u] = [open |-> TRUE, snap |-> subs]]
  /\ UNCHANGED <<now, subs, request, run>>

CancelCommit(u) ==
  /\ cancel[u].open
  /\ subs' = Save(subs, cancel[u].snap, CancelAll(cancel[u].snap, u))
  /\ cancel' = [cancel EXCEPT ![u] = IdleCancel]
  /\ UNCHANGED <<now, request, run>>

\* expire_subscriptions_past_due, with mark_subscription_expired
RunBegin(j) ==
  /\ ~run[j].open
  /\ ExpireOverdue(subs, now) # subs
  /\ run' = [run EXCEPT ![j] = [open |-> TRUE, at |-> now, snap |-> subs]]
  /\ UNCHANGED <<now, subs, request, cancel>>

RunCommit(j) ==
  /\ run[j].open
  /\ subs' = Save(subs, run[j].snap, ExpireOverdue(run[j].snap, run[j].at))
  /\ run' = [run EXCEPT ![j] = IdleRun]
  /\ UNCHANGED <<now, request, cancel>>

\* A transaction that dies is rolled back.
Dies ==
  /\ \/ \E r \in Requests : request[r].open /\ request' = [request EXCEPT ![r] = IdleRequest]
                            /\ UNCHANGED <<cancel, run>>
     \/ \E u \in Users : cancel[u].open /\ cancel' = [cancel EXCEPT ![u] = IdleCancel]
                         /\ UNCHANGED <<request, run>>
     \/ \E j \in Runs : run[j].open /\ run' = [run EXCEPT ![j] = IdleRun]
                        /\ UNCHANGED <<request, cancel>>
  /\ UNCHANGED <<now, subs>>

Next ==
  \/ Tick
  \/ \E r \in Requests, u \in Users, plan \in PlusPlans : ActivateBegin(r, u, plan)
  \/ \E r \in Requests : ActivateCommit(r)
  \/ \E u \in Users : CancelBegin(u) \/ CancelCommit(u)
  \/ \E j \in Runs : RunBegin(j) \/ RunCommit(j)
  \/ Dies

Spec == Init /\ [][Next]_vars
-----------------------------------------------------------------------------
(* Properties. *)

\* The table and the transactions have the shape their code gives them.
TypeOK ==
  /\ now \in 0..MaxTime
  /\ subs \in Seq(Rows)
  /\ request \in [Requests -> [open : BOOLEAN, user : Users, plan : PlusPlans, snap : Seq(Rows)]]
  /\ cancel \in [Users -> [open : BOOLEAN, snap : Seq(Rows)]]
  /\ run \in [Runs -> [open : BOOLEAN, at : 0..MaxTime, snap : Seq(Rows)]]

\* docs/m4_monetization.md says that a second activation adds no row.  One that
\* runs at once with the first does; a later one never, not even when the row
\* has been opted out of or has expired.
RowsBound ==
  \A u \in Users :
    Cardinality({i \in DOMAIN subs : subs[i].user = u})
      + Cardinality({r \in Requests : request[r].open /\ request[r].user = u}) <= Cardinality(Requests)

\* What a user is subscribed to changes only with time or with an activation:
\* an opt-out takes no access away, nor does a cron run, however stale.
AccessKept ==
  [][\A u \in Users :
       LET plan == SubscribedPlan(subs, u, now) IN
       plan # "none" /\ SubscribedPlan(subs', u, now') # plan
         => now' # now \/ Len(subs') # Len(subs)]_vars

\* A row that is active and not over gives its user a subscription, even when
\* another active row decides which.
PaidRowServes ==
  \A u \in Users :
    (\E i \in Active(subs, u) : subs[i].expires >= now) => SubscribedPlan(subs, u, now) # "none"

\* An opt-out lasts until the row is superseded, whatever a stale session saves.
CancelSticks ==
  [][\A i \in DOMAIN subs :
       subs[i].state = "cancelled" => subs'[i].state = "cancelled" \/ subs'[i].status = "superseded"]_vars
=============================================================================
