----------------------------- MODULE Generation -----------------------------
(***************************************************************************)
(* What becomes of a prompt: the quota check and the job row of the        *)
(* dispatch transaction (on_message_created), the background task that     *)
(* generates, stores, charges and delivers (GenerationOrchestrator), and   *)
(* the referral reward a first image earns.  Tasks run concurrently in one *)
(* process: asyncio gives no order between them, and a prompt of a user    *)
(* can be accepted while the user's earlier ones are still running.        *)
(***************************************************************************)
EXTENDS Entitlements

CONSTANTS
  Tasks,      \* requests and background tasks that may run at once
  PlanOf,     \* the plan each user's subscription resolves to
  Asked,      \* what the users of the instance ask for
  OldUsage,   \* usage_events left by the first release
  MaxWork,    \* bound of the jobs and questions
  MaxTime     \* bound of the clock

ASSUME GenerationAssumption ==
  /\ IsFiniteSet(Tasks) /\ Tasks # {}
  /\ PlanOf \in [Users -> PlanCodes]
  /\ Asked \subseteq Contexts
  /\ OldUsage \in Seq(UsageRows) /\ \A i \in DOMAIN OldUsage : OldUsage[i].job = 0
  /\ MaxWork \in Nat /\ MaxTime \in Nat

VARIABLES
  now,        \* the clock
  jobs,       \* table generation_jobs
  files,      \* table stored_files: the jobs that have one
  usage,      \* table usage_events
  referrals,  \* table referrals
  ledger,     \* table stars_ledger: the referral rewards
  task        \* the requests and tasks running

tables == <<jobs, files, usage, referrals, ledger>>
vars == <<now, jobs, files, usage, referrals, ledger, task>>

NoUser == "nobody"

IdleTask == [pc |-> "idle", user |-> NoUser, ctx |-> "question", job |-> 0, pending |-> 0]

Init ==
  /\ now = 0
  /\ jobs = <<>>
  /\ files = {}
  /\ usage = OldUsage
  /\ referrals = <<>>
  /\ ledger = <<>>
  /\ task = [t \in Tasks |-> IdleTask]

Tick ==
  /\ now < MaxTime
  /\ now' = now + 1
  /\ UNCHANGED <<tables, task>>

TaskGoes(t, next) == task' = [task EXCEPT ![t] = next] /\ UNCHANGED now

\* attach_by_code: a user enters the code of another; the unique index on the
\* invitee decides between two requests.
Attach(invitee, inviter) ==
  /\ invitee # inviter
  /\ \A r \in DOMAIN referrals : referrals[r].invitee # invitee
  /\ referrals' = Append(referrals, [inviter |-> inviter, invitee |-> invitee, status |-> "pending"])
  /\ UNCHANGED <<now, jobs, files, usage, ledger, task>>

-----------------------------------------------------------------------------
(* The request: on_message_created, inside the dispatch transaction.       *)

\* What was asked for so far, for the bound of the instance.
Work == Len(jobs) + Cardinality({i \in DOMAIN usage : usage[i].kind = "text_question"})
          + Cardinality({t \in Tasks : task[t].pc # "idle" /\ task[t].job = 0})

\* The prompt arrives and the quota is checked.
Accept(t, u, ctx) ==
  /\ task[t].pc = "idle"
  /\ Work < MaxWork
  /\ Allowed(usage, PoolOf(ctx), u, PlanOf[u], now)
  /\ TaskGoes(t, [IdleTask EXCEPT !.pc = IF ctx = "question" THEN "answer" ELSE "intake",
                                  !.user = u, !.ctx = ctx])
  /\ UNCHANGED tables

\* A question is answered and charged in the request itself.
Answer(t) ==
  /\ task[t].pc = "answer"
  /\ usage' = Append(usage, [user |-> task[t].user, kind |-> UsageKind("question"),
                             mode |-> "none", at |-> now, job |-> 0])
  /\ TaskGoes(t, IdleTask)
  /\ UNCHANGED <<jobs, files, referrals, ledger>>

NewJob(t) == jobs' = Append(jobs, [user |-> task[t].user, ctx |-> task[t].ctx, status |-> "queued"])

\* The request commits: an image has its job row; a bundle writes its text first.
CommitIntake(t) ==
  /\ task[t].pc = "intake"
  /\ IF task[t].ctx \in Bundles
     THEN /\ TaskGoes(t, [task[t] EXCEPT !.pc = "text"])
          /\ UNCHANGED jobs
     ELSE /\ NewJob(t)
          /\ TaskGoes(t, [task[t] EXCEPT !.pc = "run", !.job = Len(jobs) + 1])
  /\ UNCHANGED <<files, usage, referrals, ledger>>

\* run_greeting_bundle_after_commit, run_vk_bundle_after_commit: the text is
\* there, and its picture is queued.
TextReady(t) ==
  /\ task[t].pc = "text"
  /\ NewJob(t)
  /\ TaskGoes(t, [task[t] EXCEPT !.pc = "run", !.job = Len(jobs) + 1])
  /\ UNCHANGED <<files, usage, referrals, ledger>>

-----------------------------------------------------------------------------
(* run_image_job_after_commit *)

\* Wrong version: `processing` is committed.
MutStartJob(t) ==
  /\ task[t].pc = "run"
  /\ jobs' = [jobs EXCEPT ![task[t].job].status = "processing"]
  /\ TaskGoes(t, [task[t] EXCEPT !.pc = "provider"])
  /\ UNCHANGED <<files, usage, referrals, ledger>>

\* `processing` is flushed, and visible to no other transaction.
StartJob(t) ==
  /\ task[t].pc = "run"
  /\ TaskGoes(t, IF jobs[task[t].job].status = "queued"
                 THEN [task[t] EXCEPT !.pc = "provider"] ELSE IdleTask)
  /\ UNCHANGED tables

FailJob(t) ==
  /\ task[t].pc = "provider"
  /\ jobs' = [jobs EXCEPT ![task[t].job].status = "failed"]
  /\ TaskGoes(t, IdleTask)
  /\ UNCHANGED <<files, usage, referrals, ledger>>

\* Wrong version: a rewarded referral is found again.
MutPendingReferral(u) ==
  IF \E r \in DOMAIN referrals : referrals[r].invitee = u
  THEN CHOOSE r \in DOMAIN referrals : referrals[r].invitee = u ELSE 0

\* try_reward_on_first_image_flow selects the referral of the invitee.
PendingReferral(u) ==
  IF \E r \in DOMAIN referrals : referrals[r].invitee = u /\ referrals[r].status = "pending"
  THEN CHOOSE r \in DOMAIN referrals : referrals[r].invitee = u /\ referrals[r].status = "pending"
  ELSE 0

\* Wrong version: the user is charged before the picture is stored.
MutPictureReady(t) ==
  /\ task[t].pc = "provider"
  /\ usage' = Append(usage, [user |-> task[t].user, kind |-> UsageKind(task[t].ctx),
                             mode |-> "none", at |-> now, job |-> task[t].job])
  /\ TaskGoes(t, [task[t] EXCEPT !.pc = "store", !.pending = PendingReferral(task[t].user)])
  /\ UNCHANGED <<jobs, files, referrals, ledger>>

\* The picture is there, watermarked and on disk.
PictureReady(t) ==
  /\ task[t].pc = "provider"
  /\ TaskGoes(t, [task[t] EXCEPT !.pc = "store", !.pending = PendingReferral(task[t].user)])
  /\ UNCHANGED tables

\* Wrong version: the referral stays pending.
MutReward(r) ==
  /\ ledger' = Append(ledger, [user |-> referrals[r].inviter, ref |-> r])
  /\ UNCHANGED referrals

\* try_reward_on_first_image_flow, past its SELECT: the status it writes does
\* not depend on the one in the database.
Reward(r) ==
  /\ referrals' = [referrals EXCEPT ![r].status = "rewarded"]
  /\ ledger' = Append(ledger, [user |-> referrals[r].inviter, ref |-> r])

\* The file, the status, the charge and the reward are committed together.
StoreJob(t) ==
  /\ task[t].pc = "store"
  /\ files' = files \cup {task[t].job}
  /\ jobs' = [jobs EXCEPT ![task[t].job].status = "succeeded"]
  /\ usage' = Append(usage, [user |-> task[t].user, kind |-> UsageKind(task[t].ctx),
                             mode |-> "none", at |-> now, job |-> task[t].job])
  /\ IF task[t].pending # 0 THEN Reward(task[t].pending) ELSE UNCHANGED <<referrals, ledger>>
  /\ TaskGoes(t, [task[t] EXCEPT !.pc = "deliver"])

\* The end of a task, delivered or not; or an exception in it, or the end of
\* the process: what it has not committed is rolled back, and nobody runs the
\* job again.
Leave(t) ==
  /\ task[t].pc # "idle"
  /\ TaskGoes(t, IdleTask)
  /\ UNCHANGED tables

-----------------------------------------------------------------------------
TaskStep(t) ==
  \/ \E u \in Users, ctx \in Asked : Accept(t, u, ctx)
  \/ Answer(t) \/ CommitIntake(t) \/ TextReady(t)
  \/ StartJob(t) \/ FailJob(t) \/ PictureReady(t) \/ StoreJob(t) \/ Leave(t)

Next ==
  \/ Tick
  \/ \E u, v \in Users : Attach(u, v)
  \/ \E t \in Tasks : TaskStep(t)

Spec == Init /\ [][Next]_vars
-----------------------------------------------------------------------------
(* Properties. *)

Statuses == {"queued", "succeeded", "failed"}

\* Every table and task has the shape its code gives it; in particular no
\* transaction ever reads a job as `processing`.
TypeOK ==
  /\ now \in 0..MaxTime
  /\ jobs \in Seq([user : Users, ctx : Contexts \ {"question"}, status : Statuses])
  /\ files \subseteq DOMAIN jobs
  /\ usage \in Seq(UsageRows)
  /\ referrals \in Seq([inviter : Users, invitee : Users, status : {"pending", "rewarded"}])
  /\ ledger \in Seq([user : Users, ref : DOMAIN referrals])
  /\ task \in [Tasks ->
       [pc : {"idle", "intake", "answer", "text", "run", "provider", "store", "deliver"},
        user : Users \cup {NoUser}, ctx : Contexts, job : {0} \cup DOMAIN jobs,
        pending : {0} \cup DOMAIN referrals]]

UsedNow(pool, u) == Used(usage, pool, u, PlanOf[u], now)

\* The requests and tasks that may still charge a pool of a user.
Uncharged(pool, u) ==
  {t \in Tasks : /\ task[t].pc \notin {"idle", "deliver"}
                 /\ task[t].user = u /\ PoolOf(task[t].ctx) = pool}

\* The quota is checked before a task and charged after it: what a user has
\* used, with what the user's running tasks may still use, passes the limit by
\* at most the tasks that run at once, less one.
QuotaBound ==
  \A u \in Users, pool \in Pools :
    UsedNow(pool, u) + Cardinality(Uncharged(pool, u))
      <= Limit(pool, PlanOf[u]) + Cardinality(Tasks) - 1

\* A user is charged once for each picture that is stored, and for no other,
\* wherever its task or the process stopped.
ChargedForOutput ==
  /\ \A j \in DOMAIN jobs :
       /\ jobs[j].status = "succeeded" <=> j \in files
       /\ Cardinality({i \in DOMAIN usage : usage[i].job = j}) = IF j \in files THEN 1 ELSE 0
  /\ \A i \in DOMAIN usage : usage[i].job # 0 =>
       /\ usage[i].job \in files
       /\ usage[i].user = jobs[usage[i].job].user
       /\ usage[i].kind = UsageKind(jobs[usage[i].job].ctx)

\* The rewards of a referral go to its inviter and never outnumber the pictures
\* its invitee was charged for.
RewardsEarned ==
  \A r \in DOMAIN referrals :
    LET rewards == {k \in DOMAIN ledger : ledger[k].ref = r}
    IN  /\ \A k \in rewards : ledger[k].user = referrals[r].inviter
        /\ rewards # {} <=> referrals[r].status = "rewarded"
        /\ Cardinality(rewards) <= Cardinality({j \in files : jobs[j].user = referrals[r].invitee})

\* A referral is rewarded no more often than tasks of its invitee can hold it as
\* pending at once; with one task at a time, once.
RewardBound ==
  \A r \in DOMAIN referrals :
    Cardinality({k \in DOMAIN ledger : ledger[k].ref = r})
      + Cardinality({t \in Tasks : task[t].pc = "store" /\ task[t].pending = r}) <= Cardinality(Tasks)

\* docs/m4_monetization.md: the inviter is rewarded once for an invitee.
RewardOnce ==
  \A r \in DOMAIN referrals : Cardinality({k \in DOMAIN ledger : ledger[k].ref = r}) <= 1

\* docs/m4_monetization.md: at the limit the next request gets the paywall, so
\* no more than the limit is ever used.
QuotaHolds == \A u \in Users, pool \in Pools : UsedNow(pool, u) <= Limit(pool, PlanOf[u])
=============================================================================
