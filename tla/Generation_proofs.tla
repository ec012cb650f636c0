------------------------- MODULE Generation_proofs -------------------------
(***************************************************************************)
(* Proofs about Generation, for any number of users, tasks, jobs and       *)
(* quotas: the shape of its tables, one charge for each stored picture and *)
(* none for any other, and the bounds of rewards and quotas.               *)
(***************************************************************************)
EXTENDS Generation, SequenceTheorems, FiniteSetTheorems, TLAPS

-----------------------------------------------------------------------------
(* The inductive invariant. *)

Pictures == Contexts \ {"question"}
JobRows == [user : Users, ctx : Pictures, status : Statuses]
ReferralRows == [inviter : Users, invitee : Users, status : {"pending", "rewarded"}]
LedgerRows == [user : Users, ref : DOMAIN referrals]

\* The tasks between the commit of their job and the commit of its result.
HasJob == {"run", "provider", "store"}

\* Such a task runs the job it was created for, still queued, and no other does;
\* one without a job is still in the hands of its user.
TasksOwnJobs ==
  /\ \A t \in Tasks : task[t].pc \in HasJob =>
       /\ task[t].job \in DOMAIN jobs
       /\ jobs[task[t].job] = [user |-> task[t].user, ctx |-> task[t].ctx, status |-> "queued"]
       /\ \A s \in Tasks \ {t} : task[s].pc \in HasJob => task[s].job # task[t].job
  /\ \A t \in Tasks : task[t].pc # "idle" => task[t].user \in Users
  /\ \A t \in Tasks : task[t].pc \in {"intake", "text"} => task[t].ctx \in Pictures

\* A job is done when its file is there.
FilesOfSucceeded == \A j \in DOMAIN jobs : jobs[j].status = "succeeded" <=> j \in files

\* A charge names the stored picture it is for.
ChargesOfFiles ==
  \A i \in DOMAIN usage : usage[i].job # 0 =>
    /\ usage[i].job \in files
    /\ usage[i].user = jobs[usage[i].job].user
    /\ usage[i].kind = UsageKind(jobs[usage[i].job].ctx)

ChargesFor(j) == {i \in DOMAIN usage : usage[i].job = j}

OneCharge == \A j \in files : \E i \in DOMAIN usage : ChargesFor(j) = {i}

IInv == TypeOK /\ TasksOwnJobs /\ FilesOfSucceeded /\ ChargesOfFiles /\ OneCharge

-----------------------------------------------------------------------------
(* Lemmas. *)

TaskRows == [pc : {"idle", "intake", "answer", "text", "run", "provider", "store", "deliver"},
             user : Users \cup {NoUser}, ctx : Contexts, job : {0} \cup DOMAIN jobs,
             pending : {0} \cup DOMAIN referrals]

LEMMA KindType == \A ctx \in Contexts : UsageKind(ctx) \in UsageKinds
BY DEF Contexts, UsageKind, UsageKinds

LEMMA IdleType == IdleTask \in TaskRows /\ IdleTask.pc = "idle"
<1>1. "question" \in Contexts
  BY DEF Contexts
<1>2. QED
  BY <1>1 DEF IdleTask, TaskRows

\* Tables are numbered from 1.
LEMMA Numbers ==
  ASSUME TypeOK
  PROVE  /\ DOMAIN jobs = 1..Len(jobs) /\ Len(jobs) \in Nat
         /\ DOMAIN usage = 1..Len(usage) /\ Len(usage) \in Nat
         /\ DOMAIN referrals = 1..Len(referrals) /\ Len(referrals) \in Nat
         /\ \A j \in DOMAIN jobs : jobs[j] \in JobRows
         /\ \A i \in DOMAIN usage : usage[i] \in UsageRows
         /\ \A r \in DOMAIN referrals : referrals[r] \in ReferralRows
<1>1. jobs \in Seq(JobRows) /\ usage \in Seq(UsageRows) /\ referrals \in Seq(ReferralRows)
  BY DEF TypeOK, JobRows, Pictures, ReferralRows
<1>2. /\ DOMAIN jobs = 1..Len(jobs) /\ Len(jobs) \in Nat
      /\ \A j \in DOMAIN jobs : jobs[j] \in JobRows
  BY <1>1, LenProperties, ElementOfSeq
<1>3. /\ DOMAIN usage = 1..Len(usage) /\ Len(usage) \in Nat
      /\ \A i \in DOMAIN usage : usage[i] \in UsageRows
  BY <1>1, LenProperties, ElementOfSeq
<1>4. /\ DOMAIN referrals = 1..Len(referrals) /\ Len(referrals) \in Nat
      /\ \A r \in DOMAIN referrals : referrals[r] \in ReferralRows
  BY <1>1, LenProperties, ElementOfSeq
<1>5. QED
  BY <1>2, <1>3, <1>4

\* A row appended to a table.
LEMMA Appended ==
  ASSUME NEW S, NEW s \in Seq(S), NEW e \in S
  PROVE  /\ Append(s, e) \in Seq(S)
         /\ DOMAIN Append(s, e) = DOMAIN s \cup {Len(s) + 1}
         /\ Len(s) + 1 \notin DOMAIN s
         /\ \A i \in DOMAIN s : Append(s, e)[i] = s[i]
         /\ Append(s, e)[Len(s) + 1] = e
<1>1. /\ Append(s, e) \in Seq(S) /\ Len(Append(s, e)) = Len(s) + 1
      /\ \A i \in 1..Len(s) : Append(s, e)[i] = s[i]
      /\ Append(s, e)[Len(s) + 1] = e
  BY AppendProperties
<1>2. /\ DOMAIN s = 1..Len(s) /\ Len(s) \in Nat
      /\ DOMAIN Append(s, e) = 1..Len(Append(s, e))
  BY <1>1, LenProperties
<1>3. QED
  BY <1>1, <1>2

\* A row changed in a table.
LEMMA Changed ==
  ASSUME NEW S, NEW s \in Seq(S), NEW n \in DOMAIN s, NEW e \in S
  PROVE  /\ [s EXCEPT ![n] = e] \in Seq(S)
         /\ DOMAIN [s EXCEPT ![n] = e] = DOMAIN s
         /\ [s EXCEPT ![n] = e][n] = e
         /\ \A i \in DOMAIN s \ {n} : [s EXCEPT ![n] = e][i] = s[i]
<1>1. Len(s) \in Nat /\ DOMAIN s = 1..Len(s) /\ s \in [1..Len(s) -> S]
  BY LenProperties
<1>2. [s EXCEPT ![n] = e] \in [1..Len(s) -> S]
  BY <1>1
<1>3. [s EXCEPT ![n] = e] \in Seq(S)
  BY <1>1, <1>2, SeqDef
<1>4. QED
  BY <1>1, <1>3

\* The rows of a ledger and of the tasks, when referrals and jobs only grow.
LEMMA MoreReferrals ==
  ASSUME NEW R, NEW S, R \subseteq S, NEW s \in Seq([user : Users, ref : R])
  PROVE  s \in Seq([user : Users, ref : S])
<1> DEFINE A == [user : Users, ref : R]
           B == [user : Users, ref : S]
<1>1. A \subseteq B
  OBVIOUS
<1> HIDE DEF A, B
<1>2. Len(s) \in Nat /\ s \in [1..Len(s) -> A]
  BY LenProperties DEF A
<1>3. s \in [1..Len(s) -> B]
  BY <1>1, <1>2
<1>4. s \in Seq(B)
  BY <1>2, <1>3, SeqDef
<1>5. QED
  BY <1>4 DEF B

\* A task moves on without a job, or with the one it has, and no table changes.
LEMMA TaskMoves ==
  ASSUME IInv, NEW t \in Tasks, NEW next \in TaskRows, TaskGoes(t, next), UNCHANGED tables,
         next.pc \in HasJob => /\ task[t].pc \in HasJob /\ next.job = task[t].job
                               /\ next.user = task[t].user /\ next.ctx = task[t].ctx,
         next.pc # "idle" => next.user \in Users,
         next.pc \in {"intake", "text"} => next.ctx \in Pictures
  PROVE  IInv'
<1>1. /\ UNCHANGED <<now, jobs, files, usage, referrals, ledger>>
      /\ task' \in [Tasks -> TaskRows] /\ task'[t] = next
      /\ \A s \in Tasks \ {t} : task'[s] = task[s]
  BY DEF IInv, TypeOK, TaskGoes, tables, TaskRows
<1>2. TypeOK'
  BY <1>1 DEF IInv, TypeOK, TaskRows
<1>3. TasksOwnJobs'
  BY <1>1 DEF IInv, TasksOwnJobs
<1>4. FilesOfSucceeded' /\ ChargesOfFiles' /\ OneCharge'
  BY <1>1 DEF IInv, FilesOfSucceeded, ChargesOfFiles, OneCharge, ChargesFor
<1>5. QED
  BY <1>2, <1>3, <1>4 DEF IInv

\* The job of a task is created: its row is new, and nobody else runs it.
LEMMA NewJobInv ==
  ASSUME IInv, NEW t \in Tasks, task[t].pc \in {"intake", "text"}, NewJob(t),
         TaskGoes(t, [task[t] EXCEPT !.pc = "run", !.job = Len(jobs) + 1]),
         UNCHANGED <<files, usage, referrals, ledger>>
  PROVE  IInv'
<1> DEFINE n == Len(jobs) + 1
           row == [user |-> task[t].user, ctx |-> task[t].ctx, status |-> "queued"]
           next == [task[t] EXCEPT !.pc = "run", !.job = n]
<1>1. /\ jobs \in Seq(JobRows) /\ task \in [Tasks -> TaskRows]
      /\ DOMAIN jobs = 1..Len(jobs) /\ Len(jobs) \in Nat
  BY Numbers DEF IInv, TypeOK, JobRows, Pictures, TaskRows
<1>2. row \in JobRows
  BY DEF IInv, TasksOwnJobs, JobRows, Statuses
<1>3. /\ jobs' \in Seq(JobRows) /\ DOMAIN jobs' = DOMAIN jobs \cup {n} /\ n \notin DOMAIN jobs
      /\ \A j \in DOMAIN jobs : jobs'[j] = jobs[j]
      /\ jobs'[n] = row
  BY <1>1, <1>2, Appended DEF NewJob
<1>4. UNCHANGED <<now, files, usage, referrals, ledger>>
  BY DEF TaskGoes
<1>5. /\ next.pc = "run" /\ next.job = n /\ next.user = task[t].user /\ next.ctx = task[t].ctx
      /\ next \in TaskRows'
  BY <1>1, <1>3, <1>4 DEF TaskRows
<1>6. task' = [task EXCEPT ![t] = next]
  BY DEF TaskGoes
<1> HIDE DEF next, row
<1>7. TaskRows \subseteq TaskRows'
  BY <1>3, <1>4 DEF TaskRows
<1>8. /\ task' \in [Tasks -> TaskRows'] /\ task'[t] = next
      /\ \A s \in Tasks \ {t} : task'[s] = task[s]
  BY <1>1, <1>5, <1>6, <1>7
<1>9. TypeOK'
  BY <1>3, <1>4, <1>8 DEF IInv, TypeOK, JobRows, Pictures, TaskRows
<1>10. TasksOwnJobs'
  <2>1. \A s \in Tasks \ {t} : task[s].pc \in HasJob =>
          /\ task[s].job \in DOMAIN jobs /\ task[s].job # n
          /\ jobs'[task[s].job] = jobs[task[s].job]
    BY <1>3 DEF IInv, TasksOwnJobs
  <2>2. row = [user |-> next.user, ctx |-> next.ctx, status |-> "queued"] /\ next.user \in Users
    BY <1>5 DEF IInv, TasksOwnJobs, row
  <2>3. \A s \in Tasks : task'[s].pc \in HasJob =>
          /\ task'[s].job \in DOMAIN jobs'
          /\ jobs'[task'[s].job] = [user |-> task'[s].user, ctx |-> task'[s].ctx, status |-> "queued"]
    <3> SUFFICES ASSUME NEW s \in Tasks, task'[s].pc \in HasJob
                 PROVE  /\ task'[s].job \in DOMAIN jobs'
                        /\ jobs'[task'[s].job] = [user |-> task'[s].user, ctx |-> task'[s].ctx,
                                                 status |-> "queued"]
      OBVIOUS
    <3>1. CASE s = t
      BY <1>3, <1>5, <1>8, <2>2, <3>1
    <3>2. CASE s # t
      BY <1>3, <1>8, <2>1, <3>2 DEF IInv, TasksOwnJobs
    <3>3. QED
      BY <3>1, <3>2
  <2>4. \A s, r \in Tasks : s # r /\ task'[s].pc \in HasJob /\ task'[r].pc \in HasJob =>
          task'[s].job # task'[r].job
    <3>1. task'[t].job = n
      BY <1>5, <1>8
    <3>2. \A s \in Tasks \ {t} : task'[s].pc \in HasJob => task'[s].job # n
      BY <1>8, <2>1
    <3>3. \A s, r \in Tasks \ {t} :
            s # r /\ task'[s].pc \in HasJob /\ task'[r].pc \in HasJob => task'[s].job # task'[r].job
      BY <1>8 DEF IInv, TasksOwnJobs
    <3>4. QED
      BY <3>1, <3>2, <3>3
  <2>5. /\ \A s \in Tasks : task'[s].pc # "idle" => task'[s].user \in Users
        /\ \A s \in Tasks : task'[s].pc \in {"intake", "text"} => task'[s].ctx \in Pictures
    BY <1>5, <1>8, <2>2 DEF IInv, TasksOwnJobs
  <2>6. QED
    BY <2>3, <2>4, <2>5 DEF TasksOwnJobs
<1>11. files \subseteq DOMAIN jobs
  BY DEF IInv, TypeOK
<1>12. FilesOfSucceeded'
  BY <1>3, <1>4, <1>11 DEF IInv, FilesOfSucceeded, row
<1>13. ChargesOfFiles' /\ OneCharge'
  BY <1>3, <1>4, <1>11 DEF IInv, ChargesOfFiles, OneCharge, ChargesFor
<1>14. QED
  BY <1>9, <1>10, <1>12, <1>13 DEF IInv

\* The job of a task ends: its task is the only one to run it, and it has no file
\* and no charge yet.
LEMMA MarkJob ==
  ASSUME IInv, NEW t \in Tasks, task[t].pc \in HasJob, NEW status \in Statuses,
         jobs' = [jobs EXCEPT ![task[t].job].status = status]
  PROVE  /\ task[t].job \in DOMAIN jobs
         /\ jobs' \in Seq(JobRows) /\ DOMAIN jobs' = DOMAIN jobs
         /\ jobs'[task[t].job].status = status
         /\ jobs[task[t].job].user = task[t].user /\ jobs[task[t].job].ctx = task[t].ctx
         /\ \A j \in DOMAIN jobs : jobs'[j].user = jobs[j].user /\ jobs'[j].ctx = jobs[j].ctx
         /\ \A j \in DOMAIN jobs \ {task[t].job} : jobs'[j] = jobs[j]
         /\ \A s \in Tasks \ {t} : task[s].pc \in HasJob => task[s].job # task[t].job
         /\ task[t].job \notin files
         /\ \A i \in DOMAIN usage : usage[i].job # task[t].job
<1> DEFINE n == task[t].job
           done == [jobs[n] EXCEPT !.status = status]
<1>1. /\ jobs \in Seq(JobRows) /\ \A j \in DOMAIN jobs : jobs[j] \in JobRows
      /\ DOMAIN jobs = 1..Len(jobs)
  BY Numbers DEF IInv, TypeOK, JobRows, Pictures
<1>2. /\ n \in DOMAIN jobs
      /\ jobs[n] = [user |-> task[t].user, ctx |-> task[t].ctx, status |-> "queued"]
      /\ \A s \in Tasks \ {t} : task[s].pc \in HasJob => task[s].job # n
  BY DEF IInv, TasksOwnJobs
<1>3. jobs[n].status = "queued" /\ jobs[n].user = task[t].user /\ jobs[n].ctx = task[t].ctx
  BY <1>2
<1>4. /\ done \in JobRows /\ done.status = status
      /\ done.user = jobs[n].user /\ done.ctx = jobs[n].ctx
  BY <1>1, <1>2 DEF JobRows
<1>5. jobs' = [jobs EXCEPT ![n] = done]
  OBVIOUS
<1> HIDE DEF done, n
<1>6. /\ jobs' \in Seq(JobRows) /\ DOMAIN jobs' = DOMAIN jobs /\ jobs'[n] = done
      /\ \A j \in DOMAIN jobs \ {n} : jobs'[j] = jobs[j]
  <2>1. /\ [jobs EXCEPT ![n] = done] \in Seq(JobRows)
        /\ DOMAIN [jobs EXCEPT ![n] = done] = DOMAIN jobs
        /\ [jobs EXCEPT ![n] = done][n] = done
        /\ \A j \in DOMAIN jobs \ {n} : [jobs EXCEPT ![n] = done][j] = jobs[j]
    <3>1. jobs \in Seq(JobRows) /\ n \in DOMAIN jobs /\ done \in JobRows
      BY <1>1, <1>2, <1>4
    <3> HIDE DEF JobRows
    <3>2. QED
      BY <3>1, Changed
  <2>2. QED
    BY <1>5, <2>1
<1>7. n \notin files
  BY <1>2, <1>3 DEF IInv, FilesOfSucceeded
<1>8. \A i \in DOMAIN usage : usage[i].job # n
  <2>1. n # 0
    BY <1>1, <1>2
  <2>2. QED
    BY <1>7, <2>1 DEF IInv, ChargesOfFiles
<1>9. \A j \in DOMAIN jobs : jobs'[j].user = jobs[j].user /\ jobs'[j].ctx = jobs[j].ctx
  BY <1>4, <1>6
<1>10. jobs'[n].status = status
  BY <1>4, <1>6
<1>11. QED
  BY <1>2, <1>3, <1>6, <1>7, <1>8, <1>9, <1>10 DEF n

LEMMA FailJobInv == ASSUME IInv, NEW t \in Tasks, FailJob(t) PROVE IInv'
<1> DEFINE n == task[t].job
<1>1. /\ task \in [Tasks -> TaskRows] /\ task[t].pc \in HasJob /\ "failed" \in Statuses
      /\ jobs' = [jobs EXCEPT ![n].status = "failed"]
  BY DEF IInv, TypeOK, TaskRows, HasJob, FailJob, Statuses
<1>2. /\ n \in DOMAIN jobs
      /\ jobs' \in Seq(JobRows) /\ DOMAIN jobs' = DOMAIN jobs
      /\ jobs'[n].status = "failed"
      /\ \A j \in DOMAIN jobs : jobs'[j].user = jobs[j].user /\ jobs'[j].ctx = jobs[j].ctx
      /\ \A j \in DOMAIN jobs \ {n} : jobs'[j] = jobs[j]
      /\ \A s \in Tasks \ {t} : task[s].pc \in HasJob => task[s].job # n
      /\ n \notin files
  BY <1>1, MarkJob
<1>3. /\ UNCHANGED <<now, files, usage, referrals, ledger>>
      /\ task' \in [Tasks -> TaskRows] /\ task'[t] = IdleTask /\ IdleTask.pc = "idle"
      /\ \A s \in Tasks \ {t} : task'[s] = task[s]
  BY <1>1, IdleType DEF FailJob, TaskGoes
<1>4. TypeOK'
  BY <1>2, <1>3 DEF IInv, TypeOK, JobRows, Pictures, TaskRows
<1>5. TasksOwnJobs'
  BY <1>2, <1>3 DEF IInv, TasksOwnJobs, HasJob
<1>6. FilesOfSucceeded'
  BY <1>2, <1>3 DEF IInv, FilesOfSucceeded
<1>7. files \subseteq DOMAIN jobs
  BY DEF IInv, TypeOK
<1>8. ChargesOfFiles' /\ OneCharge'
  BY <1>2, <1>3, <1>7 DEF IInv, ChargesOfFiles, OneCharge, ChargesFor
<1>9. QED
  BY <1>4, <1>5, <1>6, <1>8 DEF IInv

LEMMA StoreJobInv == ASSUME IInv, NEW t \in Tasks, StoreJob(t) PROVE IInv'
<1> DEFINE n == task[t].job
           p == task[t].pending
           charge == [user |-> task[t].user, kind |-> UsageKind(task[t].ctx),
                      mode |-> "none", at |-> now, job |-> n]
           next == [task[t] EXCEPT !.pc = "deliver"]
           k == Len(usage) + 1
<1>1. /\ task \in [Tasks -> TaskRows] /\ task[t].pc \in HasJob /\ "succeeded" \in Statuses
      /\ jobs' = [jobs EXCEPT ![n].status = "succeeded"]
  BY DEF IInv, TypeOK, TaskRows, HasJob, StoreJob, Statuses
<1>2. /\ n \in DOMAIN jobs
      /\ jobs' \in Seq(JobRows) /\ DOMAIN jobs' = DOMAIN jobs
      /\ jobs'[n].status = "succeeded"
      /\ jobs[n].user = task[t].user /\ jobs[n].ctx = task[t].ctx
      /\ \A j \in DOMAIN jobs : jobs'[j].user = jobs[j].user /\ jobs'[j].ctx = jobs[j].ctx
      /\ \A j \in DOMAIN jobs \ {n} : jobs'[j] = jobs[j]
      /\ \A s \in Tasks \ {t} : task[s].pc \in HasJob => task[s].job # n
      /\ n \notin files
      /\ \A i \in DOMAIN usage : usage[i].job # n
  BY <1>1, MarkJob
<1>3. n \in Nat \ {0} /\ now \in Nat /\ usage \in Seq(UsageRows)
  BY <1>2, Numbers DEF IInv, TypeOK
<1>4. task[t].user \in Users /\ task[t].ctx \in Contexts
  BY <1>1 DEF IInv, TasksOwnJobs, HasJob, TaskRows
<1>5. charge \in UsageRows /\ charge.job = n /\ charge.user = task[t].user
      /\ charge.kind = UsageKind(task[t].ctx)
  BY <1>3, <1>4, KindType DEF UsageRows
<1>6. /\ next \in TaskRows /\ next.pc = "deliver" /\ next.user = task[t].user
  BY <1>1 DEF TaskRows
<1>7. /\ usage' = Append(usage, charge) /\ files' = files \cup {n}
      /\ now' = now /\ task' = [task EXCEPT ![t] = next]
  BY DEF StoreJob, TaskGoes
<1> HIDE DEF charge, next
<1>8. /\ usage' \in Seq(UsageRows) /\ DOMAIN usage' = DOMAIN usage \cup {k}
      /\ k \notin DOMAIN usage
      /\ \A i \in DOMAIN usage : usage'[i] = usage[i]
      /\ usage'[k] = charge
  BY <1>3, <1>5, <1>7, Appended
<1>9. /\ referrals' \in Seq(ReferralRows) /\ DOMAIN referrals' = DOMAIN referrals
      /\ ledger' \in Seq(LedgerRows)
  <2>1. referrals \in Seq(ReferralRows) /\ ledger \in Seq(LedgerRows)
    BY DEF IInv, TypeOK, ReferralRows, LedgerRows
  <2>2. CASE p = 0
    BY <2>1, <2>2 DEF StoreJob
  <2>3. CASE p # 0
    <3> DEFINE done == [referrals[p] EXCEPT !.status = "rewarded"]
               row == [user |-> referrals[p].inviter, ref |-> p]
    <3>1. p \in DOMAIN referrals /\ referrals[p] \in ReferralRows
      BY <1>1, <2>3, Numbers DEF TaskRows, IInv
    <3>2. done \in ReferralRows /\ row \in LedgerRows
      BY <3>1 DEF ReferralRows, LedgerRows
    <3>3. referrals' = [referrals EXCEPT ![p] = done] /\ ledger' = Append(ledger, row)
      BY <2>3 DEF StoreJob, Reward
    <3> HIDE DEF done, row, p
    <3>4. /\ [referrals EXCEPT ![p] = done] \in Seq(ReferralRows)
          /\ DOMAIN [referrals EXCEPT ![p] = done] = DOMAIN referrals
      BY <2>1, <3>1, <3>2, Changed
    <3>5. Append(ledger, row) \in Seq(LedgerRows)
      BY <2>1, <3>2, Appended
    <3>6. QED
      BY <3>3, <3>4, <3>5
  <2>4. QED
    BY <2>2, <2>3
<1>10. /\ task' \in [Tasks -> TaskRows] /\ task'[t] = next
       /\ \A s \in Tasks \ {t} : task'[s] = task[s]
  BY <1>1, <1>6, <1>7
<1>11. TypeOK'
  <2>1. TaskRows' = TaskRows /\ LedgerRows' = LedgerRows
    BY <1>2, <1>9 DEF TaskRows, LedgerRows
  <2>2. /\ task' \in [Tasks -> TaskRows'] /\ ledger' \in Seq(LedgerRows')
    BY <1>9, <1>10, <2>1
  <2>3. files' \subseteq DOMAIN jobs'
    BY <1>2, <1>7 DEF IInv, TypeOK
  <2>4. now' \in 0..MaxTime
    BY <1>7 DEF IInv, TypeOK
  <2>5. QED
    BY <1>2, <1>8, <1>9, <2>2, <2>3, <2>4
    DEF TypeOK, JobRows, Pictures, ReferralRows, LedgerRows, TaskRows
<1>12. TasksOwnJobs'
  <2>1. next.pc \notin HasJob \cup {"idle", "intake", "text"}
    BY <1>6 DEF HasJob
  <2>2. \A s \in Tasks : task'[s].pc \in HasJob => s # t /\ task[s].job # n /\ task'[s] = task[s]
    BY <1>2, <1>10, <2>1
  <2>3. \A s \in Tasks : task'[s].pc # "idle" => task'[s].user \in Users
    BY <1>4, <1>6, <1>10 DEF IInv, TasksOwnJobs
  <2>4. \A s \in Tasks : task'[s].pc \in {"intake", "text"} => task'[s].ctx \in Pictures
    BY <1>10, <2>1 DEF IInv, TasksOwnJobs
  <2>5. QED
    BY <1>2, <2>2, <2>3, <2>4 DEF IInv, TasksOwnJobs
<1>13. FilesOfSucceeded'
  BY <1>2, <1>7 DEF IInv, FilesOfSucceeded
<1>14. ChargesOfFiles'
  <2>1. \A i \in DOMAIN usage : usage'[i].job # 0 =>
          /\ usage'[i].job \in files'
          /\ usage'[i].user = jobs'[usage'[i].job].user
          /\ usage'[i].kind = UsageKind(jobs'[usage'[i].job].ctx)
    <3>1. files \subseteq DOMAIN jobs
      BY DEF IInv, TypeOK
    <3>2. QED
      BY <1>2, <1>7, <1>8, <3>1 DEF IInv, ChargesOfFiles
  <2>2. /\ usage'[k].job \in files'
        /\ usage'[k].user = jobs'[usage'[k].job].user
        /\ usage'[k].kind = UsageKind(jobs'[usage'[k].job].ctx)
    BY <1>2, <1>5, <1>7, <1>8
  <2>3. QED
    BY <1>8, <2>1, <2>2 DEF ChargesOfFiles
<1>15. OneCharge'
  <2>1. \A j \in files : ChargesFor(j)' = ChargesFor(j)
    BY <1>2, <1>5, <1>8 DEF ChargesFor
  <2>2. \A j : j = n => ChargesFor(j)' = {k}
    BY <1>2, <1>5, <1>8 DEF ChargesFor
  <2>3. \A j \in files' : \E i \in DOMAIN usage' : ChargesFor(j)' = {i}
    <3>1. \A j \in files : \E i \in DOMAIN usage' : ChargesFor(j)' = {i}
      BY <1>8, <2>1 DEF IInv, OneCharge
    <3>2. \A j : j = n => \E i \in DOMAIN usage' : ChargesFor(j)' = {i}
      BY <1>8, <2>2
    <3>3. QED
      BY <1>7, <3>1, <3>2
  <2>4. QED
    BY <2>3 DEF OneCharge, ChargesFor
<1>16. QED
  BY <1>11, <1>12, <1>13, <1>14, <1>15 DEF IInv

\* The rest of the actions.
LEMMA TickInv == ASSUME IInv, Tick PROVE IInv'
<1>1. UNCHANGED <<jobs, files, usage, referrals, ledger, task>> /\ now' \in 0..MaxTime
  BY GenerationAssumption DEF IInv, TypeOK, Tick, tables
<1>2. TypeOK'
  BY <1>1 DEF IInv, TypeOK
<1>3. TasksOwnJobs' /\ FilesOfSucceeded' /\ ChargesOfFiles' /\ OneCharge'
  BY <1>1 DEF IInv, TasksOwnJobs, FilesOfSucceeded, ChargesOfFiles, OneCharge, ChargesFor
<1>4. QED
  BY <1>2, <1>3 DEF IInv

LEMMA AttachInv == ASSUME IInv, NEW u \in Users, NEW v \in Users, Attach(u, v) PROVE IInv'
<1> DEFINE row == [inviter |-> v, invitee |-> u, status |-> "pending"]
<1>1. referrals \in Seq(ReferralRows) /\ row \in ReferralRows
  BY DEF IInv, TypeOK, ReferralRows
<1>2. /\ referrals' = Append(referrals, row)
      /\ UNCHANGED <<now, jobs, files, usage, ledger, task>>
  BY DEF Attach
<1> HIDE DEF row
<1>3. referrals' \in Seq(ReferralRows) /\ DOMAIN referrals \subseteq DOMAIN referrals'
  BY <1>1, <1>2, Appended
<1>4. ledger' \in Seq(LedgerRows')
  <2>1. ledger \in Seq([user : Users, ref : DOMAIN referrals])
    BY DEF IInv, TypeOK
  <2>2. ledger \in Seq([user : Users, ref : DOMAIN referrals'])
    BY <1>3, <2>1, MoreReferrals
  <2>3. QED
    BY <1>2, <2>2 DEF LedgerRows
<1>5. task' \in [Tasks -> TaskRows']
  <2>1. TaskRows \subseteq TaskRows'
    BY <1>2, <1>3 DEF TaskRows
  <2>2. task \in [Tasks -> TaskRows]
    BY DEF IInv, TypeOK, TaskRows
  <2>3. QED
    BY <1>2, <2>1, <2>2
<1>6. TypeOK'
  BY <1>2, <1>3, <1>4, <1>5 DEF IInv, TypeOK, ReferralRows, LedgerRows, TaskRows
<1>7. TasksOwnJobs' /\ FilesOfSucceeded' /\ ChargesOfFiles' /\ OneCharge'
  BY <1>2 DEF IInv, TasksOwnJobs, FilesOfSucceeded, ChargesOfFiles, OneCharge, ChargesFor
<1>8. QED
  BY <1>6, <1>7 DEF IInv

LEMMA TaskOf == ASSUME IInv, NEW t \in Tasks PROVE task[t] \in TaskRows
BY DEF IInv, TypeOK, TaskRows

LEMMA AcceptInv ==
  ASSUME IInv, NEW t \in Tasks, NEW u \in Users, NEW ctx \in Asked, Accept(t, u, ctx) PROVE IInv'
<1> DEFINE pc == IF ctx = "question" THEN "answer" ELSE "intake"
           next == [IdleTask EXCEPT !.pc = pc, !.user = u, !.ctx = ctx]
<1>1. pc \in {"answer", "intake"} /\ (pc = "intake" => ctx # "question")
  OBVIOUS
<1>2. ctx \in Contexts
  BY GenerationAssumption
<1>3. /\ next \in TaskRows /\ next.pc \notin HasJob /\ next.user \in Users
      /\ next.pc \in {"intake", "text"} => next.ctx \in Pictures
  <2> HIDE DEF pc
  <2>1. next \in TaskRows /\ next.pc = pc /\ next.user = u /\ next.ctx = ctx
    BY <1>1, <1>2, IdleType DEF TaskRows
  <2> HIDE DEF next
  <2>2. QED
    BY <1>1, <1>2, <2>1 DEF HasJob, Pictures
<1>4. TaskGoes(t, next) /\ UNCHANGED tables
  BY DEF Accept
<1> HIDE DEF next
<1>5. QED
  BY <1>3, <1>4, TaskMoves

LEMMA AnswerInv == ASSUME IInv, NEW t \in Tasks, Answer(t) PROVE IInv'
<1> DEFINE row == [user |-> task[t].user, kind |-> UsageKind("question"),
                   mode |-> "none", at |-> now, job |-> 0]
<1>1. /\ task \in [Tasks -> TaskRows] /\ task[t].user \in Users
      /\ usage \in Seq(UsageRows) /\ now \in Nat
  BY DEF IInv, TypeOK, TasksOwnJobs, Answer, TaskRows
<1>2. row \in UsageRows /\ row.job = 0
  BY <1>1, KindType DEF UsageRows, Contexts
<1>3. /\ usage' = Append(usage, row) /\ UNCHANGED <<now, jobs, files, referrals, ledger>>
      /\ task' = [task EXCEPT ![t] = IdleTask]
  BY DEF Answer, TaskGoes
<1> HIDE DEF row
<1>4. /\ usage' \in Seq(UsageRows) /\ DOMAIN usage \subseteq DOMAIN usage'
      /\ \A i \in DOMAIN usage : usage'[i] = usage[i]
      /\ \A i \in DOMAIN usage' : i \in DOMAIN usage \/ usage'[i].job = 0
  BY <1>1, <1>2, <1>3, Appended
<1>5. /\ task' \in [Tasks -> TaskRows] /\ task'[t] = IdleTask /\ IdleTask.pc = "idle"
      /\ \A s \in Tasks \ {t} : task'[s] = task[s]
  BY <1>1, <1>3, IdleType
<1>6. TypeOK'
  BY <1>3, <1>4, <1>5 DEF IInv, TypeOK, TaskRows
<1>7. TasksOwnJobs'
  BY <1>3, <1>5 DEF IInv, TasksOwnJobs, HasJob
<1>8. FilesOfSucceeded' /\ ChargesOfFiles'
  BY <1>3, <1>4 DEF IInv, FilesOfSucceeded, ChargesOfFiles
<1>9. OneCharge'
  <2>1. \A j \in files : j # 0
    BY Numbers DEF IInv, TypeOK
  <2>2. \A j \in files : ChargesFor(j)' = ChargesFor(j)
    BY <1>4, <2>1 DEF ChargesFor
  <2>3. \A j \in files : \E i \in DOMAIN usage' : ChargesFor(j)' = {i}
    BY <1>4, <2>2 DEF IInv, OneCharge
  <2>4. QED
    BY <1>3, <2>3 DEF OneCharge, ChargesFor
<1>10. QED
  BY <1>6, <1>7, <1>8, <1>9 DEF IInv

\* A step of the program counter alone.
LEMMA CounterMoves ==
  ASSUME IInv, NEW t \in Tasks, NEW pc \in {"text", "provider"},
         pc = "text" => task[t].pc = "intake",
         pc = "provider" => task[t].pc \in HasJob,
         TaskGoes(t, [task[t] EXCEPT !.pc = pc]), UNCHANGED tables
  PROVE  IInv'
<1> DEFINE next == [task[t] EXCEPT !.pc = pc]
<1>1. /\ next \in TaskRows /\ next.pc = pc /\ next.job = task[t].job
      /\ next.user = task[t].user /\ next.ctx = task[t].ctx
  BY TaskOf DEF TaskRows
<1>2. TaskGoes(t, next)
  OBVIOUS
<1> HIDE DEF next
<1>3. next.user \in Users /\ (next.pc = "text" => next.ctx \in Pictures)
  BY <1>1 DEF IInv, TasksOwnJobs, HasJob
<1>4. next.pc \notin {"intake"} /\ (next.pc \in HasJob => task[t].pc \in HasJob)
  BY <1>1 DEF HasJob
<1>5. QED
  BY <1>1, <1>2, <1>3, <1>4, TaskMoves

LEMMA IdleMoves ==
  ASSUME IInv, NEW t \in Tasks, TaskGoes(t, IdleTask), UNCHANGED tables PROVE IInv'
<1>1. IdleTask \in TaskRows /\ IdleTask.pc \notin HasJob \cup {"intake", "text"} /\ IdleTask.pc = "idle"
  BY IdleType DEF HasJob
<1>2. QED
  BY <1>1, TaskMoves

LEMMA PictureReadyInv == ASSUME IInv, NEW t \in Tasks, PictureReady(t) PROVE IInv'
<1> DEFINE r == PendingReferral(task[t].user)
           next == [task[t] EXCEPT !.pc = "store", !.pending = r]
<1>1. r \in {0} \cup DOMAIN referrals
  BY DEF PendingReferral
<1>2. TaskGoes(t, next) /\ UNCHANGED tables /\ task[t].pc \in HasJob
  BY DEF PictureReady, HasJob
<1> HIDE DEF r
<1>3. /\ next \in TaskRows /\ next.pc = "store" /\ next.job = task[t].job
      /\ next.user = task[t].user /\ next.ctx = task[t].ctx
  BY <1>1, TaskOf DEF TaskRows
<1> HIDE DEF next
<1>4. next.user \in Users
  BY <1>2, <1>3 DEF IInv, TasksOwnJobs, HasJob
<1>5. QED
  BY <1>2, <1>3, <1>4, TaskMoves

-----------------------------------------------------------------------------
(* The invariant holds. *)

LEMMA InitInv == ASSUME Init PROVE IInv
<1>1. /\ jobs = <<>> /\ referrals = <<>> /\ ledger = <<>> /\ files = {} /\ now = 0
      /\ usage = OldUsage /\ task = [t \in Tasks |-> IdleTask]
  BY DEF Init
<1>2. /\ jobs \in Seq(JobRows) /\ referrals \in Seq(ReferralRows) /\ ledger \in Seq(LedgerRows)
      /\ DOMAIN jobs = {}
  BY <1>1
<1>3. task \in [Tasks -> TaskRows] /\ \A t \in Tasks : task[t].pc = "idle"
  BY <1>1, IdleType
<1>4. usage \in Seq(UsageRows) /\ now \in 0..MaxTime
  BY <1>1, GenerationAssumption
<1>5. files \subseteq DOMAIN jobs
  BY <1>1
<1>6. TypeOK
  BY <1>2, <1>3, <1>4, <1>5 DEF TypeOK, JobRows, Pictures, ReferralRows, LedgerRows, TaskRows
<1>7. TasksOwnJobs
  BY <1>3 DEF TasksOwnJobs, HasJob
<1>8. FilesOfSucceeded /\ OneCharge
  BY <1>1, <1>2 DEF FilesOfSucceeded, OneCharge
<1>9. ChargesOfFiles
  BY <1>1, GenerationAssumption DEF ChargesOfFiles
<1>10. QED
  BY <1>6, <1>7, <1>8, <1>9 DEF IInv

LEMMA NextInv == IInv /\ [Next]_vars => IInv'
<1> SUFFICES ASSUME IInv, [Next]_vars PROVE IInv'
  OBVIOUS
<1>1. CASE UNCHANGED vars
  BY <1>1 DEF vars, tables, IInv, TypeOK, TasksOwnJobs, FilesOfSucceeded, ChargesOfFiles,
              OneCharge, ChargesFor
<1>2. CASE Tick
  BY <1>2, TickInv
<1>3. ASSUME NEW u \in Users, NEW v \in Users, Attach(u, v) PROVE IInv'
  BY <1>3, AttachInv
<1>4. ASSUME NEW t \in Tasks, TaskStep(t) PROVE IInv'
  <2>1. ASSUME NEW u \in Users, NEW ctx \in Asked, Accept(t, u, ctx) PROVE IInv'
    BY <2>1, AcceptInv
  <2>2. CASE Answer(t)
    BY <2>2, AnswerInv
  <2>3. CASE CommitIntake(t)
    <3>1. CASE task[t].ctx \in Bundles
      BY <2>3, <3>1, CounterMoves DEF CommitIntake, tables
    <3>2. CASE task[t].ctx \notin Bundles
      BY <2>3, <3>2, NewJobInv DEF CommitIntake
    <3>3. QED
      BY <3>1, <3>2
  <2>4. CASE TextReady(t)
    BY <2>4, NewJobInv DEF TextReady
  <2>5. CASE StartJob(t)
    <3>1. CASE jobs[task[t].job].status = "queued"
      BY <2>5, <3>1, CounterMoves DEF StartJob, HasJob
    <3>2. CASE jobs[task[t].job].status # "queued"
      BY <2>5, <3>2, IdleMoves DEF StartJob
    <3>3. QED
      BY <3>1, <3>2
  <2>6. CASE FailJob(t)
    BY <2>6, FailJobInv
  <2>7. CASE PictureReady(t)
    BY <2>7, PictureReadyInv
  <2>8. CASE StoreJob(t)
    BY <2>8, StoreJobInv
  <2>9. CASE Leave(t)
    BY <2>9, IdleMoves DEF Leave
  <2>10. QED
    BY <1>4, <2>1, <2>2, <2>3, <2>4, <2>5, <2>6, <2>7, <2>8, <2>9 DEF TaskStep
<1>5. QED
  BY <1>1, <1>2, <1>3, <1>4 DEF Next

\* Whatever the users ask for and wherever tasks stop, every table and task has
\* the shape the code gives it, and no transaction sees a job as `processing`.
THEOREM GenerationTypeCorrect == Spec => []TypeOK
<1>1. Init => IInv
  BY InitInv
<1>2. IInv /\ [Next]_vars => IInv'
  BY NextInv
<1>3. IInv => TypeOK
  BY DEF IInv
<1>4. QED
  BY <1>1, <1>2, <1>3, PTL DEF Spec

\* A state of the invariant charges each stored picture once and nothing else.
LEMMA InvariantCharges == ASSUME IInv PROVE ChargedForOutput
<1>1. \A j \in DOMAIN jobs : jobs[j].status = "succeeded" <=> j \in files
  BY DEF IInv, FilesOfSucceeded
<1>2. \A j \in DOMAIN jobs :
        Cardinality({i \in DOMAIN usage : usage[i].job = j}) = IF j \in files THEN 1 ELSE 0
  <2> SUFFICES ASSUME NEW j \in DOMAIN jobs
               PROVE  Cardinality({i \in DOMAIN usage : usage[i].job = j}) = IF j \in files THEN 1 ELSE 0
    OBVIOUS
  <2> DEFINE charges == {i \in DOMAIN usage : usage[i].job = j}
  <2>1. CASE j \in files
    <3>1. PICK i \in DOMAIN usage : charges = {i}
      BY <2>1 DEF IInv, OneCharge, ChargesFor
    <3>2. Cardinality({i}) = 1
      BY FS_Singleton
    <3>3. QED
      BY <2>1, <3>1, <3>2
  <2>2. CASE j \notin files
    <3>1. j # 0
      BY Numbers DEF IInv
    <3>2. charges = {}
      BY <2>2, <3>1 DEF IInv, ChargesOfFiles
    <3>3. Cardinality({}) = 0
      BY FS_EmptySet
    <3>4. QED
      BY <2>2, <3>2, <3>3
  <2>3. QED
    BY <2>1, <2>2
<1>3. QED
  BY <1>1, <1>2 DEF ChargedForOutput, IInv, ChargesOfFiles

\* A user is charged once for each stored picture and for no other, for any
\* number of concurrent tasks, and wherever one of them or the process stops.
THEOREM PicturesChargedOnce == Spec => []ChargedForOutput
<1>1. Init => IInv
  BY InitInv
<1>2. IInv /\ [Next]_vars => IInv'
  BY NextInv
<1>3. IInv => ChargedForOutput
  BY InvariantCharges
<1>4. QED
  BY <1>1, <1>2, <1>3, PTL DEF Spec
-----------------------------------------------------------------------------
(* The referral rewards. *)

Rewards(r) == {k \in DOMAIN ledger : ledger[k].ref = r}
PicturesOf(u) == {j \in files : jobs[j].user = u}
Holders(r) == {t \in Tasks : task[t].pc = "store" /\ task[t].pending = r}

\* A task holds as pending a referral of its own user only.
HoldsOwn ==
  \A t \in Tasks : task[t].pc = "store" /\ task[t].pending # 0 =>
    referrals[task[t].pending].invitee = task[t].user

\* What was paid for a referral went to its inviter v, each time for a picture of
\* its invitee u, and with what may still be paid is no more than the tasks.
Earned(r, v, u) ==
  /\ \A k \in Rewards(r) : ledger[k].user = v
  /\ Cardinality(Rewards(r)) <= Cardinality(PicturesOf(u))
  /\ Cardinality(Rewards(r)) + Cardinality(Holders(r)) <= Cardinality(Tasks)

RewardInv ==
  /\ HoldsOwn
  /\ \A r \in DOMAIN referrals : Rewards(r) # {} <=> referrals[r].status = "rewarded"
  /\ \A r \in DOMAIN referrals, v, u \in Users :
       referrals[r].inviter = v /\ referrals[r].invitee = u => Earned(r, v, u)

\* The sets that are counted are finite.
LEMMA RewardSets ==
  ASSUME IInv
  PROVE  /\ \A r : IsFiniteSet(Rewards(r)) /\ Cardinality(Rewards(r)) \in Nat
         /\ \A u : IsFiniteSet(PicturesOf(u)) /\ Cardinality(PicturesOf(u)) \in Nat
         /\ \A r : IsFiniteSet(Holders(r)) /\ Cardinality(Holders(r)) \in Nat
         /\ IsFiniteSet(Tasks) /\ Cardinality(Tasks) \in Nat
<1>1. IsFiniteSet(DOMAIN ledger)
  <2>1. ledger \in Seq(LedgerRows)
    BY DEF IInv, TypeOK, LedgerRows
  <2>2. DOMAIN ledger = 1..Len(ledger) /\ Len(ledger) \in Nat
    BY <2>1, LenProperties
  <2>3. QED
    BY <2>2, FS_Interval
<1>2. IsFiniteSet(files)
  <2>1. DOMAIN jobs = 1..Len(jobs) /\ Len(jobs) \in Nat /\ files \subseteq DOMAIN jobs
    BY Numbers DEF IInv, TypeOK
  <2>2. IsFiniteSet(DOMAIN jobs)
    BY <2>1, FS_Interval
  <2>3. QED
    BY <2>1, <2>2, FS_Subset
<1>3. IsFiniteSet(Tasks)
  BY GenerationAssumption
<1>4. \A r : IsFiniteSet(Rewards(r))
  <2> SUFFICES ASSUME NEW r PROVE IsFiniteSet(Rewards(r))
    OBVIOUS
  <2>1. Rewards(r) \subseteq DOMAIN ledger
    BY DEF Rewards
  <2>2. QED
    BY <1>1, <2>1, FS_Subset
<1>5. \A u : IsFiniteSet(PicturesOf(u))
  <2> SUFFICES ASSUME NEW u PROVE IsFiniteSet(PicturesOf(u))
    OBVIOUS
  <2>1. PicturesOf(u) \subseteq files
    BY DEF PicturesOf
  <2>2. QED
    BY <1>2, <2>1, FS_Subset
<1>6. \A r : IsFiniteSet(Holders(r))
  <2> SUFFICES ASSUME NEW r PROVE IsFiniteSet(Holders(r))
    OBVIOUS
  <2>1. Holders(r) \subseteq Tasks
    BY DEF Holders
  <2>2. QED
    BY <1>3, <2>1, FS_Subset
<1>7. QED
  BY <1>3, <1>4, <1>5, <1>6, FS_CardinalityType

\* A referral that is paid nothing by a step, and that no more tasks hold after it,
\* or that was never paid before.
LEMMA EarnedKept ==
  ASSUME IInv, IInv', NEW r, NEW v, NEW u, Earned(r, v, u),
         Rewards(r)' = Rewards(r), \A k \in Rewards(r) : ledger'[k] = ledger[k],
         Rewards(r) = {} \/ Holders(r)' \subseteq Holders(r),
         PicturesOf(u) \subseteq PicturesOf(u)'
  PROVE  Earned(r, v, u)'
<1> DEFINE R == Rewards(r)
           H == Holders(r)
           K == Holders(r)'
           P == PicturesOf(u)
           Q == PicturesOf(u)'
           a == Cardinality(R)
           b == Cardinality(H)
           c == Cardinality(K)
           n == Cardinality(Tasks)
           x == Cardinality(P)
           y == Cardinality(Q)
<1>1. /\ IsFiniteSet(H) /\ IsFiniteSet(Tasks) /\ IsFiniteSet(P)
      /\ a \in Nat /\ b \in Nat /\ n \in Nat /\ x \in Nat
  BY RewardSets
<1>2. IsFiniteSet(K) /\ IsFiniteSet(Q)
  <2>1. IsFiniteSet(PicturesOf(u)')
    <3>1. P = {i \in files : jobs[i].user = u} /\ Q = {i \in files' : jobs'[i].user = u}
      BY DEF PicturesOf
    <3>2. Q \subseteq DOMAIN jobs'
      BY <3>1 DEF IInv, TypeOK
    <3>3. DOMAIN jobs' = 1..Len(jobs') /\ Len(jobs') \in Nat
      <4>1. jobs' \in Seq(JobRows)
        BY DEF IInv, TypeOK, JobRows, Pictures
      <4>2. QED
        BY <4>1, LenProperties
    <3>4. IsFiniteSet(DOMAIN jobs')
      BY <3>3, FS_Interval
    <3> HIDE DEF Q
    <3>5. IsFiniteSet(Q)
      BY <3>2, <3>4, FS_Subset
    <3>6. QED
      BY <3>5 DEF Q
  <2>2. K \subseteq Tasks
    BY DEF Holders
  <2> HIDE DEF K
  <2>3. IsFiniteSet(K)
    BY <1>1, <2>2, FS_Subset
  <2>4. QED
    BY <2>1, <2>3
<1>3. c \in Nat /\ y \in Nat
  BY <1>2, FS_CardinalityType
<1>4. a <= x /\ a + b <= n
  BY DEF Earned
<1>5. x <= y
  <2>1. P \subseteq Q
    OBVIOUS
  <2> HIDE DEF P, Q
  <2>2. QED
    BY <1>2, <2>1, FS_Subset
<1>6. a + c <= n
  <2>1. CASE R = {}
    <3>1. a = 0
      BY <2>1, FS_EmptySet
    <3>2. K \subseteq Tasks
      BY DEF Holders
    <3>3. c <= n
      <4> HIDE DEF K
      <4>1. QED
        BY <1>1, <3>2, FS_Subset
    <3> HIDE DEF a, c, n
    <3>4. QED
      BY <1>3, <3>1, <3>3
  <2>2. CASE K \subseteq H
    <3>1. c <= b
      <4> HIDE DEF K, H
      <4>1. QED
        BY <1>1, <2>2, FS_Subset
    <3> HIDE DEF a, b, c, n
    <3>2. QED
      BY <1>1, <1>3, <1>4, <3>1
  <2>3. QED
    BY <2>1, <2>2
<1>7. Cardinality(Rewards(r)') = a
  OBVIOUS
<1>8. a <= y
  <2> HIDE DEF a, x, y
  <2>1. QED
    BY <1>1, <1>3, <1>4, <1>5
<1>9. \A k \in Rewards(r)' : ledger'[k].user = v
  BY DEF Earned
<1>10. Cardinality(Rewards(r))' <= Cardinality(PicturesOf(u))'
  BY <1>7, <1>8
<1>11. Cardinality(Rewards(r))' + Cardinality(Holders(r))' <= Cardinality(Tasks)
  BY <1>6, <1>7
<1>12. QED
  BY <1>9, <1>10, <1>11 DEF Earned

\* A step that stores nothing and lets no more tasks hold a referral.
LEMMA KeepsRewards ==
  ASSUME IInv, IInv', RewardInv, UNCHANGED <<files, referrals, ledger>>,
         \A j \in files : jobs'[j].user = jobs[j].user,
         \A t \in Tasks : task'[t].pc = "store" => task'[t] = task[t]
  PROVE  RewardInv'
<1>1. HoldsOwn'
  BY DEF RewardInv, HoldsOwn
<1>2. \A r : Rewards(r)' = Rewards(r) /\ Holders(r)' \subseteq Holders(r)
  BY DEF Rewards, Holders
<1>3. \A u : PicturesOf(u)' = PicturesOf(u)
  BY DEF PicturesOf
<1>4. ASSUME NEW r \in DOMAIN referrals, NEW v \in Users, NEW u \in Users,
             referrals[r].inviter = v, referrals[r].invitee = u
      PROVE  Earned(r, v, u)'
  <2>1. Earned(r, v, u)
    BY <1>4 DEF RewardInv
  <2>2. Rewards(r)' = Rewards(r) /\ Holders(r)' \subseteq Holders(r) /\ PicturesOf(u)' = PicturesOf(u)
    BY <1>2, <1>3
  <2>3. QED
    BY <2>1, <2>2, EarnedKept
<1>5. \A r \in DOMAIN referrals : Rewards(r)' # {} <=> referrals[r].status = "rewarded"
  BY <1>2 DEF RewardInv
<1>6. QED
  BY <1>1, <1>4, <1>5 DEF RewardInv

\* A picture is ready: the pending referral the task holds has no reward yet.
LEMMA PictureReadyRewards ==
  ASSUME IInv, IInv', RewardInv, NEW t \in Tasks, PictureReady(t)
  PROVE  RewardInv'
<1>1. PICK q : q = PendingReferral(task[t].user)
  OBVIOUS
<1> DEFINE next == [task[t] EXCEPT !.pc = "store", !.pending = q]
<1>2. q # 0 => /\ q \in DOMAIN referrals /\ referrals[q].invitee = task[t].user
               /\ referrals[q].status = "pending"
  BY <1>1 DEF PendingReferral
<1>3. /\ UNCHANGED <<now, jobs, files, usage, referrals, ledger>>
      /\ task' = [task EXCEPT ![t] = next]
  BY <1>1 DEF PictureReady, TaskGoes, tables
<1>4. next.pending = q /\ next.user = task[t].user
  BY TaskOf DEF TaskRows
<1> HIDE DEF next
<1>5. task'[t] = next /\ \A s \in Tasks \ {t} : task'[s] = task[s]
  BY <1>3 DEF IInv, TypeOK
<1>6. HoldsOwn'
  BY <1>2, <1>3, <1>4, <1>5 DEF RewardInv, HoldsOwn
<1>7. \A r : Rewards(r)' = Rewards(r)
  BY <1>3 DEF Rewards
<1>8. \A u : PicturesOf(u)' = PicturesOf(u)
  BY <1>3 DEF PicturesOf
<1>9. \A r : r # q => Holders(r)' \subseteq Holders(r)
  BY <1>4, <1>5 DEF Holders
<1>10. \A r \in DOMAIN referrals : r = q => Rewards(r) = {}
  <2>1. 0 \notin DOMAIN referrals
    BY Numbers DEF IInv
  <2>2. QED
    BY <1>2, <2>1 DEF RewardInv
<1>11. ASSUME NEW r \in DOMAIN referrals, NEW v \in Users, NEW u \in Users,
              referrals[r].inviter = v, referrals[r].invitee = u
       PROVE  Earned(r, v, u)'
  <2>1. Earned(r, v, u)
    BY <1>11 DEF RewardInv
  <2>2. Rewards(r)' = Rewards(r) /\ (Rewards(r) = {} \/ Holders(r)' \subseteq Holders(r))
    BY <1>7, <1>9, <1>10
  <2>3. PicturesOf(u)' = PicturesOf(u)
    BY <1>8
  <2>4. QED
    BY <1>3, <2>1, <2>2, <2>3, EarnedKept
<1>12. \A r \in DOMAIN referrals : Rewards(r)' # {} <=> referrals[r].status = "rewarded"
  BY <1>7 DEF RewardInv
<1>13. QED
  BY <1>3, <1>6, <1>11, <1>12 DEF RewardInv

\* A new referral has no reward and no task holds it.
LEMMA AttachRewards ==
  ASSUME IInv, IInv', RewardInv, NEW x \in Users, NEW y \in Users, Attach(x, y)
  PROVE  RewardInv'
<1> DEFINE row == [inviter |-> y, invitee |-> x, status |-> "pending"]
<1>1. PICK n : n = Len(referrals) + 1
  OBVIOUS
<1>2. referrals \in Seq(ReferralRows) /\ row \in ReferralRows
  BY DEF IInv, TypeOK, ReferralRows
<1>3. /\ referrals' = Append(referrals, row)
      /\ UNCHANGED <<now, jobs, files, usage, ledger, task>>
  BY DEF Attach
<1>4. row.status = "pending"
  OBVIOUS
<1> HIDE DEF row
<1>5. /\ DOMAIN referrals' = DOMAIN referrals \cup {n} /\ n \notin DOMAIN referrals
      /\ \A r \in DOMAIN referrals : referrals'[r] = referrals[r]
      /\ referrals'[n] = row
  BY <1>1, <1>2, <1>3, Appended
<1>6. n \notin {0} \cup DOMAIN referrals
  BY <1>1, <1>5, Numbers DEF IInv
<1>7. \A t \in Tasks : task[t].pending \in {0} \cup DOMAIN referrals
  BY TaskOf DEF TaskRows
<1>8. HoldsOwn'
  BY <1>3, <1>5, <1>7 DEF RewardInv, HoldsOwn
<1>9. \A r : Rewards(r)' = Rewards(r) /\ Holders(r)' = Holders(r)
  BY <1>3 DEF Rewards, Holders
<1>10. \A u : PicturesOf(u)' = PicturesOf(u)
  BY <1>3 DEF PicturesOf
<1>11. Rewards(n) = {} /\ Holders(n) = {}
  <2>1. ledger \in Seq(LedgerRows)
    BY DEF IInv, TypeOK, LedgerRows
  <2>2. \A k \in DOMAIN ledger : ledger[k] \in LedgerRows
    BY <2>1, ElementOfSeq, LenProperties
  <2>3. \A k \in DOMAIN ledger : ledger[k].ref # n
    BY <1>6, <2>2 DEF LedgerRows
  <2>4. QED
    BY <1>6, <1>7, <2>3 DEF Rewards, Holders
<1>12. ASSUME NEW r \in DOMAIN referrals', NEW v \in Users, NEW u \in Users,
              referrals'[r].inviter = v, referrals'[r].invitee = u
       PROVE  Earned(r, v, u)'
  <2>1. Rewards(r)' = Rewards(r) /\ Holders(r)' = Holders(r) /\ PicturesOf(u)' = PicturesOf(u)
    BY <1>9, <1>10
  <2>2. Earned(r, v, u)
    <3>1. CASE r = n
      <4>1. Rewards(r) = {} /\ Holders(r) = {}
        BY <1>11, <3>1
      <4>2. /\ Cardinality({}) = 0
            /\ Cardinality(Tasks) \in Nat /\ Cardinality(PicturesOf(u)) \in Nat
        BY FS_EmptySet, RewardSets
      <4>3. 0 <= Cardinality(PicturesOf(u)) /\ 0 + 0 <= Cardinality(Tasks)
        BY <4>2
      <4>4. QED
        BY <4>1, <4>2, <4>3 DEF Earned
    <3>2. CASE r # n
      BY <1>5, <1>12, <3>2 DEF RewardInv
    <3>3. QED
      BY <3>1, <3>2
  <2>3. QED
    BY <1>3, <2>1, <2>2, EarnedKept
<1>13. \A r \in DOMAIN referrals' : Rewards(r)' # {} <=> referrals'[r].status = "rewarded"
  BY <1>4, <1>5, <1>9, <1>11 DEF RewardInv
<1>14. QED
  BY <1>8, <1>12, <1>13 DEF RewardInv

\* The picture is stored: its file is new, and the reward paid with it, if any, is
\* for the referral its task held.
LEMMA StoreJobRewards ==
  ASSUME IInv, IInv', RewardInv, NEW t \in Tasks, StoreJob(t),
         NEW j, j = task[t].job, NEW p, p = task[t].pending, NEW w, w = task[t].user
  PROVE  RewardInv'
<1> DEFINE next == [task[t] EXCEPT !.pc = "deliver"]
<1>1. task[t].pc = "store" /\ task[t].pc \in HasJob /\ "succeeded" \in Statuses
  BY DEF StoreJob, HasJob, Statuses
<1>2. /\ jobs' = [jobs EXCEPT ![task[t].job].status = "succeeded"]
      /\ files' = files \cup {j} /\ task' = [task EXCEPT ![t] = next]
      /\ IF p # 0 THEN Reward(p) ELSE UNCHANGED <<referrals, ledger>>
  BY DEF StoreJob, TaskGoes
<1>3. /\ j \in DOMAIN jobs /\ j \notin files /\ jobs[j].user = w
      /\ \A i \in DOMAIN jobs : jobs'[i].user = jobs[i].user
  BY <1>1, <1>2, MarkJob
<1>4. next.pc = "deliver"
  BY TaskOf DEF TaskRows
<1> HIDE DEF next
<1>5. task'[t] = next /\ \A s \in Tasks \ {t} : task'[s] = task[s]
  BY <1>2 DEF IInv, TypeOK
<1>6. p \in {0} \cup DOMAIN referrals /\ files \subseteq DOMAIN jobs
  BY TaskOf DEF TaskRows, IInv, TypeOK
<1>7. p # 0 => referrals[p].invitee = w
  BY <1>1 DEF RewardInv, HoldsOwn
<1>8. /\ \A u : PicturesOf(u) \subseteq PicturesOf(u)'
      /\ PicturesOf(w)' = PicturesOf(w) \cup {j} /\ j \notin PicturesOf(w)
  BY <1>2, <1>3, <1>6 DEF PicturesOf
<1>9. \A r : r # p => Holders(r)' = Holders(r)
  BY <1>1, <1>4, <1>5 DEF Holders
<1>10. Holders(p)' = Holders(p) \ {t} /\ t \in Holders(p)
  BY <1>1, <1>4, <1>5 DEF Holders
<1>11. CASE p = 0
  <2>1. UNCHANGED <<referrals, ledger>>
    BY <1>2, <1>11
  <2>2. HoldsOwn'
    BY <1>4, <1>5, <2>1 DEF RewardInv, HoldsOwn
  <2>3. \A r : Rewards(r)' = Rewards(r)
    BY <2>1 DEF Rewards
  <2>4. ASSUME NEW r \in DOMAIN referrals, NEW v \in Users, NEW u \in Users,
               referrals[r].inviter = v, referrals[r].invitee = u
        PROVE  Earned(r, v, u)'
    <3>1. Earned(r, v, u) /\ r # p
      BY <1>11, <2>4, Numbers DEF RewardInv, IInv
    <3>2. Rewards(r)' = Rewards(r) /\ Holders(r)' = Holders(r) /\ PicturesOf(u) \subseteq PicturesOf(u)'
      BY <1>8, <1>9, <2>3, <3>1
    <3>3. QED
      BY <2>1, <3>1, <3>2, EarnedKept
  <2>5. \A r \in DOMAIN referrals : Rewards(r)' # {} <=> referrals[r].status = "rewarded"
    BY <2>3 DEF RewardInv
  <2>6. QED
    BY <2>1, <2>2, <2>4, <2>5 DEF RewardInv
<1>12. CASE p # 0
  <2> DEFINE done == [referrals[p] EXCEPT !.status = "rewarded"]
             row == [user |-> referrals[p].inviter, ref |-> p]
  <2>1. PICK n : n = Len(ledger) + 1
    OBVIOUS
  <2>2. /\ p \in DOMAIN referrals /\ referrals[p] \in ReferralRows
        /\ referrals \in Seq(ReferralRows) /\ ledger \in Seq(LedgerRows)
    BY <1>6, <1>12, Numbers DEF IInv, TypeOK, ReferralRows, LedgerRows
  <2>3. /\ done \in ReferralRows /\ row \in LedgerRows /\ row.ref = p
        /\ row.user = referrals[p].inviter
    BY <2>2 DEF ReferralRows, LedgerRows
  <2>4. /\ done.status = "rewarded" /\ done.inviter = referrals[p].inviter
        /\ done.invitee = referrals[p].invitee
    BY <2>2 DEF ReferralRows
  <2>5. referrals' = [referrals EXCEPT ![p] = done] /\ ledger' = Append(ledger, row)
    BY <1>2, <1>12 DEF Reward
  <2> HIDE DEF done, row
  <2>6. /\ DOMAIN referrals' = DOMAIN referrals /\ referrals'[p] = done
        /\ \A r \in DOMAIN referrals \ {p} : referrals'[r] = referrals[r]
    BY <2>2, <2>3, <2>5, Changed
  <2>7. /\ DOMAIN ledger' = DOMAIN ledger \cup {n} /\ n \notin DOMAIN ledger
        /\ \A k \in DOMAIN ledger : ledger'[k] = ledger[k]
        /\ ledger'[n] = row
    BY <2>1, <2>2, <2>3, <2>5, Appended
  <2>8. \A r \in DOMAIN referrals : /\ referrals'[r].inviter = referrals[r].inviter
                                    /\ referrals'[r].invitee = referrals[r].invitee
    BY <2>4, <2>6
  <2>9. HoldsOwn'
    <3>1. \A s \in Tasks \ {t} : task[s].pending \in {0} \cup DOMAIN referrals
      BY TaskOf DEF TaskRows
    <3>2. QED
      BY <1>4, <1>5, <2>8, <3>1 DEF RewardInv, HoldsOwn
  <2>10. \A r : r # p => Rewards(r)' = Rewards(r)
    BY <2>3, <2>7 DEF Rewards
  <2>11. Rewards(p)' = Rewards(p) \cup {n} /\ n \notin Rewards(p)
    BY <2>3, <2>7 DEF Rewards
  <2>12. ASSUME NEW v \in Users, referrals[p].inviter = v PROVE Earned(p, v, w)'
    <3> DEFINE R == Rewards(p)
               H == Holders(p)
               P == PicturesOf(w)
               a == Cardinality(R)
               b == Cardinality(H)
               c == Cardinality(P)
               m == Cardinality(Tasks)
    <3>1. /\ IsFiniteSet(R) /\ IsFiniteSet(H) /\ IsFiniteSet(P)
          /\ a \in Nat /\ b \in Nat /\ c \in Nat /\ m \in Nat
      BY RewardSets
    <3>2. Earned(p, v, w)
      <4>1. w \in Users
        BY <1>7, <1>12, <2>2 DEF ReferralRows
      <4>2. QED
        BY <1>7, <1>12, <2>2, <2>12, <4>1 DEF RewardInv
    <3>3. a <= c /\ a + b <= m
      BY <3>2 DEF Earned
    <3>4. n \notin R /\ t \in H /\ j \notin P
      BY <1>8, <1>10, <2>11
    <3>5. Cardinality(R \cup {n}) = a + 1
      <4> HIDE DEF R
      <4>1. QED
        BY <3>1, <3>4, FS_AddElement
    <3>6. Cardinality(H \ {t}) = b - 1
      <4> HIDE DEF H
      <4>1. QED
        BY <3>1, <3>4, FS_RemoveElement
    <3>7. Cardinality(P \cup {j}) = c + 1
      <4> HIDE DEF P
      <4>1. QED
        BY <3>1, <3>4, FS_AddElement
    <3>8. /\ Cardinality(R \cup {n}) <= Cardinality(P \cup {j})
          /\ Cardinality(R \cup {n}) + Cardinality(H \ {t}) <= m
      <4>1. a + 1 <= c + 1 /\ (a + 1) + (b - 1) <= m
        <5> HIDE DEF a, b, c, m
        <5>1. QED
          BY <3>1, <3>3
      <4>2. QED
        BY <3>5, <3>6, <3>7, <4>1
    <3>9. \A k \in Rewards(p)' : ledger'[k].user = v
      BY <2>3, <2>7, <2>11, <2>12, <3>2 DEF Earned, Rewards
    <3>10. QED
      BY <1>8, <1>10, <2>11, <3>8, <3>9 DEF Earned
  <2>13. ASSUME NEW r \in DOMAIN referrals, NEW v \in Users, NEW u \in Users,
                referrals'[r].inviter = v, referrals'[r].invitee = u
         PROVE  Earned(r, v, u)'
    <3>1. referrals[r].inviter = v /\ referrals[r].invitee = u
      BY <2>8, <2>13
    <3>2. CASE r = p
      BY <1>7, <1>12, <2>12, <3>1, <3>2
    <3>3. CASE r # p
      <4>1. Earned(r, v, u)
        BY <3>1 DEF RewardInv
      <4>2. /\ Rewards(r)' = Rewards(r) /\ Holders(r)' = Holders(r)
            /\ PicturesOf(u) \subseteq PicturesOf(u)'
        BY <1>8, <1>9, <2>10, <3>3
      <4>3. \A k \in Rewards(r) : ledger'[k] = ledger[k]
        BY <2>7 DEF Rewards
      <4>4. QED
        BY <4>1, <4>2, <4>3, EarnedKept
    <3>4. QED
      BY <3>2, <3>3
  <2>14. \A r \in DOMAIN referrals : Rewards(r)' # {} <=> referrals'[r].status = "rewarded"
    BY <2>4, <2>6, <2>10, <2>11 DEF RewardInv
  <2>15. QED
    BY <2>6, <2>9, <2>13, <2>14 DEF RewardInv
<1>13. QED
  BY <1>11, <1>12

LEMMA RewardsInit == ASSUME Init PROVE RewardInv
<1>1. DOMAIN referrals = {} /\ \A t \in Tasks : task[t].pc = "idle"
  BY IdleType DEF Init
<1>2. QED
  BY <1>1 DEF RewardInv, HoldsOwn

\* A step of a task that stores nothing, and keeps the users of the jobs.
LEMMA TaskKeepsRewards ==
  ASSUME IInv, IInv', RewardInv, NEW t \in Tasks, NEW next, TaskGoes(t, next), next.pc # "store",
         UNCHANGED <<files, referrals, ledger>>,
         \A j \in DOMAIN jobs : jobs'[j].user = jobs[j].user
  PROVE  RewardInv'
<1>1. task'[t] = next /\ \A s \in Tasks \ {t} : task'[s] = task[s]
  BY DEF TaskGoes, IInv, TypeOK
<1>2. files \subseteq DOMAIN jobs
  BY DEF IInv, TypeOK
<1>3. QED
  BY <1>1, <1>2, KeepsRewards

LEMMA NewJobRewards ==
  ASSUME IInv, IInv', RewardInv, NEW t \in Tasks, NewJob(t), task[t].pc \in {"intake", "text"},
         TaskGoes(t, [task[t] EXCEPT !.pc = "run", !.job = Len(jobs) + 1]),
         UNCHANGED <<files, usage, referrals, ledger>>
  PROVE  RewardInv'
<1> DEFINE next == [task[t] EXCEPT !.pc = "run", !.job = Len(jobs) + 1]
           row == [user |-> task[t].user, ctx |-> task[t].ctx, status |-> "queued"]
<1>1. next.pc # "store"
  BY TaskOf DEF TaskRows
<1>2. row \in JobRows /\ jobs \in Seq(JobRows)
  <2>1. task[t].user \in Users /\ task[t].ctx \in Pictures
    BY DEF IInv, TasksOwnJobs
  <2>2. QED
    BY <2>1 DEF IInv, TypeOK, JobRows, Pictures, Statuses
<1>3. jobs' = Append(jobs, row)
  BY DEF NewJob
<1> HIDE DEF next, row
<1>4. \A j \in DOMAIN jobs : jobs'[j] = jobs[j]
  BY <1>2, <1>3, Appended
<1>5. TaskGoes(t, next)
  BY DEF next
<1>6. QED
  BY <1>1, <1>4, <1>5, TaskKeepsRewards

LEMMA NextRewards == ASSUME IInv, RewardInv, [Next]_vars PROVE RewardInv'
<1>1. IInv'
  BY NextInv
<1>2. CASE UNCHANGED vars
  BY <1>1, <1>2, KeepsRewards DEF vars, tables
<1>3. CASE Tick
  BY <1>1, <1>3, KeepsRewards DEF Tick, tables
<1>4. ASSUME NEW x \in Users, NEW y \in Users, Attach(x, y) PROVE RewardInv'
  BY <1>1, <1>4, AttachRewards
<1>5. ASSUME NEW t \in Tasks, TaskStep(t) PROVE RewardInv'
  <2>1. IdleTask.pc # "store"
    BY IdleType
  <2>2. ASSUME NEW x \in Users, NEW ctx \in Asked, Accept(t, x, ctx) PROVE RewardInv'
    <3> DEFINE next == [IdleTask EXCEPT !.pc = IF ctx = "question" THEN "answer" ELSE "intake",
                                        !.user = x, !.ctx = ctx]
    <3>1. next.pc # "store"
      BY IdleType DEF TaskRows
    <3>2. TaskGoes(t, next) /\ UNCHANGED tables
      BY <2>2 DEF Accept
    <3> HIDE DEF next
    <3>3. QED
      BY <1>1, <3>1, <3>2, TaskKeepsRewards DEF tables
  <2>3. CASE Answer(t)
    BY <1>1, <2>1, <2>3, TaskKeepsRewards DEF Answer
  <2>4. CASE CommitIntake(t)
    <3>1. CASE task[t].ctx \in Bundles
      <4> DEFINE next == [task[t] EXCEPT !.pc = "text"]
      <4>1. next.pc # "store"
        BY TaskOf DEF TaskRows
      <4>2. TaskGoes(t, next) /\ UNCHANGED <<jobs, files, referrals, ledger>>
        BY <2>4, <3>1 DEF CommitIntake
      <4> HIDE DEF next
      <4>3. QED
        BY <1>1, <4>1, <4>2, TaskKeepsRewards
    <3>2. CASE task[t].ctx \notin Bundles
      BY <1>1, <2>4, <3>2, NewJobRewards DEF CommitIntake
    <3>3. QED
      BY <3>1, <3>2
  <2>5. CASE TextReady(t)
    BY <1>1, <2>5, NewJobRewards DEF TextReady
  <2>6. CASE StartJob(t)
    <3> DEFINE next == [task[t] EXCEPT !.pc = "provider"]
    <3>1. next.pc # "store"
      BY TaskOf DEF TaskRows
    <3>2. (TaskGoes(t, next) \/ TaskGoes(t, IdleTask)) /\ UNCHANGED tables
      BY <2>6 DEF StartJob
    <3> HIDE DEF next
    <3>3. QED
      BY <1>1, <2>1, <3>1, <3>2, TaskKeepsRewards DEF tables
  <2>7. CASE FailJob(t)
    <3>1. task[t].pc \in HasJob /\ "failed" \in Statuses
      BY <2>7 DEF FailJob, HasJob, Statuses
    <3>2. \A j \in DOMAIN jobs : jobs'[j].user = jobs[j].user
      BY <2>7, <3>1, MarkJob DEF FailJob
    <3>3. QED
      BY <1>1, <2>1, <2>7, <3>2, TaskKeepsRewards DEF FailJob
  <2>8. CASE PictureReady(t)
    BY <1>1, <2>8, PictureReadyRewards
  <2>9. CASE StoreJob(t)
    BY <1>1, <2>9, StoreJobRewards
  <2>10. CASE Leave(t)
    BY <1>1, <2>1, <2>10, TaskKeepsRewards DEF Leave, tables
  <2>11. QED
    BY <1>5, <2>2, <2>3, <2>4, <2>5, <2>6, <2>7, <2>8, <2>9, <2>10 DEF TaskStep
<1>6. QED
  BY <1>2, <1>3, <1>4, <1>5 DEF Next

\* The invariant says of each referral, with its own inviter and invitee, what the
\* properties say.
LEMMA RewardsOfInv == ASSUME IInv, RewardInv PROVE RewardsEarned /\ RewardBound
<1>1. ASSUME NEW r \in DOMAIN referrals, NEW v, v = referrals[r].inviter,
             NEW u, u = referrals[r].invitee
      PROVE  Earned(r, v, u)
  <2>1. v \in Users /\ u \in Users
    BY <1>1, Numbers DEF IInv, ReferralRows
  <2>2. QED
    BY <1>1, <2>1 DEF RewardInv
<1>2. \A r \in DOMAIN referrals : Earned(r, referrals[r].inviter, referrals[r].invitee)
  BY <1>1
<1>3. RewardsEarned
  BY <1>2 DEF RewardsEarned, RewardInv, Earned, Rewards, PicturesOf
<1>4. RewardBound
  BY <1>2 DEF RewardBound, Earned, Rewards, Holders
<1>5. QED
  BY <1>3, <1>4

\* However the tasks of an invitee interleave, and wherever they stop, the rewards
\* of the referral go to its inviter, and each is for a picture the invitee was
\* charged for.
THEOREM RewardsAreEarned == Spec => []RewardsEarned
<1>1. Init => IInv /\ RewardInv
  BY InitInv, RewardsInit
<1>2. IInv /\ RewardInv /\ [Next]_vars => (IInv /\ RewardInv)'
  BY NextInv, NextRewards
<1>3. IInv /\ RewardInv => RewardsEarned
  BY RewardsOfInv
<1>4. QED
  BY <1>1, <1>2, <1>3, PTL DEF Spec

\* A referral is rewarded no more often than there are tasks, although the status
\* the reward is written by is not the one it was selected by.
THEOREM RewardsAreBounded == Spec => []RewardBound
<1>1. Init => IInv /\ RewardInv
  BY InitInv, RewardsInit
<1>2. IInv /\ RewardInv /\ [Next]_vars => (IInv /\ RewardInv)'
  BY NextInv, NextRewards
<1>3. IInv /\ RewardInv => RewardBound
  BY RewardsOfInv
<1>4. QED
  BY <1>1, <1>2, <1>3, PTL DEF Spec

-----------------------------------------------------------------------------
(* The quotas. *)

CountedNow(pool, u) == Counted(usage, pool, u, PlanOf[u], now)

\* What QuotaBound says of one user and one pool.
InQuota(pool, u) ==
  Cardinality(CountedNow(pool, u)) + Cardinality(Uncharged(pool, u))
    <= Limit(pool, PlanOf[u]) + Cardinality(Tasks) - 1

\* A task that answers was asked a question: its charge goes to the pool it was
\* checked against.
AnswersQuestions == \A t \in Tasks : task[t].pc = "answer" => task[t].ctx = "question"

QuotaInv == AnswersQuestions /\ \A u \in Users, pool \in Pools : InQuota(pool, u)

LEMMA LimitType == ASSUME NEW pool \in Pools, NEW u \in Users PROVE Limit(pool, PlanOf[u]) \in Nat
<1>1. PlanOf[u] \in PlanCodes
  BY GenerationAssumption
<1>2. Limits[PlanOf[u]] \in [image : Nat, vk : Nat, text : Nat]
  BY <1>1, EntitlementsAssumption
<1>3. /\ Limits[PlanOf[u]].image \in Nat /\ Limits[PlanOf[u]].vk \in Nat
      /\ Limits[PlanOf[u]].text \in Nat
  BY <1>2
<1>4. QED
  BY <1>3 DEF Pools, Limit

\* The beginning of a calendar month does not move back with the clock.
LEMMA MonthGrows ==
  ASSUME NEW n \in Nat
  PROVE  /\ MonthStart(n) \in Int /\ MonthStart(n + 1) \in Int
         /\ MonthStart(n) <= MonthStart(n + 1)
<1> DEFINE m == Month
           q == n \div m
           r == n % m
           p == (n + 1) \div m
           s == (n + 1) % m
<1>1. m \in Nat /\ m > 0
  BY EntitlementsAssumption
<1>2. q \in Int /\ r \in 0..(m - 1) /\ n = m * q + r
  BY <1>1
<1>3. p \in Int /\ s \in 0..(m - 1) /\ n + 1 = m * p + s
  BY <1>1
<1>4. MonthStart(n) = n - r /\ MonthStart(n + 1) = (n + 1) - s
  BY DEF MonthStart
<1> HIDE DEF m, q, r, p, s
<1>5. m * p - m * q = 1 + r - s
  <2>1. m * p \in Int /\ m * q \in Int
    BY <1>1, <1>2, <1>3
  <2>2. QED
    BY <1>2, <1>3, <2>1
<1>6. m * p - m * q > -m
  BY <1>1, <1>2, <1>3, <1>5
<1>7. p >= q
  <2>1. CASE p < q
    <3>1. p + 1 <= q
      BY <1>2, <1>3, <2>1
    <3>2. m * (p + 1) <= m * q
      BY <1>1, <1>2, <1>3, <3>1
    <3>3. m * (p + 1) = m * p + m
      BY <1>1, <1>3
    <3>4. m * p + m <= m * q /\ m * p \in Int /\ m * q \in Int
      BY <1>1, <1>2, <1>3, <3>2, <3>3
    <3>5. QED
      BY <1>1, <1>6, <3>4
  <2>2. QED
    BY <1>2, <1>3, <2>1
<1>8. m * q <= m * p
  BY <1>1, <1>2, <1>3, <1>7
<1>9. n - r <= (n + 1) - s
  BY <1>1, <1>2, <1>3, <1>5, <1>8
<1>10. QED
  BY <1>2, <1>3, <1>4, <1>9

\* So does no window.
LEMMA SinceGrows ==
  ASSUME NEW n \in Nat, NEW pool, NEW plan
  PROVE  /\ Since(pool, plan, n) \in Int /\ Since(pool, plan, n + 1) \in Int
         /\ Since(pool, plan, n) <= Since(pool, plan, n + 1)
<1>1. /\ MonthStart(n) \in Int /\ MonthStart(n + 1) \in Int
      /\ MonthStart(n) <= MonthStart(n + 1)
  BY MonthGrows
<1>2. Day \in Nat
  BY EntitlementsAssumption
<1>3. /\ n - Day \in Int /\ (n + 1) - Day \in Int /\ n - Day <= (n + 1) - Day
  BY <1>2
<1>4. QED
  BY <1>1, <1>3 DEF Since

\* A charge counts in the pool its flow was checked against, and in no other.
LEMMA ChargePool ==
  ASSUME NEW ctx \in Contexts, NEW pool \in Pools, NEW row,
         row.kind = UsageKind(ctx), row.mode = "none"
  PROVE  InPool(row, pool) <=> pool = PoolOf(ctx)
BY DEF Contexts, Pools, UsageKind, InPool, PoolOf

LEMMA QuotaSets ==
  ASSUME IInv, NEW pool, NEW u
  PROVE  /\ IsFiniteSet(CountedNow(pool, u)) /\ Cardinality(CountedNow(pool, u)) \in Nat
         /\ IsFiniteSet(Uncharged(pool, u)) /\ Cardinality(Uncharged(pool, u)) \in Nat
         /\ IsFiniteSet(Tasks) /\ Cardinality(Tasks) \in Nat /\ Cardinality(Tasks) > 0
<1>1. IsFiniteSet(DOMAIN usage)
  <2>1. DOMAIN usage = 1..Len(usage) /\ Len(usage) \in Nat
    BY Numbers DEF IInv
  <2>2. QED
    BY <2>1, FS_Interval
<1>2. CountedNow(pool, u) \subseteq DOMAIN usage
  BY DEF CountedNow, Counted
<1>3. IsFiniteSet(CountedNow(pool, u))
  BY <1>1, <1>2, FS_Subset
<1>4. IsFiniteSet(Tasks) /\ Tasks # {}
  BY GenerationAssumption
<1>5. Uncharged(pool, u) \subseteq Tasks
  BY DEF Uncharged
<1>6. IsFiniteSet(Uncharged(pool, u))
  BY <1>4, <1>5, FS_Subset
<1>7. Cardinality(Tasks) \in Nat /\ Cardinality(Tasks) # 0
  BY <1>4, FS_CardinalityType, FS_EmptySet
<1>8. QED
  BY <1>3, <1>4, <1>6, <1>7, FS_CardinalityType

\* A pool that nothing new counts in and no more tasks will charge.
LEMMA QuotaKept ==
  ASSUME IInv, IInv', NEW pool \in Pools, NEW u \in Users, InQuota(pool, u),
         CountedNow(pool, u)' \subseteq CountedNow(pool, u),
         Uncharged(pool, u)' \subseteq Uncharged(pool, u)
  PROVE  InQuota(pool, u)'
<1> DEFINE C == CountedNow(pool, u)
           D == CountedNow(pool, u)'
           E == Uncharged(pool, u)
           F == Uncharged(pool, u)'
           a == Cardinality(C)
           b == Cardinality(D)
           c == Cardinality(E)
           d == Cardinality(F)
           n == Cardinality(Tasks)
           l == Limit(pool, PlanOf[u])
<1>1. IsFiniteSet(C) /\ IsFiniteSet(E) /\ a \in Nat /\ c \in Nat /\ n \in Nat
  BY QuotaSets
<1>2. D \subseteq C /\ F \subseteq E
  OBVIOUS
<1>3. b <= a /\ d <= c /\ b \in Nat /\ d \in Nat
  <2> HIDE DEF C, D, E, F
  <2>1. IsFiniteSet(D) /\ IsFiniteSet(F)
    BY <1>1, <1>2, FS_Subset
  <2>2. QED
    BY <1>1, <1>2, <2>1, FS_Subset, FS_CardinalityType
<1>4. a + c <= l + n - 1
  BY DEF InQuota
<1>5. l \in Nat
  BY LimitType
<1>6. b + d <= l + n - 1
  <2> HIDE DEF a, b, c, d, n, l
  <2>1. QED
    BY <1>1, <1>3, <1>4, <1>5
<1>7. QED
  BY <1>6 DEF InQuota

\* A task charges its user in the pool it was checked against: what is used grows
\* by one and what may still be used shrinks by one.
LEMMA QuotaCharge ==
  ASSUME IInv, IInv', QuotaInv, NEW t \in Tasks, NEW row \in UsageRows, NEW next,
         NEW w, w = task[t].user, NEW ctx \in Contexts, ctx = task[t].ctx,
         task[t].pc \notin {"idle", "deliver"}, next.pc \in {"idle", "deliver"},
         usage' = Append(usage, row), TaskGoes(t, next),
         row.user = w, row.kind = UsageKind(ctx), row.mode = "none"
  PROVE  QuotaInv'
<1>1. PICK k : k = Len(usage) + 1
  OBVIOUS
<1>2. usage \in Seq(UsageRows)
  BY DEF IInv, TypeOK
<1>3. /\ DOMAIN usage' = DOMAIN usage \cup {k} /\ k \notin DOMAIN usage
      /\ \A i \in DOMAIN usage : usage'[i] = usage[i]
      /\ usage'[k] = row
  BY <1>1, <1>2, Appended
<1>4. now' = now /\ task'[t] = next /\ \A s \in Tasks \ {t} : task'[s] = task[s]
  BY DEF TaskGoes, IInv, TypeOK
<1>5. ASSUME NEW u \in Users, NEW pool \in Pools PROVE InQuota(pool, u)'
  <2>1. InQuota(pool, u)
    BY DEF QuotaInv
  <2>2. InPool(row, pool) <=> pool = PoolOf(ctx)
    BY ChargePool
  <2>3. CountedNow(pool, u)' \subseteq CountedNow(pool, u) \cup {k}
    BY <1>3, <1>4 DEF CountedNow, Counted
  <2>4. Uncharged(pool, u)' \subseteq Uncharged(pool, u) \ {t}
    BY <1>4 DEF Uncharged
  <2>5. CASE u = w /\ pool = PoolOf(ctx)
    <3> DEFINE C == CountedNow(pool, u)
               D == CountedNow(pool, u)'
               E == Uncharged(pool, u)
               F == Uncharged(pool, u)'
               a == Cardinality(C)
               b == Cardinality(D)
               c == Cardinality(E)
               d == Cardinality(F)
               n == Cardinality(Tasks)
               l == Limit(pool, PlanOf[u])
    <3>1. IsFiniteSet(C) /\ IsFiniteSet(E) /\ a \in Nat /\ c \in Nat /\ n \in Nat
      BY QuotaSets
    <3>2. t \in E
      BY <2>5 DEF Uncharged
    <3>3. b <= a + 1 /\ b \in Nat
      <4>1. D \subseteq C \cup {k}
        BY <2>3
      <4> HIDE DEF C, D
      <4> DEFINE e == Cardinality(C \cup {k})
      <4>2. IsFiniteSet(C \cup {k}) /\ e = IF k \in C THEN a ELSE a + 1
        BY <3>1, FS_AddElement
      <4>3. IsFiniteSet(D) /\ b <= e
        BY <4>1, <4>2, FS_Subset
      <4>4. b \in Nat
        BY <4>3, FS_CardinalityType
      <4> HIDE DEF a, b, e
      <4>5. e \in Nat /\ e <= a + 1
        BY <3>1, <4>2
      <4>6. QED
        BY <3>1, <4>3, <4>4, <4>5
    <3>4. d <= c - 1 /\ d \in Nat
      <4>1. F \subseteq E \ {t}
        BY <2>4
      <4> HIDE DEF E, F
      <4>2. IsFiniteSet(E \ {t}) /\ Cardinality(E \ {t}) = c - 1
        BY <3>1, <3>2, FS_RemoveElement
      <4>3. IsFiniteSet(F) /\ d <= Cardinality(E \ {t})
        BY <4>1, <4>2, FS_Subset
      <4>4. d \in Nat
        BY <4>3, FS_CardinalityType
      <4> HIDE DEF c, d
      <4>5. d <= c - 1
        BY <4>2, <4>3
      <4>6. QED
        BY <4>4, <4>5
    <3>5. a + c <= l + n - 1
      BY <2>1 DEF InQuota
    <3>6. l \in Nat
      BY LimitType
    <3>7. b + d <= l + n - 1
      <4> HIDE DEF a, b, c, d, n, l
      <4>1. QED
        BY <3>1, <3>3, <3>4, <3>5, <3>6
    <3>8. QED
      BY <3>7 DEF InQuota
  <2>6. CASE ~(u = w /\ pool = PoolOf(ctx))
    <3>1. k \notin CountedNow(pool, u)'
      BY <1>3, <2>2, <2>6 DEF CountedNow, Counted
    <3>2. CountedNow(pool, u)' \subseteq CountedNow(pool, u)
      BY <2>3, <3>1
    <3>3. Uncharged(pool, u)' \subseteq Uncharged(pool, u)
      BY <2>4
    <3>4. QED
      BY <2>1, <3>2, <3>3, QuotaKept
  <2>7. QED
    BY <2>5, <2>6
<1>6. AnswersQuestions'
  BY <1>4 DEF QuotaInv, AnswersQuestions
<1>7. QED
  BY <1>5, <1>6 DEF QuotaInv

\* A step that charges nothing and in which no task takes up a flow.
LEMMA QuotaRests ==
  ASSUME IInv, IInv', QuotaInv, usage' = usage, now' = now,
         \A t \in Tasks : \/ task'[t].pc \in {"idle", "deliver"}
                          \/ /\ task[t].pc \notin {"idle", "deliver"}
                             /\ task'[t].user = task[t].user /\ task'[t].ctx = task[t].ctx
                             /\ task'[t].pc = "answer" => task[t].pc = "answer"
  PROVE  QuotaInv'
<1>1. ASSUME NEW u \in Users, NEW pool \in Pools PROVE InQuota(pool, u)'
  <2>1. InQuota(pool, u)
    BY DEF QuotaInv
  <2>2. CountedNow(pool, u)' = CountedNow(pool, u)
    BY DEF CountedNow
  <2>3. Uncharged(pool, u)' \subseteq Uncharged(pool, u)
    BY DEF Uncharged
  <2>4. QED
    BY <2>1, <2>2, <2>3, QuotaKept
<1>2. AnswersQuestions'
  BY DEF QuotaInv, AnswersQuestions
<1>3. QED
  BY <1>1, <1>2 DEF QuotaInv

\* A step of one task, likewise.
LEMMA TaskRests ==
  ASSUME IInv, IInv', QuotaInv, usage' = usage, NEW t \in Tasks, NEW next, TaskGoes(t, next),
         \/ next.pc \in {"idle", "deliver"}
         \/ /\ task[t].pc \notin {"idle", "deliver"}
            /\ next.user = task[t].user /\ next.ctx = task[t].ctx /\ next.pc # "answer"
  PROVE  QuotaInv'
<1>1. now' = now /\ task'[t] = next /\ \A s \in Tasks \ {t} : task'[s] = task[s]
  BY DEF TaskGoes, IInv, TypeOK
<1>2. QED
  BY <1>1, QuotaRests

\* As the clock goes on the windows leave rows behind.
LEMMA TickQuota == ASSUME IInv, IInv', QuotaInv, Tick PROVE QuotaInv'
<1>1. PICK n \in Nat : n = now
  BY DEF IInv, TypeOK
<1>2. now' = n + 1 /\ usage' = usage /\ task' = task
  BY <1>1 DEF Tick, tables
<1>3. ASSUME NEW u \in Users, NEW pool \in Pools PROVE InQuota(pool, u)'
  <2>1. InQuota(pool, u)
    BY DEF QuotaInv
  <2>2. CountedNow(pool, u)' \subseteq CountedNow(pool, u)
    <3>1. /\ Since(pool, PlanOf[u], n) \in Int /\ Since(pool, PlanOf[u], n + 1) \in Int
          /\ Since(pool, PlanOf[u], n) <= Since(pool, PlanOf[u], n + 1)
      BY SinceGrows
    <3>2. \A i \in DOMAIN usage : usage[i].at \in Nat
      BY Numbers DEF IInv, UsageRows
    <3> DEFINE x == Since(pool, PlanOf[u], n)
               y == Since(pool, PlanOf[u], n + 1)
    <3>3. /\ CountedNow(pool, u) = {i \in DOMAIN usage :
               usage[i].user = u /\ InPool(usage[i], pool) /\ usage[i].at >= x}
          /\ CountedNow(pool, u)' = {i \in DOMAIN usage :
               usage[i].user = u /\ InPool(usage[i], pool) /\ usage[i].at >= y}
      BY <1>1, <1>2 DEF CountedNow, Counted
    <3> HIDE DEF x, y
    <3>4. \A i \in DOMAIN usage : usage[i].at >= y => usage[i].at >= x
      BY <3>1, <3>2 DEF x, y
    <3>5. QED
      BY <3>3, <3>4
  <2>3. Uncharged(pool, u)' = Uncharged(pool, u)
    BY <1>2 DEF Uncharged
  <2>4. QED
    BY <2>1, <2>2, <2>3, QuotaKept
<1>4. AnswersQuestions'
  BY <1>2 DEF QuotaInv, AnswersQuestions
<1>5. QED
  BY <1>3, <1>4 DEF QuotaInv

\* A flow is taken up below the limit; at most every task is on its way to charge.
LEMMA AcceptQuota ==
  ASSUME IInv, IInv', QuotaInv, NEW t \in Tasks, NEW w \in Users, NEW ctx \in Asked,
         Accept(t, w, ctx)
  PROVE  QuotaInv'
<1> DEFINE next == [IdleTask EXCEPT !.pc = IF ctx = "question" THEN "answer" ELSE "intake",
                                    !.user = w, !.ctx = ctx]
<1>1. next.user = w /\ next.ctx = ctx /\ (next.pc = "answer" => ctx = "question")
  BY IdleType DEF TaskRows
<1>2. TaskGoes(t, next) /\ UNCHANGED tables
  BY DEF Accept
<1> HIDE DEF next
<1>3. /\ now' = now /\ usage' = usage /\ task'[t] = next
      /\ \A s \in Tasks \ {t} : task'[s] = task[s]
  BY <1>2 DEF TaskGoes, tables, IInv, TypeOK
<1>4. ASSUME NEW u \in Users, NEW pool \in Pools PROVE InQuota(pool, u)'
  <2>1. InQuota(pool, u)
    BY DEF QuotaInv
  <2>2. CountedNow(pool, u)' = CountedNow(pool, u)
    BY <1>3 DEF CountedNow
  <2>3. CASE u = w /\ pool = PoolOf(ctx)
    <3> DEFINE a == Cardinality(CountedNow(pool, u))
               F == Uncharged(pool, u)'
               d == Cardinality(F)
               n == Cardinality(Tasks)
               l == Limit(pool, PlanOf[u])
    <3>1. IsFiniteSet(Tasks) /\ a \in Nat /\ n \in Nat
      BY QuotaSets
    <3>2. a < l
      BY <2>3 DEF Accept, Allowed, Used, CountedNow
    <3>3. F \subseteq Tasks
      BY DEF Uncharged
    <3>4. d <= n /\ d \in Nat
      <4> HIDE DEF F
      <4>1. IsFiniteSet(F)
        BY <3>1, <3>3, FS_Subset
      <4>2. QED
        BY <3>1, <3>3, <4>1, FS_Subset, FS_CardinalityType
    <3>5. l \in Nat
      BY LimitType
    <3>6. a + d <= l + n - 1
      <4> HIDE DEF a, d, n, l
      <4>1. QED
        BY <3>1, <3>2, <3>4, <3>5
    <3>7. QED
      BY <2>2, <3>6 DEF InQuota
  <2>4. CASE ~(u = w /\ pool = PoolOf(ctx))
    <3>1. Uncharged(pool, u)' \subseteq Uncharged(pool, u)
      BY <1>1, <1>3, <2>4 DEF Uncharged
    <3>2. QED
      BY <2>1, <2>2, <3>1, QuotaKept
  <2>5. QED
    BY <2>3, <2>4
<1>5. AnswersQuestions'
  BY <1>1, <1>3 DEF QuotaInv, AnswersQuestions
<1>6. QED
  BY <1>4, <1>5 DEF QuotaInv

\* A picture is stored and charged, or a question is answered and charged.
LEMMA StoreJobQuota == ASSUME IInv, IInv', QuotaInv, NEW t \in Tasks, StoreJob(t) PROVE QuotaInv'
<1> DEFINE row == [user |-> task[t].user, kind |-> UsageKind(task[t].ctx),
                   mode |-> "none", at |-> now, job |-> task[t].job]
           next == [task[t] EXCEPT !.pc = "deliver"]
<1>1. /\ task[t] \in TaskRows /\ task[t].pc = "store" /\ task[t].user \in Users
      /\ task[t].ctx \in Contexts /\ task[t].pc \in HasJob
  BY TaskOf DEF StoreJob, IInv, TasksOwnJobs, HasJob, TaskRows
<1>2. task[t].job \in Nat /\ now \in Nat
  <2>1. task[t].job \in DOMAIN jobs /\ DOMAIN jobs = 1..Len(jobs)
    BY <1>1, Numbers DEF IInv, TasksOwnJobs
  <2>2. now \in 0..MaxTime
    BY DEF IInv, TypeOK
  <2>3. QED
    BY <2>1, <2>2, GenerationAssumption
<1>3. /\ row \in UsageRows /\ row.user = task[t].user /\ row.kind = UsageKind(task[t].ctx)
      /\ row.mode = "none"
  BY <1>1, <1>2, KindType DEF UsageRows
<1>4. next.pc = "deliver"
  BY <1>1 DEF TaskRows
<1>5. usage' = Append(usage, row) /\ TaskGoes(t, next)
  BY DEF StoreJob
<1> HIDE DEF row, next
<1>6. QED
  BY <1>1, <1>3, <1>4, <1>5, QuotaCharge

LEMMA AnswerQuota == ASSUME IInv, IInv', QuotaInv, NEW t \in Tasks, Answer(t) PROVE QuotaInv'
<1> DEFINE row == [user |-> task[t].user, kind |-> UsageKind("question"),
                   mode |-> "none", at |-> now, job |-> 0]
<1>1. /\ task[t].pc = "answer" /\ task[t].ctx = "question" /\ task[t].user \in Users
      /\ "question" \in Contexts
  BY DEF Answer, QuotaInv, AnswersQuestions, IInv, TasksOwnJobs, Contexts
<1>2. now \in Nat
  <2>1. now \in 0..MaxTime
    BY DEF IInv, TypeOK
  <2>2. QED
    BY <2>1, GenerationAssumption
<1>3. /\ row \in UsageRows /\ row.user = task[t].user /\ row.kind = UsageKind("question")
      /\ row.mode = "none"
  BY <1>1, <1>2, KindType DEF UsageRows
<1>4. usage' = Append(usage, row) /\ TaskGoes(t, IdleTask) /\ IdleTask.pc = "idle"
  BY IdleType DEF Answer
<1> HIDE DEF row
<1>5. QED
  BY <1>1, <1>3, <1>4, QuotaCharge

LEMMA NextQuota == ASSUME IInv, QuotaInv, [Next]_vars PROVE QuotaInv'
<1>1. IInv'
  BY NextInv
<1>2. CASE UNCHANGED vars
  <2>1. usage' = usage /\ now' = now /\ task' = task
    BY <1>2 DEF vars, tables
  <2>2. QED
    BY <1>1, <2>1, QuotaRests
<1>3. CASE Tick
  BY <1>1, <1>3, TickQuota
<1>4. ASSUME NEW x \in Users, NEW y \in Users, Attach(x, y) PROVE QuotaInv'
  <2>1. usage' = usage /\ now' = now /\ task' = task
    BY <1>4 DEF Attach
  <2>2. QED
    BY <1>1, <2>1, QuotaRests
<1>5. ASSUME NEW t \in Tasks, TaskStep(t) PROVE QuotaInv'
  <2>1. IdleTask.pc = "idle" /\ task[t] \in TaskRows
    BY IdleType, TaskOf
  <2>2. ASSUME NEW x \in Users, NEW ctx \in Asked, Accept(t, x, ctx) PROVE QuotaInv'
    BY <1>1, <2>2, AcceptQuota
  <2>3. CASE Answer(t)
    BY <1>1, <2>3, AnswerQuota
  <2>4. ASSUME NEW next, TaskGoes(t, next), usage' = usage, task[t].pc \notin {"idle", "deliver"},
               next.user = task[t].user, next.ctx = task[t].ctx, next.pc # "answer"
        PROVE  QuotaInv'
    BY <1>1, <2>4, TaskRests
  <2>5. ASSUME TaskGoes(t, IdleTask), usage' = usage PROVE QuotaInv'
    BY <1>1, <2>1, <2>5, TaskRests
  <2>6. ASSUME NEW pc \in {"text", "run", "provider", "store"},
               TaskGoes(t, [task[t] EXCEPT !.pc = pc]),
               usage' = usage, task[t].pc \notin {"idle", "deliver"}
        PROVE  QuotaInv'
    <3> DEFINE next == [task[t] EXCEPT !.pc = pc]
    <3>1. /\ next.user = task[t].user /\ next.ctx = task[t].ctx /\ next.pc = pc
          /\ TaskGoes(t, next)
      BY <2>1, <2>6 DEF TaskRows
    <3> HIDE DEF next
    <3>2. QED
      BY <2>4, <2>6, <3>1
  <2>7. ASSUME NEW job, TaskGoes(t, [task[t] EXCEPT !.pc = "run", !.job = job]),
               usage' = usage, task[t].pc \notin {"idle", "deliver"}
        PROVE  QuotaInv'
    <3> DEFINE next == [task[t] EXCEPT !.pc = "run", !.job = job]
    <3>1. /\ next.user = task[t].user /\ next.ctx = task[t].ctx /\ next.pc = "run"
          /\ TaskGoes(t, next)
      BY <2>1, <2>7 DEF TaskRows
    <3> HIDE DEF next
    <3>2. QED
      BY <2>4, <2>7, <3>1
  <2>8. CASE CommitIntake(t)
    <3>1. CASE task[t].ctx \in Bundles
      BY <2>6, <2>8, <3>1 DEF CommitIntake
    <3>2. CASE task[t].ctx \notin Bundles
      BY <2>7, <2>8, <3>2 DEF CommitIntake
    <3>3. QED
      BY <3>1, <3>2
  <2>9. CASE TextReady(t)
    BY <2>7, <2>9 DEF TextReady
  <2>10. CASE StartJob(t)
    <3>1. CASE jobs[task[t].job].status = "queued"
      BY <2>6, <2>10, <3>1 DEF StartJob, tables
    <3>2. CASE jobs[task[t].job].status # "queued"
      BY <2>5, <2>10, <3>2 DEF StartJob, tables
    <3>3. QED
      BY <3>1, <3>2
  <2>11. CASE FailJob(t)
    BY <2>5, <2>11 DEF FailJob
  <2>12. CASE PictureReady(t)
    <3> DEFINE next == [task[t] EXCEPT !.pc = "store", !.pending = PendingReferral(task[t].user)]
    <3>1. /\ next.user = task[t].user /\ next.ctx = task[t].ctx /\ next.pc = "store"
      BY <2>1 DEF TaskRows
    <3>2. /\ TaskGoes(t, next) /\ usage' = usage /\ task[t].pc \notin {"idle", "deliver"}
      BY <2>12 DEF PictureReady, tables
    <3> HIDE DEF next
    <3>3. QED
      BY <2>4, <3>1, <3>2
  <2>13. CASE StoreJob(t)
    BY <1>1, <2>13, StoreJobQuota
  <2>14. CASE Leave(t)
    BY <2>5, <2>14 DEF Leave, tables
  <2>15. QED
    BY <1>5, <2>2, <2>3, <2>8, <2>9, <2>10, <2>11, <2>12, <2>13, <2>14 DEF TaskStep
<1>6. QED
  BY <1>2, <1>3, <1>4, <1>5 DEF Next

\* The table the first release left behind: its own use of a pool is not above
\* what this release can reach.  Only a limit lowered with the release breaks it.
OldUsageFits ==
  \A u \in Users, pool \in Pools :
    Used(OldUsage, pool, u, PlanOf[u], 0) <= Limit(pool, PlanOf[u]) + Cardinality(Tasks) - 1

LEMMA QuotaInit == ASSUME OldUsageFits, Init PROVE QuotaInv
<1>1. \A t \in Tasks : task[t].pc = "idle"
  BY IdleType DEF Init
<1>2. ASSUME NEW u \in Users, NEW pool \in Pools PROVE InQuota(pool, u)
  <2> DEFINE a == Used(OldUsage, pool, u, PlanOf[u], 0)
  <2>1. Uncharged(pool, u) = {} /\ Cardinality({}) = 0
    BY <1>1, FS_EmptySet DEF Uncharged
  <2>2. Cardinality(CountedNow(pool, u)) = a
    BY DEF Init, CountedNow, Used
  <2>3. Cardinality(CountedNow(pool, u)) \in Nat
    BY InitInv, QuotaSets
  <2>4. a <= Limit(pool, PlanOf[u]) + Cardinality(Tasks) - 1
    BY DEF OldUsageFits
  <2> HIDE DEF a
  <2>5. a + 0 <= Limit(pool, PlanOf[u]) + Cardinality(Tasks) - 1
    BY <2>2, <2>3, <2>4
  <2>6. QED
    BY <2>1, <2>2, <2>5 DEF InQuota
<1>3. QED
  BY <1>1, <1>2 DEF QuotaInv, AnswersQuestions

\* However many flows of a user are accepted before an earlier one is charged, the
\* user passes the limit by less than the number of tasks that run at once, and the
\* windows that move with the clock never count more.
THEOREM QuotaIsBounded == ASSUME OldUsageFits PROVE Spec => []QuotaBound
<1>1. Init => IInv /\ QuotaInv
  BY InitInv, QuotaInit
<1>2. IInv /\ QuotaInv /\ [Next]_vars => (IInv /\ QuotaInv)'
  BY NextInv, NextQuota
<1>3. IInv /\ QuotaInv => QuotaBound
  BY DEF QuotaBound, QuotaInv, InQuota, UsedNow, Used, CountedNow
<1>4. QED
  BY <1>1, <1>2, <1>3, PTL DEF Spec
=============================================================================
