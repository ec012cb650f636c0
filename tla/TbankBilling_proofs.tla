------------------------- MODULE TbankBilling_proofs -------------------------
(***************************************************************************)
(* Theorems about TbankBilling, for every set of users, payments, requests *)
(* and cron runs, and every length of the period.                          *)
(***************************************************************************)
EXTENDS TbankBilling, SubscriptionRows_proofs, FiniteSetTheorems

\* What a transaction holds is about payments T-Bank knows and rows that exist.
Known ==
  /\ \A n \in net : n.pid \in DOMAIN bank
  /\ \A h \in Handlers : Busy(h) => handler[h].note.pid \in DOMAIN bank
  /\ \A j \in Jobs :
       /\ job[j].ids \subseteq DOMAIN subs
       /\ job[j].pc \in {"init", "charge", "charged"} =>
            job[j].sid \in DOMAIN subs /\ DOMAIN job[j].snap = {1}
       /\ job[j].pc \in {"charge", "charged"} => job[j].pid \in DOMAIN bank

LEMMA NoNoteType == NoNote \notin Notes
BY RowsAssumption DEF NoNote, Notes

LEMMA EmptyTable == ASSUME NEW S PROVE <<>> \in Seq(S) /\ DOMAIN <<>> = {} /\ Len(<<>>) = 0
BY EmptySeq, LenProperties

LEMMA SingletonTable == ASSUME NEW S, NEW e \in S PROVE <<e>> \in Seq(S) /\ DOMAIN <<e>> = {1}
OBVIOUS

LEMMA InitTyped == Init => TypeOK /\ Known
<1> SUFFICES ASSUME Init PROVE TypeOK /\ Known
  OBVIOUS
<1> USE DEF Init
<1>1. /\ now \in 0..MaxTime
      /\ subs \in Seq(Rows)
      /\ ledger \in Seq([user : Users, pid : Pids, balance : Nat])
  BY EmptyTable, BillingAssumption
<1>2. DOMAIN bank \subseteq Pids /\ bank \in [DOMAIN bank -> Payments]
  BY EmptyTable
<1>3. handler \in [Handlers -> [note : Notes \cup {NoNote}, snap : Seq(Rows), stars : Nat]]
  BY EmptyTable DEF IdleHandler
<1>4. job \in [Jobs -> Runs]
  BY EmptyTable, BillingAssumption DEF IdleJob, Runs
<1>5. cancel \in [Users -> [open : BOOLEAN, snap : Seq(Rows)]]
  BY EmptyTable DEF IdleCancel
<1>6. TypeOK
  BY <1>1, <1>2, <1>3, <1>4, <1>5 DEF TypeOK
<1>7. Known
  BY DEF Known, Busy, IdleHandler, IdleJob
<1>8. QED
  BY <1>6, <1>7

\* The balance of the top-ups is a number.
LEMMA BalanceType == ASSUME TypeOK, NEW u PROVE BalanceSum(u) \in Nat
<1>1. Len(ledger) \in Nat /\ DOMAIN ledger = 1..Len(ledger)
  BY LenProperties DEF TypeOK
<1>2. IsFiniteSet(DOMAIN ledger)
  BY <1>1, FS_Interval
<1>3. IsFiniteSet({k \in DOMAIN ledger : ledger[k].user = u})
  BY <1>2, FS_Subset
<1>4. QED
  BY <1>3, FS_CardinalityType DEF BalanceSum, TopupStars

\* An event's key has the shape of its column.
LEMMA KeyType ==
  ASSUME NEW n \in Notes
  PROVE  Key(n) \in [pid : Pids, branch : {"paid", "renewal_fail", "ns"}, status : Notified \cup {""}]
BY DEF Key, Branch, Notes, Notified

LEMMA BankStepTyped ==
  ASSUME TypeOK, Known, BankStep
  PROVE  TypeOK' /\ Known'
<1>0. DOMAIN bank \subseteq Pids /\ bank \in [DOMAIN bank -> Payments]
  BY DEF TypeOK
<1>1. ASSUME NEW u \in Users, NEW plan \in Offered, NEW p \in Pids, Checkout(u, plan, p)
      PROVE  TypeOK' /\ Known'
  <2>1. bank' = [q \in DOMAIN bank \cup {p} |->
                   IF q = p THEN [status |-> "open", charged |-> TRUE,
                                  user |-> u, plan |-> plan, kind |-> Initial]
                   ELSE bank[q]]
    BY <1>1 DEF Checkout, Issue
  <2>2. DOMAIN bank' = DOMAIN bank \cup {p} /\ bank' \in [DOMAIN bank' -> Payments]
    BY <1>0, <2>1, BillingAssumption DEF Payments
  <2>3. QED
    BY <1>0, <1>1, <2>2 DEF Checkout, TypeOK, Known, Busy, database
<1>2. ASSUME NEW p \in Pids, NEW s \in Statuses, Settle(p, s)
      PROVE  TypeOK' /\ Known'
  <2>1. s \in Notified /\ p \in DOMAIN bank
    BY <1>2, BillingAssumption DEF Settle
  <2>2. DOMAIN bank' = DOMAIN bank /\ bank' \in [DOMAIN bank' -> Payments]
    <3>1. bank[p] \in Payments /\ [bank[p] EXCEPT !.status = s] \in Payments
      BY <1>0, <2>1 DEF Payments
    <3>2. bank' = [bank EXCEPT ![p] = [bank[p] EXCEPT !.status = s]]
      BY <1>2 DEF Settle
    <3>3. QED
      BY <1>0, <2>1, <3>1, <3>2
  <2>3. [pid |-> p, status |-> s] \in Notes
    BY <2>1 DEF Notes
  <2>4. net' = net \cup {[pid |-> p, status |-> s]}
    BY <1>2 DEF Settle
  <2>5. TypeOK'
    BY <1>0, <1>2, <2>2, <2>3, <2>4 DEF Settle, TypeOK, database
  <2>6. Known'
    BY <1>2, <2>1, <2>2, <2>4 DEF Settle, Known, Busy, database
  <2>7. QED
    BY <2>5, <2>6
<1>3. QED
  BY <1>1, <1>2 DEF BankStep

\* What a notification does to the tables.
LEMMA ApplyTyped ==
  ASSUME TypeOK, NEW n \in Notes, n.pid \in DOMAIN bank,
         NEW snap \in Seq(Rows), NEW balance \in Nat, ApplyNote(n, snap, balance)
  PROVE  /\ subs' \in Seq(Rows) /\ DOMAIN subs \subseteq DOMAIN subs'
         /\ ledger' \in Seq([user : Users, pid : Pids, balance : Nat])
         /\ granted' \in [Pids -> Nat]
<1> DEFINE pay == bank[n.pid]
<1>1. pay.user \in Users /\ pay.plan \in Plans /\ n.pid \in Pids /\ now \in Int
  <2>1. bank[n.pid] \in Payments
    BY DEF TypeOK
  <2>2. n.pid \in Pids
    BY DEF Notes
  <2>3. now \in 0..MaxTime
    BY DEF TypeOK
  <2>4. now \in Int
    BY <2>3, BillingAssumption
  <2>5. QED
    BY <2>1, <2>2, <2>4 DEF Payments
<1>2. Len(subs) \in Nat /\ DOMAIN subs = 1..Len(subs)
  BY LenProperties DEF TypeOK
<1>3. Len(snap) \in Nat /\ DOMAIN snap = 1..Len(snap)
  BY LenProperties
<1>4. CASE UNCHANGED <<subs, ledger, granted>>
  BY <1>4 DEF TypeOK
<1>5. CASE CreditTopup(n, balance) /\ UNCHANGED <<subs, granted>>
  <2>1. [user |-> pay.user, pid |-> n.pid, balance |-> balance + TopupStars]
           \in [user : Users, pid : Pids, balance : Nat]
    BY <1>1 DEF TopupStars
  <2>2. ledger' \in Seq([user : Users, pid : Pids, balance : Nat])
    BY <1>5, <2>1, AppendProperties DEF CreditTopup, TypeOK
  <2>3. QED
    BY <1>5, <2>2 DEF TypeOK
<1>6. CASE ApplySuccessfulRenewal(n, snap) /\ UNCHANGED ledger
  <2> DEFINE edited == ExtendLatest(snap, pay.user, pay.plan, n.pid, now)
  <2>1. edited \in Seq(Rows) /\ DOMAIN edited = DOMAIN snap
    BY <1>1, ExtendLatestType
  <2>2. subs' = Save(subs, snap, edited)
    BY <1>6 DEF ApplySuccessfulRenewal
  <2>3. subs' \in Seq(Rows) /\ DOMAIN subs' = DOMAIN subs
    BY <2>1, <2>2, SaveType DEF TypeOK
  <2>4. \/ UNCHANGED granted
        \/ \E i \in DOMAIN snap : granted' = [granted EXCEPT ![n.pid] = i]
    BY <1>6 DEF ApplySuccessfulRenewal
  <2>5. granted' \in [Pids -> Nat]
    <3>1. granted \in [Pids -> Nat]
      BY DEF TypeOK
    <3>2. QED
      BY <1>1, <1>3, <2>4, <3>1
  <2>6. QED
    BY <1>6, <2>3, <2>5 DEF TypeOK
<1>7. CASE Activate(n, snap) /\ UNCHANGED ledger /\ pay.plan \in PlusPlans
  <2>1. CASE ActivatedBy(snap, pay.user, n.pid)
    BY <1>7, <2>1 DEF Activate, TypeOK
  <2>2. CASE ~ActivatedBy(snap, pay.user, n.pid)
    <3>0. PICK rebill \in Rebills :
            /\ subs' = Append(Save(subs, snap, SupersedeAll(snap, pay.user)),
                              NewRow(pay.user, pay.plan, n.pid, rebill, now))
            /\ granted' = [granted EXCEPT ![n.pid] = Len(subs) + 1]
      BY <1>7, <2>2 DEF Activate
    <3> DEFINE saved == Save(subs, snap, SupersedeAll(snap, pay.user))
               row == NewRow(pay.user, pay.plan, n.pid, rebill, now)
    <3>1. SupersedeAll(snap, pay.user) \in Seq(Rows) /\ DOMAIN SupersedeAll(snap, pay.user) = DOMAIN snap
      BY <1>1, SupersedeAllType
    <3>2. saved \in Seq(Rows) /\ DOMAIN saved = DOMAIN subs /\ Len(saved) = Len(subs)
      BY <3>1, SaveType DEF TypeOK
    <3>3. row \in Rows
      BY <1>1, <1>7, NewRowType, BillingAssumption
    <3>4. subs' = Append(saved, row) /\ granted' = [granted EXCEPT ![n.pid] = Len(subs) + 1]
      BY <3>0
    <3> HIDE DEF saved, row
    <3>5. subs' \in Seq(Rows) /\ DOMAIN subs \subseteq DOMAIN subs'
      BY <1>2, <3>2, <3>3, <3>4, AppendProperties
    <3>6. granted' \in [Pids -> Nat]
      <4>1. granted \in [Pids -> Nat]
        BY DEF TypeOK
      <4>2. QED
        BY <1>1, <1>2, <3>4, <4>1
    <3>7. QED
      BY <1>7, <3>5, <3>6 DEF TypeOK
  <2>3. QED
    BY <2>1, <2>2
<1>8. CASE ApplyRenewalFailure(n, snap)
  <2> DEFINE edited == FailLatest(snap, pay.user, pay.plan)
  <2>1. edited \in Seq(Rows) /\ DOMAIN edited = DOMAIN snap
    BY <1>1, FailLatestType
  <2>2. subs' = Save(subs, snap, edited) /\ UNCHANGED <<ledger, granted>>
    BY <1>8 DEF ApplyRenewalFailure
  <2>3. subs' \in Seq(Rows) /\ DOMAIN subs' = DOMAIN subs
    BY <2>1, <2>2, SaveType DEF TypeOK
  <2>4. QED
    BY <2>2, <2>3 DEF TypeOK
<1>9. QED
  <2>1. Branch(n) \in {"paid", "renewal_fail", "ns"}
    BY DEF Branch
  <2>2. CASE Branch(n) = "paid"
    <3>1. ApplyPaid(n, snap, balance)
      BY <2>2 DEF ApplyNote
    <3>2. pay.plan = StarsTopup \/ pay.plan \in PlusPlans
      BY <1>1 DEF Plans
    <3>3. QED
      BY <1>5, <1>6, <1>7, <3>1, <3>2 DEF ApplyPaid
  <2>3. CASE Branch(n) = "renewal_fail"
    BY <1>8, <2>3 DEF ApplyNote
  <2>4. CASE Branch(n) = "ns"
    BY <1>4, <2>4 DEF ApplyNote
  <2>5. QED
    BY <2>1, <2>2, <2>3, <2>4

LEMMA WebhookStepTyped ==
  ASSUME TypeOK, Known, WebhookStep
  PROVE  TypeOK' /\ Known'
<1>1. ASSUME NEW h \in Handlers, NEW n \in net, WebhookBegin(h, n)
      PROVE  TypeOK' /\ Known'
  <2>1. n \in Notes /\ n.pid \in DOMAIN bank /\ BalanceSum(bank[n.pid].user) \in Nat
    BY BalanceType DEF TypeOK, Known
  <2>2. handler' = [handler EXCEPT ![h] =
                      [note |-> n, snap |-> subs, stars |-> BalanceSum(bank[n.pid].user)]]
    BY <1>1 DEF WebhookBegin
  <2>3. handler' \in [Handlers -> [note : Notes \cup {NoNote}, snap : Seq(Rows), stars : Nat]]
    BY <2>1, <2>2 DEF TypeOK
  <2>4. TypeOK'
    BY <1>1, <2>3 DEF WebhookBegin, TypeOK, database
  <2>5. \A k \in Handlers : Busy(k)' => handler'[k].note.pid \in DOMAIN bank
    BY <2>1, <2>2 DEF Known, Busy, TypeOK
  <2>6. Known'
    BY <1>1, <2>5 DEF WebhookBegin, Known, Busy, database
  <2>7. QED
    BY <2>4, <2>6
<1>2. ASSUME NEW h \in Handlers, NEW n \in net, WebhookDuplicate(h, n)
      PROVE  TypeOK' /\ Known'
  BY <1>2 DEF WebhookDuplicate, Answer, TypeOK, Known, Busy, database
<1>3. ASSUME NEW h \in Handlers, WebhookCommit(h)
      PROVE  TypeOK' /\ Known'
  <2> DEFINE n == handler[h].note
  <2>1. n \in Notes /\ n.pid \in DOMAIN bank /\ handler[h].snap \in Seq(Rows) /\ handler[h].stars \in Nat
    BY <1>3 DEF WebhookCommit, Busy, TypeOK, Known
  <2>2. ApplyNote(n, handler[h].snap, handler[h].stars)
    BY <1>3 DEF WebhookCommit
  <2> HIDE DEF n
  <2>3. /\ subs' \in Seq(Rows) /\ DOMAIN subs \subseteq DOMAIN subs'
        /\ ledger' \in Seq([user : Users, pid : Pids, balance : Nat])
        /\ granted' \in [Pids -> Nat]
    BY <2>1, <2>2, ApplyTyped
  <2>4. handler' = [handler EXCEPT ![h] = IdleHandler] /\ UNCHANGED <<now, bank, job, cancel>>
    BY <1>3 DEF WebhookCommit
  <2>5. events' = events \cup {Key(n)} /\ net' \subseteq net
    BY <1>3 DEF WebhookCommit, Answer, n
  <2>6. events' \subseteq [pid : Pids, branch : {"paid", "renewal_fail", "ns"},
                           status : Notified \cup {""}]
    BY <2>1, <2>5, KeyType DEF TypeOK
  <2>7. handler' \in [Handlers -> [note : Notes \cup {NoNote}, snap : Seq(Rows), stars : Nat]]
    BY <2>4, EmptyTable DEF TypeOK, IdleHandler
  <2>8. TypeOK'
    BY <2>3, <2>4, <2>5, <2>6, <2>7 DEF TypeOK
  <2>9. \A k \in Handlers : Busy(k)' => Busy(k) /\ handler'[k] = handler[k]
    BY <2>4 DEF Busy, IdleHandler, TypeOK
  <2>10. Known'
    BY <2>3, <2>4, <2>5, <2>9 DEF Known
  <2>11. QED
    BY <2>8, <2>10
<1>4. ASSUME NEW h \in Handlers, WebhookAbort(h)
      PROVE  TypeOK' /\ Known'
  <2>1. handler' = [handler EXCEPT ![h] = IdleHandler]
    BY <1>4 DEF WebhookAbort
  <2>2. handler' \in [Handlers -> [note : Notes \cup {NoNote}, snap : Seq(Rows), stars : Nat]]
    BY <2>1, EmptyTable DEF TypeOK, IdleHandler
  <2>3. \A k \in Handlers : Busy(k)' => Busy(k) /\ handler'[k] = handler[k]
    BY <2>1 DEF Busy, IdleHandler, TypeOK
  <2>4. QED
    BY <1>4, <2>2, <2>3 DEF WebhookAbort, TypeOK, Known, database
<1>5. QED
  BY <1>1, <1>2, <1>3, <1>4 DEF WebhookStep

LEMMA CancelStepTyped ==
  ASSUME TypeOK, Known, CancelStep
  PROVE  TypeOK' /\ Known'
<1>1. ASSUME NEW u \in Users, CancelBegin(u)
      PROVE  TypeOK' /\ Known'
  BY <1>1 DEF CancelBegin, TypeOK, Known, Busy, database
<1>2. ASSUME NEW u \in Users, CancelCommit(u)
      PROVE  TypeOK' /\ Known'
  <2> DEFINE snap == cancel[u].snap
  <2>1. snap \in Seq(Rows) /\ subs \in Seq(Rows)
    BY DEF TypeOK
  <2>2. CancelAll(snap, u) \in Seq(Rows) /\ DOMAIN CancelAll(snap, u) = DOMAIN snap
    BY <2>1, CancelAllType
  <2>3. subs' = Save(subs, snap, CancelAll(snap, u))
    BY <1>2 DEF CancelCommit
  <2>4. subs' \in Seq(Rows) /\ DOMAIN subs' = DOMAIN subs
    BY <2>1, <2>2, <2>3, SaveType
  <2>5. cancel' \in [Users -> [open : BOOLEAN, snap : Seq(Rows)]]
    BY <1>2, EmptyTable DEF CancelCommit, IdleCancel, TypeOK
  <2>6. QED
    BY <1>2, <2>4, <2>5 DEF CancelCommit, TypeOK, Known, Busy
<1>3. QED
  BY <1>1, <1>2 DEF CancelStep

\* A step of one run that leaves the tables as wide as they were.
LEMMA JobMoves ==
  ASSUME TypeOK, Known, NEW j \in Jobs, NEW next \in Runs, JobGoes(j, next),
         subs' \in Seq(Rows), DOMAIN subs \subseteq DOMAIN subs',
         DOMAIN bank \subseteq DOMAIN bank',
         DOMAIN bank' \subseteq Pids, bank' \in [DOMAIN bank' -> Payments],
         next.ids \subseteq DOMAIN subs,
         next.pc \in {"init", "charge", "charged"} =>
           next.sid \in DOMAIN subs /\ DOMAIN next.snap = {1},
         next.pc \in {"charge", "charged"} => next.pid \in DOMAIN bank'
  PROVE  TypeOK' /\ Known'
<1>1. job' = [job EXCEPT ![j] = next] /\ UNCHANGED <<now, events, ledger, granted, net, handler, cancel>>
  BY DEF JobGoes
<1>2. job' \in [Jobs -> Runs] /\ \A k \in Jobs : job'[k] = IF k = j THEN next ELSE job[k]
  BY <1>1 DEF TypeOK
<1>3. TypeOK'
  BY <1>1, <1>2 DEF TypeOK
<1>4. \A k \in Jobs :
        /\ job'[k].ids \subseteq DOMAIN subs'
        /\ job'[k].pc \in {"init", "charge", "charged"} =>
             job'[k].sid \in DOMAIN subs' /\ DOMAIN job'[k].snap = {1}
        /\ job'[k].pc \in {"charge", "charged"} => job'[k].pid \in DOMAIN bank'
  BY <1>2 DEF Known
<1>5. Known'
  BY <1>1, <1>4 DEF Known, Busy
<1>6. QED
  BY <1>3, <1>5

\* The row a run works on is a row.
LEMMA LoadedType ==
  ASSUME TypeOK, Known, NEW j \in Jobs, job[j].pc \in {"init", "charge", "charged"}
  PROVE  /\ Loaded(j) \in Rows /\ job[j].sid \in DOMAIN subs
         /\ job[j].ids \subseteq DOMAIN subs /\ job[j] \in Runs
<1>1. job[j] \in Runs /\ job[j].sid \in DOMAIN subs /\ DOMAIN job[j].snap = {1}
      /\ job[j].ids \subseteq DOMAIN subs
  BY DEF TypeOK, Known
<1>2. job[j].snap \in Seq(Rows)
  BY <1>1 DEF Runs
<1>3. job[j].snap[1] \in Rows
  BY <1>1, <1>2, ElementOfSeq, LenProperties
<1>4. QED
  BY <1>1, <1>3 DEF Loaded

\* The rows in the memory of a run that records a failure.
LEMMA SessionTypes ==
  ASSUME TypeOK, Known, NEW j \in Jobs, job[j].pc \in {"init", "charge", "charged"}
  PROVE  /\ SessionRows(j) \in Seq(Rows) /\ DOMAIN SessionRows(j) = DOMAIN subs
         /\ FailedRows(j) \in Seq(Rows) /\ DOMAIN FailedRows(j) = DOMAIN subs
<1>1. Loaded(j) \in Rows /\ job[j].sid \in DOMAIN subs /\ subs \in Seq(Rows)
  BY LoadedType DEF TypeOK
<1>2. \A i \in DOMAIN subs : subs[i] \in Rows
  BY <1>1, ElementOfSeq, LenProperties
<1>3. DOMAIN SessionRows(j) = DOMAIN subs /\ \A i \in DOMAIN subs : SessionRows(j)[i] \in Rows
  BY <1>1, <1>2 DEF SessionRows
<1>4. SessionRows(j) = [i \in DOMAIN subs |-> SessionRows(j)[i]]
  BY <1>3 DEF SessionRows
<1>5. SessionRows(j) \in Seq(Rows)
  BY <1>1, <1>3, <1>4, MapIsSeq
<1>6. \A i \in DOMAIN subs : FailedRows(j)[i] \in Rows
  BY <1>3, RowEditsPlain DEF FailedRows
<1>7. FailedRows(j) = [i \in DOMAIN subs |-> FailedRows(j)[i]]
  BY DEF FailedRows
<1>8. FailedRows(j) \in Seq(Rows) /\ DOMAIN FailedRows(j) = DOMAIN subs
  BY <1>1, <1>6, <1>7, MapIsSeq
<1>9. QED
  BY <1>3, <1>5, <1>8

LEMMA JobFailureType ==
  ASSUME TypeOK, Known, NEW j \in Jobs, job[j].pc \in {"init", "charge", "charged"}, JobFailure(j)
  PROVE  subs' \in Seq(Rows) /\ DOMAIN subs' = DOMAIN subs
<1>1. subs \in Seq(Rows)
  BY DEF TypeOK
<1>2. subs' = Save(subs, SessionRows(j), FailedRows(j))
  BY DEF JobFailure
<1>3. QED
  BY <1>1, <1>2, SessionTypes, SaveType

LEMMA JobStepTyped ==
  ASSUME TypeOK, Known, JobStep
  PROVE  TypeOK' /\ Known'
<1>0. /\ subs \in Seq(Rows) /\ DOMAIN bank \subseteq Pids /\ bank \in [DOMAIN bank -> Payments]
      /\ DOMAIN subs \subseteq Nat
  <2>1. subs \in Seq(Rows) /\ DOMAIN bank \subseteq Pids /\ bank \in [DOMAIN bank -> Payments]
    BY DEF TypeOK
  <2>2. Len(subs) \in Nat /\ DOMAIN subs = 1..Len(subs)
    BY <2>1, LenProperties
  <2>3. QED
    BY <2>1, <2>2
<1>1. IdleJob \in Runs /\ IdleJob.ids = {} /\ IdleJob.pc = "idle"
  BY EmptyTable, BillingAssumption DEF IdleJob, Runs
<1>2. now \in 0..MaxTime
  BY DEF TypeOK
<1>3. PICK j \in Jobs :
        \/ JobStart(j) \/ JobExpire(j) \/ JobSelect(j) \/ JobDone(j)
        \/ \E i \in job[j].ids : JobLoad(j, i)
        \/ \E p \in Pids : JobInit(j, p)
        \/ JobCharge(j) \/ JobAccepted(j) \/ JobRefused(j) \/ JobAbort(j)
  BY DEF JobStep
<1>4. job[j] \in Runs /\ job[j].ids \subseteq DOMAIN subs /\ job[j].snap \in Seq(Rows)
  BY DEF TypeOK, Known, Runs
<1>5. CASE JobStart(j)
  <2> DEFINE next == [IdleJob EXCEPT !.pc = "expire", !.at = now, !.snap = subs]
  <2>1. next \in Runs /\ next.ids = {} /\ next.pc = "expire"
    BY <1>0, <1>1, <1>2 DEF IdleJob, Runs
  <2>2. JobGoes(j, next) /\ UNCHANGED <<subs, bank>>
    BY <1>5 DEF JobStart
  <2> HIDE DEF next
  <2>3. QED
    BY <1>0, <2>1, <2>2, JobMoves
<1>6. CASE JobExpire(j)
  <2> DEFINE next == [IdleJob EXCEPT !.pc = "select"]
             edited == ExpireOverdue(job[j].snap, job[j].at)
  <2>1. next \in Runs /\ next.ids = {} /\ next.pc = "select"
    BY <1>1 DEF IdleJob, Runs
  <2>2. JobGoes(j, next) /\ subs' = Save(subs, job[j].snap, edited) /\ bank' = bank
    BY <1>6 DEF JobExpire
  <2>3. edited \in Seq(Rows) /\ DOMAIN edited = DOMAIN job[j].snap
    BY <1>4, ExpireOverdueType
  <2> HIDE DEF next, edited
  <2>4. subs' \in Seq(Rows) /\ DOMAIN subs' = DOMAIN subs
    BY <1>0, <1>4, <2>2, <2>3, SaveType
  <2>5. QED
    BY <1>0, <2>1, <2>2, <2>4, JobMoves
<1>7. CASE JobSelect(j)
  <2> DEFINE ids == IF Recurring THEN {i \in DOMAIN subs : Chargeable(subs[i])} ELSE {}
             next == [IdleJob EXCEPT !.pc = "loop", !.at = now, !.ids = ids]
  <2>1. ids \subseteq DOMAIN subs
    OBVIOUS
  <2>2. next \in Runs /\ next.ids \subseteq DOMAIN subs /\ next.pc = "loop"
    <3> HIDE DEF ids
    <3>1. QED
      BY <1>0, <1>1, <1>2, <2>1 DEF IdleJob, Runs
  <2>3. JobGoes(j, next) /\ UNCHANGED <<subs, bank>>
    BY <1>7 DEF JobSelect
  <2> HIDE DEF next
  <2>4. QED
    BY <1>0, <2>2, <2>3, JobMoves
<1>8. CASE JobDone(j) \/ JobAbort(j)
  <2>1. JobGoes(j, IdleJob) /\ UNCHANGED <<subs, bank>>
    BY <1>8 DEF JobDone, JobAbort
  <2>2. QED
    BY <1>0, <1>1, <2>1, JobMoves
<1>9. ASSUME NEW i \in job[j].ids, JobLoad(j, i)
      PROVE  TypeOK' /\ Known'
  <2> DEFINE skip == [job[j] EXCEPT !.ids = @ \ {i}]
             take == [job[j] EXCEPT !.pc = "init", !.ids = @ \ {i}, !.sid = i, !.snap = <<subs[i]>>]
  <2>1. job[j].pc = "loop" /\ i \in DOMAIN subs /\ UNCHANGED <<subs, bank>>
    BY <1>4, <1>9 DEF JobLoad
  <2>2. subs[i] \in Rows
    BY <1>0, <2>1, ElementOfSeq, LenProperties
  <2>3. <<subs[i]>> \in Seq(Rows) /\ DOMAIN <<subs[i]>> = {1}
    BY <2>2, SingletonTable
  <2>4. skip \in Runs /\ skip.ids \subseteq DOMAIN subs /\ skip.pc = "loop"
    BY <1>4, <2>1 DEF Runs
  <2>5. /\ take \in Runs /\ take.ids \subseteq DOMAIN subs /\ take.pc = "init"
        /\ take.sid \in DOMAIN subs /\ DOMAIN take.snap = {1}
    BY <1>0, <1>4, <2>1, <2>3 DEF Runs
  <2>6. JobGoes(j, take) \/ JobGoes(j, skip)
    BY <1>9 DEF JobLoad
  <2> HIDE DEF skip, take
  <2>7. QED
    BY <1>0, <2>1, <2>4, <2>5, <2>6, JobMoves
<1>10. ASSUME NEW p \in Pids, JobInit(j, p)
       PROVE  TypeOK' /\ Known'
  <2> DEFINE next == [job[j] EXCEPT !.pc = "charge", !.pid = p]
  <2>1. job[j].pc = "init" /\ UNCHANGED subs /\ JobGoes(j, next)
    BY <1>10 DEF JobInit
  <2>2. Loaded(j) \in Rows /\ job[j].sid \in DOMAIN subs /\ DOMAIN job[j].snap = {1}
    BY <2>1, LoadedType DEF Known
  <2>3. Loaded(j).user \in Users /\ Loaded(j).plan \in Plans
    BY <2>2 DEF Rows, Plans
  <2>4. bank' = [q \in DOMAIN bank \cup {p} |->
                   IF q = p THEN [status |-> "open", charged |-> Renewal = Initial,
                                  user |-> Loaded(j).user, plan |-> Loaded(j).plan, kind |-> Renewal]
                   ELSE bank[q]]
    BY <1>10 DEF JobInit, Issue
  <2>5. DOMAIN bank' = DOMAIN bank \cup {p} /\ bank' \in [DOMAIN bank' -> Payments]
    BY <1>0, <2>3, <2>4 DEF Payments
  <2>6. /\ next \in Runs /\ next.ids \subseteq DOMAIN subs /\ next.pc = "charge"
        /\ next.sid \in DOMAIN subs /\ DOMAIN next.snap = {1} /\ next.pid \in DOMAIN bank'
    BY <1>4, <2>2, <2>5 DEF Runs
  <2> HIDE DEF next
  <2>7. QED
    BY <1>0, <2>1, <2>5, <2>6, JobMoves
<1>11. CASE JobCharge(j)
  <2> DEFINE next == [job[j] EXCEPT !.pc = "charged"]
             p == job[j].pid
  <2>1. job[j].pc = "charge" /\ UNCHANGED subs /\ JobGoes(j, next)
    BY <1>11 DEF JobCharge
  <2>2. p \in DOMAIN bank /\ job[j].sid \in DOMAIN subs /\ DOMAIN job[j].snap = {1}
    BY <2>1 DEF Known
  <2>3. bank' = [bank EXCEPT ![p] = [bank[p] EXCEPT !.charged = TRUE]]
    BY <1>11 DEF JobCharge
  <2>4. [bank[p] EXCEPT !.charged = TRUE] \in Payments
    BY <1>0, <2>2 DEF Payments
  <2>5. DOMAIN bank' = DOMAIN bank /\ bank' \in [DOMAIN bank' -> Payments]
    BY <1>0, <2>2, <2>3, <2>4
  <2>6. /\ next \in Runs /\ next.ids \subseteq DOMAIN subs /\ next.pc = "charged"
        /\ next.sid \in DOMAIN subs /\ DOMAIN next.snap = {1} /\ next.pid \in DOMAIN bank'
    BY <1>4, <2>2, <2>5 DEF Runs
  <2> HIDE DEF next
  <2>7. QED
    BY <1>0, <2>1, <2>5, <2>6, JobMoves
<1>12. NextRow(j) \in Runs /\ NextRow(j).ids \subseteq DOMAIN subs /\ NextRow(j).pc = "loop"
  BY <1>4, EmptyTable DEF NextRow, Runs
<1>13. CASE JobRefused(j)
  <2>1. job[j].pc \in {"init", "charge", "charged"} /\ JobFailure(j) /\ JobGoes(j, NextRow(j))
        /\ UNCHANGED bank
    BY <1>13 DEF JobRefused
  <2>2. subs' \in Seq(Rows) /\ DOMAIN subs' = DOMAIN subs
    BY <2>1, JobFailureType
  <2>3. QED
    BY <1>0, <1>12, <2>1, <2>2, JobMoves
<1>14. CASE JobAccepted(j)
  <2> DEFINE sid == job[j].sid
             new == Written(subs[sid], Loaded(j), RenewalDue(Loaded(j), job[j].pid))
  <2>1. job[j].pc = "charged" /\ JobGoes(j, NextRow(j)) /\ UNCHANGED bank
        /\ subs' = [subs EXCEPT ![sid] = new]
    BY <1>14 DEF JobAccepted
  <2>2. Loaded(j) \in Rows /\ sid \in DOMAIN subs /\ job[j].pid \in Pids
    BY <1>0, <2>1, LoadedType DEF Known
  <2>3. \A i \in DOMAIN subs : subs[i] \in Rows
    BY <1>0, ElementOfSeq, LenProperties
  <2>4. new \in Rows
    BY <2>2, <2>3, RowEdits, WrittenType
  <2> HIDE DEF new
  <2>5. DOMAIN subs' = DOMAIN subs /\ \A i \in DOMAIN subs : subs'[i] \in Rows
    BY <2>1, <2>2, <2>3, <2>4
  <2>6. subs' = [i \in DOMAIN subs |-> subs'[i]]
    BY <2>1, <2>5
  <2>7. subs' \in Seq(Rows)
    BY <1>0, <2>5, <2>6, MapIsSeq
  <2>8. QED
    BY <1>0, <1>12, <2>1, <2>5, <2>7, JobMoves
<1>15. QED
  BY <1>3, <1>5, <1>6, <1>7, <1>8, <1>9, <1>10, <1>11, <1>13, <1>14

\* Every step keeps the types and the references between tables and transactions.
LEMMA NextTyped == TypeOK /\ Known /\ [Next]_vars => TypeOK' /\ Known'
<1> SUFFICES ASSUME TypeOK, Known, [Next]_vars PROVE TypeOK' /\ Known'
  OBVIOUS
<1>1. CASE Tick
  <2>1. now' \in 0..MaxTime
    <3>1. now \in 0..MaxTime
      BY DEF TypeOK
    <3>2. QED
      BY <1>1, <3>1, BillingAssumption DEF Tick
  <2>2. QED
    BY <1>1, <2>1 DEF Tick, TypeOK, Known, Busy, Runs, database
<1>2. CASE BankStep
  BY <1>2, BankStepTyped
<1>3. CASE WebhookStep
  BY <1>3, WebhookStepTyped
<1>4. CASE CancelStep
  BY <1>4, CancelStepTyped
<1>5. CASE JobStep
  BY <1>5, JobStepTyped
<1>6. CASE UNCHANGED vars
  BY <1>6 DEF vars, TypeOK, Known, Busy, Runs
<1>7. QED
  BY <1>1, <1>2, <1>3, <1>4, <1>5, <1>6 DEF Next

\* Type correctness: whatever the interleaving of requests, cron runs, opt-outs
\* and bank answers, every table keeps its shape (packages/db/models.py).
THEOREM TypeCorrect == Spec => []TypeOK
<1>1. Spec => [](TypeOK /\ Known)
  BY InitTyped, NextTyped, PTL DEF Spec
<1>2. QED
  BY <1>1, PTL

-----------------------------------------------------------------------------
(* The opt-out, and what a row keeps for good.                             *)

\* Every copy of a row records the opt-out in both columns or in neither, and
\* a run waits for the bank only with a row that renews.
OptOutInv ==
  /\ AllConsistent(subs)
  /\ \A h \in Handlers : AllConsistent(handler[h].snap)
  /\ \A u \in Users : AllConsistent(cancel[u].snap)
  /\ \A j \in Jobs : /\ AllConsistent(job[j].snap)
                     /\ job[j].pc \in {"init", "charge", "charged"} => Loaded(j).autoRenew

\* What any step does to the table of subscriptions.
TableStep ==
  /\ DOMAIN subs \subseteq DOMAIN subs'
  /\ \A i \in DOMAIN subs : SafeWrite(subs[i], subs'[i])
  /\ \A i \in DOMAIN subs' \ DOMAIN subs : OptOutConsistent(subs'[i])

LEMMA UnchangedTable == ASSUME UNCHANGED subs PROVE TableStep
BY DEF TableStep, SafeWrite

\* A flush of safe edits.
LEMMA SavedTable ==
  ASSUME subs \in Seq(Rows), NEW loaded \in Seq(Rows), NEW edited \in Seq(Rows),
         SafeEdits(loaded, edited), AllConsistent(loaded),
         subs' = Save(subs, loaded, edited)
  PROVE  TableStep
<1>1. \A i \in DOMAIN subs : SafeWrite(subs[i], subs'[i])
  BY SaveIsSafe
<1>2. DOMAIN subs' = DOMAIN subs
  BY DEF Save
<1>3. QED
  BY <1>1, <1>2 DEF TableStep

LEMMA ApplyTableStep ==
  ASSUME TypeOK, NEW n \in Notes, n.pid \in DOMAIN bank,
         NEW snap \in Seq(Rows), AllConsistent(snap), NEW balance, ApplyNote(n, snap, balance)
  PROVE  TableStep
<1> DEFINE pay == bank[n.pid]
<1>0. subs \in Seq(Rows)
  BY DEF TypeOK
<1>1. pay.user \in Users /\ pay.plan \in Plans /\ n.pid \in Pids /\ now \in Int
  <2>1. bank[n.pid] \in Payments
    BY DEF TypeOK
  <2>2. now \in 0..MaxTime
    BY DEF TypeOK
  <2>3. QED
    BY <2>1, <2>2, BillingAssumption DEF Payments, Notes
<1>2. CASE UNCHANGED subs
  BY <1>2, UnchangedTable
<1>3. CASE ApplySuccessfulRenewal(n, snap)
  <2> DEFINE edited == ExtendLatest(snap, pay.user, pay.plan, n.pid, now)
  <2>1. edited \in Seq(Rows) /\ SafeEdits(snap, edited)
    BY <1>1, ExtendLatestType, OperationsAreSafe
  <2>2. subs' = Save(subs, snap, edited)
    BY <1>3 DEF ApplySuccessfulRenewal
  <2> HIDE DEF edited
  <2>3. QED
    BY <1>0, <2>1, <2>2, SavedTable
<1>4. CASE ApplyRenewalFailure(n, snap)
  <2> DEFINE edited == FailLatest(snap, pay.user, pay.plan)
  <2>1. edited \in Seq(Rows) /\ SafeEdits(snap, edited)
    BY <1>1, FailLatestType, OperationsAreSafe
  <2>2. subs' = Save(subs, snap, edited)
    BY <1>4 DEF ApplyRenewalFailure
  <2> HIDE DEF edited
  <2>3. QED
    BY <1>0, <2>1, <2>2, SavedTable
<1>5. CASE Activate(n, snap) /\ pay.plan \in PlusPlans /\ ~UNCHANGED subs
  <2>0. PICK rebill \in Rebills :
          subs' = Append(Save(subs, snap, SupersedeAll(snap, pay.user)),
                         NewRow(pay.user, pay.plan, n.pid, rebill, now))
    BY <1>5 DEF Activate
  <2> DEFINE edited == SupersedeAll(snap, pay.user)
             saved == Save(subs, snap, edited)
             row == NewRow(pay.user, pay.plan, n.pid, rebill, now)
  <2>1. edited \in Seq(Rows) /\ SafeEdits(snap, edited)
    BY SupersedeAllType, OperationsAreSafe
  <2>2. \A i \in DOMAIN subs : SafeWrite(subs[i], saved[i])
    BY <1>0, <2>1, SaveIsSafe
  <2>3. saved \in Seq(Rows) /\ DOMAIN saved = DOMAIN subs /\ Len(saved) = Len(subs)
    BY <1>0, <2>1, SaveType DEF SafeEdits
  <2>4. row \in Rows /\ OptOutConsistent(row)
    BY <1>1, <1>5, NewRowType, BillingAssumption DEF NewRow, OptOutConsistent
  <2>5. subs' = Append(saved, row)
    BY <2>0
  <2> HIDE DEF saved, row
  <2>6. /\ Len(subs) \in Nat /\ DOMAIN subs = 1..Len(subs)
        /\ subs' \in Seq(Rows) /\ DOMAIN subs' = 1..(Len(subs) + 1)
        /\ \A i \in DOMAIN subs : subs'[i] = saved[i]
        /\ subs'[Len(subs) + 1] = row
    BY <1>0, <2>3, <2>4, <2>5, AppendProperties, LenProperties
  <2>7. QED
    BY <2>2, <2>4, <2>6 DEF TableStep
<1>6. QED
  <2>1. CASE Branch(n) = "paid"
    <3>1. ApplyPaid(n, snap, balance)
      BY <2>1 DEF ApplyNote
    <3>2. pay.plan = StarsTopup \/ pay.plan \in PlusPlans
      BY <1>1 DEF Plans
    <3>3. QED
      BY <1>2, <1>3, <1>5, <3>1, <3>2 DEF ApplyPaid
  <2>2. CASE Branch(n) = "renewal_fail"
    BY <1>4, <2>2 DEF ApplyNote
  <2>3. CASE Branch(n) = "ns"
    BY <1>2, <2>3 DEF ApplyNote
  <2>4. QED
    BY <2>1, <2>2, <2>3 DEF Branch

LEMMA NextTableStep == TypeOK /\ Known /\ OptOutInv /\ [Next]_vars => TableStep
<1> SUFFICES ASSUME TypeOK, Known, OptOutInv, [Next]_vars PROVE TableStep
  OBVIOUS
<1>0. subs \in Seq(Rows)
  BY DEF TypeOK
<1>1. CASE UNCHANGED subs
  BY <1>1, UnchangedTable
<1>2. ASSUME NEW h \in Handlers, WebhookCommit(h) PROVE TableStep
  <2>1. /\ handler[h].note \in Notes /\ handler[h].note.pid \in DOMAIN bank
        /\ handler[h].snap \in Seq(Rows) /\ AllConsistent(handler[h].snap)
    BY <1>2 DEF WebhookCommit, Busy, TypeOK, Known, OptOutInv
  <2>2. ApplyNote(handler[h].note, handler[h].snap, handler[h].stars)
    BY <1>2 DEF WebhookCommit
  <2>3. QED
    BY <2>1, <2>2, ApplyTableStep
<1>3. ASSUME NEW u \in Users, CancelCommit(u) PROVE TableStep
  <2> DEFINE snap == cancel[u].snap
             edited == CancelAll(snap, u)
  <2>1. snap \in Seq(Rows) /\ AllConsistent(snap)
    BY DEF TypeOK, OptOutInv
  <2>2. edited \in Seq(Rows) /\ SafeEdits(snap, edited)
    BY <2>1, CancelAllType, OperationsAreSafe
  <2>3. subs' = Save(subs, snap, edited)
    BY <1>3 DEF CancelCommit
  <2> HIDE DEF snap, edited
  <2>4. QED
    BY <1>0, <2>1, <2>2, <2>3, SavedTable
<1>4. ASSUME NEW j \in Jobs, JobExpire(j) PROVE TableStep
  <2> DEFINE snap == job[j].snap
             edited == ExpireOverdue(snap, job[j].at)
  <2>1. snap \in Seq(Rows) /\ AllConsistent(snap)
    BY DEF TypeOK, OptOutInv, Runs
  <2>2. edited \in Seq(Rows) /\ SafeEdits(snap, edited)
    BY <2>1, ExpireOverdueType, OperationsAreSafe
  <2>3. subs' = Save(subs, snap, edited)
    BY <1>4 DEF JobExpire
  <2> HIDE DEF snap, edited
  <2>4. QED
    BY <1>0, <2>1, <2>2, <2>3, SavedTable
<1>5. ASSUME NEW j \in Jobs, job[j].pc \in {"init", "charge", "charged"}
      PROVE  /\ AllConsistent(SessionRows(j)) /\ SafeEdits(SessionRows(j), FailedRows(j))
             /\ Loaded(j) \in Rows /\ OptOutConsistent(Loaded(j)) /\ job[j].sid \in DOMAIN subs
  <2>1. Loaded(j) \in Rows /\ job[j].sid \in DOMAIN subs
    BY <1>5, LoadedType
  <2>2. OptOutConsistent(Loaded(j))
    BY <1>5 DEF OptOutInv, AllConsistent, Known, Loaded
  <2>3. DOMAIN SessionRows(j) = DOMAIN subs /\ DOMAIN FailedRows(j) = DOMAIN subs
    BY <1>5, SessionTypes
  <2>4. AllConsistent(SessionRows(j))
    BY <2>1, <2>2, <2>3 DEF OptOutInv, AllConsistent, SessionRows
  <2>5. \A i \in DOMAIN subs : SessionRows(j)[i] \in Rows
    BY <1>5, <2>3, SessionTypes, ElementOfSeq, LenProperties
  <2>6. SafeEdits(SessionRows(j), FailedRows(j))
    BY <2>3, <2>5, EditsAreSafe DEF SafeEdits, FailedRows
  <2>7. QED
    BY <2>1, <2>2, <2>4, <2>6
<1>6. ASSUME NEW j \in Jobs, JobRefused(j) PROVE TableStep
  <2>1. job[j].pc \in {"init", "charge", "charged"}
        /\ subs' = Save(subs, SessionRows(j), FailedRows(j))
    BY <1>6 DEF JobRefused, JobFailure
  <2>2. SessionRows(j) \in Seq(Rows) /\ FailedRows(j) \in Seq(Rows)
    BY <2>1, SessionTypes
  <2>3. QED
    BY <1>0, <1>5, <2>1, <2>2, SavedTable
<1>7. ASSUME NEW j \in Jobs, JobAccepted(j) PROVE TableStep
  <2> DEFINE sid == job[j].sid
             due == RenewalDue(Loaded(j), job[j].pid)
  <2>1. job[j].pc = "charged" /\ subs' = [subs EXCEPT ![sid] = Written(subs[sid], Loaded(j), due)]
    BY <1>7 DEF JobAccepted
  <2>2. Loaded(j) \in Rows /\ OptOutConsistent(Loaded(j)) /\ sid \in DOMAIN subs
    BY <1>5, <2>1
  <2>3. \A i \in DOMAIN subs : subs[i] \in Rows
    BY <1>0, ElementOfSeq, LenProperties
  <2>4. job[j].pid \in Pids
    BY <2>1 DEF TypeOK, Known
  <2>5. due \in Rows /\ SafeEdit(Loaded(j), due)
    BY <2>2, <2>4, RowEdits, EditsAreSafe
  <2> HIDE DEF due
  <2>6. SafeWrite(subs[sid], Written(subs[sid], Loaded(j), due))
    BY <2>2, <2>3, <2>5, WrittenIsSafe
  <2>7. QED
    BY <2>1, <2>2, <2>6 DEF TableStep, SafeWrite
<1>8. QED
  <2>1. CASE Tick
    BY <1>1, <2>1 DEF Tick, database
  <2>2. CASE BankStep
    BY <1>1, <2>2 DEF BankStep, Checkout, Settle, database
  <2>3. CASE WebhookStep
    BY <1>1, <1>2, <2>3 DEF WebhookStep, WebhookBegin, WebhookDuplicate, WebhookAbort, database
  <2>4. CASE CancelStep
    BY <1>1, <1>3, <2>4 DEF CancelStep, CancelBegin, database
  <2>5. CASE JobStep
    BY <1>1, <1>4, <1>6, <1>7, <2>5
       DEF JobStep, JobStart, JobSelect, JobDone, JobLoad, JobInit, JobCharge, JobAbort
  <2>6. CASE UNCHANGED vars
    BY <1>1, <2>6 DEF vars
  <2>7. QED
    BY <2>1, <2>2, <2>3, <2>4, <2>5, <2>6 DEF Next

LEMMA InitOptOut == Init => OptOutInv
BY EmptyTable DEF Init, OptOutInv, AllConsistent, IdleHandler, IdleCancel, IdleJob

\* A run that moves without reading a row keeps the invariant.
LEMMA JobKeepsOptOut ==
  ASSUME TypeOK, OptOutInv, NEW j \in Jobs, NEW next, JobGoes(j, next),
         AllConsistent(subs'), AllConsistent(next.snap),
         next.pc \in {"init", "charge", "charged"} => next.snap[1].autoRenew
  PROVE  OptOutInv'
<1>1. job' = [job EXCEPT ![j] = next] /\ UNCHANGED <<handler, cancel>>
  BY DEF JobGoes
<1>2. \A k \in Jobs : job'[k] = IF k = j THEN next ELSE job[k]
  BY <1>1 DEF TypeOK
<1>3. \A k \in Jobs : /\ AllConsistent(job'[k].snap)
                      /\ job'[k].pc \in {"init", "charge", "charged"} => job'[k].snap[1].autoRenew
  BY <1>2 DEF OptOutInv, Loaded
<1>4. QED
  BY <1>1, <1>3 DEF OptOutInv, Loaded

LEMMA NextOptOut == TypeOK /\ Known /\ OptOutInv /\ [Next]_vars => OptOutInv'
<1> SUFFICES ASSUME TypeOK, Known, OptOutInv, [Next]_vars PROVE OptOutInv'
  OBVIOUS
<1>0. AllConsistent(subs')
  <2>1. TableStep
    BY NextTableStep
  <2>2. QED
    BY <2>1 DEF TableStep, SafeWrite, OptOutInv, AllConsistent
<1>e. AllConsistent(<<>>) /\ AllConsistent(subs)
  BY EmptyTable DEF AllConsistent, OptOutInv
<1>1. CASE Tick \/ BankStep \/ UNCHANGED vars
  <2>1. UNCHANGED <<handler, cancel, job>>
    BY <1>1 DEF Tick, BankStep, Checkout, Settle, vars
  <2>2. QED
    BY <1>0, <2>1 DEF OptOutInv, Loaded
<1>2. CASE WebhookStep
  <2>1. /\ UNCHANGED <<cancel, job>>
        /\ \/ UNCHANGED handler
           \/ \E h \in Handlers : \E r :
                /\ handler' = [handler EXCEPT ![h] = r]
                /\ r.snap = subs \/ r.snap = <<>>
    <3>1. ASSUME NEW h \in Handlers, NEW n \in net, WebhookBegin(h, n)
          PROVE  \E r : handler' = [handler EXCEPT ![h] = r] /\ r.snap = subs
      <4> DEFINE r == [note |-> n, snap |-> subs, stars |-> BalanceSum(bank[n.pid].user)]
      <4>1. handler' = [handler EXCEPT ![h] = r]
        BY <3>1 DEF WebhookBegin
      <4>2. r.snap = subs
        OBVIOUS
      <4>3. QED
        BY <4>1, <4>2
    <3>2. IdleHandler.snap = <<>>
      BY DEF IdleHandler
    <3>3. QED
      BY <1>2, <3>1, <3>2
         DEF WebhookStep, WebhookBegin, WebhookDuplicate, WebhookCommit, WebhookAbort
  <2>2. \A h \in Handlers : AllConsistent(handler'[h].snap)
    BY <1>e, <2>1 DEF OptOutInv, TypeOK
  <2>3. QED
    BY <1>0, <2>1, <2>2 DEF OptOutInv, Loaded
<1>3. CASE CancelStep
  <2>1. PICK u \in Users : CancelBegin(u) \/ CancelCommit(u)
    BY <1>3 DEF CancelStep
  <2>2. /\ UNCHANGED <<handler, job>>
        /\ \E r : cancel' = [cancel EXCEPT ![u] = r] /\ (r.snap = subs \/ r.snap = <<>>)
    <3>1. IdleCancel.snap = <<>>
      BY DEF IdleCancel
    <3>2. QED
      BY <2>1, <3>1 DEF CancelBegin, CancelCommit
  <2>3. \A k \in Users : AllConsistent(cancel'[k].snap)
    BY <1>e, <2>2 DEF OptOutInv, TypeOK
  <2>4. QED
    BY <1>0, <2>2, <2>3 DEF OptOutInv, Loaded
<1>4. CASE JobStep
  <2>1. PICK j \in Jobs :
          \/ JobStart(j) \/ JobExpire(j) \/ JobSelect(j) \/ JobDone(j)
          \/ \E i \in job[j].ids : JobLoad(j, i)
          \/ \E p \in Pids : JobInit(j, p)
          \/ JobCharge(j) \/ JobAccepted(j) \/ JobRefused(j) \/ JobAbort(j)
    BY <1>4 DEF JobStep
  <2>2. /\ AllConsistent(job[j].snap)
        /\ job[j].pc \in {"init", "charge", "charged"} => job[j].snap[1].autoRenew
        /\ job[j] \in Runs
    BY DEF OptOutInv, Loaded, TypeOK
  <2>3. CASE JobStart(j)
    <3>1. JobGoes(j, [IdleJob EXCEPT !.pc = "expire", !.at = now, !.snap = subs])
      BY <2>3 DEF JobStart
    <3>2. QED
      BY <1>0, <1>e, <3>1, JobKeepsOptOut DEF IdleJob
  <2>4. CASE JobExpire(j)
    <3>1. JobGoes(j, [IdleJob EXCEPT !.pc = "select"])
      BY <2>4 DEF JobExpire
    <3>2. QED
      BY <1>0, <1>e, <3>1, JobKeepsOptOut DEF IdleJob
  <2>5. CASE JobSelect(j)
    <3>1. PICK ids : JobGoes(j, [IdleJob EXCEPT !.pc = "loop", !.at = now, !.ids = ids])
      BY <2>5 DEF JobSelect
    <3>2. QED
      BY <1>0, <1>e, <3>1, JobKeepsOptOut DEF IdleJob
  <2>6. CASE JobDone(j) \/ JobAbort(j)
    <3>1. JobGoes(j, IdleJob)
      BY <2>6 DEF JobDone, JobAbort
    <3>2. QED
      BY <1>0, <1>e, <3>1, JobKeepsOptOut DEF IdleJob
  <2>7. ASSUME NEW i \in job[j].ids, JobLoad(j, i) PROVE OptOutInv'
    <3> DEFINE skip == [job[j] EXCEPT !.ids = @ \ {i}]
               take == [job[j] EXCEPT !.pc = "init", !.ids = @ \ {i}, !.sid = i, !.snap = <<subs[i]>>]
    <3>1. job[j].pc = "loop" /\ i \in DOMAIN subs
      BY <2>7 DEF JobLoad, Known
    <3>2. /\ DueForCharge(subs[i], job[j].at) => JobGoes(j, take)
          /\ ~DueForCharge(subs[i], job[j].at) => JobGoes(j, skip)
      BY <2>7 DEF JobLoad
    <3>3. skip.pc = "loop" /\ skip.snap = job[j].snap
      BY <2>2, <3>1 DEF Runs
    <3>4. take.pc = "init" /\ take.snap = <<subs[i]>>
      BY <2>2 DEF Runs
    <3>5. AllConsistent(<<subs[i]>>) /\ <<subs[i]>>[1] = subs[i]
      BY <1>e, <3>1 DEF AllConsistent
    <3> HIDE DEF skip, take
    <3>6. CASE DueForCharge(subs[i], job[j].at)
      BY <1>0, <3>2, <3>4, <3>5, <3>6, JobKeepsOptOut DEF DueForCharge
    <3>7. CASE ~DueForCharge(subs[i], job[j].at)
      BY <1>0, <2>2, <3>2, <3>3, <3>7, JobKeepsOptOut
    <3>8. QED
      BY <3>6, <3>7
  <2>8. ASSUME NEW next, JobGoes(j, next), next.snap = job[j].snap,
               job[j].pc \in {"init", "charge", "charged"}
        PROVE  OptOutInv'
    BY <1>0, <2>2, <2>8, JobKeepsOptOut
  <2>9. ASSUME NEW p \in Pids, JobInit(j, p) PROVE OptOutInv'
    <3>1. job[j].pc = "init" /\ JobGoes(j, [job[j] EXCEPT !.pc = "charge", !.pid = p])
      BY <2>9 DEF JobInit
    <3>2. [job[j] EXCEPT !.pc = "charge", !.pid = p].snap = job[j].snap
      BY <2>2 DEF Runs
    <3>3. QED
      BY <2>8, <3>1, <3>2
  <2>10. CASE JobCharge(j)
    <3>1. job[j].pc = "charge" /\ JobGoes(j, [job[j] EXCEPT !.pc = "charged"])
      BY <2>10 DEF JobCharge
    <3>2. [job[j] EXCEPT !.pc = "charged"].snap = job[j].snap
      BY <2>2 DEF Runs
    <3>3. QED
      BY <2>8, <3>1, <3>2
  <2>11. CASE JobAccepted(j) \/ JobRefused(j)
    <3>1. JobGoes(j, NextRow(j))
      BY <2>11 DEF JobAccepted, JobRefused
    <3>2. NextRow(j).pc = "loop" /\ NextRow(j).snap = <<>>
      BY <2>2 DEF NextRow, Runs
    <3>3. QED
      BY <1>0, <1>e, <3>1, <3>2, JobKeepsOptOut
  <2>12. QED
    BY <2>1, <2>3, <2>4, <2>5, <2>6, <2>7, <2>9, <2>10, <2>11
<1>5. QED
  BY <1>1, <1>2, <1>3, <1>4 DEF Next

LEMMA Invariants == Spec => [](TypeOK /\ Known /\ OptOutInv)
BY InitTyped, NextTyped, InitOptOut, NextOptOut, PTL DEF Spec

\* A renewal run never charges on a row it loaded after the opt-out was
\* committed (run_mit_renewal_charge), however many notifications rewrote the
\* row's state since.
THEOREM OptOutHolds == Spec => []NoChargeAfterOptOut
<1>1. TypeOK /\ Known /\ OptOutInv => NoChargeAfterOptOut
  <2> SUFFICES ASSUME TypeOK, Known, OptOutInv, NEW j \in Jobs,
                      job[j].pc \in {"init", "charge", "charged"}
               PROVE  ~Loaded(j).cancelled
    BY DEF NoChargeAfterOptOut
  <2>1. Loaded(j).autoRenew
    BY DEF OptOutInv
  <2>2. Loaded(j) \in Rows
    BY LoadedType
  <2>3. OptOutConsistent(Loaded(j))
    BY DEF OptOutInv, AllConsistent, Known, Loaded
  <2>4. QED
    BY <2>1, <2>2, <2>3 DEF OptOutConsistent, Rows
<1>2. QED
  BY <1>1, Invariants, PTL

\* A superseded or expired row stays so: a session that loaded it earlier
\* writes only the columns it changed, and none changes a status to active.
THEOREM SupersededForGood == Spec => NoResurrection
<1>1. TypeOK /\ Known /\ OptOutInv /\ [Next]_vars =>
        [\A i \in DOMAIN subs : subs[i].status = "superseded" => subs'[i].status = "superseded"]_vars
  BY NextTableStep DEF TableStep, SafeWrite
<1>2. QED
  BY <1>1, Invariants, PTL DEF Spec, NoResurrection

\* The JSON column of a row is never rewritten, so the guard of
\* run_renewal_charges against a pending charge never holds a charge back.
THEOREM MetaIsFinal == Spec => MetaNeverRewritten
<1>1. TypeOK /\ Known /\ OptOutInv /\ [Next]_vars =>
        [\A i \in DOMAIN subs : subs'[i].meta = subs[i].meta]_vars
  BY NextTableStep DEF TableStep, SafeWrite
<1>2. QED
  BY <1>1, Invariants, PTL DEF Spec, MetaNeverRewritten
=============================================================================
