------------------------- MODULE TbankLedger_proofs -------------------------
(***************************************************************************)
(* What TbankBilling does with money and time, for every set of users,     *)
(* payments, requests and cron runs, and every length of the period: a     *)
(* payment is applied once and never lost, time is given only for payments *)
(* that went through, and access is not taken away early.                  *)
(***************************************************************************)
EXTENDS TbankBilling_proofs

\* A request that handles a success.
Paying(h) == IsPaymentSuccess(handler[h].note)

\* A notification of a success is about a payment that was charged and went through.
Truthful(n) == IsPaymentSuccess(n) => bank[n.pid].charged /\ n.pid \in Settled

\* The unique key of billing_events at work: a payment on record is in no
\* request, and one that is not is in one request at most.
OnePerPayment ==
  /\ \A h \in Handlers : Paying(h) => handler[h].note.pid \notin Recorded
  /\ \A h, k \in Handlers :
       Paying(h) /\ Paying(k) /\ handler[h].note.pid = handler[k].note.pid => h = k

PaymentInv ==
  /\ \A n \in net : Truthful(n)
  /\ \A h \in Handlers : Truthful(handler[h].note)
  /\ \A p \in DOMAIN bank : bank[p].kind = Renewal => bank[p].plan \in PlusPlans
  /\ OnePerPayment
  /\ GrantIsPaidFor

\* What a request loaded is an earlier state of the table.
Behind(snap) ==
  /\ DOMAIN snap \subseteq DOMAIN subs
  /\ \A i \in DOMAIN snap :
       /\ snap[i].user = subs[i].user /\ snap[i].meta = subs[i].meta
       /\ subs[i].status = "active" => snap[i].status = "active"

SnapshotInv == \A h \in Handlers : Behind(handler[h].snap)

\* The payments that paid for a row.
Grants(i) == {p \in Pids : granted[p] = i}

\* A row the way the database or a request has it ends no later than was paid for.
PaidUntil(i) == now + Period * Cardinality(Grants(i))

Covered(rows) == \A i \in DOMAIN rows : rows[i].expires <= PaidUntil(i)

TimeInv ==
  /\ IsFiniteSet(Recorded)
  /\ Covered(subs)
  /\ \A h \in Handlers : Covered(handler[h].snap)

\* An item exists only for a payment on record.
ItemInv == \A p \in Pids : RowsOf(p) # {} \/ TopupsOf(p) # {} => p \in Recorded

\* The active rows of a user from r on, and the requests that loaded none of them.
ActiveFrom(u, r) == {i \in Active(subs, u) : i >= r}
Unaware(r) == {h \in Handlers : Busy(h) /\ Len(handler[h].snap) < r}

CrowdInv ==
  \A u \in Users, r \in Nat :
    Cardinality(ActiveFrom(u, r)) + Cardinality(Unaware(r)) <= Cardinality(Handlers)

-----------------------------------------------------------------------------
(* What a step does to the time of the rows and to the grants.             *)

\* No row gains or loses time.
Quiet ==
  /\ granted' = granted
  /\ DOMAIN subs' = DOMAIN subs
  /\ \A k \in DOMAIN subs : subs'[k].expires = subs[k].expires

\* Payment p renews row i, loaded as part of snap.
Renews(p, i, snap) ==
  /\ granted' = [granted EXCEPT ![p] = i]
  /\ DOMAIN subs' = DOMAIN subs
  /\ i \in DOMAIN snap
  /\ \A k \in DOMAIN subs :
       \/ subs'[k].expires = subs[k].expires
       \/ k = i /\ subs'[k].expires = Later(snap[k].expires, now) + Period

\* Payment p buys a new row.
Buys(p) ==
  /\ granted' = [granted EXCEPT ![p] = Len(subs) + 1]
  /\ DOMAIN subs' = 1..(Len(subs) + 1)
  /\ \A k \in DOMAIN subs : subs'[k].expires = subs[k].expires
  /\ \E rebill \in Rebills :
       subs'[Len(subs) + 1] = NewRow(bank[p].user, bank[p].plan, p, rebill, now)

LEMMA NoteTypes ==
  ASSUME TypeOK, NEW n \in Notes, n.pid \in DOMAIN bank
  PROVE  /\ bank[n.pid] \in Payments /\ n.pid \in Pids
         /\ subs \in Seq(Rows) /\ now \in Nat /\ now \in Int
<1>1. now \in 0..MaxTime
  BY DEF TypeOK
<1>2. now \in Nat
  BY <1>1, BillingAssumption
<1>3. bank[n.pid] \in Payments
  BY DEF TypeOK
<1>4. n.pid \in Pids
  BY DEF Notes
<1>5. subs \in Seq(Rows)
  BY DEF TypeOK
<1>6. QED
  BY <1>2, <1>3, <1>4, <1>5

\* apply_successful_renewal gives one row one period, counted from the end that
\* the request loaded.
LEMMA RenewalShape ==
  ASSUME TypeOK, NEW n \in Notes, n.pid \in DOMAIN bank, NEW snap \in Seq(Rows),
         ApplySuccessfulRenewal(n, snap)
  PROVE  Quiet \/ \E i \in DOMAIN snap : Renews(n.pid, i, snap)
<1> DEFINE pay == bank[n.pid]
           edited == ExtendLatest(snap, pay.user, pay.plan, n.pid, now)
           due(i) == IsLatest(snap, pay.user, pay.plan, i) /\ snap[i].meta.last # n.pid
<1>0. subs \in Seq(Rows) /\ subs' = Save(subs, snap, edited)
  BY DEF TypeOK, ApplySuccessfulRenewal
<1>1. \A i \in DOMAIN subs : subs[i] \in Rows
  BY <1>0, ElementOfSeq, LenProperties
<1>2. \A i \in DOMAIN snap : snap[i] \in Rows
  BY ElementOfSeq, LenProperties
<1>3. \A i \in DOMAIN snap :
        edited[i].expires = IF due(i) THEN Later(snap[i].expires, now) + Period ELSE snap[i].expires
  BY <1>2 DEF ExtendLatest, Renewed, Rows
<1>4. CASE \E i \in DOMAIN snap : due(i) /\ granted' = [granted EXCEPT ![n.pid] = i]
  <2>1. PICK i \in DOMAIN snap : due(i) /\ granted' = [granted EXCEPT ![n.pid] = i]
    BY <1>4
  <2>2. \A k \in DOMAIN snap : due(k) => k = i
    <3>1. \A k \in DOMAIN snap : k \in Int
      BY LenProperties
    <3>2. QED
      BY <2>1, <3>1 DEF IsLatest
  <2>3. \A k \in DOMAIN subs :
          \/ subs'[k].expires = subs[k].expires
          \/ k = i /\ subs'[k].expires = Later(snap[k].expires, now) + Period
    BY <1>0, <1>1, <1>3, <2>2, WrittenColumns DEF Save, Column
  <2>4. QED
    BY <1>0, <2>1, <2>3 DEF Renews, Save
<1>5. CASE (\A i \in DOMAIN snap : ~due(i)) /\ UNCHANGED granted
  BY <1>0, <1>3, <1>5, SaveKeepsTime DEF Quiet
<1>6. QED
  BY <1>4, <1>5 DEF ApplySuccessfulRenewal, IsLatest

LEMMA ActivationShape ==
  ASSUME TypeOK, NEW n \in Notes, n.pid \in DOMAIN bank, bank[n.pid].plan \in PlusPlans,
         NEW snap \in Seq(Rows), Activate(n, snap)
  PROVE  IF ActivatedBy(snap, bank[n.pid].user, n.pid)
         THEN UNCHANGED <<subs, granted>> ELSE Buys(n.pid)
<1> DEFINE pay == bank[n.pid]
           edited == SupersedeAll(snap, pay.user)
           saved == Save(subs, snap, edited)
<1>1. CASE ActivatedBy(snap, pay.user, n.pid)
  BY <1>1 DEF Activate
<1>2. CASE ~ActivatedBy(snap, pay.user, n.pid)
  <2>a. PICK rebill \in Rebills :
          /\ subs' = Append(saved, NewRow(pay.user, pay.plan, n.pid, rebill, now))
          /\ granted' = [granted EXCEPT ![n.pid] = Len(subs) + 1]
    BY <1>2 DEF Activate
  <2> DEFINE row == NewRow(pay.user, pay.plan, n.pid, rebill, now)
  <2>0. subs \in Seq(Rows) /\ pay \in Payments /\ n.pid \in Pids /\ now \in Int
    BY NoteTypes
  <2>1. edited \in Seq(Rows) /\ DOMAIN edited = DOMAIN snap
    BY SupersedeAllType
  <2>2. saved \in Seq(Rows) /\ DOMAIN saved = DOMAIN subs /\ Len(saved) = Len(subs)
    BY <2>0, <2>1, SaveType
  <2>3. \A k \in DOMAIN subs : saved[k].expires = subs[k].expires
    <3>1. \A i \in DOMAIN snap : edited[i].expires = snap[i].expires
      BY OperationsKeepTime
    <3> HIDE DEF edited
    <3>2. QED
      BY <2>0, <3>1, SaveKeepsTime
  <2>4. row \in Rows
    BY <2>0, NewRowType, BillingAssumption DEF Payments
  <2>5. subs' = Append(saved, row)
    BY <2>a
  <2>6. granted' = [granted EXCEPT ![n.pid] = Len(subs) + 1]
    BY <2>a
  <2> HIDE DEF saved, row
  <2>7. /\ Len(subs) \in Nat /\ DOMAIN subs = 1..Len(subs)
        /\ subs' \in Seq(Rows) /\ DOMAIN subs' = 1..(Len(subs) + 1)
        /\ \A k \in DOMAIN subs : subs'[k] = saved[k]
        /\ subs'[Len(subs) + 1] = row
    BY <2>0, <2>2, <2>4, <2>5, AppendProperties, LenProperties
  <2>8. \A k \in DOMAIN subs : subs'[k].expires = subs[k].expires
    BY <2>3, <2>7
  <2> USE DEF row
  <2>9. Buys(n.pid)
    BY <2>6, <2>7, <2>8 DEF Buys
  <2>10. QED
    BY <1>2, <2>9
<1>3. QED
  BY <1>1, <1>2

\* What the commit of a notification does, by what the notification is about.
CommitShape(n, snap, balance) ==
  \/ ~IsPaymentSuccess(n) /\ Quiet /\ UNCHANGED ledger
  \/ /\ IsPaymentSuccess(n) /\ bank[n.pid].plan = StarsTopup
     /\ UNCHANGED <<subs, granted>> /\ CreditTopup(n, balance)
  \/ /\ IsPaymentSuccess(n) /\ IsRenewal(n) /\ UNCHANGED ledger
     /\ Quiet \/ \E i \in DOMAIN snap : Renews(n.pid, i, snap)
  \/ /\ IsPaymentSuccess(n) /\ bank[n.pid].kind = Initial /\ bank[n.pid].plan \in PlusPlans
     /\ UNCHANGED ledger
     /\ IF ActivatedBy(snap, bank[n.pid].user, n.pid)
        THEN UNCHANGED <<subs, granted>> ELSE Buys(n.pid)

LEMMA ApplyShape ==
  ASSUME TypeOK, NEW n \in Notes, n.pid \in DOMAIN bank, NEW snap \in Seq(Rows),
         NEW balance, ApplyNote(n, snap, balance)
  PROVE  CommitShape(n, snap, balance)
<1>0. bank[n.pid] \in Payments /\ subs \in Seq(Rows)
  BY NoteTypes
<1>1. CASE IsPaymentSuccess(n)
  <2>1. ApplyPaid(n, snap, balance)
    BY <1>1 DEF ApplyNote, Branch
  <2>2. CASE bank[n.pid].plan = StarsTopup
    <3>1. ~IsRenewal(n)
      BY <2>2 DEF IsRenewal, PlusPlans, StarsTopup, ConsumerPlus, BusinessMarketer
    <3>2. QED
      BY <1>1, <2>1, <2>2, <3>1 DEF ApplyPaid, CommitShape
  <2>3. CASE bank[n.pid].plan # StarsTopup /\ IsRenewal(n)
    <3>1. ApplySuccessfulRenewal(n, snap) /\ UNCHANGED ledger
      BY <2>1, <2>3 DEF ApplyPaid
    <3>2. QED
      BY <1>1, <2>3, <3>1, RenewalShape DEF CommitShape
  <2>4. CASE bank[n.pid].plan # StarsTopup /\ ~IsRenewal(n)
    <3>1. Activate(n, snap) /\ UNCHANGED ledger
      BY <2>1, <2>4 DEF ApplyPaid
    <3>2. bank[n.pid].plan \in PlusPlans /\ bank[n.pid].kind = Initial
      BY <1>0, <2>4 DEF Payments, Plans, IsRenewal
    <3>3. QED
      BY <1>1, <3>1, <3>2, ActivationShape DEF CommitShape
  <2>5. QED
    BY <2>2, <2>3, <2>4
<1>2. CASE ~IsPaymentSuccess(n)
  <2>1. CASE UNCHANGED <<subs, ledger, granted>>
    BY <1>2, <2>1 DEF CommitShape, Quiet
  <2>2. CASE ApplyRenewalFailure(n, snap)
    BY <1>0, <1>2, <2>2, OperationsKeepTime, SaveKeepsTime DEF ApplyRenewalFailure, CommitShape, Quiet
  <2>3. QED
    BY <1>2, <2>1, <2>2 DEF ApplyNote, Branch
<1>3. QED
  BY <1>1, <1>2

\* Every other step leaves events, ledger, grants and ends of periods alone.
LEMMA OtherShape ==
  ASSUME TypeOK, Known, [Next]_vars, \A h \in Handlers : ~WebhookCommit(h)
  PROVE  Quiet /\ UNCHANGED <<events, ledger>>
<1>0. subs \in Seq(Rows)
  BY DEF TypeOK
<1>1. CASE UNCHANGED subs /\ UNCHANGED <<events, ledger, granted>>
  BY <1>1 DEF Quiet
<1>2. ASSUME NEW u \in Users, CancelCommit(u) PROVE Quiet /\ UNCHANGED <<events, ledger>>
  <2>1. cancel[u].snap \in Seq(Rows)
    BY DEF TypeOK
  <2>2. \A i \in DOMAIN cancel[u].snap : CancelAll(cancel[u].snap, u)[i].expires = cancel[u].snap[i].expires
    BY <2>1, OperationsKeepTime
  <2>3. QED
    BY <1>0, <1>2, <2>2, SaveKeepsTime DEF CancelCommit, Quiet
<1>3. ASSUME NEW j \in Jobs, JobExpire(j) PROVE Quiet /\ UNCHANGED <<events, ledger>>
  <2>1. job[j].snap \in Seq(Rows)
    BY DEF TypeOK, Runs
  <2>2. \A i \in DOMAIN job[j].snap :
          ExpireOverdue(job[j].snap, job[j].at)[i].expires = job[j].snap[i].expires
    BY <2>1, OperationsKeepTime
  <2>3. QED
    BY <1>0, <1>3, <2>2, SaveKeepsTime DEF JobExpire, JobGoes, Quiet
<1>4. ASSUME NEW j \in Jobs, JobRefused(j) PROVE Quiet /\ UNCHANGED <<events, ledger>>
  <2>1. job[j].pc \in {"init", "charge", "charged"}
        /\ subs' = Save(subs, SessionRows(j), FailedRows(j))
        /\ UNCHANGED <<events, ledger, granted>>
    BY <1>4 DEF JobRefused, JobFailure, JobGoes
  <2>2. SessionRows(j) \in Seq(Rows) /\ DOMAIN SessionRows(j) = DOMAIN subs
    BY <2>1, SessionTypes
  <2>3. \A i \in DOMAIN subs : SessionRows(j)[i] \in Rows
    BY <2>2, ElementOfSeq, LenProperties
  <2>4. \A i \in DOMAIN subs : FailedRows(j)[i].expires = SessionRows(j)[i].expires
    BY <2>3, EditsKeepTime DEF FailedRows
  <2>5. QED
    BY <1>0, <2>1, <2>2, <2>4, SaveKeepsTime DEF Quiet
<1>5. ASSUME NEW j \in Jobs, JobAccepted(j) PROVE Quiet /\ UNCHANGED <<events, ledger>>
  <2> DEFINE sid == job[j].sid
  <2>1. /\ job[j].pc = "charged" /\ UNCHANGED <<events, ledger, granted>>
        /\ subs' = [subs EXCEPT ![sid] = Written(subs[sid], Loaded(j), RenewalDue(Loaded(j), job[j].pid))]
    BY <1>5 DEF JobAccepted, JobGoes
  <2>2. Loaded(j) \in Rows /\ sid \in DOMAIN subs
    BY <2>1, LoadedType
  <2>3. subs[sid] \in Rows
    BY <1>0, <2>2, ElementOfSeq, LenProperties
  <2>4. Written(subs[sid], Loaded(j), RenewalDue(Loaded(j), job[j].pid)).expires = subs[sid].expires
    BY <2>2, <2>3, EditsKeepTime, WrittenColumns DEF Column
  <2>5. QED
    BY <2>1, <2>2, <2>4 DEF Quiet
<1>6. QED
  <2>1. CASE Tick
    BY <1>1, <2>1 DEF Tick, database
  <2>2. CASE BankStep
    BY <1>1, <2>2 DEF BankStep, Checkout, Settle, database
  <2>3. CASE WebhookStep
    BY <1>1, <2>3 DEF WebhookStep, WebhookBegin, WebhookDuplicate, WebhookAbort, database
  <2>4. CASE CancelStep
    BY <1>1, <1>2, <2>4 DEF CancelStep, CancelBegin, database
  <2>5. CASE JobStep
    BY <1>1, <1>3, <1>4, <1>5, <2>5
       DEF JobStep, JobStart, JobSelect, JobDone, JobLoad, JobInit, JobCharge, JobAbort, JobGoes
  <2>6. CASE UNCHANGED vars
    BY <1>1, <2>6 DEF vars
  <2>7. QED
    BY <2>1, <2>2, <2>3, <2>4, <2>5, <2>6 DEF Next

-----------------------------------------------------------------------------
(* A payment is granted once, and only when it went through.               *)

\* The key of a success is the PaymentId; no other key can be taken for one.
LEMMA KeyOf ==
  ASSUME NEW n
  PROVE  /\ IsPaymentSuccess(n) => Key(n) = PaidKey(n.pid)
         /\ ~IsPaymentSuccess(n) => \A p : Key(n) # PaidKey(p)
BY DEF Key, PaidKey, Branch

LEMMA PaidKeyIsOwn == ASSUME NEW p, NEW q, PaidKey(p) = PaidKey(q) PROVE p = q
<1>1. PaidKey(p).pid = p /\ PaidKey(q).pid = q
  BY DEF PaidKey
<1>2. QED
  BY <1>1

\* T-Bank forgets nothing: a payment keeps its owner, plan and kind, a charge is
\* not undone, and what went through stays so (refunds apart, which end it).
BankGrows ==
  /\ DOMAIN bank \subseteq DOMAIN bank'
  /\ Settled \subseteq Settled'
  /\ \A p \in DOMAIN bank :
       /\ bank'[p].user = bank[p].user /\ bank'[p].plan = bank[p].plan
       /\ bank'[p].kind = bank[p].kind
       /\ bank[p].charged => bank'[p].charged
  /\ \A p \in DOMAIN bank' \ DOMAIN bank :
       bank'[p].kind = Renewal => bank'[p].plan \in PlusPlans

LEMMA IssueGrows ==
  ASSUME TypeOK, NEW p, NEW u, NEW plan, NEW kind, Issue(p, u, plan, kind),
         kind = Renewal => plan \in PlusPlans
  PROVE  BankGrows
<1>1. p \notin DOMAIN bank
  BY DEF Issue
<1>2. bank' = [q \in DOMAIN bank \cup {p} |->
                 IF q = p THEN [status |-> "open", charged |-> kind = Initial,
                                user |-> u, plan |-> plan, kind |-> kind]
                 ELSE bank[q]]
  BY DEF Issue
<1>3. DOMAIN bank' = DOMAIN bank \cup {p} /\ \A q \in DOMAIN bank : bank'[q] = bank[q]
  BY <1>1, <1>2
<1>4. bank'[p].kind = kind /\ bank'[p].plan = plan
  BY <1>2
<1>5. Settled \subseteq Settled'
  BY <1>3 DEF Settled
<1>6. QED
  BY <1>3, <1>4, <1>5 DEF BankGrows

LEMMA BankSteps == ASSUME TypeOK, Known, [Next]_vars PROVE BankGrows
<1>0. bank \in [DOMAIN bank -> Payments]
  BY DEF TypeOK
<1>1. CASE UNCHANGED bank
  BY <1>1 DEF BankGrows, Settled
<1>2. ASSUME NEW u \in Users, NEW plan \in Offered, NEW p \in Pids, Checkout(u, plan, p)
      PROVE  BankGrows
  <2>1. Issue(p, u, plan, Initial)
    BY <1>2 DEF Checkout
  <2>2. QED
    BY <2>1, IssueGrows DEF Initial, Renewal
<1>3. ASSUME NEW p \in Pids, NEW s \in Statuses, Settle(p, s) PROVE BankGrows
  <2>1. /\ p \in DOMAIN bank /\ bank[p] \in Payments /\ Settles(bank[p].status, s)
        /\ bank' = [bank EXCEPT ![p].status = s]
    BY <1>0, <1>3 DEF Settle
  <2>2. \A q \in DOMAIN bank : q # p => bank'[q] = bank[q]
    BY <1>0, <2>1
  <2>3. /\ bank'[p].status = s /\ bank'[p].user = bank[p].user /\ bank'[p].plan = bank[p].plan
        /\ bank'[p].kind = bank[p].kind /\ bank'[p].charged = bank[p].charged
    BY <1>0, <2>1 DEF Payments
  <2>4. DOMAIN bank' = DOMAIN bank
    BY <2>1
  <2>5. Settled \subseteq Settled'
    BY <2>1, <2>2, <2>3, <2>4 DEF Settled, Settles
  <2>6. QED
    BY <2>2, <2>3, <2>4, <2>5 DEF BankGrows
<1>4. ASSUME NEW j \in Jobs, NEW p \in Pids, JobInit(j, p) PROVE BankGrows
  <2>1. Issue(p, Loaded(j).user, Loaded(j).plan, Renewal) /\ job[j].pc = "init"
    BY <1>4 DEF JobInit
  <2>2. Loaded(j) \in Rows
    BY <2>1, LoadedType
  <2>3. Loaded(j).plan \in PlusPlans
    BY <2>2 DEF Rows
  <2>4. QED
    BY <2>1, <2>3, IssueGrows
<1>5. ASSUME NEW j \in Jobs, JobCharge(j) PROVE BankGrows
  <2> DEFINE p == job[j].pid
  <2>1. p \in DOMAIN bank /\ bank' = [bank EXCEPT ![p].charged = TRUE]
    BY <1>5 DEF JobCharge, Known
  <2>2. bank[p] \in Payments
    BY <1>0, <2>1
  <2>3. \A q \in DOMAIN bank : q # p => bank'[q] = bank[q]
    BY <1>0, <2>1
  <2>4. /\ bank'[p].charged = TRUE /\ bank'[p].user = bank[p].user /\ bank'[p].plan = bank[p].plan
        /\ bank'[p].kind = bank[p].kind /\ bank'[p].status = bank[p].status
    BY <1>0, <2>1, <2>2 DEF Payments
  <2>5. DOMAIN bank' = DOMAIN bank
    BY <2>1
  <2> HIDE DEF p
  <2>6. Settled \subseteq Settled'
    BY <2>3, <2>4, <2>5 DEF Settled
  <2>7. QED
    BY <2>3, <2>4, <2>5, <2>6 DEF BankGrows
<1>6. QED
  <2>1. CASE JobStep
    BY <1>1, <1>4, <1>5, <2>1
       DEF JobStep, JobStart, JobExpire, JobSelect, JobDone, JobLoad, JobAccepted, JobRefused, JobAbort
  <2>2. CASE Tick \/ WebhookStep \/ CancelStep \/ UNCHANGED vars
    BY <1>1, <2>2 DEF Tick, WebhookStep, WebhookBegin, WebhookDuplicate, WebhookCommit,
                      WebhookAbort, CancelStep, CancelBegin, CancelCommit, vars
  <2>3. CASE BankStep
    BY <1>2, <1>3, <2>3 DEF BankStep
  <2>4. QED
    BY <2>1, <2>2, <2>3 DEF Next

\* What a request holds is what it held, is nothing, or was just loaded.
LEMMA HandlerMoves ==
  ASSUME TypeOK, [Next]_vars
  PROVE  \/ handler' = handler
         \/ \E h \in Handlers :
              /\ handler' = [handler EXCEPT ![h] = IdleHandler]
              /\ WebhookCommit(h) \/ WebhookAbort(h)
         \/ \E h \in Handlers, n \in net : WebhookBegin(h, n)
BY DEF Next, Tick, BankStep, Checkout, Settle, WebhookStep, WebhookDuplicate, WebhookCommit,
       WebhookAbort, CancelStep, CancelBegin, CancelCommit, JobStep, JobStart, JobExpire,
       JobSelect, JobDone, JobLoad, JobInit, JobCharge, JobAccepted, JobRefused, JobAbort,
       JobGoes, vars

LEMMA NotesHeld ==
  ASSUME TypeOK, [Next]_vars, NEW h \in Handlers
  PROVE  \/ handler'[h] = handler[h]
         \/ handler'[h].note = NoNote
         \/ \E n \in net : WebhookBegin(h, n) /\ handler'[h].note = n
<1>0. handler = [k \in Handlers |-> handler[k]]
  BY DEF TypeOK
<1>1. ASSUME NEW k \in Handlers, handler' = [handler EXCEPT ![k] = IdleHandler]
      PROVE  handler'[h] = handler[h] \/ handler'[h].note = NoNote
  BY <1>0, <1>1 DEF IdleHandler
<1>2. ASSUME NEW k \in Handlers, NEW n \in net, WebhookBegin(k, n)
      PROVE  handler'[h] = handler[h] \/ (k = h /\ handler'[h].note = n)
  BY <1>0, <1>2 DEF WebhookBegin
<1>3. QED
  BY <1>1, <1>2, HandlerMoves

LEMMA NetMoves ==
  ASSUME [Next]_vars
  PROVE  net' \subseteq net \/ \E p \in Pids, s \in Statuses : Settle(p, s)
BY DEF Next, Tick, BankStep, Checkout, WebhookStep, WebhookBegin, WebhookDuplicate,
       WebhookCommit, WebhookAbort, Answer, CancelStep, CancelBegin, CancelCommit, JobStep,
       JobStart, JobExpire, JobSelect, JobDone, JobLoad, JobInit, JobCharge, JobAccepted,
       JobRefused, JobAbort, JobGoes, vars

\* billing_events grows by the payment whose success is committed, and only so.
LEMMA RecordedMoves ==
  ASSUME TypeOK, Known, [Next]_vars
  PROVE  \/ events' = events /\ Recorded' = Recorded /\ \A h \in Handlers : ~WebhookCommit(h)
         \/ \E h \in Handlers :
              /\ WebhookCommit(h)
              /\ events' = events \cup {Key(handler[h].note)}
              /\ Recorded' = IF Paying(h) THEN Recorded \cup {handler[h].note.pid} ELSE Recorded
<1>1. CASE \A h \in Handlers : ~WebhookCommit(h)
  BY <1>1, OtherShape DEF Recorded
<1>2. ASSUME NEW h \in Handlers, WebhookCommit(h)
      PROVE  /\ events' = events \cup {Key(handler[h].note)}
             /\ Recorded' = IF Paying(h) THEN Recorded \cup {handler[h].note.pid} ELSE Recorded
  <2> DEFINE n == handler[h].note
  <2>1. events' = events \cup {Key(n)}
    BY <1>2 DEF WebhookCommit
  <2>2. n \in Notes
    BY <1>2 DEF WebhookCommit, Busy, TypeOK
  <2>3. n.pid \in Pids
    BY <2>2 DEF Notes
  <2> HIDE DEF n
  <2>4. Recorded' = IF IsPaymentSuccess(n) THEN Recorded \cup {n.pid} ELSE Recorded
    BY <2>1, <2>3, KeyOf, PaidKeyIsOwn DEF Recorded
  <2> USE DEF n
  <2>5. QED
    BY <2>1, <2>4 DEF Paying
<1>3. QED
  BY <1>1, <1>2

\* What a commit may grant: nothing, or the payment it handles.
LEMMA GrantMoves ==
  ASSUME TypeOK, Known, [Next]_vars, NEW p \in Pids, granted'[p] # granted[p]
  PROVE  \E h \in Handlers : WebhookCommit(h) /\ Paying(h) /\ p = handler[h].note.pid
<1>1. granted \in [Pids -> Nat]
  BY DEF TypeOK
<1>2. PICK h \in Handlers : WebhookCommit(h)
  BY OtherShape DEF Quiet
<1>3. /\ handler[h].note \in Notes /\ handler[h].note.pid \in DOMAIN bank
      /\ handler[h].snap \in Seq(Rows)
      /\ ApplyNote(handler[h].note, handler[h].snap, handler[h].stars)
  BY <1>2 DEF WebhookCommit, Busy, TypeOK, Known
<1>4. CommitShape(handler[h].note, handler[h].snap, handler[h].stars)
  BY <1>3, ApplyShape
<1>5. QED
  BY <1>1, <1>2, <1>4 DEF CommitShape, Quiet, Renews, Buys, Paying

LEMMA InitPayment == Init => PaymentInv
BY DEF Init, PaymentInv, OnePerPayment, GrantIsPaidFor, Truthful, Paying, IdleHandler, NoNote,
       IsPaymentSuccess

LEMMA NextPayment == TypeOK /\ Known /\ PaymentInv /\ [Next]_vars => PaymentInv'
<1> SUFFICES ASSUME TypeOK, Known, PaymentInv, [Next]_vars PROVE PaymentInv'
  OBVIOUS
<1>1. BankGrows
  BY BankSteps
<1>2. \A n : n.pid \in DOMAIN bank /\ Truthful(n) => Truthful(n)'
  BY <1>1 DEF BankGrows, Truthful
<1>3. ~IsPaymentSuccess(NoNote)
  BY DEF IsPaymentSuccess, NoNote
<1>4. \A n \in net' : Truthful(n)'
  <2>1. CASE net' \subseteq net
    BY <1>2, <2>1 DEF PaymentInv, Known
  <2>2. ASSUME NEW p \in Pids, NEW s \in Statuses, Settle(p, s) PROVE \A n \in net' : Truthful(n)'
    <3> DEFINE new == [pid |-> p, status |-> s]
    <3>1. /\ p \in DOMAIN bank /\ bank[p].charged
          /\ bank' = [bank EXCEPT ![p].status = s] /\ net' = net \cup {new}
      BY <2>2 DEF Settle
    <3>2. bank[p] \in Payments
      BY <3>1 DEF TypeOK
    <3>3. bank'[p].status = s /\ p \in DOMAIN bank'
      BY <3>1, <3>2 DEF Payments
    <3>4. bank'[p].charged
      BY <1>1, <3>1 DEF BankGrows
    <3>5. Truthful(new)'
      BY <3>3, <3>4 DEF Truthful, IsPaymentSuccess, Settled
    <3> HIDE DEF new
    <3>6. QED
      BY <1>2, <3>1, <3>5 DEF PaymentInv, Known
  <2>3. QED
    BY <2>1, <2>2, NetMoves
<1>5. \A h \in Handlers : Busy(h) => handler[h].note.pid \in DOMAIN bank
  BY DEF Known
<1>6. \A h \in Handlers :
        \/ handler'[h] = handler[h]
        \/ handler'[h].note = NoNote
        \/ \E n \in net : WebhookBegin(h, n) /\ handler'[h].note = n
  BY NotesHeld
<1>7. (\A h \in Handlers : Truthful(handler[h].note))'
  <2> SUFFICES ASSUME NEW h \in Handlers, NEW n, n = handler'[h].note PROVE Truthful(n)'
    BY DEF Truthful
  <2>1. CASE n = handler[h].note
    BY <1>2, <1>3, <1>5, <2>1 DEF PaymentInv, Busy, Truthful
  <2>2. CASE n = NoNote
    BY <1>3, <2>2 DEF Truthful
  <2>3. CASE n \in net
    BY <1>2, <2>3 DEF PaymentInv, Known
  <2>4. QED
    BY <1>6, <2>1, <2>2, <2>3
<1>8. \A p \in DOMAIN bank' : bank'[p].kind = Renewal => bank'[p].plan \in PlusPlans
  BY <1>1 DEF BankGrows, PaymentInv
<1>9. OnePerPayment'
  <2>1. ASSUME NEW h \in Handlers, NEW n \in net, WebhookBegin(h, n) PROVE OnePerPayment'
    <3>1. /\ handler'[h].note = n /\ \A k \in Handlers : k # h => handler'[k] = handler[k]
          /\ Key(n) \notin events /\ ~Locked(Key(n)) /\ Recorded' = Recorded
      BY <2>1 DEF WebhookBegin, TypeOK, Recorded, database
    <3>2. IsPaymentSuccess(n) => n.pid \notin Recorded
      BY <3>1, KeyOf DEF Recorded
    <3>3. \A k \in Handlers : IsPaymentSuccess(n) /\ Paying(k) => handler[k].note.pid # n.pid
      BY <1>3, <3>1, KeyOf DEF Locked, Busy, Paying
    <3>4. QED
      BY <3>1, <3>2, <3>3 DEF PaymentInv, OnePerPayment, Paying
  <2>2. ASSUME NEW h \in Handlers, handler' = [handler EXCEPT ![h] = IdleHandler],
               WebhookCommit(h) \/ WebhookAbort(h)
        PROVE  OnePerPayment'
    <3>1. /\ ~Paying(h)' /\ \A k \in Handlers : k # h => handler'[k] = handler[k]
      BY <1>3, <2>2 DEF Paying, IdleHandler, TypeOK
    <3>2. Recorded' \subseteq IF Paying(h) THEN Recorded \cup {handler[h].note.pid} ELSE Recorded
      <4>1. CASE WebhookAbort(h)
        BY <4>1 DEF WebhookAbort, Recorded, database
      <4>2. CASE WebhookCommit(h)
        <5> DEFINE n == handler[h].note
        <5>1. events' = events \cup {Key(n)}
          BY <4>2 DEF WebhookCommit
        <5> HIDE DEF n
        <5>2. Recorded' \subseteq IF IsPaymentSuccess(n) THEN Recorded \cup {n.pid} ELSE Recorded
          BY <5>1, KeyOf, PaidKeyIsOwn DEF Recorded
        <5> USE DEF n
        <5>3. QED
          BY <5>2 DEF Paying
      <4>3. QED
        BY <2>2, <4>1, <4>2
    <3>3. QED
      BY <3>1, <3>2 DEF PaymentInv, OnePerPayment, Paying
  <2>3. CASE handler' = handler /\ Recorded' = Recorded
    BY <2>3 DEF PaymentInv, OnePerPayment, Paying
  <2>4. CASE handler' = handler /\ Recorded' # Recorded
    <3>1. PICK h \in Handlers : WebhookCommit(h)
      BY <2>4, RecordedMoves
    <3>2. handler' = [handler EXCEPT ![h] = IdleHandler]
      BY <3>1 DEF WebhookCommit
    <3>3. QED
      BY <2>2, <3>1, <3>2
  <2>5. QED
    BY <2>1, <2>2, <2>3, <2>4, HandlerMoves
<1>10. GrantIsPaidFor'
  <2> SUFFICES ASSUME NEW p \in Pids, granted'[p] # 0
               PROVE  p \in Recorded' /\ p \in DOMAIN bank' /\ bank'[p].charged /\ p \in Settled'
    BY DEF GrantIsPaidFor, Settled
  <2>1. Recorded \subseteq Recorded'
    BY RecordedMoves
  <2>2. CASE granted[p] # 0
    <3>1. p \in Recorded /\ p \in DOMAIN bank /\ bank[p].charged /\ p \in Settled
      BY <2>2 DEF PaymentInv, GrantIsPaidFor, Settled
    <3>2. QED
      BY <1>1, <2>1, <3>1 DEF BankGrows
  <2>3. CASE granted[p] = 0
    <3>1. PICK h \in Handlers : WebhookCommit(h) /\ Paying(h) /\ p = handler[h].note.pid
      BY <2>3, GrantMoves
    <3>2. p \in DOMAIN bank /\ bank[p].charged /\ p \in Settled
      BY <1>3, <1>5, <3>1 DEF PaymentInv, Truthful, Paying, Busy
    <3>3. PaidKey(p) \in events'
      BY <3>1, KeyOf DEF WebhookCommit, Paying
    <3>4. QED
      BY <1>1, <3>2, <3>3 DEF BankGrows, Recorded
  <2>4. QED
    BY <2>2, <2>3
<1>11. QED
  BY <1>4, <1>7, <1>8, <1>9, <1>10 DEF PaymentInv

LEMMA PaymentInvariants == Spec => [](TypeOK /\ Known /\ OptOutInv /\ PaymentInv)
BY InitTyped, NextTyped, InitOptOut, NextOptOut, InitPayment, NextPayment, PTL DEF Spec

\* Time is granted only for a payment that was charged, that T-Bank reported as
\* settled, and whose success is on record (process_tbank_notification_json):
\* no order of duplicates, crashes and concurrent requests grants any other.
THEOREM PaidBeforeGranted == Spec => []GrantIsPaidFor
<1>1. PaymentInv => GrantIsPaidFor
  BY DEF PaymentInv
<1>2. QED
  BY <1>1, PaymentInvariants, PTL

-----------------------------------------------------------------------------
(* What a request loaded stays an earlier state of the table.              *)

\* The rows of a request are those it had, none, or the table as it is.
LEMMA SnapsHeld ==
  ASSUME TypeOK, [Next]_vars, NEW h \in Handlers
  PROVE  \/ handler'[h].snap = handler[h].snap
         \/ handler'[h].snap = <<>>
         \/ handler'[h].snap = subs /\ UNCHANGED <<now, database>>
<1>0. handler = [k \in Handlers |-> handler[k]]
  BY DEF TypeOK
<1>1. ASSUME NEW k \in Handlers, handler' = [handler EXCEPT ![k] = IdleHandler]
      PROVE  handler'[h] = handler[h] \/ handler'[h].snap = <<>>
  BY <1>0, <1>1 DEF IdleHandler
<1>2. ASSUME NEW k \in Handlers, NEW n \in net, WebhookBegin(k, n)
      PROVE  handler'[h] = handler[h] \/ (handler'[h].snap = subs /\ UNCHANGED <<now, database>>)
  BY <1>0, <1>2 DEF WebhookBegin
<1>3. QED
  BY <1>1, <1>2, HandlerMoves

LEMMA BehindStays ==
  ASSUME TypeOK, TypeOK', TableStep, NEW snap, Behind(snap)
  PROVE  Behind(snap)'
<1>1. \A i \in DOMAIN subs : subs[i] \in Rows /\ subs[i].status \in {"active", "superseded"}
  <2>1. \A i \in DOMAIN subs : subs[i] \in Rows
    BY ElementOfSeq, LenProperties DEF TypeOK
  <2>2. QED
    BY <2>1 DEF Rows
<1>2. QED
  BY <1>1 DEF Behind, TableStep, SafeWrite

LEMMA InitSnapshot == Init => SnapshotInv
BY EmptyTable DEF Init, SnapshotInv, Behind, IdleHandler

LEMMA NextSnapshot == TypeOK /\ Known /\ OptOutInv /\ SnapshotInv /\ [Next]_vars => SnapshotInv'
<1> SUFFICES ASSUME TypeOK, Known, OptOutInv, SnapshotInv, [Next]_vars PROVE SnapshotInv'
  OBVIOUS
<1>1. TableStep /\ TypeOK'
  BY NextTableStep, NextTyped
<1>2. Behind(subs) /\ Behind(<<>>)
  BY EmptyTable DEF Behind
<1>3. ASSUME NEW h \in Handlers, NEW snap, snap = handler'[h].snap PROVE Behind(snap)'
  <2>1. Behind(snap)
    BY <1>2, <1>3, SnapsHeld DEF SnapshotInv
  <2>2. QED
    BY <1>1, <2>1, BehindStays
<1>4. QED
  BY <1>3 DEF SnapshotInv, Behind

-----------------------------------------------------------------------------
(* The time of a row is paid for.                                          *)

\* A granted payment stays with its row: it is on record, so no request holds it.
LEMMA GrantsKept ==
  ASSUME TypeOK, Known, PaymentInv, [Next]_vars, NEW p \in Pids, granted[p] # 0
  PROVE  granted'[p] = granted[p]
BY GrantMoves DEF PaymentInv, GrantIsPaidFor, OnePerPayment

LEMMA GrantsFinite ==
  ASSUME PaymentInv, IsFiniteSet(Recorded), NEW i, i # 0
  PROVE  IsFiniteSet(Grants(i)) /\ Cardinality(Grants(i)) \in Nat
<1>1. Grants(i) \subseteq Recorded
  BY DEF PaymentInv, GrantIsPaidFor, Grants
<1>2. QED
  BY <1>1, FS_Subset, FS_CardinalityType

LEMMA RecordedFinite ==
  ASSUME TypeOK, Known, [Next]_vars, IsFiniteSet(Recorded)
  PROVE  IsFiniteSet(Recorded')
<1>1. Recorded' = Recorded \/ \E p : Recorded' = Recorded \cup {p}
  BY RecordedMoves
<1>2. QED
  BY <1>1, FS_AddElement

LEMMA TimeGoesOn == ASSUME TypeOK, [Next]_vars PROVE now' \in Int /\ now \in Int /\ now <= now'
<1>1. now \in 0..MaxTime
  BY DEF TypeOK
<1>2. now \in Int
  BY <1>1, BillingAssumption
<1>3. now' = now \/ now' = now + 1
  BY DEF Next, Tick, BankStep, Checkout, Settle, WebhookStep, WebhookBegin, WebhookDuplicate,
         WebhookCommit, WebhookAbort, CancelStep, CancelBegin, CancelCommit, JobStep, JobStart,
         JobExpire, JobSelect, JobDone, JobLoad, JobInit, JobCharge, JobAccepted, JobRefused,
         JobAbort, JobGoes, vars
<1>4. QED
  BY <1>2, <1>3

LEMMA PeriodsGrow ==
  ASSUME NEW c \in Nat, NEW d \in Nat, c <= d
  PROVE  /\ Period * c \in Int /\ Period * d \in Int /\ Period * c <= Period * d
         /\ Period * (c + 1) = Period * c + Period /\ Period \in Nat
BY RowsAssumption

\* What is paid for is not taken back.
LEMMA PaidUntilGrows ==
  ASSUME TypeOK, Known, PaymentInv, PaymentInv', [Next]_vars, IsFiniteSet(Recorded),
         NEW i \in Nat \ {0}
  PROVE  /\ PaidUntil(i) \in Int /\ PaidUntil(i)' \in Int
         /\ PaidUntil(i) <= PaidUntil(i)' /\ now <= PaidUntil(i)
<1> DEFINE c == Cardinality(Grants(i))
           d == Cardinality(Grants(i)')
<1>1. Grants(i) \subseteq Grants(i)'
  BY GrantsKept DEF Grants
<1>2. IsFiniteSet(Grants(i)') /\ d \in Nat /\ c \in Nat
  <2>1. IsFiniteSet(Recorded')
    BY RecordedFinite
  <2>2. Grants(i)' \subseteq Recorded'
    BY DEF PaymentInv, GrantIsPaidFor, Grants
  <2>3. QED
    BY <2>1, <2>2, GrantsFinite, FS_Subset, FS_CardinalityType
<1>3. c <= d
  BY <1>1, <1>2, FS_Subset
<1>4. PaidUntil(i) = now + Period * c /\ PaidUntil(i)' = now' + Period * d
  BY DEF PaidUntil
<1> HIDE DEF c, d
<1>5. Period * c \in Int /\ Period * d \in Int /\ Period * c <= Period * d /\ 0 <= Period * c
  BY <1>2, <1>3, PeriodsGrow, RowsAssumption
<1>6. QED
  BY <1>4, <1>5, TimeGoesOn

LEMMA CoveredStays ==
  ASSUME TypeOK, Known, PaymentInv, PaymentInv', [Next]_vars, IsFiniteSet(Recorded),
         NEW rows \in Seq(Rows), Covered(rows)
  PROVE  Covered(rows)'
<1> SUFFICES ASSUME NEW i \in DOMAIN rows PROVE rows[i].expires <= PaidUntil(i)'
  BY DEF Covered
<1>1. rows[i] \in Rows /\ i \in Nat \ {0}
  BY ElementOfSeq, LenProperties
<1>2. rows[i].expires \in Int /\ rows[i].expires <= PaidUntil(i)
  BY <1>1 DEF Covered, Rows
<1>3. QED
  BY <1>1, <1>2, PaidUntilGrows

\* One more payment, one more period.
LEMMA GrantAdds ==
  ASSUME TypeOK, PaymentInv, IsFiniteSet(Recorded), NEW p \in Pids, granted[p] = 0,
         NEW i \in Nat \ {0}, granted' = [granted EXCEPT ![p] = i], now' = now, now \in Int
  PROVE  PaidUntil(i)' = PaidUntil(i) + Period /\ PaidUntil(i) \in Int
<1> DEFINE c == Cardinality(Grants(i))
           d == Cardinality(Grants(i)')
<1>1. granted \in [Pids -> Nat]
  BY DEF TypeOK
<1>2. Grants(i)' = Grants(i) \cup {p} /\ p \notin Grants(i)
  BY <1>1 DEF Grants
<1>3. IsFiniteSet(Grants(i)) /\ c \in Nat
  BY GrantsFinite
<1>4. d = c + 1
  BY <1>2, <1>3, FS_AddElement
<1>5. PaidUntil(i) = now + Period * c /\ PaidUntil(i)' = now + Period * d
  BY DEF PaidUntil
<1> HIDE DEF c, d
<1>6. Period * (c + 1) = Period * c + Period /\ Period * c \in Int /\ Period \in Int
  BY <1>3, RowsAssumption
<1>7. QED
  BY <1>3, <1>4, <1>5, <1>6

LEMMA InitTime == Init => TimeInv
<1> SUFFICES ASSUME Init PROVE TimeInv
  OBVIOUS
<1>1. Recorded = {}
  BY DEF Init, Recorded
<1>2. Covered(<<>>)
  BY EmptyTable DEF Covered
<1>3. QED
  BY <1>1, <1>2, FS_EmptySet DEF Init, TimeInv, IdleHandler

\* The table after a step: rows that kept their end, one that was renewed from
\* a covered end, or a new one.
LEMMA TableCovered ==
  ASSUME TypeOK, Known, PaymentInv, PaymentInv', TimeInv, [Next]_vars
  PROVE  Covered(subs)'
<1>0. subs \in Seq(Rows) /\ DOMAIN subs = 1..Len(subs) /\ Len(subs) \in Nat /\ IsFiniteSet(Recorded)
  BY LenProperties DEF TypeOK, TimeInv
<1>1. \A k \in DOMAIN subs : subs[k].expires <= PaidUntil(k)'
  <2>1. Covered(subs)
    BY DEF TimeInv
  <2>2. ASSUME NEW rows \in Seq(Rows), Covered(rows)
        PROVE  \A k \in DOMAIN rows : rows[k].expires <= PaidUntil(k)'
    BY <1>0, <2>2, CoveredStays DEF Covered
  <2>3. QED
    BY <1>0, <2>1, <2>2
<1>2. CASE Quiet
  BY <1>1, <1>2 DEF Quiet, Covered
<1>3. CASE \A h \in Handlers : ~WebhookCommit(h)
  BY <1>2, <1>3, OtherShape
<1>4. ASSUME NEW h \in Handlers, WebhookCommit(h), ~Quiet PROVE Covered(subs)'
  <2> DEFINE p == handler[h].note.pid
             snap == handler[h].snap
  <2>1. /\ handler[h].note \in Notes /\ p \in DOMAIN bank /\ snap \in Seq(Rows)
        /\ ApplyNote(handler[h].note, snap, handler[h].stars) /\ now' = now
    BY <1>4 DEF WebhookCommit, Busy, TypeOK, Known
  <2>2. CommitShape(handler[h].note, snap, handler[h].stars)
    BY <2>1, ApplyShape
  <2>3. Paying(h) /\ ((\E i \in DOMAIN snap : Renews(p, i, snap)) \/ Buys(p))
    BY <1>4, <2>2 DEF CommitShape, Paying, Quiet
  <2>4. p \in Pids /\ now \in Int /\ bank[p] \in Payments
    BY <2>1, NoteTypes
  <2>5. granted[p] = 0 /\ Covered(snap)
    BY <2>3, <2>4 DEF PaymentInv, OnePerPayment, GrantIsPaidFor, TimeInv
  <2> HIDE DEF p, snap
  <2>6. ASSUME NEW i \in DOMAIN snap, Renews(p, i, snap) PROVE Covered(subs)'
    <3>1. snap[i] \in Rows /\ i \in Nat \ {0}
      BY <2>1, ElementOfSeq, LenProperties
    <3>2. snap[i].expires \in Int /\ snap[i].expires <= PaidUntil(i)
      BY <2>5, <3>1 DEF Covered, Rows
    <3>3. PaidUntil(i)' = PaidUntil(i) + Period /\ PaidUntil(i) \in Int
      BY <1>0, <2>1, <2>4, <2>5, <2>6, <3>1, GrantAdds DEF Renews
    <3>4. Later(snap[i].expires, now) + Period <= PaidUntil(i)'
      BY <1>0, <2>4, <3>1, <3>2, <3>3, PaidUntilGrows, RowsAssumption DEF Later
    <3>5. QED
      BY <1>1, <2>6, <3>4 DEF Renews, Covered
  <2>7. CASE Buys(p)
    <3> DEFINE i == Len(subs) + 1
    <3>1. i \in Nat \ {0}
      BY <1>0
    <3>2. subs'[i].expires = now + Period
      BY <2>7 DEF Buys, NewRow
    <3>3. \A k \in Nat \ {0} : now <= PaidUntil(k)
      BY <1>0, PaidUntilGrows
    <3>4. \A k \in DOMAIN subs' : k \in DOMAIN subs \/ k = Len(subs) + 1
      BY <1>0, <2>7 DEF Buys
    <3>5. ASSUME NEW k \in DOMAIN subs' PROVE subs'[k].expires <= PaidUntil(k)'
      <4>1. CASE k \in DOMAIN subs
        BY <1>1, <2>7, <4>1 DEF Buys
      <4>2. ASSUME k = Len(subs) + 1 PROVE subs'[k].expires <= PaidUntil(k)'
        <5>1. granted' = [granted EXCEPT ![p] = k] /\ k \in Nat \ {0}
          BY <2>7, <3>1, <4>2 DEF Buys
        <5>2. PaidUntil(k)' = PaidUntil(k) + Period /\ PaidUntil(k) \in Int
          BY <1>0, <2>1, <2>4, <2>5, <5>1, GrantAdds
        <5>3. QED
          BY <2>4, <3>2, <3>3, <4>2, <5>1, <5>2, RowsAssumption
      <4>3. QED
        BY <3>4, <4>1, <4>2
    <3>6. QED
      BY <3>5 DEF Covered
  <2>8. QED
    BY <2>3, <2>6, <2>7
<1>5. QED
  BY <1>2, <1>3, <1>4

LEMMA NextTime ==
  TypeOK /\ Known /\ PaymentInv /\ PaymentInv' /\ TimeInv /\ [Next]_vars => TimeInv'
<1> SUFFICES ASSUME TypeOK, Known, PaymentInv, PaymentInv', TimeInv, [Next]_vars PROVE TimeInv'
  OBVIOUS
<1>1. Covered(subs)' /\ IsFiniteSet(Recorded')
  BY TableCovered, RecordedFinite DEF TimeInv
<1>2. ASSUME NEW h \in Handlers, NEW snap, snap = handler'[h].snap PROVE Covered(snap)'
  <2>1. CASE snap = handler[h].snap
    BY <2>1, CoveredStays DEF TimeInv, TypeOK
  <2>2. CASE snap = <<>>
    BY <2>2, EmptyTable DEF Covered
  <2>3. CASE snap = subs /\ UNCHANGED <<now, database>>
    BY <1>1, <2>3 DEF Covered, database
  <2>4. QED
    BY <1>2, <2>1, <2>2, <2>3, SnapsHeld
<1>3. QED
  BY <1>1, <1>2 DEF TimeInv, Covered

LEMMA TimeInvariants == Spec => [](TypeOK /\ Known /\ PaymentInv /\ TimeInv)
BY InitTyped, NextTyped, InitPayment, NextPayment, InitTime, NextTime, PTL DEF Spec

\* No period is given away: what is left of a row is covered by the distinct
\* payments that paid for it, however the renewals of concurrent requests
\* overwrite each other (activate_subscription, apply_successful_renewal).
THEOREM TimeIsPaidFor == Spec => []PaidTimeBound
<1>1. TimeInv => PaidTimeBound
  BY DEF TimeInv, Covered, PaidUntil, Grants, PaidTimeBound
<1>2. QED
  BY <1>1, TimeInvariants, PTL

-----------------------------------------------------------------------------
(* How many active rows concurrent purchases can leave.                    *)

\* Of the rows the purchase had loaded, it leaves none of the buyer's active.
LEMMA PurchaseSupersedes ==
  ASSUME TypeOK, NEW n \in Notes, n.pid \in DOMAIN bank, bank[n.pid].plan \in PlusPlans,
         NEW snap \in Seq(Rows), Behind(snap), Activate(n, snap),
         ~ActivatedBy(snap, bank[n.pid].user, n.pid),
         NEW i \in DOMAIN snap, subs[i].user = bank[n.pid].user
  PROVE  subs'[i].status = "superseded"
<1> DEFINE u == bank[n.pid].user
           edited == SupersedeAll(snap, u)
           saved == Save(subs, snap, edited)
<1>a. PICK rebill \in Rebills :
        subs' = Append(saved, NewRow(u, bank[n.pid].plan, n.pid, rebill, now))
  BY DEF Activate
<1> DEFINE row == NewRow(u, bank[n.pid].plan, n.pid, rebill, now)
<1>0. /\ bank[n.pid] \in Payments /\ n.pid \in Pids /\ subs \in Seq(Rows) /\ now \in Int
      /\ i \in DOMAIN subs
  BY NoteTypes DEF Behind
<1>1. snap[i] \in Rows /\ subs[i] \in Rows
  BY <1>0, ElementOfSeq, LenProperties
<1>2. saved \in Seq(Rows) /\ DOMAIN saved = DOMAIN subs /\ row \in Rows
  <2>1. edited \in Seq(Rows) /\ DOMAIN edited = DOMAIN snap
    BY SupersedeAllType
  <2> HIDE DEF edited
  <2>2. saved \in Seq(Rows) /\ DOMAIN saved = DOMAIN subs
    BY <1>0, <2>1, SaveType
  <2>3. row \in Rows
    BY <1>0, NewRowType, BillingAssumption DEF Payments
  <2>4. QED
    BY <2>2, <2>3
<1>3. saved[i].status = Column(subs[i].status, snap[i].status, edited[i].status)
  BY <1>0, <1>1, WrittenColumns DEF Save
<1>4. edited[i].status = "superseded"
  <2>1. CASE snap[i].status = "active"
    <3>1. edited[i] = Superseded(snap[i])
      BY <2>1 DEF SupersedeAll, Active, Behind
    <3>2. QED
      BY <1>1, <3>1 DEF Superseded, Rows
  <2>2. CASE snap[i].status # "active"
    <3>1. edited[i] = snap[i]
      BY <2>2 DEF SupersedeAll, Active
    <3>2. QED
      BY <1>1, <2>2, <3>1 DEF Rows
  <2>3. QED
    BY <2>1, <2>2
<1>5. saved[i].status = "superseded"
  BY <1>0, <1>1, <1>3, <1>4 DEF Column, Behind, Rows
<1>6. subs' = Append(saved, row)
  BY <1>a
<1> HIDE DEF saved, row
<1>7. subs'[i] = saved[i]
  BY <1>0, <1>2, <1>6, AppendProperties, LenProperties
<1>8. QED
  BY <1>5, <1>7

\* A step by which nothing is bought makes no row active.
LEMMA ActiveShrinks ==
  ASSUME TypeOK, TypeOK', TableStep, NEW u, NEW i \in DOMAIN subs, i \in Active(subs, u)'
  PROVE  i \in Active(subs, u)
<1>1. subs[i] \in Rows
  BY ElementOfSeq, LenProperties DEF TypeOK
<1>2. subs'[i].user = subs[i].user /\ (subs[i].status = "superseded" => subs'[i].status = "superseded")
  BY DEF TableStep, SafeWrite
<1>3. QED
  BY <1>1, <1>2 DEF Active, Rows

LEMMA CrowdTypes ==
  ASSUME TypeOK, NEW u, NEW r
  PROVE  /\ IsFiniteSet(ActiveFrom(u, r)) /\ Cardinality(ActiveFrom(u, r)) \in Nat
         /\ IsFiniteSet(Unaware(r)) /\ Cardinality(Unaware(r)) \in Nat
         /\ Cardinality(Unaware(r)) <= Cardinality(Handlers) /\ Cardinality(Handlers) \in Nat
<1>1. Len(subs) \in Nat /\ DOMAIN subs = 1..Len(subs)
  BY LenProperties DEF TypeOK
<1>2. IsFiniteSet(DOMAIN subs)
  BY <1>1, FS_Interval
<1>3. ActiveFrom(u, r) \subseteq DOMAIN subs /\ Unaware(r) \subseteq Handlers
  BY DEF ActiveFrom, Active, Unaware
<1>4. QED
  BY <1>2, <1>3, BillingAssumption, FS_Subset, FS_CardinalityType

LEMMA InitCrowd == Init => CrowdInv
<1> SUFFICES ASSUME Init, NEW u \in Users, NEW r \in Nat
             PROVE  Cardinality(ActiveFrom(u, r)) + Cardinality(Unaware(r)) <= Cardinality(Handlers)
  BY DEF CrowdInv
<1>1. ActiveFrom(u, r) = {} /\ Unaware(r) = {}
  BY EmptyTable DEF Init, ActiveFrom, Active, Unaware, Busy, IdleHandler
<1>2. QED
  BY <1>1, BillingAssumption, FS_EmptySet, FS_CardinalityType

\* Fewer active rows and fewer requests.
LEMMA CrowdShrinks ==
  ASSUME TypeOK, TypeOK', CrowdInv, NEW u \in Users, NEW r \in Nat,
         ActiveFrom(u, r)' \subseteq ActiveFrom(u, r), Unaware(r)' \subseteq Unaware(r)
  PROVE  Cardinality(ActiveFrom(u, r)') + Cardinality(Unaware(r)') <= Cardinality(Handlers)
<1>1. /\ Cardinality(ActiveFrom(u, r)') <= Cardinality(ActiveFrom(u, r))
      /\ Cardinality(Unaware(r)') <= Cardinality(Unaware(r))
  BY CrowdTypes, FS_Subset
<1>2. /\ Cardinality(ActiveFrom(u, r)) \in Nat /\ Cardinality(Unaware(r)) \in Nat
      /\ Cardinality(Handlers) \in Nat
  BY CrowdTypes
<1>3. /\ Cardinality(ActiveFrom(u, r)') \in Nat /\ Cardinality(Unaware(r)') \in Nat
  <2>1. IsFiniteSet(ActiveFrom(u, r)') /\ IsFiniteSet(Unaware(r)')
    BY CrowdTypes, FS_Subset
  <2>2. QED
    BY <2>1, FS_CardinalityType
<1>4. Cardinality(ActiveFrom(u, r)) + Cardinality(Unaware(r)) <= Cardinality(Handlers)
  BY DEF CrowdInv
<1>5. QED
  BY <1>1, <1>2, <1>3, <1>4

\* A request that begins has loaded every row there is.
LEMMA BeginKeepsCrowd ==
  ASSUME TypeOK, TypeOK', CrowdInv, NEW h \in Handlers, NEW n \in net, WebhookBegin(h, n),
         NEW u \in Users, NEW r \in Nat
  PROVE  Cardinality(ActiveFrom(u, r)') + Cardinality(Unaware(r)') <= Cardinality(Handlers)
<1>0. Len(subs) \in Nat /\ DOMAIN subs = 1..Len(subs)
  BY LenProperties DEF TypeOK
<1>1. /\ subs' = subs /\ ~Busy(h) /\ handler'[h].snap = subs
      /\ \A k \in Handlers : k # h => handler'[k] = handler[k]
  BY DEF WebhookBegin, TypeOK, database
<1>2. ActiveFrom(u, r)' = ActiveFrom(u, r)
  BY <1>1 DEF ActiveFrom, Active
<1>3. CASE r <= Len(subs)
  <2>1. Unaware(r)' \subseteq Unaware(r)
    BY <1>0, <1>1, <1>3 DEF Unaware, Busy
  <2>2. QED
    BY <1>2, <2>1, CrowdShrinks
<1>4. CASE ~(r <= Len(subs))
  <2>1. ActiveFrom(u, r) = {}
    BY <1>0, <1>4 DEF ActiveFrom, Active
  <2>2. Unaware(r)' \subseteq Handlers
    BY DEF Unaware
  <2>3. Cardinality(Unaware(r)') <= Cardinality(Handlers) /\ Cardinality(Handlers) \in Nat
        /\ Cardinality(Unaware(r)') \in Nat
    BY <2>2, BillingAssumption, FS_Subset, FS_CardinalityType
  <2>4. QED
    BY <1>2, <2>1, <2>3, FS_EmptySet
<1>5. QED
  BY <1>3, <1>4

\* A purchase adds one active row and ends one request that had not seen any of
\* the rows it leaves active.
LEMMA PurchaseKeepsCrowd ==
  ASSUME TypeOK, TypeOK', Known, SnapshotInv, CrowdInv, TableStep, NEW h \in Handlers, WebhookCommit(h),
         NEW n, n = handler[h].note, Activate(n, handler[h].snap), bank[n.pid].plan \in PlusPlans,
         ~ActivatedBy(handler[h].snap, bank[n.pid].user, n.pid),
         NEW r \in Nat, NEW u \in Users, u = bank[n.pid].user
  PROVE  Cardinality(ActiveFrom(u, r)') + Cardinality(Unaware(r)') <= Cardinality(Handlers)
<1> DEFINE snap == handler[h].snap
<1>0. /\ Len(subs) \in Nat /\ DOMAIN subs = 1..Len(subs)
      /\ Len(snap) \in Nat /\ DOMAIN snap = 1..Len(snap)
  BY LenProperties DEF TypeOK
<1>1. n \in Notes /\ n.pid \in DOMAIN bank /\ snap \in Seq(Rows) /\ Behind(snap) /\ Busy(h)
  BY DEF WebhookCommit, Busy, TypeOK, Known, SnapshotInv
<1>2. DOMAIN subs' = 1..(Len(subs) + 1)
  BY <1>1, ActivationShape DEF Buys
<1>3. \A k \in Handlers : handler'[k] = IF k = h THEN IdleHandler ELSE handler[k]
  BY DEF WebhookCommit, TypeOK
<1>4. PICK m \in Nat : m = IF r <= Len(snap) THEN Len(snap) + 1 ELSE r
  BY <1>0
<1>5. ActiveFrom(u, r)' \subseteq ActiveFrom(u, m) \cup {Len(subs) + 1}
  <2> SUFFICES ASSUME NEW i \in ActiveFrom(u, r)', i # Len(subs) + 1 PROVE i \in ActiveFrom(u, m)
    OBVIOUS
  <2>1. i \in DOMAIN subs /\ i \in Active(subs, u)' /\ i >= r
    BY <1>0, <1>2 DEF ActiveFrom, Active
  <2>2. i \in Active(subs, u)
    BY <2>1, ActiveShrinks
  <2>3. i \notin DOMAIN snap
    <3>1. ASSUME i \in DOMAIN snap PROVE FALSE
      <4>1. subs[i].user = bank[n.pid].user
        BY <2>2 DEF Active
      <4>2. subs'[i].status = "superseded"
        BY <1>1, <3>1, <4>1, PurchaseSupersedes
      <4>3. QED
        BY <2>1, <4>2 DEF Active
    <3>2. QED
      BY <3>1
  <2>4. QED
    BY <1>0, <1>4, <2>1, <2>2, <2>3 DEF ActiveFrom
<1>6. Unaware(r)' \subseteq Unaware(m) \ {h} /\ h \in Unaware(m)
  BY <1>0, <1>1, <1>3, <1>4 DEF Unaware, Busy, IdleHandler
<1> DEFINE a == Cardinality(ActiveFrom(u, m))
           b == Cardinality(Unaware(m))
           c == Cardinality(ActiveFrom(u, r)')
           d == Cardinality(Unaware(r)')
<1>7. a \in Nat /\ b \in Nat /\ Cardinality(Handlers) \in Nat /\ a + b <= Cardinality(Handlers)
  BY CrowdTypes DEF CrowdInv
<1>8. c \in Nat /\ c <= a + 1
  <2> DEFINE more == Cardinality(ActiveFrom(u, m) \cup {Len(subs) + 1})
  <2>0. IsFiniteSet(ActiveFrom(u, m))
    BY CrowdTypes
  <2>1. IsFiniteSet(ActiveFrom(u, m) \cup {Len(subs) + 1}) /\ (more = a \/ more = a + 1)
    BY <2>0, FS_AddElement
  <2>2. IsFiniteSet(ActiveFrom(u, r)') /\ c <= more
    BY <1>5, <2>1, FS_Subset
  <2>3. c \in Nat
    BY <2>2, FS_CardinalityType
  <2> HIDE DEF a, c, more
  <2>4. QED
    BY <1>7, <2>1, <2>2, <2>3
<1>9. d \in Nat /\ d <= b - 1
  <2>1. IsFiniteSet(Unaware(m) \ {h}) /\ Cardinality(Unaware(m) \ {h}) = b - 1
    BY <1>6, CrowdTypes, FS_RemoveElement
  <2>2. IsFiniteSet(Unaware(r)') /\ d <= Cardinality(Unaware(m) \ {h})
    BY <1>6, <2>1, FS_Subset
  <2>3. QED
    BY <2>1, <2>2, FS_CardinalityType
<1> HIDE DEF a, b, c, d
<1>10. c + d <= Cardinality(Handlers)
  BY <1>7, <1>8, <1>9
<1>11. QED
  BY <1>10 DEF c, d

\* The only commit that adds a row.
LEMMA OnlyPurchaseAdds ==
  ASSUME TypeOK, NEW n \in Notes, n.pid \in DOMAIN bank, NEW snap \in Seq(Rows),
         NEW balance, ApplyNote(n, snap, balance), DOMAIN subs' # DOMAIN subs
  PROVE  /\ IsPaymentSuccess(n) /\ bank[n.pid].plan \in PlusPlans /\ Activate(n, snap)
         /\ ~ActivatedBy(snap, bank[n.pid].user, n.pid) /\ Buys(n.pid)
<1>1. CommitShape(n, snap, balance)
  BY ApplyShape
<1>2. /\ IsPaymentSuccess(n) /\ bank[n.pid].kind = Initial /\ bank[n.pid].plan \in PlusPlans
      /\ ~ActivatedBy(snap, bank[n.pid].user, n.pid) /\ Buys(n.pid)
  BY <1>1 DEF CommitShape, Quiet, Renews
<1>3. ApplyPaid(n, snap, balance)
  BY <1>2 DEF ApplyNote, Branch
<1>4. bank[n.pid].plan # StarsTopup /\ ~IsRenewal(n)
  BY <1>2 DEF IsRenewal, Initial, Renewal, PlusPlans, StarsTopup, ConsumerPlus, BusinessMarketer
<1>5. Activate(n, snap)
  BY <1>3, <1>4 DEF ApplyPaid
<1>6. QED
  BY <1>2, <1>5

LEMMA NextCrowd ==
  TypeOK /\ Known /\ OptOutInv /\ SnapshotInv /\ CrowdInv /\ [Next]_vars => CrowdInv'
<1> SUFFICES ASSUME TypeOK, Known, OptOutInv, SnapshotInv, CrowdInv, [Next]_vars,
                    NEW u \in Users, NEW r \in Nat
             PROVE  Cardinality(ActiveFrom(u, r)') + Cardinality(Unaware(r)') <= Cardinality(Handlers)
  BY DEF CrowdInv
<1>1. TypeOK' /\ TableStep
  BY NextTyped, NextTableStep
<1>2. ASSUME NEW h \in Handlers, NEW n \in net, WebhookBegin(h, n)
      PROVE  Cardinality(ActiveFrom(u, r)') + Cardinality(Unaware(r)') <= Cardinality(Handlers)
  BY <1>1, <1>2, BeginKeepsCrowd
<1>3. CASE \A h \in Handlers, n \in net : ~WebhookBegin(h, n)
  <2>1. Unaware(r)' \subseteq Unaware(r)
    <3>1. \A k \in Handlers : handler'[k] = handler[k] \/ ~Busy(k)'
      BY <1>3, HandlerMoves, NotesHeld DEF Busy
    <3>2. QED
      BY <3>1 DEF Unaware, Busy
  <2>2. CASE ActiveFrom(u, r)' \subseteq ActiveFrom(u, r)
    BY <1>1, <2>1, <2>2, CrowdShrinks
  <2>3. CASE DOMAIN subs' = DOMAIN subs
    <3>1. ActiveFrom(u, r)' \subseteq ActiveFrom(u, r)
      BY <1>1, <2>3, ActiveShrinks DEF ActiveFrom, Active
    <3>2. QED
      BY <2>2, <3>1
  <2>4. CASE DOMAIN subs' # DOMAIN subs
    <3>1. PICK h \in Handlers : WebhookCommit(h)
      BY <2>4, OtherShape DEF Quiet
    <3> DEFINE n == handler[h].note
    <3>2. /\ n \in Notes /\ n.pid \in DOMAIN bank /\ handler[h].snap \in Seq(Rows)
          /\ ApplyNote(n, handler[h].snap, handler[h].stars)
      BY <3>1 DEF WebhookCommit, Busy, TypeOK, Known
    <3>3. /\ bank[n.pid].plan \in PlusPlans /\ Activate(n, handler[h].snap)
          /\ ~ActivatedBy(handler[h].snap, bank[n.pid].user, n.pid) /\ Buys(n.pid)
      BY <2>4, <3>2, OnlyPurchaseAdds
    <3>4. CASE u = bank[n.pid].user
      BY <1>1, <3>1, <3>3, <3>4, PurchaseKeepsCrowd
    <3>5. CASE u # bank[n.pid].user
      <4>1. \A i \in DOMAIN subs' : i \in DOMAIN subs \/ subs'[i].user = bank[n.pid].user
        <5>1. DOMAIN subs = 1..Len(subs) /\ Len(subs) \in Nat
          BY LenProperties DEF TypeOK
        <5>2. QED
          BY <3>3, <5>1 DEF Buys, NewRow
      <4>2. ActiveFrom(u, r)' \subseteq ActiveFrom(u, r)
        BY <1>1, <3>5, <4>1, ActiveShrinks DEF ActiveFrom, Active
      <4>3. QED
        BY <2>2, <4>2
    <3>6. QED
      BY <3>4, <3>5
  <2>5. QED
    BY <2>3, <2>4
<1>4. QED
  BY <1>2, <1>3

LEMMA CrowdInvariants == Spec => [](TypeOK /\ Known /\ OptOutInv /\ SnapshotInv /\ CrowdInv)
BY InitTyped, NextTyped, InitOptOut, NextOptOut, InitSnapshot, NextSnapshot, InitCrowd, NextCrowd,
   PTL DEF Spec

\* Two purchases activated at once can leave a user two active rows, as neither
\* request sees the row of the other (activate_subscription), but the excess
\* does not build up: it never passes the number of requests handled at once.
THEOREM CrowdIsBounded == Spec => []ActiveRowsBound
<1>1. TypeOK /\ CrowdInv => ActiveRowsBound
  <2> SUFFICES ASSUME TypeOK, CrowdInv, NEW u \in Users
               PROVE  Cardinality(Active(subs, u)) <= Cardinality(Handlers)
    BY DEF ActiveRowsBound
  <2>1. Active(subs, u) = ActiveFrom(u, 0)
    <3>1. DOMAIN subs = 1..Len(subs) /\ Len(subs) \in Nat
      BY LenProperties DEF TypeOK
    <3>2. QED
      BY <3>1 DEF ActiveFrom, Active
  <2>2. Cardinality(ActiveFrom(u, 0)) + Cardinality(Unaware(0)) <= Cardinality(Handlers)
    BY DEF CrowdInv
  <2>3. /\ Cardinality(ActiveFrom(u, 0)) \in Nat /\ Cardinality(Unaware(0)) \in Nat
        /\ Cardinality(Handlers) \in Nat
    BY CrowdTypes
  <2>4. QED
    BY <2>1, <2>2, <2>3
<1>2. QED
  BY <1>1, CrowdInvariants, PTL

-----------------------------------------------------------------------------
(* Refinement: the webhook implements PaymentLedger.                       *)

LEMMA InitItem == Init => ItemInv
BY EmptyTable DEF Init, ItemInv, RowsOf, TopupsOf

\* Rows are never rewritten nor removed, so a payment keeps the rows it has.
LEMMA RowsOfKept ==
  ASSUME TypeOK, TableStep, NEW p, DOMAIN subs' = DOMAIN subs
  PROVE  RowsOf(p)' = RowsOf(p)
BY DEF RowsOf, TableStep, SafeWrite

LEMMA RowsOfAfterPurchase ==
  ASSUME TypeOK, TableStep, NEW p, NEW q, Buys(q)
  PROVE  RowsOf(p)' = IF p = q THEN RowsOf(p) \cup {Len(subs) + 1} ELSE RowsOf(p)
<1>1. Len(subs) \in Nat /\ DOMAIN subs = 1..Len(subs)
  BY LenProperties DEF TypeOK
<1>2. subs'[Len(subs) + 1].meta.ext = q
  BY DEF Buys, NewRow
<1>3. \A i \in DOMAIN subs : subs'[i].meta = subs[i].meta
  BY DEF TableStep, SafeWrite
<1>4. DOMAIN subs' = DOMAIN subs \cup {Len(subs) + 1}
  BY <1>1 DEF Buys
<1>5. QED
  BY <1>2, <1>3, <1>4 DEF RowsOf

LEMMA TopupsOfAfterCredit ==
  ASSUME TypeOK, NEW p, NEW n, NEW balance, n.pid \in Pids, CreditTopup(n, balance),
         bank[n.pid].user \in Users, balance \in Nat
  PROVE  TopupsOf(p)' = IF p = n.pid THEN TopupsOf(p) \cup {Len(ledger) + 1} ELSE TopupsOf(p)
<1> DEFINE T == [user : Users, pid : Pids, balance : Nat]
           e == [user |-> bank[n.pid].user, pid |-> n.pid, balance |-> balance + TopupStars]
<1>1. ledger \in Seq(T) /\ e \in T /\ e.pid = n.pid
  <2>1. ledger \in Seq(T)
    BY DEF TypeOK
  <2>2. balance + TopupStars \in Nat
    BY DEF TopupStars
  <2>3. QED
    BY <2>1, <2>2
<1>2. ledger' = Append(ledger, e)
  BY DEF CreditTopup
<1> HIDE DEF T, e
<1>3. /\ Len(ledger) \in Nat /\ DOMAIN ledger = 1..Len(ledger)
      /\ DOMAIN ledger' = 1..(Len(ledger) + 1) /\ ledger'[Len(ledger) + 1] = e
      /\ \A k \in DOMAIN ledger : ledger'[k] = ledger[k]
  BY <1>1, <1>2, AppendProperties, LenProperties
<1>4. DOMAIN ledger' = DOMAIN ledger \cup {Len(ledger) + 1}
  BY <1>3
<1>5. QED
  BY <1>1, <1>3, <1>4 DEF TopupsOf

\* The commit of a success: one payment is applied, with one item or none.
LEMMA PaidCommit ==
  ASSUME TypeOK, Known, OptOutInv, PaymentInv, SnapshotInv, ItemInv, [Next]_vars,
         NEW h \in Handlers, WebhookCommit(h), Paying(h), NEW p, p = handler[h].note.pid
  PROVE  /\ p \in Pids /\ p \in Settled \ Recorded /\ Recorded' = Recorded \cup {p}
         /\ \A q \in Pids \ {p} : RowsOf(q)' = RowsOf(q) /\ TopupsOf(q)' = TopupsOf(q)
         /\ IF p \in Sold
            THEN \/ RowsOf(p)' = {Len(subs) + 1} /\ TopupsOf(p)' = {}
                 \/ RowsOf(p)' = {} /\ TopupsOf(p)' = {Len(ledger) + 1}
            ELSE RowsOf(p)' = RowsOf(p) /\ TopupsOf(p)' = TopupsOf(p)
<1>1. PICK n : n = handler[h].note
  OBVIOUS
<1>2. PICK snap : snap = handler[h].snap
  OBVIOUS
<1>3. p = n.pid
  BY <1>1
<1>4. /\ n \in Notes /\ p \in DOMAIN bank /\ snap \in Seq(Rows) /\ handler[h].stars \in Nat
      /\ ApplyNote(n, snap, handler[h].stars) /\ Behind(snap) /\ IsPaymentSuccess(n)
      /\ bank[p].charged /\ p \in Settled /\ p \notin Recorded
  BY <1>1, <1>2, <1>3 DEF WebhookCommit, Busy, TypeOK, Known, SnapshotInv, PaymentInv, OnePerPayment,
                          Paying, Truthful
<1>5. p \in Pids /\ bank[p] \in Payments
  BY <1>3, <1>4, NoteTypes
<1>6. Recorded' = Recorded \cup {p}
  <2>1. events' = events \cup {PaidKey(p)}
    BY <1>1, <1>3, <1>4, KeyOf DEF WebhookCommit
  <2>2. QED
    BY <1>5, <2>1, PaidKeyIsOwn DEF Recorded
<1>7. RowsOf(p) = {} /\ TopupsOf(p) = {}
  BY <1>4, <1>5 DEF ItemInv
<1>8. TableStep
  BY NextTableStep
<1>9. CommitShape(n, snap, handler[h].stars)
  BY <1>3, <1>4, ApplyShape
<1>10. \A q : UNCHANGED ledger => TopupsOf(q)' = TopupsOf(q)
  BY DEF TopupsOf
<1>11. CASE bank[p].plan = StarsTopup
  <2>1. UNCHANGED <<subs, granted>> /\ CreditTopup(n, handler[h].stars)
    BY <1>3, <1>4, <1>9, <1>11
       DEF CommitShape, IsRenewal, PlusPlans, StarsTopup, ConsumerPlus, BusinessMarketer
  <2>2. \A q : RowsOf(q)' = RowsOf(q)
    BY <2>1 DEF RowsOf
  <2>3. bank[n.pid].user \in Users
    BY <1>3, <1>5 DEF Payments
  <2>4. \A q : TopupsOf(q)' = IF q = p THEN TopupsOf(q) \cup {Len(ledger) + 1} ELSE TopupsOf(q)
    BY <1>3, <1>4, <1>5, <2>1, <2>3, TopupsOfAfterCredit
  <2>5. p \in Sold
    <3>1. bank[p].kind # Renewal
      BY <1>4, <1>11 DEF PaymentInv, PlusPlans, StarsTopup, ConsumerPlus, BusinessMarketer
    <3>2. QED
      BY <1>4, <1>5, <3>1 DEF Sold, Payments
  <2>6. QED
    BY <1>1, <1>3, <1>4, <1>5, <1>6, <1>7, <2>2, <2>4, <2>5
<1>12. CASE IsRenewal(n) /\ bank[p].plan # StarsTopup
  <2>1. DOMAIN subs' = DOMAIN subs /\ UNCHANGED ledger
    BY <1>3, <1>4, <1>9, <1>12 DEF CommitShape, IsRenewal, Quiet, Renews, Initial, Renewal
  <2>2. p \notin Sold
    BY <1>3, <1>12 DEF IsRenewal, Sold, Initial, Renewal
  <2>3. QED
    BY <1>1, <1>3, <1>4, <1>5, <1>6, <1>8, <1>10, <2>1, <2>2, RowsOfKept
<1>13. CASE ~IsRenewal(n) /\ bank[p].plan # StarsTopup
  <2>1. /\ bank[p].kind = Initial /\ UNCHANGED ledger
        /\ IF ActivatedBy(snap, bank[p].user, p) THEN UNCHANGED <<subs, granted>> ELSE Buys(p)
    BY <1>3, <1>4, <1>9, <1>13 DEF CommitShape
  <2>2. ~ActivatedBy(snap, bank[p].user, p)
    BY <1>4, <1>7 DEF ActivatedBy, Behind, RowsOf
  <2>3. p \in Sold
    BY <1>4, <2>1 DEF Sold
  <2>4. \A q : RowsOf(q)' = IF q = p THEN RowsOf(q) \cup {Len(subs) + 1} ELSE RowsOf(q)
    BY <1>8, <2>1, <2>2, RowsOfAfterPurchase
  <2>5. QED
    BY <1>1, <1>3, <1>4, <1>5, <1>6, <1>7, <1>10, <2>1, <2>3, <2>4
<1>14. QED
  BY <1>11, <1>12, <1>13

\* Any other step applies no payment and makes no item.
LEMMA NoPaidCommit ==
  ASSUME TypeOK, Known, OptOutInv, [Next]_vars, \A h \in Handlers : WebhookCommit(h) => ~Paying(h)
  PROVE  Recorded' = Recorded /\ \A q : RowsOf(q)' = RowsOf(q) /\ TopupsOf(q)' = TopupsOf(q)
<1>1. Recorded' = Recorded
  BY RecordedMoves
<1>2. DOMAIN subs' = DOMAIN subs /\ ledger' = ledger
  <2>1. CASE \A h \in Handlers : ~WebhookCommit(h)
    BY <2>1, OtherShape DEF Quiet
  <2>2. ASSUME NEW h \in Handlers, WebhookCommit(h) PROVE DOMAIN subs' = DOMAIN subs /\ ledger' = ledger
    <3> DEFINE n == handler[h].note
    <3>1. /\ n \in Notes /\ n.pid \in DOMAIN bank /\ handler[h].snap \in Seq(Rows)
          /\ ApplyNote(n, handler[h].snap, handler[h].stars) /\ ~IsPaymentSuccess(n)
      BY <2>2 DEF WebhookCommit, Busy, TypeOK, Known, Paying
    <3>2. CommitShape(n, handler[h].snap, handler[h].stars)
      BY <3>1, ApplyShape
    <3>3. QED
      BY <3>1, <3>2 DEF CommitShape, Quiet
  <2>3. QED
    BY <2>1, <2>2
<1>3. \A q : RowsOf(q)' = RowsOf(q)
  BY <1>2, NextTableStep, RowsOfKept
<1>4. \A q : TopupsOf(q)' = TopupsOf(q)
  BY <1>2 DEF TopupsOf
<1>5. QED
  BY <1>1, <1>3, <1>4

LEMMA NextItem ==
  TypeOK /\ Known /\ OptOutInv /\ PaymentInv /\ SnapshotInv /\ ItemInv /\ [Next]_vars => ItemInv'
<1> SUFFICES ASSUME TypeOK, Known, OptOutInv, PaymentInv, SnapshotInv, ItemInv, [Next]_vars
             PROVE  ItemInv'
  OBVIOUS
<1>1. ASSUME NEW h \in Handlers, WebhookCommit(h), Paying(h) PROVE ItemInv'
  <2>1. PICK p : p = handler[h].note.pid
    OBVIOUS
  <2>2. Recorded' = Recorded \cup {p}
        /\ \A q \in Pids \ {p} : RowsOf(q)' = RowsOf(q) /\ TopupsOf(q)' = TopupsOf(q)
    BY <1>1, <2>1, PaidCommit
  <2>3. QED
    BY <2>2 DEF ItemInv
<1>2. CASE \A h \in Handlers : WebhookCommit(h) => ~Paying(h)
  BY <1>2, NoPaidCommit DEF ItemInv
<1>3. QED
  BY <1>1, <1>2

LEMMA LedgerInvariants ==
  Spec => [](TypeOK /\ Known /\ OptOutInv /\ PaymentInv /\ SnapshotInv /\ ItemInv)
BY InitTyped, NextTyped, InitOptOut, NextOptOut, InitPayment, NextPayment, InitSnapshot,
   NextSnapshot, InitItem, NextItem, PTL DEF Spec

\* The first state is one of PaymentLedger.
LEMMA InitLedger == Init => Ledger!Init
<1> SUFFICES ASSUME Init PROVE Ledger!Init
  OBVIOUS
<1>1. DOMAIN bank = {} /\ \A p : RowsOf(p) = {} /\ TopupsOf(p) = {}
  BY EmptyTable DEF Init, RowsOf, TopupsOf
<1>2. Sold = {} /\ Settled = {} /\ Recorded = {}
  BY <1>1 DEF Init, Sold, Settled, Recorded
<1>3. Items = [p \in Pids |-> {}]
  BY <1>1 DEF Items
<1>4. QED
  BY <1>2, <1>3 DEF Ledger!Init

\* What a payment bought changes only with its rows and top-ups.
LEMMA ItemsFollow ==
  ASSUME NEW q \in Pids
  PROVE  /\ Items[q] = {<<"row", i>> : i \in RowsOf(q)} \cup {<<"stars", k>> : k \in TopupsOf(q)}
         /\ Items'[q] = {<<"row", i>> : i \in RowsOf(q)'} \cup {<<"stars", k>> : k \in TopupsOf(q)'}
         /\ RowsOf(q)' = RowsOf(q) /\ TopupsOf(q)' = TopupsOf(q) => Items'[q] = Items[q]
BY DEF Items

\* A sale and a settlement change nothing but the bank.
LEMMA BankImplements ==
  ASSUME TypeOK, Known, BankStep, Recorded' = Recorded, Items' = Items
  PROVE  Ledger!Next \/ UNCHANGED Ledger!vars
<1>0. bank \in [DOMAIN bank -> Payments] /\ DOMAIN bank \subseteq Pids
  BY DEF TypeOK
<1>1. ASSUME NEW u \in Users, NEW plan \in Offered, NEW p \in Pids, Checkout(u, plan, p)
      PROVE  Ledger!Sell(p)
  <2>1. /\ p \notin DOMAIN bank
        /\ bank' = [q \in DOMAIN bank \cup {p} |->
                      IF q = p THEN [status |-> "open", charged |-> Initial = Initial,
                                     user |-> u, plan |-> plan, kind |-> Initial]
                      ELSE bank[q]]
    BY <1>1 DEF Checkout, Issue
  <2>2. /\ DOMAIN bank' = DOMAIN bank \cup {p} /\ bank'[p].status = "open" /\ bank'[p].kind = Initial
        /\ \A q \in DOMAIN bank : bank'[q] = bank[q]
    BY <2>1
  <2>3. p \notin Sold \cup Settled /\ Sold' = Sold \cup {p} /\ Settled' = Settled
    BY <2>1, <2>2 DEF Sold, Settled
  <2>4. QED
    BY <2>3 DEF Ledger!Sell
<1>2. ASSUME NEW p \in Pids, NEW s \in Statuses, Settle(p, s)
      PROVE  Ledger!Pay(p) \/ UNCHANGED Ledger!vars
  <2>1. /\ p \in DOMAIN bank /\ bank[p] \in Payments /\ Settles(bank[p].status, s)
        /\ bank' = [bank EXCEPT ![p].status = s]
    BY <1>0, <1>2 DEF Settle
  <2>2. /\ DOMAIN bank' = DOMAIN bank /\ \A q \in DOMAIN bank : q # p => bank'[q] = bank[q]
        /\ bank'[p].status = s /\ bank'[p].kind = bank[p].kind
    BY <1>0, <2>1 DEF Payments
  <2>3. Sold' = Sold
    BY <2>1, <2>2 DEF Sold
  <2>4. \/ p \notin Settled /\ Settled' = Settled \cup {p}
        \/ Settled' = Settled
    BY <2>1, <2>2 DEF Settled, Settles
  <2>5. QED
    BY <2>3, <2>4 DEF Ledger!Pay, Ledger!vars
<1>3. QED
  BY <1>1, <1>2 DEF BankStep, Ledger!Next

\* Every other step leaves what was sold and what was settled as they are.
LEMMA OthersKeepBank ==
  ASSUME TypeOK, Known, [Next]_vars, ~BankStep
  PROVE  Sold' = Sold /\ Settled' = Settled
<1>0. bank \in [DOMAIN bank -> Payments]
  BY DEF TypeOK
<1>1. CASE UNCHANGED bank
  BY <1>1 DEF Sold, Settled
<1>2. ASSUME NEW j \in Jobs, NEW p \in Pids, JobInit(j, p) PROVE Sold' = Sold /\ Settled' = Settled
  <2>1. /\ p \notin DOMAIN bank
        /\ bank' = [q \in DOMAIN bank \cup {p} |->
                      IF q = p THEN [status |-> "open", charged |-> Renewal = Initial,
                                     user |-> Loaded(j).user, plan |-> Loaded(j).plan, kind |-> Renewal]
                      ELSE bank[q]]
    BY <1>2 DEF JobInit, Issue
  <2>2. /\ DOMAIN bank' = DOMAIN bank \cup {p} /\ bank'[p].status = "open" /\ bank'[p].kind = Renewal
        /\ \A q \in DOMAIN bank : bank'[q] = bank[q]
    BY <2>1
  <2>3. QED
    BY <2>1, <2>2 DEF Sold, Settled, Initial, Renewal
<1>3. ASSUME NEW j \in Jobs, JobCharge(j) PROVE Sold' = Sold /\ Settled' = Settled
  <2>1. PICK p : p = job[j].pid
    OBVIOUS
  <2>2. p \in DOMAIN bank /\ bank' = [bank EXCEPT ![p].charged = TRUE] /\ bank[p] \in Payments
    BY <1>0, <1>3, <2>1 DEF JobCharge, Known
  <2>3. /\ DOMAIN bank' = DOMAIN bank /\ \A q \in DOMAIN bank : q # p => bank'[q] = bank[q]
        /\ bank'[p].status = bank[p].status /\ bank'[p].kind = bank[p].kind
    BY <1>0, <2>2 DEF Payments
  <2>4. QED
    BY <2>2, <2>3 DEF Sold, Settled
<1>4. QED
  <2>1. CASE JobStep
    BY <1>1, <1>2, <1>3, <2>1
       DEF JobStep, JobStart, JobExpire, JobSelect, JobDone, JobLoad, JobAccepted, JobRefused, JobAbort
  <2>2. CASE Tick \/ WebhookStep \/ CancelStep \/ UNCHANGED vars
    BY <1>1, <2>2 DEF Tick, WebhookStep, WebhookBegin, WebhookDuplicate, WebhookCommit,
                      WebhookAbort, CancelStep, CancelBegin, CancelCommit, vars
  <2>3. QED
    BY <2>1, <2>2 DEF Next

\* A commit of a success is one Apply.
LEMMA CommitImplements ==
  ASSUME TypeOK, Known, OptOutInv, PaymentInv, SnapshotInv, ItemInv, [Next]_vars,
         NEW h \in Handlers, WebhookCommit(h), Paying(h), Sold' = Sold, Settled' = Settled
  PROVE  Ledger!Next
<1>1. PICK p : p = handler[h].note.pid
  OBVIOUS
<1>2. /\ p \in Pids /\ p \in Settled \ Recorded /\ Recorded' = Recorded \cup {p}
      /\ \A q \in Pids \ {p} : RowsOf(q)' = RowsOf(q) /\ TopupsOf(q)' = TopupsOf(q)
      /\ IF p \in Sold
         THEN \/ RowsOf(p)' = {Len(subs) + 1} /\ TopupsOf(p)' = {}
              \/ RowsOf(p)' = {} /\ TopupsOf(p)' = {Len(ledger) + 1}
         ELSE RowsOf(p)' = RowsOf(p) /\ TopupsOf(p)' = TopupsOf(p)
  BY <1>1, PaidCommit
<1>3. \A q \in Pids \ {p} : Items'[q] = Items[q]
  BY <1>2, ItemsFollow
<1>4. p \in Sold => \E x : Items'[p] = {x}
  <2>1. ASSUME NEW i, RowsOf(p)' = {i}, TopupsOf(p)' = {} PROVE Items'[p] = {<<"row", i>>}
    BY <1>2, <2>1, ItemsFollow
  <2>2. ASSUME NEW i, RowsOf(p)' = {}, TopupsOf(p)' = {i} PROVE Items'[p] = {<<"stars", i>>}
    BY <1>2, <2>2, ItemsFollow
  <2>3. QED
    BY <1>2, <2>1, <2>2
<1>5. p \notin Sold => Items'[p] = Items[p]
  BY <1>2, ItemsFollow
<1>6. IF p \in Sold THEN Ledger!IsSingleton(Items'[p]) ELSE Items'[p] = Items[p]
  BY <1>4, <1>5 DEF Ledger!IsSingleton
<1>7. Ledger!Apply(p)
  BY <1>2, <1>3, <1>6 DEF Ledger!Apply
<1>8. QED
  BY <1>2, <1>7 DEF Ledger!Next

\* Whatever T-Bank repeats, reorders or sends to two requests at once, and
\* wherever a request dies, every step of the system is one step of
\* PaymentLedger on money, or none: a settled payment is applied once, and a
\* purchase yields one row or one top-up in that step
\* (process_tbank_notification_json).
THEOREM WebhookImplementsLedger == Spec => ImplementsLedger
<1>1. TypeOK /\ Known /\ OptOutInv /\ PaymentInv /\ SnapshotInv /\ ItemInv /\ [Next]_vars
        => [Ledger!Next]_Ledger!vars
  <2> SUFFICES ASSUME TypeOK, Known, OptOutInv, PaymentInv, SnapshotInv, ItemInv, [Next]_vars
               PROVE  Ledger!Next \/ UNCHANGED Ledger!vars
    OBVIOUS
  <2>1. ASSUME NEW h \in Handlers, WebhookCommit(h), Paying(h) PROVE Ledger!Next
    <3>1. ~BankStep
      <4>1. handler'[h].note = NoNote /\ handler[h].note # NoNote
        BY <2>1 DEF WebhookCommit, Busy, IdleHandler, TypeOK
      <4>2. BankStep => handler' = handler
        BY DEF BankStep, Checkout, Settle
      <4>3. QED
        BY <4>1, <4>2
    <3>2. QED
      BY <2>1, <3>1, OthersKeepBank, CommitImplements
  <2>2. CASE \A h \in Handlers : WebhookCommit(h) => ~Paying(h)
    <3>1. Recorded' = Recorded /\ Items' = Items
      BY <2>2, NoPaidCommit DEF Items
    <3>2. CASE BankStep
      BY <3>1, <3>2, BankImplements
    <3>3. CASE ~BankStep
      BY <3>1, <3>3, OthersKeepBank DEF Ledger!vars
    <3>4. QED
      BY <3>2, <3>3
  <2>3. QED
    BY <2>1, <2>2
<1>2. QED
  BY <1>1, InitLedger, LedgerInvariants, PTL DEF Spec, ImplementsLedger, Ledger!Spec

-----------------------------------------------------------------------------
(* Access is not taken away early.                                         *)

\* What a step other than an expiry or a purchase may do to a row.
KeepsAccess(db, after) ==
  /\ after.user = db.user /\ after.plan = db.plan /\ after.status = db.status
  /\ after.state = db.state \/ PaidAccess(after.state)
  /\ after.expires = db.expires \/ after.expires >= now

LEMMA GoodStays ==
  ASSUME NEW u, NEW i, Good(subs, u, now, i), DOMAIN subs' = DOMAIN subs,
         \A k \in DOMAIN subs : KeepsAccess(subs[k], subs'[k])
  PROVE  Good(subs', u, now, i)
<1>1. \A k \in DOMAIN subs : k \in Active(subs', u) <=> k \in Active(subs, u)
  BY DEF Active, KeepsAccess
<1>2. Active(subs', u) = Active(subs, u)
  BY <1>1 DEF Active
<1>3. i \in DOMAIN subs
  BY DEF Good, Serves, Active
<1>4. QED
  BY <1>2, <1>3 DEF Good, Serves, KeepsAccess

\* Edits that end no subscription.
Keeps(loaded, edited) ==
  /\ edited.status = loaded.status
  /\ edited.state = loaded.state \/ PaidAccess(edited.state)
  /\ edited.expires = loaded.expires \/ edited.expires >= now

LEMMA EditsKeep ==
  ASSUME NEW row \in Rows, NEW pid, now \in Int
  PROVE  /\ Keeps(row, row)
         /\ Keeps(row, Renewed(row, pid, now)) /\ Keeps(row, RenewalFailed(row))
         /\ Keeps(row, RenewalDue(row, pid)) /\ Keeps(row, Cancelled(row))
<1>1. Keeps(row, row)
  BY DEF Keeps
<1>2. Keeps(row, Renewed(row, pid, now))
  <2>1. Renewed(row, pid, now).status = row.status /\ Renewed(row, pid, now).state = "active"
        /\ Renewed(row, pid, now).expires = Later(row.expires, now) + Period
    BY DEF Renewed, Rows
  <2>2. row.expires \in Int
    BY DEF Rows
  <2>3. Later(row.expires, now) + Period >= now
    BY <2>2, RowsAssumption DEF Later
  <2>4. QED
    BY <2>1, <2>3 DEF Keeps, PaidAccess
<1>3. Keeps(row, RenewalFailed(row)) /\ Keeps(row, RenewalDue(row, pid)) /\ Keeps(row, Cancelled(row))
  BY DEF Keeps, RenewalFailed, RenewalDue, Cancelled, Rows, PaidAccess
<1>4. QED
  BY <1>1, <1>2, <1>3

LEMMA WrittenKeepsAccess ==
  ASSUME NEW db \in Rows, NEW loaded \in Rows, NEW edited, Keeps(loaded, edited)
  PROVE  KeepsAccess(db, Written(db, loaded, edited))
BY WrittenColumns DEF KeepsAccess, Keeps, Column

LEMMA SaveKeepsAccess ==
  ASSUME NEW rows \in Seq(Rows), NEW loaded \in Seq(Rows), NEW edited,
         \A i \in DOMAIN loaded : Keeps(loaded[i], edited[i])
  PROVE  /\ DOMAIN Save(rows, loaded, edited) = DOMAIN rows
         /\ \A i \in DOMAIN rows : KeepsAccess(rows[i], Save(rows, loaded, edited)[i])
<1>1. \A i \in DOMAIN rows : rows[i] \in Rows
  BY ElementOfSeq, LenProperties
<1>2. \A i \in DOMAIN loaded : loaded[i] \in Rows
  BY ElementOfSeq, LenProperties
<1>3. \A i \in DOMAIN rows : KeepsAccess(rows[i], rows[i])
  BY DEF KeepsAccess
<1>4. QED
  BY <1>1, <1>2, <1>3, WrittenKeepsAccess DEF Save

TableKeepsAccess ==
  DOMAIN subs' = DOMAIN subs /\ \A k \in DOMAIN subs : KeepsAccess(subs[k], subs'[k])

\* A commit ends no subscription unless it sells one.
LEMMA CommitAccess ==
  ASSUME TypeOK, TypeOK', Known, NEW h \in Handlers, WebhookCommit(h)
  PROVE  TableKeepsAccess \/ Len(subs') # Len(subs)
<1>1. PICK n : n = handler[h].note
  OBVIOUS
<1>2. PICK snap : snap = handler[h].snap
  OBVIOUS
<1>3. /\ n \in Notes /\ n.pid \in DOMAIN bank /\ snap \in Seq(Rows)
      /\ ApplyNote(n, snap, handler[h].stars)
  BY <1>1, <1>2 DEF WebhookCommit, Busy, TypeOK, Known
<1>4. bank[n.pid] \in Payments /\ n.pid \in Pids /\ subs \in Seq(Rows) /\ now \in Int
  BY <1>3, NoteTypes
<1>5. \A i \in DOMAIN snap : snap[i] \in Rows
  BY <1>3, ElementOfSeq, LenProperties
<1>6. CASE UNCHANGED subs
  BY <1>6 DEF TableKeepsAccess, KeepsAccess
<1>7. CASE ApplySuccessfulRenewal(n, snap)
  <2> DEFINE edited == ExtendLatest(snap, bank[n.pid].user, bank[n.pid].plan, n.pid, now)
  <2>1. subs' = Save(subs, snap, edited)
    BY <1>7 DEF ApplySuccessfulRenewal
  <2>2. \A i \in DOMAIN snap : Keeps(snap[i], edited[i])
    BY <1>4, <1>5, EditsKeep DEF ExtendLatest
  <2> HIDE DEF edited
  <2>3. QED
    BY <1>3, <1>4, <2>1, <2>2, SaveKeepsAccess DEF TableKeepsAccess
<1>8. CASE ApplyRenewalFailure(n, snap)
  <2> DEFINE edited == FailLatest(snap, bank[n.pid].user, bank[n.pid].plan)
  <2>1. subs' = Save(subs, snap, edited)
    BY <1>8 DEF ApplyRenewalFailure
  <2>2. \A i \in DOMAIN snap : Keeps(snap[i], edited[i])
    BY <1>4, <1>5, EditsKeep DEF FailLatest
  <2> HIDE DEF edited
  <2>3. QED
    BY <1>3, <1>4, <2>1, <2>2, SaveKeepsAccess DEF TableKeepsAccess
<1>9. CASE DOMAIN subs' # DOMAIN subs
  <2>1. DOMAIN subs = 1..Len(subs) /\ DOMAIN subs' = 1..Len(subs')
    BY LenProperties DEF TypeOK
  <2>2. QED
    BY <1>9, <2>1
<1>10. CASE Activate(n, snap) /\ bank[n.pid].plan \in PlusPlans
  <2>1. UNCHANGED subs \/ Buys(n.pid)
    BY <1>3, <1>10, ActivationShape
  <2>2. CASE Buys(n.pid)
    <3>1. DOMAIN subs = 1..Len(subs) /\ Len(subs) \in Nat
      BY <1>4, LenProperties
    <3>2. Len(subs) + 1 \in DOMAIN subs' /\ Len(subs) + 1 \notin DOMAIN subs
      BY <2>2, <3>1 DEF Buys
    <3>3. QED
      BY <1>9, <3>2
  <2>3. QED
    BY <1>6, <2>1, <2>2
<1>11. QED
  <2>1. CASE Branch(n) = "paid"
    <3>1. ApplyPaid(n, snap, handler[h].stars)
      BY <1>3, <2>1 DEF ApplyNote
    <3>2. bank[n.pid].plan = StarsTopup \/ bank[n.pid].plan \in PlusPlans
      BY <1>4 DEF Payments, Plans
    <3>3. QED
      BY <1>6, <1>7, <1>10, <3>1, <3>2 DEF ApplyPaid
  <2>2. CASE Branch(n) # "paid"
    BY <1>3, <1>6, <1>8, <2>2 DEF ApplyNote, Branch
  <2>3. QED
    BY <2>1, <2>2

\* Of all steps only a cron run's expiry may end a subscription.
LEMMA StepAccess ==
  ASSUME TypeOK, TypeOK', Known, [Next]_vars
  PROVE  TableKeepsAccess \/ Len(subs') # Len(subs) \/ \E j \in Jobs : JobExpire(j)
<1>0. subs \in Seq(Rows)
  BY DEF TypeOK
<1>1. now \in Int
  BY TimeGoesOn
<1>2. CASE UNCHANGED subs
  BY <1>2 DEF TableKeepsAccess, KeepsAccess
<1>3. ASSUME NEW u \in Users, CancelCommit(u) PROVE TableKeepsAccess
  <2>1. PICK snap : snap = cancel[u].snap
    OBVIOUS
  <2>2. snap \in Seq(Rows) /\ subs' = Save(subs, snap, CancelAll(snap, u))
    BY <1>3, <2>1 DEF CancelCommit, TypeOK
  <2>3. \A i \in DOMAIN snap : snap[i] \in Rows
    BY <2>2, ElementOfSeq, LenProperties
  <2>4. \A i \in DOMAIN snap : Keeps(snap[i], CancelAll(snap, u)[i])
    BY <1>1, <2>3, EditsKeep DEF CancelAll
  <2>5. QED
    BY <1>0, <2>2, <2>4, SaveKeepsAccess DEF TableKeepsAccess
<1>4. ASSUME NEW j \in Jobs, JobRefused(j) PROVE TableKeepsAccess
  <2>1. job[j].pc \in {"init", "charge", "charged"} /\ subs' = Save(subs, SessionRows(j), FailedRows(j))
    BY <1>4 DEF JobRefused, JobFailure
  <2>2. SessionRows(j) \in Seq(Rows) /\ DOMAIN SessionRows(j) = DOMAIN subs
    BY <2>1, SessionTypes
  <2>3. \A i \in DOMAIN subs : SessionRows(j)[i] \in Rows
    BY <2>2, ElementOfSeq, LenProperties
  <2>4. \A i \in DOMAIN subs : Keeps(SessionRows(j)[i], FailedRows(j)[i])
    BY <1>1, <2>3, EditsKeep DEF FailedRows
  <2>5. QED
    BY <1>0, <2>1, <2>2, <2>4, SaveKeepsAccess DEF TableKeepsAccess
<1>5. ASSUME NEW j \in Jobs, JobAccepted(j) PROVE TableKeepsAccess
  <2>1. PICK sid : sid = job[j].sid
    OBVIOUS
  <2> DEFINE new == Written(subs[sid], Loaded(j), RenewalDue(Loaded(j), job[j].pid))
  <2>2. job[j].pc = "charged" /\ subs' = [subs EXCEPT ![sid] = new]
    BY <1>5, <2>1 DEF JobAccepted
  <2>3. Loaded(j) \in Rows /\ sid \in DOMAIN subs
    BY <2>1, <2>2, LoadedType
  <2>4. \A k \in DOMAIN subs : subs[k] \in Rows
    BY <1>0, ElementOfSeq, LenProperties
  <2>5. KeepsAccess(subs[sid], new)
    BY <1>1, <2>3, <2>4, EditsKeep, WrittenKeepsAccess
  <2> HIDE DEF new
  <2>6. QED
    BY <2>2, <2>3, <2>5 DEF TableKeepsAccess, KeepsAccess
<1>6. QED
  <2>1. CASE Tick \/ BankStep
    BY <1>2, <2>1 DEF Tick, BankStep, Checkout, Settle, database
  <2>2. CASE WebhookStep
    BY <1>2, <2>2, CommitAccess DEF WebhookStep, WebhookBegin, WebhookDuplicate, WebhookAbort, database
  <2>3. CASE CancelStep
    BY <1>2, <1>3, <2>3 DEF CancelStep, CancelBegin, database
  <2>4. CASE JobStep
    BY <1>2, <1>4, <1>5, <2>4
       DEF JobStep, JobStart, JobSelect, JobDone, JobLoad, JobInit, JobCharge, JobAbort
  <2>5. CASE UNCHANGED vars
    BY <1>2, <2>5 DEF vars
  <2>6. QED
    BY <2>1, <2>2, <2>3, <2>4, <2>5 DEF Next

\* The expiry of a cron run spares a row it did not find overdue.
LEMMA ExpirySpares ==
  ASSUME TypeOK, NEW j \in Jobs, JobExpire(j), NEW u, NEW at, NEW i, Good(subs, u, at, i),
         ~(i \in DOMAIN job[j].snap /\ job[j].snap[i].expires < job[j].at)
  PROVE  Good(subs', u, at, i)
<1>1. PICK snap : snap = job[j].snap
  OBVIOUS
<1>2. PICK edited : edited = ExpireOverdue(snap, job[j].at)
  OBVIOUS
<1>3. subs \in Seq(Rows) /\ snap \in Seq(Rows) /\ subs' = Save(subs, snap, edited)
  BY <1>1, <1>2 DEF JobExpire, TypeOK, Runs
<1>4. /\ \A k \in DOMAIN subs : subs[k] \in Rows
      /\ \A k \in DOMAIN snap : snap[k] \in Rows
  BY <1>3, ElementOfSeq, LenProperties
<1>5. \A k \in DOMAIN snap : edited[k].status \in {snap[k].status, "superseded"}
  BY <1>2, <1>4 DEF ExpireOverdue, Superseded, Rows
<1>6. DOMAIN subs' = DOMAIN subs
  BY <1>3 DEF Save
<1>7. \A k \in DOMAIN subs : subs'[k].user = subs[k].user
        /\ (subs'[k].status = subs[k].status \/ subs'[k].status = "superseded")
  BY <1>3, <1>4, <1>5, WrittenColumns DEF Save, Column
<1>8. \A k : k \in Active(subs', u) => k \in Active(subs, u)
  BY <1>6, <1>7 DEF Active
<1>9. i \in DOMAIN subs /\ i \in Active(subs, u)
  BY DEF Good, Serves, Active
<1>10. i \in DOMAIN snap => edited[i] = snap[i]
  BY <1>1, <1>2 DEF ExpireOverdue
<1>11. /\ subs'[i].user = subs[i].user /\ subs'[i].plan = subs[i].plan
       /\ subs'[i].status = subs[i].status /\ subs'[i].state = subs[i].state
       /\ subs'[i].expires = subs[i].expires
  BY <1>3, <1>4, <1>9, <1>10, WrittenColumns DEF Save, Column
<1>12. i \in Active(subs', u)
  BY <1>6, <1>9, <1>11 DEF Active
<1>13. QED
  BY <1>8, <1>11, <1>12 DEF Good, Serves

LEMMA ExpiryKeepsPlan ==
  ASSUME TypeOK, NEW j \in Jobs, JobExpire(j), NEW i \in DOMAIN subs
  PROVE  subs'[i].plan = subs[i].plan
<1>1. subs[i] \in Rows
  BY ElementOfSeq, LenProperties DEF TypeOK
<1>2. QED
  BY <1>1, WrittenColumns DEF JobExpire, Save

\* docs/m7_recurring.md: access lasts until expires_at, opted out or not.  What
\* a user is subscribed to changes before that only with a purchase, or by a
\* cron run that found the row overdue (expire_subscriptions_past_due).
THEOREM AccessLasts == Spec => AccessKept
<1>1. TypeOK /\ TypeOK' /\ Known /\ [Next]_vars =>
        [\A u \in Users :
           LET plan == SubscribedPlan(subs, u, now) IN
           plan # "none" /\ SubscribedPlan(subs', u, now') # plan =>
             \/ now' # now \/ Len(subs') # Len(subs)
             \/ \E j \in Jobs, i \in DOMAIN subs :
                  /\ Serves(subs, u, i)
                  /\ job[j].pc = "expire" /\ job'[j].pc = "select"
                  /\ i \in DOMAIN job[j].snap /\ job[j].snap[i].expires < job[j].at]_vars
  <2> SUFFICES ASSUME TypeOK, TypeOK', Known, [Next]_vars, NEW u \in Users,
                      SubscribedPlan(subs, u, now) # "none",
                      SubscribedPlan(subs', u, now') # SubscribedPlan(subs, u, now),
                      now' = now, Len(subs') = Len(subs)
               PROVE  \E j \in Jobs, i \in DOMAIN subs :
                        /\ Serves(subs, u, i)
                        /\ job[j].pc = "expire" /\ job'[j].pc = "select"
                        /\ i \in DOMAIN job[j].snap /\ job[j].snap[i].expires < job[j].at
    OBVIOUS
  <2>1. PICK i \in DOMAIN subs : Good(subs, u, now, i)
    BY GoodOfPlan
  <2>2. DOMAIN subs \subseteq Int /\ DOMAIN subs' \subseteq Int
    <3>1. /\ DOMAIN subs = 1..Len(subs) /\ Len(subs) \in Nat
          /\ DOMAIN subs' = 1..Len(subs') /\ Len(subs') \in Nat
      BY LenProperties DEF TypeOK
    <3>2. QED
      BY <3>1
  <2>3. SubscribedPlan(subs, u, now) = subs[i].plan
    BY <2>1, <2>2, PlanOfGood
  <2>4. Good(subs', u, now, i) /\ subs'[i].plan = subs[i].plan => FALSE
    BY <2>2, <2>3, PlanOfGood
  <2>5. ASSUME TableKeepsAccess PROVE FALSE
    <3>1. Good(subs', u, now, i)
      BY <2>1, <2>5, GoodStays DEF TableKeepsAccess
    <3>2. subs'[i].plan = subs[i].plan
      BY <2>1, <2>5 DEF TableKeepsAccess, KeepsAccess
    <3>3. QED
      BY <2>4, <3>1, <3>2
  <2>6. PICK j \in Jobs : JobExpire(j)
    BY <2>5, StepAccess
  <2>7. job[j].pc = "expire" /\ job'[j].pc = "select"
    BY <2>6 DEF JobExpire, JobGoes, IdleJob, TypeOK
  <2>8. CASE i \in DOMAIN job[j].snap /\ job[j].snap[i].expires < job[j].at
    BY <2>1, <2>7, <2>8 DEF Good
  <2>9. CASE ~(i \in DOMAIN job[j].snap /\ job[j].snap[i].expires < job[j].at)
    <3>1. Good(subs', u, now, i)
      BY <2>1, <2>6, <2>9, ExpirySpares
    <3>2. subs'[i].plan = subs[i].plan
      BY <2>6, ExpiryKeepsPlan
    <3>3. QED
      BY <2>4, <3>1, <3>2
  <2>10. QED
    BY <2>8, <2>9
<1>2. QED
  BY <1>1, LedgerInvariants, PTL DEF Spec, AccessKept

-----------------------------------------------------------------------------
(* No payment is lost.                                                     *)

\* A success is on record, or T-Bank has yet to be answered.
Due(p) == p \in Recorded \/ \E n \in net : n.pid = p /\ IsPaymentSuccess(n)

\* What was due stays due when no notification is answered.
LEMMA DueStays ==
  ASSUME net \subseteq net', Recorded \subseteq Recorded', NEW p, Due(p)
  PROVE  Due(p)'
BY DEF Due, IsPaymentSuccess

\* T-Bank is answered for a notification whose key is on record; a payment it
\* said went through is then recorded.
LEMMA AnsweredIsRecorded ==
  ASSUME NEW n, n.pid \in Pids, Key(n) \in events', Answer(n),
         Recorded \subseteq Recorded', NEW p, Due(p)
  PROVE  Due(p)'
<1>1. CASE p \in Recorded
  BY <1>1 DEF Due
<1>2. ASSUME NEW m \in net, m.pid = p, IsPaymentSuccess(m)
      PROVE  Due(p)'
  <2>1. CASE m \in net'
    BY <1>2, <2>1 DEF Due, IsPaymentSuccess
  <2>2. CASE m \notin net'
    <3>1. m = n
      BY <2>2 DEF Answer
    <3>2. PaidKey(p) \in events'
      BY <1>2, <3>1, KeyOf
    <3>3. p \in Recorded'
      BY <1>2, <3>1, <3>2 DEF Recorded, PaidKey
    <3>4. QED
      BY <3>3 DEF Due
  <2>3. QED
    BY <2>1, <2>2
<1>3. QED
  BY <1>1, <1>2 DEF Due

LEMMA InitDue == Init => NoPaymentLost
BY DEF Init, NoPaymentLost, Settled

LEMMA NextDue ==
  TypeOK /\ Known /\ NoPaymentLost /\ [Next]_vars => NoPaymentLost'
<1> SUFFICES ASSUME TypeOK, Known, NoPaymentLost, [Next]_vars, NEW p \in Settled'
             PROVE  Due(p)'
  BY DEF NoPaymentLost, Due
<1>0. bank \in [DOMAIN bank -> Payments] /\ \A n \in net : n.pid \in Pids
  BY DEF TypeOK, Notes
<1>1. Recorded \subseteq Recorded'
  BY RecordedMoves
<1>2. p \in Settled => Due(p)
  BY DEF NoPaymentLost, Due
<1>3. ASSUME NEW q \in Pids, NEW s \in Statuses, Settle(q, s) PROVE Due(p)'
  <2>1. /\ q \in DOMAIN bank /\ bank[q] \in Payments /\ Settles(bank[q].status, s)
        /\ bank' = [bank EXCEPT ![q].status = s]
        /\ net' = net \cup {[pid |-> q, status |-> s]}
    BY <1>0, <1>3 DEF Settle
  <2>2. /\ DOMAIN bank' = DOMAIN bank /\ bank'[q].status = s
        /\ \A r \in DOMAIN bank : r # q => bank'[r] = bank[r]
    BY <1>0, <2>1 DEF Payments
  <2>3. CASE p \in Settled
    BY <1>1, <1>2, <2>1, <2>3, DueStays
  <2>4. CASE p \notin Settled
    <3>1. p = q /\ s \in {"AUTHORIZED", "CONFIRMED"}
      BY <2>1, <2>2, <2>4 DEF Settled, Settles
    <3>2. PICK n : n = [pid |-> q, status |-> s]
      OBVIOUS
    <3>3. n \in net' /\ n.pid = p /\ n.status \in {"AUTHORIZED", "CONFIRMED"}
      BY <2>1, <3>1, <3>2
    <3>4. QED
      BY <3>3 DEF Due, IsPaymentSuccess
  <2>5. QED
    BY <2>3, <2>4
<1>4. ASSUME \A q \in Pids, s \in Statuses : ~Settle(q, s) PROVE Settled' = Settled
  <2>1. CASE BankStep
    <3>1. PICK u \in Users, plan \in Offered, q \in Pids : Checkout(u, plan, q)
      BY <1>4, <2>1 DEF BankStep
    <3>2. /\ q \notin DOMAIN bank
          /\ bank' = [r \in DOMAIN bank \cup {q} |->
                        IF r = q THEN [status |-> "open", charged |-> Initial = Initial,
                                       user |-> u, plan |-> plan, kind |-> Initial]
                        ELSE bank[r]]
      BY <3>1 DEF Checkout, Issue
    <3>3. /\ DOMAIN bank' = DOMAIN bank \cup {q} /\ bank'[q].status = "open"
          /\ \A r \in DOMAIN bank : bank'[r] = bank[r]
      BY <3>2
    <3>4. QED
      BY <3>2, <3>3 DEF Settled
  <2>2. CASE ~BankStep
    BY <2>2, OthersKeepBank
  <2>3. QED
    BY <2>1, <2>2
<1>5. ASSUME NEW h \in Handlers, NEW n \in net, WebhookDuplicate(h, n), Due(p) PROVE Due(p)'
  <2>1. n.pid \in Pids /\ Key(n) \in events' /\ Answer(n)
    BY <1>0, <1>5 DEF WebhookDuplicate, database
  <2>2. QED
    BY <1>1, <1>5, <2>1, AnsweredIsRecorded
<1>6. ASSUME NEW h \in Handlers, WebhookCommit(h), Due(p) PROVE Due(p)'
  <2>1. handler[h].note \in Notes
    BY <1>6 DEF WebhookCommit, Busy, TypeOK
  <2>2. /\ handler[h].note.pid \in Pids /\ Key(handler[h].note) \in events'
        /\ Answer(handler[h].note)
    BY <1>6, <2>1 DEF WebhookCommit, Notes
  <2>3. QED
    BY <1>1, <1>6, <2>2, AnsweredIsRecorded
<1>7. \/ net \subseteq net'
      \/ \E h \in Handlers, n \in net : WebhookDuplicate(h, n)
      \/ \E h \in Handlers : WebhookCommit(h)
  BY DEF Next, Tick, BankStep, Checkout, Settle, WebhookStep, WebhookBegin, WebhookAbort,
         CancelStep, CancelBegin, CancelCommit, JobStep, JobStart, JobExpire, JobSelect,
         JobDone, JobLoad, JobInit, JobCharge, JobAccepted, JobRefused, JobAbort, JobGoes, vars
<1>8. QED
  <2>1. CASE \E q \in Pids, s \in Statuses : Settle(q, s)
    BY <1>3, <2>1
  <2>2. CASE \A q \in Pids, s \in Statuses : ~Settle(q, s)
    <3>1. Due(p)
      BY <1>2, <1>4, <2>2
    <3>2. QED
      BY <1>1, <1>5, <1>6, <1>7, <3>1, DueStays
  <2>3. QED
    BY <2>1, <2>2

\* Every payment that went through is on record or still notified of by T-Bank:
\* an answer OK (process_tbank_notification_json) is never given for a success
\* that is not committed, whatever dies, is repeated or runs at once.
THEOREM PaymentsAreNotLost == Spec => []NoPaymentLost
BY InitTyped, NextTyped, InitDue, NextDue, PTL DEF Spec
=============================================================================
