------------------------- MODULE StubBilling_proofs -------------------------
(***************************************************************************)
(* Proofs about StubBilling, for any number of users, activations and cron *)
(* runs at once, with the lemmas about edits of SubscriptionRows_proofs.   *)
(***************************************************************************)
EXTENDS StubBilling, SubscriptionRows_proofs, FiniteSetTheorems

LEMMA IdleType ==
  /\ IdleRequest \in [open : BOOLEAN, user : Users, plan : PlusPlans, snap : Seq(Rows)]
  /\ IdleCancel \in [open : BOOLEAN, snap : Seq(Rows)]
  /\ IdleRun \in [open : BOOLEAN, at : 0..MaxTime, snap : Seq(Rows)]
<1>1. <<>> \in Seq(Rows)
  BY EmptySeq
<1>2. (CHOOSE u \in Users : TRUE) \in Users
  BY StubAssumption
<1>3. 0 \in 0..MaxTime
  BY StubAssumption
<1>4. ConsumerPlus \in PlusPlans
  BY DEF PlusPlans
<1>5. QED
  BY <1>1, <1>2, <1>3, <1>4 DEF IdleRequest, IdleCancel, IdleRun

\* The table after the flush of each operation.
LEMMA FlushTypes ==
  ASSUME subs \in Seq(Rows), NEW snap \in Seq(Rows), NEW u \in Users, NEW at
  PROVE  /\ Save(subs, snap, SupersedeAll(snap, u)) \in Seq(Rows)
         /\ Save(subs, snap, CancelAll(snap, u)) \in Seq(Rows)
         /\ Save(subs, snap, ExpireOverdue(snap, at)) \in Seq(Rows)
BY SaveType, SupersedeAllType, CancelAllType, ExpireOverdueType

LEMMA NextTyped ==
  ASSUME TypeOK, [Next]_vars
  PROVE  TypeOK'
<1> USE DEF TypeOK
<1>1. CASE Tick
  BY <1>1, StubAssumption DEF Tick
<1>2. ASSUME NEW r \in Requests, NEW u \in Users, NEW plan \in PlusPlans, ActivateBegin(r, u, plan)
      PROVE  TypeOK'
  BY <1>2 DEF ActivateBegin
<1>3. ASSUME NEW r \in Requests, ActivateCommit(r) PROVE TypeOK'
  <2> DEFINE q == request[r]
             saved == Save(subs, q.snap, SupersedeAll(q.snap, q.user))
             row == NewRow(q.user, q.plan, DebugPid, TRUE, now)
  <2>1. q.user \in Users /\ q.plan \in PlusPlans /\ q.snap \in Seq(Rows) /\ now \in Int
    BY StubAssumption
  <2>2. saved \in Seq(Rows) /\ row \in Rows
    BY <2>1, FlushTypes, NewRowType, StubAssumption
  <2>3. Append(saved, row) \in Seq(Rows)
    BY <2>2, AppendProperties
  <2>4. QED
    BY <1>3, <2>3, IdleType DEF ActivateCommit
<1>4. ASSUME NEW u \in Users, CancelBegin(u) PROVE TypeOK'
  BY <1>4 DEF CancelBegin
<1>5. ASSUME NEW u \in Users, CancelCommit(u) PROVE TypeOK'
  BY <1>5, FlushTypes, IdleType DEF CancelCommit
<1>6. ASSUME NEW j \in Runs, RunBegin(j) PROVE TypeOK'
  BY <1>6 DEF RunBegin
<1>7. ASSUME NEW j \in Runs, RunCommit(j) PROVE TypeOK'
  <2>1. PICK u \in Users : TRUE
    BY StubAssumption
  <2>2. QED
    BY <1>7, <2>1, FlushTypes, IdleType DEF RunCommit
<1>8. CASE Dies
  <2>1. ASSUME NEW r \in Requests, request' = [request EXCEPT ![r] = IdleRequest],
               UNCHANGED <<now, subs, cancel, run>>
        PROVE  TypeOK'
    BY <2>1, IdleType
  <2>2. ASSUME NEW u \in Users, cancel' = [cancel EXCEPT ![u] = IdleCancel],
               UNCHANGED <<now, subs, request, run>>
        PROVE  TypeOK'
    BY <2>2, IdleType
  <2>3. ASSUME NEW j \in Runs, run' = [run EXCEPT ![j] = IdleRun],
               UNCHANGED <<now, subs, request, cancel>>
        PROVE  TypeOK'
    BY <2>3, IdleType
  <2> HIDE DEF TypeOK
  <2>4. QED
    BY <1>8, <2>1, <2>2, <2>3 DEF Dies
<1>9. CASE UNCHANGED vars
  BY <1>9 DEF vars
<1>10. QED
  BY <1>1, <1>2, <1>3, <1>4, <1>5, <1>6, <1>7, <1>8, <1>9 DEF Next

\* The table, the requests, the opt-outs and the runs always have the shape that
\* StubBillingCheckoutService gives them, stale as the snapshots may be.
THEOREM StubTypeCorrect == Spec => []TypeOK
<1>1. Init => TypeOK
  BY IdleType, EmptySeq, StubAssumption DEF Init, TypeOK
<1>2. TypeOK /\ [Next]_vars => TypeOK'
  BY NextTyped
<1>3. QED
  BY <1>1, <1>2, PTL DEF Spec

-----------------------------------------------------------------------------
\* What the operations of the stub do to a row they loaded: nothing, the
\* opt-out, or the end of an active row.
StubEdit(loaded, edited) ==
  \/ edited = loaded
  \/ edited.state = "cancelled" /\ edited.status = loaded.status
  \/ edited.status = "superseded" /\ loaded.status # "superseded"

StubEdits(loaded, edited) ==
  /\ edited \in Seq(Rows) /\ DOMAIN edited = DOMAIN loaded
  /\ \A i \in DOMAIN loaded : StubEdit(loaded[i], edited[i])

\* What the property allows to become of a row.
Sticks(db, after) ==
  db.state = "cancelled" => after.state = "cancelled" \/ after.status = "superseded"

\* Such an edit keeps an opt-out that another transaction committed since.
LEMMA WrittenSticks ==
  ASSUME NEW db \in Rows, NEW loaded \in Rows, NEW edited \in Rows, StubEdit(loaded, edited)
  PROVE  Sticks(db, Written(db, loaded, edited))
<1>1. /\ Written(db, loaded, edited).state = Column(db.state, loaded.state, edited.state)
      /\ Written(db, loaded, edited).status = Column(db.status, loaded.status, edited.status)
  BY DEF Written, Rows
<1>2. QED
  BY <1>1 DEF StubEdit, Sticks, Column

LEMMA SaveSticks ==
  ASSUME NEW rows \in Seq(Rows), NEW loaded \in Seq(Rows), NEW edited, StubEdits(loaded, edited)
  PROVE  \A i \in DOMAIN rows : Sticks(rows[i], Save(rows, loaded, edited)[i])
<1>1. \A i \in DOMAIN rows : rows[i] \in Rows
  BY ElementOfSeq, LenProperties
<1>2. \A i \in DOMAIN loaded : loaded[i] \in Rows /\ edited[i] \in Rows
  BY ElementOfSeq, LenProperties DEF StubEdits
<1>3. QED
  BY <1>1, <1>2, WrittenSticks DEF Save, StubEdits, Sticks

LEMMA StubOperations ==
  ASSUME NEW rows \in Seq(Rows), NEW u, NEW at
  PROVE  /\ StubEdits(rows, SupersedeAll(rows, u))
         /\ StubEdits(rows, CancelAll(rows, u))
         /\ StubEdits(rows, ExpireOverdue(rows, at))
<1>1. \A i \in DOMAIN rows : rows[i] \in Rows
  BY ElementOfSeq, LenProperties
<1>2. \A i \in DOMAIN rows : /\ Superseded(rows[i]).status = "superseded"
                             /\ Cancelled(rows[i]).state = "cancelled"
                             /\ Cancelled(rows[i]).status = rows[i].status
  BY <1>1 DEF Superseded, Cancelled, Rows
<1>3. \A i \in DOMAIN rows : /\ StubEdit(rows[i], SupersedeAll(rows, u)[i])
                             /\ StubEdit(rows[i], CancelAll(rows, u)[i])
                             /\ StubEdit(rows[i], ExpireOverdue(rows, at)[i])
  BY <1>2 DEF StubEdit, SupersedeAll, CancelAll, ExpireOverdue, Active
<1>4. QED
  BY <1>3, SupersedeAllType, CancelAllType, ExpireOverdueType DEF StubEdits

RowSticks == \A i \in DOMAIN subs : Sticks(subs[i], subs'[i])

LEMMA NextSticks ==
  ASSUME TypeOK, [Next]_vars
  PROVE  RowSticks
<1>1. CASE UNCHANGED subs
  BY <1>1 DEF RowSticks, Sticks
<1>2. ASSUME NEW r \in Requests, ActivateCommit(r) PROVE RowSticks
  <2> DEFINE q == request[r]
             saved == Save(subs, q.snap, SupersedeAll(q.snap, q.user))
             row == NewRow(q.user, q.plan, DebugPid, TRUE, now)
  <2>1. q.user \in Users /\ q.plan \in PlusPlans /\ q.snap \in Seq(Rows) /\ now \in Int
    BY StubAssumption DEF TypeOK
  <2>2. /\ subs \in Seq(Rows) /\ row \in Rows
        /\ saved \in Seq(Rows) /\ DOMAIN saved = DOMAIN subs
    <3>1. subs \in Seq(Rows)
      BY DEF TypeOK
    <3>2. row \in Rows
      BY <2>1, NewRowType, StubAssumption
    <3>3. /\ SupersedeAll(q.snap, q.user) \in Seq(Rows)
          /\ DOMAIN SupersedeAll(q.snap, q.user) = DOMAIN q.snap
      BY <2>1, SupersedeAllType
    <3>4. saved \in Seq(Rows) /\ DOMAIN saved = DOMAIN subs
      BY <2>1, <3>1, <3>3, SaveType
    <3>5. QED
      BY <3>1, <3>2, <3>4
  <2>3. \A i \in DOMAIN subs : Append(saved, row)[i] = saved[i]
    <3> HIDE DEF saved, row
    <3>1. QED
      BY <2>2, AppendProperties, LenProperties
  <2>4. \A i \in DOMAIN subs : Sticks(subs[i], saved[i])
    BY <2>1, <2>2, SaveSticks, StubOperations
  <2>5. subs' = Append(saved, row)
    BY <1>2 DEF ActivateCommit
  <2>6. QED
    BY <2>3, <2>4, <2>5 DEF RowSticks
<1>3. ASSUME NEW u \in Users, CancelCommit(u) PROVE RowSticks
  BY <1>3, SaveSticks, StubOperations DEF CancelCommit, RowSticks, TypeOK
<1>4. ASSUME NEW j \in Runs, RunCommit(j) PROVE RowSticks
  BY <1>4, SaveSticks, StubOperations DEF RunCommit, RowSticks, TypeOK
<1>5. QED
  BY <1>1, <1>2, <1>3, <1>4
     DEF Next, Tick, ActivateBegin, CancelBegin, RunBegin, Dies, vars

\* An opt-out lasts until its row is superseded (cancel_subscription,
\* mark_subscription_expired): no session that loaded the row before it takes
\* it back.
THEOREM OptOutSticks == Spec => CancelSticks
<1>1. TypeOK /\ [Next]_vars =>
        [\A i \in DOMAIN subs : subs[i].state = "cancelled"
           => subs'[i].state = "cancelled" \/ subs'[i].status = "superseded"]_vars
  BY NextSticks DEF RowSticks, Sticks
<1>2. QED
  BY <1>1, StubTypeCorrect, PTL DEF Spec, CancelSticks
-----------------------------------------------------------------------------
(* How the table grows.                                                    *)

\* What the flush of any operation of the stub may do to a row.
StubWrite(db, after) ==
  /\ after.user = db.user /\ after.plan = db.plan /\ after.meta = db.meta
  /\ after.expires = db.expires
  /\ after.status = db.status \/ after.status = "superseded"
  /\ after.status = "active" => after.state = db.state \/ PaidAccess(after.state)

StubWrites(rows, saved) ==
  /\ DOMAIN saved = DOMAIN rows
  /\ \A i \in DOMAIN rows : StubWrite(rows[i], saved[i])

\* The edit such a flush writes: it ends a row in its status and its state at once.
Ends(loaded, edited) ==
  /\ edited.expires = loaded.expires /\ edited.meta = loaded.meta
  /\ edited.status = loaded.status \/ edited.status = "superseded"
  /\ \/ edited.state = loaded.state
     \/ PaidAccess(edited.state)
     \/ edited.status = "superseded" /\ loaded.status # "superseded"

LEMMA SaveWrites ==
  ASSUME NEW rows \in Seq(Rows), NEW loaded \in Seq(Rows), NEW edited,
         \A i \in DOMAIN loaded : Ends(loaded[i], edited[i])
  PROVE  StubWrites(rows, Save(rows, loaded, edited))
<1>1. \A i \in DOMAIN rows : rows[i] \in Rows
  BY ElementOfSeq, LenProperties
<1>2. \A i \in DOMAIN rows : StubWrite(rows[i], rows[i])
  BY DEF StubWrite
<1>3. ASSUME NEW db \in Rows, NEW old, NEW new, Ends(old, new) PROVE StubWrite(db, Written(db, old, new))
  BY <1>3, WrittenColumns DEF StubWrite, Ends, Column
<1>4. QED
  BY <1>1, <1>2, <1>3 DEF Save, StubWrites

LEMMA OperationsEnd ==
  ASSUME NEW rows \in Seq(Rows), NEW u, NEW at, NEW i \in DOMAIN rows
  PROVE  /\ Ends(rows[i], SupersedeAll(rows, u)[i])
         /\ Ends(rows[i], CancelAll(rows, u)[i])
         /\ Ends(rows[i], ExpireOverdue(rows, at)[i])
<1>1. rows[i] \in Rows
  BY ElementOfSeq, LenProperties
<1>2. /\ Superseded(rows[i]).status = "superseded"
      /\ Superseded(rows[i]).meta = rows[i].meta /\ Cancelled(rows[i]).meta = rows[i].meta
      /\ Cancelled(rows[i]).status = rows[i].status /\ PaidAccess(Cancelled(rows[i]).state)
  BY <1>1 DEF Superseded, Cancelled, Rows, PaidAccess
<1>3. Superseded(rows[i]).expires = rows[i].expires /\ Cancelled(rows[i]).expires = rows[i].expires
  BY <1>1, EditsKeepTime
<1>4. QED
  BY <1>2, <1>3 DEF Ends, SupersedeAll, CancelAll, ExpireOverdue, Active

\* The row an activation adds, and the table as a step leaves it.
Bought(r) ==
  /\ ActivateCommit(r)
  /\ DOMAIN subs' = DOMAIN subs \cup {Len(subs) + 1} /\ Len(subs') = Len(subs) + 1
  /\ \A i \in DOMAIN subs : StubWrite(subs[i], subs'[i])
  /\ subs'[Len(subs) + 1] = NewRow(request[r].user, request[r].plan, DebugPid, TRUE, now)

LEMMA ActivationShape == ASSUME TypeOK, NEW r \in Requests, ActivateCommit(r) PROVE Bought(r)
<1> DEFINE q == request[r]
           edited == SupersedeAll(q.snap, q.user)
           saved == Save(subs, q.snap, edited)
           row == NewRow(q.user, q.plan, DebugPid, TRUE, now)
<1>1. /\ q.user \in Users /\ q.plan \in PlusPlans /\ q.snap \in Seq(Rows) /\ now \in Int
      /\ subs \in Seq(Rows)
  BY StubAssumption DEF TypeOK
<1>2. row \in Rows
  BY <1>1, NewRowType, StubAssumption
<1>3. edited \in Seq(Rows) /\ DOMAIN edited = DOMAIN q.snap
  BY <1>1, SupersedeAllType
<1>4. saved \in Seq(Rows) /\ DOMAIN saved = DOMAIN subs /\ Len(saved) = Len(subs)
  BY <1>1, <1>3, SaveType
<1>5. StubWrites(subs, saved)
  <2>1. \A i \in DOMAIN q.snap : Ends(q.snap[i], edited[i])
    BY <1>1, OperationsEnd
  <2> HIDE DEF q, edited
  <2>2. QED
    BY <1>1, <2>1, SaveWrites
<1>6. subs' = Append(saved, row)
  BY DEF ActivateCommit
<1> HIDE DEF saved, row
<1>7. /\ \A i \in DOMAIN saved : subs'[i] = saved[i]
      /\ subs'[Len(saved) + 1] = row /\ Len(subs') = Len(saved) + 1
      /\ subs' \in Seq(Rows)
  BY <1>2, <1>4, <1>6, AppendProperties, LenProperties
<1>8. /\ DOMAIN subs' = 1..(Len(subs) + 1) /\ DOMAIN subs = 1..Len(subs) /\ Len(subs) \in Nat
  BY <1>1, <1>4, <1>7, LenProperties
<1>9. DOMAIN subs' = DOMAIN subs \cup {Len(subs) + 1}
  BY <1>8
<1>10. QED
  BY <1>4, <1>5, <1>7, <1>9 DEF Bought, StubWrites, row

LEMMA StepShape ==
  ASSUME TypeOK, [Next]_vars
  PROVE  StubWrites(subs, subs') \/ \E r \in Requests : Bought(r)
<1>1. CASE UNCHANGED subs
  BY <1>1 DEF StubWrites, StubWrite
<1>2. ASSUME NEW u \in Users, CancelCommit(u) PROVE StubWrites(subs, subs')
  <2>1. PICK snap : snap = cancel[u].snap
    OBVIOUS
  <2>2. snap \in Seq(Rows) /\ subs \in Seq(Rows) /\ subs' = Save(subs, snap, CancelAll(snap, u))
    BY <1>2, <2>1 DEF CancelCommit, TypeOK
  <2>3. QED
    BY <2>2, SaveWrites, OperationsEnd
<1>3. ASSUME NEW j \in Runs, RunCommit(j) PROVE StubWrites(subs, subs')
  <2>1. PICK snap : snap = run[j].snap
    OBVIOUS
  <2>2. PICK at : at = run[j].at
    OBVIOUS
  <2>3. snap \in Seq(Rows) /\ subs \in Seq(Rows) /\ subs' = Save(subs, snap, ExpireOverdue(snap, at))
    BY <1>3, <2>1, <2>2 DEF RunCommit, TypeOK
  <2>4. QED
    BY <2>3, SaveWrites, OperationsEnd
<1>4. QED
  BY <1>1, <1>2, <1>3, ActivationShape
     DEF Next, Tick, ActivateBegin, CancelBegin, RunBegin, Dies, vars

LEMMA TimeGoesOn == ASSUME TypeOK, [Next]_vars PROVE now' \in Int /\ now \in Int /\ now <= now'
<1>1. now \in 0..MaxTime
  BY DEF TypeOK
<1>2. now \in Int
  BY <1>1, StubAssumption
<1>3. now' = now \/ now' = now + 1
  BY DEF Next, Tick, ActivateBegin, ActivateCommit, CancelBegin, CancelCommit, RunBegin,
         RunCommit, Dies, vars
<1>4. QED
  BY <1>2, <1>3

-----------------------------------------------------------------------------
(* The rows of the table.                                                  *)

\* Every row was bought by the debug payment and serves as long as it is active;
\* a later row ends no earlier.
RowInv ==
  /\ \A i \in DOMAIN subs :
       /\ subs[i].meta.ext = DebugPid
       /\ subs[i].status = "active" => PaidAccess(subs[i].state)
       /\ subs[i].expires <= now + Period
  /\ \A i, k \in DOMAIN subs : i <= k => subs[i].expires <= subs[k].expires

LEMMA InitRow == Init => RowInv
BY DEF Init, RowInv

LEMMA NextRow == ASSUME TypeOK, RowInv, [Next]_vars PROVE RowInv'
<1>1. now' \in Int /\ now \in Int /\ now <= now' /\ Period \in Nat
  BY TimeGoesOn, RowsAssumption
<1>2. \A i \in DOMAIN subs : subs[i] \in Rows /\ subs[i].expires \in Int
  <2>1. \A i \in DOMAIN subs : subs[i] \in Rows
    BY ElementOfSeq, LenProperties DEF TypeOK
  <2>2. QED
    BY <2>1 DEF Rows
<1>3. ASSUME NEW i \in DOMAIN subs, StubWrite(subs[i], subs'[i])
      PROVE  /\ subs'[i].meta.ext = DebugPid
             /\ subs'[i].status = "active" => PaidAccess(subs'[i].state)
             /\ subs'[i].expires <= now' + Period
             /\ subs'[i].expires = subs[i].expires
  <2>1. subs[i].expires <= now' + Period
    BY <1>1, <1>2 DEF RowInv
  <2>2. QED
    BY <1>3, <2>1 DEF RowInv, StubWrite
<1>4. CASE StubWrites(subs, subs')
  BY <1>3, <1>4 DEF RowInv, StubWrites
<1>5. ASSUME NEW r \in Requests, Bought(r) PROVE RowInv'
  <2>1. PICK n : n = Len(subs) + 1
    OBVIOUS
  <2> DEFINE row == NewRow(request[r].user, request[r].plan, DebugPid, TRUE, now)
  <2>2. /\ row.meta.ext = DebugPid /\ PaidAccess(row.state) /\ row.expires = now + Period
    BY DEF NewRow, PaidAccess
  <2>3. DOMAIN subs' = DOMAIN subs \cup {n} /\ subs'[n] = row
    BY <1>5, <2>1 DEF Bought
  <2> HIDE DEF row
  <2>4. now' = now
    BY <1>5 DEF Bought, ActivateCommit
  <2>5. \A i \in DOMAIN subs : i < n
    <3>1. DOMAIN subs = 1..Len(subs) /\ Len(subs) \in Nat
      BY LenProperties DEF TypeOK
    <3>2. QED
      BY <2>1, <3>1
  <2>6. \A i \in DOMAIN subs : StubWrite(subs[i], subs'[i])
    BY <1>5 DEF Bought
  <2>7. \A i \in DOMAIN subs :
          /\ subs'[i].meta.ext = DebugPid
          /\ subs'[i].status = "active" => PaidAccess(subs'[i].state)
          /\ subs'[i].expires <= now' + Period
          /\ subs'[i].expires = subs[i].expires
    BY <1>3, <2>6
  <2>8. subs'[n].expires <= now' + Period
    BY <1>1, <2>2, <2>3, <2>4
  <2>9. ASSUME NEW i \in DOMAIN subs', NEW k \in DOMAIN subs', i <= k
        PROVE  subs'[i].expires <= subs'[k].expires
    <3>1. n \in Int /\ \A m \in DOMAIN subs : m \in Int
      <4>1. DOMAIN subs = 1..Len(subs) /\ Len(subs) \in Nat
        BY LenProperties DEF TypeOK
      <4>2. QED
        BY <2>1, <4>1
    <3>2. CASE k = n
      <4>1. subs'[k].expires = now + Period
        BY <2>2, <2>3, <3>2
      <4>2. subs'[i].expires <= now + Period
        BY <2>3, <2>4, <2>7, <2>8
      <4>3. QED
        BY <4>1, <4>2
    <3>3. CASE k # n
      <4>1. k \in DOMAIN subs /\ i \in DOMAIN subs
        BY <2>3, <2>5, <2>9, <3>1, <3>3
      <4>2. QED
        BY <2>7, <2>9, <4>1 DEF RowInv
    <3>4. QED
      BY <3>2, <3>3
  <2>10. QED
    BY <2>2, <2>3, <2>7, <2>8, <2>9 DEF RowInv
<1>6. QED
  BY <1>4, <1>5, StepShape

\* Of rows numbered from 1, some has the highest id: the rows above each form a
\* family of finite sets, and one of them contains no other.
LEMMA LastExists ==
  ASSUME NEW n \in Nat, NEW T \in SUBSET (1..n), T # {}
  PROVE  \E m \in T : \A k \in T : k <= m
<1> DEFINE Above(m) == {k \in T : k > m}
           F == {Above(m) : m \in T}
<1>0. T \subseteq 1..n
  OBVIOUS
<1>1. IsFiniteSet(T) /\ \A k \in T : k \in Int
  <2>1. IsFiniteSet(1..n)
    BY FS_Interval
  <2>2. IsFiniteSet(T)
    BY <1>0, <2>1, FS_Subset
  <2>3. \A k \in 1..n : k \in Int
    OBVIOUS
  <2>4. QED
    BY <1>0, <2>2, <2>3
<1>2. IsWellFoundedOn(StrictSubsetOrdering(T), SUBSET T)
  BY <1>1, FS_StrictSubsetOrderingWellFounded, FS_FiniteSubsetsOfFinite
<1>3. F \subseteq SUBSET T /\ F # {}
  OBVIOUS
<1>4. \E X \in F : \A Y \in F : ~ (<<Y, X>> \in StrictSubsetOrdering(T))
  <2> HIDE DEF F
  <2>1. QED
    BY <1>2, <1>3, WFMin
<1>5. PICK m \in T : \A Y \in F : ~ (<<Y, Above(m)>> \in StrictSubsetOrdering(T))
  BY <1>4
<1>6. ASSUME NEW k \in T, k > m PROVE FALSE
  <2>1. Above(k) \in F
    OBVIOUS
  <2>2. k \in Above(m) /\ k \notin Above(k)
    BY <1>1, <1>6
  <2>3. Above(k) \subseteq Above(m)
    <3>1. \A x \in T : x \in Int /\ k \in Int /\ m \in Int
      BY <1>1, <1>6
    <3>2. \A x \in T : x > k => x > m
      BY <1>6, <3>1
    <3>3. QED
      BY <3>2
  <2>4. Above(k) # Above(m)
    BY <2>2
  <2>5. Above(k) \in SUBSET T /\ Above(m) \in SUBSET T
    OBVIOUS
  <2> HIDE DEF Above
  <2>6. <<Above(k), Above(m)>> \in StrictSubsetOrdering(T)
    BY <2>3, <2>4, <2>5 DEF StrictSubsetOrdering
  <2>7. QED
    BY <1>5, <2>1, <2>6
<1>7. QED
  BY <1>1, <1>6

LEMMA InvServes == ASSUME TypeOK, RowInv PROVE PaidRowServes
<1> SUFFICES ASSUME NEW u \in Users, NEW i \in Active(subs, u), subs[i].expires >= now
             PROVE  SubscribedPlan(subs, u, now) # "none"
  BY DEF PaidRowServes
<1>1. /\ subs \in Seq(Rows) /\ DOMAIN subs = 1..Len(subs) /\ Len(subs) \in Nat
      /\ \A k \in DOMAIN subs : subs[k] \in Rows
  BY LenProperties, ElementOfSeq DEF TypeOK
<1>2. Active(subs, u) \in SUBSET (1..Len(subs)) /\ Active(subs, u) # {}
  BY <1>1 DEF Active
<1>3. PICK m \in Active(subs, u) : \A k \in Active(subs, u) : k <= m
  BY <1>1, <1>2, LastExists
<1>4. /\ m \in DOMAIN subs /\ i \in DOMAIN subs /\ i <= m
      /\ subs[m].status = "active" /\ subs[m].plan \in PlusPlans
  BY <1>1, <1>3 DEF Active, Rows
<1>5. subs[m].expires >= now
  <2>1. now \in Int /\ subs[m].expires \in Int /\ subs[i].expires \in Int
    <3>1. now \in 0..MaxTime /\ subs[m] \in Rows /\ subs[i] \in Rows
      BY <1>1, <1>4 DEF TypeOK
    <3>2. QED
      BY <3>1, StubAssumption DEF Rows
  <2>2. subs[i].expires <= subs[m].expires
    BY <1>4 DEF RowInv
  <2>3. QED
    BY <2>1, <2>2
<1>6. Good(subs, u, now, m)
  BY <1>3, <1>4, <1>5 DEF Good, Serves, RowInv
<1>7. SubscribedPlan(subs, u, now) = subs[m].plan
  BY <1>1, <1>6, PlanOfGood
<1>8. QED
  BY <1>4, <1>7 DEF PlusPlans, ConsumerPlus, BusinessMarketer

\* resolve_plan_code looks at the newest active row alone.  No interleaving of
\* activations, opt-outs and cron runs, however stale, leaves a user whose older
\* row is active and not over without a subscription.
THEOREM PaidRowsServe == Spec => []PaidRowServes
<1>1. Init => TypeOK /\ RowInv
  BY InitRow, IdleType, EmptySeq, StubAssumption DEF Init, TypeOK
<1>2. TypeOK /\ RowInv /\ [Next]_vars => (TypeOK /\ RowInv)'
  BY NextTyped, NextRow
<1>3. TypeOK /\ RowInv => PaidRowServes
  BY InvServes
<1>4. QED
  BY <1>1, <1>2, <1>3, PTL DEF Spec

-----------------------------------------------------------------------------
(* The rows of one user.                                                   *)

Owned(u) == {i \in DOMAIN subs : subs[i].user = u}
OpenFor(u) == {r \in Requests : request[r].open /\ request[r].user = u}

LEMMA CountsAreNat ==
  ASSUME TypeOK, NEW u
  PROVE  /\ IsFiniteSet(Owned(u)) /\ Cardinality(Owned(u)) \in Nat
         /\ IsFiniteSet(OpenFor(u)) /\ Cardinality(OpenFor(u)) \in Nat
         /\ Cardinality(Requests) \in Nat /\ Cardinality(OpenFor(u)) <= Cardinality(Requests)
<1>1. DOMAIN subs = 1..Len(subs) /\ Len(subs) \in Nat
  BY LenProperties DEF TypeOK
<1>2. IsFiniteSet(DOMAIN subs)
  BY <1>1, FS_Interval
<1>3. Owned(u) \subseteq DOMAIN subs /\ OpenFor(u) \subseteq Requests
  BY DEF Owned, OpenFor
<1>4. IsFiniteSet(Owned(u))
  BY <1>2, <1>3, FS_Subset
<1>5. IsFiniteSet(Requests)
  BY StubAssumption
<1>6. IsFiniteSet(OpenFor(u)) /\ Cardinality(OpenFor(u)) <= Cardinality(Requests)
  BY <1>3, <1>5, FS_Subset
<1>7. QED
  BY <1>4, <1>5, <1>6, FS_CardinalityType

\* An activation begins only for a user without a row: every row is a debug one.
LEMMA BeginCounts ==
  ASSUME TypeOK, RowInv, RowsBound,
         NEW r \in Requests, NEW v \in Users, NEW plan \in PlusPlans, ActivateBegin(r, v, plan)
  PROVE  RowsBound'
<1> SUFFICES ASSUME NEW u \in Users
             PROVE  Cardinality(Owned(u)') + Cardinality(OpenFor(u)') <= Cardinality(Requests)
  BY DEF RowsBound, Owned, OpenFor
<1>2. Owned(u)' = Owned(u)
  BY DEF ActivateBegin, Owned
<1>3. CASE u = v
  <2>1. Owned(u) = {}
    BY <1>3 DEF ActivateBegin, ActivatedBy, RowInv, Owned
  <2>2. Cardinality(Owned(u)') = 0
    BY <1>2, <2>1, FS_EmptySet
  <2>3. /\ Cardinality(OpenFor(u)') \in Nat /\ Cardinality(Requests) \in Nat
        /\ Cardinality(OpenFor(u)') <= Cardinality(Requests)
    <3>1. OpenFor(u)' \subseteq Requests
      BY DEF OpenFor
    <3>2. IsFiniteSet(Requests)
      BY StubAssumption
    <3>3. IsFiniteSet(OpenFor(u)') /\ Cardinality(OpenFor(u)') <= Cardinality(Requests)
      BY <3>1, <3>2, FS_Subset
    <3>4. QED
      BY <3>2, <3>3, FS_CardinalityType
  <2>4. QED
    BY <2>2, <2>3
<1>4. CASE u # v
  <2>1. OpenFor(u)' = OpenFor(u)
    BY <1>4 DEF ActivateBegin, OpenFor, TypeOK
  <2>2. Cardinality(Owned(u)) + Cardinality(OpenFor(u)) <= Cardinality(Requests)
    BY DEF RowsBound, Owned, OpenFor
  <2>3. QED
    BY <1>2, <2>1, <2>2
<1>5. QED
  BY <1>3, <1>4

\* A commit turns the open request into a row.
LEMMA CommitCounts ==
  ASSUME TypeOK, RowsBound, NEW r \in Requests, Bought(r)
  PROVE  RowsBound'
<1> SUFFICES ASSUME NEW u \in Users
             PROVE  Cardinality(Owned(u)') + Cardinality(OpenFor(u)') <= Cardinality(Requests)
  BY DEF RowsBound, Owned, OpenFor
<1>1. PICK n : n = Len(subs) + 1
  OBVIOUS
<1>2. n \notin DOMAIN subs
  <2>1. DOMAIN subs = 1..Len(subs) /\ Len(subs) \in Nat
    BY LenProperties DEF TypeOK
  <2>2. QED
    BY <1>1, <2>1
<1>3. /\ DOMAIN subs' = DOMAIN subs \cup {n}
      /\ \A i \in DOMAIN subs : subs'[i].user = subs[i].user
      /\ subs'[n].user = request[r].user
  BY <1>1 DEF Bought, StubWrite, NewRow
<1>4. /\ request[r].open /\ request' = [request EXCEPT ![r] = IdleRequest]
      /\ IdleRequest.open = FALSE /\ request \in [Requests -> [open : BOOLEAN, user : Users, plan : PlusPlans, snap : Seq(Rows)]]
  BY DEF Bought, ActivateCommit, IdleRequest, TypeOK
<1>5. OpenFor(u)' = OpenFor(u) \ {r}
  BY <1>4 DEF OpenFor
<1>6. /\ IsFiniteSet(Owned(u)) /\ Cardinality(Owned(u)) \in Nat
      /\ IsFiniteSet(OpenFor(u)) /\ Cardinality(OpenFor(u)) \in Nat
      /\ Cardinality(Requests) \in Nat
  BY CountsAreNat
<1>7. Cardinality(Owned(u)) + Cardinality(OpenFor(u)) <= Cardinality(Requests)
  BY DEF RowsBound, Owned, OpenFor
<1>8. CASE request[r].user = u
  <2>1. Owned(u)' = Owned(u) \cup {n} /\ n \notin Owned(u)
    BY <1>2, <1>3, <1>8 DEF Owned
  <2>2. r \in OpenFor(u)
    BY <1>4, <1>8 DEF OpenFor
  <2>3. Cardinality(Owned(u)') = Cardinality(Owned(u)) + 1
    BY <1>6, <2>1, FS_AddElement
  <2>4. Cardinality(OpenFor(u)') = Cardinality(OpenFor(u)) - 1
    BY <1>5, <1>6, <2>2, FS_RemoveElement
  <2>5. QED
    BY <1>6, <1>7, <2>3, <2>4
<1>9. CASE request[r].user # u
  <2>1. Owned(u)' = Owned(u)
    BY <1>2, <1>3, <1>9 DEF Owned
  <2>2. OpenFor(u)' = OpenFor(u)
    BY <1>5, <1>9 DEF OpenFor
  <2>3. QED
    BY <1>7, <2>1, <2>2
<1>10. QED
  BY <1>8, <1>9

\* Every other step leaves the owners of the rows, and opens no request.
LEMMA QuietCounts ==
  ASSUME TypeOK, RowsBound, StubWrites(subs, subs'),
         \A r \in Requests : request'[r].open => request'[r] = request[r]
  PROVE  RowsBound'
<1> SUFFICES ASSUME NEW u \in Users
             PROVE  Cardinality(Owned(u)') + Cardinality(OpenFor(u)') <= Cardinality(Requests)
  BY DEF RowsBound, Owned, OpenFor
<1>1. Owned(u)' = Owned(u)
  BY DEF StubWrites, StubWrite, Owned
<1>2. OpenFor(u)' \subseteq OpenFor(u)
  BY DEF OpenFor
<1>3. /\ Cardinality(Owned(u)) \in Nat /\ Cardinality(Requests) \in Nat
      /\ IsFiniteSet(OpenFor(u)) /\ Cardinality(OpenFor(u)) \in Nat
  BY CountsAreNat
<1>4. IsFiniteSet(OpenFor(u)') /\ Cardinality(OpenFor(u)') <= Cardinality(OpenFor(u))
  BY <1>2, <1>3, FS_Subset
<1>5. Cardinality(OpenFor(u)') \in Nat
  BY <1>4, FS_CardinalityType
<1>6. Cardinality(Owned(u)) + Cardinality(OpenFor(u)) <= Cardinality(Requests)
  BY DEF RowsBound, Owned, OpenFor
<1>7. QED
  BY <1>1, <1>3, <1>4, <1>5, <1>6

LEMMA InitCounts == Init => RowsBound
<1> SUFFICES ASSUME Init, NEW u \in Users
             PROVE  Cardinality(Owned(u)) + Cardinality(OpenFor(u)) <= Cardinality(Requests)
  BY DEF RowsBound, Owned, OpenFor
<1>1. Owned(u) = {} /\ OpenFor(u) = {}
  <2>1. subs = <<>> /\ DOMAIN subs = {}
    BY DEF Init
  <2>2. \A r \in Requests : request[r].open = FALSE
    BY DEF Init, IdleRequest
  <2>3. QED
    BY <2>1, <2>2 DEF Owned, OpenFor
<1>2. IsFiniteSet(Requests) /\ Cardinality(Requests) \in Nat
  BY StubAssumption, FS_CardinalityType
<1>3. Cardinality(Owned(u)) = 0 /\ Cardinality(OpenFor(u)) = 0
  BY <1>1, FS_EmptySet
<1>4. QED
  BY <1>2, <1>3

LEMMA NextCounts == ASSUME TypeOK, RowInv, RowsBound, [Next]_vars PROVE RowsBound'
<1>2. CASE \E r \in Requests, u \in Users, plan \in PlusPlans : ActivateBegin(r, u, plan)
  BY <1>2, BeginCounts
<1>3. CASE \E r \in Requests : ActivateCommit(r)
  BY <1>3, ActivationShape, CommitCounts
<1>4. CASE /\ ~ \E r \in Requests, u \in Users, plan \in PlusPlans : ActivateBegin(r, u, plan)
           /\ ~ \E r \in Requests : ActivateCommit(r)
  <2>1. \A r \in Requests : request'[r].open => request'[r] = request[r]
    <3>1. CASE UNCHANGED request
      BY <3>1
    <3>2. ASSUME NEW q \in Requests, request' = [request EXCEPT ![q] = IdleRequest]
          PROVE  \A r \in Requests : request'[r].open => request'[r] = request[r]
      BY <3>2 DEF IdleRequest, TypeOK
    <3>3. QED
      BY <1>4, <3>1, <3>2 DEF Next, Tick, CancelBegin, CancelCommit, RunBegin, RunCommit, Dies, vars
  <2>2. StubWrites(subs, subs')
    BY <1>4, StepShape DEF Bought
  <2>3. QED
    BY <2>1, <2>2, QuietCounts
<1>5. QED
  BY <1>2, <1>3, <1>4

\* activate_subscription looks for an earlier debug payment before it writes, in
\* a transaction of its own: however many activations race, a user gets at most
\* a row for each request the server holds open at once, and none later.
THEOREM DebugRowsAreBounded == Spec => []RowsBound
<1>1. Init => TypeOK /\ RowInv /\ RowsBound
  BY InitRow, InitCounts, IdleType, EmptySeq, StubAssumption DEF Init, TypeOK
<1>2. TypeOK /\ RowInv /\ RowsBound /\ [Next]_vars => (TypeOK /\ RowInv /\ RowsBound)'
  BY NextTyped, NextRow, NextCounts
<1>3. QED
  BY <1>1, <1>2, PTL DEF Spec

-----------------------------------------------------------------------------
(* What takes access away.                                                 *)

\* A cron run works with a time that has come and with ends of periods that are
\* still those of the table.
RunInv ==
  \A j \in Runs : run[j].open =>
    /\ run[j].at <= now
    /\ \A i \in DOMAIN run[j].snap : i \in DOMAIN subs /\ run[j].snap[i].expires = subs[i].expires

LEMMA InitRun == Init => RunInv
BY DEF Init, RunInv, IdleRun

LEMMA NextRun == ASSUME TypeOK, RunInv, [Next]_vars PROVE RunInv'
<1>1. now' \in Int /\ now \in Int /\ now <= now'
  BY TimeGoesOn
<1>2. \A i \in DOMAIN subs : i \in DOMAIN subs' /\ subs'[i].expires = subs[i].expires
  BY StepShape DEF StubWrites, StubWrite, Bought
<1>3. ASSUME NEW j \in Runs, run'[j].open
      PROVE  \/ run[j].open /\ run'[j] = run[j]
             \/ run'[j].at = now /\ run'[j].snap = subs
  <2>1. CASE UNCHANGED run
    BY <1>3, <2>1
  <2>2. ASSUME NEW k \in Runs, run' = [run EXCEPT ![k] = IdleRun]
        PROVE  run[j].open /\ run'[j] = run[j]
    BY <1>3, <2>2 DEF IdleRun, TypeOK
  <2>3. ASSUME NEW k \in Runs, RunBegin(k)
        PROVE  \/ run[j].open /\ run'[j] = run[j]
               \/ run'[j].at = now /\ run'[j].snap = subs
    BY <1>3, <2>3 DEF RunBegin, TypeOK
  <2>4. QED
    BY <2>1, <2>2, <2>3
       DEF Next, Tick, ActivateBegin, ActivateCommit, CancelBegin, CancelCommit, RunCommit, Dies, vars
<1>4. ASSUME NEW j \in Runs, run'[j].open
      PROVE  /\ run'[j].at <= now'
             /\ \A i \in DOMAIN run'[j].snap :
                  i \in DOMAIN subs' /\ run'[j].snap[i].expires = subs'[i].expires
  <2>1. CASE run[j].open /\ run'[j] = run[j]
    <3>1. run[j].at \in Int /\ run[j].at <= now
      <4>1. run[j].at \in 0..MaxTime
        BY DEF TypeOK
      <4>2. QED
        BY <2>1, <4>1, StubAssumption DEF RunInv
    <3>2. run'[j].at <= now'
      BY <1>1, <2>1, <3>1
    <3>3. QED
      BY <1>2, <2>1, <3>2 DEF RunInv
  <2>2. CASE run'[j].at = now /\ run'[j].snap = subs
    BY <1>1, <1>2, <2>2
  <2>3. QED
    BY <1>3, <1>4, <2>1, <2>2
<1>5. QED
  BY <1>4 DEF RunInv

\* A row of the table that is not over stays active, except when a row is added.
LEMMA RowStays ==
  ASSUME TypeOK, RunInv, [Next]_vars, Len(subs') = Len(subs),
         NEW i \in DOMAIN subs, subs[i].expires >= now
  PROVE  subs'[i].status = subs[i].status
<1>1. subs \in Seq(Rows) /\ subs[i] \in Rows
  BY ElementOfSeq, LenProperties DEF TypeOK
<1>2. ASSUME NEW old, NEW new, new.status = old.status
      PROVE  Written(subs[i], old, new).status = subs[i].status
  BY <1>1, <1>2, WrittenColumns DEF Column
<1>3. ASSUME NEW u \in Users, CancelCommit(u) PROVE subs'[i].status = subs[i].status
  <2>1. PICK snap : snap = cancel[u].snap
    OBVIOUS
  <2>2. snap \in Seq(Rows) /\ subs' = Save(subs, snap, CancelAll(snap, u))
    BY <1>3, <2>1 DEF CancelCommit, TypeOK
  <2>3. ASSUME i \in DOMAIN snap PROVE CancelAll(snap, u)[i].status = snap[i].status
    <3>1. snap[i] \in Rows
      BY <2>2, <2>3, ElementOfSeq, LenProperties
    <3>2. Cancelled(snap[i]).status = snap[i].status
      BY <3>1 DEF Cancelled, Rows
    <3>3. QED
      BY <2>3, <3>2 DEF CancelAll
  <2>4. QED
    BY <1>2, <2>2, <2>3 DEF Save
<1>4. ASSUME NEW j \in Runs, RunCommit(j) PROVE subs'[i].status = subs[i].status
  <2>1. PICK snap : snap = run[j].snap
    OBVIOUS
  <2>2. PICK at : at = run[j].at
    OBVIOUS
  <2>3. snap \in Seq(Rows) /\ subs' = Save(subs, snap, ExpireOverdue(snap, at))
    BY <1>4, <2>1, <2>2 DEF RunCommit, TypeOK
  <2>4. ASSUME i \in DOMAIN snap PROVE ExpireOverdue(snap, at)[i] = snap[i]
    <3>1. snap[i].expires = subs[i].expires /\ at <= now
      BY <1>4, <2>1, <2>2, <2>4 DEF RunInv, RunCommit
    <3>2. at \in Int /\ now \in Int /\ subs[i].expires \in Int
      <4>1. at \in 0..MaxTime /\ now \in 0..MaxTime
        BY <2>2 DEF TypeOK
      <4>2. QED
        BY <1>1, <4>1, StubAssumption DEF Rows
    <3>3. ~ (snap[i].expires < at)
      BY <3>1, <3>2
    <3>4. QED
      BY <2>4, <3>3 DEF ExpireOverdue
  <2>5. QED
    BY <1>2, <2>3, <2>4 DEF Save
<1>5. ASSUME NEW r \in Requests, ActivateCommit(r) PROVE FALSE
  <2>1. Len(subs) \in Nat
    BY LenProperties DEF TypeOK
  <2>2. Len(subs') = Len(subs) + 1
    BY <1>5, ActivationShape DEF Bought
  <2>3. QED
    BY <2>1, <2>2
<1>6. QED
  BY <1>3, <1>4, <1>5 DEF Next, Tick, ActivateBegin, CancelBegin, RunBegin, Dies, vars

KeptAccess ==
  \A u \in Users :
    LET plan == SubscribedPlan(subs, u, now) IN
    plan # "none" /\ SubscribedPlan(subs', u, now') # plan => now' # now \/ Len(subs') # Len(subs)

LEMMA StepKeepsAccess == ASSUME TypeOK, RunInv, [Next]_vars PROVE KeptAccess
<1> SUFFICES ASSUME NEW u \in Users, SubscribedPlan(subs, u, now) # "none",
                    now' = now, Len(subs') = Len(subs)
             PROVE  SubscribedPlan(subs', u, now') = SubscribedPlan(subs, u, now)
  BY DEF KeptAccess
<1>1. PICK m \in DOMAIN subs : Good(subs, u, now, m)
  BY GoodOfPlan
<1>2. DOMAIN subs = 1..Len(subs) /\ Len(subs) \in Nat /\ DOMAIN subs \subseteq Int
  <2>1. DOMAIN subs = 1..Len(subs) /\ Len(subs) \in Nat
    BY LenProperties DEF TypeOK
  <2>2. QED
    BY <2>1
<1>3. StubWrites(subs, subs')
  <2>1. ~ \E r \in Requests : Bought(r)
    <3>1. Len(subs') # Len(subs) + 1
      BY <1>2
    <3>2. QED
      BY <3>1 DEF Bought
  <2>2. QED
    BY <2>1, StepShape
<1>4. subs'[m].status = subs[m].status
  BY <1>1, RowStays DEF Good
<1>5. Active(subs', u) \subseteq Active(subs, u)
  BY <1>3 DEF StubWrites, StubWrite, Active
<1>6. Serves(subs', u, m)
  <2>1. m \in Active(subs', u)
    BY <1>1, <1>3, <1>4 DEF Good, Serves, StubWrites, StubWrite, Active
  <2>2. QED
    BY <1>1, <1>5, <2>1 DEF Good, Serves
<1>7. Good(subs', u, now', m) /\ subs'[m].plan = subs[m].plan
  <2>1. StubWrite(subs[m], subs'[m]) /\ subs[m].status = "active"
    BY <1>1, <1>3 DEF StubWrites, Good, Serves, Active
  <2>2. PaidAccess(subs'[m].state)
    BY <1>1, <1>4, <2>1 DEF StubWrite, Good
  <2>3. QED
    BY <1>1, <1>6, <2>1, <2>2 DEF StubWrite, Good
<1>8. DOMAIN subs' = DOMAIN subs
  BY <1>3 DEF StubWrites
<1>9. QED
  BY <1>1, <1>2, <1>7, <1>8, PlanOfGood

\* An opt-out takes no access away, and a cron run only that of rows whose time
\* has come: it expires by a clock read before the rows were, and no operation
\* of the stub moves the end of a row it may have loaded.
THEOREM AccessStays == Spec => AccessKept
<1>1. Init => TypeOK /\ RunInv
  BY InitRun, IdleType, EmptySeq, StubAssumption DEF Init, TypeOK
<1>2. TypeOK /\ RunInv /\ [Next]_vars => (TypeOK /\ RunInv)'
  BY NextTyped, NextRun
<1>3. TypeOK /\ RunInv /\ [Next]_vars =>
        [\A u \in Users :
           LET plan == SubscribedPlan(subs, u, now) IN
           plan # "none" /\ SubscribedPlan(subs', u, now') # plan
             => now' # now \/ Len(subs') # Len(subs)]_vars
  BY StepKeepsAccess DEF KeptAccess
<1>4. QED
  BY <1>1, <1>2, <1>3, PTL DEF Spec, AccessKept
=============================================================================
