----------------------- MODULE SubscriptionRows_proofs -----------------------
(***************************************************************************)
(* What the edits of SubscriptionRows and the flush of a session preserve. *)
(* Nothing here depends on the order of transactions.                      *)
(***************************************************************************)
EXTENDS SubscriptionRows, SequenceTheorems, TLAPS

\* Mapping the elements of a table gives a table of the same length.
LEMMA MapIsSeq ==
  ASSUME NEW S, NEW T, NEW s \in Seq(S), NEW f,
         f = [i \in DOMAIN s |-> f[i]],
         \A i \in DOMAIN s : f[i] \in T
  PROVE  f \in Seq(T) /\ DOMAIN f = DOMAIN s /\ Len(f) = Len(s)
<1>1. DOMAIN s = 1..Len(s) /\ Len(s) \in Nat
  BY LenProperties
<1>2. f \in [1..Len(s) -> T]
  BY <1>1
<1>3. QED
  BY <1>1, <1>2, SeqDef, LenProperties

\* An edit of a row is a row.
LEMMA RowEditsPlain ==
  ASSUME NEW row \in Rows
  PROVE  RenewalFailed(row) \in Rows /\ Cancelled(row) \in Rows /\ Superseded(row) \in Rows
<1>1. row.meta \in Metas /\ [row.meta EXCEPT !.pending = NoPid] \in Metas
  BY DEF Rows, Metas
<1>2. StoredMeta(row.meta, [row.meta EXCEPT !.pending = NoPid]) \in Metas
  BY <1>1 DEF StoredMeta
<1>3. RenewalFailed(row) \in Rows
  BY <1>2 DEF Rows, RenewalFailed, States
<1>4. Cancelled(row) \in Rows /\ Superseded(row) \in Rows
  BY DEF Rows, Cancelled, Superseded, States
<1>5. QED
  BY <1>3, <1>4

LEMMA RowEdits ==
  ASSUME NEW row \in Rows, NEW pid \in Pids, NEW at \in Int
  PROVE  Renewed(row, pid, at) \in Rows /\ RenewalDue(row, pid) \in Rows
<1>1. row.meta \in Metas /\ row.expires \in Int
  BY DEF Rows
<1>2. /\ [row.meta EXCEPT !.last = pid, !.pending = NoPid] \in Metas
      /\ [row.meta EXCEPT !.pending = pid] \in Metas
  BY <1>1 DEF Metas
<1>3. Later(row.expires, at) + Period \in Int
  BY <1>1, RowsAssumption DEF Later
<1>4. \A e \in Metas : StoredMeta(row.meta, e) \in Metas
  BY <1>1 DEF StoredMeta
<1>5. Renewed(row, pid, at) \in Rows
  BY <1>2, <1>3, <1>4 DEF Rows, Renewed, States
<1>6. RenewalDue(row, pid) \in Rows
  BY <1>2, <1>4 DEF Rows, RenewalDue, States
<1>7. QED
  BY <1>5, <1>6

LEMMA NewRowType ==
  ASSUME NEW u \in Users, NEW plan \in PlusPlans, NEW pid \in Pids,
         NEW withRebill \in BOOLEAN, NEW at \in Int
  PROVE  NewRow(u, plan, pid, withRebill, at) \in Rows
BY RowsAssumption DEF NewRow, Rows, Metas, States

LEMMA WrittenType ==
  ASSUME NEW db \in Rows, NEW loaded \in Rows, NEW edited \in Rows
  PROVE  Written(db, loaded, edited) \in Rows
<1>1. /\ Column(db.status, loaded.status, edited.status) \in {"active", "superseded"}
      /\ Column(db.state, loaded.state, edited.state) \in States
      /\ Column(db.autoRenew, loaded.autoRenew, edited.autoRenew) \in BOOLEAN
      /\ Column(db.cancelled, loaded.cancelled, edited.cancelled) \in BOOLEAN
      /\ Column(db.expires, loaded.expires, edited.expires) \in Int
      /\ Column(db.meta, loaded.meta, edited.meta) \in Metas
  BY DEF Rows, Column
<1>2. QED
  BY <1>1 DEF Rows, Written

\* Each operation maps the rows it loaded to rows, one for one.
LEMMA SupersedeAllType ==
  ASSUME NEW rows \in Seq(Rows), NEW u
  PROVE  SupersedeAll(rows, u) \in Seq(Rows) /\ DOMAIN SupersedeAll(rows, u) = DOMAIN rows
<1>1. SupersedeAll(rows, u) = [i \in DOMAIN rows |-> SupersedeAll(rows, u)[i]]
  BY DEF SupersedeAll
<1>2. \A i \in DOMAIN rows : SupersedeAll(rows, u)[i] \in Rows
  BY ElementOfSeq, LenProperties, RowEditsPlain DEF SupersedeAll
<1>3. QED
  BY <1>1, <1>2, MapIsSeq

LEMMA ExtendLatestType ==
  ASSUME NEW rows \in Seq(Rows),
         NEW u, NEW plan, NEW pid \in Pids, NEW at \in Int
  PROVE  ExtendLatest(rows, u, plan, pid, at) \in Seq(Rows) /\ DOMAIN ExtendLatest(rows, u, plan, pid, at) = DOMAIN rows
<1>1. ExtendLatest(rows, u, plan, pid, at) = [i \in DOMAIN rows |-> ExtendLatest(rows, u, plan, pid, at)[i]]
  BY DEF ExtendLatest
<1>2. \A i \in DOMAIN rows : ExtendLatest(rows, u, plan, pid, at)[i] \in Rows
  BY ElementOfSeq, LenProperties, RowEdits DEF ExtendLatest
<1>3. QED
  BY <1>1, <1>2, MapIsSeq

LEMMA FailLatestType ==
  ASSUME NEW rows \in Seq(Rows), NEW u, NEW plan
  PROVE  FailLatest(rows, u, plan) \in Seq(Rows) /\ DOMAIN FailLatest(rows, u, plan) = DOMAIN rows
<1>1. FailLatest(rows, u, plan) = [i \in DOMAIN rows |-> FailLatest(rows, u, plan)[i]]
  BY DEF FailLatest
<1>2. \A i \in DOMAIN rows : FailLatest(rows, u, plan)[i] \in Rows
  BY ElementOfSeq, LenProperties, RowEditsPlain DEF FailLatest
<1>3. QED
  BY <1>1, <1>2, MapIsSeq

LEMMA ExpireOverdueType ==
  ASSUME NEW rows \in Seq(Rows), NEW at
  PROVE  ExpireOverdue(rows, at) \in Seq(Rows) /\ DOMAIN ExpireOverdue(rows, at) = DOMAIN rows
<1>1. ExpireOverdue(rows, at) = [i \in DOMAIN rows |-> ExpireOverdue(rows, at)[i]]
  BY DEF ExpireOverdue
<1>2. \A i \in DOMAIN rows : ExpireOverdue(rows, at)[i] \in Rows
  BY ElementOfSeq, LenProperties, RowEditsPlain DEF ExpireOverdue
<1>3. QED
  BY <1>1, <1>2, MapIsSeq

LEMMA CancelAllType ==
  ASSUME NEW rows \in Seq(Rows), NEW u
  PROVE  CancelAll(rows, u) \in Seq(Rows) /\ DOMAIN CancelAll(rows, u) = DOMAIN rows
<1>1. CancelAll(rows, u) = [i \in DOMAIN rows |-> CancelAll(rows, u)[i]]
  BY DEF CancelAll
<1>2. \A i \in DOMAIN rows : CancelAll(rows, u)[i] \in Rows
  BY ElementOfSeq, LenProperties, RowEditsPlain DEF CancelAll
<1>3. QED
  BY <1>1, <1>2, MapIsSeq

\* A flush keeps the table a table, of the same length.
LEMMA SaveType ==
  ASSUME NEW rows \in Seq(Rows), NEW loaded \in Seq(Rows), NEW edited \in Seq(Rows),
         DOMAIN edited = DOMAIN loaded
  PROVE  /\ Save(rows, loaded, edited) \in Seq(Rows)
         /\ DOMAIN Save(rows, loaded, edited) = DOMAIN rows
         /\ Len(Save(rows, loaded, edited)) = Len(rows)
<1>1. \A i \in DOMAIN rows : rows[i] \in Rows
  BY ElementOfSeq, LenProperties
<1>2. \A i \in DOMAIN loaded : loaded[i] \in Rows /\ edited[i] \in Rows
  BY ElementOfSeq, LenProperties
<1>3. \A i \in DOMAIN rows : Save(rows, loaded, edited)[i] \in Rows
  BY <1>1, <1>2, WrittenType DEF Save
<1>4. Save(rows, loaded, edited) = [i \in DOMAIN rows |-> Save(rows, loaded, edited)[i]]
  BY DEF Save
<1>5. QED
  BY <1>3, <1>4, MapIsSeq

-----------------------------------------------------------------------------
(* What no edit does to a row, and no stale flush either.                  *)

\* The opt-out is one fact in two columns.
OptOutConsistent(row) == row.autoRenew = ~row.cancelled

\* What one operation may do to a row it loaded.
SafeEdit(loaded, edited) ==
  /\ edited.meta = loaded.meta
  /\ edited.status = loaded.status \/ edited.status = "superseded"
  /\ \/ edited.autoRenew = loaded.autoRenew /\ edited.cancelled = loaded.cancelled
     \/ edited.autoRenew = FALSE /\ edited.cancelled = TRUE

\* What one committed transaction may do to a row of the table.
SafeWrite(db, after) ==
  /\ after.meta = db.meta
  /\ after.user = db.user /\ after.plan = db.plan
  /\ db.status = "superseded" => after.status = "superseded"
  /\ OptOutConsistent(db) => OptOutConsistent(after)

\* The dict of a row is never empty, so an edit of it is lost.
LEMMA MetaIsLost ==
  ASSUME NEW row \in Rows, NEW edited
  PROVE  StoredMeta(row.meta, edited) = row.meta
<1>1. row.meta.ext \in Pids
  BY DEF Rows, Metas
<1>2. row.meta # NoMeta
  BY <1>1, RowsAssumption DEF NoMeta
<1>3. QED
  BY <1>2 DEF StoredMeta

LEMMA EditsAreSafe ==
  ASSUME NEW row \in Rows, NEW pid, NEW at
  PROVE  /\ SafeEdit(row, row)
         /\ SafeEdit(row, Renewed(row, pid, at))
         /\ SafeEdit(row, RenewalFailed(row))
         /\ SafeEdit(row, RenewalDue(row, pid))
         /\ SafeEdit(row, Cancelled(row))
         /\ SafeEdit(row, Superseded(row))
BY MetaIsLost DEF SafeEdit, Renewed, RenewalFailed, RenewalDue, Cancelled, Superseded, Rows

\* A safe edit of a consistent row stays safe when it is written over whatever
\* other transactions made of the row in the meantime.
LEMMA WrittenIsSafe ==
  ASSUME NEW db \in Rows, NEW loaded \in Rows, NEW edited \in Rows,
         SafeEdit(loaded, edited), OptOutConsistent(loaded)
  PROVE  SafeWrite(db, Written(db, loaded, edited))
<1> DEFINE after == Written(db, loaded, edited)
<1>1. /\ after.meta = Column(db.meta, loaded.meta, edited.meta)
      /\ after.status = Column(db.status, loaded.status, edited.status)
      /\ after.autoRenew = Column(db.autoRenew, loaded.autoRenew, edited.autoRenew)
      /\ after.cancelled = Column(db.cancelled, loaded.cancelled, edited.cancelled)
      /\ after.user = db.user /\ after.plan = db.plan
  BY DEF Written, Rows
<1>2. /\ loaded.autoRenew \in BOOLEAN /\ loaded.cancelled \in BOOLEAN
      /\ edited.autoRenew \in BOOLEAN /\ edited.cancelled \in BOOLEAN
      /\ db.autoRenew \in BOOLEAN /\ db.cancelled \in BOOLEAN
  BY DEF Rows
<1> HIDE DEF after
<1>3. after.meta = db.meta
  BY <1>1 DEF SafeEdit, Column
<1>4. db.status = "superseded" => after.status = "superseded"
  BY <1>1 DEF SafeEdit, Column
<1>5. OptOutConsistent(db) => OptOutConsistent(after)
  BY <1>1, <1>2 DEF SafeEdit, Column, OptOutConsistent
<1>6. QED
  BY <1>1, <1>3, <1>4, <1>5 DEF SafeWrite, after

SafeEdits(loaded, edited) ==
  /\ DOMAIN edited = DOMAIN loaded
  /\ \A i \in DOMAIN loaded : SafeEdit(loaded[i], edited[i])

LEMMA OperationsAreSafe ==
  ASSUME NEW rows \in Seq(Rows), NEW u, NEW plan, NEW pid, NEW at
  PROVE  /\ SafeEdits(rows, SupersedeAll(rows, u))
         /\ SafeEdits(rows, ExtendLatest(rows, u, plan, pid, at))
         /\ SafeEdits(rows, FailLatest(rows, u, plan))
         /\ SafeEdits(rows, ExpireOverdue(rows, at))
         /\ SafeEdits(rows, CancelAll(rows, u))
<1>1. \A i \in DOMAIN rows : rows[i] \in Rows
  BY ElementOfSeq, LenProperties
<1>2. SafeEdits(rows, SupersedeAll(rows, u))
  BY <1>1, EditsAreSafe DEF SafeEdits, SupersedeAll
<1>3. SafeEdits(rows, ExtendLatest(rows, u, plan, pid, at))
  BY <1>1, EditsAreSafe DEF SafeEdits, ExtendLatest
<1>4. SafeEdits(rows, FailLatest(rows, u, plan))
  BY <1>1, EditsAreSafe DEF SafeEdits, FailLatest
<1>5. SafeEdits(rows, ExpireOverdue(rows, at))
  BY <1>1, EditsAreSafe DEF SafeEdits, ExpireOverdue
<1>6. SafeEdits(rows, CancelAll(rows, u))
  BY <1>1, EditsAreSafe DEF SafeEdits, CancelAll
<1>7. QED
  BY <1>2, <1>3, <1>4, <1>5, <1>6

\* A table whose rows record the opt-out in both columns or in neither.
AllConsistent(rows) == \A i \in DOMAIN rows : OptOutConsistent(rows[i])

LEMMA SaveIsSafe ==
  ASSUME NEW rows \in Seq(Rows), NEW loaded \in Seq(Rows), NEW edited \in Seq(Rows),
         SafeEdits(loaded, edited), AllConsistent(loaded)
  PROVE  \A i \in DOMAIN rows : SafeWrite(rows[i], Save(rows, loaded, edited)[i])
<1>1. \A i \in DOMAIN rows : rows[i] \in Rows
  BY ElementOfSeq, LenProperties
<1>2. \A i \in DOMAIN loaded : loaded[i] \in Rows /\ edited[i] \in Rows
  BY ElementOfSeq, LenProperties DEF SafeEdits
<1>3. TAKE i \in DOMAIN rows
<1>4. CASE i \in DOMAIN loaded
  BY <1>1, <1>2, <1>4, WrittenIsSafe DEF Save, SafeEdits, AllConsistent
<1>5. CASE i \notin DOMAIN loaded
  BY <1>1, <1>5 DEF Save, SafeWrite
<1>6. QED
  BY <1>4, <1>5
-----------------------------------------------------------------------------
(* Time and access.                                                       *)

\* The columns after an UPDATE.
LEMMA WrittenColumns ==
  ASSUME NEW db \in Rows, NEW loaded, NEW edited
  PROVE  LET after == Written(db, loaded, edited) IN
         /\ after.user = db.user /\ after.plan = db.plan
         /\ after.status = Column(db.status, loaded.status, edited.status)
         /\ after.state = Column(db.state, loaded.state, edited.state)
         /\ after.expires = Column(db.expires, loaded.expires, edited.expires)
         /\ after.meta = Column(db.meta, loaded.meta, edited.meta)
BY DEF Written, Rows

\* A session that edited no end of period writes none.
LEMMA SaveKeepsTime ==
  ASSUME NEW rows \in Seq(Rows), NEW loaded, NEW edited,
         \A i \in DOMAIN loaded : edited[i].expires = loaded[i].expires
  PROVE  /\ DOMAIN Save(rows, loaded, edited) = DOMAIN rows
         /\ \A i \in DOMAIN rows : Save(rows, loaded, edited)[i].expires = rows[i].expires
<1>1. \A i \in DOMAIN rows : rows[i] \in Rows
  BY ElementOfSeq, LenProperties
<1>2. QED
  BY <1>1, WrittenColumns DEF Save, Column

LEMMA EditsKeepTime ==
  ASSUME NEW row \in Rows, NEW pid
  PROVE  /\ RenewalFailed(row).expires = row.expires
         /\ RenewalDue(row, pid).expires = row.expires
         /\ Cancelled(row).expires = row.expires
         /\ Superseded(row).expires = row.expires
BY DEF RenewalFailed, RenewalDue, Cancelled, Superseded, Rows

LEMMA OperationsKeepTime ==
  ASSUME NEW rows \in Seq(Rows), NEW u, NEW plan, NEW at, NEW i \in DOMAIN rows
  PROVE  /\ SupersedeAll(rows, u)[i].expires = rows[i].expires
         /\ FailLatest(rows, u, plan)[i].expires = rows[i].expires
         /\ ExpireOverdue(rows, at)[i].expires = rows[i].expires
         /\ CancelAll(rows, u)[i].expires = rows[i].expires
<1>1. rows[i] \in Rows
  BY ElementOfSeq, LenProperties
<1>2. QED
  BY <1>1, EditsKeepTime DEF SupersedeAll, FailLatest, ExpireOverdue, CancelAll

\* The subscription a user is served by, and what it takes to serve.
Good(rows, u, at, i) ==
  /\ Serves(rows, u, i) /\ rows[i].plan \in PlusPlans
  /\ PaidAccess(rows[i].state) /\ rows[i].expires >= at

LEMMA PlanOfGood ==
  ASSUME NEW rows, DOMAIN rows \subseteq Int, NEW u, NEW at, NEW i, Good(rows, u, at, i)
  PROVE  SubscribedPlan(rows, u, at) = rows[i].plan
<1> DEFINE good == {k \in Active(rows, u) : /\ Serves(rows, u, k) /\ rows[k].plan \in PlusPlans
                                            /\ PaidAccess(rows[k].state) /\ rows[k].expires >= at}
<1>1. i \in good
  BY DEF Good, Serves
<1>2. \A k \in good : k = i
  BY <1>1 DEF Serves, Active
<1>3. good = {i}
  BY <1>1, <1>2
<1>4. SubscribedPlan(rows, u, at) = IF good = {} THEN "none" ELSE rows[CHOOSE k \in good : TRUE].plan
  BY DEF SubscribedPlan
<1> HIDE DEF good
<1>5. QED
  BY <1>3, <1>4

LEMMA GoodOfPlan ==
  ASSUME NEW rows, NEW u, NEW at, SubscribedPlan(rows, u, at) # "none"
  PROVE  \E i \in DOMAIN rows : Good(rows, u, at, i)
BY DEF SubscribedPlan, Good, Serves, Active
=============================================================================
