-------------------------- MODULE Dispatch_proofs --------------------------
(***************************************************************************)
(* Proofs about Dispatch, for any number of users, of handlers at once, of *)
(* updates, faults and restarts, and for whatever the handlers may reply:  *)
(* nothing here depends on the operators of Conversation.                  *)
(***************************************************************************)
EXTENDS Dispatch, SequenceTheorems, TLAPS

-----------------------------------------------------------------------------
(* The inductive invariant. *)

IsRun(r) == r = [pc |-> r.pc, upd |-> r.upd, seen |-> r.seen, fresh |-> r.fresh,
                 reply |-> r.reply]
IsAccount(a) == a = [known |-> a.known, mode |-> a.mode, flow |-> a.flow]

\* Only one of the transports holds updates back for the dispatch.
TransportShape ==
  /\ setup.transport \in Transports
  /\ transport = "polling" => waiting = {}
  /\ transport = "webhook" => batch = <<>>

UpdateShape ==
  /\ updates \in Seq([user : Users, input : Inputs])
  /\ Len(updates) <= Len(Script[transport])

RunShape ==
  /\ DOMAIN handler = Handlers
  /\ \A h \in Handlers : IsRun(handler[h]) /\ IsAccount(handler[h].seen)

TableShape ==
  /\ DOMAIN account = Users /\ \A u \in Users : IsAccount(account[u])
  /\ \E S : work \in Seq(S)

\* What waits, what a batch holds and what a handler runs are updates.
HeldAreUpdates ==
  /\ waiting \subseteq 1..Len(updates)
  /\ batch \in Seq(Nat) /\ \A i \in DOMAIN batch : batch[i] \in 1..Len(updates)
  /\ \A h \in Handlers : handler[h].pc # "idle" => handler[h].upd \in 1..Len(updates)

\* A row belongs to an update that took effect, and no two to the same one.
RowsOfProcessed ==
  \A i \in DOMAIN work : work[i].upd \in processed

\* A handler that has committed has yet to start the task of its update, and
\* no other handler has committed the same update.
CommittedOnce ==
  /\ started \subseteq processed
  /\ \A h \in Handlers : handler[h].pc = "committed" =>
       /\ handler[h].upd \in processed \ started
       /\ handler[h].reply.work \in TaskKinds =>
            \E i \in DOMAIN work : work[i].upd = handler[h].upd
       /\ \A g \in Handlers \ {h} :
            handler[g].pc = "committed" => handler[g].upd # handler[h].upd

IInv == /\ TransportShape /\ UpdateShape /\ RunShape /\ TableShape
        /\ HeldAreUpdates /\ RowsOfProcessed /\ CommittedOnce

-----------------------------------------------------------------------------
(* Lemmas. *)

LEMMA ScriptLength ==
  ASSUME NEW t \in Transports
  PROVE  Len(Script[t]) \in Nat /\ Len(Script[t]) <= MaxUpdates /\ MaxUpdates \in Nat
BY DispatchAssumption, LenProperties

LEMMA IdleShape ==
  /\ IsRun(IdleHandler) /\ IsAccount(IdleHandler.seen) /\ IdleHandler.pc = "idle"
  /\ IdleHandler.upd = 0 /\ IsAccount(NewAccount)
BY DEF IdleHandler, IsRun, IsAccount, NewAccount

\* Filling in a field of an account.
LEMMA KnownShape ==
  ASSUME NEW a, IsAccount(a)
  PROVE  LET b == [a EXCEPT !.known = TRUE] IN
         IsAccount(b) /\ b.mode = a.mode /\ b.flow = a.flow
<1>1. PICK K, M, F : a \in [known : K, mode : M, flow : F]
  <2>1. a \in [known : {a.known}, mode : {a.mode}, flow : {a.flow}]
    BY DEF IsAccount
  <2>2. QED
    BY <2>1
<1>2. [a EXCEPT !.known = TRUE] \in [known : K \cup {TRUE}, mode : M, flow : F]
  BY <1>1
<1>3. /\ [a EXCEPT !.known = TRUE].mode = a.mode
      /\ [a EXCEPT !.known = TRUE].flow = a.flow
  BY <1>1
<1>4. \A r \in [known : K \cup {TRUE}, mode : M, flow : F] : IsAccount(r)
  BY DEF IsAccount
<1>5. QED
  BY <1>2, <1>3, <1>4, Zenon

RunsOver(S) == [pc : S, upd : S, seen : S, fresh : S, reply : S]

\* A dispatch and the values of an edit belong to some set of dispatches.
LEMMA TypedRun ==
  ASSUME NEW r, IsRun(r), NEW p, NEW x
  PROVE  \E S : r \in RunsOver(S) /\ p \in S /\ x \in S
<1> DEFINE S == {r.pc, r.upd, r.seen, r.fresh, r.reply, p, x}
<1>1. r \in RunsOver(S)
  BY DEF IsRun, RunsOver
<1>2. p \in S /\ x \in S
  OBVIOUS
<1>3. QED
  <2> HIDE DEF S
  <2>1. QED
    BY <1>1, <1>2

LEMMA RunsOverIsRun ==
  ASSUME NEW S, NEW r \in RunsOver(S)
  PROVE  IsRun(r)
BY DEF IsRun, RunsOver

\* A step of one handler leaves the others alone.
LEMMA StepOfOne ==
  ASSUME RunShape, NEW h \in Handlers, NEW next,
         IsRun(next), IsAccount(next.seen), Goes(h, next)
  PROVE  /\ RunShape' /\ handler'[h] = next
         /\ \A g \in Handlers \ {h} : handler'[g] = handler[g]
BY DEF RunShape, Goes

\* A sequence is one over any larger set.
LEMMA WiderSeq ==
  ASSUME NEW S, NEW T, NEW s \in Seq(S)
  PROVE  s \in Seq(S \cup T)
<1>1. Len(s) \in Nat /\ s \in [1..Len(s) -> S]
  BY LenProperties
<1>2. s \in [1..Len(s) -> S \cup T]
  BY <1>1
<1>3. QED
  BY <1>1, <1>2, SeqDef

\* The table of rows after an insert.
LEMMA Inserted ==
  ASSUME TableShape, NEW row, work' = Append(work, row)
  PROVE  /\ \E S : work' \in Seq(S)
         /\ DOMAIN work = 1..Len(work) /\ Len(work) \in Nat
         /\ DOMAIN work' = 1..(Len(work) + 1)
         /\ \A i \in DOMAIN work : work'[i] = work[i]
         /\ work'[Len(work) + 1] = row
<1>1. PICK S : work \in Seq(S)
  BY DEF TableShape
<1>2. work \in Seq(S \cup {row}) /\ row \in S \cup {row}
  BY <1>1, WiderSeq
<1>3. /\ work' \in Seq(S \cup {row})
      /\ Len(work') = Len(work) + 1
      /\ \A i \in 1..Len(work) : work'[i] = work[i]
      /\ work'[Len(work) + 1] = row
  BY <1>2, AppendProperties
<1>4. /\ DOMAIN work = 1..Len(work) /\ Len(work) \in Nat
      /\ DOMAIN work' = 1..Len(work')
  BY <1>2, <1>3, LenProperties
<1>5. QED
  BY <1>3, <1>4

\* An exception: one handler is idle, the batch is gone, the tables are as before.
LEMMA ThrownInv ==
  ASSUME IInv, NEW h \in Handlers, Thrown(h)
  PROVE  IInv'
<1>1. /\ RunShape' /\ handler'[h] = IdleHandler
      /\ \A g \in Handlers \ {h} : handler'[g] = handler[g]
  BY StepOfOne, IdleShape DEF IInv, Thrown, Goes
<1>2. TransportShape' /\ UpdateShape' /\ TableShape' /\ RowsOfProcessed'
  BY DEF IInv, Thrown, TransportShape, UpdateShape, TableShape, RowsOfProcessed, database, transport
<1>3. <<>> \in Seq(Nat) /\ DOMAIN <<>> = {}
  BY EmptySeq, LenProperties
<1>4. HeldAreUpdates'
  BY <1>1, <1>3, IdleShape DEF IInv, Thrown, HeldAreUpdates
<1>5. CommittedOnce'
  BY <1>1, IdleShape DEF IInv, Thrown, CommittedOnce, database
<1>6. QED
  BY <1>1, <1>2, <1>4, <1>5 DEF IInv

\* A step of a handler that is not yet committed and changes no table.
LEMMA RunInv ==
  ASSUME IInv, NEW h \in Handlers, NEW next, Goes(h, next), Step,
         IsRun(next), IsAccount(next.seen),
         next.pc # "committed", next.upd = handler[h].upd, handler[h].pc # "idle"
  PROVE  IInv' /\ handler'[h] = next /\ \A g \in Handlers \ {h} : handler'[g] = handler[g]
<1>1. /\ RunShape' /\ handler'[h] = next
      /\ \A g \in Handlers \ {h} : handler'[g] = handler[g]
  BY StepOfOne DEF IInv
<1>2. TransportShape' /\ UpdateShape' /\ TableShape' /\ RowsOfProcessed'
  BY DEF IInv, Step, max, database, TransportShape, UpdateShape, TableShape, RowsOfProcessed, transport
<1>3. HeldAreUpdates'
  BY <1>1 DEF IInv, Step, max, HeldAreUpdates
<1>4. CommittedOnce'
  BY <1>1 DEF IInv, Step, database, CommittedOnce
<1>5. QED
  BY <1>1, <1>2, <1>3, <1>4 DEF IInv

\* An update is looked up: its handler knows it, or goes idle again.
LEMMA LookedShape ==
  ASSUME RunShape, NEW h \in Handlers, NEW x, Looked(h, x)
  PROVE  /\ RunShape'
         /\ handler'[h].pc = "idle" \/ (handler'[h].pc = "looked" /\ handler'[h].upd = x)
         /\ \A g \in Handlers \ {h} : handler'[g] = handler[g]
<1> DEFINE next == IF x \in processed THEN IdleHandler
                   ELSE [IdleHandler EXCEPT !.pc = "looked", !.upd = x]
<1>1. /\ IsRun(next) /\ IsAccount(next.seen)
      /\ next.pc = "idle" \/ (next.pc = "looked" /\ next.upd = x)
  BY IdleShape DEF IsRun
<1>2. Goes(h, next)
  BY DEF Looked
<1>3. QED
  BY <1>1, <1>2, StepOfOne
-----------------------------------------------------------------------------
(* Each action keeps the invariant. *)

LEMMA InitInv == ASSUME Init PROVE IInv
<1>1. handler = [h \in Handlers |-> IdleHandler]
  BY DEF Init
<1>2. RunShape
  BY <1>1, IdleShape DEF RunShape
<1>3. PICK t \in Transports : setup \in [transport : {t}, paid : Paid[t]]
  BY DEF Init
<1>4. setup.transport \in Transports
  BY <1>3
<1>5. TransportShape
  BY <1>4 DEF Init, TransportShape
<1>6. /\ <<>> \in Seq([user : Users, input : Inputs]) /\ Len(<<>>) = 0
      /\ <<>> \in Seq(Nat) /\ DOMAIN <<>> = {}
  BY EmptySeq, LenProperties
<1>7. UpdateShape
  BY <1>4, <1>6, ScriptLength DEF Init, UpdateShape, transport
<1>8. \A a \in Accounts : IsAccount(a)
  <2>1. IsAccount([NewAccount EXCEPT !.known = TRUE])
    BY IdleShape, KnownShape
  <2>2. \A a \in [known : {TRUE}, mode : Modes, flow : Flows] : IsAccount(a)
    BY DEF IsAccount
  <2>3. QED
    BY <2>1, <2>2, IdleShape DEF Accounts
<1>9. TableShape
  BY <1>6, <1>8 DEF Init, TableShape
<1>10. HeldAreUpdates
  BY <1>1, <1>6, IdleShape DEF Init, HeldAreUpdates
<1>11. RowsOfProcessed /\ CommittedOnce
  BY <1>1, <1>6, IdleShape DEF Init, RowsOfProcessed, CommittedOnce
<1>12. QED
  BY <1>2, <1>5, <1>7, <1>9, <1>10, <1>11 DEF IInv

LEMMA ActInv ==
  ASSUME IInv, NEW u \in Users, NEW input \in Inputs, Act(u, input)
  PROVE  IInv'
<1> DEFINE update == [user |-> u, input |-> input]
<1>1. updates \in Seq([user : Users, input : Inputs]) /\ update \in [user : Users, input : Inputs]
  BY DEF IInv, UpdateShape
<1>2. /\ updates' \in Seq([user : Users, input : Inputs])
      /\ Len(updates') = Len(updates) + 1 /\ Len(updates) \in Nat
  BY <1>1, AppendProperties, LenProperties DEF Act
<1>3. setup' = setup /\ transport' = transport
  BY DEF Act, transport
<1>4. transport \in Transports
  BY DEF IInv, TransportShape, transport
<1>5. UpdateShape'
  BY <1>2, <1>3, <1>4, ScriptLength DEF Act, UpdateShape
<1>6. TransportShape'
  BY <1>3 DEF IInv, Act, TransportShape, transport
<1>7. RunShape' /\ TableShape' /\ RowsOfProcessed' /\ CommittedOnce'
  BY DEF IInv, Act, database, RunShape, TableShape, RowsOfProcessed, CommittedOnce
<1>8. 1..Len(updates) \subseteq 1..Len(updates') /\ Len(updates) + 1 \in 1..Len(updates')
  BY <1>2
<1>9. HeldAreUpdates'
  BY <1>8 DEF IInv, Act, HeldAreUpdates
<1>10. QED
  BY <1>5, <1>6, <1>7, <1>9 DEF IInv

LEMMA WebhookCallInv ==
  ASSUME IInv, NEW h \in Handlers, NEW x \in waiting, WebhookCall(h, x)
  PROVE  IInv'
<1>1. /\ RunShape'
      /\ handler'[h].pc = "idle" \/ (handler'[h].pc = "looked" /\ handler'[h].upd = x)
      /\ \A g \in Handlers \ {h} : handler'[g] = handler[g]
  BY LookedShape DEF IInv, WebhookCall
<1>2. waiting' \subseteq waiting /\ transport' = transport /\ transport # "polling"
  BY DEF WebhookCall, Answer, transport
<1>3. TransportShape'
  BY <1>2 DEF IInv, WebhookCall, TransportShape
<1>4. UpdateShape' /\ TableShape' /\ RowsOfProcessed'
  BY <1>2 DEF IInv, WebhookCall, database, UpdateShape, TableShape, RowsOfProcessed
<1>5. HeldAreUpdates'
  BY <1>1, <1>2 DEF IInv, WebhookCall, HeldAreUpdates
<1>6. CommittedOnce'
  BY <1>1 DEF IInv, WebhookCall, database, CommittedOnce
<1>7. QED
  BY <1>1, <1>3, <1>4, <1>5, <1>6 DEF IInv

LEMMA PollGetInv ==
  ASSUME IInv, NEW from \in 0..Len(updates), NEW to \in 1..Len(updates), PollGet(from, to)
  PROVE  IInv'
<1>1. Len(updates) \in Nat
  BY LenProperties DEF IInv, UpdateShape
<1>2. from \in Nat /\ to \in Nat /\ from < to /\ to <= Len(updates) /\ to - from \in Nat
  BY <1>1 DEF PollGet
<1>3. /\ batch' \in [1..(to - from) -> Nat]
      /\ DOMAIN batch' = 1..(to - from)
      /\ \A i \in DOMAIN batch' : batch'[i] \in 1..Len(updates)
  BY <1>1, <1>2 DEF PollGet
<1>4. batch' \in Seq(Nat)
  BY <1>2, <1>3, SeqDef
<1>5. HeldAreUpdates'
  BY <1>3, <1>4 DEF IInv, PollGet, HeldAreUpdates
<1>6. TransportShape'
  BY DEF IInv, PollGet, TransportShape, transport
<1>7. UpdateShape' /\ RunShape' /\ TableShape' /\ RowsOfProcessed' /\ CommittedOnce'
  BY DEF IInv, PollGet, database, UpdateShape, RunShape, TableShape, RowsOfProcessed,
         CommittedOnce, transport
<1>8. QED
  BY <1>5, <1>6, <1>7 DEF IInv

\* The rest of a batch is part of it.
LEMMA RestOfBatch ==
  ASSUME batch \in Seq(Nat), batch # <<>>
  PROVE  /\ Tail(batch) \in Seq(Nat)
         /\ \A i \in DOMAIN Tail(batch) : \E j \in DOMAIN batch : Tail(batch)[i] = batch[j]
         /\ \E j \in DOMAIN batch : Head(batch) = batch[j]
         /\ \A j \in DOMAIN batch : batch[j] = Head(batch)
                                      \/ \E i \in DOMAIN Tail(batch) : batch[j] = Tail(batch)[i]
<1>1. /\ Tail(batch) \in Seq(Nat) /\ Len(Tail(batch)) = Len(batch) - 1
      /\ \A i \in 1..Len(Tail(batch)) : Tail(batch)[i] = batch[i + 1]
  BY HeadTailProperties
<1>2. /\ DOMAIN batch = 1..Len(batch) /\ Len(batch) \in Nat
      /\ DOMAIN Tail(batch) = 1..Len(Tail(batch)) /\ Len(Tail(batch)) \in Nat
  BY <1>1, LenProperties
<1>3. Len(batch) >= 1 /\ 1 \in DOMAIN batch
  BY <1>1, <1>2
<1>4. Head(batch) = batch[1]
  BY <1>2, <1>3
<1>5. \A i \in DOMAIN Tail(batch) : i + 1 \in DOMAIN batch /\ Tail(batch)[i] = batch[i + 1]
  BY <1>1, <1>2
<1>6. \A j \in DOMAIN batch : j = 1 \/ (j - 1 \in DOMAIN Tail(batch) /\ Tail(batch)[j - 1] = batch[j])
  BY <1>1, <1>2
<1>7. QED
  BY <1>1, <1>3, <1>4, <1>5, <1>6

LEMMA PollNextInv ==
  ASSUME IInv, NEW h \in Handlers, PollNext(h)
  PROVE  IInv'
<1>1. /\ RunShape'
      /\ handler'[h].pc = "idle" \/ (handler'[h].pc = "looked" /\ handler'[h].upd = Head(batch))
      /\ \A g \in Handlers \ {h} : handler'[g] = handler[g]
  BY LookedShape DEF IInv, PollNext
<1>2. /\ batch \in Seq(Nat) /\ batch # <<>> /\ batch' = Tail(batch)
      /\ \A i \in DOMAIN batch : batch[i] \in 1..Len(updates)
  BY DEF IInv, HeldAreUpdates, PollNext
<1>3. /\ batch' \in Seq(Nat) /\ Head(batch) \in 1..Len(updates)
      /\ \A i \in DOMAIN batch' : batch'[i] \in 1..Len(updates)
  BY <1>2, RestOfBatch
<1>4. HeldAreUpdates'
  BY <1>1, <1>3 DEF IInv, PollNext, HeldAreUpdates
<1>5. TransportShape'
  BY <1>2 DEF IInv, PollNext, TransportShape, transport
<1>6. UpdateShape' /\ TableShape' /\ RowsOfProcessed'
  BY DEF IInv, PollNext, database, UpdateShape, TableShape, RowsOfProcessed, transport
<1>7. CommittedOnce'
  BY <1>1 DEF IInv, PollNext, database, CommittedOnce
<1>8. QED
  BY <1>1, <1>4, <1>5, <1>6, <1>7 DEF IInv

\* What a handler has loaded is an account, as the table has it.
LEMMA LoadInv ==
  ASSUME IInv, NEW h \in Handlers, Load(h)
  PROVE  /\ IInv' /\ handler'[h].pc \in {"insert", "loaded"}
         /\ handler'[h].upd = handler[h].upd /\ handler'[h].seen = account[Updated(h).user]
         /\ \A g \in Handlers \ {h} : handler'[g] = handler[g]
<1> DEFINE seen == account[Updated(h).user]
           pc == IF seen.known THEN "loaded" ELSE "insert"
           next == [handler[h] EXCEPT !.pc = pc, !.seen = seen]
<1>1. handler[h].pc = "looked" /\ Goes(h, next) /\ Step
  BY DEF Load
<1>2. Updated(h) \in [user : Users, input : Inputs]
  BY <1>1, LenProperties DEF IInv, HeldAreUpdates, UpdateShape, Updated
<1>3. IsAccount(seen) /\ IsRun(handler[h])
  BY <1>2 DEF IInv, TableShape, RunShape
<1>4. IsRun(next) /\ next.pc = pc /\ next.upd = handler[h].upd /\ next.seen = seen
  <2> HIDE DEF pc, seen
  <2>1. PICK S : handler[h] \in RunsOver(S) /\ pc \in S /\ seen \in S
    BY <1>3, TypedRun, Zenon
  <2>2. next \in RunsOver(S)
    BY <2>1 DEF RunsOver
  <2>3. next.pc = pc /\ next.upd = handler[h].upd /\ next.seen = seen
    BY <2>1 DEF RunsOver
  <2>4. QED
    BY <2>2, <2>3, RunsOverIsRun, Zenon
<1>5. pc \in {"insert", "loaded"}
  OBVIOUS
<1>6. QED
  <2>1. seen = account[Updated(h).user]
    OBVIOUS
  <2> HIDE DEF next, pc, seen
  <2>2. next.pc # "committed" /\ handler[h].pc # "idle"
    BY <1>1, <1>4, <1>5
  <2>3. IInv' /\ handler'[h] = next /\ \A g \in Handlers \ {h} : handler'[g] = handler[g]
    BY <1>1, <1>3, <1>4, <2>2, RunInv
  <2>4. QED
    BY <1>4, <1>5, <2>1, <2>3

\* The edit of Insert.
LEMMA InsertEdit ==
  ASSUME NEW r, IsRun(r), IsAccount(r.seen)
  PROVE  LET n == [r EXCEPT !.pc = "loaded", !.fresh = TRUE, !.seen.known = TRUE] IN
         /\ IsRun(n) /\ IsAccount(n.seen) /\ n.pc = "loaded" /\ n.upd = r.upd
         /\ n.seen.mode = r.seen.mode /\ n.seen.flow = r.seen.flow
<1> DEFINE Seens == [known : {r.seen.known, TRUE}, mode : {r.seen.mode}, flow : {r.seen.flow}]
           Runs5 == [pc : {r.pc, "loaded"}, upd : {r.upd}, seen : Seens, fresh : {r.fresh, TRUE},
                     reply : {r.reply}]
           n == [r EXCEPT !.pc = "loaded", !.fresh = TRUE, !.seen.known = TRUE]
<1>1. r.seen \in Seens
  BY DEF IsAccount
<1>2. r \in Runs5
  <2> HIDE DEF Seens
  <2>1. QED
    BY <1>1 DEF IsRun
<1>3. n \in Runs5
  BY <1>1, <1>2
<1>4. n.pc = "loaded"
  BY <1>2
<1>5. \A m \in Runs5 : IsRun(m) /\ m.upd = r.upd /\ m.seen \in Seens
  <2> HIDE DEF Seens
  <2>1. QED
    BY DEF IsRun
<1>6. \A a \in Seens : IsAccount(a) /\ a.mode = r.seen.mode /\ a.flow = r.seen.flow
  BY DEF IsAccount
<1>7. QED
  <2> HIDE DEF Seens, Runs5, n
  <2>1. IsRun(n) /\ n.upd = r.upd /\ n.seen \in Seens
    BY <1>3, <1>5
  <2>2. IsAccount(n.seen) /\ n.seen.mode = r.seen.mode /\ n.seen.flow = r.seen.flow
    BY <2>1, <1>6
  <2>3. QED
    BY <1>4, <2>1, <2>2 DEF n

LEMMA InsertInv ==
  ASSUME IInv, NEW h \in Handlers, Insert(h)
  PROVE  /\ IInv' /\ handler'[h].pc = "loaded" /\ handler'[h].upd = handler[h].upd
         /\ handler'[h].seen.mode = handler[h].seen.mode
         /\ handler'[h].seen.flow = handler[h].seen.flow
         /\ \A g \in Handlers \ {h} : handler'[g] = handler[g]
<1> DEFINE next == [handler[h] EXCEPT !.pc = "loaded", !.fresh = TRUE, !.seen.known = TRUE]
<1>1. handler[h].pc = "insert" /\ Goes(h, next) /\ Step
  BY DEF Insert
<1>2. IsAccount(handler[h].seen) /\ IsRun(handler[h])
  BY DEF IInv, RunShape
<1>3. /\ IsRun(next) /\ IsAccount(next.seen) /\ next.pc = "loaded" /\ next.upd = handler[h].upd
      /\ next.seen.mode = handler[h].seen.mode /\ next.seen.flow = handler[h].seen.flow
  BY <1>2, InsertEdit
<1>4. QED
  <2> HIDE DEF next
  <2>1. QED
    BY <1>1, <1>3, RunInv

LEMMA HandleInv ==
  ASSUME IInv, NEW h \in Handlers, Handle(h)
  PROVE  /\ IInv' /\ handler'[h].pc = "replied" /\ handler'[h].upd = handler[h].upd
         /\ handler'[h].seen = handler[h].seen
         /\ \A g \in Handlers \ {h} : handler'[g] = handler[g]
<1>1. PICK r : Goes(h, [handler[h] EXCEPT !.pc = "replied", !.reply = r])
  BY DEF Handle
<1> DEFINE next == [handler[h] EXCEPT !.pc = "replied", !.reply = r]
<1>2. handler[h].pc = "loaded" /\ Goes(h, next) /\ Step
  BY <1>1 DEF Handle
<1>3. IsAccount(handler[h].seen) /\ IsRun(handler[h])
  BY DEF IInv, RunShape
<1>4. IsRun(next) /\ next.pc = "replied" /\ next.upd = handler[h].upd /\ next.seen = handler[h].seen
  <2>1. PICK S : handler[h] \in RunsOver(S) /\ "replied" \in S /\ r \in S
    BY <1>3, TypedRun, Zenon
  <2>2. next \in RunsOver(S)
    BY <2>1 DEF RunsOver
  <2>3. next.pc = "replied" /\ next.upd = handler[h].upd /\ next.seen = handler[h].seen
    BY <2>1 DEF RunsOver
  <2>4. QED
    BY <2>2, <2>3, RunsOverIsRun, Zenon
<1>5. QED
  <2> HIDE DEF next
  <2>1. QED
    BY <1>2, <1>3, <1>4, RunInv

\* The row of a user after the flush.
LEMMA SavedShape ==
  ASSUME IInv, NEW h \in Handlers, Commit(h)
  PROVE  DOMAIN account' = Users /\ \A u \in Users : IsAccount(account'[u])
<1>1. \A db, seen, reply : IsAccount(Saved(db, seen, reply))
  BY DEF Saved, IsAccount
<1>2. PICK v, a : account' = [account EXCEPT ![v] = a] /\ IsAccount(a)
  BY <1>1 DEF Commit
<1>3. QED
  BY <1>2 DEF IInv, TableShape

\* What a commit does to the handler and to the tables.
LEMMA CommitEffect ==
  ASSUME IInv, NEW h \in Handlers, Commit(h)
  PROVE  /\ RunShape' /\ TableShape'
         /\ handler'[h].pc = "committed" /\ handler'[h].upd = handler[h].upd
         /\ handler'[h].reply = handler[h].reply
         /\ \A g \in Handlers \ {h} : handler'[g] = handler[g]
         /\ handler[h].upd \in 1..Len(updates) /\ handler[h].upd \notin processed
         /\ \/ work' = work /\ handler[h].reply.work = "none"
            \/ \E row : /\ work' = Append(work, row) /\ row.upd = handler[h].upd
                        /\ DOMAIN work = 1..Len(work) /\ Len(work) \in Nat
                        /\ DOMAIN work' = 1..(Len(work) + 1)
                        /\ \A i \in DOMAIN work : work'[i] = work[i]
                        /\ work'[Len(work) + 1] = row
<1> DEFINE next == [handler[h] EXCEPT !.pc = "committed", !.fresh = FALSE]
           u == Updated(h).user
           row == [upd |-> handler[h].upd, user |-> u, kind |-> handler[h].reply.work,
                   mode |-> handler[h].seen.mode]
<1>1. Goes(h, next) /\ handler[h].pc = "replied" /\ handler[h].upd \notin processed
  BY DEF Commit, Conflicts
<1>2. IsAccount(handler[h].seen) /\ IsRun(handler[h])
  BY DEF IInv, RunShape
<1>3. /\ IsRun(next) /\ next.pc = "committed" /\ next.upd = handler[h].upd
      /\ next.seen = handler[h].seen /\ next.reply = handler[h].reply
  <2>1. PICK S : handler[h] \in RunsOver(S) /\ "committed" \in S /\ FALSE \in S
    BY <1>2, TypedRun, Zenon
  <2>2. next \in RunsOver(S)
    BY <2>1 DEF RunsOver
  <2>3. /\ next.pc = "committed" /\ next.upd = handler[h].upd
        /\ next.seen = handler[h].seen /\ next.reply = handler[h].reply
    BY <2>1 DEF RunsOver
  <2>4. QED
    BY <2>2, <2>3, RunsOverIsRun, Zenon
<1>4. /\ RunShape' /\ handler'[h] = next
      /\ \A g \in Handlers \ {h} : handler'[g] = handler[g]
  <2> HIDE DEF next
  <2>1. QED
    BY <1>1, <1>2, <1>3, StepOfOne DEF IInv
<1>5. handler[h].upd \in 1..Len(updates)
  BY <1>1 DEF IInv, HeldAreUpdates
<1>6. work' = IF handler[h].reply.work = "none" THEN work ELSE Append(work, row)
  BY DEF Commit
<1>7. CASE handler[h].reply.work = "none"
  <2>1. work' = work
    BY <1>6, <1>7
  <2>2. TableShape'
    BY <2>1, SavedShape DEF IInv, TableShape
  <2>3. QED
    BY <1>1, <1>3, <1>4, <1>5, <1>7, <2>1, <2>2
<1>8. CASE handler[h].reply.work # "none"
  <2>1. work' = Append(work, row) /\ row.upd = handler[h].upd
    BY <1>6, <1>8
  <2> HIDE DEF row
  <2>2. /\ \E S : work' \in Seq(S)
        /\ DOMAIN work = 1..Len(work) /\ Len(work) \in Nat
        /\ DOMAIN work' = 1..(Len(work) + 1)
        /\ \A i \in DOMAIN work : work'[i] = work[i]
        /\ work'[Len(work) + 1] = row
    BY <2>1, Inserted DEF IInv
  <2>3. TableShape'
    BY <2>2, SavedShape DEF TableShape
  <2> HIDE DEF next
  <2>4. QED
    BY <1>1, <1>3, <1>4, <1>5, <2>1, <2>2, <2>3
<1>9. QED
  BY <1>7, <1>8

LEMMA CommitInv ==
  ASSUME IInv, NEW h \in Handlers, Commit(h)
  PROVE  IInv'
<1> DEFINE x == handler[h].upd
<1>1. UNCHANGED <<setup, updates, waiting, batch, started>> /\ transport' = transport
  BY DEF Commit, max, transport
<1>2. processed' = processed \cup {x} /\ x \notin processed
  BY CommitEffect DEF Commit
<1>3. TransportShape' /\ UpdateShape'
  BY <1>1 DEF IInv, TransportShape, UpdateShape
<1>4. HeldAreUpdates'
  BY <1>1, CommitEffect DEF IInv, HeldAreUpdates
<1>5. RowsOfProcessed'
  BY <1>2, CommitEffect DEF IInv, RowsOfProcessed
<1>6. handler[h].reply.work \in TaskKinds => handler[h].reply.work # "none"
  BY DEF TaskKinds, Contexts
<1>7. handler[h].reply.work \in TaskKinds => \E i \in DOMAIN work' : work'[i].upd = x
  BY <1>6, CommitEffect
<1>8. \A g \in Handlers \ {h} :
        handler[g].reply.work \in TaskKinds /\ (\E i \in DOMAIN work : work[i].upd = handler[g].upd)
          => \E i \in DOMAIN work' : work'[i].upd = handler[g].upd
  BY CommitEffect
<1>9. \A g \in Handlers \ {h} : handler[g].pc = "committed" => handler[g].upd # x
  BY <1>2 DEF IInv, CommittedOnce
<1>10. x \notin started
  BY <1>2 DEF IInv, CommittedOnce
<1>11. CommittedOnce'
  BY <1>1, <1>2, <1>7, <1>8, <1>9, <1>10, CommitEffect DEF IInv, CommittedOnce
<1>12. QED
  BY <1>3, <1>4, <1>5, <1>11, CommitEffect DEF IInv

LEMMA ScheduleInv ==
  ASSUME IInv, NEW h \in Handlers, Schedule(h)
  PROVE  IInv'
<1>1. /\ RunShape' /\ handler'[h] = IdleHandler
      /\ \A g \in Handlers \ {h} : handler'[g] = handler[g]
  BY StepOfOne, IdleShape DEF IInv, Schedule
<1>2. waiting' \subseteq waiting
  BY DEF Schedule, Answer
<1>3. TransportShape' /\ UpdateShape' /\ TableShape' /\ RowsOfProcessed'
  BY <1>2 DEF IInv, Schedule, database, TransportShape, UpdateShape, TableShape, RowsOfProcessed,
              transport
<1>4. HeldAreUpdates'
  BY <1>1, <1>2, IdleShape DEF IInv, Schedule, HeldAreUpdates
<1>5. /\ started \subseteq started' /\ started' \subseteq started \cup {handler[h].upd}
      /\ UNCHANGED <<work, processed>> /\ handler[h].pc = "committed"
  BY DEF Schedule, database
<1>6. CommittedOnce'
  BY <1>1, <1>5, IdleShape DEF IInv, CommittedOnce
<1>7. QED
  BY <1>1, <1>3, <1>4, <1>6 DEF IInv

LEMMA CrashInv ==
  ASSUME IInv, Crash
  PROVE  IInv'
<1>1. /\ DOMAIN handler' = Handlers /\ \A h \in Handlers : handler'[h] = IdleHandler
      /\ batch' = <<>> /\ UNCHANGED <<setup, updates, waiting, database, started>>
  BY DEF Crash
<1>2. RunShape'
  BY <1>1, IdleShape DEF RunShape
<1>3. TransportShape' /\ UpdateShape' /\ TableShape' /\ RowsOfProcessed'
  BY <1>1 DEF IInv, database, TransportShape, UpdateShape, TableShape, RowsOfProcessed, transport
<1>4. <<>> \in Seq(Nat) /\ DOMAIN <<>> = {}
  BY EmptySeq, LenProperties
<1>5. HeldAreUpdates'
  BY <1>1, <1>4, IdleShape DEF IInv, HeldAreUpdates
<1>6. CommittedOnce'
  BY <1>1, IdleShape DEF IInv, CommittedOnce, database
<1>7. QED
  BY <1>2, <1>3, <1>5, <1>6 DEF IInv

LEMMA NextInv ==
  ASSUME IInv, [Next]_vars
  PROVE  IInv'
<1>1. ASSUME NEW u \in Users, NEW input \in Inputs, Act(u, input) PROVE IInv'
  BY <1>1, ActInv
<1>2. ASSUME NEW h \in Handlers, NEW x \in waiting, WebhookCall(h, x) PROVE IInv'
  BY <1>2, WebhookCallInv
<1>3. ASSUME Polls PROVE IInv'
  BY <1>3, PollGetInv, PollNextInv DEF Polls
<1>4. ASSUME NEW h \in Handlers, Runs(h) PROVE IInv'
  <2>1. CASE Load(h)
    BY <2>1, LoadInv
  <2>2. CASE Insert(h)
    BY <2>2, InsertInv
  <2>3. CASE InsertFails(h)
    BY <2>3, ThrownInv DEF InsertFails
  <2>4. CASE Handle(h)
    BY <2>4, HandleInv
  <2>5. CASE Commit(h)
    BY <2>5, CommitInv
  <2>6. CASE CommitFails(h)
    BY <2>6, ThrownInv DEF CommitFails
  <2>7. CASE Schedule(h)
    BY <2>7, ScheduleInv
  <2>8. QED
    BY <1>4, <2>1, <2>2, <2>3, <2>4, <2>5, <2>6, <2>7 DEF Runs
<1>5. ASSUME NEW h \in Handlers, Fail(h) PROVE IInv'
  BY <1>5, ThrownInv DEF Fail
<1>6. CASE Crash
  BY <1>6, CrashInv
<1>7. CASE UNCHANGED vars
  BY <1>7 DEF vars, max, database, IInv, TransportShape, UpdateShape, RunShape, TableShape,
              HeldAreUpdates, RowsOfProcessed, CommittedOnce, transport
<1>8. QED
  BY <1>1, <1>2, <1>3, <1>4, <1>5, <1>6, <1>7 DEF Next

\* The inductive invariant: the rows of an update are there exactly when it is
\* processed, and it is processed by one run of its handler.
LEMMA InvariantHolds == Spec => []IInv
<1>1. Init => IInv
  BY InitInv
<1>2. IInv /\ [Next]_vars => IInv'
  BY NextInv
<1>3. QED
  BY <1>1, <1>2, PTL DEF Spec

-----------------------------------------------------------------------------
(* The dispatch implements UpdateEffects. *)

RowsOf(x) == {i \in DOMAIN work : work[i].upd = x}

\* No step but a commit and the start of a task shows in UpdateEffects.
LEMMA Stutter ==
  ASSUME UNCHANGED database, UNCHANGED started
  PROVE  UNCHANGED Effects!vars
BY DEF database, Effects!vars

LEMMA CommitTakesEffect ==
  ASSUME IInv, NEW h \in Handlers, Commit(h)
  PROVE  Effects!Next
<1> DEFINE rows == [y \in 1..MaxUpdates |-> {i \in DOMAIN work : work[i].upd = y}]
<1>1. Len(updates) \in Nat /\ Len(updates) <= MaxUpdates /\ MaxUpdates \in Nat
  BY ScriptLength, LenProperties DEF IInv, TransportShape, UpdateShape, transport
<1>2. PICK x \in 1..MaxUpdates : x = handler[h].upd /\ x \notin processed
  BY <1>1, CommitEffect
<1>3. processed' = processed \cup {x} /\ started' = started
  BY <1>2 DEF Commit
<1>4. \A i \in DOMAIN work : work[i].upd # x
  BY <1>2 DEF IInv, RowsOfProcessed
<1>5. \A y \in 1..MaxUpdates \ {x} : rows'[y] = rows[y]
  BY <1>2, CommitEffect
<1>6. rows'[x] = {} \/ rows'[x] = {Len(work) + 1}
  BY <1>2, <1>4, CommitEffect
<1>7. DOMAIN rows' = 1..MaxUpdates
  OBVIOUS
<1>8. \A i, j \in rows'[x] : i = j
  BY <1>6
<1>9. Effects!TakeEffect(x)
  BY <1>2, <1>3, <1>5, <1>7, <1>8, Zenon DEF Effects!TakeEffect
<1>10. QED
  BY <1>9 DEF Effects!Next

LEMMA ScheduleStartsTask ==
  ASSUME IInv, NEW h \in Handlers, Schedule(h)
  PROVE  [Effects!Next]_(Effects!vars)
<1> DEFINE x == handler[h].upd
<1>1. UNCHANGED <<work, processed>> /\ handler[h].pc = "committed"
  BY DEF Schedule, database
<1>2. CASE handler[h].reply.work \notin TaskKinds
  BY <1>1, <1>2 DEF Schedule, Effects!vars
<1>3. CASE handler[h].reply.work \in TaskKinds
  <2>1. Len(updates) \in Nat /\ Len(updates) <= MaxUpdates /\ MaxUpdates \in Nat
    BY ScriptLength, LenProperties DEF IInv, TransportShape, UpdateShape, transport
  <2>2. x \in 1..MaxUpdates
    BY <1>1, <2>1 DEF IInv, HeldAreUpdates
  <2>3. x \in processed \ started /\ RowsOf(x) # {}
    BY <1>1, <1>3 DEF IInv, CommittedOnce, RowsOf
  <2>4. started' = started \cup {x}
    BY <1>3 DEF Schedule
  <2>5. Effects!StartTask(x)
    BY <1>1, <2>2, <2>3, <2>4 DEF Effects!StartTask, RowsOf
  <2>6. QED
    BY <2>2, <2>5 DEF Effects!Next
<1>4. QED
  BY <1>2, <1>3

LEMMA EffectsStep ==
  ASSUME IInv, [Next]_vars
  PROVE  [Effects!Next]_(Effects!vars)
<1>1. ASSUME NEW u \in Users, NEW input \in Inputs, Act(u, input) PROVE UNCHANGED Effects!vars
  BY <1>1, Stutter DEF Act
<1>2. ASSUME NEW h \in Handlers, NEW x \in waiting, WebhookCall(h, x)
      PROVE  UNCHANGED Effects!vars
  BY <1>2, Stutter DEF WebhookCall
<1>3. ASSUME Polls PROVE UNCHANGED Effects!vars
  BY <1>3, Stutter DEF Polls, PollGet, PollNext
<1>4. ASSUME NEW h \in Handlers, Runs(h) PROVE [Effects!Next]_(Effects!vars)
  <2>1. CASE Load(h) \/ Insert(h) \/ Handle(h)
    BY <2>1, Stutter DEF Load, Insert, Handle, Step
  <2>2. CASE InsertFails(h) \/ CommitFails(h)
    BY <2>2, Stutter DEF InsertFails, CommitFails, Thrown
  <2>3. CASE Commit(h)
    BY <2>3, CommitTakesEffect
  <2>4. CASE Schedule(h)
    BY <2>4, ScheduleStartsTask
  <2>5. QED
    BY <1>4, <2>1, <2>2, <2>3, <2>4 DEF Runs
<1>5. ASSUME NEW h \in Handlers, Fail(h) PROVE UNCHANGED Effects!vars
  BY <1>5, Stutter DEF Fail, Thrown
<1>6. CASE Crash
  BY <1>6, Stutter DEF Crash
<1>7. CASE UNCHANGED vars
  BY <1>7, Stutter DEF vars
<1>8. QED
  BY <1>1, <1>2, <1>3, <1>4, <1>5, <1>6, <1>7 DEF Next

\* Whatever MAX repeats and however the requests, the loop, the exceptions and
\* the restarts interleave, an update takes effect in one step and once, and a
\* task is started once, for an update that took effect: the dispatch
\* implements UpdateEffects (max_dispatch.py).
THEOREM DispatchImplementsUpdateEffects == Spec => ImplementsUpdateEffects
<1>1. Init => Effects!Init
  BY DEF Init, Effects!Init
<1>2. IInv /\ [Next]_vars => [Effects!Next]_(Effects!vars)
  BY EffectsStep
<1>3. QED
  BY <1>1, <1>2, InvariantHolds, PTL DEF Spec, ImplementsUpdateEffects, Effects!Spec

-----------------------------------------------------------------------------
(* Long polling. *)

\* The loop waits for the end of a dispatch before it starts the next.
OneAtATime ==
  /\ \A g, h \in Handlers : handler[g].pc # "idle" /\ handler[h].pc # "idle" => g = h
  /\ \A h \in Handlers : handler[h].pc = "idle" => handler[h].upd = 0

FreshRun ==
  \A h \in Handlers : handler[h].pc \in {"insert", "loaded", "replied"} =>
    LET now == account[Updated(h).user] IN
    handler[h].seen.mode = now.mode /\ handler[h].seen.flow = now.flow

MarkerShape == confirmed \in 0..Len(updates) /\ (marker = NoMarker \/ marker \in 1..Len(updates))

\* The marker sent to MAX covers nothing that is still in hand: this is what a
\* restart without a marker rests on.
ConfirmedDone == \A x \in Updates : x <= confirmed => x \in processed \cup dropped

ReceivedHeld ==
  marker # NoMarker => \A x \in Updates : x <= marker => x \in processed \cup dropped \cup InHand

PolledInv ==
  transport = "polling" =>
    OneAtATime /\ FreshRun /\ MarkerShape /\ ConfirmedDone /\ ReceivedHeld

LEMMA UpdateNumbers ==
  ASSUME IInv
  PROVE  Updates = 1..Len(updates) /\ Len(updates) \in Nat
BY LenProperties DEF IInv, UpdateShape, Updates

\* A handler that goes on keeps its update in hand.
LEMMA HandlerGoesOn ==
  ASSUME IInv, PolledInv, transport = "polling",
         NEW h \in Handlers, handler[h].pc # "idle", handler'[h].pc # "idle",
         handler'[h].upd = handler[h].upd,
         \A g \in Handlers \ {h} : handler'[g] = handler[g],
         UNCHANGED <<updates, batch, marker, confirmed, dropped>>, processed \subseteq processed'
  PROVE  OneAtATime' /\ MarkerShape' /\ ConfirmedDone' /\ ReceivedHeld'
<1>1. OneAtATime'
  BY DEF PolledInv, OneAtATime
<1>2. MarkerShape' /\ ConfirmedDone'
  BY DEF PolledInv, MarkerShape, ConfirmedDone, Updates
<1>3. InHand' = InHand
  BY DEF InHand
<1>4. ReceivedHeld'
  BY <1>3 DEF PolledInv, ReceivedHeld, Updates
<1>5. QED
  BY <1>1, <1>2, <1>4

\* What a handler has seen stays what the table has, whoever else is idle.
LEMMA StaysFresh ==
  ASSUME PolledInv, transport = "polling", RunShape,
         NEW h \in Handlers, handler[h].pc # "idle",
         \A g \in Handlers \ {h} : handler'[g] = handler[g],
         handler'[h].pc \in {"insert", "loaded", "replied"} =>
            LET now == account'[Updated(h)'.user] IN
            handler'[h].seen.mode = now.mode /\ handler'[h].seen.flow = now.flow
  PROVE  FreshRun'
<1>1. \A g \in Handlers \ {h} : handler'[g].pc = "idle"
  BY DEF PolledInv, OneAtATime
<1>2. QED
  BY <1>1 DEF FreshRun

LEMMA ThrownPolled ==
  ASSUME IInv, PolledInv, transport = "polling", NEW h \in Handlers, Thrown(h)
  PROVE  PolledInv'
<1>1. /\ handler'[h] = IdleHandler
      /\ \A g \in Handlers \ {h} : handler'[g] = handler[g]
  BY DEF IInv, RunShape, Thrown
<1>2. /\ UNCHANGED <<updates, marker, confirmed, account, processed>>
      /\ dropped' = dropped \cup {handler[h].upd} \cup {batch[i] : i \in DOMAIN batch}
  BY DEF Thrown, database
<1>3. OneAtATime'
  BY <1>1, IdleShape DEF PolledInv, OneAtATime
<1>4. FreshRun'
  BY <1>1, <1>2, IdleShape DEF PolledInv, FreshRun, Updated
<1>5. MarkerShape' /\ ConfirmedDone'
  BY <1>2 DEF PolledInv, MarkerShape, ConfirmedDone, Updates
<1>6. InHand \subseteq dropped' \cup InHand'
  BY <1>1, <1>2 DEF InHand
<1>7. ReceivedHeld'
  BY <1>2, <1>6 DEF PolledInv, ReceivedHeld, Updates
<1>8. QED
  BY <1>3, <1>4, <1>5, <1>7 DEF PolledInv

LEMMA InitPolled == ASSUME Init PROVE PolledInv
<1>1. /\ handler = [h \in Handlers |-> IdleHandler] /\ updates = <<>>
      /\ marker = NoMarker /\ confirmed = 0
  BY DEF Init
<1>2. Updates = {} /\ Len(updates) = 0
  BY <1>1, EmptySeq, LenProperties DEF Updates
<1>3. OneAtATime /\ FreshRun
  BY <1>1, IdleShape DEF OneAtATime, FreshRun
<1>4. MarkerShape /\ ConfirmedDone /\ ReceivedHeld
  BY <1>1, <1>2 DEF MarkerShape, ConfirmedDone, ReceivedHeld
<1>5. QED
  BY <1>3, <1>4 DEF PolledInv

LEMMA ActPolled ==
  ASSUME IInv, PolledInv, transport = "polling",
         NEW u \in Users, NEW input \in Inputs, Act(u, input)
  PROVE  PolledInv'
<1>1. [user |-> u, input |-> input] \in [user : Users, input : Inputs]
  OBVIOUS
<1>2. /\ updates' \in Seq([user : Users, input : Inputs])
      /\ Len(updates') = Len(updates) + 1
      /\ \A i \in 1..Len(updates) : updates'[i] = updates[i]
  BY <1>1, AppendProperties DEF IInv, UpdateShape, Act
<1>3. Updates = 1..Len(updates) /\ Updates' = 1..Len(updates') /\ Len(updates) \in Nat
  BY <1>2, UpdateNumbers, LenProperties DEF Updates
<1>4. UNCHANGED <<handler, batch, marker, confirmed, dropped, account, processed>>
  BY DEF Act, database
<1>5. OneAtATime'
  BY <1>4 DEF PolledInv, OneAtATime
<1>6. \A h \in Handlers : handler[h].pc # "idle" => Updated(h)' = Updated(h)
  BY <1>2, <1>4 DEF IInv, HeldAreUpdates, Updated
<1>7. FreshRun'
  BY <1>4, <1>6 DEF PolledInv, FreshRun
<1>8. MarkerShape' /\ ConfirmedDone'
  BY <1>2, <1>3, <1>4 DEF PolledInv, MarkerShape, ConfirmedDone
<1>9. InHand' = InHand
  BY <1>4 DEF InHand
<1>10. ReceivedHeld'
  BY <1>2, <1>3, <1>4, <1>9 DEF PolledInv, MarkerShape, ReceivedHeld
<1>11. QED
  BY <1>5, <1>7, <1>8, <1>10 DEF PolledInv

LEMMA PollGetPolled ==
  ASSUME IInv, PolledInv, transport = "polling",
         NEW from \in 0..Len(updates), NEW to \in 1..Len(updates), PollGet(from, to)
  PROVE  PolledInv'
<1>1. Updates = 1..Len(updates) /\ Len(updates) \in Nat
  BY UpdateNumbers
<1>2. /\ UNCHANGED <<updates, handler, account, processed, dropped>>
      /\ marker' = to /\ confirmed' = from /\ from < to
      /\ batch' = [i \in 1..(to - from) |-> from + i]
  BY DEF PollGet, database
<1>3. \A x \in Updates : x \in InHand => FALSE
  <2>1. batch = <<>> /\ \A h \in Handlers : handler[h].upd = 0
    BY DEF PollGet, AllIdle, PolledInv, OneAtATime
  <2>2. DOMAIN <<>> = {}
    BY EmptySeq, LenProperties
  <2>3. QED
    BY <1>1, <2>1, <2>2 DEF InHand
<1>4. \A x \in Updates : x <= from => x \in processed \cup dropped
  <2>1. CASE marker = NoMarker
    BY <1>1, <2>1 DEF PollGet, PolledInv, MarkerShape, ConfirmedDone
  <2>2. CASE marker # NoMarker
    BY <1>3, <2>2 DEF PollGet, PolledInv, ReceivedHeld
  <2>3. QED
    BY <2>1, <2>2
<1>5. OneAtATime' /\ FreshRun'
  BY <1>2 DEF PolledInv, OneAtATime, FreshRun, Updated
<1>6. MarkerShape' /\ ConfirmedDone'
  BY <1>2, <1>4 DEF MarkerShape, ConfirmedDone, Updates
<1>7. \A x \in Updates : x <= to => x <= from \/ x \in InHand'
  <2> SUFFICES ASSUME NEW x \in Updates, x <= to, ~(x <= from) PROVE x \in InHand'
    OBVIOUS
  <2>1. x - from \in 1..(to - from)
    BY <1>1
  <2>2. DOMAIN batch' = 1..(to - from) /\ batch'[x - from] = x
    BY <1>1, <1>2, <2>1
  <2>3. QED
    BY <2>1, <2>2 DEF InHand
<1>8. ReceivedHeld'
  BY <1>2, <1>4, <1>7 DEF ReceivedHeld, Updates
<1>9. QED
  BY <1>5, <1>6, <1>8 DEF PolledInv

LEMMA PollNextPolled ==
  ASSUME IInv, PolledInv, transport = "polling", NEW h \in Handlers, PollNext(h)
  PROVE  PolledInv'
<1>1. /\ RunShape' /\ \A g \in Handlers \ {h} : handler'[g] = handler[g]
  BY LookedShape DEF IInv, PollNext
<1>2. handler'[h] = IF Head(batch) \in processed THEN IdleHandler
                    ELSE [IdleHandler EXCEPT !.pc = "looked", !.upd = Head(batch)]
  BY DEF IInv, RunShape, PollNext, Looked, Goes
<1>3. \/ Head(batch) \in processed /\ handler'[h] = IdleHandler
      \/ handler'[h].pc = "looked" /\ handler'[h].upd = Head(batch)
  <2>1. /\ [IdleHandler EXCEPT !.pc = "looked", !.upd = Head(batch)].pc = "looked"
        /\ [IdleHandler EXCEPT !.pc = "looked", !.upd = Head(batch)].upd = Head(batch)
    BY DEF IdleHandler
  <2>2. QED
    BY <1>2, <2>1, Zenon
<1>4. /\ UNCHANGED <<updates, marker, confirmed, dropped, account, processed>>
      /\ batch' = Tail(batch) /\ AllIdle /\ batch # <<>> /\ batch \in Seq(Nat)
  BY DEF PollNext, database, IInv, HeldAreUpdates
<1>5. OneAtATime'
  BY <1>1, <1>3, <1>4, IdleShape DEF PolledInv, OneAtATime, AllIdle
<1>6. FreshRun'
  BY <1>1, <1>3, <1>4, IdleShape DEF FreshRun, AllIdle
<1>7. MarkerShape' /\ ConfirmedDone'
  BY <1>4 DEF PolledInv, MarkerShape, ConfirmedDone, Updates
<1>8. \A x \in Updates : x \in InHand => x \in processed \cup InHand'
  <2> SUFFICES ASSUME NEW x \in Updates, x \in InHand PROVE x \in processed \cup InHand'
    OBVIOUS
  <2>1. CASE \E g \in Handlers : x = handler[g].upd
    <3>1. x = 0
      BY <1>4, <2>1 DEF AllIdle, PolledInv, OneAtATime
    <3>2. QED
      BY <3>1, UpdateNumbers
  <2>2. CASE \E j \in DOMAIN batch : x = batch[j]
    <3>1. x = Head(batch) \/ \E i \in DOMAIN batch' : x = batch'[i]
      BY <1>4, <2>2, RestOfBatch
    <3>2. QED
      BY <1>3, <3>1 DEF InHand
  <2>3. QED
    BY <2>1, <2>2 DEF InHand
<1>9. ReceivedHeld'
  BY <1>4, <1>8 DEF PolledInv, ReceivedHeld, Updates
<1>10. QED
  BY <1>5, <1>6, <1>7, <1>9 DEF PolledInv

LEMMA RunsPolled ==
  ASSUME IInv, PolledInv, transport = "polling", NEW h \in Handlers,
         Load(h) \/ Insert(h) \/ Handle(h)
  PROVE  PolledInv'
<1>1. /\ handler[h].pc \in {"looked", "insert", "loaded"}
      /\ handler'[h].pc \in {"insert", "loaded", "replied"}
      /\ handler'[h].upd = handler[h].upd
      /\ \A g \in Handlers \ {h} : handler'[g] = handler[g]
  BY LoadInv, InsertInv, HandleInv DEF Load, Insert, Handle
<1>2. UNCHANGED <<updates, batch, marker, confirmed, dropped, account, processed>>
  BY DEF Load, Insert, Handle, Step, max, database
<1>3. OneAtATime' /\ MarkerShape' /\ ConfirmedDone' /\ ReceivedHeld'
  BY <1>1, <1>2, HandlerGoesOn
<1>4. Updated(h)' = Updated(h)
  BY <1>1, <1>2 DEF Updated
<1>5. LET now == account[Updated(h).user] IN
      handler'[h].seen.mode = now.mode /\ handler'[h].seen.flow = now.flow
  <2>1. CASE Load(h)
    BY <2>1, LoadInv
  <2>2. CASE Insert(h)
    BY <2>2, InsertInv DEF Insert, PolledInv, FreshRun
  <2>3. CASE Handle(h)
    BY <2>3, HandleInv DEF Handle, PolledInv, FreshRun
  <2>4. QED
    BY <2>1, <2>2, <2>3
<1>6. FreshRun'
  BY <1>1, <1>2, <1>4, <1>5, StaysFresh DEF IInv
<1>7. QED
  BY <1>3, <1>6 DEF PolledInv

LEMMA CommitPolled ==
  ASSUME IInv, PolledInv, transport = "polling", NEW h \in Handlers, Commit(h)
  PROVE  PolledInv'
<1>1. /\ handler[h].pc = "replied" /\ handler'[h].pc = "committed"
      /\ handler'[h].upd = handler[h].upd
      /\ \A g \in Handlers \ {h} : handler'[g] = handler[g]
  BY CommitEffect DEF Commit
<1>2. UNCHANGED <<updates, batch, marker, confirmed, dropped>> /\ processed \subseteq processed'
  BY DEF Commit, max
<1>3. OneAtATime' /\ MarkerShape' /\ ConfirmedDone' /\ ReceivedHeld'
  BY <1>1, <1>2, HandlerGoesOn
<1>4. FreshRun'
  BY <1>1, StaysFresh DEF IInv
<1>5. QED
  BY <1>3, <1>4 DEF PolledInv

\* The update that leaves the hands of its handler has taken effect.
LEMMA SchedulePolled ==
  ASSUME IInv, PolledInv, transport = "polling", NEW h \in Handlers, Schedule(h)
  PROVE  PolledInv'
<1>1. /\ handler'[h] = IdleHandler /\ handler[h].pc = "committed"
      /\ \A g \in Handlers \ {h} : handler'[g] = handler[g]
  BY StepOfOne, IdleShape DEF IInv, Schedule
<1>2. UNCHANGED <<updates, batch, marker, confirmed, dropped, account, processed>>
  BY DEF Schedule, database
<1>3. handler[h].upd \in processed
  BY <1>1 DEF IInv, CommittedOnce
<1>4. OneAtATime'
  BY <1>1, IdleShape DEF PolledInv, OneAtATime
<1>5. FreshRun'
  BY <1>1, IdleShape, StaysFresh DEF IInv
<1>6. MarkerShape' /\ ConfirmedDone'
  BY <1>2 DEF PolledInv, MarkerShape, ConfirmedDone, Updates
<1>7. InHand \subseteq processed \cup InHand'
  BY <1>1, <1>2, <1>3 DEF InHand
<1>8. ReceivedHeld'
  BY <1>2, <1>7 DEF PolledInv, ReceivedHeld, Updates
<1>9. QED
  BY <1>4, <1>5, <1>6, <1>8 DEF PolledInv

\* A restart forgets the marker, and with it what was in hand.
LEMMA CrashPolled ==
  ASSUME IInv, PolledInv, transport = "polling", Crash
  PROVE  PolledInv'
<1>1. /\ \A h \in Handlers : handler'[h] = IdleHandler
      /\ marker' = NoMarker /\ UNCHANGED <<updates, confirmed, dropped, processed>>
  BY DEF Crash, database
<1>2. OneAtATime' /\ FreshRun'
  BY <1>1, IdleShape DEF OneAtATime, FreshRun
<1>3. MarkerShape' /\ ConfirmedDone' /\ ReceivedHeld'
  BY <1>1 DEF PolledInv, MarkerShape, ConfirmedDone, ReceivedHeld, Updates
<1>4. QED
  BY <1>2, <1>3 DEF PolledInv

LEMMA NextPolled ==
  ASSUME IInv, PolledInv, [Next]_vars
  PROVE  PolledInv'
<1>1. setup' = setup /\ transport' = transport
  BY DEF Next, vars, max, Act, WebhookCall, Polls, PollGet, PollNext, Runs, Load, Insert, Handle,
         Step, InsertFails, CommitFails, Fail, Thrown, Commit, Schedule, Crash, transport
<1>2. SUFFICES ASSUME transport = "polling" PROVE PolledInv'
  BY <1>1 DEF PolledInv
<1>3. ASSUME NEW u \in Users, NEW input \in Inputs, Act(u, input) PROVE PolledInv'
  BY <1>2, <1>3, ActPolled
<1>4. ASSUME NEW h \in Handlers, NEW x \in waiting, WebhookCall(h, x) PROVE PolledInv'
  BY <1>2, <1>4 DEF WebhookCall
<1>5. ASSUME Polls PROVE PolledInv'
  BY <1>2, <1>5, PollGetPolled, PollNextPolled DEF Polls
<1>6. ASSUME NEW h \in Handlers, Runs(h) PROVE PolledInv'
  <2>1. CASE Load(h) \/ Insert(h) \/ Handle(h)
    BY <1>2, <2>1, RunsPolled
  <2>2. CASE InsertFails(h) \/ CommitFails(h)
    BY <1>2, <2>2, ThrownPolled DEF InsertFails, CommitFails
  <2>3. CASE Commit(h)
    BY <1>2, <2>3, CommitPolled
  <2>4. CASE Schedule(h)
    BY <1>2, <2>4, SchedulePolled
  <2>5. QED
    BY <1>6, <2>1, <2>2, <2>3, <2>4 DEF Runs
<1>7. ASSUME NEW h \in Handlers, Fail(h) PROVE PolledInv'
  BY <1>2, <1>7, ThrownPolled DEF Fail
<1>8. CASE Crash
  BY <1>2, <1>8, CrashPolled
<1>9. CASE UNCHANGED vars
  BY <1>9 DEF vars, max, database, PolledInv, OneAtATime, FreshRun, MarkerShape, ConfirmedDone,
              ReceivedHeld, InHand, Updates, Updated, transport
<1>10. QED
  BY <1>3, <1>4, <1>5, <1>6, <1>7, <1>8, <1>9 DEF Next

LEMMA PolledInvHolds == Spec => []PolledInv
<1>1. Init => PolledInv
  BY InitPolled
<1>2. IInv /\ PolledInv /\ [Next]_vars => PolledInv'
  BY NextPolled
<1>3. QED
  BY <1>1, <1>2, InvariantHolds, PTL DEF Spec

\* Long polling handles one update after the other, and so every handler works
\* on the mode and the flow that the update before it left (max_polling.py).
THEOREM PollingIsFresh == Spec => []PolledFresh
<1>1. PolledInv => PolledFresh
  BY DEF PolledInv, FreshRun, PolledFresh
<1>2. QED
  BY <1>1, PolledInvHolds, PTL

\* The polling loop never goes past an update without effect, but for those of a
\* batch that an exception ended: the marker it confirms covers only updates it
\* is done with, so that a restart, which forgets the marker, loses nothing.
THEOREM PollingLosesOnlyDroppedBatches == Spec => []LostOnlyInDroppedBatch
<1>1. IInv /\ PolledInv => LostOnlyInDroppedBatch
  BY UpdateNumbers DEF PolledInv, ConfirmedDone, ReceivedHeld, LostOnlyInDroppedBatch
<1>2. QED
  BY <1>1, InvariantHolds, PolledInvHolds, PTL
=============================================================================
