------------------------ MODULE ImageDelivery_proofs ------------------------
(***************************************************************************)
(* Proofs about ImageDelivery, for any timeouts and any number of          *)
(* attempts: the shape of its state, that a failure is free, how often a   *)
(* picture may be shown, when a user may be left without an answer, and    *)
(* that the calls of a task implement the task of Generation.              *)
(***************************************************************************)
EXTENDS ImageDelivery, SequenceTheorems, FiniteSetTheorems, TLAPS

Words == Texts \cup {"picture"}

\* The notices that promise that nothing was charged.
FreeNotices == Notices \ {"job_error"}

Before == {"idle", "intake", "text", "run", "generate", "poll", "store"}
Sending == {"send", "post", "wait", "exhausted"}

\* There is a message to send while the task sends, and an attempt left while
\* it waits for the next.
Progress ==
  /\ task.pc \in Sending => task.todo # <<>>
  /\ task.pc = "wait" => task.attempt < MaxAttempts

\* Nothing is charged or said before the messages, nor without a job row.
NothingYet ==
  /\ task.pc \in Before => charged = 0 /\ ~stored /\ chat = {}
  /\ job = "none" => charged = 0 /\ ~stored

\* A notice that promises so is on its way only when nothing is charged.
Promised(words) == \E i \in DOMAIN words : words[i] \in FreeNotices
PromiseKept == Promised(task.todo) => charged = 0 /\ ~stored

IInv == TypeOK /\ Progress /\ NothingYet /\ PromiseKept /\ FailureIsFree

Runnings == [pc : Before \cup Sending \cup {"end", "killed"},
             user : Users \cup {NoUser}, ctx : Contexts, todo : Seq(Words),
             clock : 0..(PollTimeout + PollInterval + CallTime - 1), attempt : 0..MaxAttempts]

LEMMA TaskType == TypeOK => task \in Runnings
BY DEF TypeOK, Runnings, Before, Sending, Words

LEMMA TypeOfTask ==
  ASSUME TypeOK, task' \in Runnings, UNCHANGED <<setup, rows, seen>>
  PROVE  TypeOK'
BY DEF TypeOK, Runnings, Before, Sending, Words, rows, seen

\* The clock at the start, and after the last poll.
LEMMA Clock ==
  /\ 0 \in 0..(PollTimeout + PollInterval + CallTime - 1) /\ 0 \in 0..MaxAttempts
  /\ \A c \in Nat, d \in 1..CallTime : c < PollTimeout =>
       c + PollInterval + d \in 0..(PollTimeout + PollInterval + CallTime - 1)
<1>1. /\ PollTimeout \in Nat /\ PollInterval \in Nat
      /\ CallTime \in Nat /\ CallTime # 0 /\ MaxAttempts \in Nat
  BY DeliveryAssumption
<1>2. QED
  BY <1>1

\* The lists of messages.
LEMMA Lists ==
  /\ <<>> \in Seq(Words) /\ ~Promised(<<>>)
  /\ \A w \in Words : <<w>> \in Seq(Words) /\ <<w>> # <<>> /\ (Promised(<<w>>) => w \in FreeNotices)
  /\ \A ctx \in Contexts : /\ FailureWords(ctx) \in Seq(Words) /\ FailureWords(ctx) # <<>>
                           /\ Messages(ctx) \in Seq(Words) /\ Messages(ctx) # <<>>
                           /\ ~Promised(Messages(ctx))
<1>1. <<>> \in Seq(Words) /\ DOMAIN <<>> = {}
  BY EmptySeq, LenProperties
<1>2. \A w \in Words : <<w>> \in Seq(Words) /\ <<w>> # <<>> /\ (Promised(<<w>>) => w \in FreeNotices)
  BY DEF Promised
<1>3. /\ \A v, w \in Words : <<v, w>> \in Seq(Words) /\ <<v, w>> # <<>>
      /\ \A v, w, x \in Words : <<v, w, x>> \in Seq(Words) /\ <<v, w, x>> # <<>>
  OBVIOUS
<1>4. \A ctx \in Contexts : /\ FailureWords(ctx) \in Seq(Words) /\ FailureWords(ctx) # <<>>
                             /\ Messages(ctx) \in Seq(Words) /\ Messages(ctx) # <<>>
  <2>1. {"text", "not_charged", "image_failed", "picture", "menu"} \subseteq Words
    BY DEF Words, Texts
  <2>2. TAKE ctx \in Contexts
  <2>3. CASE ctx \in Bundles
    BY <1>3, <2>1, <2>3 DEF FailureWords, Messages
  <2>4. CASE ctx \notin Bundles
    <3>1. FailureWords(ctx) = <<"image_failed">> /\ Messages(ctx) = <<"picture", "menu">>
      BY <2>4 DEF FailureWords, Messages
    <3>2. QED
      BY <1>2, <1>3, <2>1, <3>1
  <2>5. QED
    BY <2>3, <2>4
<1>5. \A ctx \in Contexts : ~Promised(Messages(ctx))
  BY DEF Messages, Promised, FreeNotices, Notices, Errors
<1>6. QED
  BY <1>1, <1>2, <1>4, <1>5 DEF Promised

\* The rest of a list promises nothing that the list did not.
LEMMA RestOfList ==
  ASSUME NEW s \in Seq(Words), s # <<>>
  PROVE  /\ Head(s) \in Words /\ Tail(s) \in Seq(Words)
         /\ Promised(Tail(s)) => Promised(s)
         /\ Head(s) \in FreeNotices => Promised(s)
<1>1. /\ Head(s) \in Words /\ Tail(s) \in Seq(Words) /\ Len(Tail(s)) = Len(s) - 1
      /\ \A i \in 1..Len(Tail(s)) : Tail(s)[i] = s[i + 1]
  BY HeadTailProperties
<1>2. /\ DOMAIN s = 1..Len(s) /\ Len(s) \in Nat
      /\ DOMAIN Tail(s) = 1..Len(Tail(s)) /\ Len(Tail(s)) \in Nat
  BY <1>1, LenProperties
<1>3. \A i \in DOMAIN Tail(s) : i + 1 \in DOMAIN s /\ Tail(s)[i] = s[i + 1]
  BY <1>1, <1>2
<1>4. 1 \in DOMAIN s /\ Head(s) = s[1]
  BY <1>1, <1>2
<1>5. QED
  BY <1>1, <1>3, <1>4 DEF Promised

\* What Sends makes of the task.
LEMMA SendsTask ==
  ASSUME task \in Runnings, NEW words \in Seq(Words), Sends(words)
  PROVE  /\ task' \in Runnings /\ task'.todo = words
         /\ task'.pc = IF words = <<>> THEN "end" ELSE "send"
BY DEF Sends, Runnings, Sending

\* A list of messages is taken up that promises nothing false.
LEMMA SendsInv ==
  ASSUME IInv, TypeOK', NEW words \in Seq(Words), Sends(words),
         Promised(words) => charged' = 0 /\ ~stored',
         job' = "none" => charged' = 0 /\ ~stored',
         FailureIsFree'
  PROVE  IInv'
<1>1. /\ task'.todo = words /\ task'.pc = IF words = <<>> THEN "end" ELSE "send"
  BY SendsTask, TaskType DEF IInv
<1>2. Progress'
  BY <1>1 DEF Progress, Sending
<1>3. NothingYet' /\ PromiseKept'
  BY <1>1 DEF NothingYet, PromiseKept, Before
<1>4. QED
  BY <1>2, <1>3 DEF IInv

\* A step that changes no row and shows nothing.
LEMMA QuietInv ==
  ASSUME IInv, task' \in Runnings, Waits,
         task'.todo = task.todo, task'.pc # "wait",
         task'.pc \in Before => task.pc \in Before,
         task'.pc \in Sending => task.pc \in Sending
  PROVE  IInv'
<1>1. TypeOK'
  BY TypeOfTask DEF IInv, Waits
<1>2. Progress' /\ NothingYet' /\ PromiseKept' /\ FailureIsFree'
  BY DEF IInv, Waits, rows, seen, Progress, NothingYet, PromiseKept, FailureIsFree
<1>3. QED
  BY <1>1, <1>2 DEF IInv

-----------------------------------------------------------------------------
(* Each action keeps the invariant. *)

LEMMA IdleType == IdleTask \in Runnings /\ IdleTask.todo = <<>>
<1>1. "question" \in Contexts
  BY DEF Contexts
<1>2. QED
  BY <1>1, Clock, Lists DEF IdleTask, Runnings, Before

LEMMA InitInv == ASSUME Init PROVE IInv
<1>1. <<>> \in Seq(Words) /\ ~Promised(<<>>)
  BY Lists
<1>2. TypeOK
  BY IdleType DEF Init, TypeOK, Runnings, Before, Sending, Words
<1>3. Progress /\ NothingYet /\ PromiseKept /\ FailureIsFree
  BY <1>1 DEF Init, IdleTask, Progress, NothingYet, PromiseKept, FailureIsFree, Sending
<1>4. QED
  BY <1>2, <1>3 DEF IInv

LEMMA AcceptInv ==
  ASSUME IInv, NEW u \in Users, NEW ctx \in Contexts, Accept(u, ctx)
  PROVE  IInv'
<1>1. task' \in Runnings /\ task'.todo = <<>> /\ task'.pc = "intake"
  BY IdleType DEF Accept, Runnings, Before
<1>2. TypeOK'
  BY <1>1, TypeOfTask DEF IInv, Accept, Waits
<1>3. UNCHANGED <<job, stored, charged, chat>> /\ task.pc = "idle"
  BY DEF Accept, Waits, rows, seen
<1>4. Progress' /\ NothingYet' /\ PromiseKept' /\ FailureIsFree'
  BY <1>1, <1>3, Lists DEF IInv, Progress, NothingYet, PromiseKept, FailureIsFree, Before, Sending
<1>5. QED
  BY <1>2, <1>4 DEF IInv

\* The job row is committed.
LEMMA NewJobInv ==
  ASSUME IInv, task.pc \in {"intake", "text"}, Goes("run"), NewJob, UNCHANGED <<setup, seen>>
  PROVE  IInv'
<1>1. task \in Runnings
  BY TaskType DEF IInv
<1>2. task' \in Runnings /\ task'.pc = "run" /\ task'.todo = task.todo
  BY <1>1 DEF Goes, Runnings, Before
<1>3. TypeOK'
  BY <1>2 DEF IInv, TypeOK, NewJob, Runnings, Before, Sending, Words, seen
<1>4. charged = 0 /\ ~stored /\ chat = {}
  BY DEF IInv, NothingYet, Before
<1>5. Progress' /\ NothingYet' /\ PromiseKept' /\ FailureIsFree'
  BY <1>2, <1>4 DEF NewJob, seen, Progress, NothingYet, PromiseKept, FailureIsFree, Sending
<1>6. QED
  BY <1>3, <1>5 DEF IInv

LEMMA IntakeInv == ASSUME IInv, CommitIntake PROVE IInv'
<1>1. CASE task.ctx \notin Bundles
  BY <1>1, NewJobInv DEF CommitIntake
<1>2. CASE task.ctx \in Bundles
  <2>1. task' \in Runnings /\ task'.pc = "text" /\ task'.todo = task.todo /\ task.pc = "intake"
    BY <1>2, TaskType DEF IInv, CommitIntake, Goes, Runnings, Before
  <2>2. Waits
    BY <1>2 DEF CommitIntake, Waits
  <2>3. QED
    BY <2>1, <2>2, QuietInv DEF Before, Sending
<1>3. QED
  BY <1>1, <1>2

LEMMA QuietSteps ==
  ASSUME IInv,
         \/ StartJob \/ StubDraws \/ Submit
         \/ \E d \in 1..CallTime : PollAgain(d) \/ PollDone(d)
         \/ WaitPicture \/ Killed
  PROVE  IInv'
<1>1. task \in Runnings
  BY TaskType DEF IInv
<1>2. CASE StartJob \/ StubDraws \/ Submit
  <2>1. /\ task' \in Runnings /\ task'.todo = task.todo
        /\ task.pc \in {"run", "generate"} /\ task'.pc \in {"generate", "store", "poll"}
    BY <1>1, <1>2 DEF StartJob, StubDraws, Submit, Goes, Runnings, Before
  <2>2. QED
    BY <1>2, <2>1, QuietInv DEF StartJob, StubDraws, Submit, Before, Sending
<1>3. ASSUME NEW d \in 1..CallTime, PollAgain(d) \/ PollDone(d) PROVE IInv'
  <2>1. Later(d) \in 0..(PollTimeout + PollInterval + CallTime - 1)
    <3>1. task.clock \in Nat
      BY <1>1 DEF Runnings
    <3>2. task.clock < PollTimeout
      BY <1>3 DEF PollAgain, PollDone, TimeLeft
    <3>3. QED
      BY <3>1, <3>2, Clock DEF Later
  <2>2. /\ task' \in Runnings /\ task'.todo = task.todo
        /\ task.pc = "poll" /\ task'.pc \in {"poll", "store"}
    BY <1>1, <1>3, <2>1 DEF PollAgain, PollDone, Runnings, Before
  <2>3. QED
    BY <1>3, <2>2, QuietInv DEF PollAgain, PollDone, Before, Sending
<1>4. CASE WaitPicture
  <2>1. task.attempt + 1 \in 0..MaxAttempts
    BY <1>1, <1>4, DeliveryAssumption DEF WaitPicture, IInv, Progress, Runnings
  <2>2. task' \in Runnings /\ task'.todo = task.todo /\ task'.pc = "post" /\ task.pc = "wait"
    BY <1>1, <1>4, <2>1 DEF WaitPicture, Runnings, Sending
  <2>3. QED
    BY <1>4, <2>2, QuietInv DEF WaitPicture, Before, Sending
<1>5. CASE Killed
  <2>1. task' \in Runnings /\ task'.todo = task.todo /\ task'.pc = "killed"
    BY <1>1, <1>5 DEF Killed, Goes, Runnings
  <2>2. QED
    BY <1>5, <2>1, QuietInv DEF Killed, Before, Sending
<1>6. QED
  BY <1>2, <1>3, <1>4, <1>5

\* The shape of the state after a list of messages is taken up.
LEMMA SendsType ==
  ASSUME IInv, NEW words \in Seq(Words), Sends(words),
         setup' = setup, job' \in {"none", "queued", "failed", "succeeded"},
         stored' \in BOOLEAN, charged' \in Nat,
         chat' \subseteq Texts, copies' \in Nat,
         mishaps' \subseteq [what : Texts \cup {"upload", "post"}, attempt : 0..MaxAttempts,
                             shown : BOOLEAN]
  PROVE  TypeOK'
<1>1. task' \in Runnings
  BY SendsTask, TaskType DEF IInv
<1>2. QED
  BY <1>1 DEF IInv, TypeOK, Runnings, Before, Sending, Words

\* A message is taken up that follows no charge, and nothing else changes.
LEMMA FailsBeforeCharge ==
  ASSUME IInv, task.pc \in Before, NEW words \in Seq(Words), Sends(words), Waits
  PROVE  IInv'
<1>1. TypeOK'
  BY SendsType DEF IInv, TypeOK, Waits, rows, seen
<1>2. charged = 0 /\ ~stored /\ chat = {}
  BY DEF IInv, NothingYet
<1>3. FailureIsFree'
  BY <1>2 DEF Waits, rows, seen, FailureIsFree
<1>4. QED
  BY <1>1, <1>2, <1>3, SendsInv DEF Waits, rows, seen

LEMMA TextFailsInv == ASSUME IInv, TextFails \/ Breaks PROVE IInv'
<1>1. {"text_failed", "bundle_error", "job_error"} \subseteq Words
  BY DEF Words, Texts, Errors
<1>2. PICK w \in {"text_failed", "bundle_error", "job_error"} : Sends(<<w>>)
  BY DEF TextFails, Breaks
<1>3. <<w>> \in Seq(Words)
  BY <1>1, Lists
<1>4. task.pc \in Before /\ Waits
  BY DEF TextFails, Breaks, Before
<1>5. QED
  BY <1>2, <1>3, <1>4, FailsBeforeCharge

\* The job fails, with its notice, and nothing is charged.
LEMMA FailJobInv == ASSUME IInv, FailJob PROVE IInv'
<1>1. charged = 0 /\ ~stored /\ chat = {}
  BY DEF IInv, FailJob, NoPicture, NothingYet, Before
<1>2. task.ctx \in Contexts
  BY DEF IInv, TypeOK
<1>3. FailureWords(task.ctx) \in Seq(Words)
  BY <1>2, Lists
<1>4. TypeOK'
  BY <1>3, SendsType DEF FailJob, IInv, TypeOK, seen
<1>5. FailureIsFree'
  BY <1>1 DEF FailJob, seen, FailureIsFree
<1>6. QED
  BY <1>1, <1>3, <1>4, <1>5, SendsInv DEF FailJob

\* The picture is stored and charged, and no notice is on its way.
LEMMA StoreJobInv == ASSUME IInv, StoreJob PROVE IInv'
<1>1. charged = 0 /\ ~stored /\ chat = {}
  BY DEF IInv, StoreJob, NothingYet, Before
<1>2. task.ctx \in Contexts
  BY DEF IInv, TypeOK
<1>3. Messages(task.ctx) \in Seq(Words) /\ ~Promised(Messages(task.ctx))
  BY <1>2, Lists
<1>4. TypeOK'
  BY <1>3, SendsType DEF StoreJob, IInv, TypeOK, seen
<1>5. FailureIsFree'
  BY <1>1 DEF StoreJob, seen, FailureIsFree
<1>6. QED
  BY <1>3, <1>4, <1>5, SendsInv DEF StoreJob

\* An exception while something was sent: the job has its row by then, or
\* nothing was charged.
LEMMA RaisedInv ==
  ASSUME IInv, TypeOK', Raised, UNCHANGED rows, FailureIsFree'
  PROVE  IInv'
<1>1. {"bundle_error", "job_error"} \subseteq Words
  BY DEF Words, Texts, Errors
<1>2. UNCHANGED <<job, stored, charged>>
  BY DEF rows
<1>3. CASE job = "none"
  <2>1. charged = 0 /\ ~stored
    BY <1>3 DEF IInv, NothingYet
  <2>2. <<"bundle_error">> \in Seq(Words)
    BY <1>1, Lists
  <2>3. QED
    BY <1>2, <1>3, <2>1, <2>2, SendsInv DEF Raised
<1>4. CASE job # "none"
  <2>1. <<"job_error">> \in Seq(Words) /\ ~Promised(<<"job_error">>)
    BY <1>1, Lists DEF FreeNotices
  <2>2. QED
    BY <1>2, <1>4, <2>1, SendsInv DEF Raised
<1>5. QED
  BY <1>3, <1>4

\* The rest of the messages is taken up.
LEMMA RestInv ==
  ASSUME IInv, TypeOK', task.pc \in Sending, Sends(Tail(task.todo)), UNCHANGED rows, FailureIsFree'
  PROVE  IInv'
<1>1. task.todo \in Seq(Words) /\ task.todo # <<>>
  BY TaskType DEF IInv, Progress, Runnings
<1>2. Tail(task.todo) \in Seq(Words) /\ (Promised(Tail(task.todo)) => Promised(task.todo))
  BY <1>1, RestOfList
<1>3. UNCHANGED <<job, stored, charged>>
  BY DEF rows
<1>4. QED
  BY <1>2, <1>3, SendsInv DEF IInv, NothingYet, PromiseKept

LEMMA OutcomeType ==
  \A o \in Outcomes : o.shown \in BOOLEAN /\ o.told \in {"ok", "not_ready", "refused", "raised"}
<1>1. TAKE o \in Outcomes
<1>2. \/ o = [shown |-> FALSE, told |-> "ok"]
      \/ o = [shown |-> TRUE, told |-> "ok"]
      \/ o = [shown |-> FALSE, told |-> "not_ready"]
      \/ o \in [shown : BOOLEAN, told : {"refused", "raised"}]
  BY Zenon DEF Outcomes
<1>3. CASE o \in [shown : BOOLEAN, told : {"refused", "raised"}]
  BY <1>3
<1>4. CASE o = [shown |-> FALSE, told |-> "ok"]
  BY <1>4
<1>5. CASE o = [shown |-> TRUE, told |-> "ok"]
  BY <1>5
<1>6. CASE o = [shown |-> FALSE, told |-> "not_ready"]
  BY <1>6
<1>7. QED
  BY <1>2, <1>3, <1>4, <1>5, <1>6, Zenon

\* What a call to MAX adds to the history.
LEMMA NoteType ==
  ASSUME TypeOK, NEW o \in Outcomes, NEW what \in Texts \cup {"upload", "post"}, Note(o, what)
  PROVE  mishaps' \subseteq [what : Texts \cup {"upload", "post"}, attempt : 0..MaxAttempts,
                             shown : BOOLEAN]
<1>1. o.shown \in BOOLEAN
  BY OutcomeType
<1>2. task.attempt \in 0..MaxAttempts
  BY DEF TypeOK
<1>3. QED
  BY <1>1, <1>2 DEF TypeOK, Note, Mishap

LEMMA SendTextInv == ASSUME IInv, SendText PROVE IInv'
<1> DEFINE w == Head(task.todo)
<1>1. task.todo \in Seq(Words) /\ task.todo # <<>> /\ task.pc = "send"
  BY TaskType DEF IInv, SendText, Progress, Runnings, Sending
<1>2. w \in Words /\ Tail(task.todo) \in Seq(Words) /\ (w \in FreeNotices => Promised(task.todo))
  BY <1>1, RestOfList
<1>3. w \in Texts
  BY <1>2 DEF SendText, Words
<1>4. PICK o \in Outcomes :
        /\ chat' = IF o.shown THEN chat \cup {w} ELSE chat
        /\ Note(o, w)
        /\ CASE o.told # "raised" -> Sends(Tail(task.todo))
             [] o.told = "raised" /\ w \in Errors -> Sends(<<>>)
             [] o.told = "raised" /\ w \notin Errors -> Raised
  BY DEF SendText
<1>5. UNCHANGED rows /\ UNCHANGED <<setup, job, stored, charged, copies>>
  BY DEF SendText, rows
<1>6. FailureIsFree'
  BY <1>2, <1>4, <1>5 DEF IInv, PromiseKept, FailureIsFree, FreeNotices
<1>7. chat' \subseteq Texts
  BY <1>3, <1>4 DEF IInv, TypeOK
<1>8. mishaps' \subseteq [what : Texts \cup {"upload", "post"}, attempt : 0..MaxAttempts,
                          shown : BOOLEAN]
  BY <1>3, <1>4, NoteType DEF IInv
<1>9. ASSUME NEW words \in Seq(Words), Sends(words) PROVE TypeOK'
  BY <1>5, <1>7, <1>8, <1>9, SendsType DEF IInv, TypeOK
<1>10. CASE Sends(Tail(task.todo))
  BY <1>1, <1>2, <1>5, <1>6, <1>9, <1>10, RestInv DEF Sending
<1>11. CASE Sends(<<>>)
  BY <1>5, <1>6, <1>9, <1>11, SendsInv, Lists DEF IInv, NothingYet
<1>12. CASE Raised
  <2>1. <<"bundle_error">> \in Seq(Words) /\ <<"job_error">> \in Seq(Words)
    BY Lists DEF Words, Texts, Errors
  <2>2. TypeOK'
    BY <1>9, <1>12, <2>1 DEF Raised
  <2>3. QED
    BY <1>5, <1>6, <1>12, <2>2, RaisedInv
<1>13. QED
  BY <1>4, <1>10, <1>11, <1>12

\* A step of the picture's way to the user: no text is shown.
LEMMA PictureInv ==
  ASSUME IInv, task.pc \in Sending, UNCHANGED <<setup, rows, chat>>, copies' \in Nat,
         mishaps' \subseteq [what : Texts \cup {"upload", "post"}, attempt : 0..MaxAttempts,
                             shown : BOOLEAN],
         \/ Sends(Tail(task.todo)) \/ Raised
         \/ /\ task' \in Runnings /\ task'.todo = task.todo
            /\ task'.pc \in {"post", "wait", "exhausted"}
            /\ task'.pc = "wait" => task'.attempt < MaxAttempts
  PROVE  IInv'
<1>1. task.todo \in Seq(Words) /\ task.todo # <<>>
  BY TaskType DEF IInv, Progress, Runnings
<1>2. UNCHANGED <<setup, job, stored, charged, chat>> /\ UNCHANGED rows
  BY DEF rows
<1>3. FailureIsFree'
  BY <1>2 DEF IInv, FailureIsFree
<1>4. ASSUME NEW words \in Seq(Words), Sends(words) PROVE TypeOK'
  BY <1>2, <1>4, SendsType DEF IInv, TypeOK
<1>5. CASE Sends(Tail(task.todo))
  BY <1>1, <1>2, <1>3, <1>4, <1>5, RestOfList, RestInv
<1>6. CASE Raised
  <2>1. <<"bundle_error">> \in Seq(Words) /\ <<"job_error">> \in Seq(Words)
    BY Lists DEF Words, Texts, Errors
  <2>2. TypeOK'
    BY <1>4, <1>6, <2>1 DEF Raised
  <2>3. QED
    BY <1>2, <1>3, <1>6, <2>2, RaisedInv
<1>7. CASE /\ task' \in Runnings /\ task'.todo = task.todo
           /\ task'.pc \in {"post", "wait", "exhausted"}
           /\ task'.pc = "wait" => task'.attempt < MaxAttempts
  <2>1. TypeOK'
    BY <1>2, <1>7 DEF IInv, TypeOK, Runnings, Before, Sending, Words
  <2>2. Progress' /\ NothingYet' /\ PromiseKept'
    BY <1>1, <1>2, <1>7 DEF IInv, Progress, NothingYet, PromiseKept, Before
  <2>3. QED
    BY <1>3, <2>1, <2>2 DEF IInv
<1>8. QED
  BY <1>5, <1>6, <1>7

LEMMA UploadInv == ASSUME IInv, Upload PROVE IInv'
<1>1. task \in Runnings /\ task.pc \in Sending
  BY TaskType DEF IInv, Upload, Sending
<1>2. UNCHANGED <<setup, rows, chat, copies>> /\ copies' \in Nat
  BY DEF Upload, IInv, TypeOK
<1>3. Mishap("upload", 0, FALSE) \in [what : Texts \cup {"upload", "post"}, attempt : 0..MaxAttempts,
                                      shown : BOOLEAN]
  BY Clock DEF Mishap
<1>4. mishaps' \subseteq [what : Texts \cup {"upload", "post"}, attempt : 0..MaxAttempts,
                          shown : BOOLEAN]
  BY <1>3 DEF Upload, IInv, TypeOK
<1>5. 1 \in 0..MaxAttempts
  BY DeliveryAssumption
<1>6. CASE task' = [task EXCEPT !.pc = "post", !.attempt = 1]
  <2>1. task' \in Runnings /\ task'.todo = task.todo /\ task'.pc = "post"
    BY <1>1, <1>5, <1>6 DEF Runnings, Sending
  <2>2. QED
    BY <1>1, <1>2, <1>4, <2>1, PictureInv
<1>7. CASE Sends(Tail(task.todo)) \/ Raised
  BY <1>1, <1>2, <1>4, <1>7, PictureInv
<1>8. QED
  BY <1>6, <1>7 DEF Upload

LEMMA PostPictureInv == ASSUME IInv, PostPicture PROVE IInv'
<1>1. task \in Runnings /\ task.pc \in Sending
  BY TaskType DEF IInv, PostPicture, Sending
<1>2. PICK o \in Outcomes :
        /\ copies' = IF o.shown THEN copies + 1 ELSE copies
        /\ Note(o, "post")
        /\ CASE o.told = "ok" -> Posted(o)
             [] o.told \in {"not_ready", "refused"} -> Tried(o)
             [] o.told = "raised" -> Raised
  BY DEF PostPicture
<1>3. UNCHANGED <<setup, rows, chat>> /\ copies' \in Nat
  BY <1>2 DEF PostPicture, IInv, TypeOK
<1>4. mishaps' \subseteq [what : Texts \cup {"upload", "post"}, attempt : 0..MaxAttempts,
                          shown : BOOLEAN]
  BY <1>2, NoteType DEF IInv
<1>5. CASE Posted(o) \/ Raised
  BY <1>1, <1>3, <1>4, <1>5, PictureInv DEF Posted
<1>6. CASE Tried(o)
  <2>1. /\ task' \in Runnings /\ task'.todo = task.todo /\ task'.attempt = task.attempt
        /\ task'.pc = IF task.attempt = MaxAttempts THEN "exhausted" ELSE "wait"
    BY <1>1, <1>6 DEF Tried, Runnings, Sending
  <2>2. task.attempt \in 0..MaxAttempts
    BY <1>1 DEF Runnings
  <2>3. task'.pc = "wait" => task'.attempt < MaxAttempts
    BY <2>1, <2>2, DeliveryAssumption
  <2>4. task'.pc \in {"post", "wait", "exhausted"}
    BY <2>1
  <2>5. QED
    BY <1>1, <1>3, <1>4, <2>1, <2>3, <2>4, PictureInv
<1>7. o.told \in {"ok", "not_ready", "refused", "raised"}
  BY OutcomeType
<1>8. QED
  BY <1>2, <1>5, <1>6, <1>7

LEMMA ExhaustedInv == ASSUME IInv, Exhausted PROVE IInv'
<1>1. task.pc \in Sending /\ Sends(Tail(task.todo))
  BY DEF Exhausted, Sending
<1>2. UNCHANGED <<setup, rows, chat, copies, mishaps>>
  BY DEF Exhausted, Waits, seen
<1>3. QED
  BY <1>1, <1>2, PictureInv DEF IInv, TypeOK

LEMMA NextInv == ASSUME IInv, [Next]_vars PROVE IInv'
<1>1. ASSUME NEW u \in Users, NEW ctx \in Contexts \ {"question"}, Accept(u, ctx) PROVE IInv'
  BY <1>1, AcceptInv
<1>2. CASE Runs
  <2>1. CASE CommitIntake
    BY <2>1, IntakeInv
  <2>2. CASE TextReady
    BY <2>2, NewJobInv DEF TextReady
  <2>3. CASE TextFails \/ Breaks
    BY <2>3, TextFailsInv
  <2>4. CASE FailJob
    BY <2>4, FailJobInv
  <2>5. CASE StoreJob
    BY <2>5, StoreJobInv
  <2>6. CASE \/ StartJob \/ StubDraws \/ Submit
             \/ \E d \in 1..CallTime : PollAgain(d) \/ PollDone(d)
             \/ WaitPicture
    BY <2>6, QuietSteps
  <2>7. CASE SendText
    BY <2>7, SendTextInv
  <2>8. CASE Upload
    BY <2>8, UploadInv
  <2>9. CASE PostPicture
    BY <2>9, PostPictureInv
  <2>10. CASE Exhausted
    BY <2>10, ExhaustedInv
  <2>11. QED
    BY <1>2, <2>1, <2>2, <2>3, <2>4, <2>5, <2>6, <2>7, <2>8, <2>9, <2>10 DEF Runs
<1>3. CASE Killed
  BY <1>3, QuietSteps
<1>4. CASE UNCHANGED vars
  BY <1>4 DEF vars, rows, seen, IInv, TypeOK, Progress, NothingYet, PromiseKept, FailureIsFree
<1>5. QED
  BY <1>1, <1>2, <1>3, <1>4 DEF Next

LEMMA InvariantHolds == Spec => []IInv
BY InitInv, NextInv, PTL DEF Spec

\* The job, the file and the messages of a task always have the shape their code
\* gives them; the last poll ends within one wait and one call of its deadline
\* (YandexImageGenerationProvider), and no attempt exceeds the retries.
THEOREM DeliveryTypeCorrect == Spec => []TypeOK
<1>1. IInv => TypeOK
  BY DEF IInv
<1>2. QED
  BY <1>1, InvariantHolds, PTL

\* A user who is told that the text or the picture failed has not been charged,
\* and is not charged afterwards (GenerationOrchestrator), whatever calls to the
\* provider, the database or MAX fail, and wherever the process stops.
THEOREM FailuresAreFree == Spec => []FailureIsFree
<1>1. IInv => FailureIsFree
  BY DEF IInv
<1>2. QED
  BY <1>1, InvariantHolds, PTL

-----------------------------------------------------------------------------
(* The copies of the picture.                                              *)

Posting == {"post", "wait", "exhausted"}
Doubtful == {m \in Lost("post") : m.shown}

Has(words, some) == \E i \in DOMAIN words : words[i] \in some
OnePicture(words) ==
  \A i, k \in DOMAIN words : words[i] = "picture" /\ words[k] = "picture" => i = k

\* The attempts that came to nothing so far.
Tries == IF task.pc = "post" THEN task.attempt - 1 ELSE task.attempt

\* While the picture is on its way every attempt but the current one has gone
\* wrong, once, and the copies are those that MAX showed all the same.
OnItsWay ==
  /\ Head(task.todo) = "picture" /\ task.attempt >= 1
  /\ task.pc = "exhausted" => task.attempt = MaxAttempts
  /\ copies = Cardinality(Doubtful)
  /\ Cardinality(Lost("post")) = Tries
  /\ \A m \in Lost("post") : m.attempt <= Tries

CopyInv ==
  /\ OnePicture(task.todo)
  /\ task.pc \in Before \/ (task.pc = "send" /\ Has(task.todo, {"picture"})) =>
       copies = 0 /\ Lost("post") = {}
  /\ task.pc \in Posting => OnItsWay
  /\ IsFiniteSet(Lost("post"))
  /\ copies <= Cardinality(Doubtful) + 1 /\ copies <= MaxAttempts

LEMMA PictureLists ==
  /\ OnePicture(<<>>) /\ ~Has(<<>>, {"picture"})
  /\ \A w \in Words \ {"picture"} : OnePicture(<<w>>) /\ ~Has(<<w>>, {"picture"})
  /\ \A ctx \in Contexts :
       /\ OnePicture(Messages(ctx)) /\ Has(Messages(ctx), {"picture"})
       /\ OnePicture(FailureWords(ctx)) /\ ~Has(FailureWords(ctx), {"picture"})
       /\ Has(FailureWords(ctx), Notices)
<1>1. OnePicture(<<>>) /\ ~Has(<<>>, {"picture"})
  BY DEF OnePicture, Has
<1>2. \A w \in Words \ {"picture"} : OnePicture(<<w>>) /\ ~Has(<<w>>, {"picture"})
  BY DEF OnePicture, Has
<1>3. ASSUME NEW ctx \in Contexts
      PROVE  /\ OnePicture(Messages(ctx)) /\ Has(Messages(ctx), {"picture"})
             /\ OnePicture(FailureWords(ctx)) /\ ~Has(FailureWords(ctx), {"picture"})
             /\ Has(FailureWords(ctx), Notices)
  <2>1. {"not_charged", "image_failed"} \subseteq Notices
    BY DEF Notices
  <2>2. CASE ctx \in Bundles
    <3>1. Messages(ctx) = <<"text", "picture", "menu">> /\ FailureWords(ctx) = <<"text", "not_charged">>
      BY <2>2 DEF Messages, FailureWords
    <3>2. QED
      BY <2>1, <3>1 DEF OnePicture, Has
  <2>3. CASE ctx \notin Bundles
    <3>1. Messages(ctx) = <<"picture", "menu">> /\ FailureWords(ctx) = <<"image_failed">>
      BY <2>3 DEF Messages, FailureWords
    <3>2. QED
      BY <2>1, <3>1 DEF OnePicture, Has
  <2>4. QED
    BY <2>2, <2>3
<1>4. QED
  BY <1>1, <1>2, <1>3

LEMMA RestHas ==
  ASSUME NEW s \in Seq(Words), s # <<>>, OnePicture(s), NEW some
  PROVE  /\ OnePicture(Tail(s))
         /\ Has(Tail(s), some) => Has(s, some)
         /\ Has(s, some) /\ Head(s) \notin some => Has(Tail(s), some)
         /\ Head(s) = "picture" => ~Has(Tail(s), {"picture"})
<1>1. /\ Tail(s) \in Seq(Words) /\ Len(Tail(s)) = Len(s) - 1
      /\ \A i \in 1..Len(Tail(s)) : Tail(s)[i] = s[i + 1]
  BY HeadTailProperties
<1>2. /\ DOMAIN s = 1..Len(s) /\ Len(s) \in Nat
      /\ DOMAIN Tail(s) = 1..Len(Tail(s)) /\ Len(Tail(s)) \in Nat
  BY <1>1, LenProperties
<1>3. \A i \in DOMAIN Tail(s) : i + 1 \in DOMAIN s /\ Tail(s)[i] = s[i + 1] /\ i + 1 # 1
  BY <1>1, <1>2
<1>4. 1 \in DOMAIN s /\ Head(s) = s[1]
  BY <1>1, <1>2
<1>5. OnePicture(Tail(s))
  <2>1. ASSUME NEW i \in DOMAIN Tail(s), NEW k \in DOMAIN Tail(s),
               Tail(s)[i] = "picture", Tail(s)[k] = "picture"
        PROVE  i = k
    <3>1. i + 1 = k + 1
      BY <1>3, <2>1 DEF OnePicture
    <3>2. QED
      BY <1>2, <3>1
  <2>2. QED
    BY <2>1 DEF OnePicture
<1>6. Has(Tail(s), some) => Has(s, some)
  BY <1>3 DEF Has
<1>7. ASSUME Has(s, some), Head(s) \notin some PROVE Has(Tail(s), some)
  <2>1. PICK i \in DOMAIN s : s[i] \in some
    BY <1>7 DEF Has
  <2>2. i # 1
    BY <1>4, <1>7, <2>1
  <2>3. i - 1 \in DOMAIN Tail(s) /\ (i - 1) + 1 = i
    BY <1>1, <1>2, <2>2
  <2>4. QED
    BY <1>3, <2>1, <2>3 DEF Has
<1>8. Head(s) = "picture" => ~Has(Tail(s), {"picture"})
  BY <1>3, <1>4 DEF Has, OnePicture
<1>9. QED
  BY <1>5, <1>6, <1>7, <1>8

\* A list of messages is taken up, with a picture only if there is none so far.
LEMMA SendsCopies ==
  ASSUME TypeOK, CopyInv, NEW words \in Seq(Words), Sends(words), OnePicture(words),
         Has(words, {"picture"}) => copies = 0 /\ Lost("post") = {},
         copies' = copies, Lost("post")' = Lost("post")
  PROVE  CopyInv'
<1>1. task'.todo = words /\ task'.pc \in {"end", "send"}
  BY SendsTask, TaskType
<1>2. Doubtful' = Doubtful
  BY DEF Doubtful
<1>3. task'.pc \notin Before /\ task'.pc \notin Posting
  BY <1>1 DEF Before, Posting
<1>4. QED
  BY <1>1, <1>2, <1>3 DEF CopyInv

\* A step that shows nothing and leaves the list.
LEMMA QuietCopies ==
  ASSUME CopyInv, task'.todo = task.todo,
         task'.pc \in Before => task.pc \in Before,
         task'.pc \in Posting \cup {"send"} => task' = task,
         UNCHANGED <<copies, mishaps>>
  PROVE  CopyInv'
<1>1. Lost("post")' = Lost("post") /\ Doubtful' = Doubtful
  BY DEF Lost, Doubtful
<1>2. OnePicture(task'.todo)
  BY DEF CopyInv
<1>3. task'.pc \in Before \/ (task'.pc = "send" /\ Has(task'.todo, {"picture"})) =>
        copies' = 0 /\ Lost("post")' = {}
  BY <1>1 DEF CopyInv
<1>4. task'.pc \in Posting => OnItsWay'
  BY <1>1 DEF CopyInv, OnItsWay, Tries
<1>5. QED
  BY <1>1, <1>2, <1>3, <1>4 DEF CopyInv

\* What the history says of the calls that posted a copy changes with such a call.
LEMMA NoteOther ==
  ASSUME NEW o, NEW what, Note(o, what), what # "post"
  PROVE  Lost("post")' = Lost("post")
BY DEF Note, Mishap, Lost

\* An attempt is counted once.
LEMMA PostCounts ==
  ASSUME TypeOK, CopyInv, task.pc = "post", NEW o \in Outcomes, Note(o, "post"),
         copies' = IF o.shown THEN copies + 1 ELSE copies
  PROVE  /\ IsFiniteSet(Lost("post")')
         /\ copies' <= Cardinality(Doubtful') + 1 /\ copies' <= MaxAttempts
         /\ o.told # "ok" => /\ copies' = Cardinality(Doubtful')
                             /\ Cardinality(Lost("post")') = task.attempt
                             /\ \A m \in Lost("post")' : m.attempt <= task.attempt
<1> DEFINE m == Mishap("post", task.attempt, o.shown)
<1>1. task.attempt \in Int /\ MaxAttempts \in Int /\ task.attempt <= MaxAttempts
  BY DeliveryAssumption DEF TypeOK
<1>2. /\ copies = Cardinality(Doubtful) /\ Cardinality(Lost("post")) = task.attempt - 1
      /\ \A k \in Lost("post") : k.attempt <= task.attempt - 1
      /\ IsFiniteSet(Lost("post"))
  BY DEF CopyInv, OnItsWay, Tries, Posting
<1>3. Doubtful \subseteq Lost("post")
  BY DEF Doubtful
<1>4. IsFiniteSet(Doubtful) /\ Cardinality(Doubtful) <= Cardinality(Lost("post"))
  BY <1>2, <1>3, FS_Subset
<1>5. Cardinality(Doubtful) \in Nat
  BY <1>4, FS_CardinalityType
<1>6. o.shown \in BOOLEAN
  BY OutcomeType
<1>7. copies' <= Cardinality(Doubtful) + 1 /\ copies' <= MaxAttempts /\ copies' >= Cardinality(Doubtful)
  BY <1>1, <1>2, <1>4, <1>5
<1>8. CASE o.told = "ok"
  <2>1. Lost("post")' = Lost("post") /\ Doubtful' = Doubtful
    BY <1>8 DEF Note, Lost, Doubtful
  <2>2. QED
    BY <1>2, <1>7, <1>8, <2>1
<1>9. CASE o.told # "ok"
  <2>1. m.what = "post" /\ m.attempt = task.attempt /\ m.shown = o.shown
    BY DEF Mishap
  <2>2. mishaps' = mishaps \cup {m}
    BY <1>9 DEF Note
  <2> HIDE DEF m
  <2>3. Lost("post")' = Lost("post") \cup {m}
    BY <2>1, <2>2 DEF Lost
  <2>4. m \notin Lost("post")
    BY <1>1, <1>2, <2>1
  <2>5. IsFiniteSet(Lost("post")') /\ Cardinality(Lost("post")') = Cardinality(Lost("post")) + 1
    BY <1>2, <2>3, <2>4, FS_AddElement
  <2>6. Cardinality(Lost("post")') = task.attempt
    BY <1>1, <1>2, <2>5
  <2>7. \A k \in mishaps : k.attempt \in Int
    BY DeliveryAssumption DEF TypeOK
  <2>8. \A k \in Lost("post")' : k.attempt <= task.attempt
    BY <1>1, <1>2, <2>1, <2>3, <2>7 DEF Lost
  <2>9. copies' = Cardinality(Doubtful')
    <3>1. CASE o.shown
      <4>1. Doubtful' = Doubtful \cup {m}
        BY <2>1, <2>3, <3>1 DEF Doubtful
      <4>2. m \notin Doubtful
        BY <1>3, <2>4
      <4>3. Cardinality(Doubtful') = Cardinality(Doubtful) + 1
        BY <1>4, <4>1, <4>2, FS_AddElement
      <4>4. QED
        BY <1>2, <3>1, <4>3
    <3>2. CASE ~o.shown
      <4>1. Doubtful' = Doubtful
        BY <2>1, <2>3, <3>2 DEF Doubtful
      <4>2. QED
        BY <1>2, <3>2, <4>1
    <3>3. QED
      BY <1>6, <3>1, <3>2
  <2>10. Cardinality(Doubtful') \in Int
    BY <1>1, <1>2, <1>5, <2>9
  <2>11. copies' <= Cardinality(Doubtful') + 1
    BY <2>9, <2>10
  <2>12. QED
    BY <1>7, <2>5, <2>6, <2>8, <2>9, <2>11
<1>10. QED
  BY <1>8, <1>9

\* An exception: its apology is the only message left.
LEMMA RaisedSends ==
  ASSUME Raised
  PROVE  \E w \in Words \ {"picture"} : w \in Errors /\ <<w>> \in Seq(Words) /\ Sends(<<w>>)
<1>1. {"bundle_error", "job_error"} \subseteq Words \ {"picture"} /\ {"bundle_error", "job_error"} \subseteq Errors
  BY DEF Words, Texts, Errors
<1>2. PICK w \in {"bundle_error", "job_error"} : Sends(<<w>>)
  BY DEF Raised
<1>3. <<w>> \in Seq(Words)
  BY <1>1, Lists
<1>4. QED
  BY <1>1, <1>2, <1>3

LEMMA ApologyCopies ==
  ASSUME TypeOK, CopyInv, NEW w \in Words \ {"picture"}, Sends(<<w>>),
         copies' = copies, Lost("post")' = Lost("post")
  PROVE  CopyInv'
<1>1. <<w>> \in Seq(Words) /\ OnePicture(<<w>>) /\ ~Has(<<w>>, {"picture"})
  BY Lists, PictureLists
<1>2. QED
  BY <1>1, SendsCopies

LEMMA RestCopies ==
  ASSUME IInv, CopyInv, task.pc = "send" \/ Head(task.todo) = "picture", task.pc \in Sending,
         Sends(Tail(task.todo)), copies' = copies, Lost("post")' = Lost("post")
  PROVE  CopyInv'
<1>1. task.todo \in Seq(Words) /\ task.todo # <<>> /\ OnePicture(task.todo)
  BY TaskType DEF IInv, Progress, Runnings, CopyInv
<1>2. /\ OnePicture(Tail(task.todo)) /\ Tail(task.todo) \in Seq(Words)
      /\ Has(Tail(task.todo), {"picture"}) => Has(task.todo, {"picture"}) /\ Head(task.todo) # "picture"
  BY <1>1, RestHas, RestOfList
<1>3. Has(Tail(task.todo), {"picture"}) => copies = 0 /\ Lost("post") = {}
  BY <1>2 DEF CopyInv
<1>4. QED
  BY <1>2, <1>3, SendsCopies DEF IInv

LEMMA PostCopies == ASSUME IInv, CopyInv, PostPicture PROVE CopyInv'
<1>1. PICK o \in Outcomes :
        /\ copies' = IF o.shown THEN copies + 1 ELSE copies
        /\ Note(o, "post")
        /\ CASE o.told = "ok" -> Posted(o)
             [] o.told \in {"not_ready", "refused"} -> Tried(o)
             [] o.told = "raised" -> Raised
  BY DEF PostPicture
<1>2. task.pc = "post" /\ TypeOK /\ task \in Runnings
  BY TaskType DEF PostPicture, IInv
<1>3. /\ IsFiniteSet(Lost("post")')
      /\ copies' <= Cardinality(Doubtful') + 1 /\ copies' <= MaxAttempts
      /\ o.told # "ok" => /\ copies' = Cardinality(Doubtful')
                          /\ Cardinality(Lost("post")') = task.attempt
                          /\ \A m \in Lost("post")' : m.attempt <= task.attempt
  BY <1>1, <1>2, PostCounts
<1>4. task.todo \in Seq(Words) /\ task.todo # <<>> /\ Head(task.todo) = "picture" /\ OnePicture(task.todo)
  BY <1>2 DEF IInv, Progress, Runnings, CopyInv, OnItsWay, Posting, Sending
<1>5. ASSUME NEW words \in Seq(Words), Sends(words), OnePicture(words), ~Has(words, {"picture"})
      PROVE  CopyInv'
  <2>1. task'.todo = words /\ task'.pc \in {"end", "send"}
    BY <1>2, <1>5, SendsTask
  <2>2. task'.pc \notin Before /\ task'.pc \notin Posting
    BY <2>1 DEF Before, Posting
  <2>3. QED
    BY <1>3, <1>5, <2>1, <2>2 DEF CopyInv
<1>6. CASE Posted(o)
  BY <1>4, <1>5, <1>6, RestHas, RestOfList DEF Posted
<1>7. CASE Raised
  <2>1. PICK w \in Words \ {"picture"} : <<w>> \in Seq(Words) /\ Sends(<<w>>)
    BY <1>7, RaisedSends
  <2>2. QED
    BY <1>5, <2>1, PictureLists
<1>8. CASE Tried(o) /\ o.told # "ok"
  <2>1. /\ task'.pc = IF task.attempt = MaxAttempts THEN "exhausted" ELSE "wait"
        /\ task'.todo = task.todo /\ task'.attempt = task.attempt
    BY <1>2, <1>8 DEF Tried, Runnings
  <2>2. Tries' = task.attempt
    BY <2>1 DEF Tries
  <2>3. task.attempt >= 1
    BY <1>2 DEF CopyInv, OnItsWay, Posting
  <2>4. OnItsWay'
    BY <1>3, <1>4, <1>8, <2>1, <2>2, <2>3 DEF OnItsWay
  <2>5. task'.pc \notin Before /\ task'.pc # "send"
    BY <2>1 DEF Before
  <2>6. QED
    BY <1>3, <1>4, <2>1, <2>4, <2>5 DEF CopyInv
<1>9. o.told \in {"ok", "not_ready", "refused", "raised"}
  BY OutcomeType
<1>10. QED
  BY <1>1, <1>6, <1>7, <1>8, <1>9

LEMMA UploadCopies == ASSUME IInv, CopyInv, Upload PROVE CopyInv'
<1>1. copies' = copies /\ Lost("post")' = Lost("post")
  BY DEF Upload, Mishap, Lost
<1>2. task.pc = "send" /\ Head(task.todo) = "picture" /\ task \in Runnings /\ TypeOK
  BY TaskType DEF Upload, IInv
<1>3. task.todo \in Seq(Words) /\ task.todo # <<>> /\ OnePicture(task.todo)
  BY <1>2 DEF IInv, Progress, Runnings, Sending, CopyInv
<1>4. CASE task' = [task EXCEPT !.pc = "post", !.attempt = 1]
  <2>1. task'.pc = "post" /\ task'.todo = task.todo /\ task'.attempt = 1
    BY <1>2, <1>4 DEF Runnings
  <2>2. Has(task.todo, {"picture"})
    <3>1. 1 \in DOMAIN task.todo /\ Head(task.todo) = task.todo[1]
      BY <1>3, HeadTailProperties, LenProperties
    <3>2. QED
      BY <1>2, <3>1 DEF Has
  <2>3. copies = 0 /\ Lost("post") = {}
    BY <1>2, <2>2 DEF CopyInv
  <2>4. Doubtful' = {} /\ Lost("post")' = {} /\ copies' = 0
    BY <1>1, <2>3 DEF Doubtful
  <2>5. Cardinality(Doubtful') = 0 /\ Cardinality(Lost("post")') = 0
    BY <2>4, FS_EmptySet
  <2>6. OnItsWay'
    BY <1>2, <2>1, <2>4, <2>5 DEF OnItsWay, Tries
  <2>7. IsFiniteSet(Lost("post")') /\ copies' <= MaxAttempts /\ copies' <= Cardinality(Doubtful') + 1
    BY <2>4, <2>5, FS_EmptySet, DeliveryAssumption
  <2>8. task'.pc \notin Before /\ task'.pc # "send"
    BY <2>1 DEF Before
  <2>9. QED
    BY <1>3, <2>1, <2>6, <2>7, <2>8 DEF CopyInv
<1>5. CASE Sends(Tail(task.todo))
  BY <1>1, <1>2, <1>5, RestCopies DEF Sending
<1>6. CASE Raised
  BY <1>1, <1>2, <1>6, RaisedSends, ApologyCopies
<1>7. QED
  BY <1>4, <1>5, <1>6 DEF Upload

LEMMA SendTextCopies == ASSUME IInv, CopyInv, SendText PROVE CopyInv'
<1> DEFINE w == Head(task.todo)
<1>1. PICK o \in Outcomes :
        /\ Note(o, w)
        /\ CASE o.told # "raised" -> Sends(Tail(task.todo))
             [] o.told = "raised" /\ w \in Errors -> Sends(<<>>)
             [] o.told = "raised" /\ w \notin Errors -> Raised
  BY DEF SendText
<1>2. task.pc = "send" /\ w # "picture" /\ copies' = copies /\ TypeOK /\ task \in Runnings
  BY TaskType DEF SendText, IInv
<1>3. w \in Words
  BY <1>2, RestOfList DEF IInv, Progress, Runnings, Sending
<1>4. w # "post"
  BY <1>3 DEF Words, Texts, Errors
<1> HIDE DEF w
<1>5. Lost("post")' = Lost("post")
  BY <1>1, <1>4, NoteOther
<1>6. CASE Sends(Tail(task.todo))
  BY <1>2, <1>5, <1>6, RestCopies DEF Sending
<1>7. CASE Sends(<<>>)
  BY <1>2, <1>5, <1>7, SendsCopies, Lists, PictureLists
<1>8. CASE Raised
  BY <1>2, <1>5, <1>8, RaisedSends, ApologyCopies
<1>9. QED
  BY <1>1, <1>6, <1>7, <1>8

LEMMA InitCopies == ASSUME Init PROVE CopyInv
<1>1. task.todo = <<>> /\ task.pc = "idle" /\ copies = 0 /\ Lost("post") = {} /\ Doubtful = {}
  BY DEF Init, IdleTask, Lost, Doubtful
<1>2. Cardinality(Doubtful) = 0 /\ IsFiniteSet(Lost("post"))
  BY <1>1, FS_EmptySet
<1>3. QED
  BY <1>1, <1>2, PictureLists, DeliveryAssumption DEF CopyInv, Posting

LEMMA NextCopies == ASSUME IInv, CopyInv, [Next]_vars PROVE CopyInv'
<1>1. task \in Runnings /\ TypeOK
  BY TaskType DEF IInv
<1>2. ASSUME NEW u \in Users, NEW ctx \in Contexts, Accept(u, ctx) PROVE CopyInv'
  <2>1. /\ task'.todo = <<>> /\ task'.pc = "intake" /\ UNCHANGED <<copies, mishaps>>
        /\ task.pc = "idle"
    BY <1>2 DEF Accept, IdleTask, Waits, seen
  <2>2. Lost("post")' = Lost("post") /\ Doubtful' = Doubtful
    BY <2>1 DEF Lost, Doubtful
  <2>3. copies = 0 /\ Lost("post") = {}
    BY <2>1 DEF CopyInv, Before
  <2>4. QED
    BY <2>1, <2>2, <2>3, PictureLists DEF CopyInv, Posting
<1>3. CASE \/ CommitIntake \/ TextReady \/ StartJob \/ StubDraws \/ Submit \/ Killed
           \/ \E d \in 1..CallTime : PollAgain(d) \/ PollDone(d)
  <2>1. /\ task'.todo = task.todo /\ UNCHANGED <<copies, mishaps>>
        /\ task'.pc = "killed" \/ (task.pc \in Before /\ task'.pc \in Before)
    BY <1>1, <1>3 DEF CommitIntake, TextReady, StartJob, StubDraws, Submit, Killed, PollAgain, PollDone,
                      Goes, NewJob, Waits, seen, Runnings, Before
  <2>2. task'.pc \notin Posting \cup {"send"}
    BY <2>1 DEF Before, Posting
  <2>3. QED
    BY <2>1, <2>2, QuietCopies DEF Before
<1>4. CASE TextFails \/ Breaks
  <2>1. {"text_failed", "bundle_error", "job_error"} \subseteq Words \ {"picture"}
    BY DEF Words, Texts, Errors
  <2>2. PICK w \in {"text_failed", "bundle_error", "job_error"} : Sends(<<w>>)
    BY <1>4 DEF TextFails, Breaks
  <2>3. copies' = copies /\ Lost("post")' = Lost("post")
    BY <1>4 DEF TextFails, Breaks, Waits, seen, Lost
  <2>4. QED
    BY <1>1, <2>1, <2>2, <2>3, ApologyCopies
<1>5. CASE FailJob \/ StoreJob
  <2>1. PICK words : words \in {FailureWords(task.ctx), Messages(task.ctx)} /\ Sends(words)
    BY <1>5 DEF FailJob, StoreJob
  <2>2. words \in Seq(Words) /\ OnePicture(words)
    BY <1>1, <2>1, Lists, PictureLists DEF Runnings
  <2>3. task.pc \in Before /\ copies' = copies /\ Lost("post")' = Lost("post")
    BY <1>5 DEF FailJob, StoreJob, NoPicture, seen, Before, Lost
  <2>4. copies = 0 /\ Lost("post") = {}
    BY <2>3 DEF CopyInv
  <2>5. QED
    BY <1>1, <2>1, <2>2, <2>3, <2>4, SendsCopies
<1>6. CASE WaitPicture
  <2>1. /\ task.pc = "wait" /\ task'.pc = "post" /\ task'.todo = task.todo
        /\ task'.attempt = task.attempt + 1 /\ UNCHANGED <<copies, mishaps>>
    BY <1>1, <1>6 DEF WaitPicture, Runnings, Waits, seen
  <2>2. Lost("post")' = Lost("post") /\ Doubtful' = Doubtful
    BY <2>1 DEF Lost, Doubtful
  <2>3. OnItsWay /\ Tries = task.attempt /\ task.attempt \in Nat
    BY <1>1, <2>1 DEF CopyInv, Posting, Tries, Runnings
  <2>4. Tries' = task.attempt /\ task'.attempt >= 1
    BY <2>1, <2>3 DEF Tries
  <2>5. OnItsWay'
    BY <2>1, <2>2, <2>3, <2>4 DEF OnItsWay
  <2>6. task'.pc \notin Before /\ task'.pc # "send"
    BY <2>1 DEF Before
  <2>7. QED
    BY <2>1, <2>2, <2>5, <2>6 DEF CopyInv
<1>7. CASE Exhausted
  <2>1. copies' = copies /\ Lost("post")' = Lost("post") /\ task.pc = "exhausted" /\ Sends(Tail(task.todo))
    BY <1>7 DEF Exhausted, Waits, seen, Lost
  <2>2. Head(task.todo) = "picture"
    BY <2>1 DEF CopyInv, OnItsWay, Posting
  <2>3. QED
    BY <2>1, <2>2, RestCopies DEF Sending
<1>8. CASE UNCHANGED vars
  <2>1. task' = task /\ UNCHANGED <<copies, mishaps>>
    BY <1>8 DEF vars, seen
  <2>2. QED
    BY <2>1, QuietCopies
<1>9. QED
  BY <1>2, <1>3, <1>4, <1>5, <1>6, <1>7, <1>8, SendTextCopies, UploadCopies, PostCopies
     DEF Next, Runs

LEMMA CopiesHold == Spec => [](IInv /\ CopyInv)
<1>1. Init => IInv /\ CopyInv
  BY InitInv, InitCopies
<1>2. IInv /\ CopyInv /\ [Next]_vars => (IInv /\ CopyInv)'
  BY NextInv, NextCopies
<1>3. QED
  BY <1>1, <1>2, PTL DEF Spec

\* A user sees at most one copy of the picture more than MAX showed without
\* acknowledging, and no more than send_message_with_image has attempts.
THEOREM CopiesAreBounded == Spec => []PictureCopies
<1>1. CopyInv => PictureCopies
  BY DEF CopyInv, PictureCopies, Doubtful, Lost
<1>2. QED
  BY <1>1, CopiesHold, PTL

-----------------------------------------------------------------------------
(* What the user is told.                                                  *)

Tells == Notices \cup {"picture"}

\* The user was shown the picture or told of a failure, or MAX did not take it.
Excused ==
  \/ copies > 0
  \/ chat \cap Notices # {}
  \/ \E n \in Notices : Lost(n) # {}
  \/ stored /\ (Lost("upload") # {} \/ Cardinality(Lost("post")) = MaxAttempts)

\* Until then there is such a message to send.
SilenceInv ==
  /\ task.pc \in Sending /\ Has(task.todo, {"picture"}) => stored
  /\ setup.enabled /\ task.pc \in Sending \cup {"end"} =>
       Excused \/ (task.pc \in Sending /\ Has(task.todo, Tells))

LEMMA ExcusedStays ==
  ASSUME Excused, copies > 0 => copies' > 0, chat \subseteq chat', mishaps \subseteq mishaps',
         stored' = stored, Lost("post")' = Lost("post")
  PROVE  Excused'
BY DEF Excused, Lost

\* A new list that tells something, and shows a picture only of a stored file.
LEMMA SendsSilence ==
  ASSUME TypeOK, NEW words \in Seq(Words), words # <<>>, Sends(words), Has(words, Tells),
         Has(words, {"picture"}) => stored'
  PROVE  SilenceInv'
<1>1. task'.todo = words /\ task'.pc = "send"
  BY SendsTask, TaskType
<1>2. QED
  BY <1>1 DEF SilenceInv, Sending

LEMMA ApologySilence == ASSUME TypeOK, NEW w \in Words \cap Notices, Sends(<<w>>) PROVE SilenceInv'
<1>1. w # "picture"
  BY DEF Notices, Errors
<1>2. <<w>> \in Seq(Words) /\ <<w>> # <<>> /\ ~Has(<<w>>, {"picture"})
  BY <1>1, Lists, PictureLists
<1>3. Has(<<w>>, Tells)
  BY DEF Has, Tells
<1>4. QED
  BY <1>2, <1>3, SendsSilence

LEMMA RaisedSilence == ASSUME TypeOK, Raised PROVE SilenceInv'
<1>1. PICK w \in Words \ {"picture"} : w \in Errors /\ Sends(<<w>>)
  BY RaisedSends
<1>2. w \in Notices
  BY <1>1 DEF Notices
<1>3. QED
  BY <1>1, <1>2, ApologySilence

\* The rest of the list: what it no longer holds has been told, or is excused.
LEMMA RestSilence ==
  ASSUME IInv, CopyInv, SilenceInv, task.pc \in Sending, Sends(Tail(task.todo)),
         setup' = setup, stored' = stored,
         Excused => Excused',
         setup.enabled /\ Head(task.todo) \in Tells => Excused'
  PROVE  SilenceInv'
<1>1. task.todo \in Seq(Words) /\ task.todo # <<>> /\ OnePicture(task.todo) /\ task \in Runnings
  BY TaskType DEF IInv, Progress, Runnings, CopyInv
<1>2. /\ Tail(task.todo) \in Seq(Words)
      /\ Has(Tail(task.todo), {"picture"}) => Has(task.todo, {"picture"})
      /\ Has(task.todo, Tells) /\ Head(task.todo) \notin Tells => Has(Tail(task.todo), Tells)
  BY <1>1, RestHas, RestOfList
<1>3. /\ task'.todo = Tail(task.todo)
      /\ task'.pc = IF Tail(task.todo) = <<>> THEN "end" ELSE "send"
  BY <1>1, <1>2, SendsTask
<1>4. Has(Tail(task.todo), Tells) => Tail(task.todo) # <<>>
  BY DEF Has
<1>5. task'.pc \in Sending /\ Has(task'.todo, {"picture"}) => stored'
  BY <1>2, <1>3 DEF SilenceInv
<1>6. ASSUME setup'.enabled PROVE Excused' \/ (task'.pc \in Sending /\ Has(task'.todo, Tells))
  <2>1. CASE Excused
    BY <2>1
  <2>2. CASE Has(task.todo, Tells)
    BY <1>2, <1>3, <1>4, <1>6, <2>2 DEF Sending
  <2>3. QED
    BY <1>6, <2>1, <2>2 DEF SilenceInv
<1>7. QED
  BY <1>5, <1>6 DEF SilenceInv

\* A step that shows nothing and goes on sending the same list, or has not begun.
LEMMA QuietSilence ==
  ASSUME SilenceInv, UNCHANGED <<setup, stored, copies, chat>>,
         \/ task'.pc \notin Sending \cup {"end"}
         \/ /\ task'.pc = task.pc \/ (task.pc \in Sending /\ task'.pc \in Sending)
            /\ task'.todo = task.todo /\ mishaps' = mishaps
  PROVE  SilenceInv'
<1>1. CASE task'.pc \notin Sending \cup {"end"}
  BY <1>1 DEF SilenceInv
<1>2. CASE /\ task'.pc = task.pc \/ (task.pc \in Sending /\ task'.pc \in Sending)
           /\ task'.todo = task.todo /\ mishaps' = mishaps
  <2>1. \A what : Lost(what)' = Lost(what)
    BY <1>2 DEF Lost
  <2>2. Excused => Excused'
    BY <2>1 DEF Excused
  <2>3. QED
    BY <1>2, <2>2 DEF SilenceInv
<1>3. QED
  BY <1>1, <1>2

\* What MAX makes of a message while the bot may send.
LEMMA EnabledOutcome ==
  ASSUME setup.enabled, NEW o \in Outcomes, o.told = "ok"
  PROVE  o.shown
<1>1. \/ o = [shown |-> TRUE, told |-> "ok"]
      \/ o = [shown |-> FALSE, told |-> "not_ready"]
      \/ o \in [shown : BOOLEAN, told : {"refused", "raised"}]
  BY Zenon DEF Outcomes
<1>2. CASE o \in [shown : BOOLEAN, told : {"refused", "raised"}]
  BY <1>2
<1>3. CASE o = [shown |-> TRUE, told |-> "ok"]
  BY <1>3
<1>4. CASE o = [shown |-> FALSE, told |-> "not_ready"]
  BY <1>4
<1>5. QED
  BY <1>1, <1>2, <1>3, <1>4

LEMMA SendTextSilence == ASSUME IInv, CopyInv, SilenceInv, SendText PROVE SilenceInv'
<1> DEFINE w == Head(task.todo)
<1>1. PICK o \in Outcomes :
        /\ chat' = IF o.shown THEN chat \cup {w} ELSE chat
        /\ Note(o, w)
        /\ CASE o.told # "raised" -> Sends(Tail(task.todo))
             [] o.told = "raised" /\ w \in Errors -> Sends(<<>>)
             [] o.told = "raised" /\ w \notin Errors -> Raised
  BY DEF SendText
<1>2. /\ task.pc = "send" /\ w # "picture" /\ TypeOK /\ task \in Runnings
      /\ UNCHANGED <<setup, job, stored, charged, copies>>
  BY TaskType DEF SendText, IInv, rows
<1>3. w \in Words
  BY <1>2, RestOfList DEF IInv, Progress, Runnings, Sending
<1>4. w # "post"
  BY <1>3 DEF Words, Texts, Errors
<1> DEFINE m == Mishap(w, task.attempt, o.shown)
<1>5. m.what = w /\ (o.told # "ok" => mishaps' = mishaps \cup {m}) /\ (o.told = "ok" => mishaps' = mishaps)
  BY <1>1 DEF Note, Mishap
<1> HIDE DEF w, m
<1>6. chat \subseteq chat' /\ mishaps \subseteq mishaps' /\ Lost("post")' = Lost("post")
  BY <1>1, <1>4, <1>5, NoteOther
<1>7. Excused => Excused'
  BY <1>2, <1>6, ExcusedStays
<1>8. ASSUME setup.enabled, w \in Notices PROVE Excused'
  <2>1. CASE o.told = "ok"
    <3>1. w \in chat'
      BY <1>1, <1>8, <2>1, EnabledOutcome
    <3>2. QED
      BY <1>8, <3>1 DEF Excused
  <2>2. CASE o.told # "ok"
    <3>1. PICK n \in Notices : n = w
      BY <1>8
    <3>2. m \in Lost(n)'
      BY <1>5, <2>2, <3>1 DEF Lost
    <3>3. QED
      BY <3>2 DEF Excused
  <2>3. QED
    BY <2>1, <2>2
<1>9. setup.enabled /\ w \in Tells => Excused'
  BY <1>2, <1>8 DEF Tells
<1>10. CASE Sends(Tail(task.todo))
  BY <1>2, <1>7, <1>9, <1>10, RestSilence DEF Sending, w
<1>11. CASE w \in Errors /\ Sends(<<>>)
  <2>1. task'.todo = <<>> /\ task'.pc = "end"
    BY <1>2, <1>11, SendsTask, Lists
  <2>2. w \in Notices
    BY <1>11 DEF Notices
  <2>3. QED
    BY <1>2, <1>8, <2>1, <2>2 DEF SilenceInv, Sending
<1>12. CASE Raised
  BY <1>2, <1>12, RaisedSilence
<1>13. QED
  BY <1>1, <1>10, <1>11, <1>12

LEMMA UploadSilence == ASSUME IInv, CopyInv, SilenceInv, Upload PROVE SilenceInv'
<1>1. /\ task.pc = "send" /\ Head(task.todo) = "picture" /\ task \in Runnings /\ TypeOK
      /\ UNCHANGED <<setup, job, stored, charged, copies, chat>>
  BY TaskType DEF Upload, IInv, rows
<1>2. CASE Raised
  BY <1>1, <1>2, RaisedSilence
<1>3. CASE task' = [task EXCEPT !.pc = "post", !.attempt = 1] /\ UNCHANGED mishaps
  <2>1. task'.pc = "post" /\ task'.todo = task.todo
    BY <1>1, <1>3 DEF Runnings
  <2>2. QED
    BY <1>1, <1>3, <2>1, QuietSilence DEF Sending
<1>4. CASE Sends(Tail(task.todo)) /\ mishaps' = mishaps \cup {Mishap("upload", 0, FALSE)}
  <2>1. Mishap("upload", 0, FALSE).what = "upload"
    BY DEF Mishap
  <2>2. Lost("post")' = Lost("post") /\ Lost("upload")' # {} /\ mishaps \subseteq mishaps'
    BY <1>4, <2>1 DEF Lost
  <2>3. Excused => Excused'
    BY <1>1, <2>2, ExcusedStays
  <2>4. stored
    <3>1. task.todo \in Seq(Words) /\ task.todo # <<>>
      BY <1>1 DEF IInv, Progress, Runnings, Sending
    <3>2. 1 \in DOMAIN task.todo /\ Head(task.todo) = task.todo[1]
      BY <3>1, HeadTailProperties, LenProperties
    <3>3. Has(task.todo, {"picture"})
      BY <1>1, <3>2 DEF Has
    <3>4. QED
      BY <1>1, <3>3 DEF SilenceInv, Sending
  <2>5. Excused'
    BY <1>1, <2>2, <2>4 DEF Excused
  <2>6. QED
    BY <1>1, <1>4, <2>3, <2>5, RestSilence DEF Sending
<1>5. QED
  BY <1>2, <1>3, <1>4 DEF Upload

LEMMA PostSilence == ASSUME IInv, CopyInv, SilenceInv, PostPicture PROVE SilenceInv'
<1>1. PICK o \in Outcomes :
        /\ copies' = IF o.shown THEN copies + 1 ELSE copies
        /\ Note(o, "post")
        /\ CASE o.told = "ok" -> Posted(o)
             [] o.told \in {"not_ready", "refused"} -> Tried(o)
             [] o.told = "raised" -> Raised
  BY DEF PostPicture
<1>2. /\ task.pc = "post" /\ task \in Runnings /\ TypeOK /\ copies \in Nat
      /\ UNCHANGED <<setup, job, stored, charged, chat>>
  BY TaskType DEF PostPicture, IInv, TypeOK, rows
<1>3. task.todo \in Seq(Words) /\ task.todo # <<>> /\ Head(task.todo) = "picture"
  BY <1>2 DEF IInv, Progress, Runnings, CopyInv, OnItsWay, Posting, Sending
<1>4. Has(task.todo, {"picture"})
  <2>1. 1 \in DOMAIN task.todo /\ Head(task.todo) = task.todo[1]
    BY <1>3, HeadTailProperties, LenProperties
  <2>2. QED
    BY <1>3, <2>1 DEF Has
<1>5. stored
  BY <1>2, <1>4 DEF SilenceInv, Sending
<1>6. CASE o.told = "ok" /\ Posted(o)
  <2>1. mishaps' = mishaps
    BY <1>1, <1>6 DEF Note
  <2>2. Lost("post")' = Lost("post") /\ (copies > 0 => copies' > 0)
    BY <1>1, <1>2, <2>1 DEF Lost
  <2>3. Excused => Excused'
    BY <1>2, <2>1, <2>2, ExcusedStays
  <2>4. setup.enabled => Excused'
    <3>1. setup.enabled => copies' > 0
      BY <1>1, <1>2, <1>6, EnabledOutcome
    <3>2. QED
      BY <3>1 DEF Excused
  <2>5. QED
    BY <1>2, <1>6, <2>3, <2>4, RestSilence DEF Posted, Sending
<1>7. CASE Tried(o)
  <2>1. task'.pc \in {"wait", "exhausted"} /\ task'.todo = task.todo
    BY <1>2, <1>7 DEF Tried, Runnings
  <2>2. Has(task.todo, Tells)
    BY <1>4 DEF Has, Tells
  <2>3. QED
    BY <1>2, <1>5, <2>1, <2>2 DEF SilenceInv, Sending
<1>8. CASE Raised
  BY <1>2, <1>8, RaisedSilence
<1>9. o.told \in {"ok", "not_ready", "refused", "raised"}
  BY OutcomeType
<1>10. QED
  BY <1>1, <1>6, <1>7, <1>8, <1>9

LEMMA InitSilence == ASSUME Init PROVE SilenceInv
BY DEF Init, IdleTask, SilenceInv, Sending

LEMMA NextSilence == ASSUME IInv, CopyInv, SilenceInv, [Next]_vars PROVE SilenceInv'
<1>1. task \in Runnings /\ TypeOK
  BY TaskType DEF IInv
<1>2. CASE \/ \E u \in Users, ctx \in Contexts \ {"question"} : Accept(u, ctx)
           \/ CommitIntake \/ TextReady \/ StartJob \/ StubDraws \/ Submit \/ Killed
           \/ \E d \in 1..CallTime : PollAgain(d) \/ PollDone(d)
  <2>1. task'.pc \notin Sending \cup {"end"}
    BY <1>1, <1>2 DEF Accept, IdleTask, CommitIntake, TextReady, StartJob, StubDraws, Submit, Killed,
                      PollAgain, PollDone, Goes, Runnings, Sending
  <2>2. QED
    BY <2>1 DEF SilenceInv
<1>3. CASE TextFails \/ Breaks
  <2>1. {"text_failed", "bundle_error", "job_error"} \subseteq Words \cap Notices
    BY DEF Words, Texts, Errors, Notices
  <2>2. PICK w \in {"text_failed", "bundle_error", "job_error"} : Sends(<<w>>)
    BY <1>3 DEF TextFails, Breaks
  <2>3. QED
    BY <1>1, <2>1, <2>2, ApologySilence
<1>4. CASE FailJob
  <2>1. /\ FailureWords(task.ctx) \in Seq(Words) /\ FailureWords(task.ctx) # <<>>
        /\ ~Has(FailureWords(task.ctx), {"picture"}) /\ Has(FailureWords(task.ctx), Notices)
    BY <1>1, Lists, PictureLists DEF Runnings
  <2>2. Has(FailureWords(task.ctx), Tells)
    BY <2>1 DEF Has, Tells
  <2>3. QED
    BY <1>1, <1>4, <2>1, <2>2, SendsSilence DEF FailJob
<1>5. CASE StoreJob
  <2>1. /\ Messages(task.ctx) \in Seq(Words) /\ Messages(task.ctx) # <<>>
        /\ Has(Messages(task.ctx), {"picture"})
    BY <1>1, Lists, PictureLists DEF Runnings
  <2>2. Has(Messages(task.ctx), Tells)
    BY <2>1 DEF Has, Tells
  <2>3. QED
    BY <1>1, <1>5, <2>1, <2>2, SendsSilence DEF StoreJob
<1>6. CASE WaitPicture
  <2>1. /\ task.pc = "wait" /\ task'.pc = "post" /\ task'.todo = task.todo
        /\ UNCHANGED <<setup, stored, copies, chat, mishaps>>
    BY <1>1, <1>6 DEF WaitPicture, Runnings, Waits, rows, seen
  <2>2. QED
    BY <2>1, QuietSilence DEF Sending
<1>7. CASE Exhausted
  <2>1. /\ task.pc = "exhausted" /\ Sends(Tail(task.todo))
        /\ UNCHANGED <<setup, stored, copies, chat, mishaps>>
    BY <1>7 DEF Exhausted, Waits, rows, seen
  <2>2. OnItsWay /\ task.attempt = MaxAttempts /\ Tries = MaxAttempts
    BY <2>1 DEF CopyInv, OnItsWay, Posting, Tries
  <2>3. stored
    <3>1. task.todo \in Seq(Words) /\ task.todo # <<>>
      BY <1>1, <2>1 DEF IInv, Progress, Runnings, Sending
    <3>2. 1 \in DOMAIN task.todo /\ Head(task.todo) = task.todo[1]
      BY <3>1, HeadTailProperties, LenProperties
    <3>3. Has(task.todo, {"picture"})
      BY <2>2, <3>2 DEF Has, OnItsWay
    <3>4. QED
      BY <2>1, <3>3 DEF SilenceInv, Sending
  <2>4. Lost("post")' = Lost("post")
    BY <2>1 DEF Lost
  <2>5. Excused
    BY <2>2, <2>3 DEF Excused, OnItsWay
  <2>6. Excused'
    BY <2>1, <2>4, <2>5, ExcusedStays
  <2>7. QED
    BY <2>1, <2>6, RestSilence DEF Sending
<1>8. CASE UNCHANGED vars
  <2>1. task' = task /\ UNCHANGED <<setup, stored, copies, chat, mishaps>>
    BY <1>8 DEF vars, rows, seen
  <2>2. QED
    BY <2>1, QuietSilence
<1>9. QED
  BY <1>2, <1>3, <1>4, <1>5, <1>6, <1>7, <1>8, SendTextSilence, UploadSilence, PostSilence
     DEF Next, Runs

\* A task that was not killed shows the picture or tells of a failure, unless MAX
\* did not take that very notice.  The one silence is the code's own: a stored
\* picture whose upload failed, or whose every attempt was refused.
THEOREM SilenceIsExcused == Spec => []NeverSilent
<1>1. Init => SilenceInv
  BY InitSilence
<1>2. IInv /\ CopyInv /\ SilenceInv /\ [Next]_vars => SilenceInv'
  BY NextSilence
<1>3. IInv /\ SilenceInv => NeverSilent
  <2>1. SUFFICES ASSUME IInv, SilenceInv, task.pc = "end", setup.enabled, copies = 0, chat \cap Notices = {}
                 PROVE  \/ \E n \in Notices : Lost(n) # {}
                        \/ stored /\ (Lost("upload") # {} \/ Cardinality(Lost("post")) = MaxAttempts)
    BY DEF NeverSilent
  <2>2. Excused
    BY <2>1 DEF SilenceInv, Sending
  <2>3. QED
    BY <2>1, <2>2 DEF Excused
<1>4. QED
  BY <1>1, <1>2, <1>3, CopiesHold, PTL DEF Spec

-----------------------------------------------------------------------------
(* The task of Generation.                                                 *)

\* The rows a task commits, as far as it has come.
RowsOfTask ==
  /\ task.pc \in {"idle", "intake", "text"} => job = "none"
  /\ task.pc \in {"run", "generate", "poll", "store"} => job = "queued"
  /\ task.pc # "idle" => task.user \in Users /\ task.ctx \in Contexts \ {"question"}
  /\ job = "succeeded" <=> stored
  /\ charged = IF stored THEN 1 ELSE 0

JobRow(status) == [user |-> task.user, ctx |-> task.ctx, status |-> status]
UsageRow == [user |-> task.user, kind |-> UsageKind(task.ctx), mode |-> "none", at |-> 0, job |-> 1]

LEMMA SameCount == \A S : Pipeline!Cardinality(S) = Cardinality(S)
BY DEF Pipeline!Cardinality, Cardinality

LEMMA SameEntitlements ==
  /\ Pipeline!Contexts = Contexts /\ Pipeline!Bundles = Bundles
  /\ \A ctx : Pipeline!PoolOf(ctx) = PoolOf(ctx) /\ Pipeline!UsageKind(ctx) = UsageKind(ctx)
  /\ \A pool, plan : Pipeline!Entitled(pool, plan) = Entitled(pool, plan)
  /\ \A pool, plan : Pipeline!Limit(pool, plan) = Limit(pool, plan)
<1>1. Pipeline!Contexts = Contexts /\ Pipeline!Bundles = Bundles
  BY DEF Contexts, Pipeline!Contexts, Bundles, Pipeline!Bundles
<1>2. \A ctx : Pipeline!PoolOf(ctx) = PoolOf(ctx) /\ Pipeline!UsageKind(ctx) = UsageKind(ctx)
  BY Zenon DEF PoolOf, Pipeline!PoolOf, UsageKind, Pipeline!UsageKind
<1>3. \A pool, plan : Pipeline!Entitled(pool, plan) = Entitled(pool, plan)
  BY Zenon DEF Entitled, Pipeline!Entitled, BusinessPlans, Pipeline!BusinessPlans
<1>4. \A pool, plan : Pipeline!Limit(pool, plan) = Limit(pool, plan)
  BY Zenon DEF Limit, Pipeline!Limit
<1>5. QED
  BY <1>1, <1>2, <1>3, <1>4

\* The views of the tables.
LEMMA Views ==
  ASSUME RowsOfTask
  PROVE  /\ job = "none" => JobsView = <<>>
         /\ job # "none" => JobsView = <<JobRow(job)>>
         /\ ~stored => UsageView = <<>>
         /\ stored => UsageView = <<UsageRow>>
<1>1. ~stored => UsageView = <<>>
  <2>1. ASSUME ~stored PROVE UsageView = [i \in {} |-> UsageRow]
    <3>1. charged = 0 /\ 1..0 = {}
      BY <2>1 DEF RowsOfTask
    <3>2. UsageView = [i \in 1..charged |-> UsageRow]
      BY DEF UsageView, UsageRow
    <3> HIDE DEF UsageRow
    <3>3. QED
      BY <3>1, <3>2
  <2>2. QED
    BY <2>1
<1>2. stored => UsageView = <<UsageRow>>
  <2>1. ASSUME stored PROVE UsageView = [i \in 1..1 |-> UsageRow]
    BY <2>1 DEF RowsOfTask, UsageView, UsageRow
  <2>2. QED
    BY <2>1
<1>3. QED
  BY <1>1, <1>2 DEF JobsView, JobRow

\* What a step leaves alone.
LEMMA RowsStay ==
  ASSUME UNCHANGED <<job, stored, charged>>, task'.user = task.user, task'.ctx = task.ctx
  PROVE  JobsView' = JobsView /\ UsageView' = UsageView
BY DEF JobsView, UsageView

LEMMA TaskMoves ==
  ASSUME NEW next, TaskView' = next
  PROVE  Pipeline!TaskGoes("task", next)
BY DEF Pipeline!TaskGoes

LEMMA TablesStay ==
  ASSUME JobsView' = JobsView, UsageView' = UsageView, stored' = stored
  PROVE  UNCHANGED Pipeline!tables
BY DEF Pipeline!tables

\* The task as Generation has it, before and after a step.
LEMMA TaskAt ==
  ASSUME Phase # "idle"
  PROVE  /\ TaskView.pc = Phase /\ TaskView.user = task.user /\ TaskView.ctx = task.ctx
         /\ TaskView.job = (IF job = "none" THEN 0 ELSE 1) /\ TaskView.pending = 0
         /\ TaskView \in [pc : {Phase}, user : {task.user}, ctx : {task.ctx}, job : {0, 1}, pending : {0}]
BY DEF TaskView

LEMMA StepOfTask ==
  ASSUME Pipeline!TaskStep("task")
  PROVE  Pipeline!Next
BY DEF Pipeline!Next

\* The task goes on where Generation sees nothing, or ends.
LEMMA LeavesOrWaits ==
  ASSUME UNCHANGED <<job, stored, charged>>, task'.user = task.user, task'.ctx = task.ctx,
         Phase' = Phase \/ Phase' = "idle"
  PROVE  [Pipeline!Next]_Pipeline!vars
<1>1. JobsView' = JobsView /\ UsageView' = UsageView
  BY RowsStay
<1>2. CASE Phase' = Phase
  <2>1. TaskView' = TaskView
    BY <1>2 DEF TaskView
  <2>2. QED
    BY <1>1, <2>1 DEF Pipeline!vars
<1>3. CASE Phase' = "idle" /\ Phase # "idle"
  <2>1. TaskView' = Pipeline!IdleTask
    BY <1>3 DEF TaskView, Pipeline!IdleTask, Pipeline!NoUser, NoUser
  <2>2. TaskView.pc # "idle"
    BY <1>3, TaskAt
  <2>3. Pipeline!TaskGoes("task", Pipeline!IdleTask)
    BY <2>1, TaskMoves
  <2>4. Pipeline!Leave("task")
    BY <1>1, <2>2, <2>3, TablesStay DEF Pipeline!Leave
  <2>5. QED
    BY <2>4, StepOfTask DEF Pipeline!TaskStep
<1>4. QED
  BY <1>2, <1>3

\* Sends and Goes keep whose task it is.
LEMMA SameTask ==
  ASSUME task \in Runnings
  PROVE  /\ \A words : Sends(words) =>
              task'.user = task.user /\ task'.ctx = task.ctx /\ task'.pc \in {"send", "end"}
         /\ \A pc : Goes(pc) =>
              task'.user = task.user /\ task'.ctx = task.ctx /\ task'.pc = pc
BY DEF Sends, Goes, Runnings

\* A message is taken up, or a stage of sending follows another.
LEMMA SendingOn ==
  ASSUME task \in Runnings, task.pc \in Sending, UNCHANGED rows,
         task'.user = task.user, task'.ctx = task.ctx, task'.pc \in Sending \cup {"end"}
  PROVE  [Pipeline!Next]_Pipeline!vars
<1>1. Phase' = Phase \/ Phase' = "idle"
  <2>1. Phase = IF stored THEN "deliver" ELSE "idle"
    BY DEF Phase, Sending
  <2>2. CASE task'.pc \in Sending
    <3>1. Phase' = IF stored' THEN "deliver" ELSE "idle"
      BY <2>2 DEF Phase, Sending
    <3>2. QED
      BY <2>1, <3>1 DEF rows
  <2>3. CASE task'.pc = "end"
    BY <2>3 DEF Phase
  <2>4. QED
    BY <2>2, <2>3
<1>2. QED
  BY <1>1, LeavesOrWaits DEF rows

\* A task that charged nothing fails.
LEMMA FailsSilently ==
  ASSUME task \in Runnings, RowsOfTask, task.pc \in Before, ~stored, UNCHANGED rows,
         task'.user = task.user, task'.ctx = task.ctx, task'.pc \in {"send", "end", "killed"}
  PROVE  [Pipeline!Next]_Pipeline!vars
<1>1. Phase' = "idle"
  BY DEF Phase, rows
<1>2. QED
  BY <1>1, LeavesOrWaits DEF rows

LEMMA AcceptMaps ==
  ASSUME IInv, RowsOfTask, NEW u \in Users, NEW ctx \in Contexts \ {"question"}, Accept(u, ctx)
  PROVE  Pipeline!Next
<1>1. /\ task.pc = "idle" /\ job = "none" /\ ~stored /\ UNCHANGED <<job, stored, charged>>
      /\ task'.pc = "intake" /\ task'.user = u /\ task'.ctx = ctx
  BY DEF Accept, IdleTask, Waits, rows, IInv, NothingYet
<1>2. JobsView = <<>> /\ UsageView = <<>>
  BY <1>1, Views
<1>3. JobsView' = <<>> /\ UsageView' = <<>>
  <2>1. JobsView' = <<>>
    BY <1>1 DEF JobsView
  <2>2. charged' = 0 /\ 1..0 = {}
    BY <1>1 DEF RowsOfTask
  <2>3. UsageView' = [i \in 1..charged' |-> UsageRow']
    BY DEF UsageView, UsageRow
  <2>4. QED
    BY <2>1, <2>2, <2>3
<1>4. /\ TaskView.pc = "idle" /\ TaskView.job = 0
  BY <1>1 DEF TaskView, Phase
<1>5. TaskView' = [pc |-> "intake", user |-> u, ctx |-> ctx, job |-> 0, pending |-> 0]
  BY <1>1 DEF TaskView, Phase
<1>6. TaskView' = [Pipeline!IdleTask EXCEPT !.pc = IF ctx = "question" THEN "answer" ELSE "intake",
                                             !.user = u, !.ctx = ctx]
  <2> DEFINE Records == [pc : {"idle", "intake"}, user : {Pipeline!NoUser, u}, ctx : Contexts \cup {"question"},
                         job : {0}, pending : {0}]
  <2>1. Pipeline!IdleTask \in Records
    BY DEF Pipeline!IdleTask
  <2>2. (IF ctx = "question" THEN "answer" ELSE "intake") = "intake"
    OBVIOUS
  <2>3. PICK next : next = [Pipeline!IdleTask EXCEPT !.pc = "intake", !.user = u, !.ctx = ctx]
    OBVIOUS
  <2>4. next \in Records
    BY <2>1, <2>3
  <2>5. next.pc = "intake" /\ next.user = u /\ next.ctx = ctx
    BY <2>1, <2>3
  <2>6. next = [pc |-> "intake", user |-> u, ctx |-> ctx, job |-> 0, pending |-> 0]
    BY <2>4, <2>5
  <2>7. QED
    BY <1>5, <2>2, <2>3, <2>6
<1>7. Pipeline!Work = 0
  <2> DEFINE questions == {i \in DOMAIN UsageView : UsageView[i].kind = "text_question"}
             waiting == {t \in {"task"} : [s \in {"task"} |-> TaskView][t].pc # "idle"
                                         /\ [s \in {"task"} |-> TaskView][t].job = 0}
  <2>1. Len(JobsView) = 0
    BY <1>2
  <2>2. questions = {} /\ waiting = {}
    BY <1>2, <1>4
  <2>3. Pipeline!Cardinality({}) = 0
    BY SameCount, FS_EmptySet
  <2>4. Pipeline!Work = Len(JobsView) + Pipeline!Cardinality(questions) + Pipeline!Cardinality(waiting)
    BY DEF Pipeline!Work
  <2> HIDE DEF questions, waiting
  <2>5. QED
    BY <2>1, <2>2, <2>3, <2>4
<1>8. Pipeline!Allowed(UsageView, Pipeline!PoolOf(ctx), u, PlanOf[u], 0)
  <2> DEFINE pool == PoolOf(ctx)
             plan == PlanOf[u]
  <2>1. Allowed(<<>>, pool, u, plan, 0)
    BY DEF Accept
  <2> HIDE DEF pool, plan
  <2>2. Counted(<<>>, pool, u, plan, 0) = {} /\ Pipeline!Counted(<<>>, pool, u, plan, 0) = {}
    BY DEF Counted, Pipeline!Counted
  <2>3. Used(<<>>, pool, u, plan, 0) = Cardinality({})
    BY <2>2 DEF Used
  <2>4. Pipeline!Used(<<>>, pool, u, plan, 0) = Cardinality({})
    BY <2>2, SameCount DEF Pipeline!Used
  <2>5. Pipeline!Allowed(<<>>, pool, u, plan, 0)
    BY <2>1, <2>3, <2>4, SameEntitlements DEF Allowed, Pipeline!Allowed
  <2>6. QED
    BY <1>2, <2>5, SameEntitlements DEF pool, plan
<1>9. Pipeline!TaskGoes("task",
        [Pipeline!IdleTask EXCEPT !.pc = IF ctx = "question" THEN "answer" ELSE "intake",
                                  !.user = u, !.ctx = ctx])
  BY <1>6, TaskMoves
<1>10. Pipeline!Accept("task", u, ctx)
  <2>1. UNCHANGED Pipeline!tables
    BY <1>1, <1>2, <1>3, TablesStay
  <2>2. Pipeline!Work < 1
    BY <1>7
  <2>3. QED
    BY <1>4, <1>8, <1>9, <2>1, <2>2 DEF Pipeline!Accept
<1>11. Pipeline!TaskStep("task")
  BY <1>10, SameEntitlements DEF Pipeline!TaskStep
<1>12. QED
  BY <1>11, StepOfTask

\* The task moves on, with the job it had or with its new one.
LEMMA ViewMoves ==
  ASSUME Phase # "idle", Phase' # "idle", task'.user = task.user, task'.ctx = task.ctx
  PROVE  /\ (job' = "none") = (job = "none") => TaskView' = [TaskView EXCEPT !.pc = Phase']
         /\ (job' = "none") = (job = "none") => TaskView' = [TaskView EXCEPT !.pc = Phase', !.pending = 0]
         /\ job' # "none" => TaskView' = [TaskView EXCEPT !.pc = Phase', !.job = 1]
<1> DEFINE Records == [pc : {Phase, Phase'}, user : {task.user}, ctx : {task.ctx}, job : {0, 1}, pending : {0}]
<1>1. PICK view : view = TaskView
  OBVIOUS
<1>2. /\ view \in Records /\ view.user = task.user /\ view.ctx = task.ctx /\ view.pending = 0
      /\ view.job = IF job = "none" THEN 0 ELSE 1
  BY <1>1, TaskAt
<1>3. PICK after : after = TaskView'
  OBVIOUS
<1>4. /\ after \in Records /\ after.pc = Phase' /\ after.user = task.user /\ after.ctx = task.ctx
      /\ after.pending = 0 /\ after.job = IF job' = "none" THEN 0 ELSE 1
  BY <1>3 DEF TaskView
<1>5. PICK p : p = Phase'
  OBVIOUS
<1>6. ASSUME NEW next, next \in Records, next.pc = p, next.user = view.user, next.ctx = view.ctx,
             next.job = after.job, next.pending = 0
      PROVE  after = next
  BY <1>2, <1>4, <1>5, <1>6
<1>7. ASSUME (job' = "none") = (job = "none") PROVE after = [view EXCEPT !.pc = p]
  <2>1. PICK next : next = [view EXCEPT !.pc = p]
    OBVIOUS
  <2>2. next \in Records
    BY <1>2, <1>5, <2>1
  <2>3. next.pc = p /\ next.user = view.user /\ next.ctx = view.ctx /\ next.job = view.job /\ next.pending = 0
    BY <1>2, <2>1
  <2>4. QED
    BY <1>2, <1>4, <1>6, <1>7, <2>1, <2>2, <2>3
<1>8. ASSUME (job' = "none") = (job = "none") PROVE after = [view EXCEPT !.pc = p, !.pending = 0]
  <2>1. PICK next : next = [view EXCEPT !.pc = p, !.pending = 0]
    OBVIOUS
  <2>2. next \in Records
    BY <1>2, <1>5, <2>1
  <2>3. next.pc = p /\ next.user = view.user /\ next.ctx = view.ctx /\ next.job = view.job /\ next.pending = 0
    BY <1>2, <2>1
  <2>4. QED
    BY <1>2, <1>4, <1>6, <1>8, <2>1, <2>2, <2>3
<1>9. ASSUME job' # "none" PROVE after = [view EXCEPT !.pc = p, !.job = 1]
  <2>1. PICK next : next = [view EXCEPT !.pc = p, !.job = 1]
    OBVIOUS
  <2>2. next \in Records
    BY <1>2, <1>5, <2>1
  <2>3. next.pc = p /\ next.user = view.user /\ next.ctx = view.ctx /\ next.job = 1 /\ next.pending = 0
    BY <1>2, <2>1
  <2>4. QED
    BY <1>4, <1>6, <1>9, <2>1, <2>2, <2>3
<1>10. QED
  BY <1>1, <1>3, <1>5, <1>7, <1>8, <1>9

\* The only job of the view is looked up, and gets a status.
LEMMA TheJob ==
  ASSUME NEW user, NEW ctx, NEW old, NEW new
  PROVE  LET row(status) == [user |-> user, ctx |-> ctx, status |-> status]
         IN  /\ [<<row(old)>> EXCEPT ![1].status = new] = <<row(new)>>
             /\ Append(<<>>, row(new)) = <<row(new)>> /\ Len(<<>>) = 0
<1> DEFINE row(status) == [user |-> user, ctx |-> ctx, status |-> status]
           Records == [user : {user}, ctx : {ctx}, status : {old, new}]
<1>1. PICK was, is : was = row(old) /\ is = row(new)
  OBVIOUS
<1>2. was \in Records /\ is \in Records /\ was.user = user /\ was.ctx = ctx
      /\ is.user = user /\ is.ctx = ctx /\ is.status = new
  BY <1>1
<1>3. PICK next : next = [was EXCEPT !.status = new]
  OBVIOUS
<1>4. next \in Records /\ next.user = user /\ next.ctx = ctx /\ next.status = new
  BY <1>2, <1>3
<1>5. next = is
  BY <1>2, <1>4
<1>6. [<<was>> EXCEPT ![1] = next] = <<next>>
  OBVIOUS
<1>7. <<was>>[1] = was
  OBVIOUS
<1>8. [<<was>> EXCEPT ![1].status = new] = <<is>>
  BY <1>3, <1>5, <1>6, <1>7
<1>9. Append(<<>>, is) = <<is>> /\ Len(<<>>) = 0
  OBVIOUS
<1>10. QED
  BY <1>1, <1>8, <1>9

LEMMA NewJobMaps ==
  ASSUME IInv, RowsOfTask, task.pc \in {"intake", "text"}, Goes("run"), NewJob,
         task.pc = "intake" => task.ctx \notin Bundles
  PROVE  Pipeline!Next
<1>1. task \in Runnings /\ job = "none" /\ ~stored
  BY TaskType DEF IInv, RowsOfTask, NothingYet
<1>2. /\ task'.user = task.user /\ task'.ctx = task.ctx /\ task'.pc = "run" /\ job' = "queued"
      /\ UNCHANGED <<stored, charged>>
  BY <1>1, SameTask DEF NewJob
<1>3. Phase = task.pc /\ Phase # "idle" /\ Phase' = "run"
  BY <1>2 DEF Phase
<1>4. /\ TaskView.pc = Phase /\ TaskView.user = task.user /\ TaskView.ctx = task.ctx
      /\ TaskView' = [TaskView EXCEPT !.pc = "run", !.job = 1]
  BY <1>2, <1>3, TaskAt, ViewMoves
<1>5. JobsView = <<>> /\ JobsView' = <<JobRow("queued")>>
  <2>1. JobsView' = <<[user |-> task.user, ctx |-> task.ctx, status |-> "queued"]>>
    BY <1>2 DEF JobsView
  <2>2. QED
    BY <1>1, <2>1, Views DEF JobRow
<1>6. JobsView' = Append(JobsView, JobRow("queued")) /\ Len(JobsView) + 1 = 1
  BY <1>5
<1>7. UsageView' = UsageView
  BY <1>2 DEF UsageView
<1>8. Pipeline!NewJob("task")
  BY <1>4, <1>6 DEF Pipeline!NewJob, JobRow
<1>9. Pipeline!TaskGoes("task", [TaskView EXCEPT !.pc = "run", !.job = Len(JobsView) + 1])
  BY <1>4, <1>6, TaskMoves
<1>10. CASE task.pc = "intake"
  <2>1. Pipeline!CommitIntake("task")
    BY <1>2, <1>3, <1>4, <1>7, <1>8, <1>9, <1>10, SameEntitlements DEF Pipeline!CommitIntake
  <2>2. QED
    BY <2>1, StepOfTask DEF Pipeline!TaskStep
<1>11. CASE task.pc = "text"
  <2>1. Pipeline!TextReady("task")
    BY <1>2, <1>3, <1>4, <1>7, <1>8, <1>9, <1>11 DEF Pipeline!TextReady
  <2>2. QED
    BY <2>1, StepOfTask DEF Pipeline!TaskStep
<1>12. QED
  BY <1>10, <1>11

\* A bundle goes on to its text.
LEMMA IntakeMaps == ASSUME IInv, RowsOfTask, CommitIntake PROVE Pipeline!Next
<1>1. CASE task.ctx \notin Bundles
  BY <1>1, NewJobMaps DEF CommitIntake
<1>2. CASE task.ctx \in Bundles
  <2>1. /\ task.pc = "intake" /\ UNCHANGED <<job, stored, charged>>
        /\ task'.user = task.user /\ task'.ctx = task.ctx /\ task'.pc = "text"
    BY <1>2, TaskType, SameTask DEF CommitIntake, IInv, rows
  <2>2. Phase = "intake" /\ Phase' = "text"
    BY <2>1 DEF Phase
  <2>3. /\ TaskView.pc = "intake" /\ TaskView.ctx = task.ctx
        /\ TaskView' = [TaskView EXCEPT !.pc = "text"]
    BY <2>1, <2>2, TaskAt, ViewMoves
  <2>4. JobsView' = JobsView /\ UsageView' = UsageView
    BY <2>1, RowsStay
  <2>5. Pipeline!TaskGoes("task", [TaskView EXCEPT !.pc = "text"])
    BY <2>3, TaskMoves
  <2>6. Pipeline!CommitIntake("task")
    BY <1>2, <2>1, <2>3, <2>4, <2>5, SameEntitlements DEF Pipeline!CommitIntake
  <2>7. QED
    BY <2>6, StepOfTask DEF Pipeline!TaskStep
<1>3. QED
  BY <1>1, <1>2

LEMMA StartMaps == ASSUME IInv, RowsOfTask, StartJob PROVE Pipeline!Next
<1>1. /\ task.pc = "run" /\ job = "queued" /\ UNCHANGED <<job, stored, charged>>
      /\ task'.user = task.user /\ task'.ctx = task.ctx /\ task'.pc = "generate"
  BY TaskType, SameTask DEF StartJob, Waits, rows, IInv
<1>2. Phase = "run" /\ Phase' = "provider"
  BY <1>1 DEF Phase
<1>3. /\ TaskView.pc = "run" /\ TaskView.job = 1
      /\ TaskView' = [TaskView EXCEPT !.pc = "provider"]
  BY <1>1, <1>2, TaskAt, ViewMoves
<1>4. JobsView' = JobsView /\ UsageView' = UsageView
  BY <1>1, RowsStay
<1>5. JobsView[1].status = "queued"
  BY <1>1, Views DEF JobRow
<1>6. Pipeline!TaskGoes("task", [TaskView EXCEPT !.pc = "provider"])
  BY <1>3, TaskMoves
<1>7. Pipeline!StartJob("task")
  BY <1>1, <1>3, <1>4, <1>5, <1>6, TablesStay DEF Pipeline!StartJob
<1>8. QED
  BY <1>7, StepOfTask DEF Pipeline!TaskStep

\* The provider has the picture; no referral is pending.
LEMMA PictureMaps ==
  ASSUME IInv, RowsOfTask, task.pc \in {"generate", "poll"}, task'.pc = "store",
         UNCHANGED <<job, stored, charged>>, task'.user = task.user, task'.ctx = task.ctx
  PROVE  Pipeline!Next
<1>1. Phase = "provider" /\ Phase' = "store"
  BY DEF Phase
<1>2. /\ TaskView.pc = "provider" /\ TaskView' = [TaskView EXCEPT !.pc = "store", !.pending = 0]
  BY <1>1, TaskAt, ViewMoves
<1>3. JobsView' = JobsView /\ UsageView' = UsageView
  BY RowsStay
<1>4. Pipeline!PendingReferral(TaskView.user) = 0
  BY DEF Pipeline!PendingReferral
<1>5. Pipeline!TaskGoes("task", [TaskView EXCEPT !.pc = "store", !.pending = 0])
  BY <1>2, TaskMoves
<1>6. Pipeline!PictureReady("task")
  BY <1>2, <1>3, <1>4, <1>5, TablesStay DEF Pipeline!PictureReady
<1>7. QED
  BY <1>6, StepOfTask DEF Pipeline!TaskStep

LEMMA FailMaps == ASSUME IInv, RowsOfTask, FailJob PROVE Pipeline!Next
<1>1. /\ task.pc \in {"generate", "poll"} /\ job = "queued" /\ job' = "failed"
      /\ UNCHANGED <<stored, charged>> /\ ~stored
      /\ task'.user = task.user /\ task'.ctx = task.ctx /\ task'.pc \in {"send", "end"}
  BY TaskType, SameTask DEF FailJob, NoPicture, IInv, NothingYet, Before, RowsOfTask
<1>2. Phase = "provider" /\ Phase' = "idle"
  BY <1>1 DEF Phase
<1>3. TaskView.pc = "provider" /\ TaskView.job = 1
  BY <1>1, <1>2, TaskAt
<1>4. TaskView' = Pipeline!IdleTask
  BY <1>2 DEF TaskView, Pipeline!IdleTask, Pipeline!NoUser, NoUser
<1>5. JobsView' = [JobsView EXCEPT ![1].status = "failed"]
  <2>1. JobsView = <<JobRow("queued")>>
    BY <1>1, Views
  <2>2. JobsView' = <<[user |-> task.user, ctx |-> task.ctx, status |-> "failed"]>>
    BY <1>1 DEF JobsView
  <2>3. QED
    BY <2>1, <2>2, TheJob DEF JobRow
<1>6. UsageView' = UsageView
  BY <1>1 DEF UsageView
<1>7. Pipeline!TaskGoes("task", Pipeline!IdleTask)
  BY <1>4, TaskMoves
<1>8. Pipeline!FailJob("task")
  BY <1>1, <1>3, <1>5, <1>6, <1>7 DEF Pipeline!FailJob
<1>9. QED
  BY <1>8, StepOfTask DEF Pipeline!TaskStep

\* The file, the status and the charge are one commit.
LEMMA StoreMaps == ASSUME IInv, RowsOfTask, StoreJob PROVE Pipeline!Next
<1>1. /\ task.pc = "store" /\ job = "queued" /\ job' = "succeeded"
      /\ ~stored /\ stored' /\ charged = 0 /\ charged' = 1
  BY DEF StoreJob, IInv, NothingYet, Before, RowsOfTask
<1>2. /\ task'.user = task.user /\ task'.ctx = task.ctx /\ task'.pc = "send"
  <2>1. task \in Runnings /\ Messages(task.ctx) \in Seq(Words) /\ Messages(task.ctx) # <<>>
    BY TaskType, Lists DEF IInv, Runnings
  <2>2. QED
    BY <2>1, SameTask, SendsTask DEF StoreJob
<1>3. Phase = "store" /\ Phase' = "deliver"
  BY <1>1, <1>2 DEF Phase
<1>4. /\ TaskView.pc = "store" /\ TaskView.user = task.user /\ TaskView.ctx = task.ctx
      /\ TaskView.job = 1 /\ TaskView.pending = 0
      /\ TaskView' = [TaskView EXCEPT !.pc = "deliver"]
  BY <1>1, <1>2, <1>3, TaskAt, ViewMoves
<1>5. JobsView' = [JobsView EXCEPT ![1].status = "succeeded"]
  <2>1. JobsView = <<JobRow("queued")>>
    BY <1>1, Views
  <2>2. JobsView' = <<[user |-> task.user, ctx |-> task.ctx, status |-> "succeeded"]>>
    BY <1>1, <1>2 DEF JobsView
  <2>3. QED
    BY <2>1, <2>2, TheJob DEF JobRow
<1>6. UsageView' = Append(UsageView, UsageRow)
  <2>1. UsageView = <<>>
    BY <1>1, Views
  <2>2. UsageView' = [i \in 1..1 |-> UsageRow]
    BY <1>1, <1>2 DEF UsageView, UsageRow
  <2> HIDE DEF UsageRow
  <2>3. QED
    BY <2>1, <2>2
<1>7. (IF stored' THEN {1} ELSE {}) = (IF stored THEN {1} ELSE {}) \cup {1}
  BY <1>1
<1>8. Pipeline!TaskGoes("task", [TaskView EXCEPT !.pc = "deliver"])
  BY <1>4, TaskMoves
<1>9. Pipeline!UsageKind(task.ctx) = UsageKind(task.ctx)
  BY SameEntitlements
<1>10. Pipeline!StoreJob("task")
  BY <1>4, <1>5, <1>6, <1>7, <1>8, <1>9 DEF Pipeline!StoreJob, UsageRow
<1>11. QED
  BY <1>10, StepOfTask DEF Pipeline!TaskStep

LEMMA SameRows ==
  ASSUME RowsOfTask, UNCHANGED <<job, stored, charged>>, task'.user = task.user, task'.ctx = task.ctx,
         task.pc # "idle",
         \/ task'.pc \in Sending \cup {"end", "killed"}
         \/ task.pc = "intake" /\ task'.pc = "text"
         \/ /\ task.pc \in {"run", "generate", "poll", "store"}
            /\ task'.pc \in {"run", "generate", "poll", "store"}
  PROVE  RowsOfTask'
BY DEF RowsOfTask, Sending

LEMMA InitMaps == ASSUME Init PROVE RowsOfTask /\ Pipeline!Init
<1>1. RowsOfTask
  BY DEF Init, IdleTask, RowsOfTask
<1>2. JobsView = <<>> /\ UsageView = <<>> /\ ~stored
  BY <1>1, Views DEF Init
<1>3. TaskView = Pipeline!IdleTask
  BY DEF Init, IdleTask, TaskView, Phase, Pipeline!IdleTask, Pipeline!NoUser, NoUser
<1>4. QED
  BY <1>1, <1>2, <1>3 DEF Pipeline!Init

\* Every step of the task is a step of the task of Generation, or none that it sees.
LEMMA NextMaps ==
  ASSUME IInv, CopyInv, RowsOfTask, [Next]_vars
  PROVE  RowsOfTask' /\ [Pipeline!Next]_Pipeline!vars
<1>1. task \in Runnings
  BY TaskType DEF IInv
<1>2. ASSUME NEW u \in Users, NEW ctx \in Contexts \ {"question"}, Accept(u, ctx)
      PROVE  RowsOfTask' /\ [Pipeline!Next]_Pipeline!vars
  <2>1. RowsOfTask'
    BY <1>2 DEF Accept, IdleTask, Waits, rows, RowsOfTask
  <2>2. QED
    BY <1>2, <2>1, AcceptMaps
<1>3. CASE CommitIntake \/ TextReady
  <2>1. RowsOfTask'
    <3>1. CASE Goes("text") /\ UNCHANGED rows
      <4>1. task'.user = task.user /\ task'.ctx = task.ctx /\ task'.pc = "text"
        BY <1>1, <3>1, SameTask
      <4>2. task.pc = "intake"
        BY <1>3, <3>1, <4>1 DEF CommitIntake, TextReady, NewJob, rows, RowsOfTask
      <4>3. QED
        BY <3>1, <4>1, <4>2, SameRows DEF rows
    <3>2. CASE Goes("run") /\ NewJob
      <4>1. task'.user = task.user /\ task'.ctx = task.ctx /\ task'.pc = "run"
        BY <1>1, <3>2, SameTask
      <4>2. task.pc \in {"intake", "text"}
        BY <1>3 DEF CommitIntake, TextReady
      <4>3. QED
        BY <3>2, <4>1, <4>2 DEF NewJob, RowsOfTask
    <3>3. QED
      BY <1>3, <3>1, <3>2 DEF CommitIntake, TextReady
  <2>2. Pipeline!Next
    BY <1>3, IntakeMaps, NewJobMaps DEF TextReady
  <2>3. QED
    BY <2>1, <2>2
<1>4. CASE StartJob
  <2>1. /\ UNCHANGED <<job, stored, charged>> /\ task'.user = task.user /\ task'.ctx = task.ctx
        /\ task.pc = "run" /\ task'.pc = "generate"
    BY <1>1, <1>4, SameTask DEF StartJob, Waits, rows
  <2>2. QED
    BY <1>4, <2>1, SameRows, StartMaps
<1>5. CASE StubDraws \/ \E d \in 1..CallTime : PollDone(d)
  <2>1. /\ UNCHANGED <<job, stored, charged>> /\ task'.user = task.user /\ task'.ctx = task.ctx
        /\ task.pc \in {"generate", "poll"} /\ task'.pc = "store"
    BY <1>1, <1>5, SameTask DEF StubDraws, PollDone, Waits, rows, Runnings
  <2>2. QED
    BY <2>1, SameRows, PictureMaps
<1>6. CASE Submit \/ \E d \in 1..CallTime : PollAgain(d)
  <2>1. /\ UNCHANGED <<job, stored, charged>> /\ task'.user = task.user /\ task'.ctx = task.ctx
        /\ task.pc \in {"generate", "poll"} /\ task'.pc = "poll"
    BY <1>1, <1>6, SameTask DEF Submit, PollAgain, Waits, rows, Runnings
  <2>2. Phase' = Phase
    BY <2>1 DEF Phase
  <2>3. QED
    BY <2>1, <2>2, SameRows, LeavesOrWaits
<1>7. CASE TextFails \/ Breaks
  <2>1. /\ UNCHANGED rows /\ task'.user = task.user /\ task'.ctx = task.ctx
        /\ task.pc \in Before \ {"idle"} /\ task'.pc \in {"send", "end"} /\ ~stored
    BY <1>1, <1>7, SameTask DEF TextFails, Breaks, Waits, Before, IInv, NothingYet
  <2>2. RowsOfTask'
    BY <2>1, SameRows DEF rows, Before, Sending
  <2>3. QED
    BY <1>1, <2>1, <2>2, FailsSilently
<1>8. CASE FailJob
  <2>1. /\ job' = "failed" /\ UNCHANGED <<stored, charged>> /\ ~stored
        /\ task'.user = task.user /\ task'.ctx = task.ctx /\ task'.pc \in {"send", "end"}
        /\ task.pc # "idle"
    BY <1>1, <1>8, SameTask DEF FailJob, NoPicture, IInv, NothingYet, Before
  <2>2. RowsOfTask'
    BY <2>1 DEF RowsOfTask
  <2>3. QED
    BY <1>8, <2>2, FailMaps
<1>9. CASE StoreJob
  <2>1. /\ job' = "succeeded" /\ stored' /\ charged' = charged + 1 /\ task.pc = "store"
        /\ task'.user = task.user /\ task'.ctx = task.ctx /\ task'.pc \in {"send", "end"}
    BY <1>1, <1>9, SameTask DEF StoreJob
  <2>2. charged' = 1
    BY <2>1 DEF IInv, NothingYet, Before
  <2>3. RowsOfTask'
    BY <2>1, <2>2 DEF RowsOfTask
  <2>4. QED
    BY <1>9, <2>3, StoreMaps
<1>10. ASSUME task.pc \in Sending, UNCHANGED rows,
              task'.user = task.user, task'.ctx = task.ctx, task'.pc \in Sending \cup {"end"}
       PROVE  RowsOfTask' /\ [Pipeline!Next]_Pipeline!vars
  <2>1. task.pc # "idle"
    BY <1>10 DEF Sending
  <2>2. RowsOfTask'
    BY <1>10, <2>1, SameRows DEF rows
  <2>3. QED
    BY <1>1, <1>10, <2>2, SendingOn
<1>11. CASE SendText \/ Exhausted
  <2>1. task.pc \in Sending /\ UNCHANGED rows /\ \E words : Sends(words)
    BY <1>11 DEF SendText, Exhausted, Waits, Sending, Raised
  <2>2. task'.user = task.user /\ task'.ctx = task.ctx /\ task'.pc \in {"send", "end"}
    BY <1>1, <2>1, SameTask
  <2>3. QED
    BY <1>10, <2>1, <2>2 DEF Sending
<1>12. CASE Upload \/ PostPicture \/ WaitPicture
  <2>1. task.pc \in Sending /\ UNCHANGED rows
    BY <1>12 DEF Upload, PostPicture, WaitPicture, Waits, Sending
  <2>2. \/ \E words : Sends(words)
        \/ task' = [task EXCEPT !.pc = "post", !.attempt = 1]
        \/ task' = [task EXCEPT !.pc = "post", !.attempt = @ + 1]
        \/ \E o \in Outcomes : Tried(o)
    <3>1. CASE Upload
      BY <3>1 DEF Upload, Raised
    <3>2. CASE PostPicture
      <4>1. PICK o \in Outcomes :
              CASE o.told = "ok" -> Posted(o)
                [] o.told \in {"not_ready", "refused"} -> Tried(o)
                [] o.told = "raised" -> Raised
        BY <3>2 DEF PostPicture
      <4>2. Posted(o) \/ Tried(o) \/ Raised
        BY <4>1, OutcomeType
      <4>3. QED
        BY <4>2 DEF Posted, Raised
    <3>3. CASE WaitPicture
      BY <3>3 DEF WaitPicture
    <3>4. QED
      BY <1>12, <3>1, <3>2, <3>3
  <2>3. task'.user = task.user /\ task'.ctx = task.ctx /\ task'.pc \in Sending \cup {"end"}
    <3>1. CASE \E words : Sends(words)
      BY <1>1, <3>1, SameTask DEF Sending
    <3>2. CASE \/ task' = [task EXCEPT !.pc = "post", !.attempt = 1]
               \/ task' = [task EXCEPT !.pc = "post", !.attempt = @ + 1]
      BY <1>1, <3>2 DEF Runnings, Sending
    <3>3. CASE \E o \in Outcomes : Tried(o)
      BY <1>1, <3>3 DEF Tried, Runnings, Sending
    <3>4. QED
      BY <2>2, <3>1, <3>2, <3>3
  <2>4. QED
    BY <1>10, <2>1, <2>3
<1>13. CASE Killed
  <2>1. /\ UNCHANGED <<job, stored, charged>> /\ task'.user = task.user /\ task'.ctx = task.ctx
        /\ task.pc # "idle" /\ task'.pc = "killed"
    BY <1>1, <1>13, SameTask DEF Killed, Waits, rows
  <2>2. Phase' = "idle"
    BY <2>1 DEF Phase
  <2>3. QED
    BY <2>1, <2>2, SameRows, LeavesOrWaits
<1>14. CASE UNCHANGED vars
  <2>1. UNCHANGED <<task, job, stored, charged>>
    BY <1>14 DEF vars, rows
  <2>2. RowsOfTask' /\ Phase' = Phase
    BY <2>1 DEF RowsOfTask, Phase
  <2>3. QED
    BY <2>1, <2>2, LeavesOrWaits
<1>15. QED
  BY <1>2, <1>3, <1>4, <1>5, <1>6, <1>7, <1>8, <1>9, <1>11, <1>12, <1>13, <1>14 DEF Next, Runs

\* However the calls to the providers and to MAX interleave with failures and a
\* kill, the rows of a task change as the task of Generation changes them: the
\* file, the charge and the status in one commit, and nothing after it.
THEOREM DeliveryImplementsGeneration == Spec => ImplementsGeneration
<1>1. Init => RowsOfTask /\ Pipeline!Init
  BY InitMaps
<1>2. IInv /\ CopyInv /\ RowsOfTask /\ [Next]_vars => RowsOfTask' /\ [Pipeline!Next]_Pipeline!vars
  BY NextMaps
<1>3. QED
  BY <1>1, <1>2, CopiesHold, PTL DEF Spec, ImplementsGeneration, Pipeline!Spec
=============================================================================
