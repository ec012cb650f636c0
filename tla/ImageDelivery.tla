---------------------------- MODULE ImageDelivery ----------------------------
(***************************************************************************)
(* One background task of Generation, call by call: the text and the image *)
(* provider with its polling loop, the store, and what the user is sent -  *)
(* the picture with its upload and its retries, or a notice of failure.    *)
(*                                                                         *)
(* The provider and MAX are external.  A call to MAX may be answered, be   *)
(* refused, or raise (a timeout); unless it was answered 200 nobody knows  *)
(* whether the user sees the message.                                      *)
(***************************************************************************)
EXTENDS Entitlements

CONSTANTS
  PlanOf,        \* the plan each user's subscription resolves to
  PollTimeout,   \* yandex_image_poll_timeout_sec
  PollInterval,  \* yandex_image_poll_interval_sec
  CallTime,      \* the longest a call to the image provider takes
  MaxAttempts    \* max(4, m5_max_send_attachment_retries)

ASSUME DeliveryAssumption ==
  /\ PlanOf \in [Users -> PlanCodes]
  /\ PollTimeout \in Nat /\ PollInterval \in Nat
  /\ CallTime \in Nat \ {0} /\ MaxAttempts \in Nat \ {0}

VARIABLES
  setup,   \* MAX's token is set and outbound enabled; the image provider
  task,    \* where the task is
  job,     \* generation_jobs.status of its job
  stored,  \* its row in stored_files
  charged, \* its rows in usage_events
  chat,    \* the texts the user sees
  copies,  \* the copies of the picture the user sees
  mishaps  \* history: the calls to MAX that went wrong

rows == <<job, stored, charged>>
seen == <<chat, copies, mishaps>>
vars == <<setup, task, rows, seen>>

NoUser == "nobody"

\* todo: the messages still to be sent; clock: since the deadline was set.
IdleTask == [pc |-> "idle", user |-> NoUser, ctx |-> "question", todo |-> <<>>,
             clock |-> 0, attempt |-> 0]

Init ==
  /\ setup \in [enabled : BOOLEAN, provider : {"stub", "yandex"}]
  /\ task = IdleTask
  /\ job = "none" /\ stored = FALSE /\ charged = 0
  /\ chat = {} /\ copies = 0 /\ mishaps = {}

Goes(pc) == task' = [task EXCEPT !.pc = pc]
Waits == UNCHANGED <<setup, rows, seen>>

\* The messages to send next; with none left the task ends.
Sends(messages) ==
  task' = [task EXCEPT !.pc = IF messages = <<>> THEN "end" ELSE "send", !.todo = messages]

-----------------------------------------------------------------------------
(* The prompt is accepted (see Generation), and the bundle writes its text. *)

\* The user has used nothing yet.
Accept(u, ctx) ==
  /\ task.pc = "idle" /\ job = "none"
  /\ Allowed(<<>>, PoolOf(ctx), u, PlanOf[u], 0)
  /\ task' = [IdleTask EXCEPT !.pc = "intake", !.user = u, !.ctx = ctx]
  /\ Waits

NewJob == job' = "queued" /\ UNCHANGED <<stored, charged>>

CommitIntake ==
  /\ task.pc = "intake"
  /\ IF task.ctx \in Bundles THEN Goes("text") /\ UNCHANGED rows
                             ELSE Goes("run") /\ NewJob
  /\ UNCHANGED <<setup, seen>>

\* The text provider answers, and the job of the picture is committed.
TextReady ==
  /\ task.pc = "text"
  /\ Goes("run") /\ NewJob
  /\ UNCHANGED <<setup, seen>>

\* It is refused, answers nothing or cannot be reached: its apology is sent.
\* Or the database raises, and the bundle apologises itself.
TextFails ==
  /\ task.pc = "text"
  /\ \E words \in {"text_failed", "bundle_error"} : Sends(<<words>>)
  /\ Waits

-----------------------------------------------------------------------------
(* The image provider. *)

\* The job is found queued; `processing` is flushed.
StartJob ==
  /\ task.pc = "run" /\ job = "queued"
  /\ Goes("generate")
  /\ Waits

\* The stub draws the picture itself.
StubDraws ==
  /\ task.pc = "generate" /\ setup.provider = "stub"
  /\ Goes("store")
  /\ Waits

\* The operation is submitted and its deadline set, PollTimeout from there.
Submit ==
  /\ task.pc = "generate" /\ setup.provider = "yandex"
  /\ Goes("poll")
  /\ Waits

\* Wrong version: the wait before a poll does not count.
MutTimeLeft == task.clock < PollTimeout + PollInterval

\* while time.monotonic() < deadline
TimeLeft == task.clock < PollTimeout

Later(d) == task.clock + PollInterval + d

\* A wait and a poll: the operation is not done, or the poll is refused.
PollAgain(d) ==
  /\ task.pc = "poll" /\ TimeLeft
  /\ task' = [task EXCEPT !.clock = Later(d)]
  /\ Waits

\* The operation is done, with a picture.
PollDone(d) ==
  /\ task.pc = "poll" /\ TimeLeft
  /\ task' = [task EXCEPT !.clock = Later(d), !.pc = "store"]
  /\ Waits

\* Submitting is refused, yields no operation or raises; a poll raises; the
\* operation ends in an error or without a picture; or the time is over.
NoPicture ==
  \/ task.pc = "generate" /\ setup.provider = "yandex"
  \/ task.pc = "poll"

\* _notify_partial_on_image_failure, and USER_IMG_FAIL
FailureWords(ctx) ==
  CASE ctx \in Bundles -> <<"text", "not_charged">>
    [] ctx \notin Bundles -> <<"image_failed">>

\* Wrong version: the user is charged for the attempt.
MutFailJob ==
  /\ NoPicture
  /\ job' = "failed" /\ stored' = stored /\ charged' = charged + 1
  /\ Sends(FailureWords(task.ctx))
  /\ UNCHANGED <<setup, seen>>

FailJob ==
  /\ NoPicture
  /\ job' = "failed" /\ UNCHANGED <<stored, charged>>
  /\ Sends(FailureWords(task.ctx))
  /\ UNCHANGED <<setup, seen>>

\* The text of a bundle, the picture, and the menu.
Messages(ctx) ==
  IF ctx \in Bundles THEN <<"text", "picture", "menu">> ELSE <<"picture", "menu">>

\* Wrong version: the charge is committed on its own, before the file.
MutStoreJob ==
  /\ task.pc = "store"
  /\ IF charged = 0 THEN charged' = 1 /\ UNCHANGED <<task, job, stored>>
     ELSE job' = "succeeded" /\ stored' = TRUE /\ charged' = charged /\ Sends(Messages(task.ctx))
  /\ UNCHANGED <<setup, seen>>

\* The watermark and the file on disk; then the rows are committed.
StoreJob ==
  /\ task.pc = "store"
  /\ job' = "succeeded" /\ stored' = TRUE /\ charged' = charged + 1
  /\ Sends(Messages(task.ctx))
  /\ UNCHANGED <<setup, seen>>

-----------------------------------------------------------------------------
(* MAX. *)

\* What becomes of a message: the user sees it or not, and the bot is told.
\* An attachment that is not ready is not shown.
Outcomes ==
  IF ~setup.enabled THEN {[shown |-> FALSE, told |-> "ok"]}
  ELSE {[shown |-> TRUE, told |-> "ok"], [shown |-> FALSE, told |-> "not_ready"]}
         \cup [shown : BOOLEAN, told : {"refused", "raised"}]

\* One call that was not answered 200, for the history.
Mishap(what, attempt, shown) == [what |-> what, attempt |-> attempt, shown |-> shown]
Note(o, what) ==
  mishaps' = IF o.told = "ok" THEN mishaps ELSE mishaps \cup {Mishap(what, task.attempt, o.shown)}

\* What the handlers of exceptions send, of the bundle until the job is there;
\* an exception in them ends the task.
Errors == {"job_error", "bundle_error"}

\* Wrong version: the exception is logged, and no more.
MutRaised == Sends(<<>>)

Raised == Sends(IF job = "none" THEN <<"bundle_error">> ELSE <<"job_error">>)

\* The rest of the messages, whatever became of this one.
SendText ==
  /\ task.pc = "send" /\ Head(task.todo) # "picture"
  /\ \E o \in Outcomes \ {[shown |-> FALSE, told |-> "not_ready"]} :
       /\ chat' = IF o.shown THEN chat \cup {Head(task.todo)} ELSE chat
       /\ Note(o, Head(task.todo))
       /\ CASE o.told # "raised" -> Sends(Tail(task.todo))
            [] o.told = "raised" /\ Head(task.todo) \in Errors -> Sends(<<>>)
            [] o.told = "raised" /\ Head(task.todo) \notin Errors -> Raised
  /\ UNCHANGED <<setup, rows, copies>>

\* upload_image_payload: without a token the picture is given up, in silence.
Upload ==
  /\ task.pc = "send" /\ Head(task.todo) = "picture"
  /\ \/ setup.enabled /\ task' = [task EXCEPT !.pc = "post", !.attempt = 1] /\ UNCHANGED mishaps
     \/ Sends(Tail(task.todo)) /\ mishaps' = mishaps \cup {Mishap("upload", 0, FALSE)}
     \/ setup.enabled /\ Raised /\ mishaps' = mishaps \cup {Mishap("upload", 0, FALSE)}
  /\ UNCHANGED <<setup, rows, chat, copies>>

\* Wrong version: an attachment that is not ready does not count as an attempt.
MutTried(o) ==
  task' = [task EXCEPT !.pc = IF task.attempt = MaxAttempts /\ o.told # "not_ready"
                              THEN "exhausted" ELSE "wait",
                       !.attempt = IF o.told = "not_ready" THEN @ - 1 ELSE @]

\* After any refusal the bot waits, and tries again while attempts are left.
Tried(o) ==
  task' = [task EXCEPT !.pc = IF task.attempt = MaxAttempts THEN "exhausted" ELSE "wait"]

\* Wrong version: the loop does not end with the copy that was acknowledged.
MutPosted(o) == IF task.attempt = MaxAttempts THEN Sends(Tail(task.todo)) ELSE Tried(o)

Posted(o) == Sends(Tail(task.todo))

\* send_message_with_image: a copy is posted.
PostPicture ==
  /\ task.pc = "post"
  /\ \E o \in Outcomes :
       /\ copies' = IF o.shown THEN copies + 1 ELSE copies
       /\ Note(o, "post")
       /\ CASE o.told = "ok" -> Posted(o)
            [] o.told \in {"not_ready", "refused"} -> Tried(o)
            [] o.told = "raised" -> Raised
  /\ UNCHANGED <<setup, rows, chat>>

WaitPicture ==
  /\ task.pc = "wait"
  /\ task' = [task EXCEPT !.pc = "post", !.attempt = @ + 1]
  /\ Waits

\* Nobody looks at the result of send_message_with_image.
Exhausted ==
  /\ task.pc = "exhausted"
  /\ Sends(Tail(task.todo))
  /\ Waits

-----------------------------------------------------------------------------
\* The database or the disk raises: what is not committed is rolled back.
Breaks ==
  /\ task.pc \in {"run", "generate", "poll", "store"}
  /\ Sends(<<"job_error">>)
  /\ Waits

\* The process stops.
Killed ==
  /\ task.pc \notin {"idle", "end", "killed"}
  /\ Goes("killed")
  /\ Waits

Runs ==
  \/ CommitIntake \/ TextReady \/ TextFails
  \/ StartJob \/ StubDraws \/ Submit \/ FailJob \/ StoreJob
  \/ \E d \in 1..CallTime : PollAgain(d) \/ PollDone(d)
  \/ SendText \/ Upload \/ PostPicture \/ WaitPicture \/ Exhausted
  \/ Breaks

Next ==
  \/ \E u \in Users, ctx \in Contexts \ {"question"} : Accept(u, ctx)
  \/ Runs
  \/ Killed

Spec == Init /\ [][Next]_vars
-----------------------------------------------------------------------------
(* Properties. *)

Texts == {"text", "menu", "text_failed", "not_charged", "image_failed"} \cup Errors

\* Every row and the task have the shape their code gives them; in particular
\* the last poll ends within one wait and one call of the deadline.
TypeOK ==
  /\ setup \in [enabled : BOOLEAN, provider : {"stub", "yandex"}]
  /\ task \in [pc : {"idle", "intake", "text", "run", "generate", "poll", "store", "send",
                    "post", "wait", "exhausted", "end", "killed"},
               user : Users \cup {NoUser}, ctx : Contexts, todo : Seq(Texts \cup {"picture"}),
               clock : 0..(PollTimeout + PollInterval + CallTime - 1), attempt : 0..MaxAttempts]
  /\ job \in {"none", "queued", "failed", "succeeded"}
  /\ stored \in BOOLEAN /\ charged \in Nat
  /\ chat \subseteq Texts /\ copies \in Nat
  /\ mishaps \subseteq [what : Texts \cup {"upload", "post"}, attempt : 0..MaxAttempts, shown : BOOLEAN]

\* The task as Generation knows it.
Phase ==
  CASE task.pc \in {"idle", "intake", "text", "run", "store"} -> task.pc
    [] task.pc \in {"generate", "poll"} -> "provider"
    [] task.pc \in {"send", "post", "wait", "exhausted"} -> IF stored THEN "deliver" ELSE "idle"
    [] task.pc \in {"end", "killed"} -> "idle"

TaskView ==
  IF Phase = "idle" THEN [pc |-> "idle", user |-> NoUser, ctx |-> "question", job |-> 0, pending |-> 0]
  ELSE [pc |-> Phase, user |-> task.user, ctx |-> task.ctx,
        job |-> IF job = "none" THEN 0 ELSE 1, pending |-> 0]

JobsView == IF job = "none" THEN <<>> ELSE <<[user |-> task.user, ctx |-> task.ctx, status |-> job]>>

UsageView == [i \in 1..charged |-> [user |-> task.user, kind |-> UsageKind(task.ctx),
                                    mode |-> "none", at |-> 0, job |-> 1]]

\* The calls of the task implement the task of Generation: the file, the charge
\* and the status are one step, whatever the provider and MAX do before and
\* after it.
Pipeline == INSTANCE Generation
  WITH Tasks <- {"task"}, Asked <- Contexts \ {"question"}, OldUsage <- <<>>, MaxWork <- 1,
       MaxTime <- 0, now <- 0, referrals <- <<>>, ledger <- <<>>, jobs <- JobsView,
       files <- IF stored THEN {1} ELSE {}, usage <- UsageView, task <- [t \in {"task"} |-> TaskView]
ImplementsGeneration == Pipeline!Spec

\* What tells a user that there will be no picture.
Notices == {"text_failed", "not_charged", "image_failed"} \cup Errors

\* docs/m5_output_pipeline.md, the policy of quotas: a user who is told that the
\* text or the picture failed is charged nothing, before or after.  Not so after
\* a job_error, which may follow the charge.
FailureIsFree == chat \cap (Notices \ {"job_error"}) # {} => charged = 0 /\ ~stored

\* Each copy beyond the first is one that MAX showed without acknowledging it:
\* any refusal is retried, and the copies stay within the attempts.
PictureCopies ==
  LET doubtful == {m \in mishaps : m.what = "post" /\ m.shown}
  IN  /\ copies <= Cardinality(doubtful) + 1
      /\ copies <= MaxAttempts

Lost(what) == {m \in mishaps : m.what = what}

\* A task that was not killed has shown the user the picture or told of a
\* failure, or MAX did not take that very notice.  One silence is the code's: a
\* picture that is stored and charged, and whose upload failed or whose every
\* attempt was refused, is followed by the menu alone.
NeverSilent ==
  task.pc = "end" /\ setup.enabled /\ copies = 0 /\ chat \cap Notices = {} =>
    \/ \E n \in Notices : Lost(n) # {}
    \/ stored /\ (Lost("upload") # {} \/ Cardinality(Lost("post")) = MaxAttempts)

-----------------------------------------------------------------------------
(* Liveness. *)

\* Every call ends: the clients have timeouts.
FairDelivery == Spec /\ WF_vars(Runs)

\* A task ends, however long the provider and MAX refuse.
EventuallyEnds == (task.pc # "idle") ~> (task.pc \in {"end", "killed"})
=============================================================================
