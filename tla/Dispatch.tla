------------------------------ MODULE Dispatch ------------------------------
(***************************************************************************)
(* How updates of MAX reach the handlers of Conversation: the webhook,     *)
(* whose requests run at once and are sent again until they are answered,  *)
(* or the long polling loop, one update after the other; the transaction   *)
(* around a handler (dispatch_max_update), which sends its messages before *)
(* it commits; and the background tasks started after the commit.          *)
(*                                                                         *)
(* MAX is external: it repeats a webhook call until it is answered 200,    *)
(* and GET /updates returns what comes after the marker it is given.       *)
(***************************************************************************)
EXTENDS Conversation

CONSTANTS
  Handlers,    \* dispatches that may run at once
  Transports,  \* MAX_MODE: "webhook" or "polling"
  Paid,        \* bound: for each transport, what the users may be subscribed to
  Script,      \* bound: for each transport, what the users may do first, second ...
  MaxUpdates,  \* bound: the longest script
  MaxFaults    \* bound of the crashes and failed calls

ASSUME DispatchAssumption ==
  /\ Handlers # {} /\ IsFiniteSet(Handlers)
  /\ Transports \subseteq {"webhook", "polling"}
  /\ Paid \in [Transports -> SUBSET [Users -> {"none"} \cup MonthlyPlans]]
  /\ Script \in [Transports -> Seq(SUBSET Inputs)]
  /\ MaxUpdates \in Nat /\ \A t \in Transports : Len(Script[t]) <= MaxUpdates
  /\ MaxFaults \in Nat

VARIABLES
  setup,      \* the transport in use, and the plan each user is subscribed to
  updates,    \* what the users did; an update is known by its index
  waiting,    \* webhook: the updates MAX has no answer for
  marker,     \* polling: app.state.max_poll_marker (None: NoMarker)
  confirmed,  \* polling: the last marker MAX was sent
  batch,      \* polling: updates received and not yet dispatched
  account,    \* tables users and conversations
  processed,  \* table webhook_processed
  work,       \* rows the handlers added
  handler,    \* the dispatches running
  started,    \* updates whose background task was started
  dropped,    \* history: updates of a batch an exception ended
  faults      \* the crashes and failed calls so far

max == <<setup, updates, waiting, marker, confirmed, batch, dropped>>
database == <<account, processed, work>>
vars == <<max, database, handler, started, faults>>

transport == setup.transport

NoMarker == -1

NewAccount == [known |-> FALSE, mode |-> NoMode, flow |-> "idle"]
Accounts == [known : {TRUE}, mode : Modes, flow : Flows]
              \cup {NewAccount, [NewAccount EXCEPT !.known = TRUE]}

IdleHandler == [pc |-> "idle", upd |-> 0, seen |-> NewAccount, fresh |-> FALSE,
                reply |-> Reply([mode |-> NoMode, flow |-> "idle"], "nothing", {})]

Updated(h) == updates[handler[h].upd]

\* A user who never wrote, or one the bot knows, in any flow.
Init ==
  /\ \E t \in Transports : setup \in [transport : {t}, paid : Paid[t]]
  /\ updates = <<>>
  /\ waiting = {}
  /\ marker = NoMarker
  /\ confirmed = 0
  /\ batch = <<>>
  /\ account \in [Users -> Accounts]
  /\ processed = {}
  /\ work = <<>>
  /\ handler = [h \in Handlers |-> IdleHandler]
  /\ started = {}
  /\ dropped = {}
  /\ faults = 0

\* A user acts; one the bot does not know has no button to press.
Act(u, input) ==
  /\ Len(updates) < Len(Script[transport])
  /\ input \in Script[transport][Len(updates) + 1]
  /\ input.kind = "press" => account[u].known
  /\ updates' = Append(updates, [user |-> u, input |-> input])
  /\ waiting' = IF transport = "webhook" THEN waiting \cup {Len(updates) + 1} ELSE waiting
  /\ UNCHANGED <<setup, marker, confirmed, batch, dropped, database, handler, started, faults>>

-----------------------------------------------------------------------------
(* The two transports. *)

Goes(h, next) == handler' = [handler EXCEPT ![h] = next]

\* The lookup in webhook_processed; a duplicate is answered at once.
Looked(h, x) ==
  Goes(h, IF x \in processed THEN IdleHandler
                             ELSE [IdleHandler EXCEPT !.pc = "looked", !.upd = x])

\* The answer 200 may be lost, and MAX calls again.
Answer(x) == waiting' \in {waiting, waiting \ {x}}

\* POST /webhooks/max
WebhookCall(h, x) ==
  /\ transport = "webhook"
  /\ x \in waiting /\ handler[h].pc = "idle"
  /\ Looked(h, x)
  /\ IF x \in processed THEN Answer(x) ELSE UNCHANGED waiting
  /\ UNCHANGED <<setup, updates, marker, confirmed, batch, dropped, database, started, faults>>

AllIdle == \A h \in Handlers : handler[h].pc = "idle"

\* GET /updates: the marker is kept before the batch is dispatched.  Without a
\* marker MAX goes back to some update it has no confirmation for, or further.
PollGet(from, to) ==
  /\ transport = "polling"
  /\ AllIdle /\ batch = <<>>
  /\ IF marker = NoMarker THEN from \in 0..confirmed ELSE from = marker
  /\ from < to /\ to \in 1..Len(updates)
  /\ confirmed' = from
  /\ marker' = to
  /\ batch' = [i \in 1..(to - from) |-> from + i]
  /\ UNCHANGED <<setup, updates, waiting, dropped, database, handler, started, faults>>

\* Wrong version: the loop does not wait for a dispatch to end.
MutPollNext(h) ==
  /\ batch # <<>> /\ handler[h].pc = "idle"
  /\ Looked(h, Head(batch))
  /\ batch' = Tail(batch)
  /\ UNCHANGED <<setup, updates, waiting, marker, confirmed, dropped, database, started, faults>>

\* The next update of the batch, when the last one is done with.
PollNext(h) ==
  /\ batch # <<>> /\ AllIdle
  /\ Looked(h, Head(batch))
  /\ batch' = Tail(batch)
  /\ UNCHANGED <<setup, updates, waiting, marker, confirmed, dropped, database, started, faults>>

\* Wrong version: a failed webhook call is answered 200.
MutThrown(h) ==
  /\ handler' = [handler EXCEPT ![h] = IdleHandler]
  /\ batch' = <<>>
  /\ dropped' = dropped
  /\ waiting' = waiting \ {handler[h].upd}
  /\ UNCHANGED <<setup, updates, marker, confirmed, database, started>>

\* An exception leaves the dispatch: the transaction is rolled back.  The
\* webhook answers 500; the loop gives up the rest of the batch.
Thrown(h) ==
  /\ handler' = [handler EXCEPT ![h] = IdleHandler]
  /\ batch' = <<>>
  /\ dropped' = IF transport = "polling"
                THEN dropped \cup {handler[h].upd} \cup {batch[i] : i \in DOMAIN batch} ELSE dropped
  /\ UNCHANGED <<setup, updates, waiting, marker, confirmed, database, started>>

-----------------------------------------------------------------------------
(* dispatch_max_update *)

Step == UNCHANGED <<max, database, started, faults>>

\* _get_or_create_user, _ensure_conversation: SELECT ...
Load(h) ==
  /\ handler[h].pc = "looked"
  /\ LET seen == account[Updated(h).user] IN
     Goes(h, [handler[h] EXCEPT !.pc = IF seen.known THEN "loaded" ELSE "insert", !.seen = seen])
  /\ Step

\* ... and INSERT, which waits for a transaction that inserts the same user.
Insert(h) ==
  /\ handler[h].pc = "insert"
  /\ \A g \in Handlers : handler[g].fresh => Updated(g).user # Updated(h).user
  /\ ~account[Updated(h).user].known
  /\ Goes(h, [handler[h] EXCEPT !.pc = "loaded", !.fresh = TRUE, !.seen.known = TRUE])
  /\ Step

\* The unique index on users: the other transaction was first.
InsertFails(h) ==
  /\ handler[h].pc = "insert"
  /\ account[Updated(h).user].known
  /\ Thrown(h)
  /\ UNCHANGED faults

\* The conversation as the handler has it in memory.
Conv(h) == [mode |-> handler[h].seen.mode, flow |-> handler[h].seen.flow,
            paid |-> setup.paid[Updated(h).user]]

\* The user was invited by another: attach_by_code reads it and refuses.
Attached(u) == \E i \in DOMAIN work : work[i].user = u /\ work[i].kind = "attach"

\* The handler runs and sends its messages; a question waits for the provider.
Handle(h) ==
  /\ handler[h].pc = "loaded"
  /\ \E r \in Respond(Conv(h), Updated(h).input) :
       /\ r.work = "attach" => ~Attached(Updated(h).user)
       /\ Goes(h, [handler[h] EXCEPT !.pc = "replied", !.reply = r])
  /\ Step

\* The unique indices on webhook_processed and referrals.
Conflicts(h) ==
  \/ handler[h].upd \in processed
  \/ handler[h].reply.work = "attach" /\ Attached(Updated(h).user)

\* The flush writes the columns the handler changed.
Saved(db, seen, reply) ==
  [known |-> TRUE,
   mode |-> IF reply.mode = seen.mode THEN db.mode ELSE reply.mode,
   flow |-> IF reply.flow = seen.flow THEN db.flow ELSE reply.flow]

\* Wrong version: the key is not unique.
MutCommit(h) ==
  /\ handler[h].pc = "replied"
  /\ LET u == Updated(h).user  r == handler[h].reply IN
     /\ account' = [account EXCEPT ![u] = Saved(@, handler[h].seen, r)]
     /\ work' = IF r.work = "none" THEN work
                ELSE Append(work, [upd |-> handler[h].upd, user |-> u, kind |-> r.work,
                                   mode |-> handler[h].seen.mode])
  /\ processed' = processed \cup {handler[h].upd}
  /\ Goes(h, [handler[h] EXCEPT !.pc = "committed", !.fresh = FALSE])
  /\ UNCHANGED <<max, started, faults>>

\* The effect and the key of the update are committed together.
Commit(h) ==
  /\ handler[h].pc = "replied" /\ ~Conflicts(h)
  /\ LET u == Updated(h).user  r == handler[h].reply IN
     /\ account' = [account EXCEPT ![u] = Saved(@, handler[h].seen, r)]
     /\ work' = IF r.work = "none" THEN work
                ELSE Append(work, [upd |-> handler[h].upd, user |-> u, kind |-> r.work,
                                   mode |-> handler[h].seen.mode])
  /\ processed' = processed \cup {handler[h].upd}
  /\ Goes(h, [handler[h] EXCEPT !.pc = "committed", !.fresh = FALSE])
  /\ UNCHANGED <<max, started, faults>>

CommitFails(h) ==
  /\ handler[h].pc = "replied" /\ Conflicts(h)
  /\ Thrown(h)
  /\ UNCHANGED faults

TaskKinds == Contexts \ {"question"}

\* Wrong version: no task for a greeting.
MutSchedule(h) ==
  /\ handler[h].pc = "committed"
  /\ started' = IF handler[h].reply.work \in TaskKinds \ {"greeting_image"}
                THEN started \cup {handler[h].upd} ELSE started
  /\ Goes(h, IdleHandler)
  /\ Answer(handler[h].upd)
  /\ UNCHANGED <<setup, updates, marker, confirmed, batch, dropped, database, faults>>

\* The background task of the handler is created, and the update answered.
Schedule(h) ==
  /\ handler[h].pc = "committed"
  /\ started' = IF handler[h].reply.work \in TaskKinds THEN started \cup {handler[h].upd} ELSE started
  /\ Goes(h, IdleHandler)
  /\ Answer(handler[h].upd)
  /\ UNCHANGED <<setup, updates, marker, confirmed, batch, dropped, database, faults>>

\* A call to MAX or to the database raises.
Fail(h) ==
  /\ handler[h].pc \in {"looked", "insert", "loaded", "replied"}
  /\ faults < MaxFaults /\ faults' = faults + 1
  /\ Thrown(h)

\* Wrong version: the marker outlives the process.
MutCrash ==
  /\ faults < MaxFaults /\ faults' = faults + 1
  /\ handler' = [h \in Handlers |-> IdleHandler]
  /\ batch' = <<>>
  /\ UNCHANGED <<setup, updates, waiting, marker, confirmed, dropped, database, started>>

\* The process dies and is started again, without a marker.
Crash ==
  /\ faults < MaxFaults /\ faults' = faults + 1
  /\ handler' = [h \in Handlers |-> IdleHandler]
  /\ batch' = <<>>
  /\ marker' = NoMarker
  /\ UNCHANGED <<setup, updates, waiting, confirmed, dropped, database, started>>

-----------------------------------------------------------------------------
Runs(h) ==
  \/ Load(h) \/ Insert(h) \/ InsertFails(h) \/ Handle(h)
  \/ Commit(h) \/ CommitFails(h) \/ Schedule(h)

Polls ==
  \/ \E to \in 1..Len(updates), from \in 0..Len(updates) : PollGet(from, to)
  \/ \E h \in Handlers : PollNext(h)

Next ==
  \/ \E u \in Users, input \in Inputs : Act(u, input)
  \/ \E h \in Handlers, x \in waiting : WebhookCall(h, x)
  \/ Polls
  \/ \E h \in Handlers : Runs(h) \/ Fail(h)
  \/ Crash

Spec == Init /\ [][Next]_vars
-----------------------------------------------------------------------------
(* Properties. *)

Updates == DOMAIN updates
Kinds == Contexts \cup {"attach", "referral_code", "cancel"}

Answers == {"welcome", "choose_mode", "mode_set", "menu", "templates", "stars", "prompt", "ask_again",
            "answer", "working", "provider_failed", "paywall", "payment_link", "no_link", "cancelled",
            "invite", "code_prompt", "code_result", "no_template", "stale", "unknown", "nothing"}

Replies == [mode : Modes \cup {NoMode}, flow : Flows, says : Answers,
            shows : SUBSET Menus, work : Kinds \cup {"none"}]

\* Every table, dispatch and external record has the shape its code gives it.
TypeOK ==
  /\ transport \in Transports /\ setup.paid \in Paid[transport]
  /\ updates \in Seq([user : Users, input : Inputs])
  /\ waiting \subseteq Updates
  /\ marker \in Updates \cup {NoMarker} /\ confirmed \in Updates \cup {0}
  /\ batch \in Seq(Updates)
  /\ account \in [Users -> Accounts]
  /\ processed \subseteq Updates
  /\ work \in Seq([upd : Updates, user : Users, kind : Kinds, mode : Modes])
  /\ \A h \in Handlers :
       /\ handler[h].pc \in {"idle", "looked", "insert", "loaded", "replied", "committed"}
       /\ handler[h].pc # "idle" => handler[h].upd \in Updates
       /\ handler[h].seen \in Accounts /\ handler[h].fresh \in BOOLEAN
       /\ handler[h].reply \in Replies
  /\ started \subseteq Updates /\ dropped \subseteq Updates
  /\ faults \in 0..MaxFaults

\* The dispatch implements UpdateEffects: whatever MAX sends again, to several
\* requests at once or after a restart, an update takes effect in one step and
\* once, and only a task of a committed update is started, once.
Effects == INSTANCE UpdateEffects
             WITH Updates <- 1..MaxUpdates, done <- processed,
                  effects <- [x \in 1..MaxUpdates |-> {i \in DOMAIN work : work[i].upd = x}]
ImplementsUpdateEffects == Effects!Spec

\* What a button of a menu must not get for an answer.
DeadEnds == {"choose_mode", "stale", "unknown", "no_template"}

Works(c, button) == \A r \in OnCallback(c, button) : r.says \notin DeadEnds

\* Every button of a keyboard the bot sends works in the mode and the flow it
\* leaves the user in.  One menu is excepted: the answer to a question brings the
\* consumer's, also to a user who has since gone over to business, although
\* docs/m3_flows.md has the menu of the mode shown after a text flow.
MenusWork ==
  \A h \in Handlers : handler[h].pc = "replied" /\ handler[h].reply.says # "answer" =>
    \A menu \in handler[h].reply.shows : \A b \in Buttons(menu) :
      Works([Conv(h) EXCEPT !.mode = handler[h].reply.mode, !.flow = handler[h].reply.flow], b)

\* The mode a button of a menu or a template was made for.
MadeFor(b) == CASE b[2] \in Modes -> b[2] [] b[2] = "tpl" -> b[3] [] OTHER -> "any"

\* A button left in the chat by the other mode changes nothing when it is
\* pressed: neither the flow the user is in nor any table.
ForeignButtonInert ==
  \A h \in Handlers :
    LET c == Conv(h)  r == handler[h].reply  b == Updated(h).input.button IN
    (/\ handler[h].pc = "replied" /\ Updated(h).input.kind = "press"
     /\ c.mode # NoMode /\ MadeFor(b) \in Modes \ {c.mode})
      => r.flow = c.flow /\ r.mode = c.mode /\ r.work = "none"

ConsumerWork == {"consumer_image", "greeting_image"}
BusinessWork == {"business_image", "vk_post_image"}

\* The flow survives a change of mode, and yet no picture is taken on for the
\* mode the user left: by the free plan of the new mode it is refused.  With a
\* subscription it is the plan that decides, whatever the mode.
WorkOfThePlan ==
  \A i \in DOMAIN work : LET w == work[i] IN
    /\ w.kind \in ConsumerWork =>
         setup.paid[w.user] = "consumer_plus_290" \/ (setup.paid[w.user] = "none" /\ w.mode = "consumer")
    /\ w.kind = "vk_post_image" => setup.paid[w.user] = "business_marketer_490"
    /\ w.kind = "business_image" =>
         setup.paid[w.user] = "business_marketer_490" \/ (setup.paid[w.user] = "none" /\ w.mode = "business")

\* Updates whose row waits for a task that nobody will start.
Forgotten ==
  {x \in processed \ started :
     /\ \E i \in DOMAIN work : work[i].upd = x /\ work[i].kind \in TaskKinds
     /\ \A h \in Handlers : handler[h].upd = x => handler[h].pc # "committed"}

\* Work the user was told is under way is forgotten only by a crash between the
\* commit and the creation of the task, and then by those then running.
ForgottenBound == Cardinality(Forgotten) <= Cardinality(Handlers) * faults

\* Polling handles a user's updates on the conversation as the last one left
\* it: no update is lost under another.
PolledFresh ==
  transport = "polling" =>
    \A h \in Handlers : handler[h].pc \in {"loaded", "replied"} =>
      LET now == account[Updated(h).user] IN
      handler[h].seen.mode = now.mode /\ handler[h].seen.flow = now.flow

InHand == {batch[i] : i \in DOMAIN batch} \cup {handler[h].upd : h \in Handlers}

\* An update the loop has gone past without effect was in a batch that an
\* exception ended: a crash alone loses none, as the marker dies with it.
LostOnlyInDroppedBatch ==
  transport = "polling" =>
    \A x \in Updates : x <= (IF marker = NoMarker THEN confirmed ELSE marker)
      => x \in processed \cup dropped \cup InHand

\* MAX stops repeating a webhook call only for an update that took effect: an
\* answer 200 is never given to one that failed or is still running.
AnsweredTookEffect ==
  transport = "webhook" => \A x \in Updates : x \in waiting \cup processed

-----------------------------------------------------------------------------
(* Liveness. *)

\* MAX calls again until it is answered, the loop goes on, every call a handler
\* makes ends (the timeouts of the clients), and faults are bounded.
FairDispatch ==
  /\ Spec
  /\ \A h \in Handlers : WF_vars(Runs(h))
  /\ \A x \in 1..MaxUpdates : SF_vars(x \in waiting /\ \E h \in Handlers : WebhookCall(h, x))
  /\ WF_vars(Polls)

\* Every update takes effect in the end, or was in a dropped batch.
EventuallyHandled == \A x \in 1..MaxUpdates : (x \in Updates) ~> (x \in processed \cup dropped)
=============================================================================
