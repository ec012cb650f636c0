---------------------------- MODULE Conversation ----------------------------
(***************************************************************************)
(* The chat: what the bot makes of one update of a user, as operators from *)
(* a conversation and an input to the replies the code may give            *)
(* (StateMachineService), and the keyboards it sends (menus.py,            *)
(* paywall.py).  No state: Dispatch runs these handlers.                   *)
(*                                                                         *)
(* A conversation is what a handler has loaded: users.current_mode,        *)
(* conversations.flow_state and the subscribed plan ("none" without one).  *)
(* A reply is the mode and the flow the handler leaves in the session, the *)
(* kind of answer it sends, the keyboards it attaches, and the row or the  *)
(* background task it adds.                                                *)
(***************************************************************************)
EXTENDS Entitlements

NoMode == "none"
Modes == {"consumer", "business"}

\* states.py
ConsumerFlows == {"consumer.await_question", "consumer.await_image_prompt",
                  "consumer.await_greeting_prompt"}
BusinessFlows == {"business.await_vk_post_prompt", "business.await_image_prompt"}
PromptFlows == ConsumerFlows \cup BusinessFlows
Flows == PromptFlows \cup {"idle", "shared.await_referral_code"}

FlowMode(flow) == IF flow \in ConsumerFlows THEN "consumer" ELSE "business"

\* What the text sent in a flow asks for.
AskedIn(flow) ==
  CASE flow = "consumer.await_question" -> "question"
    [] flow = "consumer.await_image_prompt" -> "consumer_image"
    [] flow = "consumer.await_greeting_prompt" -> "greeting_image"
    [] flow = "business.await_vk_post_prompt" -> "vk_post_image"
    [] flow = "business.await_image_prompt" -> "business_image"

-----------------------------------------------------------------------------
(* Keyboards.  A button is its payload, split at "|"; a template is known  *)
(* by the flow it opens, whatever its slug.                                *)

V1(area, names) == {<<"v1", area, n>> : n \in names}

\* The buttons that open a flow.
Opening(mode) ==
  IF mode = "consumer" THEN {"ask_question", "create_image", "make_greeting"}
                       ELSE {"create_vk_post", "create_image"}

TemplateKinds(mode) == IF mode = "consumer" THEN {"greeting", "image"} ELSE {"vk"}

MainMenu(mode) == <<mode, "main">>
QuickStart(mode) == <<mode, "quick_start">>
Templates(mode) == <<mode, "templates">>

\* Wrong version: one keyboard for both modes.
MutSubscriptionMenu(mode) == <<"consumer", "subscription">>

SubscriptionMenu(mode) == <<mode, "subscription">>
ModeSelection == <<"any", "mode_selection">>
Paywall == <<"any", "paywall">>

Menus == (Modes \X {"main", "quick_start", "templates", "subscription"}) \cup {ModeSelection, Paywall}

Buttons(menu) ==
  CASE menu[2] = "main" ->
         V1(menu[1], Opening(menu[1]) \cup {"templates_menu", "my_stars", "invite_friend",
                                            "subscription", "enter_referral_code"})
    [] menu[2] = "quick_start" -> V1(menu[1], Opening(menu[1]))
    [] menu[2] = "templates" -> {<<"v1", "tpl", menu[1], k>> : k \in TemplateKinds(menu[1])}
    [] menu[2] = "subscription" -> V1(menu[1], {"cancel_autorenew"})
    [] menu = ModeSelection -> V1("mode", Modes)
    [] menu = Paywall ->
         V1("paywall", {"subscribe_consumer_plus", "subscribe_business", "invite", "enter_code"})

\* Buttons of earlier releases, still in the chats of their users.
OldButtons == {<<"legacy", "mode:consumer">>, <<"legacy", "mode:business">>, <<"legacy", "menu">>,
               <<"v0", "consumer", "ask_question">>, <<"v1", "paywall", "subscribe">>,
               <<"v1", "tpl", "consumer", "withdrawn">>, <<"v1", "tpl", "business", "withdrawn">>,
               <<"v1", "tpl", "business", "image">>, <<"v1", "consumer", "withdrawn">>}

AllButtons == (UNION {Buttons(m) : m \in Menus}) \cup OldButtons

Press(button) == [kind |-> "press", button |-> button]
Plain(kind) == [kind |-> kind, button |-> <<>>]

\* An update: the start of the bot, a text, a message without text, a button.
Inputs == {Plain("bot_started"), Plain("text"), Plain("no_text")} \cup {Press(b) : b \in AllButtons}

-----------------------------------------------------------------------------
(* Replies. *)

Plan(c) == IF c.paid = "none" THEN FreePlan(c.mode) ELSE c.paid

Reply(c, says, shows) ==
  [mode |-> c.mode, flow |-> c.flow, says |-> says, shows |-> shows, work |-> "none"]

Leaving(reply, flow) == [reply EXCEPT !.flow = flow]

Refusal(c) == Reply(c, "paywall", {Paywall})

\* Wrong version: the plan is not asked.
MutMayStart(c, ctx) == TRUE

\* Whether a context is entitled: the plan decides which are open, and the
\* usage of the user (see Generation) may close any of them.
MayStart(c, ctx) == Entitled(PoolOf(ctx), Plan(c))

\* A button that opens a flow; a refusal leaves the flow the user was in.
OpenFlow(c, flow, shows) ==
  {Refusal(c)} \cup
  IF MayStart(c, AskedIn(flow)) THEN {Leaving(Reply(c, "prompt", shows), flow)} ELSE {}

-----------------------------------------------------------------------------
(* Messages. *)

OnBotStarted(c) == {Reply(c, "welcome", {ModeSelection})}

\* A referral code, accepted or not.
OnReferralCode(c) ==
  {[Leaving(Reply(c, "code_result", {MainMenu(c.mode)}), "idle") EXCEPT !.work = w]
     : w \in {"none", "attach"}}

\* The question is answered in the transaction: with the provider's answer, or
\* with its apology and no charge.
OnQuestion(c) ==
  {[Leaving(Reply(c, "answer", {MainMenu("consumer")}), "idle") EXCEPT !.work = "question"],
   Leaving(Reply(c, "provider_failed", {}), "idle")}

\* The text of a prompt: the quota is read again, and the flow ends either way.
OnPrompt(c) ==
  {Leaving(Refusal(c), "idle")} \cup
  IF ~MayStart(c, AskedIn(c.flow)) THEN {}
  ELSE IF AskedIn(c.flow) = "question" THEN OnQuestion(c)
  ELSE {[Leaving(Reply(c, "working", {}), "idle") EXCEPT !.work = AskedIn(c.flow)]}

OnMessage(c, blank) ==
  CASE c.mode = NoMode -> {Reply(c, "choose_mode", {ModeSelection})}
    [] c.mode # NoMode /\ c.flow = "idle" ->
         {IF blank THEN Reply(c, "nothing", {}) ELSE Reply(c, "menu", {MainMenu(c.mode)})}
    [] c.mode # NoMode /\ c.flow # "idle" /\ blank -> {Reply(c, "ask_again", {})}
    [] c.mode # NoMode /\ c.flow = "shared.await_referral_code" /\ ~blank -> OnReferralCode(c)
    [] c.mode # NoMode /\ c.flow \in PromptFlows /\ ~blank -> OnPrompt(c)

-----------------------------------------------------------------------------
(* Buttons. *)

\* Wrong version: a button of an earlier release is taken as it is.
MutModeOf(button) ==
  CASE button[2] = "mode" -> button[3]
    [] button \in {<<"legacy", "mode:consumer">>, <<"legacy", "mode:business">>} -> button[2]
    [] OTHER -> NoMode

ModeOf(button) ==
  CASE button \in {<<"v1", "mode", "consumer">>, <<"legacy", "mode:consumer">>} -> "consumer"
    [] button \in {<<"v1", "mode", "business">>, <<"legacy", "mode:business">>} -> "business"
    [] OTHER -> NoMode

\* The flow the user was in is kept.
ChooseMode(c, mode) ==
  {[Reply(c, "mode_set", {MainMenu(mode), QuickStart(mode)}) EXCEPT !.mode = mode]}

\* A payment link, or none when the bank does not give one.
Checkout(c) ==
  {Reply(c, "payment_link", {SubscriptionMenu(c.mode)}), Reply(c, "no_link", {MainMenu(c.mode)})}

InviteFriend(c) == {[Reply(c, "invite", {MainMenu(c.mode)}) EXCEPT !.work = "referral_code"]}

EnterCode(c) == {Leaving(Reply(c, "code_prompt", {}), "shared.await_referral_code")}

\* _handle_paywall_callbacks
OnPaywall(c, action) ==
  CASE action \in {"subscribe", "subscribe_consumer_plus", "subscribe_business"} -> Checkout(c)
    [] action = "invite" -> InviteFriend(c)
    [] action = "enter_code" -> EnterCode(c)

TemplateFlow(mode, kind) ==
  CASE kind = "greeting" -> "consumer.await_greeting_prompt"
    [] kind = "vk" -> "business.await_vk_post_prompt"
    [] kind = "image" -> IF mode = "consumer" THEN "consumer.await_image_prompt"
                                              ELSE "business.await_image_prompt"

\* Wrong version: the template is looked up in the mode the user is in.
MutOnTemplate(c, scope, kind) ==
  IF kind = "withdrawn" THEN {Reply(c, "no_template", {})}
  ELSE OpenFlow(c, TemplateFlow(c.mode, kind), {MainMenu(c.mode)})

\* A template, in its own mode only.
OnTemplate(c, scope, kind) ==
  CASE scope # c.mode -> {Reply(c, "choose_mode", {ModeSelection})}
    [] scope = c.mode /\ kind = "withdrawn" -> {Reply(c, "no_template", {})}
    [] scope = c.mode /\ kind # "withdrawn" ->
         OpenFlow(c, TemplateFlow(scope, kind), {MainMenu(c.mode)})

ButtonFlow(mode, action) ==
  CASE action = "ask_question" -> "consumer.await_question"
    [] action = "make_greeting" -> "consumer.await_greeting_prompt"
    [] action = "create_vk_post" -> "business.await_vk_post_prompt"
    [] action = "create_image" -> IF mode = "consumer" THEN "consumer.await_image_prompt"
                                                       ELSE "business.await_image_prompt"

\* A button of the menus of the user's mode.
OnMenu(c, action) ==
  CASE action \in Opening(c.mode) -> OpenFlow(c, ButtonFlow(c.mode, action), {})
    [] action = "templates_menu" -> {Reply(c, "templates", {Templates(c.mode)})}
    [] action = "my_stars" -> {Reply(c, "stars", {MainMenu(c.mode)})}
    [] action = "invite_friend" -> InviteFriend(c)
    [] action = "subscription" -> Checkout(c)
    [] action = "cancel_autorenew" ->
         {[Reply(c, "cancelled", {MainMenu(c.mode)}) EXCEPT !.work = "cancel"]}
    [] action = "enter_referral_code" -> EnterCode(c)
    [] OTHER -> {Reply(c, "unknown", {})}

OnCallback(c, b) ==
  CASE ModeOf(b) # NoMode -> ChooseMode(c, ModeOf(b))
    [] ModeOf(b) = NoMode /\ c.mode = NoMode -> {Reply(c, "choose_mode", {ModeSelection})}
    [] ModeOf(b) = NoMode /\ c.mode # NoMode ->
         CASE b[1] # "v1" -> {Reply(c, "stale", {})}
           [] b[1] = "v1" /\ b[2] = "paywall" -> OnPaywall(c, b[3])
           [] b[1] = "v1" /\ b[2] = "tpl" -> OnTemplate(c, b[3], b[4])
           [] b[1] = "v1" /\ b[2] = c.mode -> OnMenu(c, b[3])
           [] b[1] = "v1" /\ b[2] \in Modes \ {c.mode} -> {Reply(c, "unknown", {})}

\* InteractionRouter.route
Respond(c, input) ==
  CASE input.kind = "bot_started" -> OnBotStarted(c)
    [] input.kind \in {"text", "no_text"} -> OnMessage(c, input.kind = "no_text")
    [] input.kind = "press" -> OnCallback(c, input.button)
=============================================================================
