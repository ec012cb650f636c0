---------------------- MODULE DispatchReplies_proofs ----------------------
(***************************************************************************)
(* Proofs about what Dispatch does with the replies of Conversation, for   *)
(* any number of users, of handlers at once, of updates and faults, and    *)
(* whatever the users are subscribed to: every keyboard works, a button    *)
(* left by the other mode is inert, no picture is taken on for a plan      *)
(* without it, only a crash forgets a task, MAX is answered 200 for what   *)
(* took effect, and the state has its shape.                               *)
(***************************************************************************)
EXTENDS Dispatch_proofs, FiniteSetTheorems

-----------------------------------------------------------------------------
(* Replies. *)

Conversations == [mode : Modes \cup {NoMode}, flow : Flows, paid : {"none"} \cup MonthlyPlans]

\* The keyboards that belong into a chat in a mode.
BelongsTo(menu, mode) ==
  /\ menu \in Menus
  /\ menu = ModeSelection \/ (mode \in Modes /\ (menu = Paywall \/ menu[1] = mode))

\* What is true of a reply to a conversation, whichever handler gives it.
Fits(c, r) ==
  /\ r \in Replies
  /\ r.mode = NoMode => c.mode = NoMode
  /\ c.mode = NoMode => r.flow = c.flow /\ r.work = "none"
  /\ r.says # "answer" => \A menu \in r.shows : BelongsTo(menu, r.mode)
  /\ r.work \in TaskKinds => MayStart(c, r.work)

\* And what it says.
FitsAs(c, r, says) == Fits(c, r) /\ r.says = says

LEMMA ReplyShape ==
  ASSUME NEW c \in Conversations, NEW says \in Answers, NEW shows \in SUBSET Menus
  PROVE  LET r == Reply(c, says, shows) IN
         /\ r \in Replies /\ r.mode = c.mode /\ r.flow = c.flow /\ r.says = says
         /\ r.shows = shows /\ r.work = "none"
BY DEF Conversations, Reply, Replies

LEMMA LeavingShape ==
  ASSUME NEW r \in Replies, NEW flow \in Flows
  PROVE  LET n == Leaving(r, flow) IN
         /\ n \in Replies /\ n.mode = r.mode /\ n.flow = flow /\ n.says = r.says
         /\ n.shows = r.shows /\ n.work = r.work
BY DEF Leaving, Replies

LEMMA WorkingShape ==
  ASSUME NEW r \in Replies, NEW w \in Kinds \cup {"none"}
  PROVE  LET n == [r EXCEPT !.work = w] IN
         /\ n \in Replies /\ n.mode = r.mode /\ n.flow = r.flow /\ n.says = r.says
         /\ n.shows = r.shows /\ n.work = w
<1> DEFINE K == Kinds \cup {"none"}
<1> HIDE DEF K
<1>1. Replies = [mode : Modes \cup {NoMode}, flow : Flows, says : Answers,
                 shows : SUBSET Menus, work : K]
  BY DEF Replies, K
<1>2. w \in K
  BY DEF K
<1>3. QED
  BY <1>1, <1>2

LEMMA ChangingShape ==
  ASSUME NEW r \in Replies, NEW m \in Modes
  PROVE  LET n == [r EXCEPT !.mode = m] IN
         /\ n \in Replies /\ n.mode = m /\ n.flow = r.flow /\ n.says = r.says
         /\ n.shows = r.shows /\ n.work = r.work
BY DEF Replies

LEMMA MenuShapes ==
  /\ ModeSelection \in Menus /\ Paywall \in Menus
  /\ \A m \in Modes :
       /\ {MainMenu(m), QuickStart(m), Templates(m), SubscriptionMenu(m)} \subseteq Menus
       /\ MainMenu(m)[1] = m /\ QuickStart(m)[1] = m /\ Templates(m)[1] = m
       /\ SubscriptionMenu(m)[1] = m
BY DEF Menus, ModeSelection, Paywall, MainMenu, QuickStart, Templates, SubscriptionMenu

LEMMA PlainFits ==
  ASSUME NEW c \in Conversations, NEW says \in Answers, NEW shows,
         \A menu \in shows : BelongsTo(menu, c.mode)
  PROVE  FitsAs(c, Reply(c, says, shows), says)
<1>1. shows \in SUBSET Menus
  BY DEF BelongsTo
<1>2. "none" \notin TaskKinds
  BY DEF TaskKinds, Contexts
<1>3. QED
  BY <1>1, <1>2, ReplyShape DEF Fits, FitsAs

\* A mode is chosen before anything but a keyboard is.
LEMMA ChosenMode ==
  ASSUME NEW c \in Conversations
  PROVE  (c.mode # NoMode <=> c.mode \in Modes) /\ c.mode \in Modes \cup {NoMode}
BY DEF Conversations, Modes, NoMode

LEMMA MovedFits ==
  ASSUME NEW c \in Conversations, c.mode \in Modes, NEW r, Fits(c, r), NEW flow \in Flows
  PROVE  FitsAs(c, Leaving(r, flow), r.says) /\ Leaving(r, flow).work = r.work
<1>1. r \in Replies
  BY DEF Fits, FitsAs
<1>2. c.mode # NoMode
  BY ChosenMode
<1>3. QED
  BY <1>1, <1>2, LeavingShape DEF Fits, FitsAs

LEMMA WorkFits ==
  ASSUME NEW c \in Conversations, c.mode \in Modes, NEW r, Fits(c, r),
         NEW w \in Kinds \cup {"none"}, w \in TaskKinds => MayStart(c, w)
  PROVE  FitsAs(c, [r EXCEPT !.work = w], r.says)
<1>1. r \in Replies
  BY DEF Fits, FitsAs
<1>2. c.mode # NoMode
  BY ChosenMode
<1>3. QED
  BY <1>1, <1>2, WorkingShape DEF Fits, FitsAs

\* The keyboards of the mode a user is in.
LEMMA MenusBelong ==
  /\ \A m : BelongsTo(ModeSelection, m)
  /\ \A m \in Modes : /\ BelongsTo(Paywall, m) /\ BelongsTo(MainMenu(m), m)
                      /\ BelongsTo(QuickStart(m), m) /\ BelongsTo(Templates(m), m)
                      /\ BelongsTo(SubscriptionMenu(m), m)
BY MenuShapes DEF BelongsTo

\* An answer that moves nothing and shows one keyboard, or none.
LEMMA OneMenuFits ==
  ASSUME NEW c \in Conversations, NEW says \in Answers
  PROVE  /\ FitsAs(c, Reply(c, says, {}), says)
         /\ FitsAs(c, Reply(c, says, {ModeSelection}), says)
         /\ c.mode \in Modes =>
              /\ FitsAs(c, Reply(c, says, {MainMenu(c.mode)}), says)
              /\ FitsAs(c, Reply(c, says, {Templates(c.mode)}), says)
              /\ FitsAs(c, Reply(c, says, {SubscriptionMenu(c.mode)}), says)
              /\ FitsAs(c, Reply(c, says, {Paywall}), says)
<1>1. FitsAs(c, Reply(c, says, {}), says)
  <2>1. \A menu \in {} : BelongsTo(menu, c.mode)
    OBVIOUS
  <2>2. QED
    BY <2>1, PlainFits
<1>2. ASSUME NEW menu, BelongsTo(menu, c.mode)
      PROVE  FitsAs(c, Reply(c, says, {menu}), says)
  <2>1. \A other \in {menu} : BelongsTo(other, c.mode)
    BY <1>2
  <2>2. QED
    BY <2>1, PlainFits
<1>3. QED
  BY <1>1, <1>2, MenusBelong

LEMMA RefusalFits ==
  ASSUME NEW c \in Conversations, c.mode \in Modes
  PROVE  FitsAs(c, Refusal(c), "paywall")
<1>1. FitsAs(c, Reply(c, "paywall", {Paywall}), "paywall")
  BY OneMenuFits DEF Answers
<1>2. QED
  BY <1>1 DEF Refusal

-----------------------------------------------------------------------------
(* Every handler gives replies that fit; Leads: and none is a dead end. *)

AllFit(c, S) == \A r \in S : Fits(c, r)
Leads(c, S) == \A r \in S : Fits(c, r) /\ r.says \notin DeadEnds

LEMMA LeadingFits == ASSUME NEW c, NEW S, Leads(c, S) PROVE AllFit(c, S)
BY DEF Leads, AllFit

LEMMA AskedContexts ==
  /\ \A flow \in PromptFlows : AskedIn(flow) \in Contexts
  /\ Contexts \subseteq Kinds /\ TaskKinds \subseteq Contexts
  /\ PromptFlows \subseteq Flows /\ "idle" \in Flows /\ "shared.await_referral_code" \in Flows
  /\ "none" \notin TaskKinds
BY DEF PromptFlows, ConsumerFlows, BusinessFlows, AskedIn, Contexts, Kinds, TaskKinds, Flows

LEMMA OpenFlowLeads ==
  ASSUME NEW c \in Conversations, c.mode \in Modes, NEW flow \in Flows, NEW shows,
         \A menu \in shows : BelongsTo(menu, c.mode)
  PROVE  Leads(c, OpenFlow(c, flow, shows))
<1> DEFINE p == Reply(c, "prompt", shows)
<1>1. FitsAs(c, p, "prompt")
  BY PlainFits DEF Answers
<1>2. FitsAs(c, Leaving(p, flow), p.says)
  <2> HIDE DEF p
  <2>1. QED
    BY <1>1, MovedFits DEF FitsAs
<1>3. \A r \in OpenFlow(c, flow, shows) : r = Refusal(c) \/ r = Leaving(p, flow)
  BY DEF OpenFlow
<1>4. FitsAs(c, Refusal(c), "paywall")
  BY RefusalFits
<1>5. "paywall" \notin DeadEnds /\ "prompt" \notin DeadEnds
  BY DEF DeadEnds
<1>6. QED
  <2> HIDE DEF p
  <2>1. QED
    BY <1>1, <1>2, <1>3, <1>4, <1>5 DEF FitsAs, Leads

LEMMA InviteFriendLeads ==
  ASSUME NEW c \in Conversations, c.mode \in Modes
  PROVE  Leads(c, InviteFriend(c))
<1> DEFINE p == Reply(c, "invite", {MainMenu(c.mode)})
<1>1. FitsAs(c, p, "invite")
  BY OneMenuFits DEF Answers
<1>2. "referral_code" \in Kinds \cup {"none"} /\ "referral_code" \notin TaskKinds
  BY DEF Kinds, TaskKinds, Contexts
<1>3. FitsAs(c, [p EXCEPT !.work = "referral_code"], p.says)
  <2> HIDE DEF p
  <2>1. QED
    BY <1>1, <1>2, WorkFits DEF FitsAs
<1>4. "invite" \notin DeadEnds
  BY DEF DeadEnds
<1>5. InviteFriend(c) = {[p EXCEPT !.work = "referral_code"]}
  BY DEF InviteFriend
<1>6. QED
  <2> HIDE DEF p
  <2>1. QED
    BY <1>1, <1>3, <1>4, <1>5 DEF FitsAs, Leads

LEMMA EnterCodeLeads ==
  ASSUME NEW c \in Conversations, c.mode \in Modes
  PROVE  Leads(c, EnterCode(c))
<1> DEFINE p == Reply(c, "code_prompt", {})
<1>1. FitsAs(c, p, "code_prompt")
  BY OneMenuFits DEF Answers
<1>2. FitsAs(c, Leaving(p, "shared.await_referral_code"), p.says)
  <2> HIDE DEF p
  <2>1. QED
    BY <1>1, AskedContexts, MovedFits DEF FitsAs
<1>3. "code_prompt" \notin DeadEnds
  BY DEF DeadEnds
<1>4. QED
  <2> HIDE DEF p
  <2>1. QED
    BY <1>1, <1>2, <1>3 DEF FitsAs, Leads, EnterCode, p

LEMMA CheckoutLeads ==
  ASSUME NEW c \in Conversations, c.mode \in Modes
  PROVE  Leads(c, Checkout(c))
<1>1. /\ FitsAs(c, Reply(c, "payment_link", {SubscriptionMenu(c.mode)}), "payment_link")
      /\ FitsAs(c, Reply(c, "no_link", {MainMenu(c.mode)}), "no_link")
  BY OneMenuFits DEF Answers
<1>2. "payment_link" \notin DeadEnds /\ "no_link" \notin DeadEnds
  BY DEF DeadEnds
<1>3. QED
  BY <1>1, <1>2 DEF FitsAs, Leads, Checkout

LEMMA ChooseModeLeads ==
  ASSUME NEW c \in Conversations, NEW mode \in Modes
  PROVE  Leads(c, ChooseMode(c, mode))
<1> DEFINE p == Reply(c, "mode_set", {MainMenu(mode), QuickStart(mode)})
           n == [p EXCEPT !.mode = mode]
<1>1. {MainMenu(mode), QuickStart(mode)} \in SUBSET Menus
  BY MenuShapes
<1>2. "mode_set" \in Answers /\ "mode_set" \notin DeadEnds
  BY DEF Answers, DeadEnds
<1>3. /\ p \in Replies /\ p.mode = c.mode /\ p.flow = c.flow /\ p.says = "mode_set"
      /\ p.shows = {MainMenu(mode), QuickStart(mode)} /\ p.work = "none"
  BY <1>1, <1>2, ReplyShape
<1>4. /\ n \in Replies /\ n.mode = mode /\ n.flow = c.flow /\ n.says = "mode_set"
      /\ n.shows = {MainMenu(mode), QuickStart(mode)} /\ n.work = "none"
  <2> HIDE DEF p
  <2>1. QED
    BY <1>3, ChangingShape
<1>5. mode # NoMode
  BY DEF Modes, NoMode
<1>6. \A menu \in {MainMenu(mode), QuickStart(mode)} : BelongsTo(menu, mode)
  BY MenusBelong
<1>7. ChooseMode(c, mode) = {n}
  BY DEF ChooseMode
<1>8. QED
  <2> HIDE DEF n
  <2>1. QED
    BY <1>2, <1>4, <1>5, <1>6, <1>7, AskedContexts DEF Leads, Fits

PaywallActions == {"subscribe", "subscribe_consumer_plus", "subscribe_business", "invite", "enter_code"}

LEMMA OnPaywallLeads ==
  ASSUME NEW c \in Conversations, c.mode \in Modes, NEW action \in PaywallActions
  PROVE  Leads(c, OnPaywall(c, action))
<1>1. OnPaywall(c, action) \in {Checkout(c), InviteFriend(c), EnterCode(c)}
  BY DEF PaywallActions, OnPaywall
<1>2. QED
  BY <1>1, CheckoutLeads, InviteFriendLeads, EnterCodeLeads

LEMMA TemplateFlows ==
  /\ \A mode : \A kind \in {"greeting", "image", "vk"} : TemplateFlow(mode, kind) \in Flows
  /\ \A mode \in Modes : \A action \in Opening(mode) : ButtonFlow(mode, action) \in Flows
BY DEF TemplateFlow, ButtonFlow, Opening, Modes, Flows, PromptFlows, ConsumerFlows, BusinessFlows

LEMMA OnTemplateFits ==
  ASSUME NEW c \in Conversations, c.mode \in Modes, NEW scope,
         NEW kind \in {"greeting", "image", "vk", "withdrawn"}
  PROVE  /\ AllFit(c, OnTemplate(c, scope, kind))
         /\ scope = c.mode /\ kind # "withdrawn" => Leads(c, OnTemplate(c, scope, kind))
<1>1. CASE scope # c.mode
  <2>1. OnTemplate(c, scope, kind) = {Reply(c, "choose_mode", {ModeSelection})}
    BY <1>1 DEF OnTemplate
  <2>2. FitsAs(c, Reply(c, "choose_mode", {ModeSelection}), "choose_mode")
    BY OneMenuFits DEF Answers
  <2>3. QED
    BY <1>1, <2>1, <2>2 DEF FitsAs, AllFit
<1>2. CASE scope = c.mode /\ kind = "withdrawn"
  <2>1. OnTemplate(c, scope, kind) = {Reply(c, "no_template", {})}
    BY <1>2 DEF OnTemplate
  <2>2. FitsAs(c, Reply(c, "no_template", {}), "no_template")
    BY OneMenuFits DEF Answers
  <2>3. QED
    BY <1>2, <2>1, <2>2 DEF FitsAs, AllFit
<1>3. CASE scope = c.mode /\ kind # "withdrawn"
  <2>1. OnTemplate(c, scope, kind) = OpenFlow(c, TemplateFlow(scope, kind), {MainMenu(c.mode)})
    BY <1>3 DEF OnTemplate
  <2>2. TemplateFlow(scope, kind) \in Flows
    BY <1>3, TemplateFlows
  <2>3. \A menu \in {MainMenu(c.mode)} : BelongsTo(menu, c.mode)
    BY MenusBelong
  <2>4. Leads(c, OnTemplate(c, scope, kind))
    BY <2>1, <2>2, <2>3, OpenFlowLeads
  <2>5. QED
    BY <2>4, LeadingFits
<1>4. QED
  BY <1>1, <1>2, <1>3

MenuActions == {"templates_menu", "my_stars", "invite_friend", "subscription", "cancel_autorenew",
                "enter_referral_code"}

LEMMA OnMenuFits ==
  ASSUME NEW c \in Conversations, c.mode \in Modes, NEW action
  PROVE  /\ AllFit(c, OnMenu(c, action))
         /\ action \in Opening(c.mode) \cup MenuActions => Leads(c, OnMenu(c, action))
<1>1. CASE action \in Opening(c.mode)
  <2>1. OnMenu(c, action) = OpenFlow(c, ButtonFlow(c.mode, action), {})
    BY <1>1 DEF OnMenu, Opening
  <2>2. ButtonFlow(c.mode, action) \in Flows /\ \A menu \in {} : BelongsTo(menu, c.mode)
    BY <1>1, TemplateFlows
  <2>3. Leads(c, OnMenu(c, action))
    BY <2>1, <2>2, OpenFlowLeads
  <2>4. QED
    BY <2>3, LeadingFits
<1>2. CASE action \in {"templates_menu", "my_stars"}
  <2>1. action \notin Opening(c.mode)
    BY <1>2 DEF Opening
  <2>2. OnMenu(c, action) \in {{Reply(c, "templates", {Templates(c.mode)})},
                               {Reply(c, "stars", {MainMenu(c.mode)})}}
    BY <1>2, <2>1 DEF OnMenu
  <2>3. /\ FitsAs(c, Reply(c, "templates", {Templates(c.mode)}), "templates")
        /\ FitsAs(c, Reply(c, "stars", {MainMenu(c.mode)}), "stars")
    BY OneMenuFits DEF Answers
  <2>4. "templates" \notin DeadEnds /\ "stars" \notin DeadEnds
    BY DEF DeadEnds
  <2>5. QED
    BY <2>2, <2>3, <2>4 DEF FitsAs, Leads, AllFit
<1>3. CASE action \in {"invite_friend", "subscription", "enter_referral_code"}
  <2>1. action \notin Opening(c.mode)
    BY <1>3 DEF Opening
  <2>2. OnMenu(c, action) \in {InviteFriend(c), Checkout(c), EnterCode(c)}
    BY <1>3, <2>1 DEF OnMenu
  <2>3. Leads(c, OnMenu(c, action))
    BY <2>2, CheckoutLeads, InviteFriendLeads, EnterCodeLeads
  <2>4. QED
    BY <2>3, LeadingFits
<1>4. CASE action = "cancel_autorenew"
  <2> DEFINE p == Reply(c, "cancelled", {MainMenu(c.mode)})
  <2>1. action \notin Opening(c.mode)
    BY <1>4 DEF Opening
  <2>2. OnMenu(c, action) = {[p EXCEPT !.work = "cancel"]}
    BY <1>4, <2>1 DEF OnMenu
  <2>3. FitsAs(c, p, "cancelled")
    BY OneMenuFits DEF Answers
  <2>4. "cancel" \in Kinds \cup {"none"} /\ "cancel" \notin TaskKinds /\ "cancelled" \notin DeadEnds
    BY DEF Kinds, TaskKinds, Contexts, DeadEnds
  <2> HIDE DEF p
  <2>5. FitsAs(c, [p EXCEPT !.work = "cancel"], p.says)
    BY <2>3, <2>4, WorkFits DEF FitsAs
  <2>6. QED
    BY <2>2, <2>3, <2>4, <2>5 DEF FitsAs, Leads, AllFit
<1>5. CASE action \notin Opening(c.mode) \cup MenuActions
  <2>1. OnMenu(c, action) = {Reply(c, "unknown", {})}
    BY <1>5 DEF OnMenu, MenuActions
  <2>2. FitsAs(c, Reply(c, "unknown", {}), "unknown")
    BY OneMenuFits DEF Answers
  <2>3. QED
    BY <1>5, <2>1, <2>2 DEF FitsAs, AllFit
<1>6. QED
  BY <1>1, <1>2, <1>3, <1>4, <1>5 DEF MenuActions

-----------------------------------------------------------------------------
(* Buttons. *)

LEMMA ModeButtons ==
  /\ \A m \in Modes : ModeOf(<<"v1", "mode", m>>) = m
  /\ \A b : ModeOf(b) \in Modes \cup {NoMode}
  /\ \A b : ModeOf(b) # NoMode => b[2] \in {"mode", "mode:consumer", "mode:business"}
  /\ \A m \in Modes : m # NoMode
BY DEF ModeOf, Modes, NoMode

TemplateSlugs == {"greeting", "image", "vk", "withdrawn"}

\* The buttons by what the router makes of them.
Routed(b) ==
  \/ ModeOf(b) \in Modes
  \/ b[1] # "v1"
  \/ b[1] = "v1" /\ b[2] = "paywall" /\ b[3] \in PaywallActions
  \/ b[1] = "v1" /\ b[2] = "tpl" /\ b[4] \in TemplateSlugs
  \/ b[1] = "v1" /\ b[2] \in Modes

\* The buttons of each keyboard.
LEMMA ButtonSets ==
  ASSUME NEW menu \in Menus
  PROVE  /\ menu[2] = "main" =>
              Buttons(menu) = V1(menu[1], Opening(menu[1]) \cup {"templates_menu", "my_stars",
                                            "invite_friend", "subscription", "enter_referral_code"})
         /\ menu[2] = "quick_start" => Buttons(menu) = V1(menu[1], Opening(menu[1]))
         /\ menu[2] = "templates" =>
              Buttons(menu) = {<<"v1", "tpl", menu[1], k>> : k \in TemplateKinds(menu[1])}
         /\ menu[2] = "subscription" => Buttons(menu) = V1(menu[1], {"cancel_autorenew"})
         /\ menu = ModeSelection => Buttons(menu) = V1("mode", Modes)
         /\ menu = Paywall =>
              Buttons(menu) = V1("paywall", {"subscribe_consumer_plus", "subscribe_business",
                                             "invite", "enter_code"})
<1>1. CASE menu[2] = "main"
  BY <1>1 DEF Buttons, ModeSelection, Paywall
<1>2. CASE menu[2] = "quick_start"
  BY <1>2 DEF Buttons, ModeSelection, Paywall
<1>3. CASE menu[2] = "templates"
  BY <1>3 DEF Buttons, ModeSelection, Paywall
<1>4. CASE menu[2] = "subscription"
  BY <1>4 DEF Buttons, ModeSelection, Paywall
<1>5. menu = ModeSelection => Buttons(menu) = V1("mode", Modes)
  <2> SUFFICES ASSUME menu = ModeSelection PROVE Buttons(menu) = V1("mode", Modes)
    OBVIOUS
  <2>1. menu[2] = "mode_selection" /\ menu # Paywall
    BY DEF ModeSelection, Paywall
  <2>2. QED
    BY <2>1 DEF Buttons
<1>6. menu = Paywall =>
        Buttons(menu) = V1("paywall", {"subscribe_consumer_plus", "subscribe_business",
                                       "invite", "enter_code"})
  <2> SUFFICES ASSUME menu = Paywall
               PROVE  Buttons(menu) = V1("paywall", {"subscribe_consumer_plus", "subscribe_business",
                                                     "invite", "enter_code"})
    OBVIOUS
  <2>1. menu[2] = "paywall" /\ menu # ModeSelection
    BY DEF ModeSelection, Paywall
  <2>2. QED
    BY <2>1 DEF Buttons
<1>7. QED
  BY <1>1, <1>2, <1>3, <1>4, <1>5, <1>6

LEMMA KeyboardButtons ==
  ASSUME NEW menu \in Menus, NEW b \in Buttons(menu)
  PROVE  \/ menu = ModeSelection /\ \E m \in Modes : b = <<"v1", "mode", m>>
         \/ menu = Paywall /\ \E a \in PaywallActions : b = <<"v1", "paywall", a>>
         \/ /\ menu[1] \in Modes
            /\ \/ \E k \in {"greeting", "image", "vk"} : b = <<"v1", "tpl", menu[1], k>>
               \/ \E a \in Opening(menu[1]) \cup MenuActions : b = <<"v1", menu[1], a>>
<1>1. CASE menu = ModeSelection
  <2>1. menu[2] = "mode_selection"
    BY <1>1 DEF ModeSelection
  <2>2. Buttons(menu) = V1("mode", Modes)
    BY <1>1, <2>1, ButtonSets
  <2>3. QED
    BY <1>1, <2>2 DEF V1
<1>2. CASE menu = Paywall
  <2>1. menu[2] = "paywall" /\ menu # ModeSelection
    BY <1>2 DEF Paywall, ModeSelection
  <2>2. Buttons(menu) = V1("paywall", {"subscribe_consumer_plus", "subscribe_business", "invite", "enter_code"})
    BY <1>2, <2>1, ButtonSets
  <2>3. QED
    BY <1>2, <2>2 DEF V1, PaywallActions
<1>3. CASE menu \in Modes \X {"main", "quick_start", "templates", "subscription"}
  <2>1. menu[1] \in Modes /\ menu[2] \in {"main", "quick_start", "templates", "subscription"}
    BY <1>3
  <2>2. CASE menu[2] = "main"
    <3>1. Buttons(menu) = V1(menu[1], Opening(menu[1]) \cup {"templates_menu", "my_stars",
                            "invite_friend", "subscription", "enter_referral_code"})
      BY <2>2, ButtonSets
    <3>2. QED
      BY <2>1, <3>1 DEF V1, MenuActions
  <2>3. CASE menu[2] = "quick_start"
    <3>1. Buttons(menu) = V1(menu[1], Opening(menu[1]))
      BY <2>3, ButtonSets
    <3>2. QED
      BY <2>1, <3>1 DEF V1
  <2>4. CASE menu[2] = "templates"
    <3>1. Buttons(menu) = {<<"v1", "tpl", menu[1], k>> : k \in TemplateKinds(menu[1])}
      BY <2>4, ButtonSets
    <3>2. TemplateKinds(menu[1]) \subseteq {"greeting", "image", "vk"}
      BY DEF TemplateKinds
    <3>3. QED
      BY <2>1, <3>1, <3>2
  <2>5. CASE menu[2] = "subscription"
    <3>1. Buttons(menu) = V1(menu[1], {"cancel_autorenew"})
      BY <2>5, ButtonSets
    <3>2. QED
      BY <2>1, <3>1 DEF V1, MenuActions
  <2>6. QED
    BY <2>1, <2>2, <2>3, <2>4, <2>5
<1>4. QED
  BY <1>1, <1>2, <1>3 DEF Menus

LEMMA EveryButtonRouted ==
  ASSUME NEW b \in AllButtons
  PROVE  Routed(b)
<1>1. ASSUME NEW menu \in Menus, b \in Buttons(menu) PROVE Routed(b)
  <2>1. \/ \E m \in Modes : b = <<"v1", "mode", m>>
        \/ \E a \in PaywallActions : b = <<"v1", "paywall", a>>
        \/ \E m \in Modes, k \in {"greeting", "image", "vk"} : b = <<"v1", "tpl", m, k>>
        \/ \E m \in Modes : \E a \in Opening(m) \cup MenuActions : b = <<"v1", m, a>>
    BY <1>1, KeyboardButtons
  <2>2. QED
    BY <2>1, ModeButtons DEF Routed, TemplateSlugs
<1>2. CASE b \in OldButtons
  BY <1>2 DEF OldButtons, Routed, TemplateSlugs, PaywallActions, Modes
<1>3. QED
  <2>1. b \in OldButtons \/ \E menu \in Menus : b \in Buttons(menu)
    <3>1. b \in (UNION {Buttons(menu) : menu \in Menus}) \cup OldButtons
      BY DEF AllButtons
    <3>2. (\E S \in {Buttons(menu) : menu \in Menus} : b \in S) \/ b \in OldButtons
      BY <3>1
    <3>3. QED
      BY <3>2
  <2>2. QED
    BY <1>1, <1>2, <2>1

LEMMA OnCallbackFits ==
  ASSUME NEW c \in Conversations, NEW b, Routed(b)
  PROVE  AllFit(c, OnCallback(c, b))
<1>1. CASE ModeOf(b) # NoMode
  <2>1. OnCallback(c, b) = ChooseMode(c, ModeOf(b)) /\ ModeOf(b) \in Modes
    BY <1>1, ModeButtons DEF OnCallback
  <2>2. QED
    BY <2>1, ChooseModeLeads, LeadingFits
<1>2. CASE ModeOf(b) = NoMode /\ c.mode = NoMode
  <2>1. OnCallback(c, b) = {Reply(c, "choose_mode", {ModeSelection})}
    BY <1>2 DEF OnCallback
  <2>2. FitsAs(c, Reply(c, "choose_mode", {ModeSelection}), "choose_mode")
    BY OneMenuFits DEF Answers
  <2>3. QED
    BY <2>1, <2>2 DEF FitsAs, AllFit
<1>3. CASE ModeOf(b) = NoMode /\ c.mode # NoMode
  <2> DEFINE routed == CASE b[1] # "v1" -> {Reply(c, "stale", {})}
                         [] b[1] = "v1" /\ b[2] = "paywall" -> OnPaywall(c, b[3])
                         [] b[1] = "v1" /\ b[2] = "tpl" -> OnTemplate(c, b[3], b[4])
                         [] b[1] = "v1" /\ b[2] = c.mode -> OnMenu(c, b[3])
                         [] b[1] = "v1" /\ b[2] \in Modes \ {c.mode} -> {Reply(c, "unknown", {})}
  <2>1. OnCallback(c, b) = routed
    BY <1>3 DEF OnCallback
  <2>2. c.mode \in Modes /\ "paywall" \notin Modes /\ "tpl" \notin Modes
    BY <1>3, ChosenMode DEF Modes
  <2>3. CASE b[1] # "v1"
    <3>1. routed = {Reply(c, "stale", {})}
      BY <2>3
    <3>2. FitsAs(c, Reply(c, "stale", {}), "stale")
      BY OneMenuFits DEF Answers
    <3>3. QED
      BY <2>1, <3>1, <3>2 DEF FitsAs, AllFit
  <2>4. CASE b[1] = "v1" /\ b[2] = "paywall"
    <3>1. routed = OnPaywall(c, b[3])
      BY <2>2, <2>4
    <3>2. b[3] \in PaywallActions
      BY <1>3, <2>2, <2>4, ModeButtons DEF Routed
    <3>3. QED
      BY <2>1, <2>2, <3>1, <3>2, OnPaywallLeads, LeadingFits
  <2>5. CASE b[1] = "v1" /\ b[2] = "tpl"
    <3>1. routed = OnTemplate(c, b[3], b[4])
      BY <2>2, <2>5
    <3>2. b[4] \in TemplateSlugs
      BY <1>3, <2>2, <2>5, ModeButtons DEF Routed
    <3>3. QED
      BY <2>1, <2>2, <3>1, <3>2, OnTemplateFits DEF TemplateSlugs
  <2>6. CASE b[1] = "v1" /\ b[2] = c.mode
    <3>1. routed = OnMenu(c, b[3])
      BY <2>2, <2>6
    <3>2. QED
      BY <2>1, <2>2, <3>1, OnMenuFits
  <2>7. CASE b[1] = "v1" /\ b[2] \in Modes \ {c.mode}
    <3>1. routed = {Reply(c, "unknown", {})}
      BY <2>2, <2>7
    <3>2. FitsAs(c, Reply(c, "unknown", {}), "unknown")
      BY OneMenuFits DEF Answers
    <3>3. QED
      BY <2>1, <3>1, <3>2 DEF FitsAs, AllFit
  <2>8. QED
    BY <1>3, <2>2, <2>3, <2>4, <2>5, <2>6, <2>7, ModeButtons DEF Routed
<1>4. QED
  BY <1>1, <1>2, <1>3

\* Every button of a keyboard that belongs into a chat leads somewhere.
LEMMA KeyboardWorks ==
  ASSUME NEW c \in Conversations, NEW menu, BelongsTo(menu, c.mode), NEW b \in Buttons(menu)
  PROVE  Works(c, b)
<1>1. menu \in Menus /\ (menu = ModeSelection \/ (c.mode \in Modes /\ (menu = Paywall \/ menu[1] = c.mode)))
  BY DEF BelongsTo
<1>2. ASSUME NEW m \in Modes, b = <<"v1", "mode", m>> PROVE Leads(c, OnCallback(c, b))
  <2>1. ModeOf(b) = m /\ m # NoMode
    BY <1>2, ModeButtons
  <2>2. OnCallback(c, b) = ChooseMode(c, m)
    BY <2>1 DEF OnCallback
  <2>3. QED
    BY <2>2, ChooseModeLeads
<1>3. ASSUME c.mode \in Modes, NEW a \in PaywallActions, b = <<"v1", "paywall", a>>
      PROVE  Leads(c, OnCallback(c, b))
  <2>1. b[1] = "v1" /\ b[2] = "paywall" /\ b[3] = a
    BY <1>3
  <2>2. ModeOf(b) = NoMode /\ c.mode # NoMode /\ "paywall" \notin Modes
    BY <1>3, <2>1, ModeButtons DEF Modes
  <2>3. OnCallback(c, b) = OnPaywall(c, a)
    BY <1>3, <2>1, <2>2 DEF OnCallback
  <2>4. QED
    BY <1>3, <2>3, OnPaywallLeads
<1>4. ASSUME c.mode \in Modes, NEW k \in {"greeting", "image", "vk"}, b = <<"v1", "tpl", c.mode, k>>
      PROVE  Leads(c, OnCallback(c, b))
  <2>1. b[1] = "v1" /\ b[2] = "tpl" /\ b[3] = c.mode /\ b[4] = k
    BY <1>4
  <2>2. ModeOf(b) = NoMode /\ c.mode # NoMode /\ "tpl" \notin Modes
    BY <1>4, <2>1, ModeButtons DEF Modes
  <2>3. OnCallback(c, b) = OnTemplate(c, c.mode, k)
    BY <1>4, <2>1, <2>2 DEF OnCallback
  <2>4. k # "withdrawn"
    OBVIOUS
  <2>5. QED
    BY <1>4, <2>3, <2>4, OnTemplateFits
<1>5. ASSUME c.mode \in Modes, NEW a \in Opening(c.mode) \cup MenuActions, b = <<"v1", c.mode, a>>
      PROVE  Leads(c, OnCallback(c, b))
  <2>1. b[1] = "v1" /\ b[2] = c.mode /\ b[3] = a
    BY <1>5
  <2>2. c.mode \notin {"mode", "mode:consumer", "mode:business", "paywall", "tpl"}
    BY <1>5 DEF Modes
  <2>3. ModeOf(b) = NoMode /\ c.mode # NoMode
    BY <1>5, <2>1, <2>2, ModeButtons
  <2>4. OnCallback(c, b) = OnMenu(c, a)
    BY <1>5, <2>1, <2>2, <2>3 DEF OnCallback
  <2>5. QED
    BY <1>5, <2>4, OnMenuFits
<1>6. Leads(c, OnCallback(c, b))
  <2>1. CASE menu = ModeSelection /\ \E m \in Modes : b = <<"v1", "mode", m>>
    BY <1>2, <2>1
  <2>2. CASE menu = Paywall /\ \E a \in PaywallActions : b = <<"v1", "paywall", a>>
    <3>1. menu # ModeSelection
      BY <2>2 DEF ModeSelection, Paywall
    <3>2. QED
      BY <1>1, <1>3, <2>2, <3>1
  <2>3. CASE /\ menu[1] \in Modes
             /\ \/ \E k \in {"greeting", "image", "vk"} : b = <<"v1", "tpl", menu[1], k>>
                \/ \E a \in Opening(menu[1]) \cup MenuActions : b = <<"v1", menu[1], a>>
    <3>1. ModeSelection[1] = "any" /\ Paywall[1] = "any" /\ "any" \notin Modes
      BY DEF ModeSelection, Paywall, Modes
    <3>2. menu[1] = c.mode /\ c.mode \in Modes
      BY <1>1, <2>3, <3>1
    <3>3. \/ \E k \in {"greeting", "image", "vk"} : b = <<"v1", "tpl", c.mode, k>>
          \/ \E a \in Opening(c.mode) \cup MenuActions : b = <<"v1", c.mode, a>>
      BY <2>3, <3>2
    <3>4. QED
      BY <1>4, <1>5, <3>2, <3>3
  <2>4. QED
    BY <1>1, <2>1, <2>2, <2>3, KeyboardButtons
<1>7. QED
  BY <1>6 DEF Leads, Works

\* A button of the other mode gets an answer that moves nothing.
LEMMA ForeignButton ==
  ASSUME NEW c \in Conversations, c.mode \in Modes,
         NEW b, MadeFor(b) \in Modes \ {c.mode}, NEW r \in OnCallback(c, b)
  PROVE  r.flow = c.flow /\ r.mode = c.mode /\ r.work = "none"
<1>1. \A says, shows : LET p == Reply(c, says, shows) IN
                       p.flow = c.flow /\ p.mode = c.mode /\ p.work = "none"
  BY DEF Reply
<1>2. \/ b[2] \in Modes /\ b[2] # c.mode
      \/ b[2] = "tpl" /\ b[3] # c.mode
  BY DEF MadeFor, Modes
<1>3. ModeOf(b) = NoMode /\ c.mode # NoMode /\ b[2] # "paywall" /\ "tpl" \notin Modes
  BY <1>2, ModeButtons DEF Modes
<1>4. OnCallback(c, b) \in {{Reply(c, "stale", {})}, {Reply(c, "unknown", {})},
                            {Reply(c, "choose_mode", {ModeSelection})}}
  <2>1. CASE b[1] # "v1"
    BY <1>3, <2>1 DEF OnCallback
  <2>2. CASE b[1] = "v1" /\ b[2] \in Modes /\ b[2] # c.mode
    BY <1>3, <2>2 DEF OnCallback
  <2>3. CASE b[1] = "v1" /\ b[2] = "tpl" /\ b[3] # c.mode
    <3>1. OnCallback(c, b) = OnTemplate(c, b[3], b[4])
      BY <1>3, <2>3 DEF OnCallback
    <3>2. QED
      BY <2>3, <3>1 DEF OnTemplate
  <2>4. QED
    BY <1>2, <2>1, <2>2, <2>3
<1>5. QED
  BY <1>1, <1>4

-----------------------------------------------------------------------------
(* Messages. *)

\* The answer to a question, with the consumer's menu whatever the mode.
LEMMA AnswerFits ==
  ASSUME NEW c \in Conversations, c.mode \in Modes, NEW r \in OnQuestion(c)
  PROVE  Fits(c, r)
<1> DEFINE p == Reply(c, "answer", {MainMenu("consumer")})
           l == Leaving(p, "idle")
           n == [l EXCEPT !.work = "question"]
           f == Reply(c, "provider_failed", {})
<1>1. {MainMenu("consumer")} \in SUBSET Menus /\ "answer" \in Answers
  BY MenuShapes DEF Modes, Answers
<1>2. /\ p \in Replies /\ p.mode = c.mode /\ p.flow = c.flow /\ p.says = "answer"
      /\ p.shows = {MainMenu("consumer")} /\ p.work = "none"
  BY <1>1, ReplyShape
<1>3. l \in Replies /\ l.mode = c.mode /\ l.says = "answer"
  <2> HIDE DEF p
  <2>1. QED
    BY <1>2, AskedContexts, LeavingShape
<1>4. "question" \in Kinds \cup {"none"} /\ "question" \notin TaskKinds
  BY DEF Kinds, TaskKinds, Contexts
<1>5. n \in Replies /\ n.mode = c.mode /\ n.says = "answer" /\ n.work = "question"
  <2> HIDE DEF l
  <2>1. QED
    BY <1>3, <1>4, WorkingShape
<1>6. c.mode # NoMode
  BY ChosenMode
<1>7. Fits(c, n)
  <2> HIDE DEF n
  <2>1. QED
    BY <1>4, <1>5, <1>6 DEF Fits
<1>8. FitsAs(c, f, "provider_failed")
  BY OneMenuFits DEF Answers
<1>9. Fits(c, Leaving(f, "idle"))
  <2> HIDE DEF f
  <2>1. QED
    BY <1>8, AskedContexts, MovedFits DEF FitsAs
<1>10. r = n \/ r = Leaving(f, "idle")
  BY DEF OnQuestion
<1>11. QED
  <2> HIDE DEF n, f
  <2>1. QED
    BY <1>7, <1>9, <1>10

LEMMA PromptFits ==
  ASSUME NEW c \in Conversations, c.mode \in Modes, c.flow \in PromptFlows, NEW r \in OnPrompt(c)
  PROVE  Fits(c, r)
<1> DEFINE ctx == AskedIn(c.flow)
           p == Leaving(Reply(c, "working", {}), "idle")
<1>1. Fits(c, Leaving(Refusal(c), "idle"))
  BY RefusalFits, MovedFits, AskedContexts DEF FitsAs
<1>2. \/ r = Leaving(Refusal(c), "idle")
      \/ MayStart(c, ctx) /\ r \in OnQuestion(c)
      \/ MayStart(c, ctx) /\ r = [p EXCEPT !.work = ctx]
  BY DEF OnPrompt
<1>3. FitsAs(c, Reply(c, "working", {}), "working")
  BY OneMenuFits DEF Answers
<1>4. Fits(c, p)
  BY <1>3, AskedContexts, MovedFits DEF FitsAs
<1>5. ctx \in Kinds \cup {"none"}
  BY AskedContexts
<1>6. MayStart(c, ctx) => Fits(c, [p EXCEPT !.work = ctx])
  <2> HIDE DEF ctx, p
  <2>1. QED
    BY <1>4, <1>5, WorkFits DEF FitsAs
<1>7. QED
  <2> HIDE DEF ctx, p
  <2>1. QED
    BY <1>1, <1>2, <1>6, AnswerFits

LEMMA ReferralCodeFits ==
  ASSUME NEW c \in Conversations, c.mode \in Modes, NEW r \in OnReferralCode(c)
  PROVE  Fits(c, r)
<1> DEFINE p == Leaving(Reply(c, "code_result", {MainMenu(c.mode)}), "idle")
<1>1. FitsAs(c, Reply(c, "code_result", {MainMenu(c.mode)}), "code_result")
  BY OneMenuFits DEF Answers
<1>2. Fits(c, p)
  BY <1>1, AskedContexts, MovedFits DEF FitsAs
<1>3. PICK w \in {"none", "attach"} : r = [p EXCEPT !.work = w]
  BY DEF OnReferralCode
<1>4. w \in Kinds \cup {"none"} /\ w \notin TaskKinds
  BY DEF Kinds, TaskKinds, Contexts
<1>5. QED
  <2> HIDE DEF p
  <2>1. QED
    BY <1>2, <1>3, <1>4, WorkFits DEF FitsAs

LEMMA OnMessageFits ==
  ASSUME NEW c \in Conversations, NEW blank \in BOOLEAN
  PROVE  AllFit(c, OnMessage(c, blank))
<1>1. CASE c.mode = NoMode
  <2>1. OnMessage(c, blank) = {Reply(c, "choose_mode", {ModeSelection})}
    BY <1>1 DEF OnMessage
  <2>2. FitsAs(c, Reply(c, "choose_mode", {ModeSelection}), "choose_mode")
    BY OneMenuFits DEF Answers
  <2>3. QED
    BY <2>1, <2>2 DEF FitsAs, AllFit
<1>2. CASE c.mode # NoMode /\ c.flow = "idle"
  <2>1. \A r \in OnMessage(c, blank) :
          r = Reply(c, "nothing", {}) \/ r = Reply(c, "menu", {MainMenu(c.mode)})
    <3>1. CASE blank
      <4>1. OnMessage(c, blank) = {IF blank THEN Reply(c, "nothing", {})
                                            ELSE Reply(c, "menu", {MainMenu(c.mode)})}
        BY <1>2, <3>1 DEF OnMessage
      <4>2. QED
        BY <4>1
    <3>2. CASE ~blank
      <4>1. OnMessage(c, blank) = {IF blank THEN Reply(c, "nothing", {})
                                            ELSE Reply(c, "menu", {MainMenu(c.mode)})}
        BY <1>2, <3>2 DEF OnMessage, PromptFlows, ConsumerFlows, BusinessFlows
      <4>2. QED
        BY <4>1
    <3>3. QED
      BY <3>1, <3>2
  <2>2. /\ FitsAs(c, Reply(c, "nothing", {}), "nothing")
        /\ FitsAs(c, Reply(c, "menu", {MainMenu(c.mode)}), "menu")
    BY <1>2, ChosenMode, OneMenuFits DEF Answers
  <2>3. QED
    BY <2>1, <2>2 DEF FitsAs, AllFit
<1>3. CASE c.mode # NoMode /\ c.flow # "idle" /\ blank
  <2>1. OnMessage(c, blank) = {Reply(c, "ask_again", {})}
    BY <1>3 DEF OnMessage
  <2>2. FitsAs(c, Reply(c, "ask_again", {}), "ask_again")
    BY OneMenuFits DEF Answers
  <2>3. QED
    BY <2>1, <2>2 DEF FitsAs, AllFit
<1>4. CASE c.mode # NoMode /\ c.flow = "shared.await_referral_code" /\ ~blank
  <2>1. OnMessage(c, blank) = OnReferralCode(c)
    BY <1>4 DEF OnMessage, PromptFlows, ConsumerFlows, BusinessFlows
  <2>2. QED
    BY <1>4, <2>1, ChosenMode, ReferralCodeFits DEF AllFit
<1>5. CASE c.mode # NoMode /\ c.flow \in PromptFlows /\ ~blank
  <2>1. OnMessage(c, blank) = OnPrompt(c)
    BY <1>5 DEF OnMessage, PromptFlows, ConsumerFlows, BusinessFlows
  <2>2. QED
    BY <1>5, <2>1, ChosenMode, PromptFits DEF AllFit
<1>6. c.flow \in PromptFlows \cup {"idle", "shared.await_referral_code"}
  BY DEF Conversations, Flows
<1>7. QED
  BY <1>1, <1>2, <1>3, <1>4, <1>5, <1>6

\* Whatever comes in, the reply fits the conversation.
LEMMA RespondFits ==
  ASSUME NEW c \in Conversations, NEW input \in Inputs, NEW r \in Respond(c, input)
  PROVE  Fits(c, r)
<1>1. CASE input.kind = "bot_started"
  <2>1. Respond(c, input) = {Reply(c, "welcome", {ModeSelection})}
    BY <1>1 DEF Respond, OnBotStarted
  <2>2. FitsAs(c, Reply(c, "welcome", {ModeSelection}), "welcome")
    BY OneMenuFits DEF Answers
  <2>3. QED
    BY <2>1, <2>2 DEF FitsAs
<1>2. CASE input.kind \in {"text", "no_text"}
  <2>1. Respond(c, input) = OnMessage(c, input.kind = "no_text")
    BY <1>2 DEF Respond
  <2>2. (input.kind = "no_text") \in BOOLEAN
    OBVIOUS
  <2>3. QED
    BY <2>1, <2>2, OnMessageFits DEF AllFit
<1>3. CASE input.kind = "press" /\ input.button \in AllButtons
  <2>1. Respond(c, input) = OnCallback(c, input.button)
    BY <1>3 DEF Respond
  <2>2. QED
    BY <1>3, <2>1, EveryButtonRouted, OnCallbackFits DEF AllFit
<1>4. \/ input.kind \in {"bot_started", "text", "no_text"}
      \/ input.kind = "press" /\ input.button \in AllButtons
  BY DEF Inputs, Plain, Press
<1>5. QED
  BY <1>1, <1>2, <1>3, <1>4

-----------------------------------------------------------------------------
(* What a dispatch has loaded and answered. *)

Steps == {"idle", "looked", "insert", "loaded", "replied", "committed"}
Dispatches == [pc : Steps, upd : Nat, seen : Accounts, fresh : BOOLEAN, reply : Replies]

\* A user never goes back to having no mode: what a dispatch has seen tells.
ModeStays(h) ==
  handler[h].pc \in {"insert", "loaded", "replied"} =>
    (account[Updated(h).user].mode = NoMode => handler[h].seen.mode = NoMode)

Replied(h) == handler[h].pc = "replied" => handler[h].reply \in Respond(Conv(h), Updated(h).input)

ReplyInv ==
  /\ setup.paid \in Paid[transport]
  /\ account \in [Users -> Accounts]
  /\ handler \in [Handlers -> Dispatches]
  /\ \A h \in Handlers : ModeStays(h) /\ Replied(h)

LEMMA AccountFacts ==
  /\ \A a \in Accounts : /\ a.known \in BOOLEAN /\ a.mode \in Modes \cup {NoMode} /\ a.flow \in Flows
                         /\ a.mode = NoMode => a.flow = "idle"
  /\ [known |-> TRUE, mode |-> NoMode, flow |-> "idle"] \in Accounts
  /\ \A m \in Modes, f \in Flows : [known |-> TRUE, mode |-> m, flow |-> f] \in Accounts
  /\ NewAccount \in Accounts /\ NewAccount.mode = NoMode
<1>1. [NewAccount EXCEPT !.known = TRUE] = [known |-> TRUE, mode |-> NoMode, flow |-> "idle"]
  <2> DEFINE R == [known : BOOLEAN, mode : {NoMode}, flow : {"idle"}]
             n == [NewAccount EXCEPT !.known = TRUE]
  <2>1. NewAccount \in R
    BY DEF NewAccount
  <2>2. n \in R /\ n.known = TRUE
    <3> HIDE DEF NewAccount
    <3>1. QED
      BY <2>1
  <2>3. \A r \in R : r = [known |-> r.known, mode |-> NoMode, flow |-> "idle"]
    OBVIOUS
  <2>4. n = [known |-> n.known, mode |-> NoMode, flow |-> "idle"]
    BY <2>2, <2>3
  <2>5. QED
    BY <2>2, <2>4
<1>2. "idle" \in Flows /\ NoMode \notin Modes
  BY DEF Flows, Modes, NoMode
<1>3. Accounts = [known : {TRUE}, mode : Modes, flow : Flows]
                   \cup {NewAccount, [known |-> TRUE, mode |-> NoMode, flow |-> "idle"]}
  BY <1>1 DEF Accounts
<1>4. \A m \in Modes, f \in Flows : [known |-> TRUE, mode |-> m, flow |-> f] \in Accounts
  BY <1>3
<1>5. \A a \in Accounts : /\ a.known \in BOOLEAN /\ a.mode \in Modes \cup {NoMode}
                          /\ a.flow \in Flows /\ (a.mode = NoMode => a.flow = "idle")
  <2> SUFFICES ASSUME NEW a \in Accounts
               PROVE  /\ a.known \in BOOLEAN /\ a.mode \in Modes \cup {NoMode}
                      /\ a.flow \in Flows /\ (a.mode = NoMode => a.flow = "idle")
    OBVIOUS
  <2>1. CASE a \in [known : {TRUE}, mode : Modes, flow : Flows]
    <3>1. a.known \in {TRUE} /\ a.mode \in Modes /\ a.flow \in Flows
      BY <2>1
    <3>2. QED
      BY <1>2, <3>1
  <2>2. CASE a \in {NewAccount, [known |-> TRUE, mode |-> NoMode, flow |-> "idle"]}
    <3>1. a.mode = NoMode /\ a.flow = "idle"
      BY <2>2 DEF NewAccount
    <3>2. a.known \in BOOLEAN
      <4>1. NewAccount.known \in BOOLEAN
        BY DEF NewAccount
      <4>2. [known |-> TRUE, mode |-> NoMode, flow |-> "idle"].known \in BOOLEAN
        OBVIOUS
      <4>3. QED
        BY <2>2, <4>1, <4>2, Zenon
    <3>3. QED
      BY <1>2, <3>1, <3>2
  <2>3. QED
    BY <1>3, <2>1, <2>2
<1>6. NewAccount \in Accounts /\ NewAccount.mode = NoMode
  BY <1>3 DEF NewAccount
<1>7. QED
  BY <1>3, <1>4, <1>5, <1>6

LEMMA KnownAccount ==
  ASSUME NEW a \in Accounts
  PROVE  LET b == [a EXCEPT !.known = TRUE] IN b \in Accounts /\ b.mode = a.mode /\ b.flow = a.flow
<1>1. CASE a \in [known : {TRUE}, mode : Modes, flow : Flows]
  <2>1. [a EXCEPT !.known = TRUE] \in [known : {TRUE}, mode : Modes, flow : Flows]
    BY <1>1
  <2>2. [a EXCEPT !.known = TRUE].mode = a.mode /\ [a EXCEPT !.known = TRUE].flow = a.flow
    BY <1>1
  <2>3. QED
    BY <2>1, <2>2 DEF Accounts
<1>2. CASE a \in {NewAccount, [NewAccount EXCEPT !.known = TRUE]}
  <2>1. [a EXCEPT !.known = TRUE] = [NewAccount EXCEPT !.known = TRUE]
    BY <1>2 DEF NewAccount
  <2>2. [a EXCEPT !.known = TRUE].mode = a.mode /\ [a EXCEPT !.known = TRUE].flow = a.flow
    BY <1>2 DEF NewAccount
  <2>3. QED
    BY <2>1, <2>2 DEF Accounts
<1>3. QED
  BY <1>1, <1>2 DEF Accounts

LEMMA IdleDispatch == IdleHandler \in Dispatches
<1>1. Reply([mode |-> NoMode, flow |-> "idle"], "nothing", {}) \in Replies
  BY DEF Reply, Replies, NoMode, Flows, Answers
<1>2. QED
  BY <1>1, AccountFacts DEF IdleHandler, Dispatches, Steps

\* The conversation of a dispatch.
LEMMA ConvShape ==
  ASSUME IInv, ReplyInv, NEW h \in Handlers, handler[h].pc # "idle"
  PROVE  /\ Updated(h) \in [user : Users, input : Inputs] /\ handler[h].seen \in Accounts
         /\ Conv(h) \in Conversations /\ Conv(h).mode = handler[h].seen.mode
         /\ Conv(h).flow = handler[h].seen.flow /\ Conv(h).paid = setup.paid[Updated(h).user]
<1>1. Updated(h) \in [user : Users, input : Inputs]
  BY LenProperties DEF IInv, HeldAreUpdates, UpdateShape, Updated
<1>2. setup.paid \in [Users -> {"none"} \cup MonthlyPlans]
  BY DispatchAssumption DEF ReplyInv, IInv, TransportShape, transport
<1>3. setup.paid[Updated(h).user] \in {"none"} \cup MonthlyPlans
  BY <1>1, <1>2
<1>4. handler[h].seen \in Accounts
  BY DEF ReplyInv, Dispatches
<1>5. QED
  BY <1>1, <1>3, <1>4, AccountFacts DEF Conv, Conversations

\* Two unlike modes of a save cannot be mixed into no mode at all.
LEMMA SavedAccount ==
  ASSUME NEW db \in Accounts, NEW seen \in Accounts, NEW c \in Conversations, NEW r, Fits(c, r),
         c.mode = seen.mode, c.flow = seen.flow, db.mode = NoMode => seen.mode = NoMode
  PROVE  Saved(db, seen, r) \in Accounts /\ (Saved(db, seen, r).mode = NoMode => db.mode = NoMode)
<1> DEFINE mode == IF r.mode = seen.mode THEN db.mode ELSE r.mode
           flow == IF r.flow = seen.flow THEN db.flow ELSE r.flow
<1>1. r.mode \in Modes \cup {NoMode} /\ r.flow \in Flows
  BY DEF Fits, Replies
<1>2. mode \in Modes \cup {NoMode} /\ flow \in Flows
  BY <1>1, AccountFacts
<1>3. mode = NoMode => db.mode = NoMode /\ flow = "idle"
  BY AccountFacts DEF Fits
<1>4. Saved(db, seen, r) = [known |-> TRUE, mode |-> mode, flow |-> flow]
  BY DEF Saved
<1>5. QED
  <2> HIDE DEF mode, flow
  <2>1. Saved(db, seen, r).mode = mode
    BY <1>4
  <2>2. CASE mode = NoMode
    BY <1>3, <1>4, <2>1, <2>2, AccountFacts
  <2>3. CASE mode \in Modes
    BY <1>2, <1>3, <1>4, <2>1, <2>3, AccountFacts
  <2>4. QED
    BY <1>2, <2>2, <2>3

\* A dispatch a step leaves alone.
LEMMA OthersStay ==
  ASSUME IInv, ReplyInv, NEW g \in Handlers, handler'[g] = handler[g], setup' = setup,
         handler[g].pc # "idle" => Updated(g)' = Updated(g),
         \A u \in Users : account'[u].mode = NoMode => account[u].mode = NoMode
  PROVE  ModeStays(g)' /\ Replied(g)'
<1>1. CASE handler[g].pc = "idle"
  BY <1>1 DEF ModeStays, Replied
<1>2. CASE handler[g].pc # "idle"
  <2>1. Updated(g).user \in Users /\ Updated(g)' = Updated(g)
    BY <1>2, ConvShape
  <2>2. Conv(g)' = Conv(g)
    BY <2>1 DEF Conv
  <2>3. ModeStays(g) /\ Replied(g)
    BY DEF ReplyInv
  <2>4. ModeStays(g)'
    BY <2>1, <2>3 DEF ModeStays
  <2>5. Replied(g)'
    BY <2>1, <2>2, <2>3 DEF Replied
  <2>6. QED
    BY <2>4, <2>5
<1>3. QED
  BY <1>1, <1>2

\* One dispatch goes on, and the tables stay.
LEMMA OneGoesOn ==
  ASSUME IInv, ReplyInv, NEW h \in Handlers, NEW next \in Dispatches, Goes(h, next),
         UNCHANGED <<setup, updates, account>>, ModeStays(h)', Replied(h)'
  PROVE  ReplyInv'
<1>1. handler' \in [Handlers -> Dispatches] /\ \A g \in Handlers \ {h} : handler'[g] = handler[g]
  BY DEF ReplyInv, Goes
<1>2. \A g \in Handlers \ {h} : Updated(g)' = Updated(g)
  BY <1>1 DEF Updated
<1>3. \A g \in Handlers \ {h} : ModeStays(g)' /\ Replied(g)'
  BY <1>1, <1>2, OthersStay
<1>4. setup'.paid \in Paid[transport]' /\ account' \in [Users -> Accounts]
  BY DEF ReplyInv, transport
<1>5. QED
  BY <1>1, <1>3, <1>4 DEF ReplyInv

\* A dispatch that ends or starts.
LEMMA LookedReplies ==
  ASSUME IInv, ReplyInv, NEW h \in Handlers, NEW x \in Nat, Looked(h, x),
         UNCHANGED <<setup, updates, account>>
  PROVE  ReplyInv'
<1> DEFINE next == IF x \in processed THEN IdleHandler
                   ELSE [IdleHandler EXCEPT !.pc = "looked", !.upd = x]
<1>1. [IdleHandler EXCEPT !.pc = "looked", !.upd = x] \in Dispatches
  <2> HIDE DEF IdleHandler
  <2>1. QED
    BY IdleDispatch DEF Dispatches, Steps
<1>2. [IdleHandler EXCEPT !.pc = "looked", !.upd = x].pc = "looked"
  <2> HIDE DEF IdleHandler
  <2>1. QED
    BY IdleDispatch DEF Dispatches
<1>3. next \in Dispatches /\ next.pc \in {"idle", "looked"} /\ Goes(h, next)
  BY <1>1, <1>2, IdleDispatch, IdleShape DEF Looked
<1>4. handler'[h].pc \in {"idle", "looked"}
  <2> HIDE DEF next
  <2>1. QED
    BY <1>3 DEF Goes, ReplyInv
<1>5. ModeStays(h)' /\ Replied(h)'
  BY <1>4 DEF ModeStays, Replied
<1>6. QED
  <2> HIDE DEF next
  <2>1. QED
    BY <1>3, <1>5, OneGoesOn

LEMMA EndedReplies ==
  ASSUME IInv, ReplyInv, NEW h \in Handlers, Goes(h, IdleHandler),
         UNCHANGED <<setup, updates, account>>
  PROVE  ReplyInv'
<1>1. handler'[h].pc = "idle"
  BY IdleShape DEF Goes, ReplyInv
<1>2. ModeStays(h)' /\ Replied(h)'
  BY <1>1 DEF ModeStays, Replied
<1>3. QED
  BY <1>2, IdleDispatch, OneGoesOn

LEMMA InitReplies == ASSUME Init PROVE ReplyInv
<1>1. PICK t \in Transports : setup \in [transport : {t}, paid : Paid[t]]
  BY DEF Init
<1>2. setup.paid \in Paid[transport]
  BY <1>1 DEF transport
<1>3. handler = [h \in Handlers |-> IdleHandler] /\ account \in [Users -> Accounts]
  BY DEF Init
<1>4. handler \in [Handlers -> Dispatches] /\ \A h \in Handlers : handler[h].pc = "idle"
  BY <1>3, IdleDispatch, IdleShape
<1>5. \A h \in Handlers : ModeStays(h) /\ Replied(h)
  BY <1>4 DEF ModeStays, Replied
<1>6. QED
  BY <1>2, <1>3, <1>4, <1>5 DEF ReplyInv

LEMMA ActReplies ==
  ASSUME IInv, ReplyInv, NEW u \in Users, NEW input \in Inputs, Act(u, input)
  PROVE  ReplyInv'
<1>1. [user |-> u, input |-> input] \in [user : Users, input : Inputs]
  OBVIOUS
<1>2. \A i \in 1..Len(updates) : updates'[i] = updates[i]
  BY <1>1, AppendProperties DEF IInv, UpdateShape, Act
<1>3. UNCHANGED <<setup, handler, account>>
  BY DEF Act, database
<1>4. \A h \in Handlers : handler[h].pc # "idle" => Updated(h)' = Updated(h)
  BY <1>2, <1>3 DEF IInv, HeldAreUpdates, Updated
<1>5. \A h \in Handlers : ModeStays(h)' /\ Replied(h)'
  BY <1>3, <1>4, OthersStay
<1>6. QED
  BY <1>3, <1>5 DEF ReplyInv, transport

LEMMA LoadReplies ==
  ASSUME IInv, ReplyInv, NEW h \in Handlers, Load(h)
  PROVE  ReplyInv'
<1>1. handler[h].pc = "looked" /\ UNCHANGED <<setup, updates, account>>
  BY DEF Load, Step, max, database
<1>2. Updated(h).user \in Users
  BY <1>1, ConvShape
<1> DEFINE seen == account[Updated(h).user]
           pc == IF seen.known THEN "loaded" ELSE "insert"
           next == [handler[h] EXCEPT !.pc = pc, !.seen = seen]
<1>3. seen \in Accounts /\ pc \in {"insert", "loaded"} /\ handler[h] \in Dispatches
  BY <1>2 DEF ReplyInv
<1>4. Goes(h, next)
  BY DEF Load
<1>5. next \in Dispatches
  <2> HIDE DEF seen, pc
  <2>1. QED
    BY <1>3 DEF Dispatches, Steps
<1>6. /\ handler'[h].pc \in {"insert", "loaded"} /\ handler'[h].seen = seen
      /\ handler'[h].upd = handler[h].upd
  BY LoadInv
<1>7. Updated(h)' = Updated(h)
  BY <1>1, <1>6 DEF Updated
<1>8. ModeStays(h)' /\ Replied(h)'
  BY <1>1, <1>6, <1>7 DEF ModeStays, Replied
<1>9. QED
  <2> HIDE DEF next
  <2>1. QED
    BY <1>1, <1>4, <1>5, <1>8, OneGoesOn

LEMMA InsertReplies ==
  ASSUME IInv, ReplyInv, NEW h \in Handlers, Insert(h)
  PROVE  ReplyInv'
<1> DEFINE known == [handler[h].seen EXCEPT !.known = TRUE]
           next == [handler[h] EXCEPT !.pc = "loaded", !.fresh = TRUE, !.seen = known]
<1>1. handler[h].pc = "insert" /\ UNCHANGED <<setup, updates, account>>
  BY DEF Insert, Step, max, database
<1>2. handler[h] \in Dispatches /\ handler[h].seen \in Accounts /\ ModeStays(h)
  BY DEF ReplyInv, Dispatches
<1>3. known \in Accounts
  BY <1>2, KnownAccount
<1>4. next \in Dispatches
  <2> HIDE DEF known
  <2>1. QED
    BY <1>2, <1>3 DEF Dispatches, Steps
<1>5. [handler[h] EXCEPT !.pc = "loaded", !.fresh = TRUE, !.seen.known = TRUE] = next
  BY <1>2 DEF Dispatches
<1>6. Goes(h, next)
  BY <1>5 DEF Insert
<1>7. /\ handler'[h].pc = "loaded" /\ handler'[h].upd = handler[h].upd
      /\ handler'[h].seen.mode = handler[h].seen.mode
  BY InsertInv
<1>8. Updated(h)' = Updated(h)
  BY <1>1, <1>7 DEF Updated
<1>9. ModeStays(h)' /\ Replied(h)'
  BY <1>1, <1>2, <1>7, <1>8 DEF ModeStays, Replied
<1>10. QED
  <2> HIDE DEF next
  <2>1. QED
    BY <1>1, <1>4, <1>6, <1>9, OneGoesOn

LEMMA HandleReplies ==
  ASSUME IInv, ReplyInv, NEW h \in Handlers, Handle(h)
  PROVE  ReplyInv'
<1>1. handler[h].pc = "loaded" /\ UNCHANGED <<setup, updates, account>>
  BY DEF Handle, Step, max, database
<1>2. PICK r \in Respond(Conv(h), Updated(h).input) :
        Goes(h, [handler[h] EXCEPT !.pc = "replied", !.reply = r])
  BY DEF Handle
<1> DEFINE next == [handler[h] EXCEPT !.pc = "replied", !.reply = r]
<1>3. r \in Replies
  BY <1>1, <1>2, ConvShape, RespondFits DEF Fits
<1>4. handler[h] \in Dispatches /\ ModeStays(h)
  BY DEF ReplyInv
<1>5. next \in Dispatches /\ next.reply = r
  BY <1>3, <1>4 DEF Dispatches, Steps
<1>6. /\ handler'[h].pc = "replied" /\ handler'[h].upd = handler[h].upd
      /\ handler'[h].seen = handler[h].seen
  BY HandleInv
<1>7. handler'[h].reply = r
  <2>1. handler'[h] = next
    <3> HIDE DEF next
    <3>1. QED
      BY <1>2 DEF Goes, ReplyInv, next
  <2>2. QED
    BY <1>5, <2>1
<1>8. Updated(h)' = Updated(h) /\ Conv(h)' = Conv(h)
  BY <1>1, <1>6 DEF Updated, Conv
<1>9. ModeStays(h)' /\ Replied(h)'
  BY <1>1, <1>2, <1>4, <1>6, <1>7, <1>8 DEF ModeStays, Replied
<1>10. QED
  <2> HIDE DEF next
  <2>1. QED
    BY <1>1, <1>2, <1>5, <1>9, OneGoesOn DEF next

\* What a commit writes to the account of its user.
LEMMA CommitAccount ==
  ASSUME IInv, ReplyInv, NEW h \in Handlers, Commit(h)
  PROVE  /\ Fits(Conv(h), handler[h].reply)
         /\ account' \in [Users -> Accounts]
         /\ \A u \in Users : account'[u].mode = NoMode => account[u].mode = NoMode
<1> DEFINE u == Updated(h).user
           saved == Saved(account[u], handler[h].seen, handler[h].reply)
<1>1. handler[h].pc = "replied" /\ account' = [account EXCEPT ![u] = saved]
  BY DEF Commit
<1>2. /\ Updated(h) \in [user : Users, input : Inputs] /\ handler[h].seen \in Accounts
      /\ Conv(h) \in Conversations /\ Conv(h).mode = handler[h].seen.mode
      /\ Conv(h).flow = handler[h].seen.flow
  BY <1>1, ConvShape
<1>3. Fits(Conv(h), handler[h].reply)
  BY <1>1, <1>2, RespondFits DEF ReplyInv, Replied
<1>4. u \in Users /\ account \in [Users -> Accounts] /\ account[u] \in Accounts
  BY <1>2 DEF ReplyInv
<1>5. account[u].mode = NoMode => handler[h].seen.mode = NoMode
  BY <1>1 DEF ReplyInv, ModeStays
<1>6. saved \in Accounts /\ (saved.mode = NoMode => account[u].mode = NoMode)
  BY <1>2, <1>3, <1>4, <1>5, SavedAccount
<1>7. QED
  <2> HIDE DEF saved, u
  <2>1. QED
    BY <1>1, <1>3, <1>4, <1>6

LEMMA CommitReplies ==
  ASSUME IInv, ReplyInv, NEW h \in Handlers, Commit(h)
  PROVE  ReplyInv'
<1> DEFINE next == [handler[h] EXCEPT !.pc = "committed", !.fresh = FALSE]
<1>1. Goes(h, next) /\ UNCHANGED <<setup, updates>> /\ handler[h] \in Dispatches
  BY DEF Commit, max, ReplyInv
<1>2. next \in Dispatches
  BY <1>1 DEF Dispatches, Steps
<1>3. handler' \in [Handlers -> Dispatches] /\ \A g \in Handlers \ {h} : handler'[g] = handler[g]
  <2> HIDE DEF next
  <2>1. QED
    BY <1>1, <1>2 DEF ReplyInv, Goes
<1>4. handler'[h].pc = "committed"
  BY CommitEffect
<1>5. ModeStays(h)' /\ Replied(h)'
  BY <1>4 DEF ModeStays, Replied
<1>6. \A g \in Handlers \ {h} : Updated(g)' = Updated(g)
  BY <1>1, <1>3 DEF Updated
<1>7. \A g \in Handlers \ {h} : ModeStays(g)' /\ Replied(g)'
  BY <1>1, <1>3, <1>6, CommitAccount, OthersStay
<1>8. setup'.paid \in Paid[transport]' /\ account' \in [Users -> Accounts]
  BY <1>1, CommitAccount DEF ReplyInv, transport
<1>9. QED
  BY <1>3, <1>5, <1>7, <1>8 DEF ReplyInv

LEMMA CrashReplies ==
  ASSUME IInv, ReplyInv, Crash
  PROVE  ReplyInv'
<1>1. handler' = [h \in Handlers |-> IdleHandler] /\ UNCHANGED <<setup, account>>
  BY DEF Crash, database
<1>2. handler' \in [Handlers -> Dispatches] /\ \A h \in Handlers : handler'[h].pc = "idle"
  BY <1>1, IdleDispatch, IdleShape
<1>3. \A h \in Handlers : ModeStays(h)' /\ Replied(h)'
  BY <1>2 DEF ModeStays, Replied
<1>4. QED
  BY <1>1, <1>2, <1>3 DEF ReplyInv, transport

LEMMA ThrownReplies ==
  ASSUME IInv, ReplyInv, NEW h \in Handlers, Thrown(h)
  PROVE  ReplyInv'
<1>1. Goes(h, IdleHandler) /\ UNCHANGED <<setup, updates, account>>
  BY DEF Thrown, Goes, database
<1>2. QED
  BY <1>1, EndedReplies

LEMMA QueuedUpdate ==
  ASSUME IInv, batch # <<>>
  PROVE  Head(batch) \in 1..Len(updates) /\ Len(updates) \in Nat /\ Head(batch) \in Nat
<1>1. \E j \in DOMAIN batch : Head(batch) = batch[j]
  BY RestOfBatch DEF IInv, HeldAreUpdates
<1>2. Len(updates) \in Nat
  BY UpdateNumbers
<1>3. QED
  BY <1>1, <1>2 DEF IInv, HeldAreUpdates

LEMMA NextReplies ==
  ASSUME IInv, ReplyInv, [Next]_vars
  PROVE  ReplyInv'
<1>1. ASSUME NEW u \in Users, NEW input \in Inputs, Act(u, input) PROVE ReplyInv'
  BY <1>1, ActReplies
<1>2. ASSUME NEW h \in Handlers, NEW x \in waiting, WebhookCall(h, x) PROVE ReplyInv'
  <2>1. x \in Nat
    BY UpdateNumbers DEF IInv, HeldAreUpdates
  <2>2. Looked(h, x) /\ UNCHANGED <<setup, updates, account>>
    BY <1>2 DEF WebhookCall, database
  <2>3. QED
    BY <2>1, <2>2, LookedReplies
<1>3. ASSUME Polls PROVE ReplyInv'
  <2>1. ASSUME NEW from, NEW to, PollGet(from, to) PROVE ReplyInv'
    <3>1. UNCHANGED <<setup, updates, account, handler>>
      BY <2>1 DEF PollGet, database
    <3>2. \A h \in Handlers : ModeStays(h)' /\ Replied(h)'
      BY <3>1 DEF ReplyInv, ModeStays, Replied, Conv, Updated
    <3>3. QED
      BY <3>1, <3>2 DEF ReplyInv, transport
  <2>2. ASSUME NEW h \in Handlers, PollNext(h) PROVE ReplyInv'
    <3>1. Head(batch) \in Nat
      BY <2>2, QueuedUpdate DEF PollNext
    <3>2. Looked(h, Head(batch)) /\ UNCHANGED <<setup, updates, account>>
      BY <2>2 DEF PollNext, database
    <3>3. QED
      BY <3>1, <3>2, LookedReplies
  <2>3. QED
    BY <1>3, <2>1, <2>2 DEF Polls
<1>4. ASSUME NEW h \in Handlers, Runs(h) PROVE ReplyInv'
  <2>1. CASE Load(h) \/ Insert(h) \/ Handle(h) \/ Commit(h)
    BY <2>1, LoadReplies, InsertReplies, HandleReplies, CommitReplies
  <2>2. CASE InsertFails(h) \/ CommitFails(h)
    BY <2>2, ThrownReplies DEF InsertFails, CommitFails
  <2>3. CASE Schedule(h)
    <3>1. Goes(h, IdleHandler) /\ UNCHANGED <<setup, updates, account>>
      BY <2>3 DEF Schedule, database
    <3>2. QED
      BY <3>1, EndedReplies
  <2>4. QED
    BY <1>4, <2>1, <2>2, <2>3 DEF Runs
<1>5. ASSUME NEW h \in Handlers, Fail(h) PROVE ReplyInv'
  BY <1>5, ThrownReplies DEF Fail
<1>6. CASE Crash
  BY <1>6, CrashReplies
<1>7. CASE UNCHANGED vars
  <2>1. UNCHANGED <<setup, updates, account, handler>>
    BY <1>7 DEF vars, max, database
  <2>2. \A h \in Handlers : ModeStays(h)' /\ Replied(h)'
    BY <2>1 DEF ReplyInv, ModeStays, Replied, Conv, Updated
  <2>3. QED
    BY <2>1, <2>2 DEF ReplyInv, transport
<1>8. QED
  BY <1>1, <1>2, <1>3, <1>4, <1>5, <1>6, <1>7 DEF Next

\* What every dispatch has loaded and answered, at any time.
LEMMA RepliesHold == Spec => []ReplyInv
<1>1. Init => ReplyInv
  BY InitReplies
<1>2. IInv /\ ReplyInv /\ [Next]_vars => ReplyInv'
  BY NextReplies
<1>3. QED
  BY <1>1, <1>2, InvariantHolds, PTL DEF Spec

-----------------------------------------------------------------------------
(* The keyboards. *)

\* Every button of a keyboard the bot sends, the answer to a question aside,
\* works in the mode and the flow the handler leaves the user in (menus.py,
\* paywall.py).
THEOREM EveryMenuWorks == Spec => []MenusWork
<1>1. ASSUME IInv, ReplyInv PROVE MenusWork
  <2> SUFFICES ASSUME NEW h \in Handlers, handler[h].pc = "replied", handler[h].reply.says # "answer",
                      NEW menu \in handler[h].reply.shows, NEW b \in Buttons(menu)
               PROVE  Works([Conv(h) EXCEPT !.mode = handler[h].reply.mode,
                                            !.flow = handler[h].reply.flow], b)
    BY DEF MenusWork
  <2> DEFINE c == [Conv(h) EXCEPT !.mode = handler[h].reply.mode, !.flow = handler[h].reply.flow]
  <2>1. Updated(h) \in [user : Users, input : Inputs] /\ Conv(h) \in Conversations
    BY <1>1, ConvShape
  <2>2. Fits(Conv(h), handler[h].reply)
    BY <1>1, <2>1, RespondFits DEF ReplyInv, Replied
  <2>3. handler[h].reply.mode \in Modes \cup {NoMode} /\ handler[h].reply.flow \in Flows
    BY <2>2 DEF Fits, Replies
  <2>4. c \in Conversations /\ c.mode = handler[h].reply.mode
    BY <2>1, <2>3 DEF Conversations
  <2>5. BelongsTo(menu, c.mode)
    BY <2>2, <2>4 DEF Fits
  <2> HIDE DEF c
  <2>6. Works(c, b)
    BY <2>4, <2>5, KeyboardWorks
  <2>7. QED
    BY <2>6 DEF c
<1>2. QED
  BY <1>1, InvariantHolds, RepliesHold, PTL

\* A button of the mode the user has left is answered without moving the user
\* and without a row or a task (interaction_router.py).
THEOREM ForeignButtonsAreInert == Spec => []ForeignButtonInert
<1>1. ASSUME IInv, ReplyInv PROVE ForeignButtonInert
  <2> SUFFICES ASSUME NEW h \in Handlers, handler[h].pc = "replied",
                      Updated(h).input.kind = "press", Conv(h).mode # NoMode,
                      MadeFor(Updated(h).input.button) \in Modes \ {Conv(h).mode}
               PROVE  /\ handler[h].reply.flow = Conv(h).flow
                      /\ handler[h].reply.mode = Conv(h).mode /\ handler[h].reply.work = "none"
    BY DEF ForeignButtonInert
  <2>1. Conv(h) \in Conversations /\ Conv(h).mode \in Modes
    BY <1>1, ConvShape, ChosenMode
  <2>2. handler[h].reply \in OnCallback(Conv(h), Updated(h).input.button)
    BY <1>1 DEF ReplyInv, Replied, Respond
  <2>3. QED
    BY <2>1, <2>2, ForeignButton
<1>2. QED
  BY <1>1, InvariantHolds, RepliesHold, PTL

-----------------------------------------------------------------------------
(* The rows of the handlers. *)

\* A step that neither commits nor ends a dispatch that has committed.
Quiet ==
  /\ UNCHANGED <<setup, work, processed, started>>
  /\ \A h \in Handlers :
       handler[h].pc = "committed" \/ handler'[h].pc = "committed" => handler'[h] = handler[h]
  /\ faults' = faults \/ (faults < MaxFaults /\ faults' = faults + 1)

LEMMA QuietThrown ==
  ASSUME IInv, NEW h \in Handlers, Thrown(h), handler[h].pc # "committed",
         faults' = faults \/ (faults < MaxFaults /\ faults' = faults + 1)
  PROVE  Quiet
<1>1. handler'[h].pc = "idle" /\ \A g \in Handlers \ {h} : handler'[g] = handler[g]
  BY IdleShape DEF IInv, RunShape, Thrown
<1>2. UNCHANGED <<setup, work, processed, started>>
  BY DEF Thrown, database
<1>3. QED
  BY <1>1, <1>2 DEF Quiet

LEMMA QuietLooked ==
  ASSUME IInv, NEW h \in Handlers, handler[h].pc = "idle", NEW x, Looked(h, x),
         UNCHANGED <<setup, work, processed, started, faults>>
  PROVE  Quiet
<1>1. handler'[h].pc \in {"idle", "looked"} /\ \A g \in Handlers \ {h} : handler'[g] = handler[g]
  BY LookedShape DEF IInv
<1>2. QED
  BY <1>1 DEF Quiet

LEMMA QuietSteps ==
  ASSUME IInv, [Next]_vars
  PROVE  Quiet \/ (\E h \in Handlers : Commit(h) \/ Schedule(h)) \/ Crash
<1>1. ASSUME NEW u \in Users, NEW input \in Inputs, Act(u, input) PROVE Quiet
  BY <1>1 DEF Act, database, Quiet
<1>2. ASSUME NEW h \in Handlers, NEW x \in waiting, WebhookCall(h, x) PROVE Quiet
  BY <1>2, QuietLooked DEF WebhookCall, database
<1>3. ASSUME Polls PROVE Quiet
  <2>1. ASSUME NEW from, NEW to, PollGet(from, to) PROVE Quiet
    BY <2>1 DEF PollGet, database, Quiet
  <2>2. ASSUME NEW h \in Handlers, PollNext(h) PROVE Quiet
    BY <2>2, QuietLooked DEF PollNext, AllIdle, database
  <2>3. QED
    BY <1>3, <2>1, <2>2 DEF Polls
<1>4. ASSUME NEW h \in Handlers, Load(h) \/ Insert(h) \/ Handle(h) PROVE Quiet
  <2>1. UNCHANGED <<setup, work, processed, started, faults>>
    BY <1>4 DEF Load, Insert, Handle, Step, max, database
  <2>2. /\ handler[h].pc # "committed" /\ handler'[h].pc # "committed"
        /\ \A g \in Handlers \ {h} : handler'[g] = handler[g]
    BY <1>4, LoadInv, InsertInv, HandleInv DEF Load, Insert, Handle
  <2>3. QED
    BY <2>1, <2>2 DEF Quiet
<1>5. ASSUME NEW h \in Handlers, InsertFails(h) \/ CommitFails(h) PROVE Quiet
  BY <1>5, QuietThrown DEF InsertFails, CommitFails
<1>6. ASSUME NEW h \in Handlers, Fail(h) PROVE Quiet
  BY <1>6, QuietThrown DEF Fail
<1>7. CASE UNCHANGED vars
  BY <1>7 DEF vars, max, database, Quiet
<1>8. QED
  BY <1>1, <1>2, <1>3, <1>4, <1>5, <1>6, <1>7 DEF Next, Runs

RowsFor(known) == [upd : known, user : Users, kind : Kinds, mode : Modes]

\* A picture of a row is one the plan of its user is open to.
OfThePlan(w, paid) ==
  /\ w.kind \in ConsumerWork =>
       paid[w.user] = "consumer_plus_290" \/ (paid[w.user] = "none" /\ w.mode = "consumer")
  /\ w.kind = "vk_post_image" => paid[w.user] = "business_marketer_490"
  /\ w.kind = "business_image" =>
       paid[w.user] = "business_marketer_490" \/ (paid[w.user] = "none" /\ w.mode = "business")

RowInv ==
  /\ processed \subseteq Updates
  /\ \A i \in DOMAIN work : work[i] \in RowsFor(Updates) /\ OfThePlan(work[i], setup.paid)
  /\ \A h \in Handlers : handler[h].pc = "committed" =>
       \A i \in DOMAIN work : work[i].upd = handler[h].upd => work[i].kind = handler[h].reply.work

LEMMA EntitledPlan ==
  ASSUME NEW c \in Conversations, c.mode \in Modes, NEW ctx, MayStart(c, ctx)
  PROVE  /\ ctx \in ConsumerWork =>
              c.paid = "consumer_plus_290" \/ (c.paid = "none" /\ c.mode = "consumer")
         /\ ctx = "vk_post_image" => c.paid = "business_marketer_490"
         /\ ctx = "business_image" =>
              c.paid = "business_marketer_490" \/ (c.paid = "none" /\ c.mode = "business")
<1>1. /\ c.paid \in {"none", "consumer_plus_290", "business_marketer_490"}
      /\ c.mode \in {"consumer", "business"}
  BY DEF Conversations, MonthlyPlans, Modes
<1>2. Entitled(PoolOf(ctx), Plan(c))
  BY DEF MayStart
<1>3. /\ Plan(c) \in BusinessPlans =>
           c.paid = "business_marketer_490" \/ (c.paid = "none" /\ c.mode = "business")
      /\ Plan(c) \notin BusinessPlans =>
           c.paid = "consumer_plus_290" \/ (c.paid = "none" /\ c.mode = "consumer")
      /\ Plan(c) = "business_marketer_490" => c.paid = "business_marketer_490"
  BY <1>1 DEF Plan, FreePlan, BusinessPlans
<1>4. CASE ctx \in ConsumerWork
  <2>1. PoolOf(ctx) = "consumer_image" /\ ctx \notin {"vk_post_image", "business_image"}
    BY <1>4 DEF ConsumerWork, PoolOf
  <2>2. Plan(c) \notin BusinessPlans
    BY <1>2, <2>1 DEF Entitled
  <2>3. QED
    BY <1>3, <2>1, <2>2
<1>5. CASE ctx = "vk_post_image"
  <2>1. PoolOf(ctx) = "vk" /\ ctx \notin ConsumerWork
    BY <1>5 DEF ConsumerWork, PoolOf
  <2>2. Plan(c) = "business_marketer_490"
    BY <1>2, <2>1 DEF Entitled
  <2>3. QED
    BY <1>3, <1>5, <2>1, <2>2
<1>6. CASE ctx = "business_image"
  <2>1. PoolOf(ctx) = "business_image" /\ ctx \notin ConsumerWork
    BY <1>6 DEF ConsumerWork, PoolOf
  <2>2. Plan(c) \in BusinessPlans
    BY <1>2, <2>1 DEF Entitled
  <2>3. QED
    BY <1>3, <1>6, <2>1, <2>2
<1>7. QED
  BY <1>4, <1>5, <1>6

\* The row of a commit.
LEMMA CommittedRow ==
  ASSUME IInv, ReplyInv, NEW h \in Handlers, Commit(h), handler[h].reply.work # "none"
  PROVE  LET row == [upd |-> handler[h].upd, user |-> Updated(h).user,
                     kind |-> handler[h].reply.work, mode |-> handler[h].seen.mode] IN
         /\ work' = Append(work, row) /\ row \in RowsFor(Updates) /\ OfThePlan(row, setup.paid)
<1> DEFINE row == [upd |-> handler[h].upd, user |-> Updated(h).user,
                   kind |-> handler[h].reply.work, mode |-> handler[h].seen.mode]
           c == Conv(h)
           w == handler[h].reply.work
<1>1. handler[h].pc = "replied" /\ work' = Append(work, row)
  BY DEF Commit
<1>2. /\ Updated(h) \in [user : Users, input : Inputs] /\ c \in Conversations
      /\ c.mode = handler[h].seen.mode /\ c.paid = setup.paid[Updated(h).user]
  BY <1>1, ConvShape
<1>3. Fits(c, handler[h].reply)
  BY CommitAccount
<1>4. w \in Kinds /\ c.mode # NoMode
  BY <1>3 DEF Fits, Replies
<1>5. c.mode \in Modes
  BY <1>2, <1>4, ChosenMode
<1>6. handler[h].upd \in Updates
  BY CommitEffect, UpdateNumbers
<1>7. row \in RowsFor(Updates)
  <2> HIDE DEF c, w
  <2>1. QED
    BY <1>2, <1>4, <1>5, <1>6 DEF RowsFor, w
<1>8. w \in TaskKinds => MayStart(c, w)
  BY <1>3 DEF Fits
<1>9. ConsumerWork \cup {"vk_post_image", "business_image"} \subseteq TaskKinds
  BY DEF ConsumerWork, TaskKinds, Contexts
<1>10. /\ w \in ConsumerWork =>
            c.paid = "consumer_plus_290" \/ (c.paid = "none" /\ c.mode = "consumer")
       /\ w = "vk_post_image" => c.paid = "business_marketer_490"
       /\ w = "business_image" =>
            c.paid = "business_marketer_490" \/ (c.paid = "none" /\ c.mode = "business")
  <2> HIDE DEF c, w
  <2>1. CASE w \in TaskKinds
    BY <1>2, <1>5, <1>8, <2>1, EntitledPlan
  <2>2. CASE w \notin TaskKinds
    BY <1>9, <2>2
  <2>3. QED
    BY <2>1, <2>2
<1>11. OfThePlan(row, setup.paid)
  <2>1. row.kind = w /\ row.mode = c.mode /\ setup.paid[row.user] = c.paid
    BY <1>2
  <2> HIDE DEF row, c, w
  <2>2. QED
    BY <1>10, <2>1 DEF OfThePlan
<1>12. QED
  BY <1>1, <1>7, <1>11

\* What the users did stays, and so does what they are subscribed to.
LEMMA UpdatesStay ==
  ASSUME IInv, [Next]_vars
  PROVE  setup' = setup /\ Updates \subseteq Updates'
<1>1. ASSUME NEW u \in Users, NEW input \in Inputs, Act(u, input)
      PROVE  setup' = setup /\ Updates \subseteq Updates'
  <2>1. [user |-> u, input |-> input] \in [user : Users, input : Inputs]
    OBVIOUS
  <2>2. /\ updates' \in Seq([user : Users, input : Inputs]) /\ Len(updates') = Len(updates) + 1
    BY <1>1, <2>1, AppendProperties DEF IInv, UpdateShape, Act
  <2>3. Updates' = 1..(Len(updates) + 1) /\ Updates = 1..Len(updates) /\ Len(updates) \in Nat
    BY <2>2, UpdateNumbers, LenProperties DEF Updates
  <2>4. setup' = setup
    BY <1>1 DEF Act
  <2>5. QED
    BY <2>3, <2>4
<1>2. CASE \A u \in Users, input \in Inputs : ~Act(u, input)
  <2>1. UNCHANGED <<setup, updates>>
    BY <1>2 DEF Next, vars, max, WebhookCall, Polls, PollGet, PollNext, Runs, Load, Insert, Handle,
                Step, InsertFails, CommitFails, Fail, Thrown, Commit, Schedule, Crash
  <2>2. QED
    BY <2>1 DEF Updates
<1>3. QED
  BY <1>1, <1>2

LEMMA InitRows == ASSUME Init PROVE RowInv
<1>1. processed = {} /\ work = <<>> /\ handler = [h \in Handlers |-> IdleHandler]
  BY DEF Init
<1>2. DOMAIN work = {}
  BY <1>1, EmptySeq, LenProperties
<1>3. QED
  BY <1>1, <1>2, IdleShape DEF RowInv

LEMMA CommitRows ==
  ASSUME IInv, ReplyInv, RowInv, NEW h \in Handlers, Commit(h), setup' = setup, Updates \subseteq Updates'
  PROVE  RowInv'
<1> DEFINE x == handler[h].upd
<1>1. /\ processed' = processed \cup {x} /\ x \in Updates /\ x \notin processed
      /\ handler'[h].upd = x /\ handler'[h].reply = handler[h].reply
      /\ \A g \in Handlers \ {h} : handler'[g] = handler[g]
  BY CommitEffect, UpdateNumbers DEF Commit
<1>2. processed' \subseteq Updates'
  BY <1>1 DEF RowInv
<1>3. \A row \in RowsFor(Updates) : row \in RowsFor(Updates')
  BY DEF RowsFor
<1>4. setup'.paid = setup.paid
  OBVIOUS
<1>5. \A i \in DOMAIN work : work[i].upd # x
  BY <1>1 DEF IInv, RowsOfProcessed
<1>6. \A g \in Handlers \ {h} : handler[g].pc = "committed" => handler[g].upd # x
  BY <1>1 DEF IInv, CommittedOnce
<1>7. CASE handler[h].reply.work = "none"
  <2>1. work' = work
    BY <1>7 DEF Commit
  <2>2. \A i \in DOMAIN work' : work'[i] \in RowsFor(Updates') /\ OfThePlan(work'[i], setup'.paid)
    BY <1>3, <1>4, <2>1 DEF RowInv
  <2>3. QED
    BY <1>1, <1>2, <1>5, <2>1, <2>2 DEF RowInv
<1>8. CASE handler[h].reply.work # "none"
  <2>1. PICK row : /\ work' = Append(work, row) /\ row \in RowsFor(Updates) /\ OfThePlan(row, setup.paid)
                   /\ row.upd = x /\ row.kind = handler[h].reply.work
    <3> DEFINE new == [upd |-> x, user |-> Updated(h).user, kind |-> handler[h].reply.work,
                       mode |-> handler[h].seen.mode]
    <3>1. work' = Append(work, new) /\ new \in RowsFor(Updates) /\ OfThePlan(new, setup.paid)
      BY <1>8, CommittedRow
    <3>2. new.upd = x /\ new.kind = handler[h].reply.work
      OBVIOUS
    <3> HIDE DEF new
    <3>3. QED
      BY <3>1, <3>2
  <2>2. /\ DOMAIN work = 1..Len(work) /\ Len(work) \in Nat
        /\ DOMAIN work' = 1..(Len(work) + 1)
        /\ \A i \in DOMAIN work : work'[i] = work[i]
        /\ work'[Len(work) + 1] = row
    BY <2>1, Inserted DEF IInv
  <2>3. \A i \in DOMAIN work' : (i \in DOMAIN work /\ work'[i] = work[i]) \/ work'[i] = row
    BY <2>2
  <2>4. \A i \in DOMAIN work' : work'[i] \in RowsFor(Updates') /\ OfThePlan(work'[i], setup'.paid)
    BY <1>3, <1>4, <2>1, <2>3 DEF RowInv
  <2>5. \A i \in DOMAIN work' : work'[i].upd = x => work'[i].kind = handler[h].reply.work
    BY <1>5, <2>1, <2>3
  <2>6. \A g \in Handlers \ {h} : handler[g].pc = "committed" =>
          \A i \in DOMAIN work' : work'[i].upd = handler[g].upd => work'[i].kind = handler[g].reply.work
    BY <1>6, <2>1, <2>3 DEF RowInv
  <2>7. \A g \in Handlers : handler'[g].pc = "committed" =>
          \A i \in DOMAIN work' : work'[i].upd = handler'[g].upd => work'[i].kind = handler'[g].reply.work
    BY <1>1, <2>5, <2>6
  <2>8. QED
    BY <1>2, <2>4, <2>7 DEF RowInv
<1>9. QED
  BY <1>7, <1>8

\* A step that commits nothing new.
LEMMA RowsStay ==
  ASSUME RowInv, setup' = setup, Updates \subseteq Updates', UNCHANGED <<work, processed>>,
         \A h \in Handlers : handler'[h].pc = "committed" => handler'[h] = handler[h]
  PROVE  RowInv'
<1>1. \A row \in RowsFor(Updates) : row \in RowsFor(Updates')
  BY DEF RowsFor
<1>2. \A i \in DOMAIN work' : work'[i] \in RowsFor(Updates') /\ OfThePlan(work'[i], setup'.paid)
  BY <1>1 DEF RowInv
<1>3. QED
  BY <1>2 DEF RowInv

LEMMA NextRows ==
  ASSUME IInv, ReplyInv, RowInv, [Next]_vars
  PROVE  RowInv'
<1>1. setup' = setup /\ Updates \subseteq Updates'
  BY UpdatesStay
<1>2. CASE Quiet
  BY <1>1, <1>2, RowsStay DEF Quiet
<1>3. ASSUME NEW h \in Handlers, Commit(h) PROVE RowInv'
  BY <1>1, <1>3, CommitRows
<1>4. ASSUME NEW h \in Handlers, Schedule(h) PROVE RowInv'
  <2>1. UNCHANGED <<work, processed>>
    BY <1>4 DEF Schedule, database
  <2>2. \A g \in Handlers : handler'[g].pc = "committed" => handler'[g] = handler[g]
    BY <1>4, IdleShape DEF IInv, RunShape, Schedule, Goes
  <2>3. QED
    BY <1>1, <2>1, <2>2, RowsStay
<1>5. CASE Crash
  <2>1. UNCHANGED <<work, processed>> /\ \A g \in Handlers : handler'[g].pc = "idle"
    BY <1>5, IdleShape DEF Crash, database
  <2>2. QED
    BY <1>1, <2>1, RowsStay
<1>6. QED
  BY <1>2, <1>3, <1>4, <1>5, QuietSteps

LEMMA RowsHold == Spec => []RowInv
<1>1. Init => RowInv
  BY InitRows
<1>2. IInv /\ ReplyInv /\ RowInv /\ [Next]_vars => RowInv'
  BY NextRows
<1>3. QED
  BY <1>1, <1>2, InvariantHolds, RepliesHold, PTL DEF Spec

\* No picture is taken on for a plan that is not open to it: the quota is asked
\* again when the prompt is sent, and in the mode the user is then in, whichever
\* flow an earlier button has opened (state_machine_service.py).
THEOREM WorkFitsThePlan == Spec => []WorkOfThePlan
<1>1. RowInv => WorkOfThePlan
  BY DEF RowInv, OfThePlan, WorkOfThePlan
<1>2. QED
  BY <1>1, RowsHold, PTL

-----------------------------------------------------------------------------
(* Forgotten tasks. *)

LEMMA ForgottenFinite ==
  ASSUME IInv, RowInv
  PROVE  IsFiniteSet(Forgotten)
<1>1. Updates = 1..Len(updates) /\ Len(updates) \in Nat
  BY UpdateNumbers
<1>2. IsFiniteSet(Updates)
  BY <1>1, FS_Interval
<1>3. Forgotten \subseteq Updates
  BY DEF Forgotten, RowInv
<1>4. QED
  BY <1>2, <1>3, FS_Subset

\* A commit or the start of a task leaves nothing behind.
LEMMA CommitForgetsNothing ==
  ASSUME IInv, NEW h \in Handlers, Commit(h)
  PROVE  Forgotten' \subseteq Forgotten
<1> DEFINE x == handler[h].upd
<1>1. /\ processed' = processed \cup {x} /\ started' = started
      /\ handler'[h].upd = x /\ handler'[h].pc = "committed"
      /\ handler[h].pc = "replied"
      /\ \A g \in Handlers \ {h} : handler'[g] = handler[g]
  BY CommitEffect DEF Commit
<1>2. \A i \in DOMAIN work' : work'[i].upd = x \/ (i \in DOMAIN work /\ work'[i] = work[i])
  BY CommitEffect
<1>3. SUFFICES ASSUME NEW y \in Forgotten' PROVE y \in Forgotten
  OBVIOUS
<1>4. y # x /\ y \in processed \ started
  BY <1>1 DEF Forgotten
<1>5. \E i \in DOMAIN work : work[i].upd = y /\ work[i].kind \in TaskKinds
  BY <1>2, <1>4 DEF Forgotten
<1>6. \A g \in Handlers : handler[g].upd = y => handler[g].pc # "committed"
  BY <1>1 DEF Forgotten
<1>7. QED
  BY <1>4, <1>5, <1>6 DEF Forgotten

LEMMA ScheduleForgetsNothing ==
  ASSUME IInv, RowInv, NEW h \in Handlers, Schedule(h)
  PROVE  Forgotten' \subseteq Forgotten
<1> DEFINE x == handler[h].upd
<1>1. /\ UNCHANGED <<work, processed>> /\ handler[h].pc = "committed"
      /\ started' = IF handler[h].reply.work \in TaskKinds THEN started \cup {x} ELSE started
      /\ \A g \in Handlers \ {h} : handler'[g] = handler[g]
  BY DEF Schedule, Goes, IInv, RunShape, database
<1>2. SUFFICES ASSUME NEW y \in Forgotten' PROVE y \in Forgotten
  OBVIOUS
<1>3. /\ y \in processed \ started
      /\ \E i \in DOMAIN work : work[i].upd = y /\ work[i].kind \in TaskKinds
      /\ \A g \in Handlers \ {h} : handler[g].upd = y => handler[g].pc # "committed"
  BY <1>1 DEF Forgotten
<1>4. y # x
  <2>1. handler[h].reply.work \in TaskKinds => x \in started'
    BY <1>1
  <2>2. y \notin started'
    BY DEF Forgotten
  <2>3. y = x => handler[h].reply.work \in TaskKinds
    BY <1>1, <1>3 DEF RowInv
  <2>4. QED
    BY <2>1, <2>2, <2>3
<1>5. QED
  BY <1>3, <1>4 DEF Forgotten

\* A crash forgets at most the dispatches that were running.
LEMMA CrashForgets ==
  ASSUME IInv, Crash
  PROVE  Forgotten' \subseteq Forgotten \cup {handler[h].upd : h \in Handlers}
BY DEF Crash, database, Forgotten

LEMMA QuietForgetsNothing ==
  ASSUME Quiet
  PROVE  Forgotten' \subseteq Forgotten
<1>1. SUFFICES ASSUME NEW y \in Forgotten' PROVE y \in Forgotten
  OBVIOUS
<1>2. /\ y \in processed \ started
      /\ \E i \in DOMAIN work : work[i].upd = y /\ work[i].kind \in TaskKinds
  BY DEF Quiet, Forgotten
<1>3. \A g \in Handlers : handler[g].upd = y => handler[g].pc # "committed"
  BY DEF Quiet, Forgotten
<1>4. QED
  BY <1>2, <1>3 DEF Forgotten

\* One task more for each handler, and one fault more.
LEMMA OneFaultMore ==
  ASSUME NEW n \in Nat, NEW f \in Nat
  PROVE  n * (f + 1) = n * f + n /\ n * f \in Nat
OBVIOUS

ForgottenInv == faults \in 0..MaxFaults /\ ForgottenBound

LEMMA NextForgotten ==
  ASSUME IInv, RowInv, RowInv', IInv', ForgottenInv, [Next]_vars
  PROVE  ForgottenInv'
<1> DEFINE N == Cardinality(Handlers)
<1>1. N \in Nat /\ MaxFaults \in Nat /\ faults \in Nat
  BY DispatchAssumption, FS_CardinalityType DEF ForgottenInv
<1>2. IsFiniteSet(Forgotten) /\ IsFiniteSet(Forgotten')
  <2>1. IsFiniteSet(Forgotten)
    BY ForgottenFinite
  <2>2. Updates' = 1..Len(updates') /\ Len(updates') \in Nat
    BY LenProperties DEF IInv, UpdateShape, Updates
  <2>3. IsFiniteSet(Updates')
    BY <2>2, FS_Interval
  <2>4. Forgotten' \subseteq Updates'
    BY DEF Forgotten, RowInv
  <2>5. QED
    BY <2>1, <2>3, <2>4, FS_Subset
<1>3. Cardinality(Forgotten) \in Nat /\ Cardinality(Forgotten') \in Nat
  BY <1>2, FS_CardinalityType
<1>4. Forgotten' \subseteq Forgotten => Cardinality(Forgotten') <= Cardinality(Forgotten)
  BY <1>2, FS_Subset
<1>5. Cardinality(Forgotten) <= N * faults
  BY DEF ForgottenInv, ForgottenBound
<1>6. N * (faults + 1) = N * faults + N /\ N * faults \in Nat
  <2> HIDE DEF N
  <2>1. QED
    BY <1>1, OneFaultMore
<1>7. ASSUME Forgotten' \subseteq Forgotten,
             faults' = faults \/ (faults < MaxFaults /\ faults' = faults + 1)
      PROVE  ForgottenInv'
  <2>1. Cardinality(Forgotten') <= N * faults'
    <3> HIDE DEF N
    <3>1. QED
      BY <1>1, <1>3, <1>4, <1>5, <1>6, <1>7
  <2>2. faults' \in 0..MaxFaults
    BY <1>1, <1>7 DEF ForgottenInv
  <2>3. QED
    BY <2>1, <2>2 DEF ForgottenInv, ForgottenBound
<1>8. CASE Quiet
  BY <1>7, <1>8, QuietForgetsNothing DEF Quiet
<1>9. ASSUME NEW h \in Handlers, Commit(h) \/ Schedule(h) PROVE ForgottenInv'
  <2>1. faults' = faults
    BY <1>9 DEF Commit, Schedule
  <2>2. QED
    BY <1>7, <1>9, <2>1, CommitForgetsNothing, ScheduleForgetsNothing
<1>10. CASE Crash
  <2> DEFINE lost == {handler[h].upd : h \in Handlers}
  <2>1. IsFiniteSet(Handlers)
    BY DispatchAssumption
  <2>2. IsFiniteSet(lost) /\ Cardinality(lost) <= N
    <3> DEFINE f == [h \in Handlers |-> handler[h].upd]
    <3>1. f \in Surjection(Handlers, lost)
      BY DEF Surjection
    <3>2. QED
      BY <2>1, <3>1, FS_Surjection
  <2>3. Forgotten' \subseteq Forgotten \cup lost
    BY <1>10, CrashForgets
  <2> HIDE DEF lost, N
  <2>4. /\ IsFiniteSet(Forgotten \cup lost)
        /\ Cardinality(Forgotten \cup lost) =
             Cardinality(Forgotten) + Cardinality(lost) - Cardinality(Forgotten \cap lost)
    BY <1>2, <2>2, FS_Union
  <2>5. IsFiniteSet(Forgotten \cap lost)
    BY <1>2, FS_Intersection
  <2>6. Cardinality(Forgotten \cap lost) \in Nat /\ Cardinality(lost) \in Nat
    BY <2>2, <2>5, FS_CardinalityType
  <2>7. Cardinality(Forgotten') <= Cardinality(Forgotten \cup lost)
    BY <2>3, <2>4, FS_Subset
  <2>8. Cardinality(Forgotten') <= N * faults + N
    BY <1>1, <1>3, <1>5, <1>6, <2>2, <2>4, <2>6, <2>7
  <2>9. faults' = faults + 1 /\ faults < MaxFaults
    BY <1>10 DEF Crash
  <2>10. Cardinality(Forgotten') <= N * faults' /\ faults' \in 0..MaxFaults
    BY <1>1, <1>6, <2>8, <2>9
  <2>11. QED
    BY <2>10 DEF ForgottenInv, ForgottenBound, N
<1>11. QED
  BY <1>8, <1>9, <1>10, QuietSteps

LEMMA ForgottenInvHolds == Spec => []ForgottenInv
<1>1. Init => ForgottenInv
  <2> SUFFICES ASSUME Init PROVE ForgottenInv
    OBVIOUS
  <2>1. faults = 0 /\ processed = {}
    BY DEF Init
  <2>2. Forgotten = {}
    BY <2>1 DEF Forgotten
  <2>3. Cardinality({}) = 0 /\ Cardinality(Handlers) \in Nat
    BY DispatchAssumption, FS_EmptySet, FS_CardinalityType
  <2>4. Cardinality(Handlers) * 0 = 0
    BY <2>3
  <2>5. QED
    BY <2>1, <2>2, <2>3, <2>4, DispatchAssumption DEF ForgottenInv, ForgottenBound
<1>2. IInv /\ RowInv /\ RowInv' /\ IInv' /\ ForgottenInv /\ [Next]_vars => ForgottenInv'
  BY NextForgotten
<1>3. QED
  BY <1>1, <1>2, InvariantHolds, RowsHold, PTL DEF Spec

\* A task that was promised is forgotten only when the process dies between the
\* commit and the creation of the task, and each time at most one for each
\* dispatch then running: no other step, and no exception, loses one
\* (max_dispatch.py).
THEOREM OnlyCrashesForget == Spec => []ForgottenBound
<1>1. ForgottenInv => ForgottenBound
  BY DEF ForgottenInv
<1>2. QED
  BY <1>1, ForgottenInvHolds, PTL

-----------------------------------------------------------------------------
(* The shape of the state. *)

\* A sequence is one over any set its elements are in.
LEMMA NarrowerSeq ==
  ASSUME NEW S, NEW s \in Seq(S), NEW T, \A i \in DOMAIN s : s[i] \in T
  PROVE  s \in Seq(T)
<1>1. Len(s) \in Nat /\ DOMAIN s = 1..Len(s) /\ s \in [1..Len(s) -> S]
  BY LenProperties
<1>2. s \in [1..Len(s) -> T]
  BY <1>1
<1>3. QED
  BY <1>1, <1>2, SeqDef

MarksInv ==
  /\ marker \in Updates \cup {NoMarker} /\ confirmed \in Updates \cup {0}
  /\ dropped \subseteq Updates

LEMMA ThrownMarks ==
  ASSUME IInv, MarksInv, NEW h \in Handlers, Thrown(h), handler[h].pc # "idle"
  PROVE  MarksInv'
<1>1. Updates = 1..Len(updates)
  BY UpdateNumbers
<1>2. {handler[h].upd} \cup {batch[i] : i \in DOMAIN batch} \subseteq Updates
  BY <1>1 DEF IInv, HeldAreUpdates
<1>3. dropped' \subseteq dropped \cup {handler[h].upd} \cup {batch[i] : i \in DOMAIN batch}
  BY DEF Thrown
<1>4. UNCHANGED <<marker, confirmed>> /\ Updates' = Updates
  BY DEF Thrown, Updates
<1>5. QED
  BY <1>2, <1>3, <1>4 DEF MarksInv

LEMMA NextMarks ==
  ASSUME IInv, MarksInv, [Next]_vars
  PROVE  MarksInv'
<1>1. Updates \subseteq Updates' /\ Updates = 1..Len(updates) /\ Len(updates) \in Nat
  BY UpdatesStay, UpdateNumbers
<1>2. ASSUME UNCHANGED <<marker, confirmed, dropped>> PROVE MarksInv'
  BY <1>1, <1>2 DEF MarksInv
<1>3. ASSUME NEW u \in Users, NEW input \in Inputs, Act(u, input) PROVE MarksInv'
  BY <1>2, <1>3 DEF Act
<1>4. ASSUME NEW h \in Handlers, NEW x \in waiting, WebhookCall(h, x) PROVE MarksInv'
  BY <1>2, <1>4 DEF WebhookCall
<1>5. ASSUME NEW from \in 0..Len(updates), NEW to \in 1..Len(updates), PollGet(from, to)
      PROVE  MarksInv'
  <2>1. marker' = to /\ confirmed' = from /\ dropped' = dropped
    BY <1>5 DEF PollGet
  <2>2. QED
    BY <1>1, <2>1 DEF MarksInv
<1>6. ASSUME NEW h \in Handlers, PollNext(h) PROVE MarksInv'
  BY <1>2, <1>6 DEF PollNext
<1>7. ASSUME NEW h \in Handlers, Runs(h) PROVE MarksInv'
  <2>1. CASE Load(h) \/ Insert(h) \/ Handle(h) \/ Commit(h) \/ Schedule(h)
    BY <1>2, <2>1 DEF Load, Insert, Handle, Commit, Schedule, Step, max
  <2>2. CASE InsertFails(h) \/ CommitFails(h)
    BY <2>2, ThrownMarks DEF InsertFails, CommitFails
  <2>3. QED
    BY <1>7, <2>1, <2>2 DEF Runs
<1>8. ASSUME NEW h \in Handlers, Fail(h) PROVE MarksInv'
  BY <1>8, ThrownMarks DEF Fail
<1>9. CASE Crash
  <2>1. marker' = NoMarker /\ UNCHANGED <<confirmed, dropped>>
    BY <1>9 DEF Crash
  <2>2. QED
    BY <1>1, <2>1 DEF MarksInv
<1>10. CASE UNCHANGED vars
  BY <1>2, <1>10 DEF vars, max
<1>11. QED
  BY <1>3, <1>4, <1>5, <1>6, <1>7, <1>8, <1>9, <1>10 DEF Next, Polls

LEMMA MarksHold == Spec => []MarksInv
<1>1. Init => MarksInv
  BY DEF Init, MarksInv
<1>2. IInv /\ MarksInv /\ [Next]_vars => MarksInv'
  BY NextMarks
<1>3. QED
  BY <1>1, <1>2, InvariantHolds, PTL DEF Spec

\* Tables, dispatches, batches and what MAX holds have their shapes.
THEOREM TypeCorrect == Spec => []TypeOK
<1>1. ASSUME IInv, ReplyInv, RowInv, MarksInv, ForgottenInv PROVE TypeOK
  <2>1. Updates = 1..Len(updates)
    BY <1>1, UpdateNumbers
  <2>2. transport \in Transports /\ setup.paid \in Paid[transport]
    BY <1>1 DEF IInv, TransportShape, transport, ReplyInv
  <2>3. updates \in Seq([user : Users, input : Inputs]) /\ waiting \subseteq Updates
    BY <1>1, <2>1 DEF IInv, UpdateShape, HeldAreUpdates
  <2>4. batch \in Seq(Updates)
    BY <1>1, <2>1, NarrowerSeq DEF IInv, HeldAreUpdates
  <2>5. work \in Seq(RowsFor(Updates))
    <3>1. PICK S : work \in Seq(S)
      BY <1>1 DEF IInv, TableShape
    <3>2. \A i \in DOMAIN work : work[i] \in RowsFor(Updates)
      BY <1>1 DEF RowInv
    <3>3. QED
      BY <3>1, <3>2, NarrowerSeq
  <2>6. work \in Seq([upd : Updates, user : Users, kind : Kinds, mode : Modes])
    BY <2>5 DEF RowsFor
  <2>7. ASSUME NEW h \in Handlers
        PROVE  /\ handler[h].pc \in {"idle", "looked", "insert", "loaded", "replied", "committed"}
               /\ handler[h].pc # "idle" => handler[h].upd \in Updates
               /\ handler[h].seen \in Accounts /\ handler[h].fresh \in BOOLEAN
               /\ handler[h].reply \in Replies
    <3>1. handler[h] \in Dispatches
      BY <1>1 DEF ReplyInv
    <3>2. /\ handler[h].pc \in Steps /\ handler[h].seen \in Accounts
          /\ handler[h].fresh \in BOOLEAN /\ handler[h].reply \in Replies
      BY <3>1 DEF Dispatches
    <3>3. handler[h].pc # "idle" => handler[h].upd \in Updates
      BY <1>1, <2>1 DEF IInv, HeldAreUpdates
    <3>4. QED
      BY <3>2, <3>3 DEF Steps
  <2>8. account \in [Users -> Accounts] /\ processed \subseteq Updates /\ faults \in 0..MaxFaults
    BY <1>1 DEF ReplyInv, RowInv, ForgottenInv
  <2>9. started \subseteq Updates /\ dropped \subseteq Updates
    BY <1>1, <2>8 DEF IInv, CommittedOnce, MarksInv
  <2>10. marker \in Updates \cup {NoMarker} /\ confirmed \in Updates \cup {0}
    BY <1>1 DEF MarksInv
  <2>11. QED
    BY <2>2, <2>3, <2>4, <2>6, <2>7, <2>8, <2>9, <2>10, Zenon DEF TypeOK
<1>2. QED
  BY <1>1, InvariantHolds, RepliesHold, RowsHold, MarksHold, ForgottenInvHolds, PTL

-----------------------------------------------------------------------------
(* MAX is answered 200 for what took effect only.                          *)

\* What no step but an update of a user adds, and only a lookup or the end of a
\* committed handler takes from what MAX still repeats.
LEMMA WaitingMoves ==
  ASSUME IInv, [Next]_vars
  PROVE  \/ \E u \in Users, input \in Inputs : Act(u, input)
         \/ updates' = updates /\ \A x \in waiting : x \in waiting' \cup processed
<1>1. ASSUME NEW h \in Handlers, NEW x \in waiting, WebhookCall(h, x)
      PROVE  updates' = updates /\ \A y \in waiting : y \in waiting' \cup processed
  BY <1>1 DEF WebhookCall, Answer
<1>2. ASSUME NEW h \in Handlers, Schedule(h)
      PROVE  updates' = updates /\ \A y \in waiting : y \in waiting' \cup processed
  <2>1. handler[h].upd \in processed
    BY <1>2 DEF IInv, CommittedOnce, Schedule
  <2>2. QED
    BY <1>2, <2>1 DEF Schedule, Answer
<1>3. CASE UNCHANGED <<updates, waiting>>
  BY <1>3
<1>4. QED
  BY <1>1, <1>2, <1>3
     DEF Next, vars, max, Polls, PollGet, PollNext, Runs, Load, Insert, Handle, Step,
         InsertFails, CommitFails, Fail, Thrown, Commit, Crash

LEMMA NextAnswered ==
  ASSUME IInv, AnsweredTookEffect, [Next]_vars
  PROVE  AnsweredTookEffect'
<1>1. processed \subseteq processed'
  BY DEF Next, vars, max, database, Act, WebhookCall, Polls, PollGet, PollNext, Runs, Load,
         Insert, Handle, Step, InsertFails, CommitFails, Fail, Thrown, Commit, Schedule, Crash
<1>2. transport' = transport
  BY UpdatesStay DEF transport
<1>3. CASE transport # "webhook"
  BY <1>2, <1>3 DEF AnsweredTookEffect
<1>4. CASE transport = "webhook"
  <2>1. \A x \in Updates : x \in waiting \cup processed
    BY <1>4 DEF AnsweredTookEffect
  <2>2. ASSUME NEW u \in Users, NEW input \in Inputs, Act(u, input) PROVE AnsweredTookEffect'
    <3>1. [user |-> u, input |-> input] \in [user : Users, input : Inputs]
      OBVIOUS
    <3>2. /\ updates' \in Seq([user : Users, input : Inputs])
          /\ Len(updates') = Len(updates) + 1 /\ Len(updates) \in Nat
      BY <2>2, <3>1, AppendProperties, LenProperties DEF IInv, UpdateShape, Act
    <3>3. Updates' = 1..(Len(updates) + 1) /\ Updates = 1..Len(updates)
      BY <3>2, UpdateNumbers, LenProperties DEF Updates
    <3>4. \A x \in Updates' : x \in Updates \/ x = Len(updates) + 1
      BY <3>2, <3>3
    <3>5. waiting' = waiting \cup {Len(updates) + 1}
      BY <1>4, <2>2 DEF Act
    <3>6. QED
      BY <1>1, <2>1, <3>4, <3>5 DEF AnsweredTookEffect
  <2>3. CASE updates' = updates /\ \A x \in waiting : x \in waiting' \cup processed
    <3>1. Updates' = Updates
      BY <2>3 DEF Updates
    <3>2. QED
      BY <1>1, <2>1, <2>3, <3>1 DEF AnsweredTookEffect
  <2>4. QED
    BY <2>2, <2>3, WaitingMoves
<1>5. QED
  BY <1>3, <1>4

\* MAX stops repeating a webhook call only for an update that took effect: no
\* interleaving of requests, failures and restarts of max_webhook answers 200
\* for one that has not.
THEOREM AnswersAreKept == Spec => []AnsweredTookEffect
<1>1. Init => AnsweredTookEffect
  <2>1. DOMAIN <<>> = {}
    BY EmptySeq, LenProperties
  <2>2. QED
    BY <2>1 DEF Init, AnsweredTookEffect, Updates
<1>2. IInv /\ AnsweredTookEffect /\ [Next]_vars => AnsweredTookEffect'
  BY NextAnswered
<1>3. QED
  BY <1>1, <1>2, InvariantHolds, PTL DEF Spec
=============================================================================
