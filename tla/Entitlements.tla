---------------------------- MODULE Entitlements ----------------------------
(***************************************************************************)
(* The quotas of packages/entitlements: what each plan allows, over which  *)
(* window the table `usage_events` is counted, and the decision the bot    *)
(* takes before it starts a flow.  Pure operators: `usage` is the table as *)
(* a transaction reads it.                                                 *)
(*                                                                         *)
(* The four can_start_... methods draw on four pools: the image slots of a *)
(* consumer, the image slots of a business, VK posts, and text questions.  *)
(***************************************************************************)
EXTENDS Integers, Sequences, FiniteSets

CONSTANTS
  Users,
  Limits,   \* the m4_* settings: Limits[plan] = [image, vk, text]
  Day,      \* 24 hours, in ticks
  Month     \* a calendar month, in ticks

MonthlyPlans == {"consumer_plus_290", "business_marketer_490"}
BusinessPlans == {"business_free", "business_marketer_490"}
PlanCodes == {"consumer_free"} \cup MonthlyPlans \cup BusinessPlans

ASSUME EntitlementsAssumption ==
  /\ Limits \in [PlanCodes -> [image : Nat, vk : Nat, text : Nat]]
  /\ Day \in Nat \ {0} /\ Month \in Nat \ {0}

UsageKinds == {"consumer_image_intake", "text_greeting", "business_image_intake",
               "text_question", "text_vk_post", "image_intake"}

\* units is 1 in every row the code writes; mode is meta["mode"], which only
\* the rows of the first release (image_intake) carry.
UsageRows == [user : Users, kind : UsageKinds, mode : {"consumer", "business", "none"},
              at : Nat, job : Nat]

Pools == {"consumer_image", "business_image", "vk", "text"}

\* What a user can ask for; generation_jobs.context_kind, and a text question.
Contexts == {"consumer_image", "business_image", "greeting_image", "vk_post_image", "question"}

\* The pool a flow draws on.
PoolOf(ctx) ==
  CASE ctx \in {"consumer_image", "greeting_image"} -> "consumer_image"
    [] ctx = "business_image" -> "business_image"
    [] ctx = "vk_post_image" -> "vk"
    [] ctx = "question" -> "text"

\* _usage_event_kind
UsageKind(ctx) ==
  CASE ctx = "consumer_image" -> "consumer_image_intake"
    [] ctx = "greeting_image" -> "text_greeting"
    [] ctx = "business_image" -> "business_image_intake"
    [] ctx = "vk_post_image" -> "text_vk_post"
    [] ctx = "question" -> "text_question"

\* The contexts whose text is written first, and its picture after it.
Bundles == {"greeting_image", "vk_post_image"}

\* resolve_plan_code without a subscription that counts.
FreePlan(mode) == IF mode = "business" THEN "business_free" ELSE "consumer_free"

-----------------------------------------------------------------------------
\* The events a pool counts.
InPool(row, pool) ==
  CASE pool = "consumer_image" ->
         \/ row.kind \in {"consumer_image_intake", "text_greeting"}
         \/ row.kind = "image_intake" /\ row.mode # "business"
    [] pool = "business_image" ->
         \/ row.kind = "business_image_intake"
         \/ row.kind = "image_intake" /\ row.mode = "business"
    [] pool = "vk" -> row.kind = "text_vk_post"
    [] pool = "text" -> row.kind = "text_question"

MonthStart(now) == now - (now % Month)

\* Where the window of a pool begins.
Since(pool, plan, now) ==
  IF pool = "vk" \/ (pool # "text" /\ plan \in MonthlyPlans) THEN MonthStart(now) ELSE now - Day

Counted(usage, pool, u, plan, now) ==
  {i \in DOMAIN usage : /\ usage[i].user = u /\ InPool(usage[i], pool)
                        /\ usage[i].at >= Since(pool, plan, now)}

Used(usage, pool, u, plan, now) == Cardinality(Counted(usage, pool, u, plan, now))

Limit(pool, plan) ==
  CASE pool \in {"consumer_image", "business_image"} -> Limits[plan].image
    [] pool = "vk" -> Limits[plan].vk
    [] pool = "text" -> Limits[plan].text

\* The plans a pool is open to (wrong_mode, vk_not_entitled).
Entitled(pool, plan) ==
  CASE pool = "consumer_image" -> plan \notin BusinessPlans
    [] pool = "business_image" -> plan \in BusinessPlans
    [] pool = "vk" -> plan = "business_marketer_490"
    [] pool = "text" -> TRUE

\* Wrong version: the last slot is given twice.
MutAllowed(usage, pool, u, plan, now) ==
  /\ Entitled(pool, plan)
  /\ Used(usage, pool, u, plan, now) <= Limit(pool, plan)

\* can_start_consumer_image_flow, can_start_consumer_greeting_flow,
\* can_start_business_image_flow, can_start_business_vk_flow,
\* can_complete_text_question
Allowed(usage, pool, u, plan, now) ==
  /\ Entitled(pool, plan)
  /\ Used(usage, pool, u, plan, now) < Limit(pool, plan)
=============================================================================
