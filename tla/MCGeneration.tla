---------------------------- MODULE MCGeneration ----------------------------
(* Instances of Generation for TLC. *)
EXTENDS Generation, TLC

CONSTANTS u1, u2

\* Two images and one of the rest for each plan that has them.
MCLimits ==
  [p \in PlanCodes |-> [image |-> 2, vk |-> IF p = "business_marketer_490" THEN 1 ELSE 0, text |-> 1]]

FreePlans == [u \in Users |-> "consumer_free"]
PaidPlans == [u \in Users |-> IF u = u1 THEN "business_marketer_490" ELSE "consumer_plus_290"]

MCPlans == [u \in Users |-> IF u = u1 THEN "consumer_free" ELSE "business_marketer_490"]

NoUsage == <<>>

\* Rows of the first release, one of each mode.
MCOldUsage ==
  [i \in 1..2 |-> [user |-> u1, kind |-> "image_intake", at |-> 0, job |-> 0,
                   mode |-> IF i = 1 THEN "none" ELSE "business"]]

Symmetry == Permutations(Tasks)
=============================================================================
