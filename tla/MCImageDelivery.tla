--------------------------- MODULE MCImageDelivery ---------------------------
(* Instances of ImageDelivery for TLC. *)
EXTENDS ImageDelivery, TLC

CONSTANTS u1, u2

MCLimits == [p \in PlanCodes |-> [image |-> 1, vk |-> 1, text |-> 1]]
MCPlans == [u \in Users |-> IF u = u1 THEN "consumer_free" ELSE "business_marketer_490"]
=============================================================================
