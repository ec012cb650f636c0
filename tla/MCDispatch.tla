----------------------------- MODULE MCDispatch -----------------------------
(* Instances of Dispatch for TLC. *)
EXTENDS Dispatch, TLC

CONSTANTS u1

MCLimits == [p \in PlanCodes |-> [image |-> 1, vk |-> 1, text |-> 1]]

Plans == {"none"} \cup MonthlyPlans
MCPaid == [webhook |-> {[u \in Users |-> "none"]}, polling |-> [Users -> Plans]]

\* A change of mode, a flow opened, and a prompt, at once.
Busy == {Plain("text"), Press(<<"v1", "mode", "business">>),
         Press(<<"v1", "consumer", "create_image">>)}

\* Every input, then a text for the flow it may have opened.
MCScript == [webhook |-> <<Busy, Busy>>, polling |-> <<Inputs, {Plain("text")}>>]
=============================================================================
