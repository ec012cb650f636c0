--------------------------- MODULE PaymentLedger ---------------------------
(***************************************************************************)
(* What the billing webhook promises of money: a payment is sold, then     *)
(* paid, then applied once and for good, and applying a purchase produces  *)
(* exactly one item (a subscription row or a star top-up) in that step.    *)
(* No item appears, changes owner or disappears in any other way.          *)
(* TbankBilling implements this over unreliable, repeated, concurrent      *)
(* notifications.                                                          *)
(***************************************************************************)
CONSTANT Pids    \* payment ids

VARIABLES
  sold,     \* payments that buy something (the others renew what was bought)
  paid,     \* payments the bank has settled
  applied,  \* payments whose effect has been given
  items     \* what each payment bought

vars == <<sold, paid, applied, items>>

Init == /\ sold = {} /\ paid = {} /\ applied = {}
        /\ items = [p \in Pids |-> {}]

Sell(p) ==
  /\ p \notin sold \cup paid
  /\ sold' = sold \cup {p}
  /\ UNCHANGED <<paid, applied, items>>

Pay(p) ==
  /\ p \notin paid
  /\ paid' = paid \cup {p}
  /\ UNCHANGED <<sold, applied, items>>

IsSingleton(S) == S # {} /\ \A x, y \in S : x = y

Apply(p) ==
  /\ p \in paid \ applied
  /\ applied' = applied \cup {p}
  /\ \A q \in Pids \ {p} : items'[q] = items[q]
  /\ IF p \in sold THEN IsSingleton(items'[p]) ELSE items'[p] = items[p]
  /\ UNCHANGED <<sold, paid>>

Next == \E p \in Pids : Sell(p) \/ Pay(p) \/ Apply(p)

Spec == Init /\ [][Next]_vars
=============================================================================
