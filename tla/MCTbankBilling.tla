--------------------------- MODULE MCTbankBilling ---------------------------
(* Instances of TbankBilling for TLC. *)
EXTENDS TbankBilling, TLC

Symmetry == Permutations(Pids) \cup Permutations(Handlers)
=============================================================================
