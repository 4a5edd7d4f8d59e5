----------------------------- MODULE MCBilling -----------------------------
(* Symmetry for the runs of Billing.                                       *)
EXTENDS Billing, TLC

Symmetry == Permutations(Users) \cup Permutations(Txns)
=============================================================================
