-------------------------- MODULE MCSubscriptions --------------------------
(* Small instances of Subscriptions for TLC. *)
EXTENDS Subscriptions, TLC

Symmetry ==
  Permutations(Sub) \cup Permutations(Payment) \cup Permutations(Reconciler)

=============================================================================
