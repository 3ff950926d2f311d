----------------------------- MODULE MCBoarding -----------------------------
(* Small instances of Boarding for TLC. *)
EXTENDS Boarding, TLC

Symmetry ==
  Permutations(Trip) \cup Permutations(Booking) \cup Permutations(Controller)

=============================================================================
