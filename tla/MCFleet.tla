------------------------------ MODULE MCFleet ------------------------------
(* Small instances of Fleet for TLC. *)
EXTENDS Fleet, TLC

Symmetry == Permutations(Bus) \cup Permutations(Route) \cup Permutations(Caller)

=============================================================================
