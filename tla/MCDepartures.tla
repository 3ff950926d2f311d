---------------------------- MODULE MCDepartures ----------------------------
(* Small instances of Departures for TLC. *)
EXTENDS Departures, TLC

\* Every schedule runs every day; changes of the timetable make the others.
Daily ==
  {[s \in Schedule |-> [time |-> at[s], days |-> {IsoDow(d) : d \in Day},
                        active |-> TRUE]] : at \in [Schedule -> Time]}

Symmetry ==
  Permutations(Schedule) \cup Permutations(Trip) \cup Permutations(Generator)

=============================================================================
