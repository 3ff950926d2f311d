---------------------------- MODULE MCTicketSale ----------------------------
(* Small instances of TicketSale for TLC. *)
EXTENDS TicketSale, TLC

Symmetry ==
  Permutations(Request) \cup Permutations(Payment) \cup Permutations(Webhook)
    \cup Permutations(Reconciler)

\* Liveness is checked without symmetry sets; instead one payment is for one
\* request.  Exchanging the names of the requests gives the other behaviours.
NamedInit ==
  /\ Init
  /\ bookingId[CHOOSE p \in Payment : TRUE] = CHOOSE r \in Request : TRUE

NamedSpec == NamedInit /\ [][Next]_vars /\ Fairness

=============================================================================
