----------------------------- MODULE TicketLife -----------------------------
(***************************************************************************)
(* What payments and boarding together promise of a ticket: it is issued   *)
(* once, for a booking that was paid, and is never valid again once it was *)
(* used or voided.  TicketSale implements the life of a ticket up to its   *)
(* issue, Boarding from there on.                                          *)
(***************************************************************************)
CONSTANT Booking

VARIABLES
  paid,    \* bookings a payer was debited for
  ticket   \* Ticket.status of each booking, "NONE" when there is no row

lifeVars == <<paid, ticket>>

Init ==
  /\ paid \in SUBSET Booking
  /\ ticket \in [Booking -> {"NONE", "VALID"}]
  /\ \A b \in Booking : ticket[b] = "VALID" => b \in paid

Debit(b) ==
  /\ paid' = paid \cup {b}
  /\ UNCHANGED ticket

Issue(b) ==
  /\ b \in paid /\ ticket[b] = "NONE"
  /\ ticket' = [ticket EXCEPT ![b] = "VALID"]
  /\ UNCHANGED paid

\* By id: a ticket voided since it was read is boarded all the same.
Board(b) ==
  /\ ticket[b] # "NONE"
  /\ ticket' = [ticket EXCEPT ![b] = "BOARDED"]
  /\ UNCHANGED paid

\* The departure of these bookings is cancelled.
Void(B) ==
  /\ ticket' = [b \in Booking |->
                  IF b \in B /\ ticket[b] # "NONE" THEN "CANCELLED" ELSE ticket[b]]
  /\ UNCHANGED paid

Next ==
  \/ \E b \in Booking : Debit(b) \/ Issue(b) \/ Board(b)
  \/ \E B \in SUBSET Booking : Void(B)

Spec == Init /\ [][Next]_lifeVars

=============================================================================
