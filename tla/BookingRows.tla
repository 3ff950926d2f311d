---------------------------- MODULE BookingRows ----------------------------
(***************************************************************************)
(* What the Booking rows do as the other components see them: module       *)
(* SeatHold without its locks, calls in progress and departure statuses.   *)
(* SeatHold is proved to implement it, and TicketSale is built on it.      *)
(***************************************************************************)
EXTENDS Bookings

VARIABLES
  lapsed,   \* bookings whose expiresAt passed while they waited for payment
  swept     \* what some sweep has selected and not yet expired

rowVars == <<dto, booking, lapsed, swept>>

Init ==
  /\ dto \in [Request -> Slot]
  /\ booking = [r \in Request |-> "NONE"]
  /\ lapsed = {}
  /\ swept = {}

Create(r) ==
  /\ booking[r] = "NONE"
  /\ IndexAllows(r)
  /\ booking' = [booking EXCEPT ![r] = "PENDING_PAYMENT"]
  /\ UNCHANGED <<dto, lapsed, swept>>

\* By id alone: a late payment confirms an expired or cancelled booking too.
Confirm(r) ==
  /\ booking[r] # "NONE"
  /\ IndexAllows(r)
  /\ booking' = [booking EXCEPT ![r] = "CONFIRMED"]
  /\ UNCHANGED <<dto, lapsed, swept>>

Lapse(r) ==
  /\ booking[r] = "PENDING_PAYMENT"
  /\ lapsed' = lapsed \cup {r}
  /\ UNCHANGED <<dto, booking, swept>>

Overdue == {r \in Request : booking[r] = "PENDING_PAYMENT" /\ r \in lapsed}

Select ==
  /\ swept' = swept \cup Overdue
  /\ UNCHANGED <<dto, booking, lapsed>>

\* By id alone as well; r stays selected if another sweep has it too.
Expire(r) ==
  /\ r \in swept
  /\ booking' = [booking EXCEPT ![r] = "EXPIRED"]
  /\ swept' \in {swept, swept \ {r}}
  /\ UNCHANGED <<dto, lapsed>>

\* A sweep fails, or the API restarts: the next minute selects again.
Forget ==
  /\ swept' \in SUBSET swept
  /\ UNCHANGED <<dto, booking, lapsed>>

CancelTrip(t) ==
  /\ booking' = [r \in Request |->
                   IF dto[r].trip = t /\ booking[r] \in Active
                   THEN "CANCELLED" ELSE booking[r]]
  /\ UNCHANGED <<dto, lapsed, swept>>

Next ==
  \/ \E r \in Request : Create(r) \/ Confirm(r) \/ Lapse(r) \/ Expire(r)
  \/ Select
  \/ Forget
  \/ \E t \in Trip : CancelTrip(t)

Spec == Init /\ [][Next]_rowVars

=============================================================================
