------------------------------ MODULE Bookings ------------------------------
(***************************************************************************)
(* The Booking table of prisma/schema.prisma and its partial unique index  *)
(* booking_active_seat_uq.  A row is named by the call of holdSeat that    *)
(* creates it.                                                             *)
(***************************************************************************)
CONSTANTS
  Trip,     \* departures
  Seat,     \* seat numbers of a bus
  Request   \* calls of holdSeat

VARIABLES
  dto,      \* the (trip, seat) each request asks for: input, never written
  booking   \* Booking.status, "NONE" when there is no row

Slot == [trip : Trip, seat : Seat]

BookingStatus == {"NONE", "PENDING_PAYMENT", "CONFIRMED", "EXPIRED", "CANCELLED"}

\* The statuses booking_active_seat_uq ranges over.
Active == {"PENDING_PAYMENT", "CONFIRMED"}

\* The bookings that occupy a slot.
Holders(s) == {r \in Request : dto[r] = s /\ booking[r] \in Active}

\* Mutant: the index ranges over paid bookings only.
IndexAllowsUnpaid(r) == {q \in Holders(dto[r]) : booking[q] = "CONFIRMED"} \subseteq {r}

\* The index lets row r become active.
IndexAllows(r) == Holders(dto[r]) \subseteq {r}

=============================================================================
