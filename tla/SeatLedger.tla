----------------------------- MODULE SeatLedger -----------------------------
(***************************************************************************)
(* What seat booking promises to passengers, without locks, transactions   *)
(* or background jobs: every seat of every departure is either free or in  *)
(* the hands of exactly one booking, and it goes from one booking to       *)
(* another only through being free.  bookings.service.ts announces it as   *)
(* "Coeur anti-double-vente" (lines 12-20).                                *)
(***************************************************************************)
CONSTANTS
  Slot,     \* the (departure, seat number) pairs on sale
  Request   \* the bookings that can ever exist

VARIABLE holders   \* for each slot, the bookings that keep it off sale

Init == holders = [s \in Slot |-> {}]

\* A free slot is taken by one booking.
Take(s, r) ==
  /\ holders[s] = {}
  /\ holders' = [holders EXCEPT ![s] = {r}]

\* Any number of slots return to sale at once (a departure is cancelled).
GiveUp(S) ==
  holders' = [s \in Slot |-> IF s \in S THEN {} ELSE holders[s]]

Next ==
  \/ \E s \in Slot, r \in Request : Take(s, r)
  \/ \E S \in SUBSET Slot : GiveUp(S)

Spec == Init /\ [][Next]_holders

=============================================================================
