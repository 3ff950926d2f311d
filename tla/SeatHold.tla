------------------------------ MODULE SeatHold ------------------------------
(***************************************************************************)
(* BookingsService: holding a seat, confirming a booking, expiring stale   *)
(* holds, together with the cancellation of a departure                    *)
(* (CatalogService.cancelTrip), which writes the same rows.                *)
(*                                                                         *)
(* The API is one Node.js process: a handler runs undisturbed from one     *)
(* await to the next, so every action below is the code between two calls  *)
(* to PostgreSQL or Redis, the call included.  A booking row is named by   *)
(* the request that created it (module Bookings).                          *)
(*                                                                         *)
(* Time is abstract.  The Redis lock carries a TTL and the booking an      *)
(* expiresAt; LockExpires and Lapse are the instants at which they pass.   *)
(***************************************************************************)
EXTENDS Bookings, Naturals, FiniteSets

CONSTANTS
  Caller,      \* concurrent calls of confirm, made by the payments component
  Sweeper,     \* overlapping runs of the minute job expireStaleHolds
  NoOne,       \* no request
  MaxFaults    \* bound on restarts of the API and on sweeps cut short

ASSUME NoOneIsFresh == NoOne \notin Request
ASSUME MaxFaultsIsNat == MaxFaults \in Nat

VARIABLES
  trip,        \* Trip.status
  cancelling,  \* trips whose cancelTrip has passed its check
  closing,     \* trips whose closeTrip has passed its check
  lapsed,      \* bookings whose expiresAt has passed
  lock,        \* the Redis keys seatlock:<trip>:<seat>
  pc,          \* where each holdSeat call is
  unlocking,   \* the booking a confirm call has updated and must still unlock
  stale,       \* what a sweep has selected and not yet expired
  freeing,     \* the booking a sweep has expired and must still unlock
  faults,      \* restarts and failed sweeps so far
  overtaken    \* history: bookings of calls that the cancellation of their
               \* departure found under way, or that came after it

inputVars == <<dto>>
tripVars  == <<trip, cancelling, closing, overtaken>>
sweepVars == <<stale, freeing>>
vars == <<dto, trip, cancelling, closing, booking, lapsed, lock, pc,
          unlocking, stale, freeing, faults, overtaken>>

TripStatus == {"SCHEDULED", "BOARDING", "DEPARTED", "CANCELLED"}
PC == {"new", "opened", "locked", "checked", "undo", "held", "refused"}

Init ==
  /\ dto \in [Request -> Slot]
  /\ trip = [t \in Trip |-> "SCHEDULED"]
  /\ cancelling = {}
  /\ closing = {}
  /\ booking = [r \in Request |-> "NONE"]
  /\ lapsed = {}
  /\ lock = [s \in Slot |-> NoOne]
  /\ pc = [r \in Request |-> "new"]
  /\ unlocking = [c \in Caller |-> NoOne]
  /\ stale = [k \in Sweeper |-> {}]
  /\ freeing = [k \in Sweeper |-> NoOne]
  /\ faults = 0
  /\ overtaken = {}

-----------------------------------------------------------------------------
(* holdSeat *)

\* Everything before the lock: the departure is read and found on sale.
HoldOpen(r) ==
  /\ pc[r] = "new"
  /\ trip[dto[r].trip] = "SCHEDULED"
  /\ pc' = [pc EXCEPT ![r] = "opened"]
  /\ UNCHANGED <<inputVars, tripVars, booking, lapsed, lock, unlocking,
                 sweepVars, faults>>

\* ... or the request is refused: departure not on sale, or one of the checks
\* on data kept outside this module (agency, bus, seat map, identity, channel).
HoldRefuse(r) ==
  /\ pc[r] = "new"
  /\ pc' = [pc EXCEPT ![r] = "refused"]
  /\ UNCHANGED <<inputVars, tripVars, booking, lapsed, lock, unlocking,
                 sweepVars, faults>>

\* SET key NX EX ttl.
HoldLock(r) ==
  /\ pc[r] = "opened"
  /\ lock[dto[r]] = NoOne
  /\ lock' = [lock EXCEPT ![dto[r]] = r]
  /\ pc' = [pc EXCEPT ![r] = "locked"]
  /\ UNCHANGED <<inputVars, tripVars, booking, lapsed, unlocking, sweepVars,
                 faults>>

HoldConflict(r) ==
  /\ pc[r] = "opened"
  /\ lock[dto[r]] # NoOne
  /\ pc' = [pc EXCEPT ![r] = "refused"]
  /\ UNCHANGED <<inputVars, tripVars, booking, lapsed, lock, unlocking,
                 sweepVars, faults>>

\* The transaction's first statement: no active booking on the seat.
HoldCheck(r) ==
  /\ pc[r] = "locked"
  /\ Holders(dto[r]) = {}
  /\ pc' = [pc EXCEPT ![r] = "checked"]
  /\ UNCHANGED <<inputVars, tripVars, booking, lapsed, lock, unlocking,
                 sweepVars, faults>>

\* Its second statement and commit: the insert the partial index lets through.
\* The answer to the commit may be lost, and then the catch block runs.
HoldCreate(r) ==
  /\ pc[r] = "checked"
  /\ IndexAllows(r)
  /\ booking' = [booking EXCEPT ![r] = "PENDING_PAYMENT"]
  /\ \E outcome \in {"held", "undo"} : pc' = [pc EXCEPT ![r] = outcome]
  /\ UNCHANGED <<inputVars, tripVars, lapsed, lock, unlocking, sweepVars,
                 faults>>

\* The transaction throws: the seat is taken, the index rejects the insert, or
\* the database fails or times out.
HoldAbort(r) ==
  /\ pc[r] \in {"locked", "checked"}
  /\ pc' = [pc EXCEPT ![r] = "undo"]
  /\ UNCHANGED <<inputVars, tripVars, booking, lapsed, lock, unlocking,
                 sweepVars, faults>>

\* The catch block deletes the key, whoever holds it by now.
HoldUndo(r) ==
  /\ pc[r] = "undo"
  /\ lock' = [lock EXCEPT ![dto[r]] = NoOne]
  /\ pc' = [pc EXCEPT ![r] = "refused"]
  /\ UNCHANGED <<inputVars, tripVars, booking, lapsed, unlocking, sweepVars,
                 faults>>

-----------------------------------------------------------------------------
(* confirm, called by the payments component for a booking it knows *)

\* The row becomes CONFIRMED whatever its status was; only the partial index
\* can make the update throw.
Confirm(c, r) ==
  /\ unlocking[c] = NoOne
  /\ booking[r] # "NONE"
  /\ IndexAllows(r)
  /\ booking' = [booking EXCEPT ![r] = "CONFIRMED"]
  /\ unlocking' = [unlocking EXCEPT ![c] = r]
  /\ overtaken' = IF trip[dto[r].trip] = "CANCELLED"
                  THEN overtaken \cup {r} ELSE overtaken
  /\ UNCHANGED <<inputVars, trip, cancelling, closing, lapsed, lock, pc,
                 sweepVars, faults>>

ConfirmUnlock(c) ==
  /\ unlocking[c] # NoOne
  /\ lock' = [lock EXCEPT ![dto[unlocking[c]]] = NoOne]
  /\ unlocking' = [unlocking EXCEPT ![c] = NoOne]
  /\ UNCHANGED <<inputVars, tripVars, booking, lapsed, pc, sweepVars, faults>>

-----------------------------------------------------------------------------
(* expireStaleHolds *)

\* Mutants: the query forgets the date, or leaves departures off sale aside.
OverdueAnyTime == {r \in Request : booking[r] = "PENDING_PAYMENT"}
OverdueOnSale ==
  {r \in OverdueAnyTime : r \in lapsed /\ trip[dto[r].trip] = "SCHEDULED"}

\* The holds past their deadline, read in one query.
Overdue == {r \in Request : booking[r] = "PENDING_PAYMENT" /\ r \in lapsed}

SweepSelect(k) ==
  /\ stale[k] = {} /\ freeing[k] = NoOne
  /\ Overdue # {}
  /\ stale' = [stale EXCEPT ![k] = Overdue]
  /\ UNCHANGED <<inputVars, tripVars, booking, lapsed, lock, pc, unlocking,
                 freeing, faults>>

\* Each selected row is updated by id alone.
SweepExpire(k, r) ==
  /\ freeing[k] = NoOne
  /\ r \in stale[k]
  /\ booking' = [booking EXCEPT ![r] = "EXPIRED"]
  /\ stale' = [stale EXCEPT ![k] = @ \ {r}]
  /\ freeing' = [freeing EXCEPT ![k] = r]
  /\ UNCHANGED <<inputVars, tripVars, lapsed, lock, pc, unlocking, faults>>

SweepUnlock(k) ==
  /\ freeing[k] # NoOne
  /\ lock' = [lock EXCEPT ![dto[freeing[k]]] = NoOne]
  /\ freeing' = [freeing EXCEPT ![k] = NoOne]
  /\ UNCHANGED <<inputVars, tripVars, booking, lapsed, pc, unlocking, stale,
                 faults>>

\* The database or Redis fails under a sweep: JobsService logs it, and what was
\* selected waits for the next minute.
SweepFail(k) ==
  /\ stale[k] # {} \/ freeing[k] # NoOne
  /\ faults < MaxFaults
  /\ faults' = faults + 1
  /\ stale' = [stale EXCEPT ![k] = {}]
  /\ freeing' = [freeing EXCEPT ![k] = NoOne]
  /\ UNCHANGED <<inputVars, tripVars, booking, lapsed, lock, pc, unlocking>>

-----------------------------------------------------------------------------
(* The departure: CatalogService.cancelTrip, BoardingService.scan, closeTrip *)

CancelCheck(t) ==
  /\ trip[t] # "DEPARTED"
  /\ cancelling' = cancelling \cup {t}
  /\ UNCHANGED <<inputVars, trip, closing, overtaken, booking, lapsed, lock, pc,
                 unlocking, sweepVars, faults>>

\* Mutant: the update of the bookings forgets their status.
CancelledWhole(t) ==
  [r \in Request |-> IF dto[r].trip = t /\ booking[r] # "NONE"
                     THEN "CANCELLED" ELSE booking[r]]

\* Mutant: only paid bookings are cancelled.
CancelledPaid(t) ==
  [r \in Request |-> IF dto[r].trip = t /\ booking[r] = "CONFIRMED"
                     THEN "CANCELLED" ELSE booking[r]]

\* The bookings once departure t is cancelled.
Cancelled(t) ==
  [r \in Request |-> IF dto[r].trip = t /\ booking[r] \in Active
                     THEN "CANCELLED" ELSE booking[r]]

\* r has read its departure on sale and may still insert its booking.
Selling(r) == pc[r] \in {"opened", "locked", "checked"}

\* The transaction of cancelTrip; module TicketSale adds its third statement,
\* which cancels the tickets.
CancelCommit(t) ==
  /\ t \in cancelling
  /\ cancelling' = cancelling \ {t}
  /\ trip' = [trip EXCEPT ![t] = "CANCELLED"]
  /\ booking' = Cancelled(t)
  /\ overtaken' = overtaken \cup {r \in Request : dto[r].trip = t /\ Selling(r)}
  /\ UNCHANGED <<inputVars, closing, lapsed, lock, pc, unlocking, sweepVars,
                 faults>>

\* The first scan of a ticket takes the departure off sale (an updateMany that
\* tests the status itself); which scans succeed is in module Boarding.
TripBoards(t) ==
  /\ trip[t] = "SCHEDULED"
  /\ trip' = [trip EXCEPT ![t] = "BOARDING"]
  /\ UNCHANGED <<inputVars, cancelling, closing, overtaken, booking, lapsed, lock,
                 pc, unlocking, sweepVars, faults>>

CloseCheck(t) ==
  /\ trip[t] \in {"SCHEDULED", "BOARDING"}
  /\ closing' = closing \cup {t}
  /\ UNCHANGED <<inputVars, trip, cancelling, overtaken, booking, lapsed, lock,
                 pc, unlocking, sweepVars, faults>>

\* Mutant: closing records the arrival.
CloseCommitArrived(t) ==
  /\ t \in closing
  /\ closing' = closing \ {t}
  /\ trip' = [trip EXCEPT ![t] = "ARRIVED"]
  /\ UNCHANGED <<inputVars, cancelling, overtaken, booking, lapsed, lock, pc,
                 unlocking, sweepVars, faults>>

\* The update of closeTrip is by id alone.
CloseCommit(t) ==
  /\ t \in closing
  /\ closing' = closing \ {t}
  /\ trip' = [trip EXCEPT ![t] = "DEPARTED"]
  /\ UNCHANGED <<inputVars, cancelling, overtaken, booking, lapsed, lock, pc,
                 unlocking, sweepVars, faults>>

-----------------------------------------------------------------------------
(* Time and failures *)

LockExpires(s) ==
  /\ lock[s] # NoOne
  /\ lock' = [lock EXCEPT ![s] = NoOne]
  /\ UNCHANGED <<inputVars, tripVars, booking, lapsed, pc, unlocking,
                 sweepVars, faults>>

\* expiresAt passes.  The lock was set before expiresAt was computed, with the
\* same duration: it is gone by then.
Lapse(r) ==
  /\ booking[r] = "PENDING_PAYMENT"
  /\ r \notin lapsed
  /\ lock[dto[r]] # r
  /\ lapsed' = lapsed \cup {r}
  /\ UNCHANGED <<inputVars, tripVars, booking, lock, pc, unlocking, sweepVars,
                 faults>>

\* A restart loses every call in progress and keeps PostgreSQL and Redis.
Crash ==
  /\ faults < MaxFaults
  /\ faults' = faults + 1
  /\ pc' = [r \in Request |->
              IF pc[r] \in {"opened", "locked", "checked", "undo"}
              THEN "refused" ELSE pc[r]]
  /\ cancelling' = {}
  /\ closing' = {}
  /\ unlocking' = [c \in Caller |-> NoOne]
  /\ stale' = [k \in Sweeper |-> {}]
  /\ freeing' = [k \in Sweeper |-> NoOne]
  /\ UNCHANGED <<inputVars, trip, overtaken, booking, lapsed, lock>>

-----------------------------------------------------------------------------
HoldSeat(r) ==
  \/ HoldOpen(r) \/ HoldRefuse(r)
  \/ HoldLock(r) \/ HoldConflict(r)
  \/ HoldCheck(r) \/ HoldCreate(r)
  \/ HoldAbort(r) \/ HoldUndo(r)

ConfirmBooking(c) == (\E r \in Request : Confirm(c, r)) \/ ConfirmUnlock(c)

ExpireStaleHolds(k) ==
  \/ SweepSelect(k)
  \/ \E r \in Request : SweepExpire(k, r)
  \/ SweepUnlock(k)
  \/ SweepFail(k)

Departure(t) ==
  \/ CancelCheck(t) \/ CancelCommit(t)
  \/ TripBoards(t)
  \/ CloseCheck(t) \/ CloseCommit(t)

Elapse ==
  \/ \E s \in Slot : LockExpires(s)
  \/ \E r \in Request : Lapse(r)

Next ==
  \/ \E r \in Request : HoldSeat(r)
  \/ \E c \in Caller : ConfirmBooking(c)
  \/ \E k \in Sweeper : ExpireStaleHolds(k)
  \/ \E t \in Trip : Departure(t)
  \/ Elapse
  \/ Crash

Spec == Init /\ [][Next]_vars

-----------------------------------------------------------------------------
(* Properties *)

\* Every variable keeps the shape the code gives it: the statuses are the
\* schema's, a lock is held by a request, and a sweep works on booking ids.
TypeOK ==
  /\ dto \in [Request -> Slot]
  /\ trip \in [Trip -> TripStatus]
  /\ cancelling \subseteq Trip
  /\ closing \subseteq Trip
  /\ booking \in [Request -> BookingStatus]
  /\ lapsed \subseteq Request
  /\ lock \in [Slot -> Request \cup {NoOne}]
  /\ pc \in [Request -> PC]
  /\ unlocking \in [Caller -> Request \cup {NoOne}]
  /\ stale \in [Sweeper -> SUBSET Request]
  /\ freeing \in [Sweeper -> Request \cup {NoOne}]
  /\ faults \in 0..MaxFaults
  /\ overtaken \subseteq Request

\* A seat is never sold twice: at most one active booking per seat of a
\* departure, whatever the locks, late confirmations and sweeps do
\* (the class comment of BookingsService, "anti-double-vente").
NoDoubleSale ==
  \A q, r \in Request :
    dto[q] = dto[r] /\ booking[q] \in Active /\ booking[r] \in Active => q = r

\* expireStaleHolds only ever takes a seat back after the passenger's time to
\* pay has passed, although it writes from a list read earlier.
ExpiredWasLate ==
  \A r \in Request :
    booking[r] = "EXPIRED" \/ (\E k \in Sweeper : r \in stale[k]) => r \in lapsed

\* A cancelled departure keeps no passenger, waiting or paid, but for the calls
\* it overtook: those that had read the departure on sale before (holdSeat does
\* not read it again, bookings.service.ts:50), and late confirmations.
CancelledIsCleared ==
  \A r \in Request :
    booking[r] \in Active /\ trip[dto[r].trip] = "CANCELLED" => r \in overtaken

\* What the component promises, the ledger of seats: a seat changes hands only
\* through being free.
Ledger == INSTANCE SeatLedger WITH holders <- [s \in Slot |-> Holders(s)]
ImplementsLedger == Ledger!Spec

\* ... and what the payments see of it, the rows without the locks.
Rows == INSTANCE BookingRows WITH swept <- UNION {stale[k] : k \in Sweeper}
ImplementsRows == Rows!Spec

-----------------------------------------------------------------------------
(* The minute job: @nestjs/schedule starts it every minute of the API's life, *)
(* and each started run goes on to its next query.                           *)
Fairness ==
  \A k \in Sweeper :
    /\ WF_vars(SweepSelect(k))
    /\ \A r \in Request : WF_vars(SweepExpire(k, r))
    /\ WF_vars(SweepUnlock(k))

FairSpec == Spec /\ Fairness

\* A hold whose time to pay has passed does not keep its seat off sale: it is
\* expired, paid late or cancelled, even when the caller never learned its id
\* and even if the API restarts in the middle of a sweep
\* ("pour remettre les sièges en vente", bookings.service.ts:143).
StaleHoldReleased ==
  \A r \in Request :
    (booking[r] = "PENDING_PAYMENT" /\ r \in lapsed)
      ~> booking[r] # "PENDING_PAYMENT"

-----------------------------------------------------------------------------
(* Claims of the comments that the code does not keep *)

\* expireStaleHolds expires "les bookings dont le paiement n'a jamais été
\* confirmé" (bookings.service.ts:142): never one that has been confirmed.
NeverExpiresConfirmed ==
  [][\A r \in Request : booking[r] = "CONFIRMED" => booking'[r] # "EXPIRED"]_vars

=============================================================================
