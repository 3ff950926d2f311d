------------------------------ MODULE Boarding ------------------------------
(***************************************************************************)
(* BoardingService: online scans, replayed offline scans and the closing   *)
(* of a departure, against the cancellation of the departure, payments     *)
(* confirmed late and sweeps that expire by id the bookings they selected  *)
(* before.  Every action is the code between two awaits.                   *)
(*                                                                         *)
(* A ticket is named by its booking.  Tokens of another agency or with a   *)
(* wrong signature are rejected without touching the state and left out.   *)
(***************************************************************************)
EXTENDS Naturals, Sequences

CONSTANTS
  Trip,         \* departures of the agency
  Booking,      \* bookings that have a ticket
  Controller,   \* concurrent calls of scan and syncOfflineScans
  MaxScans,     \* bound on the scans of one synchronisation (200 in the code)
  MaxFaults     \* bound on restarts

ASSUME MaxScansIsPositive == MaxScans \in Nat \ {0}
ASSUME MaxFaultsIsNat == MaxFaults \in Nat

VARIABLES
  tripOf,      \* the departure of each booking, never written
  trip,        \* Trip.status
  cancelling,  \* trips whose cancelTrip has passed its check
  closing,     \* trips whose closeTrip has passed its check
  booking,     \* Booking.status
  ticket,      \* Ticket.status
  boardedAt,   \* Ticket.boardedAt: the server's clock, the offline one, or null
  scans,       \* what each call has still to scan, the current scan first:
               \* <<ticket, departure scanned for, clock>>
  step,        \* the next query of the current scan
  admitted,    \* the tickets each call has found to board: result BOARDED
  used,        \* history: tickets no longer VALID when each call began
  stale,       \* bookings selected by a sweep before they were paid
  overtaken,   \* history: tickets each call has accepted whose booking a sweep
               \* has expired since
  faults       \* restarts so far

tripVars == <<trip, cancelling, closing>>
rowVars  == <<booking, ticket, boardedAt>>
callVars == <<scans, step, admitted, used>>
sweepVars == <<stale, overtaken>>
vars == <<tripOf, tripVars, rowVars, callVars, sweepVars, faults>>

Open == {"SCHEDULED", "BOARDING"}
TripStatus == Open \cup {"DEPARTED", "CANCELLED"}
BookingStatus == {"CONFIRMED", "EXPIRED", "CANCELLED"}
TicketStatus == {"VALID", "BOARDED", "CANCELLED"}
Clock == {"null", "now", "offline"}

\* Tickets issued for paid bookings; a sweep that selected the booking before it
\* was paid has expired it since, or still will (SeatHold, NeverExpiresConfirmed).
Init ==
  /\ tripOf \in [Booking -> Trip]
  /\ trip = [t \in Trip |-> "SCHEDULED"]
  /\ cancelling = {}
  /\ closing = {}
  /\ booking \in [Booking -> {"CONFIRMED", "EXPIRED"}]
  /\ ticket = [b \in Booking |-> "VALID"]
  /\ boardedAt = [b \in Booking |-> "null"]
  /\ scans = [c \in Controller |-> <<>>]
  /\ step = [c \in Controller |-> "trip"]
  /\ admitted = [c \in Controller |-> {}]
  /\ used = [c \in Controller |-> {}]
  /\ stale \in SUBSET Booking
  /\ overtaken = [c \in Controller |-> {}]
  /\ faults = 0

-----------------------------------------------------------------------------
(* The calls *)

Calls(c, list) ==
  /\ scans[c] = <<>>
  /\ scans' = [scans EXCEPT ![c] = list]
  /\ step' = [step EXCEPT ![c] = "trip"]
  /\ admitted' = [admitted EXCEPT ![c] = {}]
  /\ used' = [used EXCEPT ![c] = {b \in Booking : ticket[b] # "VALID"}]
  /\ overtaken' = [overtaken EXCEPT ![c] = {}]
  /\ UNCHANGED <<tripOf, tripVars, rowVars, stale, faults>>

ScanOnline(c) ==
  \E b \in Booking, t \in Trip :
    Calls(c, << <<b, t, "now">> >>)

\* One departure, at least one scan, the same ticket possibly twice.
SyncOfflineScans(c) ==
  \E t \in Trip, n \in 1..MaxScans : \E codes \in [1..n -> Booking] :
    Calls(c, [i \in 1..n |-> <<codes[i], t, "offline">>])

-----------------------------------------------------------------------------
(* scan and scanAt, for the first of the scans left *)

\* Its ticket, the departure it is scanned for, and whose clock it carries.
Code(c)    == Head(scans[c])[1]
Towards(c) == Head(scans[c])[2]
ScannedAt(c) == Head(scans[c])[3]

Reaches(c, query) == scans[c] # <<>> /\ step[c] = query

Proceeds(c, query) ==
  /\ step' = [step EXCEPT ![c] = query]
  /\ UNCHANGED <<scans, admitted, used>>

\* The result of the current scan is known; the loop takes the next one.
Answers(c, result) ==
  /\ scans' = [scans EXCEPT ![c] = Tail(@)]
  /\ step' = [step EXCEPT ![c] = "trip"]
  /\ admitted' = IF result = "BOARDED"
                 THEN [admitted EXCEPT ![c] = @ \cup {Code(c)}]
                 ELSE admitted
  /\ used' = used

ReadTrip(c) ==
  /\ Reaches(c, "trip")
  /\ IF trip[Towards(c)] \in Open
     THEN Proceeds(c, "ticket")
     ELSE Answers(c, "REJECTED")
  /\ UNCHANGED <<tripOf, tripVars, rowVars, sweepVars, faults>>

\* Mutant: only the ticket is looked at, not its booking.
AcceptableTicket(b, t) == tripOf[b] = t /\ ticket[b] # "CANCELLED"

\* The ticket is for this departure, not cancelled, and its booking is paid.
Acceptable(b, t) ==
  tripOf[b] = t /\ ticket[b] # "CANCELLED" /\ booking[b] = "CONFIRMED"

\* Mutant: a ticket on board is not told from a valid one.
ReadTicketTwice(c) ==
  /\ Reaches(c, "ticket")
  /\ IF Acceptable(Code(c), Towards(c))
     THEN Proceeds(c, "board")
     ELSE Answers(c, "REJECTED")
  /\ UNCHANGED <<tripOf, tripVars, rowVars, sweepVars, faults>>

ReadTicket(c) ==
  /\ Reaches(c, "ticket")
  /\ \/ ~Acceptable(Code(c), Towards(c)) /\ Answers(c, "REJECTED")
     \/ /\ Acceptable(Code(c), Towards(c))
        /\ IF ticket[Code(c)] = "BOARDED"
           THEN Answers(c, "ALREADY_BOARDED")
           ELSE Proceeds(c, "board")
  /\ UNCHANGED <<tripOf, tripVars, rowVars, sweepVars, faults>>

\* Mutant: scanning leaves the departure on sale.
LeavesSaleNever(t) == trip' = trip

\* Mutant: the update forgets the status it starts from.
LeavesSaleAlways(t) == trip' = [trip EXCEPT ![t] = "BOARDING"]

\* The first boarding takes the departure from SCHEDULED to BOARDING.
LeavesSale(t) ==
  trip' = IF trip[t] = "SCHEDULED" THEN [trip EXCEPT ![t] = "BOARDING"] ELSE trip

\* The transaction writes by id, whatever the ticket has become.
Board(c) ==
  /\ Reaches(c, "board")
  /\ ticket' = [ticket EXCEPT ![Code(c)] = "BOARDED"]
  /\ boardedAt' = [boardedAt EXCEPT ![Code(c)] = "now"]
  /\ LeavesSale(Towards(c))
  /\ IF ScannedAt(c) = "offline"
     THEN Proceeds(c, "clock")
     ELSE Answers(c, "BOARDED")
  /\ UNCHANGED <<tripOf, cancelling, closing, booking, sweepVars, faults>>

\* Mutant: the row is written back as it was read.
KeepOfflineTicket(c) ==
  /\ Reaches(c, "clock")
  /\ boardedAt' = [boardedAt EXCEPT ![Code(c)] = "offline"]
  /\ ticket' = [ticket EXCEPT ![Code(c)] = "VALID"]
  /\ Answers(c, "BOARDED")
  /\ UNCHANGED <<tripOf, tripVars, booking, sweepVars, faults>>

\* A replayed scan keeps the time it was made at.
KeepOfflineTime(c) ==
  /\ Reaches(c, "clock")
  /\ boardedAt' = [boardedAt EXCEPT ![Code(c)] = "offline"]
  /\ Answers(c, "BOARDED")
  /\ UNCHANGED <<tripOf, tripVars, booking, ticket, sweepVars, faults>>

-----------------------------------------------------------------------------
(* The departure and the bookings *)

CloseCheck(t) ==
  /\ trip[t] \in Open
  /\ closing' = closing \cup {t}
  /\ UNCHANGED <<tripOf, trip, cancelling, rowVars, callVars, sweepVars, faults>>

\* Mutant: closing records the arrival.
CloseCommitArrived(t) ==
  /\ t \in closing
  /\ closing' = closing \ {t}
  /\ trip' = [trip EXCEPT ![t] = "ARRIVED"]
  /\ UNCHANGED <<tripOf, cancelling, rowVars, callVars, sweepVars, faults>>

CloseCommit(t) ==
  /\ t \in closing
  /\ closing' = closing \ {t}
  /\ trip' = [trip EXCEPT ![t] = "DEPARTED"]
  /\ UNCHANGED <<tripOf, cancelling, rowVars, callVars, sweepVars, faults>>

CancelCheck(t) ==
  /\ trip[t] # "DEPARTED"
  /\ cancelling' = cancelling \cup {t}
  /\ UNCHANGED <<tripOf, trip, closing, rowVars, callVars, sweepVars, faults>>

CancelCommit(t) ==
  /\ t \in cancelling
  /\ cancelling' = cancelling \ {t}
  /\ trip' = [trip EXCEPT ![t] = "CANCELLED"]
  /\ booking' = [b \in Booking |->
                   IF tripOf[b] = t /\ booking[b] = "CONFIRMED"
                   THEN "CANCELLED" ELSE booking[b]]
  /\ ticket' = [b \in Booking |->
                  IF tripOf[b] = t THEN "CANCELLED" ELSE ticket[b]]
  /\ UNCHANGED <<tripOf, closing, boardedAt, callVars, sweepVars, faults>>

\* A second payment of the booking succeeds and confirms it by id.
ConfirmLate(b) ==
  /\ booking' = [booking EXCEPT ![b] = "CONFIRMED"]
  /\ UNCHANGED <<tripOf, tripVars, ticket, boardedAt, callVars, sweepVars, faults>>

\* c has accepted the ticket of booking b in the current call.
HasAccepted(c, b) ==
  b \in admitted[c] \/ (step[c] \in {"board", "clock"} /\ Code(c) = b)

\* expireStaleHolds writes by id what it selected before the payment came; b
\* stays selected if an overlapping sweep has it too.
SweepExpire(b) ==
  /\ b \in stale
  /\ booking' = [booking EXCEPT ![b] = "EXPIRED"]
  /\ stale' \in {stale, stale \ {b}}
  /\ overtaken' = [c \in Controller |->
                     overtaken[c] \cup {a \in {b} : HasAccepted(c, a)}]
  /\ UNCHANGED <<tripOf, tripVars, ticket, boardedAt, callVars, faults>>

Crash ==
  /\ faults < MaxFaults
  /\ faults' = faults + 1
  /\ cancelling' = {}
  /\ closing' = {}
  /\ scans' = [c \in Controller |-> <<>>]
  /\ step' = [c \in Controller |-> "trip"]
  /\ stale' = {}
  /\ UNCHANGED <<tripOf, trip, rowVars, admitted, used, overtaken>>

-----------------------------------------------------------------------------
Scanning(c) == ReadTrip(c) \/ ReadTicket(c) \/ Board(c) \/ KeepOfflineTime(c)

Next ==
  \/ \E c \in Controller : ScanOnline(c) \/ SyncOfflineScans(c) \/ Scanning(c)
  \/ \E t \in Trip :
       CloseCheck(t) \/ CloseCommit(t) \/ CancelCheck(t) \/ CancelCommit(t)
  \/ \E b \in Booking : ConfirmLate(b) \/ SweepExpire(b)
  \/ Crash

Spec == Init /\ [][Next]_vars

-----------------------------------------------------------------------------
(* Properties *)

\* Every variable keeps the shape the code gives it; a call works on scans of
\* one departure, and only a replayed scan waits to write its time.
TypeOK ==
  /\ tripOf \in [Booking -> Trip]
  /\ trip \in [Trip -> TripStatus]
  /\ cancelling \subseteq Trip
  /\ closing \subseteq Trip
  /\ booking \in [Booking -> BookingStatus]
  /\ ticket \in [Booking -> TicketStatus]
  /\ boardedAt \in [Booking -> Clock]
  /\ scans \in [Controller -> Seq(Booking \X Trip \X Clock)]
  /\ step \in [Controller -> {"trip", "ticket", "board", "clock"}]
  /\ \A c \in Controller :
       scans[c] = <<>> => step[c] = "trip"
  /\ admitted \in [Controller -> SUBSET Booking]
  /\ used \in [Controller -> SUBSET Booking]
  /\ stale \subseteq Booking
  /\ overtaken \in [Controller -> SUBSET Booking]
  /\ faults \in 0..MaxFaults

\* Who is let on board is on record and had paid: a ticket answered BOARDED is
\* never VALID again, so it cannot be used at the next control, and its booking is
\* an expired one only if a sweep with an old selection has expired it after this
\* call accepted the ticket; a call never accepts the ticket of a booking that
\* has already expired, even when the ticket outlived it.
AdmittedIsRecorded ==
  \A c \in Controller : \A b \in admitted[c] :
    /\ ticket[b] # "VALID"
    /\ booking[b] = "EXPIRED" => b \in overtaken[c]

\* From the first passenger on board the departure is off sale: no call of
\* holdSeat that reads the departure from then on finds it SCHEDULED.
BoardingClosesSale ==
  \A b \in Booking : boardedAt[b] # "null" => trip[tripOf[b]] # "SCHEDULED"

\* A scan that read the departure before it was closed or cancelled still boards
\* its ticket afterwards, but never reopens the departure.
EndedStaysEnded ==
  [][\A t \in Trip : trip[t] \notin Open => trip'[t] \notin Open]_vars

\* A scan is replayed without effect: a call that starts once a ticket is on
\* board or void never boards it, whether the list of an interrupted
\* synchronisation is sent again or the ticket was scanned elsewhere, and one
\* call boards a ticket it contains twice only once.
ReplayBoardsOnce ==
  \A c \in Controller :
    step[c] \in {"board", "clock"} => Code(c) \notin admitted[c] \cup used[c]

Life == INSTANCE TicketLife WITH paid <- Booking

\* Boarding implements the rest of the life of a ticket (module TicketLife): no
\* scan, replay, closing or cancellation brings a used or voided ticket back to
\* VALID, although all of them write by id what they decided from earlier reads.
ImplementsTicketLife == Life!Spec

-----------------------------------------------------------------------------
(* Claims of the comments that the code does not keep *)

\* "le contrôleur voit tout de suite qu'il y a doublon" (boarding.service.ts:60):
\* two calls under way never both answer BOARDED for one ticket.
DuplicateIsSeen ==
  \A c, d \in Controller : c # d => admitted[c] \cap admitted[d] = {}

=============================================================================
