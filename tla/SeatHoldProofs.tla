--------------------------- MODULE SeatHoldProofs ---------------------------
(***************************************************************************)
(* Theorems about SeatHold for any number of departures, seats, requests,  *)
(* callers of confirm and overlapping sweeps.  NoDoubleSale is inductive   *)
(* next to the typing of the state: the only steps that make a row active  *)
(* pass the partial index.  The ledger refinement uses it as well, since a *)
(* sweep that writes by id may only empty a slot that no other row holds.  *)
(***************************************************************************)
EXTENDS SeatHold, TLAPS

\* The steps of SeatHold keep the state well typed.
LEMMA TypeStep == TypeOK /\ [Next]_vars => TypeOK'
<1> SUFFICES ASSUME TypeOK, [Next]_vars PROVE TypeOK'
  OBVIOUS
<1> USE NoOneIsFresh, MaxFaultsIsNat
<1> USE DEF TypeOK, inputVars, tripVars, sweepVars, PC, BookingStatus, TripStatus
<1>1. ASSUME NEW r \in Request, HoldSeat(r) PROVE TypeOK'
  <2>1. CASE HoldOpen(r) \/ HoldRefuse(r)
    BY <2>1 DEF HoldOpen, HoldRefuse
  <2>2. CASE HoldLock(r) \/ HoldConflict(r)
    BY <2>2 DEF HoldLock, HoldConflict
  <2>3. CASE HoldCheck(r) \/ HoldAbort(r)
    BY <2>3 DEF HoldCheck, HoldAbort
  <2>4. CASE HoldCreate(r)
    BY <2>4 DEF HoldCreate
  <2>5. CASE HoldUndo(r)
    BY <2>5 DEF HoldUndo
  <2> QED BY <1>1, <2>1, <2>2, <2>3, <2>4, <2>5 DEF HoldSeat
<1>2. ASSUME NEW c \in Caller, ConfirmBooking(c) PROVE TypeOK'
  <2>1. ASSUME NEW r \in Request, Confirm(c, r) PROVE TypeOK'
    BY <2>1 DEF Confirm
  <2>2. CASE ConfirmUnlock(c)
    BY <2>2 DEF ConfirmUnlock
  <2> QED BY <1>2, <2>1, <2>2 DEF ConfirmBooking
<1>3. ASSUME NEW k \in Sweeper, ExpireStaleHolds(k) PROVE TypeOK'
  <2>1. CASE SweepSelect(k)
    BY <2>1 DEF SweepSelect, Overdue
  <2>2. ASSUME NEW r \in Request, SweepExpire(k, r) PROVE TypeOK'
    BY <2>2 DEF SweepExpire
  <2>3. CASE SweepUnlock(k)
    BY <2>3 DEF SweepUnlock
  <2>4. CASE SweepFail(k)
    BY <2>4 DEF SweepFail
  <2> QED BY <1>3, <2>1, <2>2, <2>3, <2>4 DEF ExpireStaleHolds
<1>4. ASSUME NEW t \in Trip, Departure(t) PROVE TypeOK'
  <2>1. CASE CancelCheck(t) \/ CloseCheck(t)
    BY <2>1 DEF CancelCheck, CloseCheck
  <2>2. CASE CancelCommit(t)
    BY <2>2 DEF CancelCommit, Cancelled
  <2>3. CASE TripBoards(t) \/ CloseCommit(t)
    BY <2>3 DEF TripBoards, CloseCommit
  <2> QED BY <1>4, <2>1, <2>2, <2>3 DEF Departure
<1>5. CASE Elapse
  <2>1. ASSUME NEW s \in Slot, LockExpires(s) PROVE TypeOK'
    BY <2>1 DEF LockExpires
  <2>2. ASSUME NEW r \in Request, Lapse(r) PROVE TypeOK'
    BY <2>2 DEF Lapse
  <2> QED BY <1>5, <2>1, <2>2 DEF Elapse
<1>6. CASE Crash
  BY <1>6 DEF Crash
<1>7. CASE UNCHANGED vars
  BY <1>7 DEF vars
<1> QED BY <1>1, <1>2, <1>3, <1>4, <1>5, <1>6, <1>7 DEF Next

LEMMA InitTyped == Init => TypeOK
BY NoOneIsFresh, MaxFaultsIsNat
   DEF Init, TypeOK, PC, BookingStatus, TripStatus

\* The state of seat booking is always well typed.
THEOREM TypeCorrect == Spec => []TypeOK
BY InitTyped, TypeStep, PTL DEF Spec

-----------------------------------------------------------------------------
(* What one step does to the bookings, the only fact about a step that seat  *)
(* ownership depends on.                                                     *)

\* No booking becomes active.
OnlyReleases ==
  \A r \in Request : booking'[r] \in Active => booking[r] \in Active

\* Booking r becomes or stays active, past the partial index; no other changes.
TakesIndexed(r) ==
  /\ IndexAllows(r)
  /\ booking'[r] \in Active
  /\ \A q \in Request \ {r} : booking'[q] = booking[q]

LEMMA StepEffect ==
  ASSUME TypeOK, [Next]_vars
  PROVE  /\ dto' = dto
         /\ OnlyReleases \/ \E r \in Request : TakesIndexed(r)
<1> USE DEF TypeOK, inputVars, OnlyReleases, TakesIndexed, Active
<1>1. ASSUME NEW r \in Request, HoldSeat(r)
      PROVE  dto' = dto /\ (OnlyReleases \/ TakesIndexed(r))
  <2>1. CASE HoldCreate(r)
    BY <2>1 DEF HoldCreate
  <2>2. CASE dto' = dto /\ booking' = booking
    BY <2>2
  <2> QED
    BY <1>1, <2>1, <2>2 DEF HoldSeat, HoldOpen, HoldRefuse, HoldLock,
       HoldConflict, HoldCheck, HoldAbort, HoldUndo
<1>2. ASSUME NEW c \in Caller, ConfirmBooking(c)
      PROVE  /\ dto' = dto
             /\ OnlyReleases \/ \E r \in Request : TakesIndexed(r)
  <2>1. ASSUME NEW r \in Request, Confirm(c, r)
        PROVE  dto' = dto /\ TakesIndexed(r)
    BY <2>1 DEF Confirm
  <2>2. CASE ConfirmUnlock(c)
    BY <2>2 DEF ConfirmUnlock
  <2> QED BY <1>2, <2>1, <2>2 DEF ConfirmBooking
<1>3. ASSUME NEW k \in Sweeper, ExpireStaleHolds(k)
      PROVE  dto' = dto /\ OnlyReleases
  <2>1. ASSUME NEW r \in Request, SweepExpire(k, r)
        PROVE  dto' = dto /\ OnlyReleases
    BY <2>1 DEF SweepExpire
  <2> QED
    BY <1>3, <2>1 DEF ExpireStaleHolds, SweepSelect, SweepUnlock, SweepFail
<1>4. ASSUME NEW t \in Trip, Departure(t)
      PROVE  dto' = dto /\ OnlyReleases
  <2>1. CASE CancelCommit(t)
    BY <2>1 DEF CancelCommit, Cancelled
  <2> QED
    BY <1>4, <2>1 DEF Departure, CancelCheck, TripBoards, CloseCheck, CloseCommit
<1>5. CASE Elapse \/ Crash
  BY <1>5 DEF Elapse, LockExpires, Lapse, Crash
<1>6. CASE UNCHANGED vars
  BY <1>6 DEF vars
<1> QED BY <1>1, <1>2, <1>3, <1>4, <1>5, <1>6 DEF Next

-----------------------------------------------------------------------------
LEMMA DoubleSaleStep ==
  TypeOK /\ NoDoubleSale /\ [Next]_vars => NoDoubleSale'
<1> SUFFICES ASSUME TypeOK, NoDoubleSale, [Next]_vars PROVE NoDoubleSale'
  OBVIOUS
<1>1. dto' = dto
  BY StepEffect
<1>2. CASE OnlyReleases
  BY <1>1, <1>2 DEF OnlyReleases, NoDoubleSale
<1>3. ASSUME NEW r \in Request, TakesIndexed(r) PROVE NoDoubleSale'
  <2>1. ASSUME NEW q \in Request, q # r, dto[q] = dto[r]
        PROVE  booking'[q] \notin Active
    BY <1>3, <2>1 DEF TakesIndexed, IndexAllows, Holders
  <2> QED
    BY <1>1, <1>3, <2>1 DEF NoDoubleSale, TakesIndexed
<1> QED BY <1>2, <1>3, StepEffect

\* No seat of any departure is ever held by two bookings, for any number of
\* concurrent requests, confirmations, sweeps and restarts.
THEOREM SeatSoldOnce == Spec => []NoDoubleSale
<1>1. Init => NoDoubleSale
  BY DEF Init, NoDoubleSale, Active
<1> QED BY <1>1, InitTyped, TypeStep, DoubleSaleStep, PTL DEF Spec

-----------------------------------------------------------------------------
LEMMA InitLedger == Init => Ledger!Init
<1> SUFFICES ASSUME Init PROVE [s \in Slot |-> Holders(s)] = [s \in Slot |-> {}]
  BY DEF Ledger!Init
<1>1. \A s \in Slot : Holders(s) = {}
  BY DEF Init, Holders, Active
<1> QED BY <1>1

\* Releasing bookings empties some slots of the ledger and leaves the others.
LEMMA ReleaseStep ==
  ASSUME TypeOK, NoDoubleSale, dto' = dto, OnlyReleases
  PROVE  Ledger!Next
<1> DEFINE Emptied == {s \in Slot : Holders(s)' = {}}
<1>1. ASSUME NEW s \in Slot \ Emptied PROVE Holders(s)' = Holders(s)
  <2>1. Holders(s)' \subseteq Holders(s)
    BY DEF OnlyReleases, Holders
  <2>2. \A q, r \in Holders(s) : q = r
    BY DEF Holders, NoDoubleSale
  <2> QED BY <1>1, <2>1, <2>2
<1>2. [s \in Slot |-> Holders(s)]'
        = [s \in Slot |-> IF s \in Emptied THEN {}
                          ELSE [x \in Slot |-> Holders(x)][s]]
  BY <1>1
<1>3. Emptied \in SUBSET Slot
  OBVIOUS
<1>4. Ledger!GiveUp(Emptied)
  BY <1>2 DEF Ledger!GiveUp
<1> QED BY <1>3, <1>4 DEF Ledger!Next

\* A booking that passes the index takes a free slot or keeps its own.
LEMMA TakeStep ==
  ASSUME TypeOK, dto' = dto, NEW r \in Request, TakesIndexed(r)
  PROVE  [Ledger!Next]_([s \in Slot |-> Holders(s)])
<1> DEFINE mine == dto[r]
<1>0. mine \in Slot
  BY DEF TypeOK
<1>1. Holders(mine)' = {r}
  BY DEF Holders, TakesIndexed, IndexAllows
<1>2. ASSUME NEW s \in Slot, s # mine PROVE Holders(s)' = Holders(s)
  BY <1>2 DEF Holders, TakesIndexed
<1>3. CASE Holders(mine) = {}
  <2>1. [s \in Slot |-> Holders(s)]'
          = [[s \in Slot |-> Holders(s)] EXCEPT ![mine] = {r}]
    BY <1>0, <1>1, <1>2
  <2>2. Ledger!Take(mine, r)
    BY <1>0, <1>3, <2>1 DEF Ledger!Take
  <2> QED BY <1>0, <2>2 DEF Ledger!Next
<1>4. CASE Holders(mine) = {r}
  BY <1>1, <1>2, <1>4
<1> QED BY <1>3, <1>4 DEF TakesIndexed, IndexAllows

\* The handlers, jobs and races of the code implement the ledger of seats:
\* a seat passes from one booking to another only through being free.
THEOREM LedgerImplemented == Spec => ImplementsLedger
<1>1. TypeOK /\ NoDoubleSale /\ [Next]_vars
        => [Ledger!Next]_([s \in Slot |-> Holders(s)])
  <2> SUFFICES ASSUME TypeOK, NoDoubleSale, [Next]_vars
               PROVE  [Ledger!Next]_([s \in Slot |-> Holders(s)])
    OBVIOUS
  <2> QED BY StepEffect, ReleaseStep, TakeStep
<1> QED
  BY <1>1, InitLedger, TypeCorrect, SeatSoldOnce, PTL
  DEF Spec, ImplementsLedger, Ledger!Spec

-----------------------------------------------------------------------------
(* The rows as the payments see them.                                        *)

\* A request that has not reached its insert has no row, and a sweep selects
\* rows that exist: every insert creates a row, none brings one back.
InsertIsFirst ==
  /\ \A r \in Request :
       pc[r] \in {"new", "opened", "locked", "checked"} => booking[r] = "NONE"
  /\ \A k \in Sweeper : \A r \in stale[k] : booking[r] # "NONE"

LEMMA InsertStep ==
  TypeOK /\ InsertIsFirst /\ [Next]_vars => InsertIsFirst'
<1> SUFFICES ASSUME TypeOK, InsertIsFirst, [Next]_vars PROVE InsertIsFirst'
  OBVIOUS
<1> USE DEF TypeOK, InsertIsFirst, inputVars, tripVars, sweepVars, Active
<1>1. ASSUME NEW r \in Request, HoldSeat(r) PROVE InsertIsFirst'
  <2>1. CASE HoldCreate(r)
    BY <2>1 DEF HoldCreate
  <2>2. CASE HoldOpen(r) \/ HoldLock(r) \/ HoldCheck(r)
    BY <2>2 DEF HoldOpen, HoldLock, HoldCheck
  <2>3. CASE HoldRefuse(r) \/ HoldConflict(r) \/ HoldAbort(r) \/ HoldUndo(r)
    BY <2>3 DEF HoldRefuse, HoldConflict, HoldAbort, HoldUndo
  <2> QED BY <1>1, <2>1, <2>2, <2>3 DEF HoldSeat
<1>2. ASSUME NEW c \in Caller, ConfirmBooking(c) PROVE InsertIsFirst'
  BY <1>2 DEF ConfirmBooking, Confirm, ConfirmUnlock
<1>3. ASSUME NEW k \in Sweeper, ExpireStaleHolds(k) PROVE InsertIsFirst'
  <2>1. CASE SweepSelect(k)
    BY <2>1 DEF SweepSelect, Overdue
  <2>2. ASSUME NEW r \in Request, SweepExpire(k, r) PROVE InsertIsFirst'
    BY <2>2 DEF SweepExpire
  <2> QED BY <1>3, <2>1, <2>2 DEF ExpireStaleHolds, SweepUnlock, SweepFail
<1>4. ASSUME NEW t \in Trip, Departure(t) PROVE InsertIsFirst'
  BY <1>4 DEF Departure, CancelCheck, CancelCommit, Cancelled, TripBoards, CloseCheck,
     CloseCommit
<1>5. CASE Elapse \/ Crash
  BY <1>5 DEF Elapse, LockExpires, Lapse, Crash
<1>6. CASE UNCHANGED vars
  BY <1>6 DEF vars
<1> QED BY <1>1, <1>2, <1>3, <1>4, <1>5, <1>6 DEF Next

LEMMA InitInsert == Init => InsertIsFirst
BY DEF Init, InsertIsFirst

LEMMA InitRows == Init => Rows!Init
BY DEF Init, Rows!Init, Rows!Slot, Slot

\* Every step of the code is a step of the rows, or one they do not see.
LEMMA RowsStep ==
  ASSUME TypeOK, InsertIsFirst, [Next]_vars
  PROVE  [Rows!Next]_(Rows!rowVars)
<1> DEFINE Swept == UNION {stale[k] : k \in Sweeper}
<1> USE DEF TypeOK, inputVars, tripVars, sweepVars, Rows!rowVars
<1>0. ASSUME UNCHANGED <<dto, booking, lapsed, stale>>
      PROVE  UNCHANGED Rows!rowVars
  BY <1>0
<1>1. ASSUME NEW r \in Request, HoldSeat(r)
      PROVE  [Rows!Next]_(Rows!rowVars)
  <2>1. CASE HoldCreate(r)
    <3>1. Rows!Create(r)
      BY <2>1 DEF HoldCreate, InsertIsFirst, Rows!Create, Rows!IndexAllows,
         Rows!Holders, Rows!Active, IndexAllows, Holders, Active
    <3> QED BY <3>1 DEF Rows!Next
  <2> QED
    BY <1>0, <1>1, <2>1 DEF HoldSeat, HoldOpen, HoldRefuse, HoldLock,
       HoldConflict, HoldCheck, HoldAbort, HoldUndo
<1>2. ASSUME NEW c \in Caller, ConfirmBooking(c)
      PROVE  [Rows!Next]_(Rows!rowVars)
  <2>1. ASSUME NEW r \in Request, Confirm(c, r) PROVE Rows!Confirm(r)
    BY <2>1 DEF Confirm, Rows!Confirm, Rows!IndexAllows, Rows!Holders,
       Rows!Active, IndexAllows, Holders, Active
  <2>2. CASE ConfirmUnlock(c)
    BY <1>0, <2>2 DEF ConfirmUnlock
  <2> QED BY <1>2, <2>1, <2>2 DEF ConfirmBooking, Rows!Next
<1>3. ASSUME NEW k \in Sweeper, ExpireStaleHolds(k)
      PROVE  [Rows!Next]_(Rows!rowVars)
  <2>1. CASE SweepSelect(k)
    <3>1. Swept' = Swept \cup Rows!Overdue
      BY <2>1 DEF SweepSelect, Overdue, Rows!Overdue
    <3>2. Rows!Select
      BY <2>1, <3>1 DEF SweepSelect, Rows!Select
    <3> QED BY <3>2 DEF Rows!Next
  <2>2. ASSUME NEW r \in Request, SweepExpire(k, r)
        PROVE  [Rows!Next]_(Rows!rowVars)
    <3>1. r \in Swept
      BY <2>2 DEF SweepExpire
    <3>2. \A j \in Sweeper :
            stale'[j] = IF j = k THEN stale[k] \ {r} ELSE stale[j]
      BY <2>2 DEF SweepExpire
    <3>3. Swept' \in {Swept, Swept \ {r}}
      <4>1. CASE \E j \in Sweeper \ {k} : r \in stale[j]
        BY <3>2, <4>1
      <4>2. CASE \A j \in Sweeper \ {k} : r \notin stale[j]
        BY <3>2, <4>2
      <4> QED BY <4>1, <4>2
    <3>4. Rows!Expire(r)
      BY <2>2, <3>1, <3>3 DEF SweepExpire, Rows!Expire
    <3> QED BY <3>4 DEF Rows!Next
  <2>3. CASE SweepUnlock(k)
    BY <1>0, <2>3 DEF SweepUnlock
  <2>4. CASE SweepFail(k)
    <3>1. Swept' \in SUBSET Swept
      BY <2>4 DEF SweepFail
    <3>2. Rows!Forget
      BY <2>4, <3>1 DEF SweepFail, Rows!Forget
    <3> QED BY <3>2 DEF Rows!Next
  <2> QED BY <1>3, <2>1, <2>2, <2>3, <2>4 DEF ExpireStaleHolds
<1>4. ASSUME NEW t \in Trip, Departure(t)
      PROVE  [Rows!Next]_(Rows!rowVars)
  <2>1. CASE CancelCommit(t)
    <3>1. Rows!CancelTrip(t)
      BY <2>1 DEF CancelCommit, Cancelled, Rows!CancelTrip, Rows!Active, Active
    <3> QED BY <3>1 DEF Rows!Next
  <2> QED
    BY <1>0, <1>4, <2>1 DEF Departure, CancelCheck, TripBoards, CloseCheck,
       CloseCommit
<1>5. CASE Elapse
  <2>1. ASSUME NEW r \in Request, Lapse(r) PROVE Rows!Lapse(r)
    BY <2>1 DEF Lapse, Rows!Lapse
  <2> QED BY <1>0, <1>5, <2>1 DEF Elapse, LockExpires, Rows!Next
<1>6. CASE Crash
  <2>1. Swept' \in SUBSET Swept
    BY <1>6 DEF Crash
  <2>2. Rows!Forget
    BY <1>6, <2>1 DEF Crash, Rows!Forget
  <2> QED BY <2>2 DEF Rows!Next
<1>7. CASE UNCHANGED vars
  BY <1>0, <1>7 DEF vars
<1> QED BY <1>1, <1>2, <1>3, <1>4, <1>5, <1>6, <1>7 DEF Next

\* SeatHold implements BookingRows, on which the sale of tickets is modelled:
\* whatever TicketSale shows for those rows holds with the locks and the
\* overlapping calls and sweeps of SeatHold underneath.
THEOREM RowsImplemented == Spec => ImplementsRows
<1>1. Spec => []InsertIsFirst
  BY InitInsert, InsertStep, TypeCorrect, PTL DEF Spec
<1>2. TypeOK /\ InsertIsFirst /\ [Next]_vars => [Rows!Next]_(Rows!rowVars)
  BY RowsStep
<1> QED BY <1>1, <1>2, InitRows, TypeCorrect, PTL
  DEF Spec, ImplementsRows, Rows!Spec

-----------------------------------------------------------------------------
\* A seat is only ever taken back from a booking whose time has passed, for any
\* number of sweeps working from lists read earlier.
THEOREM OnlyLateExpires == Spec => []ExpiredWasLate
<1>1. Init => ExpiredWasLate
  BY DEF Init, ExpiredWasLate
<1>2. TypeOK /\ ExpiredWasLate /\ [Next]_vars => ExpiredWasLate'
  <2> SUFFICES ASSUME TypeOK, ExpiredWasLate, [Next]_vars
               PROVE  ExpiredWasLate'
    OBVIOUS
  <2> USE DEF TypeOK, ExpiredWasLate, inputVars, tripVars, sweepVars
  <2>1. ASSUME NEW r \in Request, HoldSeat(r) PROVE ExpiredWasLate'
    BY <2>1 DEF HoldSeat, HoldOpen, HoldRefuse, HoldLock, HoldConflict,
       HoldCheck, HoldCreate, HoldAbort, HoldUndo
  <2>2. ASSUME NEW c \in Caller, ConfirmBooking(c) PROVE ExpiredWasLate'
    BY <2>2 DEF ConfirmBooking, Confirm, ConfirmUnlock
  <2>3. ASSUME NEW k \in Sweeper, ExpireStaleHolds(k) PROVE ExpiredWasLate'
    <3>1. CASE SweepSelect(k)
      BY <3>1 DEF SweepSelect, Overdue
    <3>2. ASSUME NEW r \in Request, SweepExpire(k, r) PROVE ExpiredWasLate'
      BY <3>2 DEF SweepExpire
    <3> QED BY <2>3, <3>1, <3>2 DEF ExpireStaleHolds, SweepUnlock, SweepFail
  <2>4. ASSUME NEW t \in Trip, Departure(t) PROVE ExpiredWasLate'
    BY <2>4 DEF Departure, CancelCheck, CancelCommit, Cancelled, TripBoards, CloseCheck,
       CloseCommit
  <2>5. CASE Elapse \/ Crash
    BY <2>5 DEF Elapse, LockExpires, Lapse, Crash
  <2>6. CASE UNCHANGED vars
    BY <2>6 DEF vars
  <2> QED BY <2>1, <2>2, <2>3, <2>4, <2>5, <2>6 DEF Next
<1> QED BY <1>1, <1>2, TypeCorrect, PTL DEF Spec

-----------------------------------------------------------------------------
(* Cancelled departures                                                      *)

\* Only the calls the cancellation has overtaken can still insert.
Overtaken ==
  \A r \in Request :
    Selling(r) /\ trip[dto[r].trip] = "CANCELLED" => r \in overtaken

LEMMA ClearedStep ==
  ASSUME TypeOK, Overtaken, CancelledIsCleared, [Next]_vars
  PROVE  Overtaken' /\ CancelledIsCleared'
<1> DEFINE Cleared == Overtaken /\ CancelledIsCleared
<1> SUFFICES Cleared'
  OBVIOUS
<1> USE DEF TypeOK, Overtaken, CancelledIsCleared, Selling, Active, inputVars,
        tripVars, sweepVars
<1>0. \A r \in Request : dto[r].trip \in Trip
  BY DEF Slot
<1>1. ASSUME NEW r \in Request, HoldSeat(r) PROVE Cleared'
  <2>1. CASE HoldOpen(r)
    BY <2>1 DEF HoldOpen
  <2>2. CASE HoldLock(r) \/ HoldCheck(r)
    BY <2>2 DEF HoldLock, HoldCheck
  <2>3. CASE HoldCreate(r)
    BY <2>3 DEF HoldCreate
  <2>4. CASE HoldRefuse(r) \/ HoldConflict(r) \/ HoldAbort(r) \/ HoldUndo(r)
    BY <2>4 DEF HoldRefuse, HoldConflict, HoldAbort, HoldUndo
  <2> QED BY <1>1, <2>1, <2>2, <2>3, <2>4 DEF HoldSeat
<1>2. ASSUME NEW c \in Caller, ConfirmBooking(c) PROVE Cleared'
  BY <1>2 DEF ConfirmBooking, Confirm, ConfirmUnlock
<1>3. ASSUME NEW k \in Sweeper, ExpireStaleHolds(k) PROVE Cleared'
  <2>1. ASSUME NEW r \in Request, SweepExpire(k, r) PROVE Cleared'
    BY <2>1 DEF SweepExpire
  <2> QED
    BY <1>3, <2>1 DEF ExpireStaleHolds, SweepSelect, SweepUnlock, SweepFail
<1>4. ASSUME NEW t \in Trip, Departure(t) PROVE Cleared'
  <2>1. CASE CancelCommit(t)
    BY <1>0, <2>1 DEF CancelCommit, Cancelled
  <2>2. CASE TripBoards(t) \/ CloseCommit(t)
    BY <1>0, <2>2 DEF TripBoards, CloseCommit
  <2> QED BY <1>4, <2>1, <2>2 DEF Departure, CancelCheck, CloseCheck
<1>5. CASE Elapse \/ Crash
  BY <1>5 DEF Elapse, LockExpires, Lapse, Crash
<1>6. CASE UNCHANGED vars
  BY <1>6 DEF vars
<1> QED BY <1>1, <1>2, <1>3, <1>4, <1>5, <1>6 DEF Next

\* A cancelled departure keeps only the passengers of the calls it overtook,
\* however cancellations, closings, sweeps and restarts interleave with them.
THEOREM CancellationClears == Spec => []CancelledIsCleared
<1>1. Init => Overtaken /\ CancelledIsCleared
  BY DEF Init, Overtaken, CancelledIsCleared, Selling, Active
<1> QED BY <1>1, ClearedStep, TypeCorrect, PTL DEF Spec

=============================================================================
