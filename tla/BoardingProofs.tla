--------------------------- MODULE BoardingProofs ---------------------------
(***************************************************************************)
(* Theorems about Boarding for any number of departures, tickets, calls    *)
(* and scans of a call.  A scan writes by id what it decided two queries   *)
(* before; UnderWay says what is still true of the ticket when it writes:  *)
(* the ticket is for the departure scanned, and its booking, which may     *)
(* have been cancelled meanwhile, is expired only by a sweep since.        *)
(***************************************************************************)
EXTENDS Boarding, TLAPS

\* What a scan that has passed its checks relies on.
UnderWay ==
  \A c \in Controller :
    /\ step[c] \in {"board", "clock"} =>
         /\ scans[c] # <<>>
         /\ tripOf[Code(c)] = Towards(c)
         /\ booking[Code(c)] = "EXPIRED" => Code(c) \in overtaken[c]
    /\ step[c] = "clock" =>
         ticket[Code(c)] # "VALID" /\ boardedAt[Code(c)] # "null"

\* What was no longer VALID when a call began is not VALID again.
UsedStays == \A c \in Controller : \A b \in used[c] : ticket[b] # "VALID"

IInv ==
  /\ TypeOK /\ UnderWay /\ UsedStays
  /\ AdmittedIsRecorded /\ BoardingClosesSale /\ ReplayBoardsOnce

\* The scan a call works on, and what is left after it, are well typed.
LEMMA CurrentTyped ==
  ASSUME TypeOK, NEW c \in Controller, scans[c] # <<>>
  PROVE  /\ Code(c) \in Booking /\ Towards(c) \in Trip /\ ScannedAt(c) \in Clock
         /\ Tail(scans[c]) \in Seq(Booking \X Trip \X Clock)
<1>1. scans[c] \in Seq(Booking \X Trip \X Clock)
  BY DEF TypeOK
<1>2. Head(scans[c]) \in Booking \X Trip \X Clock
  BY <1>1
<1>3. Tail(scans[c]) \in Seq(Booking \X Trip \X Clock)
  BY <1>1
<1> QED BY <1>2, <1>3 DEF Code, Towards, ScannedAt

LEMMA InitHolds == Init => IInv
<1> SUFFICES ASSUME Init PROVE IInv
  OBVIOUS
<1> USE MaxFaultsIsNat DEF Init
<1>1. TypeOK
  BY DEF TypeOK, TripStatus, Open, BookingStatus, TicketStatus, Clock
<1>2. UnderWay /\ UsedStays /\ AdmittedIsRecorded /\ BoardingClosesSale /\ ReplayBoardsOnce
  BY DEF UnderWay, UsedStays, AdmittedIsRecorded, BoardingClosesSale, ReplayBoardsOnce
<1> QED BY <1>1, <1>2 DEF IInv

\* What the calls do to the state of the others.
LEMMA CallStep ==
  ASSUME IInv, NEW c \in Controller, ScanOnline(c) \/ SyncOfflineScans(c)
  PROVE  IInv'
<1>1. PICK list \in Seq(Booking \X Trip \X Clock) : Calls(c, list)
  <2>1. CASE ScanOnline(c)
    <3>1. PICK b \in Booking, t \in Trip : Calls(c, << <<b, t, "now">> >>)
      BY <2>1 DEF ScanOnline
    <3>2. << <<b, t, "now">> >> \in Seq(Booking \X Trip \X Clock)
      BY DEF Clock
    <3> QED BY <3>1, <3>2
  <2>2. CASE SyncOfflineScans(c)
    <3>0. PICK t \in Trip, n \in 1..MaxScans : \E codes \in [1..n -> Booking] :
            Calls(c, [i \in 1..n |-> <<codes[i], t, "offline">>])
      BY <2>2 DEF SyncOfflineScans
    <3>1. PICK codes \in [1..n -> Booking] :
            Calls(c, [i \in 1..n |-> <<codes[i], t, "offline">>])
      BY <3>0
    <3>2. n \in Nat
      BY MaxScansIsPositive
    <3>3. [i \in 1..n |-> <<codes[i], t, "offline">>] \in Seq(Booking \X Trip \X Clock)
      BY <3>2 DEF Clock
    <3> QED BY <3>1, <3>3
  <2> QED BY <2>1, <2>2
<1> USE DEF IInv, Calls, tripVars, rowVars, callVars, sweepVars
<1>2. TypeOK'
  BY <1>1 DEF TypeOK
<1>3. UnderWay'
  BY <1>1 DEF UnderWay, TypeOK, Code, Towards
<1>4. UsedStays'
  BY <1>1 DEF UsedStays, TypeOK
<1>5. AdmittedIsRecorded' /\ BoardingClosesSale'
  BY <1>1 DEF AdmittedIsRecorded, BoardingClosesSale, TypeOK
<1>6. ReplayBoardsOnce'
  BY <1>1 DEF ReplayBoardsOnce, TypeOK, Code
<1> QED BY <1>2, <1>3, <1>4, <1>5, <1>6

\* One query of a scan.
LEMMA ScanStep ==
  ASSUME IInv, NEW c \in Controller, Scanning(c)
  PROVE  IInv'
<1>1. scans[c] # <<>>
  BY DEF Scanning, ReadTrip, ReadTicket, Board, KeepOfflineTime, Reaches
<1>2. /\ Code(c) \in Booking /\ Towards(c) \in Trip /\ ScannedAt(c) \in Clock
      /\ Tail(scans[c]) \in Seq(Booking \X Trip \X Clock)
  BY <1>1, CurrentTyped DEF IInv
<1> USE <1>1, <1>2 DEF IInv, Reaches, Proceeds, Answers, tripVars, rowVars, callVars, sweepVars
<1>3. CASE ReadTrip(c)
  <2>1. TypeOK'
    BY <1>3 DEF ReadTrip, TypeOK
  <2>2. UnderWay'
    BY <1>3 DEF ReadTrip, TypeOK, UnderWay, Code, Towards
  <2>3. UsedStays' /\ AdmittedIsRecorded' /\ BoardingClosesSale' /\ ReplayBoardsOnce'
    BY <1>3 DEF ReadTrip, TypeOK, UsedStays, AdmittedIsRecorded, BoardingClosesSale,
       ReplayBoardsOnce, Code
  <2> QED BY <2>1, <2>2, <2>3
<1>4. CASE ReadTicket(c)
  <2>1. TypeOK'
    BY <1>4 DEF ReadTicket, TypeOK
  <2>2. UnderWay'
    BY <1>4 DEF ReadTicket, TypeOK, UnderWay, Code, Towards, Acceptable
  <2>3. UsedStays' /\ AdmittedIsRecorded' /\ BoardingClosesSale'
    BY <1>4 DEF ReadTicket, TypeOK, UsedStays, AdmittedIsRecorded, BoardingClosesSale
  <2>4. ReplayBoardsOnce'
    <3>1. CASE step'[c] = "board"
      <4>1. /\ ticket[Code(c)] = "VALID" /\ Code(c)' = Code(c)
            /\ admitted' = admitted /\ used' = used
            /\ scans' = scans /\ step' = [step EXCEPT ![c] = "board"]
        BY <1>4, <3>1 DEF ReadTicket, TypeOK, Acceptable, TicketStatus, Code
      <4>2. Code(c) \notin admitted[c] \cup used[c]
        BY <4>1 DEF AdmittedIsRecorded, UsedStays
      <4> QED BY <4>1, <4>2 DEF ReplayBoardsOnce, TypeOK, Code
    <3>2. CASE step'[c] # "board"
      BY <1>4, <3>2 DEF ReadTicket, TypeOK, ReplayBoardsOnce, Code
    <3> QED BY <3>1, <3>2
  <2> QED BY <2>1, <2>2, <2>3, <2>4
<1>5. CASE Board(c)
  <2>1. TypeOK'
    <3> USE DEF TypeOK
    <3>1. /\ ticket' \in [Booking -> TicketStatus]
          /\ boardedAt' \in [Booking -> Clock]
      BY <1>5 DEF Board, Clock, TicketStatus
    <3>2. trip' \in [Trip -> TripStatus]
      BY <1>5 DEF Board, LeavesSale, TripStatus, Open
    <3>3. /\ scans' \in [Controller -> Seq(Booking \X Trip \X Clock)]
          /\ step' \in [Controller -> {"trip", "ticket", "board", "clock"}]
          /\ \A d \in Controller : scans'[d] = <<>> => step'[d] = "trip"
          /\ admitted' \in [Controller -> SUBSET Booking]
          /\ used' = used
      <4>1. CASE ScannedAt(c) = "offline"
        BY <1>5, <4>1 DEF Board
      <4>2. CASE ScannedAt(c) # "offline"
        <5>1. /\ scans' = [scans EXCEPT ![c] = Tail(@)]
              /\ step' = [step EXCEPT ![c] = "trip"]
              /\ admitted' = [admitted EXCEPT ![c] = @ \cup {Code(c)}]
              /\ used' = used
          BY <1>5, <4>2 DEF Board
        <5> QED BY <5>1
      <4> QED BY <4>1, <4>2
    <3> QED BY <1>5, <3>1, <3>2, <3>3 DEF Board
  <2>a. /\ \A b \in Booking :
             /\ ticket'[b] = IF b = Code(c) THEN "BOARDED" ELSE ticket[b]
             /\ boardedAt'[b] = IF b = Code(c) THEN "now" ELSE boardedAt[b]
        /\ booking' = booking /\ tripOf' = tripOf /\ overtaken' = overtaken
    <3>1. /\ ticket' = [ticket EXCEPT ![Code(c)] = "BOARDED"]
          /\ boardedAt' = [boardedAt EXCEPT ![Code(c)] = "now"]
          /\ booking' = booking /\ tripOf' = tripOf /\ overtaken' = overtaken
      BY <1>5 DEF Board
    <3> QED BY <3>1 DEF TypeOK
  <2>b. \A t \in Trip :
          trip'[t] = "SCHEDULED" => trip[t] = "SCHEDULED" /\ t # Towards(c)
    BY <1>5 DEF Board, LeavesSale, TypeOK
  <2>c. /\ \A d \in Controller \ {c} :
             scans'[d] = scans[d] /\ step'[d] = step[d] /\ admitted'[d] = admitted[d]
        /\ admitted'[c] \subseteq admitted[c] \cup {Code(c)}
        /\ step'[c] = "trip" \/ (step'[c] = "clock" /\ scans'[c] = scans[c])
        /\ used' = used
    <3>1. CASE ScannedAt(c) = "offline"
      BY <1>5, <3>1 DEF Board, TypeOK
    <3>2. CASE ScannedAt(c) # "offline"
      BY <1>5, <3>2 DEF Board, TypeOK
    <3> QED BY <3>1, <3>2
  <2>d. /\ step[c] = "board" /\ tripOf[Code(c)] = Towards(c)
        /\ booking[Code(c)] = "EXPIRED" => Code(c) \in overtaken[c]
    BY <1>5 DEF Board, UnderWay
  <2>2. UnderWay'
    <3> SUFFICES ASSUME NEW d \in Controller, step'[d] \in {"board", "clock"}
                 PROVE  /\ scans'[d] # <<>>
                        /\ tripOf'[Code(d)'] = Towards(d)'
                        /\ booking'[Code(d)'] = "EXPIRED"
                             => Code(d)' \in overtaken'[d]
                        /\ step'[d] = "clock" =>
                             ticket'[Code(d)'] # "VALID" /\ boardedAt'[Code(d)'] # "null"
      BY DEF UnderWay
    <3>1. scans'[d] = scans[d] /\ Code(d)' = Code(d) /\ Towards(d)' = Towards(d)
      BY <2>c DEF Code, Towards
    <3>2. scans[d] # <<>>
      BY <2>c DEF UnderWay
    <3>3. Code(d) \in Booking
      BY <3>2, CurrentTyped
    <3> QED BY <2>a, <2>c, <2>d, <3>1, <3>2, <3>3 DEF UnderWay
  <2>3. AdmittedIsRecorded' /\ UsedStays'
    <3>1. ASSUME NEW d \in Controller, NEW b \in admitted'[d]
          PROVE  /\ b \in Booking
                 /\ b \in admitted[d] \/ (d = c /\ b = Code(c))
      BY <2>c, <3>1 DEF TypeOK
    <3>2. AdmittedIsRecorded'
      BY <2>a, <2>d, <3>1 DEF AdmittedIsRecorded
    <3>3. UsedStays'
      BY <2>a, <2>c DEF UsedStays, TypeOK
    <3> QED BY <3>2, <3>3
  <2>4. BoardingClosesSale'
    BY <2>a, <2>b, <2>d DEF BoardingClosesSale, TypeOK
  <2>5. ReplayBoardsOnce'
    BY <1>5 DEF Board, TypeOK, ReplayBoardsOnce, Code
  <2> QED BY <2>1, <2>2, <2>3, <2>4, <2>5
<1>6. CASE KeepOfflineTime(c)
  <2>1. TypeOK'
    BY <1>6 DEF KeepOfflineTime, TypeOK, Clock
  <2>2. UnderWay'
    BY <1>6 DEF KeepOfflineTime, TypeOK, UnderWay, Code, Towards
  <2>3. AdmittedIsRecorded' /\ UsedStays'
    BY <1>6 DEF KeepOfflineTime, TypeOK, UnderWay, AdmittedIsRecorded, UsedStays
  <2>4. BoardingClosesSale'
    BY <1>6 DEF KeepOfflineTime, TypeOK, UnderWay, BoardingClosesSale
  <2>5. ReplayBoardsOnce'
    BY <1>6 DEF KeepOfflineTime, TypeOK, ReplayBoardsOnce, Code
  <2> QED BY <2>1, <2>2, <2>3, <2>4, <2>5
<1> QED BY <1>3, <1>4, <1>5, <1>6 DEF Scanning

\* The departure ends, a payment confirms late, a sweep expires an old selection,
\* the API restarts: no ticket goes back to a state it has left.
LEMMA OtherStep ==
  ASSUME IInv,
         \/ \E t \in Trip : \/ CloseCheck(t) \/ CloseCommit(t)
                            \/ CancelCheck(t) \/ CancelCommit(t)
         \/ \E b \in Booking : ConfirmLate(b) \/ SweepExpire(b)
         \/ Crash
         \/ UNCHANGED vars
  PROVE  IInv'
<1> USE MaxFaultsIsNat
        DEF IInv, CloseCheck, CloseCommit, CancelCheck, CancelCommit,
        ConfirmLate, SweepExpire, HasAccepted, Crash, vars, tripVars, rowVars,
        callVars, sweepVars
<1>1. TypeOK'
  <2> USE DEF TypeOK, TripStatus, Open, BookingStatus, TicketStatus
  <2>1. ASSUME NEW t \in Trip, CloseCheck(t) \/ CancelCheck(t) PROVE TypeOK'
    BY <2>1
  <2>2. ASSUME NEW t \in Trip, CloseCommit(t) \/ CancelCommit(t) PROVE TypeOK'
    <3>1. CASE CloseCommit(t)
      BY <3>1
    <3>2. CASE CancelCommit(t)
      BY <3>2
    <3> QED BY <2>2, <3>1, <3>2
  <2>3. ASSUME NEW b \in Booking, ConfirmLate(b) \/ SweepExpire(b) PROVE TypeOK'
    <3>1. CASE ConfirmLate(b)
      BY <3>1
    <3>2. CASE SweepExpire(b)
      <4>1. stale' \subseteq Booking /\ overtaken' \in [Controller -> SUBSET Booking]
        BY <3>2
      <4>2. booking' \in [Booking -> BookingStatus]
        BY <3>2
      <4> QED BY <3>2, <4>1, <4>2
    <3> QED BY <2>3, <3>1, <3>2
  <2>4. CASE Crash
    BY <2>4
  <2>5. CASE UNCHANGED vars
    BY <2>5
  <2> QED BY <2>1, <2>2, <2>3, <2>4, <2>5
<1>2. UnderWay'
  <2> SUFFICES ASSUME NEW c \in Controller, step'[c] \in {"board", "clock"}
               PROVE  /\ scans'[c] # <<>>
                      /\ tripOf'[Code(c)'] = Towards(c)'
                      /\ booking'[Code(c)'] = "EXPIRED"
                           => Code(c)' \in overtaken'[c]
                      /\ step'[c] = "clock" =>
                           ticket'[Code(c)'] # "VALID" /\ boardedAt'[Code(c)'] # "null"
    BY DEF UnderWay
  <2>1. ~Crash
    BY DEF Crash
  <2>2. scans' = scans /\ step' = step /\ tripOf' = tripOf
    BY <2>1
  <2>3. scans[c] # <<>> /\ Code(c)' = Code(c) /\ Towards(c)' = Towards(c)
    BY <2>2 DEF UnderWay, Code, Towards
  <2>4. Code(c) \in Booking
    BY <2>3, CurrentTyped
  <2>5. /\ booking'[Code(c)] = "EXPIRED" => Code(c) \in overtaken'[c]
        /\ ticket[Code(c)] # "VALID" => ticket'[Code(c)] # "VALID"
        /\ boardedAt' = boardedAt
    BY <2>1, <2>2, <2>4 DEF UnderWay, TypeOK
  <2> QED BY <2>2, <2>3, <2>5 DEF UnderWay
<1>3. AdmittedIsRecorded'
  <2> SUFFICES ASSUME NEW c \in Controller, NEW b \in admitted'[c]
               PROVE  /\ ticket'[b] # "VALID"
                      /\ booking'[b] = "EXPIRED" => b \in overtaken'[c]
    BY DEF AdmittedIsRecorded
  <2>1. admitted' = admitted /\ b \in Booking
    BY DEF TypeOK
  <2>2. ticket[b] # "VALID" /\ (booking[b] = "EXPIRED" => b \in overtaken[c])
    BY <2>1 DEF AdmittedIsRecorded
  <2> QED BY <2>1, <2>2 DEF TypeOK
<1>4. BoardingClosesSale' /\ UsedStays'
  BY DEF BoardingClosesSale, UsedStays, TypeOK
<1>5. ReplayBoardsOnce'
  BY DEF ReplayBoardsOnce, TypeOK, Code
<1> QED BY <1>1, <1>2, <1>3, <1>4, <1>5

\* Every step keeps the strengthened invariant.
LEMMA Step == IInv /\ [Next]_vars => IInv'
BY CallStep, ScanStep, OtherStep DEF Next

LEMMA Invariant == Spec => []IInv
BY InitHolds, Step, PTL DEF Spec

\* The state of boarding is always well typed.
THEOREM TypeCorrect == Spec => []TypeOK
BY Invariant, PTL DEF IInv

\* A passenger answered BOARDED is on record and had paid: an expired booking was
\* expired, by a sweep that had selected it before, after the call accepted its
\* ticket.  Scans, sweeps, late confirmations and the end of the departure
\* interleave in any way, for any number of controllers.
THEOREM BoardedIsOnRecord == Spec => []AdmittedIsRecorded
BY Invariant, PTL DEF IInv

\* A departure with a passenger on board is off sale.
THEOREM NoSaleOnceBoarding == Spec => []BoardingClosesSale
BY Invariant, PTL DEF IInv

\* A ticket on board or void when a call starts is not boarded by it, and a
\* synchronisation of any length boards a ticket once.
THEOREM OfflineReplayBoardsOnce == Spec => []ReplayBoardsOnce
BY Invariant, PTL DEF IInv

\* No scan, whenever it read the departure, reopens one that has ended.
THEOREM EndIsFinal == Spec => EndedStaysEnded
<1>1. TypeOK /\ [Next]_vars
        => [\A t \in Trip : trip[t] \notin Open => trip'[t] \notin Open]_vars
  <2> SUFFICES ASSUME TypeOK, Next, NEW t \in Trip, trip[t] \notin Open
               PROVE  trip'[t] \notin Open
    OBVIOUS
  <2> USE DEF TypeOK, Open, tripVars, rowVars, callVars
  <2>1. ASSUME NEW c \in Controller,
               ScanOnline(c) \/ SyncOfflineScans(c) \/ Scanning(c)
        PROVE  trip'[t] \notin Open
    BY <2>1 DEF ScanOnline, SyncOfflineScans, Calls, Scanning, ReadTrip,
       ReadTicket, Board, LeavesSale, KeepOfflineTime
  <2>2. ASSUME NEW u \in Trip, \/ CloseCheck(u) \/ CloseCommit(u)
                               \/ CancelCheck(u) \/ CancelCommit(u)
        PROVE  trip'[t] \notin Open
    BY <2>2 DEF CloseCheck, CloseCommit, CancelCheck, CancelCommit
  <2>3. CASE (\E b \in Booking : ConfirmLate(b) \/ SweepExpire(b)) \/ Crash
    BY <2>3 DEF ConfirmLate, SweepExpire, Crash
  <2> QED BY <2>1, <2>2, <2>3 DEF Next
<1> QED BY <1>1, TypeCorrect, PTL DEF Spec, EndedStaysEnded

\* Boarding and the end of the departure are the second half of the life of a
\* ticket: what was used or voided is never VALID again.
THEOREM TicketLifeImplemented == Spec => ImplementsTicketLife
<1>1. Init => Life!Init
  BY DEF Init, Life!Init
<1>2. IInv /\ [Next]_vars => [Life!Next]_(Life!lifeVars)
  <2> SUFFICES ASSUME IInv, [Next]_vars, ticket' # ticket
               PROVE  Life!Next
    BY DEF Life!lifeVars
  <2> USE DEF IInv, TypeOK, TicketStatus
  <2>1. ASSUME NEW c \in Controller, Board(c) PROVE Life!Next
    <3>1. Code(c) \in Booking
      BY <2>1, CurrentTyped DEF Board, Reaches
    <3>2. Life!Board(Code(c))
      BY <2>1, <3>1 DEF Board, Life!Board
    <3> QED BY <3>1, <3>2 DEF Life!Next
  <2>2. ASSUME NEW t \in Trip, CancelCommit(t) PROVE Life!Next
    <3> DEFINE OfTrip == {b \in Booking : tripOf[b] = t}
    <3>1. Life!Void(OfTrip)
      BY <2>2 DEF CancelCommit, Life!Void
    <3> QED BY <3>1 DEF Life!Next
  <2>3. ASSUME NEW c \in Controller, Scanning(c), ~Board(c) PROVE FALSE
    BY <2>3 DEF Scanning, ReadTrip, ReadTicket, KeepOfflineTime, rowVars
  <2>4. ASSUME NEW c \in Controller, ScanOnline(c) \/ SyncOfflineScans(c)
        PROVE  FALSE
    BY <2>4 DEF ScanOnline, SyncOfflineScans, Calls, rowVars
  <2>5. ASSUME NEW t \in Trip, CloseCheck(t) \/ CloseCommit(t) \/ CancelCheck(t)
        PROVE  FALSE
    BY <2>5 DEF CloseCheck, CloseCommit, CancelCheck, rowVars
  <2>6. CASE \/ \E b \in Booking : ConfirmLate(b) \/ SweepExpire(b)
             \/ Crash \/ UNCHANGED vars
    BY <2>6 DEF ConfirmLate, SweepExpire, Crash, vars, rowVars
  <2> QED BY <2>1, <2>2, <2>3, <2>4, <2>5, <2>6 DEF Next
<1> QED BY <1>1, <1>2, Invariant, PTL DEF Spec, ImplementsTicketLife, Life!Spec

=============================================================================
