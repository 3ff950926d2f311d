-------------------------- MODULE TicketSaleProofs --------------------------
(***************************************************************************)
(* Theorems about TicketSale for any number of bookings, payments, webhook *)
(* calls and overlapping reconciliation runs.  Every write of the code is  *)
(* by id, from an answer received one or more queries before; the          *)
(* inductive invariant says what that answer is still worth: the verdict   *)
(* of the aggregator is final, so a worker on its way to a write carries a *)
(* fact that cannot become false.                                          *)
(***************************************************************************)
EXTENDS TicketSale, TLAPS

\* A payment the aggregator has not answered for is out of the workers' reach.
Initiated ==
  \A p \in Payment :
    /\ initiating[p] \in {"no", "checked"} =>
         payment[p] = "NONE" /\ charge[p] = "none"
    /\ initiating[p] = "created" => payment[p] = "INITIATED" /\ charge[p] = "none"
    /\ initiating[p] \in {"accepted", "declined"} => payment[p] = "INITIATED"
    /\ initiating[p] = "declined" => charge[p] = "failed"

Settling == {"settle", "confirm", "lookup", "mint"}

\* What a worker is about to write is what the aggregator has decided.
Working ==
  /\ \A w \in Worker :
       /\ at[w] # "none" => Referenced(on[w])
       /\ at[w] \in Settling => charge[on[w]] = "success"
       /\ at[w] = "fail" => charge[on[w]] = "failed"
  /\ \A q \in Reconciler : \A p \in todo[q] : Referenced(p)

\* A payment once recorded as SUCCESS has its ticket or someone still settling it.
Pursued ==
  \A p \in succeeded :
      \/ \E w \in Settlers : on[w] = p
      \/ ticket[bookingId[p]] # "NONE"
      \/ p \in cut \cup beaten

\* Of the payments never recorded as SUCCESS, those that can be debited and have
\* no reference yet are about to get it, or a failure has cut them short.
Unsaved ==
  \A p \in Payment :
    /\ payment[p] = "SUCCESS" => p \in succeeded
    /\ ~Referenced(p) /\ charge[p] \in {"pending", "success"}
         => initiating[p] = "accepted" \/ p \in cut

-----------------------------------------------------------------------------
LEMMA WorkerTyped ==
  ASSUME TypeOK, NEW w \in Worker, at[w] # "none"
  PROVE  on[w] \in Payment /\ bookingId[on[w]] \in Request
BY DEF TypeOK

LEMMA InitTyped == Init => TypeOK
BY MaxFaultsIsNat
   DEF Init, TypeOK, Rows!Init, Rows!BookingStatus, Initiating, Charge,
   PaymentStatus, TicketStatus, Query

LEMMA TypeStep == TypeOK /\ [Next]_vars => TypeOK'
<1> SUFFICES ASSUME TypeOK, [Next]_vars PROVE TypeOK'
  OBVIOUS
<1> USE MaxFaultsIsNat, NoOneIsNoPayment
<1> USE DEF TypeOK, rowVars, initVars, workVars, faultVars, historyVars, Settlers,
        Initiating, Charge, PaymentStatus, TicketStatus, Query, Goes, Ends, Throws
<1>1. ASSUME NEW p \in Payment, Initiate(p) \/ Pay(p) \/ Age(p) PROVE TypeOK'
  <2>1. CASE InitiateCheck(p) \/ InitiateCreate(p) \/ InitiateSave(p)
    BY <2>1 DEF InitiateCheck, InitiateCreate, InitiateSave
  <2>2. CASE InitiatePush(p) \/ InitiateLost(p)
    BY <2>2 DEF InitiatePush, InitiateLost
  <2>3. CASE Pay(p) \/ Age(p)
    BY <2>3 DEF Pay, Age
  <2> QED BY <1>1, <2>1, <2>2, <2>3 DEF Initiate
<1>2. ASSUME NEW w \in Webhook, NEW p \in Payment, WebhookRead(w, p)
      PROVE  TypeOK'
  BY <1>2 DEF WebhookRead, Reported, Worker
<1>3. ASSUME NEW q \in Reconciler, Reconcile(q) PROVE TypeOK'
  <2>1. CASE ReconcileSelect(q)
    BY <2>1 DEF ReconcileSelect, Unsettled
  <2>2. ASSUME NEW p \in Payment, ReconcileCheck(q, p) PROVE TypeOK'
    BY <2>2 DEF ReconcileCheck, Worker
  <2>3. CASE MarkTimeout(q)
    BY <2>3 DEF MarkTimeout, Worker
  <2> QED BY <1>3, <2>1, <2>2, <2>3 DEF Reconcile
<1>4. ASSUME NEW w \in Worker, Advance(w) \/ Throw(w) PROVE TypeOK'
  <2>1. CASE Settle(w) \/ Fail(w)
    BY <2>1, WorkerTyped DEF Settle, Fail
  <2>2. CASE ConfirmPaid(w)
    BY <2>2, WorkerTyped DEF ConfirmPaid, Rows!Confirm, Rows!BookingStatus
  <2>3. CASE ConfirmRejected(w) \/ Throw(w)
    BY <2>3 DEF ConfirmRejected, Throw
  <2>4. CASE Lookup(w)
    BY <2>4, WorkerTyped DEF Lookup
  <2>5. CASE Mint(w)
    BY <2>5, WorkerTyped DEF Mint
  <2> QED BY <1>4, <2>1, <2>2, <2>3, <2>4, <2>5 DEF Advance, SettleSuccess
<1>5. ASSUME NEW r \in Request, Hold(r) \/ LapseHold(r) PROVE TypeOK'
  BY <1>5 DEF Hold, LapseHold, Rows!Create, Rows!Lapse, Rows!BookingStatus
<1>6. CASE Sweep
  <2>1. CASE Rows!Select \/ Rows!Forget
    BY <1>6, <2>1 DEF Sweep, Rows!Select, Rows!Forget, Rows!Overdue
  <2>2. ASSUME NEW r \in Request, Rows!Expire(r) PROVE TypeOK'
    BY <1>6, <2>2 DEF Sweep, Rows!Expire, Rows!BookingStatus
  <2> QED BY <1>6, <2>1, <2>2 DEF Sweep
<1>7. ASSUME NEW t \in Trip, CancelTrip(t) PROVE TypeOK'
  BY <1>7 DEF CancelTrip, Rows!CancelTrip, Rows!BookingStatus
<1>8. CASE Crash
  BY <1>8 DEF Crash
<1>9. CASE UNCHANGED vars
  BY <1>9 DEF vars
<1> QED BY <1>1, <1>2, <1>3, <1>4, <1>5, <1>6, <1>7, <1>8, <1>9 DEF Next

\* The state of the sale of tickets is always well typed.
THEOREM TypeCorrect == Spec => []TypeOK
BY InitTyped, TypeStep, PTL DEF Spec

-----------------------------------------------------------------------------
(* Verdicts                                                                  *)

LEMMA VerdictStep ==
  ASSUME TypeOK, Initiated, Working, VerdictIsTrue, [Next]_vars
  PROVE  Initiated' /\ Working' /\ VerdictIsTrue'
<1> DEFINE Verdicts == Initiated /\ Working /\ VerdictIsTrue
<1> SUFFICES Verdicts'
  OBVIOUS
<1> USE DEF TypeOK, Initiated, Working, VerdictIsTrue, Referenced, Settling,
        rowVars, initVars, workVars, Goes, Ends, Throws
<1>1. ASSUME NEW p \in Payment, Initiate(p) \/ Pay(p) \/ Age(p) PROVE Verdicts'
  <2>1. CASE InitiateCheck(p) \/ InitiateCreate(p)
    BY <2>1 DEF InitiateCheck, InitiateCreate
  <2>2. CASE InitiatePush(p) \/ InitiateLost(p)
    BY <2>2 DEF InitiatePush, InitiateLost
  <2>3. CASE InitiateSave(p)
    BY <2>3 DEF InitiateSave
  <2>4. CASE Pay(p) \/ Age(p)
    BY <2>4 DEF Pay, Age
  <2> QED BY <1>1, <2>1, <2>2, <2>3, <2>4 DEF Initiate
<1>2. ASSUME NEW w \in Webhook, NEW p \in Payment, WebhookRead(w, p)
      PROVE  Verdicts'
  BY <1>2 DEF WebhookRead, Reported, Worker
<1>3. ASSUME NEW q \in Reconciler, Reconcile(q) PROVE Verdicts'
  <2>1. CASE ReconcileSelect(q)
    BY <2>1 DEF ReconcileSelect, Unsettled
  <2>2. ASSUME NEW p \in Payment, ReconcileCheck(q, p) PROVE Verdicts'
    BY <2>2 DEF ReconcileCheck, Worker
  <2>3. CASE MarkTimeout(q)
    BY <2>3 DEF MarkTimeout, Worker
  <2> QED BY <1>3, <2>1, <2>2, <2>3 DEF Reconcile
<1>4. ASSUME NEW w \in Worker, Advance(w) \/ Throw(w) PROVE Verdicts'
  <2>1. CASE Settle(w)
    BY <2>1, WorkerTyped DEF Settle
  <2>2. CASE Fail(w)
    BY <2>2, WorkerTyped DEF Fail
  <2>3. CASE ConfirmPaid(w)
    BY <2>3, WorkerTyped DEF ConfirmPaid
  <2>4. CASE ConfirmRejected(w) \/ Throw(w)
    BY <2>4 DEF ConfirmRejected, Throw
  <2>5. CASE Lookup(w)
    BY <2>5, WorkerTyped DEF Lookup
  <2>6. CASE Mint(w)
    BY <2>6, WorkerTyped DEF Mint
  <2> QED BY <1>4, <2>1, <2>2, <2>3, <2>4, <2>5, <2>6 DEF Advance, SettleSuccess
<1>5. CASE (\E r \in Request : Hold(r) \/ LapseHold(r)) \/ Sweep
  BY <1>5 DEF Hold, LapseHold, Sweep
<1>6. CASE \E t \in Trip : CancelTrip(t)
  BY <1>6 DEF CancelTrip
<1>7. CASE Crash
  BY <1>7 DEF Crash
<1>8. CASE UNCHANGED vars
  BY <1>8 DEF vars
<1> QED BY <1>1, <1>2, <1>3, <1>4, <1>5, <1>6, <1>7, <1>8 DEF Next

LEMMA InitVerdicts == Init => Initiated /\ Working /\ VerdictIsTrue
BY DEF Init, Initiated, Working, VerdictIsTrue, Settling

LEMMA VerdictsHold == Spec => [](Initiated /\ Working /\ VerdictIsTrue)
BY InitVerdicts, VerdictStep, TypeCorrect, PTL DEF Spec

\* A final status agrees with the aggregator, whoever wrote it last and
\* whenever the answer it is written from was received.
THEOREM FinalStatusIsTrue == Spec => []VerdictIsTrue
BY VerdictsHold, PTL

-----------------------------------------------------------------------------
(* What one step does to the rows the passenger travels with                 *)

\* A row becomes CONFIRMED, or a ticket appears, only for a booking paid for;
\* no ticket is replaced, no row disappears, no debit is taken back.
Effect ==
  /\ bookingId' = bookingId /\ dto' = dto
  /\ \A p \in Payment : charge[p] = "success" => charge'[p] = "success"
  /\ \A r \in Request :
       /\ booking'[r] = "CONFIRMED" => booking[r] = "CONFIRMED" \/ PaidFor(r)
       /\ ticket'[r] # "NONE" => ticket[r] # "NONE" \/ PaidFor(r)
       /\ ticket[r] # "NONE" => ticket'[r] \in {ticket[r], "CANCELLED"}
       /\ booking[r] # "NONE" => booking'[r] # "NONE"

LEMMA TravelEffect ==
  ASSUME TypeOK, Initiated, Working, [Next]_vars
  PROVE  Effect
<1> USE DEF Effect, TypeOK, rowVars, initVars, workVars
<1>1. ASSUME NEW p \in Payment, Initiate(p) \/ Pay(p) \/ Age(p) PROVE Effect
  BY <1>1 DEF Initiate, InitiateCheck, InitiateCreate, InitiatePush,
     InitiateSave, InitiateLost, Pay, Age, Initiated
<1>2. CASE \E w \in Webhook, p \in Payment : WebhookRead(w, p)
  BY <1>2 DEF WebhookRead
<1>3. ASSUME NEW q \in Reconciler, Reconcile(q) PROVE Effect
  BY <1>3 DEF Reconcile, ReconcileSelect, ReconcileCheck, MarkTimeout
<1>4. ASSUME NEW w \in Worker, Advance(w) \/ Throw(w) PROVE Effect
  <2>1. CASE ConfirmPaid(w)
    <3>1. on[w] \in Payment /\ PaidFor(bookingId[on[w]])
      BY <2>1, WorkerTyped DEF ConfirmPaid, Working, Settling, PaidFor
    <3> QED BY <2>1, <3>1 DEF ConfirmPaid, Rows!Confirm
  <2>2. CASE Mint(w)
    <3>1. on[w] \in Payment /\ PaidFor(bookingId[on[w]])
      BY <2>2, WorkerTyped DEF Mint, Working, Settling, PaidFor
    <3> QED BY <2>2, <3>1 DEF Mint
  <2> QED BY <1>4, <2>1, <2>2 DEF Advance, SettleSuccess, Settle, Fail,
         ConfirmRejected, Lookup, Throw
<1>5. ASSUME NEW r \in Request, Hold(r) \/ LapseHold(r) PROVE Effect
  BY <1>5 DEF Hold, LapseHold, Rows!Create, Rows!Lapse
<1>6. CASE Sweep
  BY <1>6 DEF Sweep, Rows!Select, Rows!Forget, Rows!Expire
<1>7. ASSUME NEW t \in Trip, CancelTrip(t) PROVE Effect
  BY <1>7 DEF CancelTrip, Rows!CancelTrip
<1>8. CASE Crash \/ UNCHANGED vars
  BY <1>8 DEF Crash, vars
<1> QED BY <1>1, <1>2, <1>3, <1>4, <1>5, <1>6, <1>7, <1>8 DEF Next

\* Nobody travels for free, for any number of payments, webhooks and runs.
THEOREM TravelIsPaid == Spec => []NothingUnpaid
<1>1. Init => NothingUnpaid
  BY DEF Init, Rows!Init, NothingUnpaid
<1>2. TypeOK /\ Initiated /\ Working /\ NothingUnpaid /\ [Next]_vars => NothingUnpaid'
  BY TravelEffect DEF Effect, NothingUnpaid, PaidFor
<1> QED BY <1>1, <1>2, TypeCorrect, VerdictsHold, PTL DEF Spec

\* A replayed webhook or a second run replaces no ticket.
THEOREM OneTicketPerBooking == Spec => TicketIssuedOnce
<1>1. TypeOK /\ Initiated /\ Working /\ [Next]_vars
        => [\A r \in Request :
              ticket[r] # "NONE" => ticket'[r] \in {ticket[r], "CANCELLED"}]_vars
  BY TravelEffect DEF Effect
<1> QED BY <1>1, TypeCorrect, VerdictsHold, PTL DEF Spec, TicketIssuedOnce

-----------------------------------------------------------------------------
(* The life of a ticket, up to its issue                                     *)

Paid == {r \in Request : PaidFor(r)}

\* A debit, an issue and a cancellation are those of TicketLife; every other
\* step leaves debits and tickets alone.
LEMMA LifeStep ==
  ASSUME TypeOK, Initiated, Working, [Next]_vars
  PROVE  [Life!Next]_<<Paid, ticket>>
<1> USE DEF TypeOK, rowVars, initVars, workVars
<1>1. ASSUME bookingId' = bookingId, ticket' = ticket,
             \A p \in Payment : charge'[p] = "success" <=> charge[p] = "success"
      PROVE  UNCHANGED <<Paid, ticket>>
  BY <1>1 DEF Paid, PaidFor
<1>2. ASSUME NEW p \in Payment, Pay(p) PROVE [Life!Next]_<<Paid, ticket>>
  <2>1. /\ bookingId' = bookingId /\ ticket' = ticket /\ bookingId[p] \in Request
        /\ \A o \in Payment \ {p} : charge'[o] = charge[o]
        /\ charge[p] = "pending" /\ charge'[p] \in {"success", "failed"}
    BY <1>2 DEF Pay
  <2>2. CASE charge'[p] = "failed"
    BY <1>1, <2>1, <2>2
  <2>3. CASE charge'[p] = "success"
    <3>1. Paid' = Paid \cup {bookingId[p]}
      BY <2>1, <2>3 DEF Paid, PaidFor
    <3>2. Life!Debit(bookingId[p])
      BY <2>1, <3>1 DEF Life!Debit, Paid
    <3> QED BY <2>1, <3>2 DEF Life!Next
  <2> QED BY <2>1, <2>2, <2>3
<1>3. ASSUME NEW w \in Worker, Mint(w) PROVE [Life!Next]_<<Paid, ticket>>
  <2>1. on[w] \in Payment /\ bookingId[on[w]] \in Request
        /\ charge[on[w]] = "success"
    BY <1>3, WorkerTyped DEF Mint, Working, Settling
  <2>2. bookingId' = bookingId /\ charge' = charge
    BY <1>3 DEF Mint
  <2>3. Paid' = Paid
    BY <2>2 DEF Paid, PaidFor
  <2>4. CASE ticket' = ticket
    BY <2>3, <2>4
  <2>5. CASE ticket' # ticket
    <3>1. Life!Issue(bookingId[on[w]])
      BY <1>3, <2>1, <2>3, <2>5 DEF Mint, Life!Issue, Paid, PaidFor
    <3> QED BY <2>1, <3>1 DEF Life!Next
  <2> QED BY <2>4, <2>5
<1>4. ASSUME NEW t \in Trip, CancelTrip(t) PROVE [Life!Next]_<<Paid, ticket>>
  <2> DEFINE OfTrip == {r \in Request : dto[r].trip = t}
  <2>1. Paid' = Paid
    BY <1>4 DEF CancelTrip, Paid, PaidFor
  <2>2. Life!Void(OfTrip)
    BY <1>4, <2>1 DEF CancelTrip, Life!Void, Paid
  <2> QED BY <2>2 DEF Life!Next
<1>5. ASSUME NEW p \in Payment, Initiate(p) \/ Age(p)
      PROVE  [Life!Next]_<<Paid, ticket>>
  BY <1>1, <1>5 DEF Initiated, Initiate, InitiateCheck, InitiateCreate, InitiatePush,
     InitiateSave, InitiateLost, Age
<1>6. ASSUME NEW w \in Worker, Advance(w) \/ Throw(w), ~Mint(w)
      PROVE  [Life!Next]_<<Paid, ticket>>
  BY <1>1, <1>6 DEF Advance, SettleSuccess, Settle, Fail, ConfirmPaid, ConfirmRejected,
     Lookup, Throw
<1>7. CASE \/ \E w \in Webhook, p \in Payment : WebhookRead(w, p)
           \/ \E q \in Reconciler : Reconcile(q)
  BY <1>1, <1>7 DEF WebhookRead, Reconcile, ReconcileSelect, ReconcileCheck, MarkTimeout
<1>8. CASE \/ \E r \in Request : Hold(r) \/ LapseHold(r)
           \/ Sweep \/ Crash \/ UNCHANGED vars
  BY <1>1, <1>8 DEF Hold, LapseHold, Sweep, Crash, vars
<1> QED BY <1>2, <1>3, <1>4, <1>5, <1>6, <1>7, <1>8 DEF Next

\* The sale of a ticket is the first half of its life, for any number of
\* payments, webhooks and runs.
THEOREM TicketLifeImplemented == Spec => ImplementsTicketLife
<1>1. Init => Life!Init
  BY DEF Init, Life!Init
<1>2. TypeOK /\ Initiated /\ Working /\ [Next]_vars => [Life!Next]_(Life!lifeVars)
  BY LifeStep DEF Life!lifeVars, Paid
<1> QED
  BY <1>1, <1>2, TypeCorrect, VerdictsHold, PTL DEF Spec, ImplementsTicketLife, Life!Spec

-----------------------------------------------------------------------------
(* A debit is accounted for                                                  *)

\* Tickets stay, and so does what the history records.
LEMMA PursuitEnds ==
  ASSUME TypeOK, Initiated, Working, [Next]_vars
  PROVE  /\ bookingId' = bookingId
         /\ \A r \in Request : ticket[r] # "NONE" => ticket'[r] # "NONE"
         /\ cut \subseteq cut' /\ beaten \subseteq beaten'
         /\ succeeded \subseteq succeeded'
<1>1. /\ bookingId' = bookingId
      /\ \A r \in Request : ticket[r] # "NONE" => ticket'[r] # "NONE"
  BY TravelEffect DEF Effect
<1> USE DEF faultVars, historyVars
<1>2. ASSUME NEW p \in Payment, Initiate(p) \/ Pay(p) \/ Age(p)
      PROVE  cut \subseteq cut' /\ beaten' = beaten /\ succeeded' = succeeded
  BY <1>2 DEF Initiate, InitiateCheck, InitiateCreate, InitiatePush, InitiateSave,
     InitiateLost, Pay, Age
<1>3. CASE \/ \E w \in Webhook, p \in Payment : WebhookRead(w, p)
           \/ \E q \in Reconciler : Reconcile(q)
  BY <1>1, <1>3 DEF WebhookRead, Reconcile, ReconcileSelect, ReconcileCheck, MarkTimeout
<1>4. ASSUME NEW w \in Worker, Advance(w) \/ Throw(w)
      PROVE  cut \subseteq cut' /\ beaten \subseteq beaten' /\ succeeded \subseteq succeeded'
  BY <1>4 DEF Advance, SettleSuccess, Settle, Fail, ConfirmPaid, ConfirmRejected,
     Lookup, Mint, Throw
<1>5. CASE \/ \E r \in Request : Hold(r) \/ LapseHold(r)
           \/ Sweep \/ Crash
           \/ \E t \in Trip : CancelTrip(t)
           \/ UNCHANGED vars
  BY <1>1, <1>5 DEF Hold, LapseHold, Sweep, Crash, CancelTrip, vars
<1> QED BY <1>1, <1>2, <1>3, <1>4, <1>5 DEF Next

\* A step that marks no payment SUCCESS and stops no settlement unrecorded.
LEMMA PursuedUnchanged ==
  ASSUME TypeOK, Initiated, Working, Pursued, [Next]_vars,
         succeeded' = succeeded,
         \A w \in Settlers : (w \in Settlers' /\ on'[w] = on[w]) \/ on[w] \in cut'
  PROVE  Pursued'
<1> SUFFICES ASSUME NEW p \in succeeded
             PROVE  \/ \E w \in Settlers' : on'[w] = p
                    \/ ticket'[bookingId[p]] # "NONE"
                    \/ p \in cut' \cup beaten'
  BY PursuitEnds DEF Pursued
<1>1. p \in Payment /\ bookingId[p] \in Request
  BY DEF TypeOK
<1>2. CASE \E w \in Settlers : on[w] = p
  BY <1>2
<1>3. CASE ~ \E w \in Settlers : on[w] = p
  BY <1>1, <1>3, PursuitEnds DEF Pursued
<1> QED BY <1>2, <1>3

\* A worker settling a payment hands on to itself, or leaves a ticket behind, or
\* has found the seat held by another booking.
LEMMA PursuedWorker ==
  ASSUME TypeOK, Initiated, Working, Pursued, [Next]_vars,
         NEW w \in Worker, on[w] \in Payment,
         succeeded' \subseteq succeeded \cup {on[w]},
         \A v \in Worker \ {w} : at'[v] = at[v] /\ on'[v] = on[v],
         \/ on'[w] = on[w] /\ w \in Settlers'
         \/ ticket'[bookingId[on[w]]] # "NONE"
         \/ on[w] \in beaten'
  PROVE  Pursued'
<1> SUFFICES ASSUME NEW p \in succeeded'
             PROVE  \/ \E v \in Settlers' : on'[v] = p
                    \/ ticket'[bookingId[p]] # "NONE"
                    \/ p \in cut' \cup beaten'
  BY PursuitEnds DEF Pursued
<1>1. p \in Payment /\ bookingId[p] \in Request
  BY DEF TypeOK
<1>2. CASE p = on[w]
  BY <1>1, <1>2
<1>3. CASE p # on[w]
  <2>1. \A v \in Settlers : on[v] = p => v \in Settlers' /\ on'[v] = p
    BY <1>3 DEF Settlers
  <2> QED BY <1>1, <1>3, <2>1, PursuitEnds DEF Pursued
<1> QED BY <1>2, <1>3

LEMMA PursuedStep ==
  ASSUME TypeOK, Initiated, Working, Pursued, [Next]_vars
  PROVE  Pursued'
<1> USE DEF rowVars, initVars, workVars, faultVars, historyVars
<1>0. ASSUME succeeded' = succeeded,
             \A w \in Settlers : at'[w] = at[w] /\ on'[w] = on[w]
      PROVE  Pursued'
  BY <1>0, PursuedUnchanged DEF Settlers
<1>1. ASSUME NEW p \in Payment, Initiate(p) \/ Pay(p) \/ Age(p) PROVE Pursued'
  <2>1. succeeded' = succeeded /\ at' = at /\ on' = on
    BY <1>1 DEF Initiate, InitiateCheck, InitiateCreate,
       InitiatePush, InitiateSave, InitiateLost, Pay, Age
  <2> QED BY <1>0, <2>1
<1>2. ASSUME NEW w \in Webhook, NEW p \in Payment, WebhookRead(w, p)
      PROVE  Pursued'
  <2>1. succeeded' = succeeded /\ \A v \in Settlers : at'[v] = at[v] /\ on'[v] = on[v]
    BY <1>2 DEF TypeOK, WebhookRead, Goes, Worker, Settlers
  <2> QED BY <1>0, <2>1
<1>3. ASSUME NEW q \in Reconciler, Reconcile(q) PROVE Pursued'
  <2> USE DEF TypeOK, Goes, Ends, Worker, Settlers
  <2>1. CASE ReconcileSelect(q)
    BY <1>0, <2>1 DEF ReconcileSelect
  <2>2. ASSUME NEW p \in Payment, ReconcileCheck(q, p) PROVE Pursued'
    <3>1. succeeded' = succeeded
          /\ \A v \in Settlers : at'[v] = at[v] /\ on'[v] = on[v]
      BY <2>2 DEF ReconcileCheck
    <3> QED BY <1>0, <3>1
  <2>3. CASE MarkTimeout(q)
    <3>1. succeeded' = succeeded
          /\ \A v \in Settlers : at'[v] = at[v] /\ on'[v] = on[v]
      BY <2>3 DEF MarkTimeout
    <3> QED BY <1>0, <3>1
  <2> QED BY <1>3, <2>1, <2>2, <2>3 DEF Reconcile
<1>4. ASSUME NEW w \in Worker, Advance(w) PROVE Pursued'
  <2>0. at[w] # "none" /\ on[w] \in Payment /\ bookingId[on[w]] \in Request
    BY <1>4, WorkerTyped DEF Advance, SettleSuccess, Settle, ConfirmPaid,
       ConfirmRejected, Lookup, Mint, Fail
  <2> USE <2>0 DEF TypeOK, Goes, Ends, Throws, Settlers
  <2>1. CASE Fail(w)
    <3>1. succeeded' = succeeded
          /\ \A v \in Settlers : at'[v] = at[v] /\ on'[v] = on[v]
      BY <2>1 DEF Fail
    <3> QED BY <1>0, <3>1
  <2>2. CASE Settle(w) \/ ConfirmPaid(w)
    <3>1. /\ succeeded' \subseteq succeeded \cup {on[w]}
          /\ \A v \in Worker \ {w} : at'[v] = at[v] /\ on'[v] = on[v]
          /\ on'[w] = on[w] /\ w \in Settlers'
      BY <2>2 DEF Settle, ConfirmPaid
    <3> QED BY <3>1, PursuedWorker
  <2>3. CASE ConfirmRejected(w)
    <3>1. HeldByAnother(bookingId[on[w]])
      BY <2>3 DEF ConfirmRejected, Rows!IndexAllows, Rows!Holders, Rows!Active,
         HeldByAnother
    <3>2. /\ succeeded' = succeeded /\ on[w] \in beaten'
          /\ \A v \in Worker \ {w} : at'[v] = at[v] /\ on'[v] = on[v]
      BY <2>3, <3>1 DEF ConfirmRejected
    <3> QED BY <3>2, PursuedWorker
  <2>4. CASE Lookup(w) \/ Mint(w)
    <3>1. /\ succeeded' = succeeded
          /\ \A v \in Worker \ {w} : at'[v] = at[v] /\ on'[v] = on[v]
          /\ \/ on'[w] = on[w] /\ w \in Settlers'
             \/ ticket'[bookingId[on[w]]] # "NONE"
      <4>1. CASE Lookup(w)
        BY <4>1 DEF Lookup
      <4>2. CASE Mint(w)
        BY <4>2 DEF Mint
      <4> QED BY <2>4, <4>1, <4>2
    <3> QED BY <3>1, PursuedWorker
  <2> QED BY <1>4, <2>1, <2>2, <2>3, <2>4 DEF Advance, SettleSuccess
<1>5. ASSUME NEW w \in Worker, Throw(w) PROVE Pursued'
  <2>1. \A v \in Settlers : (v \in Settlers' /\ on'[v] = on[v]) \/ on[v] \in cut'
    BY <1>5 DEF Throw, Throws, Settlers, TypeOK
  <2>2. succeeded' = succeeded
    BY <1>5 DEF Throw
  <2> QED BY <2>1, <2>2, PursuedUnchanged
<1>6. CASE Crash
  <2>1. (\A v \in Settlers : on[v] \in cut') /\ succeeded' = succeeded
    BY <1>6 DEF Crash
  <2> QED BY <2>1, PursuedUnchanged
<1>7. CASE \/ \E r \in Request : Hold(r) \/ LapseHold(r)
           \/ Sweep
           \/ \E t \in Trip : CancelTrip(t)
           \/ UNCHANGED vars
  <2>1. succeeded' = succeeded /\ at' = at /\ on' = on
    BY <1>7 DEF Hold, LapseHold, Sweep, CancelTrip, vars
  <2> QED BY <1>0, <2>1
<1> QED BY <1>1, <1>2, <1>3, <1>4, <1>5, <1>6, <1>7 DEF Next

\* Only initiate and a restart touch a payment that has no reference.
LEMMA UnsavedStep ==
  ASSUME TypeOK, Initiated, Working, Unsaved, [Next]_vars
  PROVE  Unsaved'
<1>0. succeeded \subseteq succeeded' /\ cut \subseteq cut'
  BY PursuitEnds
<1> USE <1>0 DEF Unsaved, TypeOK, Referenced, rowVars, initVars, workVars, Goes,
        Ends, Throws
<1>1. ASSUME NEW p \in Payment, Initiate(p) \/ Pay(p) \/ Age(p) PROVE Unsaved'
  <2>1. CASE InitiateCheck(p) \/ InitiateCreate(p)
    BY <2>1 DEF InitiateCheck, InitiateCreate, Initiated
  <2>2. CASE InitiatePush(p) \/ InitiateSave(p)
    BY <2>2 DEF InitiatePush, InitiateSave
  <2>3. CASE InitiateLost(p)
    BY <2>3 DEF InitiateLost
  <2>4. CASE Pay(p) \/ Age(p)
    BY <2>4 DEF Pay, Age
  <2> QED BY <1>1, <2>1, <2>2, <2>3, <2>4 DEF Initiate
<1>2. CASE \/ \E w \in Webhook, p \in Payment : WebhookRead(w, p)
  BY <1>2 DEF WebhookRead
<1>3. ASSUME NEW q \in Reconciler, Reconcile(q) PROVE Unsaved'
  <2>1. CASE MarkTimeout(q)
    BY <2>1 DEF MarkTimeout
  <2> QED BY <1>3, <2>1 DEF Reconcile, ReconcileSelect, ReconcileCheck
<1>4. ASSUME NEW w \in Worker, Advance(w) \/ Throw(w) PROVE Unsaved'
  <2>1. CASE Settle(w)
    BY <2>1, WorkerTyped DEF Settle
  <2>2. CASE Fail(w)
    BY <2>2, WorkerTyped DEF Fail
  <2> QED BY <1>4, <2>1, <2>2 DEF Advance, SettleSuccess, ConfirmPaid,
         ConfirmRejected, Lookup, Mint, Throw
<1>5. CASE Crash
  BY <1>5 DEF Crash
<1>6. CASE \/ \E r \in Request : Hold(r) \/ LapseHold(r)
           \/ Sweep
           \/ \E t \in Trip : CancelTrip(t)
           \/ UNCHANGED vars
  BY <1>6 DEF Hold, LapseHold, Sweep, CancelTrip, vars
<1> QED BY <1>1, <1>2, <1>3, <1>4, <1>5, <1>6 DEF Next

\* Every debit is accounted for, for any number of payments, webhooks and runs:
\* only a failure that cut short its own initiate or settlement, or another
\* booking that held the seat when it came, leaves the payer with neither a
\* ticket nor anyone to look at the payment.
THEOREM DebitsAccountedFor == Spec => []DebitIsAccountedFor
<1>1. Init => Pursued /\ Unsaved
  BY DEF Init, Pursued, Unsaved
<1>2. Spec => [](Pursued /\ Unsaved)
  BY <1>1, PursuedStep, UnsavedStep, TypeCorrect, VerdictsHold, PTL DEF Spec
<1>3. TypeOK /\ VerdictIsTrue /\ Pursued /\ Unsaved => DebitIsAccountedFor
  <2> SUFFICES ASSUME TypeOK, VerdictIsTrue, Pursued, Unsaved,
                      NEW p \in Payment, charge[p] = "success",
                      \A w \in Worker : on[w] # p
               PROVE  \/ ticket[bookingId[p]] # "NONE"
                      \/ p \notin succeeded /\ (initiating[p] = "accepted"
                                    \/ payment[p] \in {"PENDING", "TIMEOUT"})
                      \/ p \in cut \cup beaten
    BY DEF DebitIsAccountedFor
  <2>1. CASE p \in succeeded
    BY <2>1 DEF Pursued, Settlers
  <2>2. CASE p \notin succeeded
    BY <2>2 DEF Unsaved, VerdictIsTrue, TypeOK, PaymentStatus, Referenced
  <2> QED BY <2>1, <2>2
<1> QED BY <1>2, <1>3, TypeCorrect, FinalStatusIsTrue, PTL

-----------------------------------------------------------------------------
(* The bookings under the payments                                           *)

\* Every step of the payments is a step of the rows, or one they do not see:
\* confirming and cancelling, the payments do to a booking only what
\* BookingsService lets them.
KeepsRows == Rows!Spec

LEMMA RowsStep ==
  ASSUME TypeOK, [Next]_vars
  PROVE  [Rows!Next]_(Rows!rowVars)
<1> USE DEF rowVars, Rows!rowVars
<1>1. CASE UNCHANGED rowVars
  BY <1>1
<1>2. ASSUME NEW w \in Worker, ConfirmPaid(w) PROVE Rows!Next
  BY <1>2, WorkerTyped DEF ConfirmPaid, Rows!Next
<1>3. ASSUME NEW r \in Request, Hold(r) \/ LapseHold(r) PROVE Rows!Next
  BY <1>3 DEF Hold, LapseHold, Rows!Next
<1>4. CASE Sweep
  BY <1>4 DEF Sweep, Rows!Next
<1>5. ASSUME NEW t \in Trip, CancelTrip(t) PROVE Rows!Next
  BY <1>5 DEF CancelTrip, Rows!Next
<1>6. CASE Crash
  <2>1. Rows!Forget
    BY <1>6 DEF Crash, Rows!Forget
  <2> QED BY <2>1 DEF Rows!Next
<1>7. CASE \E p \in Payment : Initiate(p) \/ Pay(p) \/ Age(p)
  BY <1>1, <1>7 DEF Initiate, InitiateCheck, InitiateCreate, InitiatePush,
     InitiateSave, InitiateLost, Pay, Age
<1>8. CASE \/ \E w \in Webhook, p \in Payment : WebhookRead(w, p)
           \/ \E q \in Reconciler : Reconcile(q)
  BY <1>1, <1>8 DEF WebhookRead, Reconcile, ReconcileSelect, ReconcileCheck,
     MarkTimeout
<1>9. ASSUME NEW w \in Worker, Advance(w) \/ Throw(w)
      PROVE  [Rows!Next]_(Rows!rowVars)
  BY <1>1, <1>2, <1>9 DEF Advance, SettleSuccess, Settle, Fail, ConfirmRejected,
     Lookup, Mint, Throw
<1> QED BY <1>1, <1>2, <1>3, <1>4, <1>5, <1>6, <1>7, <1>8, <1>9 DEF Next, vars

\* TicketSale's bookings are those of BookingRows, which SeatHold implements:
\* what the two show together holds of the handlers, jobs and locks.
THEOREM RowsKept == Spec => KeepsRows
<1>1. TypeOK /\ [Next]_vars => [Rows!Next]_(Rows!rowVars)
  BY RowsStep
<1> QED BY <1>1, TypeCorrect, PTL DEF Spec, Init, KeepsRows, Rows!Spec

\* A row that becomes or stays active has passed the partial index.
Indexed(r) ==
  /\ Rows!IndexAllows(r)
  /\ booking'[r] \in Rows!Active
  /\ \A q \in Request \ {r} : booking'[q] = booking[q]

OnlyReleased ==
  \A r \in Request :
    booking'[r] = booking[r] \/ booking'[r] \notin Rows!Active

LEMMA RowsEffect ==
  ASSUME TypeOK, Rows!Next
  PROVE  /\ dto' = dto
         /\ OnlyReleased \/ \E r \in Request : Indexed(r)
<1> USE DEF TypeOK, OnlyReleased, Indexed, Rows!Active
<1>1. ASSUME NEW r \in Request, Rows!Create(r) \/ Rows!Confirm(r)
      PROVE  dto' = dto /\ Indexed(r)
  BY <1>1 DEF Rows!Create, Rows!Confirm
<1>2. ASSUME NEW r \in Request, Rows!Lapse(r) \/ Rows!Expire(r)
      PROVE  dto' = dto /\ OnlyReleased
  BY <1>2 DEF Rows!Lapse, Rows!Expire
<1>3. CASE Rows!Select \/ Rows!Forget
  BY <1>3 DEF Rows!Select, Rows!Forget
<1>4. ASSUME NEW t \in Trip, Rows!CancelTrip(t)
      PROVE  dto' = dto /\ OnlyReleased
  BY <1>4 DEF Rows!CancelTrip
<1> QED BY <1>1, <1>2, <1>3, <1>4 DEF Rows!Next

LEMMA StepIndexed ==
  ASSUME TypeOK, [Next]_vars
  PROVE  /\ dto' = dto
         /\ OnlyReleased \/ \E r \in Request : Indexed(r)
<1>1. CASE UNCHANGED Rows!rowVars
  BY <1>1 DEF Rows!rowVars, OnlyReleased
<1> QED BY <1>1, RowsStep, RowsEffect

\* A seat is held once: a late confirmation passes the partial index like an insert.
SeatOnce ==
  \A q, r \in Request :
    /\ dto[q] = dto[r]
    /\ booking[q] \in Rows!Active /\ booking[r] \in Rows!Active
    => q = r

LEMMA SeatHeldOnce == Spec => []SeatOnce
<1>1. Init => SeatOnce
  BY DEF Init, Rows!Init, SeatOnce, Rows!Active
<1>2. TypeOK /\ SeatOnce /\ [Next]_vars => SeatOnce'
  BY StepIndexed
  DEF SeatOnce, OnlyReleased, Indexed, Rows!IndexAllows, Rows!Holders
<1> QED BY <1>1, <1>2, TypeCorrect, PTL DEF Spec

-----------------------------------------------------------------------------
(* The ledger of seats                                                       *)

seatHolders == [s \in Rows!Slot |-> Rows!Holders(s)]

Ledger == INSTANCE SeatLedger WITH Slot <- Rows!Slot, holders <- seatHolders

\* Payments confirm by id bookings that have expired, been cancelled or been
\* sold to another meanwhile, and a seat still passes from one booking to
\* another only through being free.
KeepsLedger == Ledger!Spec

LEMMA ReleasedStep ==
  ASSUME TypeOK, SeatOnce, dto' = dto, OnlyReleased
  PROVE  Ledger!Next
<1> DEFINE Emptied == {s \in Rows!Slot : Rows!Holders(s)' = {}}
<1>1. ASSUME NEW s \in Rows!Slot \ Emptied
      PROVE  Rows!Holders(s)' = Rows!Holders(s)
  <2>1. Rows!Holders(s)' \subseteq Rows!Holders(s)
    BY DEF OnlyReleased, Rows!Holders
  <2>2. \A q, r \in Rows!Holders(s) : q = r
    BY DEF Rows!Holders, SeatOnce
  <2> QED BY <1>1, <2>1, <2>2
<1>2. seatHolders' = [s \in Rows!Slot |-> IF s \in Emptied THEN {}
                                          ELSE seatHolders[s]]
  BY <1>1 DEF seatHolders
<1>3. Emptied \in SUBSET Rows!Slot
  OBVIOUS
<1>4. Ledger!GiveUp(Emptied)
  BY <1>2 DEF Ledger!GiveUp
<1> QED BY <1>3, <1>4 DEF Ledger!Next

LEMMA IndexedStep ==
  ASSUME TypeOK, dto' = dto, NEW r \in Request, Indexed(r)
  PROVE  [Ledger!Next]_seatHolders
<1> DEFINE mine == dto[r]
<1>0. mine \in Rows!Slot
  BY DEF TypeOK
<1>1. Rows!Holders(mine)' = {r}
  BY DEF Rows!Holders, Indexed, Rows!IndexAllows
<1>2. ASSUME NEW s \in Rows!Slot, s # mine
      PROVE  Rows!Holders(s)' = Rows!Holders(s)
  BY <1>2 DEF Rows!Holders, Indexed
<1>3. CASE Rows!Holders(mine) = {}
  <2>1. seatHolders' = [seatHolders EXCEPT ![mine] = {r}]
    BY <1>0, <1>1, <1>2 DEF seatHolders
  <2>2. Ledger!Take(mine, r)
    BY <1>0, <1>3, <2>1 DEF Ledger!Take, seatHolders
  <2> QED BY <1>0, <2>2 DEF Ledger!Next
<1>4. CASE Rows!Holders(mine) = {r}
  BY <1>1, <1>2, <1>4 DEF seatHolders
<1> QED BY <1>3, <1>4 DEF Indexed, Rows!IndexAllows

\* The sale of tickets keeps the ledger of seats, for any number of payments,
\* late confirmations, sweeps and cancelled departures.
THEOREM LedgerKept == Spec => KeepsLedger
<1>1. Init => Ledger!Init
  BY DEF Init, Rows!Init, Ledger!Init, seatHolders, Rows!Holders, Rows!Active
<1>2. TypeOK /\ SeatOnce /\ [Next]_vars => [Ledger!Next]_seatHolders
  BY StepIndexed, ReleasedStep, IndexedStep
<1> QED BY <1>1, <1>2, TypeCorrect, SeatHeldOnce, PTL
  DEF Spec, KeepsLedger, Ledger!Spec

=============================================================================
