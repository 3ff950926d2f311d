----------------------------- MODULE TicketSale -----------------------------
(***************************************************************************)
(* PaymentsService: initiating a mobile-money payment for a held seat, the *)
(* aggregator's webhook, the reconciliation job, and the confirmation and  *)
(* ticket they lead to.  The bookings are those of module BookingRows.     *)
(*                                                                         *)
(* A payment row is named by the call of initiate that creates it.  Every  *)
(* action is the code between two awaits.  The aggregator is an external   *)
(* service: it knows for each payment whether the payer was debited, tells *)
(* the truth about it, and may call the webhook any number of times or     *)
(* never.                                                                  *)
(***************************************************************************)
EXTENDS Naturals, FiniteSets

CONSTANTS
  Trip, Seat, Request,   \* as in Bookings
  Payment,      \* calls of initiate
  Webhook,      \* concurrent calls of handleWebhook
  Reconciler,   \* overlapping runs of the job reconcilePending
  Batch,        \* rows one run selects: take 50
  NoOne,        \* no payment
  MaxFaults     \* bound on restarts and on aggregator or database failures

ASSUME WorkersAreDisjoint == Webhook \cap Reconciler = {}
ASSUME NoOneIsNoPayment == NoOne \notin Payment
ASSUME BatchIsPositive == Batch \in Nat \ {0}
ASSUME MaxFaultsIsNat == MaxFaults \in Nat

VARIABLES
  dto, booking, lapsed, swept,   \* as in BookingRows
  bookingId,   \* the booking each payment is for: input, never written
  initiating,  \* where each call of initiate is
  charge,      \* what the aggregator knows of each payment
  payment,     \* Payment.status, "NONE" when there is no row
  aged,        \* payments created more than 15 minutes ago
  ticket,      \* Ticket.status of each booking, "NONE" when there is no row
  at,          \* the next query of each webhook call and reconciliation run
  on,          \* the payment it works on
  todo,        \* what a reconciliation run has selected and not yet checked
  faults,      \* failures so far
  cut,         \* history: payments whose initiate or settlement a failure cut
  beaten,      \* history: payments that found another booking on their seat
  succeeded    \* history: payments some call has marked SUCCESS

Rows == INSTANCE BookingRows

rowVars   == <<dto, booking, lapsed, swept>>
initVars  == <<bookingId, initiating>>
workVars  == <<at, on, todo>>
faultVars == <<faults, cut>>
historyVars == <<beaten, succeeded>>
vars == <<rowVars, initVars, charge, payment, aged, ticket, workVars,
          faultVars, historyVars>>

Worker == Webhook \cup Reconciler

Initiating == {"no", "checked", "created", "accepted", "declined", "done"}
Charge == {"none", "pending", "success", "failed"}
PaymentStatus == {"NONE", "INITIATED", "PENDING", "SUCCESS", "FAILED", "TIMEOUT"}
TicketStatus == {"NONE", "VALID", "CANCELLED"}
Query == {"none", "fail", "settle", "confirm", "lookup", "mint", "timeout"}

\* aggregatorRef is saved with the push's answer: the webhook and the
\* reconciliation find a payment from then on.
Referenced(p) == payment[p] \notin {"NONE", "INITIATED"}

Init ==
  /\ Rows!Init
  /\ bookingId \in [Payment -> Request]
  /\ initiating = [p \in Payment |-> "no"]
  /\ charge = [p \in Payment |-> "none"]
  /\ payment = [p \in Payment |-> "NONE"]
  /\ aged = {}
  /\ ticket = [r \in Request |-> "NONE"]
  /\ at = [w \in Worker |-> "none"]
  /\ on = [w \in Worker |-> NoOne]
  /\ todo = [q \in Reconciler |-> {}]
  /\ faults = 0 /\ cut = {}
  /\ beaten = {} /\ succeeded = {}

-----------------------------------------------------------------------------
(* initiate *)

InitiateCheck(p) ==
  /\ initiating[p] = "no"
  /\ booking[bookingId[p]] = "PENDING_PAYMENT"
  /\ bookingId[p] \notin lapsed
  /\ initiating' = [initiating EXCEPT ![p] = "checked"]
  /\ UNCHANGED <<rowVars, bookingId, charge, payment, aged, ticket, workVars,
                 faultVars, historyVars>>

InitiateCreate(p) ==
  /\ initiating[p] = "checked"
  /\ payment' = [payment EXCEPT ![p] = "INITIATED"]
  /\ initiating' = [initiating EXCEPT ![p] = "created"]
  /\ UNCHANGED <<rowVars, bookingId, charge, aged, ticket, workVars,
                 faultVars, historyVars>>

\* The aggregator accepts the push or declines it at once.
InitiatePush(p) ==
  /\ initiating[p] = "created"
  /\ \/ /\ charge' = [charge EXCEPT ![p] = "pending"]
        /\ initiating' = [initiating EXCEPT ![p] = "accepted"]
     \/ /\ charge' = [charge EXCEPT ![p] = "failed"]
        /\ initiating' = [initiating EXCEPT ![p] = "declined"]
  /\ UNCHANGED <<rowVars, bookingId, payment, aged, ticket, workVars,
                 faultVars, historyVars>>

InitiateSave(p) ==
  /\ initiating[p] \in {"accepted", "declined"}
  /\ payment' = [payment EXCEPT ![p] =
                   IF initiating[p] = "declined" THEN "FAILED" ELSE "PENDING"]
  /\ initiating' = [initiating EXCEPT ![p] = "done"]
  /\ UNCHANGED <<rowVars, bookingId, charge, aged, ticket, workVars,
                 faultVars, historyVars>>

\* The push is sent and its answer lost: the row stays INITIATED, with no
\* aggregatorRef.
InitiateLost(p) ==
  /\ initiating[p] = "created"
  /\ faults < MaxFaults
  /\ faults' = faults + 1
  /\ \E c \in {"none", "pending"} : charge' = [charge EXCEPT ![p] = c]
  /\ initiating' = [initiating EXCEPT ![p] = "done"]
  /\ cut' = cut \cup {p}
  /\ UNCHANGED <<rowVars, bookingId, payment, aged, ticket, workVars,
                 historyVars>>

-----------------------------------------------------------------------------
(* What a webhook call and a reconciliation run share *)

\* w's next query about p.
Goes(w, p, query) ==
  /\ at' = [at EXCEPT ![w] = query]
  /\ on' = [on EXCEPT ![w] = p]

\* w has finished with its payment: a call returns, a run takes its next one.
Ends(w) ==
  /\ at' = [at EXCEPT ![w] = "none"]
  /\ on' = [on EXCEPT ![w] = NoOne]
  /\ UNCHANGED todo

\* w throws: a call fails, a run gives up all it had selected.
Throws(w) ==
  /\ at' = [at EXCEPT ![w] = "none"]
  /\ on' = [on EXCEPT ![w] = NoOne]
  /\ todo' = [q \in Reconciler |-> IF q = w THEN {} ELSE todo[q]]

Fail(w) ==
  /\ at[w] = "fail"
  /\ payment' = [payment EXCEPT ![on[w]] = "FAILED"]
  /\ Ends(w)
  /\ UNCHANGED <<rowVars, initVars, charge, aged, ticket, faultVars,
                 historyVars>>

(* settleSuccess *)

\* Past the first write, SUCCESS, and before the last, the ticket.
Settlers == {w \in Worker : at[w] \in {"confirm", "lookup", "mint"}}

\* Mutant: money that comes after the hold is gone is only recorded.
SettleHeld(w) ==
  /\ at[w] = "settle"
  /\ payment' = [payment EXCEPT ![on[w]] = "SUCCESS"]
  /\ IF booking[bookingId[on[w]]] = "PENDING_PAYMENT"
     THEN Goes(w, on[w], "confirm") /\ UNCHANGED todo
     ELSE Ends(w)
  /\ succeeded' = succeeded \cup {on[w]}
  /\ UNCHANGED <<rowVars, initVars, charge, aged, ticket, faultVars, beaten>>

Settle(w) ==
  /\ at[w] = "settle"
  /\ payment' = [payment EXCEPT ![on[w]] = "SUCCESS"]
  /\ Goes(w, on[w], "confirm")
  /\ succeeded' = succeeded \cup {on[w]}
  /\ UNCHANGED <<rowVars, initVars, charge, aged, ticket, todo, faultVars,
                 beaten>>

\* BookingsService.confirm.
ConfirmPaid(w) ==
  /\ at[w] = "confirm"
  /\ Rows!Confirm(bookingId[on[w]])
  /\ Goes(w, on[w], "lookup")
  /\ UNCHANGED <<initVars, charge, payment, aged, ticket, todo,
                 faultVars, historyVars>>

\* Another booking, held or confirmed at this moment, has the seat of r.
HeldByAnother(r) ==
  \E q \in Request \ {r} : dto[q] = dto[r] /\ booking[q] \in Rows!Active

\* The partial index rejects the update.
ConfirmRejected(w) ==
  /\ at[w] = "confirm"
  /\ ~Rows!IndexAllows(bookingId[on[w]])
  /\ Throws(w)
  /\ beaten' = beaten \cup {p \in {on[w]} : HeldByAnother(bookingId[p])}
  /\ UNCHANGED <<rowVars, initVars, charge, payment, aged, ticket, faultVars,
                 succeeded>>

\* issueTicket returns the ticket the booking already has ...
Lookup(w) ==
  /\ at[w] = "lookup"
  /\ IF ticket[bookingId[on[w]]] # "NONE"
     THEN Ends(w)
     ELSE Goes(w, on[w], "mint") /\ UNCHANGED todo
  /\ UNCHANGED <<rowVars, initVars, charge, payment, aged, ticket, faultVars,
                 historyVars>>

\* Mutant: the creation is an upsert.
MintUpsert(w) ==
  /\ at[w] = "mint"
  /\ ticket' = [ticket EXCEPT ![bookingId[on[w]]] = "VALID"]
  /\ Ends(w)
  /\ UNCHANGED <<rowVars, initVars, charge, payment, aged, faultVars,
                 historyVars>>

\* ... or creates it; Ticket.bookingId is unique, so of two creations one throws.
Mint(w) ==
  /\ at[w] = "mint"
  /\ IF ticket[bookingId[on[w]]] # "NONE"
     THEN Throws(w) /\ UNCHANGED ticket
     ELSE /\ ticket' = [ticket EXCEPT ![bookingId[on[w]]] = "VALID"]
          /\ Ends(w)
  /\ UNCHANGED <<rowVars, initVars, charge, payment, aged, faultVars,
                 historyVars>>

-----------------------------------------------------------------------------
(* handleWebhook *)

\* Mutant: every call is taken for a success.
ReportedUnread(p) == "settle"

\* The query the reported outcome leads to.
Reported(p) == IF charge[p] = "failed" THEN "fail" ELSE "settle"

\* The aggregator reports an outcome; a payment already settled is acknowledged
\* without effect, one without reference is refused.
WebhookRead(w, p) ==
  /\ at[w] = "none"
  /\ Referenced(p)
  /\ charge[p] \in {"success", "failed"}
  /\ payment[p] \notin {"SUCCESS", "FAILED"}
  /\ Goes(w, p, Reported(p))
  /\ UNCHANGED <<rowVars, initVars, charge, payment, aged, ticket, todo,
                 faultVars, historyVars>>

(* reconcilePending *)

\* Mutant: old payments are no longer asked about.
UnsettledRecent == {p \in Payment : payment[p] = "PENDING" /\ p \notin aged}

Unsettled == {p \in Payment : payment[p] = "PENDING"}

\* Rows older than a minute, at most Batch of them, in no particular order.
ReconcileSelect(q) ==
  /\ at[q] = "none" /\ todo[q] = {}
  /\ \E S \in SUBSET Unsettled :
       /\ S # {}
       /\ Cardinality(S) <= Batch
       /\ todo' = [todo EXCEPT ![q] = S]
  /\ UNCHANGED <<rowVars, initVars, charge, payment, aged, ticket, at, on,
                 faultVars, historyVars>>

\* checkStatus answers for the next selected payment.
ReconcileCheck(q, p) ==
  /\ at[q] = "none" /\ p \in todo[q]
  /\ todo' = [todo EXCEPT ![q] = @ \ {p}]
  /\ \/ charge[p] = "success" /\ Goes(q, p, "settle")
     \/ charge[p] = "failed" /\ Goes(q, p, "fail")
     \/ charge[p] = "pending" /\ p \in aged /\ Goes(q, p, "timeout")
     \/ charge[p] = "pending" /\ p \notin aged /\ UNCHANGED <<at, on>>
  /\ UNCHANGED <<rowVars, initVars, charge, payment, aged, ticket, faultVars,
                 historyVars>>

\* Mutant: no answer in time counts as a refusal.
MarkTimeoutFailed(q) ==
  /\ at[q] = "timeout"
  /\ payment' = [payment EXCEPT ![on[q]] = "FAILED"]
  /\ Ends(q)
  /\ UNCHANGED <<rowVars, initVars, charge, aged, ticket, faultVars,
                 historyVars>>

\* Mutant: the status of an expired booking is written to the payment.
MarkTimeoutExpired(q) ==
  /\ at[q] = "timeout"
  /\ payment' = [payment EXCEPT ![on[q]] = "EXPIRED"]
  /\ Ends(q)
  /\ UNCHANGED <<rowVars, initVars, charge, aged, ticket, faultVars,
                 historyVars>>

\* Still PENDING when checkStatus answered.
MarkTimeout(q) ==
  /\ at[q] = "timeout"
  /\ payment' = [payment EXCEPT ![on[q]] = "TIMEOUT"]
  /\ Ends(q)
  /\ UNCHANGED <<rowVars, initVars, charge, aged, ticket, faultVars,
                 historyVars>>

\* A query of w, or checkStatus, fails.
Throw(w) ==
  /\ at[w] # "none" \/ (w \in Reconciler /\ todo[w] # {})
  /\ faults < MaxFaults
  /\ faults' = faults + 1
  /\ Throws(w)
  /\ cut' = cut \cup {on[v] : v \in {w} \cap Settlers}
  /\ UNCHANGED <<rowVars, initVars, charge, payment, aged, ticket, historyVars>>

-----------------------------------------------------------------------------
(* The bookings change under the payments' feet *)

Hold(r) ==
  /\ Rows!Create(r)
  /\ UNCHANGED <<initVars, charge, payment, aged, ticket, workVars,
                 faultVars, historyVars>>

LapseHold(r) ==
  /\ Rows!Lapse(r)
  /\ UNCHANGED <<initVars, charge, payment, aged, ticket, workVars,
                 faultVars, historyVars>>

\* expireStaleHolds; restarts and failures of a sweep are those of BookingRows.
Sweep ==
  /\ Rows!Select \/ Rows!Forget \/ \E r \in Request : Rows!Expire(r)
  /\ UNCHANGED <<initVars, charge, payment, aged, ticket, workVars,
                 faultVars, historyVars>>

\* cancelTrip, with the third statement of its transaction.
CancelTrip(t) ==
  /\ Rows!CancelTrip(t)
  /\ ticket' = [r \in Request |->
                  IF dto[r].trip = t /\ ticket[r] # "NONE"
                  THEN "CANCELLED" ELSE ticket[r]]
  /\ UNCHANGED <<initVars, charge, payment, aged, workVars, faultVars,
                 historyVars>>

(* The payer, time, restarts *)

Pay(p) ==
  /\ charge[p] = "pending"
  /\ \E outcome \in {"success", "failed"} :
       charge' = [charge EXCEPT ![p] = outcome]
  /\ UNCHANGED <<rowVars, initVars, payment, aged, ticket, workVars,
                 faultVars, historyVars>>

\* The hold was ten minutes and started before the payment: a booking that still
\* waits has passed its deadline.
Age(p) ==
  /\ Referenced(p) /\ p \notin aged
  /\ booking[bookingId[p]] = "PENDING_PAYMENT" => bookingId[p] \in lapsed
  /\ aged' = aged \cup {p}
  /\ UNCHANGED <<rowVars, initVars, charge, payment, ticket, workVars,
                 faultVars, historyVars>>

Crash ==
  /\ faults < MaxFaults
  /\ faults' = faults + 1
  /\ initiating' = [p \in Payment |->
                      IF initiating[p] = "no" THEN "no" ELSE "done"]
  /\ at' = [w \in Worker |-> "none"]
  /\ on' = [w \in Worker |-> NoOne]
  /\ todo' = [q \in Reconciler |-> {}]
  /\ swept' = {}
  /\ cut' = cut \cup {on[w] : w \in Settlers}
                 \cup {p \in Payment : initiating[p] = "accepted"}
  /\ UNCHANGED <<dto, booking, lapsed, bookingId, charge, payment, aged, ticket,
                 historyVars>>

-----------------------------------------------------------------------------
Initiate(p) ==
  \/ InitiateCheck(p) \/ InitiateCreate(p) \/ InitiatePush(p)
  \/ InitiateSave(p) \/ InitiateLost(p)

SettleSuccess(w) ==
  \/ Settle(w) \/ ConfirmPaid(w) \/ ConfirmRejected(w) \/ Lookup(w) \/ Mint(w)

Advance(w) == SettleSuccess(w) \/ Fail(w)

Reconcile(q) ==
  \/ ReconcileSelect(q)
  \/ \E p \in Payment : ReconcileCheck(q, p)
  \/ MarkTimeout(q)

Next ==
  \/ \E p \in Payment : Initiate(p) \/ Pay(p) \/ Age(p)
  \/ \E w \in Webhook, p \in Payment : WebhookRead(w, p)
  \/ \E q \in Reconciler : Reconcile(q)
  \/ \E w \in Worker : Advance(w) \/ Throw(w)
  \/ \E r \in Request : Hold(r) \/ LapseHold(r)
  \/ Sweep
  \/ \E t \in Trip : CancelTrip(t)
  \/ Crash

Spec == Init /\ [][Next]_vars

-----------------------------------------------------------------------------
(* Properties *)

\* Every variable keeps the shape the code gives it; a worker is on a payment
\* exactly while it has a query to make about it, and that payment has a row.
TypeOK ==
  /\ dto \in [Request -> Rows!Slot]
  /\ booking \in [Request -> Rows!BookingStatus]
  /\ lapsed \subseteq Request
  /\ swept \subseteq Request
  /\ bookingId \in [Payment -> Request]
  /\ initiating \in [Payment -> Initiating]
  /\ charge \in [Payment -> Charge]
  /\ payment \in [Payment -> PaymentStatus]
  /\ aged \subseteq Payment
  /\ ticket \in [Request -> TicketStatus]
  /\ at \in [Worker -> Query]
  /\ on \in [Worker -> Payment \cup {NoOne}]
  /\ \A w \in Worker : at[w] = "none" <=> on[w] = NoOne
  /\ todo \in [Reconciler -> SUBSET Payment]
  /\ faults \in 0..MaxFaults
  /\ cut \subseteq Payment /\ beaten \subseteq Payment
  /\ succeeded \subseteq Payment

PaidFor(r) == \E p \in Payment : bookingId[p] = r /\ charge[p] = "success"

\* Nobody travels for free: a booking is confirmed and a ticket issued only
\* when the aggregator has debited a payer for that booking, whatever webhooks
\* are replayed, reconciled twice or answered after the hold expired.
NothingUnpaid ==
  \A r \in Request : booking[r] = "CONFIRMED" \/ ticket[r] # "NONE" => PaidFor(r)

\* A final status agrees with the aggregator: SUCCESS means debited, FAILED
\* means not debited, although webhook, reconciliation and initiate all write
\* the status by id from answers they received earlier.
VerdictIsTrue ==
  \A p \in Payment :
    /\ payment[p] = "SUCCESS" => charge[p] = "success"
    /\ payment[p] = "FAILED" => charge[p] = "failed"

\* Every debit is accounted for once no call is working on the payment: its
\* reference is being saved, or the reconciliation or an administrator will look
\* at it, or the booking has its ticket.  What remains are the debits whose own
\* initiate or settlement a failure cut short, and those that came when another
\* booking held the seat.  A payment once marked SUCCESS has its ticket even if
\* a run that holds an older answer writes TIMEOUT over it.
DebitIsAccountedFor ==
  \A p \in Payment :
    charge[p] = "success" /\ (\A w \in Worker : on[w] # p)
      => \/ ticket[bookingId[p]] # "NONE"
         \/ p \notin succeeded /\ (initiating[p] = "accepted"
                                    \/ payment[p] \in {"PENDING", "TIMEOUT"})
         \/ p \in cut \cup beaten

\* "un webhook rejoué ne crée pas de second billet" (payments.service.ts:81):
\* once a booking has a ticket no later settlement replaces it, not even one
\* that the departure's cancellation has cancelled.
TicketIssuedOnce ==
  [][\A r \in Request :
       ticket[r] # "NONE" => ticket'[r] \in {ticket[r], "CANCELLED"}]_vars

Life == INSTANCE TicketLife
          WITH Booking <- Request, paid <- {r \in Request : PaidFor(r)}

\* Payments implement the life of a ticket (module TicketLife): it appears once,
\* for a booking whose payer was debited before, and settling a payment again,
\* by webhook or reconciliation, never revives a voided one.
ImplementsTicketLife == Life!Spec

-----------------------------------------------------------------------------
(* The job starts every two minutes and its run goes on to its next query, as *)
(* does a call of the webhook, which may never be made; minutes pass.        *)
Fairness ==
  /\ \A q \in Reconciler : WF_vars(Reconcile(q) \/ Advance(q))
  /\ \A w \in Webhook : WF_vars(Advance(w))
  /\ \A p \in Payment : WF_vars(Age(p))
  /\ \A r \in Request : WF_vars(LapseHold(r))

FairSpec == Spec /\ Fairness

\* A payer who was debited does not wait forever: the payment leaves PENDING
\* without any webhook, even when a run takes fewer rows than there are and
\* restarts interrupt it (payments.service.ts:155-158).
DebitedIsSettled ==
  \A p \in Payment :
    (payment[p] = "PENDING" /\ charge[p] = "success")
      ~> payment[p] \in {"SUCCESS", "TIMEOUT"}

-----------------------------------------------------------------------------
(* Claims of the comments that the code does not keep *)

\* The reconciliation handles "débité mais webhook jamais reçu"
\* (payments.service.ts:157): the payer who was debited gets a ticket, or the
\* TIMEOUT that an administrator examines, unless the departure is cancelled.
DebitedGetsTicket ==
  \A p \in Payment :
    (payment[p] = "PENDING" /\ charge[p] = "success")
      ~> \/ ticket[bookingId[p]] # "NONE"
         \/ payment[p] = "TIMEOUT"
         \/ booking[bookingId[p]] = "CANCELLED"

=============================================================================
