# Formal models of wakago-api

Wakago sells bus seats: travellers hold a seat, pay by mobile money, receive a
signed ticket and are scanned at boarding. Agencies pay a subscription to be
visible. The API is one NestJS process on PostgreSQL (Prisma) and Redis, with an
external payment aggregator and scheduled jobs inside the process.

This directory holds TLA+ models of the parts of `src/modules` whose
correctness depends on the order in which concurrent calls, jobs, webhooks and
restarts happen; TLC configurations for small instances; and, for every module
that models a component, proofs that its invariants hold whatever the number of
rows, calls and failures. Paths below are relative to the repository.

- [1 The system](#1-the-system)
- [2 The modules and the code](#2-the-modules-and-the-code)
- [3 The runs](#3-the-runs)
- [4 Fairness](#4-fairness)
- [5 What is proved](#5-what-is-proved)
- [6 Assumptions](#6-assumptions)
- [7 What the code does that its comments do not say](#7-what-the-code-does-that-its-comments-do-not-say)
- [8 Not modelled](#8-not-modelled)
- [9 Plan](#9-plan)
- [10 Running](#10-running)

## 1 The system

| component | code | state it keeps | operations |
|---|---|---|---|
| Seat booking | `bookings.service.ts`, `schema.prisma`, `prisma/migrations/20260815090000_booking_active_seat_unique` | `Booking.status`, `expiresAt`; Redis keys `seatlock:<trip>:<seat>` with a TTL | `holdSeat`, `confirm`, `expireStaleHolds`, `seatMap` |
| Ticket payments | `payments.service.ts`, `payment-provider.ts` | `Payment.status`, `aggregatorRef`, `Ticket` | `initiate`, `handleWebhook`, `reconcilePending`, `settleSuccess`, `issueTicket` |
| Boarding | `boarding.service.ts` | `Ticket.status`, `boardedAt`, `Trip.status` | `scan`, `syncOfflineScans`, `closeTrip`, `manifest` |
| Subscriptions | `subscriptions.service.ts`, `admin.service.ts` | `Subscription`, `SubscriptionPayment`, `SubscriptionNotice`, `Agency.status` | `subscribe`, `pay`, `settle`, `reconcilePending`, `runLifecycle`, `grantExtension`, `activateManually` |
| Jobs | `jobs.service.ts` | none | starts `expireStaleHolds` every minute, the reconciliation of tickets and then of subscriptions every two minutes, `runLifecycle` at six every day |
| Catalog: fleet | `catalog.service.ts` | `isActive` of an agency's buses and routes, under the `maxBuses` and `maxRoutes` of its plan | `assertQuota`, `createBus`, `updateBus`, `createRoute`, `updateRoute` |
| Catalog: departures | `catalog.service.ts` | schedules and departures of the routes | `createTrip`, `generateTrips`, `updateTrip`, `cancelTrip`, `createSchedule`, `updateSchedule` |
| Authentication | `auth.service.ts` | OTP codes, attempts and cooldowns in Redis | `requestOtp`, `verifyOtp`, log-ins |
| Trip search, administration, notifications | `trips`, `admin`, `notifications.service.ts` | none of their own | reads, single-row writes, outgoing messages |

**How they interact.** There are no queues and no events: components meet in
rows. `PaymentsService` calls `BookingsService.confirm`; the catalog's
`cancelTrip` rewrites the bookings and tickets of a departure; boarding and
closing rewrite its status, which `holdSeat` reads; jobs call the services
inside the process that also serves requests.

**What is hard.** Node.js runs a handler undisturbed from one `await` to the
next, and every `await` lets the others in. The code mostly reads, awaits, then
writes *by id* what it decided from the read; only some of those writes test
the status again (`updateMany` in `scan`), some are protected by a unique index
(`booking_active_seat_uq`, `Ticket.bookingId`, `SubscriptionNotice`), the rest
by nothing. Redis locks expire and are deleted without checking their owner. A
debit happens outside and is heard of late, twice or never. A restart loses the
calls in progress and keeps PostgreSQL and Redis.

**What makes each component correct.**

- *Seat booking*: a seat of a departure never has two active bookings; a hold
  is taken back only after its time has passed, and then certainly is; a
  cancelled departure keeps no passenger that its cancellation could reach.
- *Payments*: nobody travels unpaid; a recorded verdict agrees with the
  aggregator; every debit is accounted for; a booking gets one ticket; a debited
  payment does not wait forever.
- *Boarding*: who is let on board had paid and is on record; a replayed scan
  boards nobody again; boarding ends the sale; an ended departure is never
  reopened.
- *Subscriptions*: an agency is served only while subscribed; each payment gives
  one period and no more, and the period is kept; there is no second trial; the
  runs of the daily job, even overlapping, catch up with everything; a debited
  agency is credited.
- *Departures*: generating departures again fills no slot twice, leaves none out and
  brings no cancelled departure back; two generations at once fill twice only the
  slots that both had found free.
- *Fleet*: a plan's limit on active buses and routes is exceeded by no more than
  the calls that overlap can cause, and not at all by calls that do not.

## 2 The modules and the code

```
SeatLedger          what seat booking promises                     (abstract)
   ^ ImplementsLedger                       ^ LedgerKept
SeatHold  --------> BookingRows <------ TicketSale          (INSTANCE)
   |  ImplementsRows    |        RowsKept
   +---- Bookings ------+
                                               Subscriptions   Departures   Fleet
TicketLife          what payments and boarding promise of a ticket (abstract)
   ^ ImplementsTicketLife
TicketSale, then Boarding
```

The proofs are in modules that extend their component's module:
`SeatHoldProofs`, `TicketSaleProofs`, `BoardingProofs`, `DeparturesProofs`,
`FleetProofs`, and `SubscriptionsProofs`, which `PaidTimeProofs` and
`DailyRunProofs` extend in turn.

An action is the code between two awaits, the database or Redis call it starts
with or ends in included. Rows are named by the call that creates them (a
booking by its `holdSeat`, a payment by its `initiate`), so "no row yet" is the
status `"NONE"`.

**Bookings** — the `Booking` table with its statuses and the partial unique
index: `IndexAllows(r)` says that row `r` may become active.

**SeatHold** — `bookings.service.ts` with what `cancelTrip`, `scan` and
`closeTrip` do to the same rows.

| code | actions |
|---|---|
| `holdSeat`: the departure and the other checks | `HoldOpen`, `HoldRefuse` |
| `SET key NX EX` | `HoldLock`, `HoldConflict`; the TTL is `LockExpires` |
| the transaction: `findFirst`, then `create` and commit | `HoldCheck`, `HoldCreate` (the answer may be lost), `HoldAbort` |
| the `catch` block, which deletes the key whoever holds it | `HoldUndo` |
| `confirm`: update by id, then `del` | `Confirm`, `ConfirmUnlock` |
| `expireStaleHolds`: `findMany`, then per row `update` by id and `del` | `SweepSelect`, `SweepExpire`, `SweepUnlock`, `SweepFail` |
| `cancelTrip`, `closeTrip`: check, then write | `CancelCheck`, `CancelCommit`, `CloseCheck`, `CloseCommit` |
| a first scan | `TripBoards` |
| time and restarts | `Lapse` (`expiresAt` passes), `Crash` |

Several sweeps overlap when one takes longer than a minute; several confirm
calls overlap as well. `overtaken` remembers the bookings of the calls a
cancellation found past their look at the departure (`Selling`), and of the
confirmations that came after it.

**SeatLedger** — the abstract promise: a slot is held by nobody or by one
booking, and goes from one to another only through nobody. `SeatHold` implements
it under the mapping `holders <- [s \in Slot |-> Holders(s)]`.

**BookingRows** — the rows without locks, program counters and departures: what
other components can see of seat booking. `SeatHold` implements it with
`swept <- UNION {stale[k] : k \in Sweeper}`. `TicketSale` is built on it and does
to the rows nothing that it does not allow (`RowsKept`), so that the two models
are about the same rows.

**TicketSale** — `payments.service.ts`: `initiate` in five steps (check, row,
push, answer saved, or answer lost); webhook calls and reconciliation runs as
workers that carry *their next query* (`at`) and *the payment it is about* (`on`)
through `settleSuccess` (`Settle`, `ConfirmPaid` or `ConfirmRejected`, `Lookup`,
`Mint`); the run's list (`todo`), abandoned as a whole on an exception
(`Throws`). The aggregator is `charge`: it is outside `src/modules`' control,
decides once and answers truthfully.

**Boarding** — `boarding.service.ts`: a call is the sequence of scans it has
still to make and the next query of the first one. `scan` is a sequence of one,
`syncOfflineScans` a sequence with repetitions; both go through `ReadTrip`,
`ReadTicket`, `Board`, and an offline scan also `KeepOfflineTime`. `closeTrip`
and `cancelTrip` are a check and a write each. Two writes by id come from
outside: `ConfirmLate` is what TicketSale shows possible, a second payment
confirming the booking; `SweepExpire` is what SeatHold shows possible
(`SeatHoldExpiresConfirmed`), a sweep that selected the booking before it was paid
(`stale`) and expires it now, before, during or after the scan.

**TicketLife** — the abstract life of a ticket: a booking is debited for, its
ticket issued, boarded, voided. TicketSale implements it with `paid` the bookings
the aggregator has debited, up to the issue; Boarding, which starts from issued
tickets of paid bookings, implements it from there on. The two modules are in this
way about the same ticket: what the one hands over is what the other starts from,
and neither revives what the other used or voided.

**Subscriptions** — `subscriptions.service.ts` and the two operations of
`admin.service.ts` that write the same rows, for one agency. `settle` reads
(`SettleRead` computes `plan`), writes in one transaction (`SettleCommit`), then
thanks (`SettleThank`). `runLifecycle` is its four queries, each followed by the
loop over what it read (`list`, `seen`): `Remind`, `EnterGrace`, `SecondNotice`,
`Suspend`; `SendNotice` records the notice after the change it announces, and
`RunFail` is a run that throws and whose caller (`jobs.service.ts:51`, or the
request of an administrator) gives it up; `Throw` is the same for a reconciliation
or a manual activation, between any two of its queries. The cron's run and those started by hand
may overlap. Days pass with `Tick`, between calls.

**Departures** — the part of `catalog.service.ts` that makes departures, for one
route. `generateTrips` reads the timetable once (`GenerateRead`), then for each
day in order and each schedule looks for a departure at that date and time
(`GenerateLook`) and creates one if there is none (`GenerateCreate`).
`createTrip` does not look; `updateTrip` checks the status, then moves by id;
`cancelTrip` and the changes of the timetable are one write each. Any number of
generations may be under way.

**Fleet** — `assertQuota` and the four calls that ask it, for one agency. A call
is its row and what it asks (`create`, `activate`, `deactivate`) and its next
query: `Create` and `Update` start one, `ReadPlan` is the query for the
subscription and its plan, `Count` the count of active rows with "Palier
atteint", `Write` the creation or the update by id. `updateBus` decides from the
row it has read whether to ask for the quota (`NeedsQuota`); `updateRoute` asks
whenever `isActive` is true. `ChangePlan` stands for `upsertPlan` and for every
change of the subscription in force.

**History variables.** Some properties speak of what happened earlier. The
variables that remember it are marked *history* where they are declared; no guard
reads them and nothing but history is computed from them, so they change no
behaviour.

| module | variable | remembers |
|---|---|---|
| SeatHold | `overtaken` | bookings of calls that the cancellation of their departure overtook |
| TicketSale | `cut` | payments whose `initiate` a failure or restart cut short after the push, or whose settlement after SUCCESS was written |
| | `beaten` | payments whose confirmation the index rejected while another booking was active on the seat |
| | `succeeded` | payments that some call has marked SUCCESS, whatever the row says now |
| Boarding | `used` | tickets that were no longer VALID when each call began |
| | `overtaken` | tickets each call had accepted when a sweep expired their booking |
| Subscriptions | `trials`, `rivals` | the subscriptions created on trial; the pairs of calls that were at once between the count and the creation |
| | `due`, `credited` | the date up to which each subscription is entitled to time; the payments counted in it |
| | `crossed` | subscriptions whose last settlement came while a run about to change them, or an extension, had already read them |
| | `unbroken`, `ranToday` | the runs since whose start none was cut short; that one of them has ended today |
| | `granted` | the extensions granted since the last run began |
| Departures | `vacated`, `planned`, a departure's `moved` | slots left by hand, slots a generation had to see to, departures moved by hand |
| | `clash` | slots one generation filled while another was about to |
| Fleet | `met`, `crowd` | the limits so far; the most calls that were past their count together |

Operators named in a comment as mutants (`IndexAllowsUnpaid`, `MintUpsert`, ...)
are plausible mistakes, kept beside the definition they change; no action uses
them. Substituting one for its definition makes the property listed with it in
`PROJECT.json` fail, which shows that the run is able to see the mistake.

`MCTicketSale`, `MCBoarding`, `MCSubscriptions`, `MCDepartures` and `MCFleet` add
the symmetry sets and timetables the configurations use; `MCSeatHold` adds
nothing, as its configurations check liveness or name every request.

## 3 The runs

Symmetry sets are used for safety runs only; `TicketSaleLive` fixes instead the
name of one payment's booking (`NamedSpec`), which leaves out only behaviours that
differ in the names of the bookings. Deadlock checking is off everywhere:
requests, payments and days are finite, so every instance may simply end.

| run | instance | shows |
|---|---|---|
| `SeatHold` | 1 seat, 2 requests, 2 sweeps, 1 confirm, 1 fault | `NoDoubleSale`, `ExpiredWasLate`, `CancelledIsCleared`, `ImplementsLedger`, `ImplementsRows`, `StaleHoldReleased` |
| `TicketSale` | 1 seat, 2 bookings, 2 payments, 1 webhook call at a time, 1 run, 1 fault | `NothingUnpaid`, `VerdictIsTrue`, `DebitIsAccountedFor`, `TicketIssuedOnce`, `ImplementsTicketLife` |
| `TicketSaleLive` | 1 seat, 2 bookings, 2 payments, no webhook, runs that take 1 or 2 rows, 1 fault | `DebitedIsSettled` |
| `Boarding` | 2 departures, 1 ticket, 2 controllers, 2 scans per synchronisation, sweeps with an old selection, 1 restart | `AdmittedIsRecorded`, `BoardingClosesSale`, `EndedStaysEnded`, `ReplayBoardsOnce`, `ImplementsTicketLife` |
| `Subscriptions` | 2 subscriptions, 2 payments, 2 overlapping reconciliations that take 1 row, 1 daily run, days 0 to 2 | `ServedIsSubscribed`, `PaidTimeOnly`, `PaidStaysActive`, `RunLeavesNothingOverdue`, `OneTrial` |
| `SubscriptionsLive` | 1 subscription, 1 payment, by mobile money or by hand, 2 overlapping daily runs, 1 restart or failure, days 0 to 3 | `DebitedIsCredited`, and `ServedIsSubscribed`, `PaidStaysActive`, `RunLeavesNothingOverdue` with runs that overlap or are cut short |
| `Departures` | 2 schedules at one time of day, 2 days, 2 departures, 2 generations at once, 1 change by hand, 1 restart | `GeneratedOnce`, `GridCovered` |
| `Fleet` | 2 buses, 1 route, 2 calls, limits of 0, 1 or none, 1 change of plan, 1 fault | `QuotaKept` |

Four more runs check a sentence of the repository that the code does not keep;
TLC's counterexamples are described in section 7.

**Why the bounds are enough to be interesting.** A double sale needs one seat
and two requests: the second can buy the seat while the hold of the first is
expired, confirmed late or half undone. That a third changes nothing is what the
proofs show, for any number. Two sweeps are the smallest overlap, and
one fault cuts any one of them at any query. In TicketSale two payments may be
for the same booking or for two bookings of one seat, and a webhook call against
a run is the smallest race; a webhook call that has ended can be made again, so
replays are unbounded. In Boarding a synchronisation of two scans can hold the
same ticket twice, and a ticket can be shown at the wrong one of two departures.
In TicketSaleLive two payments for two bookings of the seat make the
index reject a confirmation, which ends a run and leaves the other payment to the
next one; a run may take any non-empty part of what waits, which is weaker than
`take: 50`.

In Subscriptions the plan has a trial of one day, a period of two and a grace of
one, so that three dates contain a trial, its end, grace and suspension; `Horizon`
bounds the days and the dates an extension may start from. Two subscriptions are
needed for a second trial and for one that runs out beside another, two payments
to settle the same subscription at once or one after the other, two
reconciliations to settle the same payment twice; each takes one row (`Batch`), as
the safety properties do not ask that everything be taken. The reminders are
turned off there (`Reminder1Days` 0, `SecondNoticeDay` 9): they only write notices.
They are on in SubscriptionsLive, which adds what Subscriptions leaves out, two
daily runs at once, manual activations, a restart, a run or a settlement that
fails, with one subscription and no trial. Two runs that read, in turn, the lists of
expiries and of suspensions are what makes a run write over another. In
Departures two schedules meet in one slot, a generation covers one or both
days, and two departures are enough for a duplicate; a change by hand moves a
departure or changes the timetable, under the generations in progress or between
them; two generations are the smallest overlap. In Fleet two calls are the smallest
overlap and two buses the fewest that exceed a limit of one; a call that has ended
can be made again, so sequences of calls are unbounded. `MaxScans` stands for
the 200 scans the DTO allows, `Batch` for `take: 50`, `MaxFaults` bounds
restarts and failed calls.

Not seen at these sizes, and covered by the proofs of the safety properties:
several departures and seats in SeatHold, more than one fault, more than two
payments, controllers or calls at once, overlapping daily runs or failures with
several subscriptions.

## 4 Fairness

Only what the schedule and the event loop guarantee is fair, and always weakly:

- *SeatHold*: a sweep starts if there is something overdue, because
  `@Cron(EVERY_MINUTE)` starts one every minute, and a started sweep goes on to
  its next query. The `MaxFaults` bound means that sweeps are interrupted
  finitely often. Its safety properties need no fairness.
- *TicketSaleLive*: the reconciliation starts and goes on to its next query, as one
  sequential run: which rows it selects and which it asks about first is left open;
  a webhook call in progress goes on; minutes pass (`Age`, `LapseHold`). The webhook
  has no fairness: it may never be called. Nor has the payer.
- *SubscriptionsLive*: the two-minute reconciliation with the `settle` it calls. The
  daily run, manual activations and the passing of days need none.

A property under this fairness is about a system that is not restarted forever.

## 5 What is proved

Every theorem below is for any number of departures, seats, bookings, payments,
subscriptions, buses, calls, overlapping jobs and faults, from the assumptions
the modules name on their constants (a fresh "no one", natural bounds, disjoint
sets of callers, finite sets where something is counted); none assumes that calls,
runs or generations do not overlap.

| module | theorem | statement |
|---|---|---|
| `SeatHoldProofs` | `TypeCorrect` | `Spec => []TypeOK` |
| | `SeatSoldOnce` | `Spec => []NoDoubleSale` |
| | `OnlyLateExpires` | `Spec => []ExpiredWasLate` |
| | `CancellationClears` | `Spec => []CancelledIsCleared` |
| | `LedgerImplemented` | `Spec => ImplementsLedger` |
| | `RowsImplemented` | `Spec => ImplementsRows` |
| `TicketSaleProofs` | `TypeCorrect` | `Spec => []TypeOK` |
| | `FinalStatusIsTrue` | `Spec => []VerdictIsTrue` |
| | `TravelIsPaid` | `Spec => []NothingUnpaid` |
| | `DebitsAccountedFor` | `Spec => []DebitIsAccountedFor` |
| | `OneTicketPerBooking` | `Spec => TicketIssuedOnce` |
| | `TicketLifeImplemented` | `Spec => ImplementsTicketLife` |
| | `RowsKept` | `Spec => Rows!Spec`: the bookings are those of BookingRows |
| | `LedgerKept` | `Spec => Ledger!Spec`: late confirmations keep the ledger of seats |
| `BoardingProofs` | `TypeCorrect` | `Spec => []TypeOK` |
| | `BoardedIsOnRecord` | `Spec => []AdmittedIsRecorded` |
| | `NoSaleOnceBoarding` | `Spec => []BoardingClosesSale` |
| | `OfflineReplayBoardsOnce` | `Spec => []ReplayBoardsOnce` |
| | `EndIsFinal` | `Spec => EndedStaysEnded` |
| | `TicketLifeImplemented` | `Spec => ImplementsTicketLife` |
| `SubscriptionsProofs` | `TypeCorrect` | `Spec => []TypeOK` |
| | `AgencyIsSubscribed` | `Spec => []ServedIsSubscribed` |
| | `NoSecondTrial` | `Spec => []OneTrial` |
| `PaidTimeProofs` | `NoFreeTime` | `Spec => []PaidTimeOnly` |
| | `PaidTimeIsKept` | `Spec => []PaidStaysActive` |
| `DailyRunProofs` | `RunCatchesUp` | `Spec => []RunLeavesNothingOverdue` |
| `DeparturesProofs` | `TypeCorrect` | `Spec => []TypeOK` |
| | `NoHoleInGrid` | `Spec => []GridCovered` |
| | `GenerationIsIdempotent` | `Spec => []GeneratedOnce` |
| `FleetProofs` | `TypeCorrect` | `Spec => []TypeOK` |
| | `PlanIsKept` | `Spec => []QuotaKept` |

**Seat booking.** `TypeOK` is inductive (`TypeStep`, one step per action). What
seat ownership depends on is one lemma, `StepEffect`: a step either makes no
booking active (`OnlyReleases`), or makes exactly one active past the partial
index (`TakesIndexed`). Hence `NoDoubleSale` is inductive given the typing,
without a word about the lock: **the Redis lock is not what makes a seat sold
once**. It may expire early, be deleted by another call's `catch` block or be
lost; the index alone carries the property, and the lock only spares
transactions.

`LedgerImplemented` needs `NoDoubleSale`: a release by id empties a slot only
because no second booking is in it (`ReleaseStep`), and a confirmation either
takes a free slot or leaves its own as it is (`TakeStep`).
`RowsImplemented` needs a strengthening, `InsertIsFirst`: a request before its
insert has no row, and whatever a sweep has selected has one. Without it,
`HoldCreate` would not be a creation. `ExpiredWasLate` is inductive given the
typing: a sweep expires only what it selected, it selects only what has lapsed,
and `expiresAt` is never written again. `CancelledIsCleared` needs `Overtaken`: on
a cancelled departure only the calls that the cancellation found past their look
at it can still insert; a call that comes later is refused, and a second
cancellation, or a closing that overwrites the first, adds no exception.

**Payments.** Every write is by id, from an answer received queries earlier. The
strengthening, `Working`, says what that answer is still worth: a worker between
`settle` and `mint` is on a debited payment, one about to write FAILED on a
declined one, and `Initiated` keeps a payment the aggregator has not heard of out
of their reach. Because a verdict of the aggregator is final these facts cannot
become false while the worker waits, and `VerdictIsTrue` and `NothingUnpaid`
follow. TIMEOUT is the one status written from an answer that may be stale, and
the one `VerdictIsTrue` says nothing about.

`DebitIsAccountedFor` follows every debit to the ticket. It allows two ways of
losing one, each tied to the payment itself: a failure hit its own `initiate` or
settlement (`cut`), or the index rejected its confirmation at a moment when
another booking was active on the seat (`beaten`; `HeldByAnother` is evaluated in
the step that is rejected, so an earlier hold of the seat that has expired exempts
nobody). The strengthening has two halves. `Pursued`: a payment ever marked SUCCESS
has its ticket, or a worker still between the two (`Settlers`), or one of the two
losses; being about `succeeded` and not about the status, it is not disturbed by a
run that writes TIMEOUT over SUCCESS. `Unsaved`: a payment that can be debited and
has no reference yet is about to get it, or was cut.

What the payments do to the bookings goes through the steps of BookingRows
(`RowsStep`). For those, `RowsEffect` is the counterpart of `StepEffect`: a row
becomes active past the index, or rows are only released; that no seat has two
active bookings (`SeatHeldOnce`) and the ledger of seats (`LedgerKept`) follow from
it, as in SeatHold. The ledger is what
late confirmation puts at risk: a booking that has expired, been cancelled or lost
its seat to another is confirmed by id, and still takes a seat only from nobody.

**Boarding.** A scan decides from reads two queries old. `UnderWay` says what
is still true when it writes: the ticket is for the departure scanned, so that the
`updateMany` of the same transaction takes *its* departure off sale, and if its
booking has expired, a sweep did it after this call had accepted the ticket
(`overtaken`); a replayed scan that goes on to write its clock has its ticket on
record. Nothing stops such a sweep, before the answer BOARDED or after it:
`AdmittedIsRecorded` says that it takes a sweep, and that a booking which had
expired when its ticket was read lets nobody on. `ReplayBoardsOnce` rests on the
ticket being read again for every scan of every list: with `UsedStays`, what was
used or void when a call began is never boarded by it, so that a list sent again
after a lost answer is harmless. `TicketLifeImplemented`, here and for the payments, shows
that of all the writes by id only the creation of a ticket makes one VALID, and
that it follows a debit.

**Subscriptions.** `Serving` ties an agency that is about to be made ACTIVE to a
trial that nobody can end before it is: no run has it in its hands in a phase that
takes something away. `InHand` says that the dates computed from an earlier read
are still in the future or at least exist, which makes the `!` of the code
correct.

`PaidTimeOnly` bounds each due date by `due`, the date the subscription is
entitled to: the end of the trial if it had one, moved on by one period, from
itself or from the current day if that is later, when a payment is recorded for
the first time, and never again for that payment. A period given twice for one
payment, at once or days later, exceeds it. Proving it needs (`PaidTimeProofs`)
that a payment that is SUCCESS stays so, because no reconciliation holds a
*declined* answer about it (`Settled`), and that a date about to be written is at
most what its payment entitles to (`Bought` with `Reach`), whether another
settlement has recorded the payment meanwhile or not. Two settlements of one
payment that overlap then write the same date twice, not two periods.

`PaidStaysActive` is the other direction: a period once paid is not taken away.
Settling takes a subscription out of GRACE or SUSPENDED; only a run that selected
it before (`list`), or an extension that checked it before (`granting`), can put
it back. Its invariant, `Untaken`, says that whatever such a run or extension
still has in its hands has ended, or was settled in between (`crossed`).

`OneTrial` needs `Trials`: two calls
that are both past the count are rivals, and so is a call that is past it with
every trial created meanwhile; once a row exists no count is zero any more, as no
row is deleted.

`DailyRunProofs` follows the four phases of any number of runs at once: after the
query of the expiries what has expired is on the run's list, and past that loop
nothing has expired, since the day does not change under a run. What makes
overlapping runs delicate is that one of them can write GRACE over a subscription
whose grace is over, after another has made its list of suspensions. The
invariant (`CaughtUp`) therefore says of a late subscription not that it is on the
list of *this* run but that some run `Covers` it: has not yet made that list, or
has it there. The run that writes GRACE is such a run itself, and whoever is last
leaves nothing behind. A restart or a failed run takes its list with it; from then
on only runs begun later count (`unbroken`).

**Departures.** `GridCovered` is inductive with the typing: a slot that was
filled stays filled or is remembered as vacated, and `GenerateLook` drops an item
only for a slot it saw filled. `GeneratedOnce` needs `StillFree`: between the look
and the creation no generation fills the slot, or the slot is in `clash`. Nothing
else fills a slot twice: not repeated or interrupted generations, nor two
schedules at one time, nor a departure cancelled or moved meanwhile.

**Fleet.** `QuotaKept` is not inductive: a call past its count has used a place
that no row shows yet. `Loaded` is the active rows together with the rows those
calls are about, as a set, since two calls may be about the same row; it is bounded
by the largest limit met, or by that limit plus `crowd` less one (`Bounded`). A
call joins only after it has counted fewer active rows than the limit it read, at
which moment the others past their count are at most `crowd - 1`, or, for an update that
found its bus active and asks for nothing, with a row that is already in `Loaded`; a
write moves a row from one part of `Loaded` to the other.

*Only model-checked*: liveness under fairness (`StaleHoldReleased`,
`DebitedIsSettled`, `DebitedIsCredited`), which is out of the prover's reach, and
the four sentences of the repository that runs refute. *Only proved*: `RowsKept`
and `LedgerKept`, for which TLC needs twice the time of the TicketSale run on the
same instance.

## 6 Assumptions

- One API process. Overlapping calls and jobs are those of one event loop;
  several processes add no interleaving that the models lack, as every
  call is already split at its awaits, but `Crash` restarts all calls at once.
- Redis and PostgreSQL survive a restart and each of their commands is atomic;
  a transaction is split where another can come between its statements
  (`HoldCheck`, `HoldCreate`).
- The lock's TTL and the hold are the same ten minutes, the lock is set first:
  `expiresAt` passes after the lock has gone (`Lapse`). Ten minutes are shorter
  than the fifteen after which a payment is marked TIMEOUT (`Age`).
- The aggregator tells the truth and never changes a final verdict, as the
  interface `PaymentProvider` promises. The sandbox implementation keeps its
  answers in memory and forgets them on restart; it is not what is modelled.
- The reconciliations select rows older than a minute: none a call is still
  creating.
- A call takes seconds: no day passes during one (`Tick` waits for `Quiet`).
- Boarding starts from issued tickets: a sweep that had selected a booking before
  it was paid has already expired it, still will (`stale`), or was interrupted.
- The sets of buses, routes and calls of Fleet are finite (`AgencyIsFinite`):
  `QuotaKept` counts them.
- In Departures the timetable and dates change at most `MaxEdits` times, and a
  generation covers few days (60 in the code): nothing in its loop depends on
  their number.
- `setAgencyStatus`, by which an administrator overrides the status of an
  agency, is left out of Subscriptions: `ServedIsSubscribed` is about what the
  code decides by itself.
- `DebitedIsCredited` is for runs that can take all the waiting payments
  (`Batch` at least their number): subscription payments have no TIMEOUT, so
  fifty that wait forever can starve the others. It also takes for granted that
  the two-minute job gets as far as the subscriptions: `jobs.service.ts:37-38`
  reconciles the tickets first, and an exception there skips the subscriptions of
  that run.

## 7 What the code does that its comments do not say

Checked, one run each (listed as findings in `PROJECT.json`):

- `SeatHoldExpiresConfirmed`: a sweep selects a booking, its payment is
  confirmed, the sweep expires it by id (`bookings.service.ts:151`). The seat is
  on sale again and the payer has a ticket that the scan will reject.
- `TicketSaleDebitedNoTicket`: the hold expires, the seat is sold again, then the
  first payer is debited. `settleSuccess` writes SUCCESS, `confirm` throws on the
  index, and the payment is no longer PENDING: no job and no TIMEOUT points at it.
- `BoardingDuplicate`: two controllers read the same ticket VALID and both answer
  BOARDED.
- `SubscriptionsPaidSuspended`: the agency renews by a new subscription; when the
  grace of the old one ends, `runLifecycle` suspends the agency.

Reachable in the models as well, without a run of their own:

- a life-cycle run that stops after writing GRACE and before the formal notice:
  the subscription is no longer selected for the notice, and is suspended without
  what `subscriptions.service.ts:235` calls its proof;
- two generations at once that both find a slot free and both fill it (a
  `clash`; `GeneratedOnce` shows that it takes this);
- an active booking on a cancelled departure: `holdSeat` read SCHEDULED before
  the cancellation and inserts after it, or a late payment confirms a cancelled
  booking (`overtaken`; `CancelledIsCleared` shows that it takes one of these);
- DEPARTED overwriting CANCELLED and the reverse, when `closeTrip` and
  `cancelTrip` overlap;
- TIMEOUT written over a SUCCESS that a webhook recorded between `checkStatus`
  and the update: the row is wrong, the ticket is issued all the same
  (`DebitIsAccountedFor`); a TIMEOUT that is debited later and looked at by no job;
- a payer debited for a payment without `aggregatorRef`, because the process died
  between the push and the saving of its answer: nothing ever asks about it (`cut`);
- a passenger answered BOARDED whose booking a sweep expires by id afterwards
  (`overtaken` in Boarding; `AdmittedIsRecorded` shows that it takes this);
- a scan that read its ticket before the cancellation boards it afterwards;
- a subscription paid while `runLifecycle` works on a list that contains it, or
  while an extension of it is being granted, goes to GRACE or is suspended
  (`crossed`; `PaidStaysActive` shows that it takes this);
- two first subscriptions counted before either exists: two trials (`rivals`;
  `OneTrial` shows that it takes this);
- two payments settled at once that compute the same end date: one period lost;
- an extension counted from an old end of grace that is over when granted;
- two life-cycle runs at once, one of them stopped after it moved a subscription
  to GRACE behind the other's back: it stays overdue until the next run that
  nothing cuts short;
- n calls of one agency that count its buses before any of them writes: the limit
  is exceeded by up to n - 1 (`catalog.service.ts:32` says the limit is verified
  before creation; `QuotaKept` is what remains of it);
- no limit at all for an agency without a subscription in TRIAL, ACTIVE or GRACE:
  `assertQuota` returns when it finds none;
- `updateRoute` with `isActive: true` on a route that is active already, refused
  at the limit: unlike `updateBus` it does not look at the row.

Seen in the source, outside the models:

- `createCity` looks for the city, then creates it: without a region, the unique
  index compares NULLs and two calls make two cities (`catalog.service.ts:69`);
- `updateTrip` counts what is sold before it changes the bus, and `updateBus`
  changes a bus's seat plan without counting (`catalog.service.ts:314` and `:224`).

## 8 Not modelled

`seatMap`, `getStatus`, `manifest`, `status`, `listPlans`, trip search and the
dashboard only read. Controllers, DTOs and bootstrap keep no state: where a
service depends on their verdict, the refusal is an action (`HoldRefuse`) or
leaves the state alone.

Authentication (`auth.service.ts`, the guards) is about credentials: passwords,
one-time codes, tokens. The other components depend on it only for the identity
of a caller, which their models take as given.

The catalog's seat plans, cities, boarding points and settings, and the
onboarding and password resets of `admin.service.ts`, are writes of single rows
that no other rule reads, apart from the two races named in section 7.
`setAgencyStatus` overrides an agency by hand (section 6). The sandbox aggregator
is a development stand-in for the interface TicketSale models. Notifications are
output; that sending one may fail between two writes is part of the models'
faults.

## 9 Plan

1. Seats of a bus: `updateTrip` and `updateBus` against `holdSeat`, with a bound
   on what is sold beyond the seat plan in the form of `QuotaKept`.
2. Two agencies and a plan per subscription in Subscriptions.

## 10 Running

```
tlc -workers 2 -config SeatHold.cfg MCSeatHold.tla
for m in *Proofs.tla; do tlapm $m; done
```

Every `.cfg` is run with the `MC` module its name begins with. No run takes more
than a few minutes. `PROJECT.json` lists components, runs, mutants,
findings, hazards, theorems, and for every definition the lines it models.
