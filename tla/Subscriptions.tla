--------------------------- MODULE Subscriptions ---------------------------
(***************************************************************************)
(* SubscriptionsService: subscribing, paying, settling a payment, the      *)
(* daily life cycle (reminders, formal notice and grace, second notice,    *)
(* suspension) and the platform's extensions and manual activations, for   *)
(* one agency.  Every action is the code between two awaits.               *)
(*                                                                         *)
(* Time is a day counter.  A call takes seconds: no call is cut in two by  *)
(* Tick.  A subscription row is named by the call of subscribe that        *)
(* creates it, a payment row by the call that creates it.                  *)
(***************************************************************************)
EXTENDS Integers, FiniteSets

CONSTANTS
  Sub,          \* calls of subscribe
  Payment,      \* calls of pay and of activateManually
  Reconciler,   \* overlapping runs of reconcilePending
  Admin,        \* concurrent calls of activateManually
  Job,          \* overlapping runs of runLifecycle
  Batch,        \* rows one reconciliation selects: take 50
  TrialDays, PeriodDays,                 \* the plan
  GraceDays, Reminder1Days, Reminder2Days, SecondNoticeDay,   \* cfg()
  ExtraDays,    \* the extension the platform grants
  None,         \* no payment, no subscription
  Horizon,      \* bound on the days, and on the dates extensions start from
  MaxFaults     \* bound on restarts and failed runs

ASSUME DurationsArePositive ==
  TrialDays \in Nat /\ {PeriodDays, GraceDays, ExtraDays} \subseteq Nat \ {0}
ASSUME CallersAreDisjoint == Reconciler \cap Admin = {}
ASSUME BatchIsPositive == Batch \in Nat \ {0}
ASSUME NoneIsFresh == None \notin Payment \cup Sub
ASSUME BoundsAreNat == Horizon \in Nat /\ MaxFaults \in Nat

VARIABLES
  today,      \* the date
  agency,     \* Agency.status
  sub,        \* status, endsAt and graceEndsAt of each subscription
  notices,    \* the kinds of SubscriptionNotice each subscription has
  forSub,     \* the subscription of each payment, never written
  payment,    \* SubscriptionPayment.status, "NONE" when there is no row
  charge,     \* what the aggregator answers about each payment
  paying,     \* calls of pay whose push is not yet recorded
  calling,    \* where each call of subscribe is
  trials,     \* history: the subscriptions created on trial
  rivals,     \* history: pairs of calls at once between the count and the trial
  due,        \* history: how far each subscription's time goes by what was paid
  credited,   \* history: payments that some settlement has recorded
  crossed,    \* history: subscriptions whose last settlement came while a run or
              \* an extension held what it had read of them before
  granting,   \* the graceEndsAt each extension in progress will write
  at, on,     \* the next query of each settlement, and its payment
  plan,       \* what settle has computed and not yet written
  todo,       \* what a reconciliation has selected and not yet checked
  phase,      \* the stage of each life-cycle run
  list, seen, \* the subscriptions it has still to treat, as it read them
  notice,     \* the notice it must still record: subscription and kind
  ranToday,   \* history: an unbroken run ended today, and none was cut short since
  granted,    \* history: subscriptions given an extension since the last run began
  unbroken,   \* history: runs since whose start no run was cut short
  faults      \* restarts and failed runs so far

payVars  == <<forSub, payment, charge, paying>>
callVars == <<calling, trials, rivals, due, credited, crossed>>
workVars == <<at, on, plan, todo>>
jobVars  == <<phase, list, seen, notice, ranToday, granted, unbroken>>
vars == <<today, agency, sub, notices, payVars, callVars, granting, workVars,
          jobVars, faults>>

Worker == Reconciler \cup Admin
NoDay == -1

Served == {"TRIAL", "ACTIVE", "GRACE"}
SubStatus == Served \cup {"NONE", "PENDING", "SUSPENDED"}
CycleKind == {"REMINDER_7D", "REMINDER_2D", "FORMAL_NOTICE", "SECOND_NOTICE",
              "SUSPENSION"}
Kind == CycleKind \cup {"REACTIVATION"}

Row(status, endsAt, graceEndsAt) ==
  [status |-> status, endsAt |-> endsAt, graceEndsAt |-> graceEndsAt]

NoPlan == [endsAt |-> NoDay, thanks |-> FALSE]
NoNotice == [of |-> None, kind |-> None]
Unread == [s \in Sub |-> [endsAt |-> NoDay, notices |-> {}]]

Init ==
  /\ today = 0
  /\ agency = "PENDING"
  /\ sub = [s \in Sub |-> Row("NONE", NoDay, NoDay)]
  /\ notices = [s \in Sub |-> {}]
  /\ forSub \in [Payment -> Sub]
  /\ payment = [p \in Payment |-> "NONE"]
  /\ charge = [p \in Payment |-> "pending"]
  /\ paying = {}
  /\ calling = [s \in Sub |-> "no"]
  /\ trials = {} /\ rivals = {}
  /\ due = [s \in Sub |-> NoDay]
  /\ credited = {} /\ crossed = {}
  /\ granting = [s \in Sub |-> NoDay]
  /\ at = [w \in Worker |-> "none"]
  /\ on = [w \in Worker |-> None]
  /\ plan = [w \in Worker |-> NoPlan]
  /\ todo = [q \in Reconciler |-> {}]
  /\ phase = [j \in Job |-> "idle"]
  /\ list = [j \in Job |-> {}]
  /\ seen = [j \in Job |-> Unread]
  /\ notice = [j \in Job |-> NoNotice]
  /\ ranToday = FALSE
  /\ granted = {} /\ unbroken = {}
  /\ faults = 0

-----------------------------------------------------------------------------
(* subscribe *)

\* Mutant: the count asks for a subscription being served.
SubscribeCountServed(s) ==
  /\ calling[s] = "no"
  /\ IF TrialDays > 0 /\ \A q \in Sub : sub[q].status \notin Served
     THEN /\ calling' = [calling EXCEPT ![s] = "trial"]
          /\ rivals' = rivals \cup {{s, q} : q \in {r \in Sub : calling[r] = "trial"}}
     ELSE /\ calling' = [calling EXCEPT ![s] = "paid"]
          /\ UNCHANGED rivals
  /\ UNCHANGED <<today, agency, sub, notices, payVars, trials, due, credited,
                 crossed, granting, workVars, jobVars, faults>>

\* A trial if the plan has one and the agency never had a subscription.
SubscribeCount(s) ==
  /\ calling[s] = "no"
  /\ IF TrialDays > 0 /\ \A q \in Sub : sub[q].status = "NONE"
     THEN /\ calling' = [calling EXCEPT ![s] = "trial"]
          /\ rivals' = rivals \cup {{s, q} : q \in {r \in Sub : calling[r] = "trial"}}
     ELSE /\ calling' = [calling EXCEPT ![s] = "paid"]
          /\ UNCHANGED rivals
  /\ UNCHANGED <<today, agency, sub, notices, payVars, trials, due, credited,
                 crossed, granting, workVars, jobVars, faults>>

SubscribeCreate(s) ==
  /\ calling[s] \in {"trial", "paid"}
  /\ IF calling[s] = "trial"
     THEN /\ sub' = [sub EXCEPT ![s] =
                       Row("TRIAL", today + TrialDays, today + TrialDays + GraceDays)]
          /\ calling' = [calling EXCEPT ![s] = "serve"]
          /\ trials' = trials \cup {s}
          /\ due' = [due EXCEPT ![s] = today + TrialDays]
     ELSE /\ sub' = [sub EXCEPT ![s].status = "PENDING"]
          /\ calling' = [calling EXCEPT ![s] = "done"]
          /\ UNCHANGED <<trials, due>>
  /\ UNCHANGED <<today, agency, notices, payVars, rivals, credited, crossed,
                 granting, workVars, jobVars, faults>>

SubscribeServe(s) ==
  /\ calling[s] = "serve"
  /\ agency' = "ACTIVE"
  /\ calling' = [calling EXCEPT ![s] = "done"]
  /\ UNCHANGED <<today, sub, notices, payVars, trials, rivals, due, credited,
                 crossed, granting, workVars, jobVars, faults>>

-----------------------------------------------------------------------------
(* pay, the payer, activateManually *)

PayCreate(p) ==
  /\ payment[p] = "NONE"
  /\ sub[forSub[p]].status # "NONE"
  /\ payment' = [payment EXCEPT ![p] = "INITIATED"]
  /\ paying' = paying \cup {p}
  /\ UNCHANGED <<today, agency, sub, notices, forSub, charge, callVars, granting,
                 workVars, jobVars, faults>>

\* The push's answer is recorded with the aggregator's reference.
PaySave(p) ==
  /\ p \in paying
  /\ paying' = paying \ {p}
  /\ \E declined \in BOOLEAN :
       /\ payment' = [payment EXCEPT ![p] = IF declined THEN "FAILED" ELSE "PENDING"]
       /\ charge' = [charge EXCEPT ![p] = IF declined THEN "failed" ELSE "pending"]
  /\ UNCHANGED <<today, agency, sub, notices, forSub, callVars, granting,
                 workVars, jobVars, faults>>

Debit(p) ==
  /\ payment[p] = "PENDING" /\ charge[p] = "pending"
  /\ \E outcome \in {"success", "failed"} :
       charge' = [charge EXCEPT ![p] = outcome]
  /\ UNCHANGED <<today, agency, sub, notices, forSub, payment, paying, callVars,
                 granting, workVars, jobVars, faults>>

\* The row has a reference the aggregator has never heard of.
ActivateManually(w, p) ==
  /\ at[w] = "none"
  /\ payment[p] = "NONE"
  /\ sub[forSub[p]].status # "NONE"
  /\ payment' = [payment EXCEPT ![p] = "PENDING"]
  /\ charge' = [charge EXCEPT ![p] = "failed"]
  /\ at' = [at EXCEPT ![w] = "settle"]
  /\ on' = [on EXCEPT ![w] = p]
  /\ UNCHANGED <<today, agency, sub, notices, forSub, paying, callVars, granting,
                 plan, todo, jobVars, faults>>

-----------------------------------------------------------------------------
(* reconcilePending and settle *)

Ends(w) ==
  /\ at' = [at EXCEPT ![w] = "none"]
  /\ on' = [on EXCEPT ![w] = None]
  /\ plan' = [plan EXCEPT ![w] = NoPlan]

\* Mutant: only subscriptions being served are worth asking about.
UnsettledServed ==
  {p \in Payment : payment[p] = "PENDING" /\ sub[forSub[p]].status \in Served}

\* Only rows a minute old: none a manual activation has just created.
Unsettled ==
  {p \in Payment : payment[p] = "PENDING" /\ \A w \in Admin : on[w] # p}

\* All of them, or Batch of them in no particular order.
ReconcileSelect(q) ==
  /\ at[q] = "none" /\ todo[q] = {}
  /\ \E S \in SUBSET Unsettled :
       /\ Cardinality(S) <= Batch
       /\ S = Unsettled \/ Cardinality(S) = Batch
       /\ todo' = [todo EXCEPT ![q] = S]
  /\ UNCHANGED <<today, agency, sub, notices, payVars, callVars, granting, at, on,
                 plan, jobVars, faults>>

ReconcileCheck(q, p) ==
  /\ at[q] = "none" /\ p \in todo[q]
  /\ todo' = [todo EXCEPT ![q] = @ \ {p}]
  /\ IF charge[p] = "pending" THEN UNCHANGED <<at, on>>
     ELSE /\ at' = [at EXCEPT ![q] =
                      IF charge[p] = "success" THEN "settle" ELSE "fail"]
          /\ on' = [on EXCEPT ![q] = p]
  /\ UNCHANGED <<today, agency, sub, notices, payVars, callVars, granting, plan,
                 jobVars, faults>>

Fail(q) ==
  /\ at[q] = "fail"
  /\ payment' = [payment EXCEPT ![on[q]] = "FAILED"]
  /\ Ends(q)
  /\ UNCHANGED <<today, agency, sub, notices, forSub, charge, paying, callVars,
                 granting, todo, jobVars, faults>>

\* The end of the current period, or now when there is none.
Base(row) ==
  IF row.status \in {"ACTIVE", "TRIAL"} /\ row.endsAt > today
  THEN row.endsAt ELSE today

\* Mutant: a settled payment is settled again.
SettleReadAgain(w) ==
  /\ at[w] = "settle"
  /\ LET row == sub[forSub[on[w]]]
     IN  plan' = [plan EXCEPT ![w] =
                    [endsAt |-> Base(row) + PeriodDays,
                     thanks |-> row.status \in {"SUSPENDED", "GRACE"}]]
  /\ at' = [at EXCEPT ![w] = "commit"]
  /\ UNCHANGED <<today, agency, sub, notices, payVars, callVars, granting, on, todo,
                 jobVars, faults>>

\* Reads the payment with its subscription; a settled one is left alone.
SettleRead(w) ==
  /\ at[w] = "settle"
  /\ LET row == sub[forSub[on[w]]]
     IN  IF payment[on[w]] = "SUCCESS" THEN Ends(w)
         ELSE /\ plan' = [plan EXCEPT ![w] =
                   [endsAt |-> Base(row) + PeriodDays,
                    thanks |-> row.status \in {"SUSPENDED", "GRACE"}]]
              /\ at' = [at EXCEPT ![w] = "commit"]
              /\ UNCHANGED on
  /\ UNCHANGED <<today, agency, sub, notices, payVars, callVars, granting, todo,
                 jobVars, faults>>

\* A run about to put s in grace or to suspend it, or an extension, has read s.
ReadBefore(s) ==
  \/ granting[s] # NoDay
  \/ \E j \in Job : phase[j] \in {"expire", "suspend"} /\ s \in list[j]

\* A payment pays one period, from the day due or from today, however often it
\* is settled.
Credits(p) ==
  LET s == forSub[p]
      from == IF due[s] > today THEN due[s] ELSE today
  IN  /\ due' = IF p \in credited THEN due
                ELSE [due EXCEPT ![s] = from + PeriodDays]
      /\ credited' = credited \cup {p}
      /\ crossed' = IF ReadBefore(s) THEN crossed \cup {s} ELSE crossed \ {s}

\* Mutant: the end of grace is that of the period before.
SettleCommitOldGrace(w) ==
  /\ at[w] = "commit"
  /\ LET s == forSub[on[w]]
     IN  /\ payment' = [payment EXCEPT ![on[w]] = "SUCCESS"]
         /\ sub' = [sub EXCEPT ![s] = Row("ACTIVE", plan[w].endsAt, @.graceEndsAt)]
         /\ agency' = "ACTIVE"
         /\ notices' = [notices EXCEPT ![s] = @ \ CycleKind]
  /\ Credits(on[w])
  /\ IF plan[w].thanks
     THEN at' = [at EXCEPT ![w] = "thank"] /\ UNCHANGED <<on, plan>>
     ELSE Ends(w)
  /\ UNCHANGED <<today, forSub, charge, paying, calling, trials, rivals, granting,
                 todo, jobVars, faults>>

SettleCommit(w) ==
  /\ at[w] = "commit"
  /\ LET s == forSub[on[w]]
         endsAt == plan[w].endsAt
     IN  /\ payment' = [payment EXCEPT ![on[w]] = "SUCCESS"]
         /\ sub' = [sub EXCEPT ![s] = Row("ACTIVE", endsAt, endsAt + GraceDays)]
         /\ agency' = "ACTIVE"
         /\ notices' = [notices EXCEPT ![s] = @ \ CycleKind]
  /\ Credits(on[w])
  /\ IF plan[w].thanks
     THEN at' = [at EXCEPT ![w] = "thank"] /\ UNCHANGED <<on, plan>>
     ELSE Ends(w)
  /\ UNCHANGED <<today, forSub, charge, paying, calling, trials, rivals, granting,
                 todo, jobVars, faults>>

SettleThank(w) ==
  /\ at[w] = "thank"
  /\ notices' = [notices EXCEPT ![forSub[on[w]]] = @ \cup {"REACTIVATION"}]
  /\ Ends(w)
  /\ UNCHANGED <<today, agency, sub, payVars, callVars, granting, todo, jobVars,
                 faults>>

\* A query of a reconciliation or of a manual activation is refused: the run gives
\* up what it had selected, the activation leaves its payment PENDING.
Throw(w) ==
  /\ at[w] # "none" \/ (w \in Reconciler /\ todo[w] # {})
  /\ faults < MaxFaults
  /\ faults' = faults + 1
  /\ Ends(w)
  /\ todo' = [q \in Reconciler |-> IF q = w THEN {} ELSE todo[q]]
  /\ UNCHANGED <<today, agency, sub, notices, payVars, callVars, granting, jobVars>>

-----------------------------------------------------------------------------
(* grantExtension *)

\* Mutant: any subscription with an end of grace can be extended.
GrantCheckAny(s) ==
  /\ granting[s] = NoDay
  /\ sub[s].status \in Served \cup {"SUSPENDED"}
  /\ sub[s].graceEndsAt <= Horizon
  /\ granting' = [granting EXCEPT ![s] = sub[s].graceEndsAt + ExtraDays]
  /\ UNCHANGED <<today, agency, sub, notices, payVars, callVars, workVars,
                 jobVars, faults>>

GrantCheck(s) ==
  /\ granting[s] = NoDay
  /\ sub[s].status \in {"GRACE", "SUSPENDED"}
  /\ sub[s].graceEndsAt <= Horizon     \* bound on repeated extensions
  /\ granting' = [granting EXCEPT ![s] = sub[s].graceEndsAt + ExtraDays]
  /\ UNCHANGED <<today, agency, sub, notices, payVars, callVars, workVars,
                 jobVars, faults>>

GrantCommit(s) ==
  /\ granting[s] # NoDay
  /\ sub' = [sub EXCEPT ![s].status = "GRACE", ![s].graceEndsAt = granting[s]]
  /\ agency' = "ACTIVE"
  /\ notices' = [notices EXCEPT ![s] = @ \ {"SUSPENSION"}]
  /\ granting' = [granting EXCEPT ![s] = NoDay]
  /\ granted' = granted \cup {s}
  /\ UNCHANGED <<today, payVars, callVars, workVars, phase, list, seen, notice,
                 ranToday, unbroken, faults>>

-----------------------------------------------------------------------------
(* runLifecycle: four queries, each followed by its loop *)

Upcoming == {s \in Sub : /\ sub[s].status \in {"ACTIVE", "TRIAL"}
                         /\ sub[s].endsAt > today
                         /\ sub[s].endsAt <= today + Reminder1Days}
\* Mutant: the query forgets the trials.
ExpiredPaid == {s \in Sub : sub[s].status = "ACTIVE" /\ sub[s].endsAt <= today}
\* Mutant: the day it ends counts as paid.
ExpiredBefore == {s \in Sub : /\ sub[s].status \in {"ACTIVE", "TRIAL"}
                              /\ sub[s].endsAt < today}

Expired == {s \in Sub : /\ sub[s].status \in {"ACTIVE", "TRIAL"}
                        /\ sub[s].endsAt <= today}
InGrace == {s \in Sub : sub[s].status = "GRACE" /\ sub[s].graceEndsAt > today}
ToSuspend == {s \in Sub : sub[s].status = "GRACE" /\ sub[s].graceEndsAt <= today}

\* The next query is made when nothing is left of the one before.
Queries(j, from, to, rows) ==
  /\ phase[j] = from /\ list[j] = {} /\ notice[j] = NoNotice
  /\ phase' = [phase EXCEPT ![j] = to]
  /\ list' = [list EXCEPT ![j] = rows]
  /\ seen' = [seen EXCEPT ![j] =
                [s \in Sub |->
                   IF s \in rows
                   THEN [endsAt |-> sub[s].endsAt, notices |-> notices[s]]
                   ELSE Unread[s]]]
  /\ UNCHANGED notice

RunStart(j) ==
  /\ Queries(j, "idle", "remind", Upcoming)
  /\ granted' = {}
  /\ unbroken' = unbroken \cup {j}
  /\ UNCHANGED ranToday

RunNext(j) ==
  /\ \/ Queries(j, "remind", "expire", Expired)
     \/ Queries(j, "expire", "second", InGrace)
     \/ Queries(j, "second", "suspend", ToSuspend)
  /\ UNCHANGED <<ranToday, granted, unbroken>>

RunEnd(j) ==
  /\ Queries(j, "suspend", "idle", {})
  /\ ranToday' = (ranToday \/ j \in unbroken)
  /\ unbroken' = unbroken \ {j}
  /\ UNCHANGED granted

RunQuery(j) ==
  /\ RunStart(j) \/ RunNext(j) \/ RunEnd(j)
  /\ UNCHANGED <<today, agency, sub, notices, payVars, callVars, granting,
                 workVars, faults>>

\* j takes s from its list, and has a notice to record about it, or none.
Treats(j, s, of, note) ==
  /\ phase[j] = of /\ s \in list[j] /\ notice[j] = NoNotice
  /\ list' = [list EXCEPT ![j] = @ \ {s}]
  /\ notice' = [notice EXCEPT ![j] = note]
  /\ UNCHANGED <<phase, seen, ranToday, granted, unbroken>>

Note(s, kind) == [of |-> s, kind |-> kind]

\* The reminder due for s as the run read it.
Reminder(s, read) ==
  CASE /\ read.endsAt - today <= Reminder2Days
       /\ "REMINDER_2D" \notin read.notices -> Note(s, "REMINDER_2D")
    [] OTHER -> IF "REMINDER_7D" \notin read.notices
                THEN Note(s, "REMINDER_7D") ELSE NoNotice

Remind(j, s) ==
  /\ Treats(j, s, "remind", Reminder(s, seen[j][s]))
  /\ UNCHANGED <<today, agency, sub, notices, payVars, callVars, granting,
                 workVars, faults>>

\* GRACE until the grace period after the endsAt the run read.
EnterGrace(j, s) ==
  /\ Treats(j, s, "expire", Note(s, "FORMAL_NOTICE"))
  /\ sub' = [sub EXCEPT ![s].status = "GRACE",
                        ![s].graceEndsAt = seen[j][s].endsAt + GraceDays]
  /\ UNCHANGED <<today, agency, notices, payVars, callVars, granting, workVars,
                 faults>>

SecondNotice(j, s) ==
  /\ Treats(j, s, "second",
            IF /\ today - seen[j][s].endsAt >= SecondNoticeDay
               /\ "SECOND_NOTICE" \notin seen[j][s].notices
            THEN Note(s, "SECOND_NOTICE") ELSE NoNotice)
  /\ UNCHANGED <<today, agency, sub, notices, payVars, callVars, granting,
                 workVars, faults>>

\* Mutant: the agency keeps its status.
SuspendAlone(j, s) ==
  /\ Treats(j, s, "suspend", Note(s, "SUSPENSION"))
  /\ sub' = [sub EXCEPT ![s].status = "SUSPENDED"]
  /\ UNCHANGED <<today, agency, notices, payVars, callVars, granting, workVars,
                 faults>>

Suspend(j, s) ==
  /\ Treats(j, s, "suspend", Note(s, "SUSPENSION"))
  /\ sub' = [sub EXCEPT ![s].status = "SUSPENDED"]
  /\ agency' = "SUSPENDED"
  /\ UNCHANGED <<today, notices, payVars, callVars, granting, workVars, faults>>

\* Sent, then recorded once per subscription and kind.
SendNotice(j) ==
  /\ notice[j] # NoNotice
  /\ notices' = [notices EXCEPT ![notice[j].of] = @ \cup {notice[j].kind}]
  /\ notice' = [notice EXCEPT ![j] = NoNotice]
  /\ UNCHANGED <<today, agency, sub, payVars, callVars, granting, workVars, phase,
                 list, seen, ranToday, granted, unbroken, faults>>

\* A query or a write of the run is refused: its caller catches the exception
\* and the rest of the run is not done.
RunFail(j) ==
  /\ phase[j] # "idle" /\ faults < MaxFaults
  /\ faults' = faults + 1
  /\ phase' = [phase EXCEPT ![j] = "idle"]
  /\ list' = [list EXCEPT ![j] = {}]
  /\ seen' = [seen EXCEPT ![j] = Unread]
  /\ notice' = [notice EXCEPT ![j] = NoNotice]
  /\ ranToday' = FALSE /\ unbroken' = {}
  /\ UNCHANGED <<today, agency, sub, notices, payVars, callVars, granting,
                 workVars, granted>>

-----------------------------------------------------------------------------
(* Days and restarts *)

\* No call is in progress.
Quiet ==
  /\ \A w \in Worker : at[w] = "none"
  /\ \A q \in Reconciler : todo[q] = {}
  /\ \A j \in Job : phase[j] = "idle"
  /\ \A s \in Sub : calling[s] \in {"no", "done"} /\ granting[s] = NoDay
  /\ paying = {}

Tick ==
  /\ Quiet /\ today < Horizon
  /\ today' = today + 1
  /\ ranToday' = FALSE
  /\ UNCHANGED <<agency, sub, notices, payVars, callVars, granting, workVars,
                 phase, list, seen, notice, granted, unbroken, faults>>

Crash ==
  /\ ~Quiet /\ faults < MaxFaults
  /\ faults' = faults + 1
  /\ paying' = {}
  /\ calling' = [s \in Sub |-> IF calling[s] = "no" THEN "no" ELSE "done"]
  /\ granting' = [s \in Sub |-> NoDay]
  /\ at' = [w \in Worker |-> "none"]
  /\ on' = [w \in Worker |-> None]
  /\ plan' = [w \in Worker |-> NoPlan]
  /\ todo' = [q \in Reconciler |-> {}]
  /\ phase' = [j \in Job |-> "idle"]
  /\ list' = [j \in Job |-> {}]
  /\ seen' = [j \in Job |-> Unread]
  /\ notice' = [j \in Job |-> NoNotice]
  /\ ranToday' = (ranToday /\ \A j \in Job : phase[j] = "idle")
  /\ unbroken' = {}
  /\ UNCHANGED <<today, agency, sub, notices, forSub, payment, charge, trials,
                 rivals, due, credited, crossed, granted>>

-----------------------------------------------------------------------------
Subscribe(s) == SubscribeCount(s) \/ SubscribeCreate(s) \/ SubscribeServe(s)
Extension(s) == GrantCheck(s) \/ GrantCommit(s)
Settle(w) == SettleRead(w) \/ SettleCommit(w) \/ SettleThank(w)

Reconcile(q) ==
  ReconcileSelect(q) \/ Fail(q) \/ \E p \in Payment : ReconcileCheck(q, p)

RunLifecycle(j) ==
  \/ RunQuery(j)
  \/ \E s \in Sub :
       Remind(j, s) \/ EnterGrace(j, s) \/ SecondNotice(j, s) \/ Suspend(j, s)
  \/ SendNotice(j)
  \/ RunFail(j)

Next ==
  \/ \E s \in Sub : Subscribe(s) \/ Extension(s)
  \/ \E p \in Payment : PayCreate(p) \/ PaySave(p) \/ Debit(p)
  \/ \E w \in Admin, p \in Payment : ActivateManually(w, p)
  \/ \E q \in Reconciler : Reconcile(q)
  \/ \E w \in Worker : Settle(w) \/ Throw(w)
  \/ \E j \in Job : RunLifecycle(j)
  \/ Tick
  \/ Crash

Spec == Init /\ [][Next]_vars

-----------------------------------------------------------------------------
(* Properties *)

\* Every variable keeps the shape the code gives it; a subscription that has been
\* served has its two dates, as the assertions endsAt! and graceEndsAt! assume.
TypeOK ==
  /\ today \in 0..Horizon
  /\ agency \in {"PENDING", "ACTIVE", "SUSPENDED"}
  /\ \A s \in Sub : sub[s] = Row(sub[s].status, sub[s].endsAt, sub[s].graceEndsAt)
  /\ \A s \in Sub :
       /\ sub[s].status \in SubStatus
       /\ sub[s].status \in Served \cup {"SUSPENDED"}
            => sub[s].endsAt \in Nat /\ sub[s].graceEndsAt \in Nat
  /\ notices \in [Sub -> SUBSET Kind]
  /\ payment \in [Payment -> {"NONE", "INITIATED", "PENDING", "SUCCESS", "FAILED"}]
  /\ charge \in [Payment -> {"pending", "success", "failed"}]
  /\ paying \subseteq Payment
  /\ calling \in [Sub -> {"no", "trial", "paid", "serve", "done"}]
  /\ granting \in [Sub -> Int]
  /\ at \in [Worker -> {"none", "settle", "commit", "thank", "fail"}]
  /\ \A w \in Worker : at[w] = "none" <=> on[w] = None
  /\ todo \in [Reconciler -> SUBSET Payment]
  /\ phase \in [Job -> {"idle", "remind", "expire", "second", "suspend"}]
  /\ list \in [Job -> SUBSET Sub]
  /\ trials \subseteq Sub /\ crossed \subseteq Sub
  /\ due \in [Sub -> Int]
  /\ credited \subseteq Payment
  /\ granted \subseteq Sub
  /\ unbroken \subseteq Job
  /\ faults \in 0..MaxFaults

\* An agency is visible to travellers only while one of its subscriptions is on
\* trial, paid or in grace: no suspension, extension, late settlement, run given up
\* in the middle or restart leaves it served for nothing.
ServedIsSubscribed ==
  agency = "ACTIVE" => \E s \in Sub : sub[s].status \in Served

\* An agency gets no time beyond what it paid for: the due date is never later
\* than the trial's end, if there was one, moved on by one period for each payment
\* at the moment it was first recorded, from the day due then or from that day.
\* A payment settled again, by another run or days later, gives nothing more,
\* whatever settlements read, compute and write in turn.
PaidTimeOnly == \A s \in Sub : sub[s].endsAt <= due[s]

\* A period once paid is not taken back: until it ends the subscription stays
\* ACTIVE (or on trial), except where the settlement came while a run, about to
\* put it in grace or suspend it, or an extension had already read it.
PaidStaysActive ==
  \A s \in Sub :
    sub[s].endsAt > today => sub[s].status \in {"ACTIVE", "TRIAL"} \/ s \in crossed

\* The daily run catches up with everything: the cron's run and those started by
\* hand may overlap, settlements and extensions may slip in between any two of
\* their steps and write over what they read, yet once no run is in progress and
\* none was cut short, no expired subscription is still ACTIVE and none whose grace
\* is over is still in GRACE, extensions granted since the last run began excepted.
RunLeavesNothingOverdue ==
  ranToday /\ (\A j \in Job : phase[j] = "idle") =>
    \A s \in Sub :
      /\ sub[s].status \in {"ACTIVE", "TRIAL"} => sub[s].endsAt > today
      /\ sub[s].status = "GRACE" => sub[s].graceEndsAt > today \/ s \in granted

\* "Si un essai est prévu et que l'agence n'a jamais eu d'abonnement" (subscribe):
\* an agency never has a second trial, unless two first calls were between the
\* count and the creation at once.
OneTrial ==
  \A s, t \in trials : s = t \/ {s, t} \in rivals

-----------------------------------------------------------------------------
(* The job reconciles every two minutes, and a run goes on to its next query. *)
Fairness ==
  \A q \in Reconciler : WF_vars(Reconcile(q) \/ Settle(q))

FairSpec == Spec /\ Fairness

\* An agency that was debited gets its period, even when the API restarts in the
\* middle of settle: payment and subscription are written in one transaction.
\* It needs runs that take all the waiting payments.
DebitedIsCredited ==
  \A p \in Payment :
    payment[p] = "PENDING" /\ charge[p] = "success" ~> payment[p] = "SUCCESS"

-----------------------------------------------------------------------------
(* Claims of the comments that the code does not keep *)

\* "Le paiement de votre abonnement réactive immédiatement votre agence"
\* (subscriptions.service.ts:229): an agency with a paid period is not suspended.
PaidIsServed ==
  (\E s \in Sub : sub[s].status = "ACTIVE" /\ sub[s].endsAt > today)
    => agency # "SUSPENDED"

=============================================================================
