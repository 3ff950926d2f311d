--------------------------- MODULE DailyRunProofs ---------------------------
(***************************************************************************)
(* Theorem about Subscriptions, for any number of subscriptions, payments, *)
(* reconciliations, life-cycle runs that overlap, restarts and failed      *)
(* runs: the daily run catches up with everything.  A run that EnterGrace  *)
(* makes late has its own suspensions still to do; what an earlier         *)
(* extension protected is covered by the run that begins.                  *)
(***************************************************************************)
EXTENDS SubscriptionsProofs

NotExpired(s) == sub[s].status \in {"ACTIVE", "TRIAL"} => sub[s].endsAt > today
Late(s) ==
  /\ sub[s].status = "GRACE" /\ sub[s].graceEndsAt <= today
  /\ s \notin granted

\* Run k has not yet made its list of the subscriptions to suspend, or has s on it.
Covers(k, s) ==
  \/ phase[k] \in {"remind", "expire", "second"}
  \/ phase[k] = "suspend" /\ s \in list[k]

\* A run that nothing has cut short has ended, or is at its last loop.
Swept == ranToday \/ \E j \in unbroken : phase[j] = "suspend"

\* What the runs have dealt with so far stays dealt with, or another will see it.
CaughtUp ==
  /\ \A j \in Job :
       /\ phase[j] = "expire" => \A s \in Sub : NotExpired(s) \/ s \in list[j]
       /\ phase[j] \in {"second", "suspend"} => \A s \in Sub : NotExpired(s)
  /\ ranToday => \A s \in Sub : NotExpired(s)
  /\ Swept => \A s \in Sub : Late(s) => \E k \in Job : Covers(k, s)

USE DEF SubStatus, CycleKind, Kind, Row, NoDay, payVars, callVars, workVars, jobVars

\* A step outside the runs, that makes nothing overdue.
LEMMA Undisturbed ==
  ASSUME CaughtUp, UNCHANGED <<phase, list, ranToday, unbroken>>,
         \A s \in Sub : NotExpired(s) => NotExpired(s)',
         \A s \in Sub : Late(s)' => Late(s)
  PROVE  CaughtUp'
BY DEF CaughtUp, Swept, Covers

\* One subscription is written, and is not overdue.
LEMMA WrittenNotOverdue ==
  ASSUME CaughtUp, NEW s \in Sub, UNCHANGED <<phase, list, ranToday, unbroken, today>>,
         \A r \in Sub \ {s} : sub'[r] = sub[r], granted \subseteq granted',
         NotExpired(s)', ~Late(s)'
  PROVE  CaughtUp'
<1>1. \A r \in Sub : NotExpired(r) => NotExpired(r)'
  BY DEF NotExpired
<1>2. \A r \in Sub : Late(r)' => Late(r)
  BY DEF Late
<1> QED BY <1>1, <1>2, Undisturbed

LEMMA CaughtUpStep ==
  ASSUME IInv, CaughtUp, Next
  PROVE  CaughtUp'
<1>0. /\ today \in Nat /\ TrialDays \in Nat
      /\ phase \in [Job -> {"idle", "remind", "expire", "second", "suspend"}]
      /\ list \in [Job -> SUBSET Sub] /\ unbroken \subseteq Job
      /\ sub \in [Sub -> [status : SubStatus, endsAt : Int, graceEndsAt : Int]]
  BY BoundsAreNat, DurationsArePositive DEF IInv, TypeOK, Fields
<1>1. ASSUME UNCHANGED <<phase, list, ranToday, unbroken, today, sub, granted>>
      PROVE  CaughtUp'
  BY <1>1, Undisturbed DEF NotExpired, Late
<1>2. ASSUME NEW s \in Sub, SubscribeCreate(s) PROVE CaughtUp'
  <2>1. /\ UNCHANGED <<phase, list, ranToday, unbroken, granted, today>>
        /\ \A r \in Sub \ {s} : sub'[r] = sub[r]
        /\ \/ sub'[s].status = "PENDING"
           \/ sub'[s].status = "TRIAL" /\ sub'[s].endsAt > today
    <3>1. CASE calling[s] = "trial"
      <4>1. TrialDays > 0
        BY <3>1 DEF IInv, Agreed, Existing
      <4> QED BY <1>0, <1>2, <3>1, <4>1 DEF SubscribeCreate
    <3>2. CASE calling[s] # "trial"
      BY <1>0, <1>2, <3>2 DEF SubscribeCreate, Served
    <3> QED BY <3>1, <3>2
  <2>2. NotExpired(s)' /\ ~Late(s)'
    BY <1>0, <2>1 DEF NotExpired, Late
  <2> QED BY <2>1, <2>2, WrittenNotOverdue
<1>3. ASSUME NEW s \in Sub, SubscribeCount(s) \/ SubscribeServe(s) \/ GrantCheck(s)
      PROVE  CaughtUp'
  <2>1. UNCHANGED <<phase, list, ranToday, unbroken, today, sub, granted>>
    BY <1>3 DEF SubscribeCount, SubscribeServe, GrantCheck
  <2> QED BY <1>1, <2>1
<1>4. ASSUME NEW s \in Sub, GrantCommit(s) PROVE CaughtUp'
  <2>1. sub' = [sub EXCEPT ![s] = Row("GRACE", sub[s].endsAt, granting[s])]
    <3>1. sub' = [sub EXCEPT ![s].status = "GRACE", ![s].graceEndsAt = granting[s]]
      BY <1>4 DEF GrantCommit
    <3>2. granting[s] \in Int /\ Fields
      BY DEF IInv, TypeOK
    <3> HIDE DEF IInv, Fields
    <3> QED BY <3>1, <3>2, GraceWritten
  <2>2. /\ UNCHANGED <<phase, list, ranToday, unbroken, today>>
        /\ granted' = granted \cup {s}
        /\ \A r \in Sub \ {s} : sub'[r] = sub[r]
        /\ sub'[s].status = "GRACE"
    BY <1>0, <1>4, <2>1 DEF GrantCommit
  <2>3. NotExpired(s)' /\ ~Late(s)'
    BY <2>2 DEF NotExpired, Late
  <2> QED BY <2>2, <2>3, WrittenNotOverdue
<1>5. ASSUME NEW p \in Payment,
             \/ PayCreate(p) \/ PaySave(p) \/ Debit(p)
             \/ \E w \in Admin : ActivateManually(w, p)
      PROVE  CaughtUp'
  <2>1. UNCHANGED <<phase, list, ranToday, unbroken, today, sub, granted>>
    BY <1>5 DEF PayCreate, PaySave, Debit, ActivateManually
  <2> QED BY <1>1, <2>1
<1>6. ASSUME NEW q \in Reconciler,
             ReconcileSelect(q) \/ Fail(q) \/ \E p \in Payment : ReconcileCheck(q, p)
      PROVE  CaughtUp'
  <2>1. UNCHANGED <<phase, list, ranToday, unbroken, today, sub, granted>>
    BY <1>6 DEF ReconcileSelect, Fail, ReconcileCheck
  <2> QED BY <1>1, <2>1
<1>7. ASSUME NEW w \in Worker, SettleRead(w) \/ SettleThank(w) \/ Throw(w)
      PROVE  CaughtUp'
  <2>1. UNCHANGED <<phase, list, ranToday, unbroken, today, sub, granted>>
    BY <1>7 DEF SettleRead, SettleThank, Throw
  <2> QED BY <1>1, <2>1
<1>8. ASSUME NEW w \in Worker, SettleCommit(w) PROVE CaughtUp'
  <2>1. PICK s \in Sub : s = forSub[on[w]]
    BY <1>8 DEF SettleCommit, IInv, TypeOK, Fields
  <2>2. /\ UNCHANGED <<phase, list, ranToday, unbroken, today, granted>>
        /\ \A r \in Sub \ {s} : sub'[r] = sub[r]
        /\ sub'[s].status = "ACTIVE" /\ sub'[s].endsAt = plan[w].endsAt
    BY <1>0, <1>8, <2>1 DEF SettleCommit
  <2>3. plan[w].endsAt > today
    BY <1>8 DEF SettleCommit, IInv, Agreed, InHand
  <2>4. NotExpired(s)' /\ ~Late(s)'
    BY <2>2, <2>3 DEF NotExpired, Late
  <2> QED BY <2>2, <2>4, WrittenNotOverdue
<1>9. ASSUME NEW j \in Job, RunQuery(j) PROVE CaughtUp'
  <2>0. /\ \A s \in Sub : NotExpired(s) \/ s \in Expired
        /\ \A s \in Sub : Late(s) => s \in ToSuspend
    BY <1>0 DEF Expired, ToSuspend, NotExpired, Late
  <2>1. UNCHANGED <<today, sub>> /\ \A s \in Sub : NotExpired(s)' <=> NotExpired(s)
    BY <1>9 DEF RunQuery, NotExpired
  <2>2. CASE RunStart(j)
    <3>1. /\ phase' = [phase EXCEPT ![j] = "remind"] /\ phase[j] = "idle"
          /\ \A i \in Job \ {j} : list'[i] = list[i]
          /\ unbroken' = unbroken \cup {j} /\ UNCHANGED ranToday
      BY <1>0, <2>2 DEF RunStart, Queries
    <3>2. (\A s \in Sub : Covers(j, s)') /\ (Swept' => Swept)
      BY <1>0, <3>1 DEF Covers, Swept
    <3> QED BY <1>0, <2>1, <3>1, <3>2 DEF CaughtUp
  <2>3. CASE Queries(j, "remind", "expire", Expired) \/ Queries(j, "expire", "second", InGrace)
    <3>1. PICK from, to, rows :
            /\ Queries(j, from, to, rows)
            /\ \/ from = "remind" /\ to = "expire" /\ rows = Expired
               \/ from = "expire" /\ to = "second" /\ rows = InGrace
      BY <2>3
    <3>2. /\ phase' = [phase EXCEPT ![j] = to] /\ phase[j] = from /\ list[j] = {}
          /\ list' = [list EXCEPT ![j] = rows]
          /\ UNCHANGED <<ranToday, unbroken, granted>>
      <4>1. UNCHANGED <<ranToday, unbroken, granted>>
        BY <1>9, <2>3 DEF RunQuery, RunStart, RunNext, RunEnd, Queries
      <4> QED BY <3>1, <4>1 DEF Queries
    <3>3. /\ \A k \in Job, s \in Sub : Covers(k, s) => Covers(k, s)'
          /\ Swept' => Swept
          /\ \A s \in Sub : Late(s)' => Late(s)
      BY <1>0, <2>1, <3>1, <3>2 DEF Covers, Swept, Late
    <3>4. /\ \A i \in Job : phase'[i] = "expire" => \A s \in Sub : NotExpired(s)' \/ s \in list'[i]
          /\ \A i \in Job : phase'[i] \in {"second", "suspend"} => \A s \in Sub : NotExpired(s)'
      BY <1>0, <2>0, <2>1, <3>1, <3>2 DEF CaughtUp
    <3> QED BY <2>1, <3>2, <3>3, <3>4 DEF CaughtUp
  <2>4. CASE Queries(j, "second", "suspend", ToSuspend)
    <3>1. /\ phase' = [phase EXCEPT ![j] = "suspend"] /\ phase[j] = "second"
          /\ list' = [list EXCEPT ![j] = ToSuspend]
          /\ UNCHANGED <<ranToday, unbroken, granted>>
      <4>1. UNCHANGED <<ranToday, unbroken, granted>>
        BY <1>9, <2>4 DEF RunQuery, RunStart, RunNext, RunEnd, Queries
      <4> QED BY <2>4, <4>1 DEF Queries
    <3>2. \A s \in Sub : Late(s)' => Covers(j, s)'
      BY <1>0, <2>0, <2>1, <3>1 DEF Covers, Late
    <3>3. /\ \A i \in Job : phase'[i] = "expire" => \A s \in Sub : NotExpired(s)' \/ s \in list'[i]
          /\ \A i \in Job : phase'[i] \in {"second", "suspend"} => \A s \in Sub : NotExpired(s)'
      BY <1>0, <2>1, <3>1 DEF CaughtUp
    <3> QED BY <2>1, <3>1, <3>2, <3>3 DEF CaughtUp
  <2>5. CASE RunEnd(j)
    <3>1. /\ phase' = [phase EXCEPT ![j] = "idle"]
          /\ phase[j] = "suspend" /\ list[j] = {}
          /\ list' = [list EXCEPT ![j] = {}]
          /\ ranToday' = (ranToday \/ j \in unbroken) /\ unbroken' = unbroken \ {j}
          /\ UNCHANGED granted
      BY <2>5 DEF RunEnd, Queries
    <3>2. /\ \A k \in Job, s \in Sub : Covers(k, s) => Covers(k, s)'
          /\ Swept' => Swept
          /\ \A s \in Sub : Late(s)' => Late(s)
      BY <1>0, <2>1, <3>1 DEF Covers, Swept, Late
    <3>3. /\ \A i \in Job : phase'[i] = "expire" => \A s \in Sub : NotExpired(s)' \/ s \in list'[i]
          /\ \A i \in Job : phase'[i] \in {"second", "suspend"} => \A s \in Sub : NotExpired(s)'
          /\ \A s \in Sub : NotExpired(s)'
      BY <1>0, <2>1, <3>1 DEF CaughtUp
    <3> QED BY <3>2, <3>3 DEF CaughtUp
  <2> QED BY <1>9, <2>2, <2>3, <2>4, <2>5 DEF RunQuery, RunNext
<1>10. ASSUME NEW j \in Job, NEW s \in Sub, Remind(j, s) \/ SecondNotice(j, s)
       PROVE  CaughtUp'
  <2>1. /\ phase[j] \in {"remind", "second"} /\ list' = [list EXCEPT ![j] = @ \ {s}]
        /\ UNCHANGED <<phase, ranToday, unbroken, granted, today, sub>>
    BY <1>10 DEF Remind, SecondNotice, Treats
  <2>2. \A i \in Job : phase[i] \in {"expire", "suspend"} => list'[i] = list[i]
    BY <1>0, <2>1
  <2> QED BY <2>1, <2>2 DEF CaughtUp, Swept, Covers, NotExpired, Late
<1>11. ASSUME NEW j \in Job, NEW s \in Sub, EnterGrace(j, s) PROVE CaughtUp'
  <2>1. /\ phase[j] = "expire" /\ list' = [list EXCEPT ![j] = @ \ {s}]
        /\ UNCHANGED <<phase, ranToday, unbroken, granted, today>>
    BY <1>11 DEF EnterGrace, Treats
  <2>2. sub'[s].status = "GRACE" /\ \A r \in Sub \ {s} : sub'[r] = sub[r]
    BY <1>0, <1>11 DEF EnterGrace, Served
  <2>3. /\ \A i \in Job : list[i] \ {s} \subseteq list'[i]
        /\ \A r \in Sub : NotExpired(r) => NotExpired(r)'
        /\ NotExpired(s)'
    BY <1>0, <2>1, <2>2 DEF NotExpired
  <2>4. /\ \A k \in Job, r \in Sub : Covers(k, r) => Covers(k, r)'
        /\ Covers(j, s)'
        /\ \A r \in Sub \ {s} : Late(r)' => Late(r)
        /\ Swept' => Swept
    BY <1>0, <2>1, <2>2 DEF Covers, Late, Swept
  <2> QED BY <2>1, <2>3, <2>4 DEF CaughtUp
<1>12. ASSUME NEW j \in Job, NEW s \in Sub, Suspend(j, s) PROVE CaughtUp'
  <2>1. /\ phase[j] = "suspend" /\ list' = [list EXCEPT ![j] = @ \ {s}]
        /\ UNCHANGED <<phase, ranToday, unbroken, granted, today>>
    BY <1>12 DEF Suspend, Treats
  <2>2. sub'[s].status = "SUSPENDED" /\ \A r \in Sub \ {s} : sub'[r] = sub[r]
    BY <1>0, <1>12 DEF Suspend
  <2>3. /\ \A i \in Job : phase[i] = "expire" => list'[i] = list[i]
        /\ \A r \in Sub : NotExpired(r) => NotExpired(r)'
    BY <1>0, <2>1, <2>2 DEF NotExpired
  <2>4. /\ \A k \in Job, r \in Sub \ {s} : Covers(k, r) => Covers(k, r)'
        /\ \A r \in Sub : Late(r)' => Late(r) /\ r # s
        /\ Swept' => Swept
    BY <1>0, <2>1, <2>2 DEF Covers, Late, Swept
  <2> QED BY <2>1, <2>3, <2>4 DEF CaughtUp
<1>13. ASSUME NEW j \in Job, SendNotice(j) PROVE CaughtUp'
  <2>1. UNCHANGED <<phase, list, ranToday, unbroken, today, sub, granted>>
    BY <1>13 DEF SendNotice
  <2> QED BY <1>1, <2>1
<1>14. ASSUME NEW j \in Job, RunFail(j) PROVE CaughtUp'
  <2>1. /\ \A i \in Job : phase'[i] # "idle" => phase'[i] = phase[i] /\ list'[i] = list[i]
        /\ ~Swept' /\ ~ranToday' /\ UNCHANGED <<today, sub>>
    BY <1>0, <1>14 DEF RunFail, Swept
  <2> QED BY <1>0, <2>1 DEF CaughtUp, NotExpired
<1>15. CASE Tick
  <2>1. /\ \A j \in Job : phase'[j] = "idle"
        /\ ~ranToday' /\ unbroken' \subseteq Job
    BY <1>0, <1>15 DEF Tick, Quiet
  <2> QED BY <2>1 DEF CaughtUp, Swept
<1>16. CASE Crash
  <2>1. /\ \A j \in Job : phase'[j] = "idle"
        /\ unbroken' = {} /\ UNCHANGED <<today, sub, granted>>
        /\ ranToday' => ranToday /\ \A j \in Job : phase[j] = "idle"
    BY <1>16 DEF Crash
  <2>2. ranToday' => \A s \in Sub : NotExpired(s)' /\ ~Late(s)'
    BY <2>1 DEF CaughtUp, Swept, Covers, NotExpired, Late
  <2> QED BY <2>1, <2>2 DEF CaughtUp, Swept
<1>17. ASSUME NEW j \in Job, RunLifecycle(j) PROVE CaughtUp'
  BY <1>9, <1>10, <1>11, <1>12, <1>13, <1>14, <1>17 DEF RunLifecycle
<1>18. ASSUME NEW s \in Sub, Subscribe(s) \/ Extension(s) PROVE CaughtUp'
  BY <1>2, <1>3, <1>4, <1>18 DEF Subscribe, Extension
<1>19. ASSUME NEW w \in Worker, Settle(w) \/ Throw(w) PROVE CaughtUp'
  BY <1>7, <1>8, <1>19 DEF Settle
<1> QED BY <1>5, <1>6, <1>15, <1>16, <1>17, <1>18, <1>19 DEF Next, Reconcile

-----------------------------------------------------------------------------
\* Once no daily run is in progress and one has ended today that was not cut short,
\* no expired subscription is still ACTIVE or on trial and none whose grace is over
\* is still in GRACE, extensions granted since the last run began excepted: whatever
\* days were missed, whatever settled meanwhile and however many runs overlapped.
THEOREM RunCatchesUp == Spec => []RunLeavesNothingOverdue
<1> DEFINE Inv == IInv /\ CaughtUp
<1>1. Init => Inv
  <2>1. Init => CaughtUp
    BY DEF Init, CaughtUp, Swept
  <2> QED BY <2>1, InitHolds
<1>2. Inv /\ [Next]_vars => Inv'
  <2> SUFFICES ASSUME Inv, [Next]_vars PROVE Inv'
    OBVIOUS
  <2>1. IInv'
    BY Step
  <2>2. CASE Next
    BY <2>1, <2>2, CaughtUpStep
  <2>3. CASE UNCHANGED vars
    BY <2>1, <2>3 DEF vars, CaughtUp, Swept, Covers, NotExpired, Late
  <2> QED BY <2>2, <2>3
<1>3. Inv => RunLeavesNothingOverdue
  <2> SUFFICES ASSUME Inv, ranToday, \A j \in Job : phase[j] = "idle", NEW s \in Sub
               PROVE  /\ sub[s].status \in {"ACTIVE", "TRIAL"} => sub[s].endsAt > today
                      /\ sub[s].status = "GRACE" => sub[s].graceEndsAt > today \/ s \in granted
    BY DEF RunLeavesNothingOverdue
  <2>1. NotExpired(s) /\ ~Late(s)
    BY DEF CaughtUp, Swept, Covers
  <2>2. sub[s].graceEndsAt \in Int /\ today \in Int
    BY DEF IInv, TypeOK, Fields
  <2> QED BY <2>1, <2>2 DEF NotExpired, Late
<1> QED BY <1>1, <1>2, <1>3, PTL DEF Spec
=============================================================================
