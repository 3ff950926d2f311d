--------------------------- MODULE PaidTimeProofs ---------------------------
(***************************************************************************)
(* Theorems about Subscriptions, for any number of payments, subscriptions *)
(* and calls: an agency gets no more time than each payment gave it when   *)
(* it was first recorded, and keeps what it paid for.  A payment that is   *)
(* SUCCESS stays SUCCESS, because a reconciliation marks FAILED only what  *)
(* the aggregator declined; so whoever plans a period does it for a        *)
(* payment nobody has credited yet, and another may credit it first.       *)
(***************************************************************************)
EXTENDS SubscriptionsProofs

Later(day) == IF day > today THEN day ELSE today

\* How far p takes its subscription: credited, it is in the due date.
Reach(p) ==
  IF p \in credited THEN due[forSub[p]] ELSE Later(due[forSub[p]]) + PeriodDays

\* A payment that waits for its push is in nobody's hands.
Fresh ==
  \A p \in Payment : payment[p] \in {"NONE", "INITIATED"} =>
    /\ charge[p] = "pending" /\ \A w \in Worker : on[w] # p
    /\ \A q \in Reconciler : p \notin todo[q]

Pushed ==
  /\ \A p \in paying : payment[p] = "INITIATED"
  /\ \A p \in Payment : payment[p] = "SUCCESS" => charge[p] # "pending"

\* A reconciliation does what the aggregator answered.
Answered ==
  \A q \in Reconciler : at[q] # "none" =>
    charge[on[q]] = IF at[q] = "fail" THEN "failed" ELSE "success"

\* A manual activation is alone with its payment.
Manual ==
  \A w \in Admin : at[w] # "none" =>
    /\ charge[on[w]] = "failed"
    /\ \A q \in Reconciler : on[w] \notin todo[q] /\ on[q] # on[w]

\* No reconciliation will mark a manually settled payment FAILED.
Kept ==
  \A p \in Payment : payment[p] = "SUCCESS" /\ charge[p] = "failed" =>
    \A q \in Reconciler : p \notin todo[q] /\ on[q] # p

Settled == Fresh /\ Pushed /\ Answered /\ Manual /\ Kept

\* What is written, and what settle is about to write, was paid for.
Bought ==
  /\ \A p \in Payment : p \in credited <=> payment[p] = "SUCCESS"
  /\ \A s \in Sub : sub[s].endsAt <= due[s]
  /\ \A w \in Worker, p \in Payment : at[w] = "commit" /\ on[w] = p =>
       plan[w].endsAt <= Reach(p)

\* Types of what the conjuncts above speak of.
Shape ==
  /\ today \in Nat /\ forSub \in [Payment -> Sub]
  /\ sub \in [Sub -> [status : SubStatus, endsAt : Int, graceEndsAt : Int]]
  /\ payment \in [Payment -> {"NONE", "INITIATED", "PENDING", "SUCCESS", "FAILED"}]
  /\ charge \in [Payment -> {"pending", "success", "failed"}]
  /\ paying \subseteq Payment
  /\ at \in [Worker -> {"none", "settle", "commit", "thank", "fail"}]
  /\ on \in [Worker -> Payment \cup {None}]
  /\ plan \in [Worker -> [endsAt : Int, thanks : BOOLEAN]]
  /\ \A w \in Worker : at[w] = "none" <=> on[w] = None
  /\ todo \in [Reconciler -> SUBSET Payment]
  /\ due \in [Sub -> Int] /\ credited \subseteq Payment

USE DEF SubStatus, CycleKind, Kind, Row, NoDay, payVars, callVars, workVars, jobVars

LEMMA HasShape == IInv => Shape
BY BoundsAreNat DEF IInv, TypeOK, Fields, Shape

LEMMA InitSettled == Init => Settled
BY NoneIsFresh DEF Init, Settled, Fresh, Pushed, Answered, Manual, Kept, Worker

\* Each kind of step keeps Settled.
LEMMA SettledStep ==
  ASSUME Shape, Settled, Next
  PROVE  Settled'
<1> USE DEF Shape
<1>1. ASSUME NEW s \in Sub, Subscribe(s) \/ Extension(s) PROVE Settled'
  <2>1. UNCHANGED <<payment, charge, paying, at, on, todo>>
    BY <1>1 DEF Subscribe, SubscribeCount, SubscribeCreate, SubscribeServe, Extension,
                GrantCheck, GrantCommit
  <2>10. Fresh'
    BY <2>1 DEF Settled, Fresh
  <2>11. Pushed'
    BY <2>1 DEF Settled, Pushed
  <2>12. Answered'
    BY <2>1 DEF Settled, Answered
  <2>13. Manual'
    BY <2>1 DEF Settled, Manual
  <2>14. Kept'
    BY <2>1 DEF Settled, Kept
  <2> QED BY <2>10, <2>11, <2>12, <2>13, <2>14 DEF Settled
<1>2. ASSUME NEW p \in Payment, PayCreate(p) \/ PaySave(p) \/ Debit(p) PROVE Settled'
  <2>1. CASE PayCreate(p)
    BY <2>1 DEF PayCreate, Settled, Fresh, Pushed, Answered, Manual, Kept
  <2>2. CASE PaySave(p)
    <3>1. payment[p] = "INITIATED" /\ \A w \in Worker : on[w] # p
          /\ \A q \in Reconciler : p \notin todo[q]
      BY <2>2 DEF PaySave, Settled, Fresh, Pushed, Answered, Manual, Kept
    <3>2. PICK declined \in BOOLEAN :
       /\ payment' = [payment EXCEPT ![p] = IF declined THEN "FAILED" ELSE "PENDING"]
       /\ charge' = [charge EXCEPT ![p] = IF declined THEN "failed" ELSE "pending"]
      BY <2>2 DEF PaySave
    <3>3. paying' = paying \ {p} /\ UNCHANGED <<at, on, todo>>
      BY <2>2 DEF PaySave
    <3>4. /\ payment'[p] \in {"FAILED", "PENDING"}
          /\ \A r \in Payment \ {p} : payment'[r] = payment[r] /\ charge'[r] = charge[r]
      BY <3>2
    <3>5. \A w \in Worker : at[w] # "none" => on[w] \in Payment \ {p}
      BY <3>1
    <3>10. Fresh'
      BY <3>1, <3>3, <3>4, <3>5 DEF Settled, Fresh, Worker
    <3>11. Pushed'
      BY <3>1, <3>3, <3>4, <3>5 DEF Settled, Pushed, Worker
    <3>12. Answered'
      BY <3>1, <3>3, <3>4, <3>5 DEF Settled, Answered, Worker
    <3>13. Manual'
      BY <3>1, <3>3, <3>4, <3>5 DEF Settled, Manual, Worker
    <3>14. Kept'
      BY <3>1, <3>3, <3>4, <3>5 DEF Settled, Kept, Worker
    <3> QED BY <3>10, <3>11, <3>12, <3>13, <3>14 DEF Settled
  <2>3. CASE Debit(p)
    <3>1. payment[p] = "PENDING" /\ charge[p] = "pending"
          /\ UNCHANGED <<payment, paying, at, on, todo>>
          /\ charge' \in [Payment -> {"pending", "success", "failed"}]
          /\ \A r \in Payment \ {p} : charge'[r] = charge[r]
      BY <2>3 DEF Debit
    <3>2. \A w \in Worker : at[w] # "none" => on[w] \in Payment \ {p}
      BY <3>1, NoneIsFresh DEF Settled, Fresh, Pushed, Answered, Manual, Kept, Worker
    <3>10. Fresh'
      BY <3>1, <3>2 DEF Settled, Fresh, Worker
    <3>11. Pushed'
      BY <3>1, <3>2 DEF Settled, Pushed, Worker
    <3>12. Answered'
      BY <3>1, <3>2 DEF Settled, Answered, Worker
    <3>13. Manual'
      BY <3>1, <3>2 DEF Settled, Manual, Worker
    <3>14. Kept'
      BY <3>1, <3>2 DEF Settled, Kept, Worker
    <3> QED BY <3>10, <3>11, <3>12, <3>13, <3>14 DEF Settled
  <2> QED BY <1>2, <2>1, <2>2, <2>3
<1>3. ASSUME NEW w \in Admin, NEW p \in Payment, ActivateManually(w, p) PROVE Settled'
  <2>1. /\ payment[p] = "NONE" /\ \A v \in Worker : on[v] # p
        /\ \A q \in Reconciler : p \notin todo[q]
        /\ p \notin paying /\ w \in Worker /\ w \notin Reconciler
    BY <1>3, CallersAreDisjoint
       DEF ActivateManually, Settled, Fresh, Pushed, Answered, Manual, Kept, Worker
  <2>2. /\ payment'[p] = "PENDING" /\ charge'[p] = "failed"
        /\ \A r \in Payment \ {p} : payment'[r] = payment[r] /\ charge'[r] = charge[r]
        /\ at'[w] = "settle" /\ on'[w] = p
        /\ \A v \in Worker \ {w} : at'[v] = at[v] /\ on'[v] = on[v]
        /\ UNCHANGED <<paying, todo>>
    BY <1>3, <2>1 DEF ActivateManually
  <2>3. \A v \in Worker : at[v] # "none" => on[v] \in Payment \ {p}
    BY <2>1
  <2>10. Fresh'
    <3>1. ASSUME NEW r \in Payment, payment'[r] \in {"NONE", "INITIATED"}
          PROVE  /\ r # p /\ charge'[r] = "pending"
                 /\ (\A v \in Worker : on[v] # r) /\ \A q \in Reconciler : r \notin todo[q]
      BY <2>2, <3>1 DEF Settled, Fresh
    <3>2. \A r \in Payment \ {p}, v \in Worker : on[v] # r => on'[v] # r
      BY <2>2
    <3> QED BY <2>2, <3>1, <3>2 DEF Fresh
  <2>11. Pushed'
    <3>1. \A r \in paying : r \in Payment \ {p}
      BY <2>1
    <3>2. \A r \in paying : payment'[r] = "INITIATED"
      BY <2>2, <3>1 DEF Settled, Pushed
    <3>3. \A r \in Payment : payment'[r] = "SUCCESS" => charge'[r] # "pending"
      BY <2>2 DEF Settled, Pushed
    <3> QED BY <2>2, <3>2, <3>3 DEF Pushed
  <2>12. Answered'
    <3>1. \A q \in Reconciler : at'[q] = at[q] /\ on'[q] = on[q]
      BY <2>1, <2>2 DEF Worker
    <3>2. \A q \in Reconciler : at[q] # "none" => charge'[on[q]] = charge[on[q]]
      BY <2>2, <2>3 DEF Worker
    <3> QED BY <3>1, <3>2 DEF Settled, Answered
  <2>13. Manual'
    <3>1. ASSUME NEW v \in Admin, at'[v] # "none"
          PROVE  charge'[on'[v]] = "failed"
                 /\ \A q \in Reconciler : on'[v] \notin todo'[q] /\ on'[q] # on'[v]
      <4>0. \A q \in Reconciler : q \in Worker /\ q # w /\ on'[q] = on[q]
        BY <2>1, <2>2 DEF Worker
      <4>1. CASE v = w
        BY <2>1, <2>2, <4>0, <4>1
      <4>2. CASE v # w
        <5>1. v \in Worker /\ at'[v] = at[v] /\ on'[v] = on[v]
          BY <2>2, <4>2 DEF Worker
        <5>2. on[v] \in Payment \ {p}
          BY <2>3, <3>1, <5>1
        <5> QED BY <2>2, <3>1, <4>0, <5>1, <5>2 DEF Settled, Manual
      <4> QED BY <4>1, <4>2
    <3> QED BY <3>1 DEF Manual
  <2>14. Kept'
    BY <2>1, <2>2, <2>3 DEF Settled, Kept, Worker
  <2> QED BY <2>10, <2>11, <2>12, <2>13, <2>14 DEF Settled
<1>4. ASSUME NEW q \in Reconciler, ReconcileSelect(q) PROVE Settled'
  <2>1. PICK S \in SUBSET Unsettled : todo' = [todo EXCEPT ![q] = S]
    BY <1>4 DEF ReconcileSelect
  <2>2. UNCHANGED <<payment, charge, paying, at, on>>
    BY <1>4 DEF ReconcileSelect
  <2>3. \A r \in Reconciler : \A p \in todo'[r] :
          \/ p \in todo[r]
          \/ payment[p] = "PENDING" /\ (\A w \in Admin : on[w] # p)
    BY <2>1 DEF Unsettled
  <2>10. Fresh'
    BY <2>2, <2>3 DEF Settled, Fresh
  <2>11. Pushed'
    BY <2>2, <2>3 DEF Settled, Pushed
  <2>12. Answered'
    BY <2>2, <2>3 DEF Settled, Answered
  <2>13. Manual'
    BY <2>2, <2>3 DEF Settled, Manual
  <2>14. Kept'
    BY <2>2, <2>3 DEF Settled, Kept
  <2> QED BY <2>10, <2>11, <2>12, <2>13, <2>14 DEF Settled
<1>5. ASSUME NEW q \in Reconciler, Fail(q) PROVE Settled'
  <2>1. q \in Worker /\ on[q] \in Payment /\ charge[on[q]] = "failed"
        /\ \A w \in Admin : at[w] # "none" => on[w] # on[q]
    BY <1>5 DEF Fail, Settled, Fresh, Pushed, Answered, Manual, Kept, Worker
  <2>2. /\ payment' = [payment EXCEPT ![on[q]] = "FAILED"]
        /\ at' = [at EXCEPT ![q] = "none"] /\ on' = [on EXCEPT ![q] = None]
        /\ UNCHANGED <<charge, paying, todo>>
    BY <1>5 DEF Fail, Ends
  <2>3. on[q] \notin paying
    BY <2>1 DEF Settled, Fresh, Pushed, Answered, Manual, Kept
  <2>4. /\ \A p \in Payment : payment'[p] = payment[p] \/ payment'[p] = "FAILED"
        /\ \A p \in paying : payment'[p] = payment[p]
        /\ \A v \in Worker : \/ at'[v] = at[v] /\ on'[v] = on[v]
                             \/ at'[v] = "none" /\ on'[v] = None
    BY <2>1, <2>2, <2>3
  <2>10. Fresh'
    BY <2>2, <2>4, NoneIsFresh DEF Settled, Fresh, Worker
  <2>11. Pushed'
    BY <2>2, <2>4, NoneIsFresh DEF Settled, Pushed, Worker
  <2>12. Answered'
    BY <2>2, <2>4, NoneIsFresh DEF Settled, Answered, Worker
  <2>13. Manual'
    BY <2>2, <2>4, NoneIsFresh DEF Settled, Manual, Worker
  <2>14. Kept'
    BY <2>2, <2>4, NoneIsFresh DEF Settled, Kept, Worker
  <2> QED BY <2>10, <2>11, <2>12, <2>13, <2>14 DEF Settled
<1>6. ASSUME NEW q \in Reconciler, NEW p \in Payment, ReconcileCheck(q, p) PROVE Settled'
  <2>1. /\ p \in todo[q] /\ at[q] = "none" /\ q \in Worker /\ q \notin Admin
        /\ todo' = [todo EXCEPT ![q] = @ \ {p}]
        /\ UNCHANGED <<payment, charge, paying>>
    BY <1>6, CallersAreDisjoint DEF ReconcileCheck, Worker
  <2>2. \A r \in Reconciler : todo'[r] \subseteq todo[r]
    BY <2>1
  <2>3. CASE charge[p] = "pending"
    <3>1. UNCHANGED <<at, on>>
      BY <1>6, <2>3 DEF ReconcileCheck
    <3>10. Fresh'
      BY <2>1, <2>2, <3>1 DEF Settled, Fresh
    <3>11. Pushed'
      BY <2>1, <2>2, <3>1 DEF Settled, Pushed
    <3>12. Answered'
      BY <2>1, <2>2, <3>1 DEF Settled, Answered
    <3>13. Manual'
      BY <2>1, <2>2, <3>1 DEF Settled, Manual
    <3>14. Kept'
      BY <2>1, <2>2, <3>1 DEF Settled, Kept
    <3> QED BY <3>10, <3>11, <3>12, <3>13, <3>14 DEF Settled
  <2>4. CASE charge[p] # "pending"
    <3>1. /\ at'[q] = IF charge[p] = "success" THEN "settle" ELSE "fail"
          /\ on'[q] = p
          /\ \A v \in Worker \ {q} : at'[v] = at[v] /\ on'[v] = on[v]
      BY <1>6, <2>1, <2>4 DEF ReconcileCheck
    <3>2. payment[p] \notin {"NONE", "INITIATED"}
          /\ ~(payment[p] = "SUCCESS" /\ charge[p] = "failed")
          /\ \A w \in Admin : at[w] # "none" => on[w] # p
      BY <2>1 DEF Settled, Fresh, Pushed, Answered, Manual, Kept
    <3>10. Fresh'
      BY <2>1, <2>2, <2>4, <3>1, <3>2 DEF Settled, Fresh, Worker
    <3>11. Pushed'
      BY <2>1, <2>2, <2>4, <3>1, <3>2 DEF Settled, Pushed, Worker
    <3>12. Answered'
      BY <2>1, <2>2, <2>4, <3>1, <3>2 DEF Settled, Answered, Worker
    <3>13. Manual'
      BY <2>1, <2>2, <2>4, <3>1, <3>2 DEF Settled, Manual, Worker
    <3>14. Kept'
      BY <2>1, <2>2, <2>4, <3>1, <3>2 DEF Settled, Kept, Worker
    <3> QED BY <3>10, <3>11, <3>12, <3>13, <3>14 DEF Settled
  <2> QED BY <2>3, <2>4
<1>7. ASSUME NEW w \in Worker, Settle(w) PROVE Settled'
  <2>1. at[w] # "none" /\ on[w] \in Payment
    BY <1>7 DEF Settle, SettleRead, SettleCommit, SettleThank
  <2>2. /\ UNCHANGED <<charge, paying, todo>>
        /\ \A v \in Worker \ {w} : at'[v] = at[v] /\ on'[v] = on[v]
        /\ \/ at'[w] = "none" /\ on'[w] = None
           \/ /\ at'[w] \in {"commit", "thank"} /\ on'[w] = on[w]
              /\ at[w] \in {"settle", "commit"}
    BY <1>7 DEF Settle, SettleRead, SettleCommit, SettleThank, Ends
  <2>3. \/ UNCHANGED payment
        \/ at[w] = "commit" /\ payment' = [payment EXCEPT ![on[w]] = "SUCCESS"]
    BY <1>7 DEF Settle, SettleRead, SettleCommit, SettleThank
  <2>4. CASE UNCHANGED payment
    <3>1. \A v \in Worker : at'[v] # "none" => at[v] # "none" /\ on'[v] = on[v]
      BY <2>1, <2>2, <2>4
    <3>2. \A q \in Reconciler : at'[q] = "fail" <=> at[q] = "fail" /\ at'[q] # "none"
      BY <2>1, <2>2, <2>4 DEF Worker
    <3>3. \A v \in Worker : \A p \in Payment : on[v] # p => on'[v] # p
      BY <2>1, <2>2, <2>4, NoneIsFresh
    <3>10. Fresh'
      BY <2>2, <2>4, <3>3 DEF Settled, Fresh
    <3>11. Pushed'
      BY <2>2, <2>4 DEF Settled, Pushed
    <3>12. Answered'
      BY <2>2, <3>1, <3>2 DEF Settled, Answered, Worker
    <3>13. Manual'
      BY <2>2, <3>1, <3>3 DEF Settled, Manual, Worker
    <3>14. Kept'
      BY <2>2, <2>4, <3>3 DEF Settled, Kept, Worker
    <3> QED BY <3>10, <3>11, <3>12, <3>13, <3>14 DEF Settled
  <2>5. CASE at[w] = "commit" /\ payment' = [payment EXCEPT ![on[w]] = "SUCCESS"]
    <3>1. on[w] \notin paying /\ charge[on[w]] # "pending"
      BY <2>1, <2>5 DEF Settled, Fresh, Pushed, Answered, Manual, Kept, Worker
    <3>2. payment'[on[w]] = "SUCCESS"
          /\ \A p \in Payment \ {on[w]} : payment'[p] = payment[p]
      BY <2>1, <2>5
    <3>3. charge[on[w]] = "failed" =>
            \A q \in Reconciler : on[w] \notin todo[q] /\ (on[q] # on[w])
      BY <2>1, <2>5 DEF Settled, Fresh, Pushed, Answered, Manual, Kept, Worker
    <3>10. Fresh'
      BY <2>1, <2>2, <3>1, <3>2, <3>3, NoneIsFresh DEF Settled, Fresh, Worker
    <3>11. Pushed'
      BY <2>1, <2>2, <3>1, <3>2, <3>3, NoneIsFresh DEF Settled, Pushed, Worker
    <3>12. Answered'
      BY <2>1, <2>2, <3>1, <3>2, <3>3, NoneIsFresh DEF Settled, Answered, Worker
    <3>4. \A v \in Worker : at'[v] # "none" => at[v] # "none" /\ on'[v] = on[v]
      BY <2>1, <2>2
    <3>5. \A v \in Worker : \A p \in Payment : on[v] # p => on'[v] # p
      BY <2>1, <2>2, NoneIsFresh
    <3>13. Manual'
      BY <2>2, <3>4, <3>5 DEF Settled, Manual, Worker
    <3>14. Kept'
      BY <2>1, <2>2, <3>1, <3>2, <3>3, NoneIsFresh DEF Settled, Kept, Worker
    <3> QED BY <3>10, <3>11, <3>12, <3>13, <3>14 DEF Settled
  <2> QED BY <2>3, <2>4, <2>5
<1>11. ASSUME NEW w \in Worker, Throw(w) PROVE Settled'
  <2>1. /\ UNCHANGED <<payment, charge, paying>>
        /\ \A q \in Reconciler : todo'[q] \subseteq todo[q]
        /\ \A v \in Worker : \/ at'[v] = at[v] /\ on'[v] = on[v]
                             \/ at'[v] = "none" /\ on'[v] = None
    BY <1>11 DEF Throw, Ends
  <2>10. Fresh'
    BY <2>1, NoneIsFresh DEF Settled, Fresh
  <2>11. Pushed'
    BY <2>1 DEF Settled, Pushed
  <2>12. Answered'
    BY <2>1 DEF Settled, Answered, Worker
  <2>13. Manual'
    BY <2>1, NoneIsFresh DEF Settled, Manual, Worker
  <2>14. Kept'
    BY <2>1, NoneIsFresh DEF Settled, Kept, Worker
  <2> QED BY <2>10, <2>11, <2>12, <2>13, <2>14 DEF Settled
<1>8. ASSUME NEW j \in Job, RunLifecycle(j) PROVE Settled'
  <2>1. UNCHANGED <<payment, charge, paying, at, on, todo>>
    BY <1>8 DEF RunLifecycle, RunQuery, Remind, EnterGrace, SecondNotice, Suspend,
                SendNotice, RunFail, payVars, workVars
  <2>10. Fresh'
    BY <2>1 DEF Settled, Fresh
  <2>11. Pushed'
    BY <2>1 DEF Settled, Pushed
  <2>12. Answered'
    BY <2>1 DEF Settled, Answered
  <2>13. Manual'
    BY <2>1 DEF Settled, Manual
  <2>14. Kept'
    BY <2>1 DEF Settled, Kept
  <2> QED BY <2>10, <2>11, <2>12, <2>13, <2>14 DEF Settled
<1>9. CASE Tick
  BY <1>9 DEF Tick, Settled, Fresh, Pushed, Answered, Manual, Kept, payVars, workVars
<1>10. CASE Crash
  BY <1>10, NoneIsFresh DEF Crash, Worker, Settled, Fresh, Pushed, Answered, Manual, Kept
<1> QED BY <1>1, <1>2, <1>3, <1>4, <1>5, <1>6, <1>7, <1>8, <1>9, <1>10, <1>11
        DEF Next, Reconcile

\* A payment never changes subscription, and only settle makes one SUCCESS, for good.
LEMMA SuccessIsFinal ==
  ASSUME Shape, Settled, Next
  PROVE  /\ UNCHANGED forSub
         /\ \/ \E w \in Worker : SettleCommit(w)
            \/ /\ UNCHANGED credited
               /\ \A p \in Payment : payment'[p] = "SUCCESS" <=> payment[p] = "SUCCESS"
<1> USE DEF Shape
<1> DEFINE Same == /\ UNCHANGED <<forSub, credited>>
                   /\ \A p \in Payment : payment'[p] = "SUCCESS" <=> payment[p] = "SUCCESS"
<1>1. ASSUME NEW s \in Sub, Subscribe(s) \/ Extension(s) PROVE Same
  BY <1>1 DEF Subscribe, SubscribeCount, SubscribeCreate, SubscribeServe, Extension,
              GrantCheck, GrantCommit
<1>2. ASSUME NEW r \in Payment, PayCreate(r) \/ PaySave(r) \/ Debit(r) PROVE Same
  BY <1>2 DEF PayCreate, PaySave, Debit, Settled, Pushed
<1>3. ASSUME NEW w \in Admin, NEW r \in Payment, ActivateManually(w, r) PROVE Same
  BY <1>3 DEF ActivateManually
<1>4. ASSUME NEW q \in Reconciler,
             ReconcileSelect(q) \/ \E r \in Payment : ReconcileCheck(q, r)
      PROVE  Same
  BY <1>4 DEF ReconcileSelect, ReconcileCheck
<1>5. ASSUME NEW q \in Reconciler, Fail(q) PROVE Same
  <2>1. q \in Worker /\ on[q] \in Payment /\ payment[on[q]] # "SUCCESS"
    BY <1>5 DEF Fail, Settled, Answered, Kept, Worker
  <2> QED BY <1>5, <2>1 DEF Fail
<1>6. ASSUME NEW w \in Worker, SettleRead(w) \/ SettleThank(w) \/ Throw(w) PROVE Same
  BY <1>6 DEF SettleRead, SettleThank, Throw
<1>7. ASSUME NEW w \in Worker, SettleCommit(w) PROVE UNCHANGED forSub
  BY <1>7 DEF SettleCommit
<1>8. ASSUME NEW j \in Job, RunLifecycle(j) PROVE Same
  BY <1>8 DEF RunLifecycle, RunQuery, Remind, EnterGrace, SecondNotice, Suspend,
              SendNotice, RunFail
<1>9. Tick \/ Crash => Same
  BY DEF Tick, Crash
<1> QED BY <1>1, <1>2, <1>3, <1>4, <1>5, <1>6, <1>7, <1>8, <1>9 DEF Next, Reconcile, Settle

-----------------------------------------------------------------------------
\* Steps that write no date and credit nothing.
LEMMA Carried ==
  ASSUME Shape, Bought, today' >= today, today' \in Nat, UNCHANGED <<forSub, due, credited>>,
         \A p \in Payment : payment'[p] = "SUCCESS" <=> payment[p] = "SUCCESS",
         \A s \in Sub : sub'[s].endsAt = sub[s].endsAt,
         \A w \in Worker, p \in Payment : at'[w] = "commit" /\ on'[w] = p =>
           \/ at[w] = "commit" /\ on[w] = p /\ plan'[w] = plan[w]
           \/ plan'[w].endsAt \in Int /\ plan'[w].endsAt <= Reach(p)
  PROVE  Bought'
<1> USE DEF Shape
<1>1. \A p \in Payment : Reach(p) \in Int /\ Reach(p)' \in Int /\ Reach(p) <= Reach(p)'
  BY DurationsArePositive DEF Reach, Later
<1>2. ASSUME NEW w \in Worker, NEW p \in Payment, at'[w] = "commit", on'[w] = p
      PROVE  plan'[w].endsAt <= Reach(p)'
  <2>1. plan[w].endsAt \in Int
    OBVIOUS
  <2>2. plan'[w].endsAt \in Int /\ plan'[w].endsAt <= Reach(p)
    BY <1>2, <2>1 DEF Bought
  <2> QED BY <1>1, <2>2
<1> QED BY <1>2 DEF Bought

\* subscribe promises the trial; settle adds a period to what was paid before.
LEMMA BoughtStep ==
  ASSUME IInv, Shape, Shape', Settled, Bought, Next
  PROVE  Bought'
<1> USE DEF Shape
<1> DEFINE SameDates == \A s \in Sub : sub'[s].endsAt = sub[s].endsAt
           SamePlans == \A w \in Worker, p \in Payment : at'[w] = "commit" /\ on'[w] = p =>
                          at[w] = "commit" /\ on[w] = p /\ plan'[w] = plan[w]
           Still == /\ UNCHANGED <<forSub, credited>>
                    /\ \A p \in Payment : payment'[p] = "SUCCESS" <=> payment[p] = "SUCCESS"
<1>0. UNCHANGED forSub /\ (Still \/ \E w \in Worker : SettleCommit(w))
  BY SuccessIsFinal
<1>1. ASSUME Still, today' >= today, UNCHANGED due, SameDates, SamePlans PROVE Bought'
  BY <1>1, Carried
<1>2. ASSUME NEW s \in Sub, SubscribeCreate(s) PROVE Bought'
  <2>1. Still /\ today' = today
    BY <1>2 DEF SubscribeCreate
  <2>2. /\ UNCHANGED <<at, on, plan>>
        /\ \A r \in Sub \ {s} : sub'[r] = sub[r] /\ due'[r] = due[r]
        /\ \/ sub'[s].endsAt = sub[s].endsAt /\ due'[s] = due[s]
           \/ sub'[s].endsAt = today + TrialDays /\ due'[s] = today + TrialDays
    BY <1>2 DEF SubscribeCreate
  <2>3. \A w \in Worker : at[w] = "commit" => on[w] \in Payment /\ forSub[on[w]] # s
    <3>1. sub[s].status = "NONE"
      BY <1>2 DEF SubscribeCreate, IInv, Agreed, Existing
    <3> QED BY <3>1 DEF IInv, Agreed, Existing
  <2>4. ASSUME NEW w \in Worker, NEW p \in Payment, at'[w] = "commit", on'[w] = p
        PROVE  plan'[w].endsAt <= Reach(p)'
    <3>1. due'[forSub[p]] = due[forSub[p]] /\ forSub' = forSub /\ credited' = credited
      BY <2>1, <2>2, <2>3, <2>4
    <3> QED BY <2>1, <2>2, <2>4, <3>1 DEF Bought, Reach, Later
  <2>5. \A r \in Sub : sub'[r].endsAt <= due'[r]
    BY <2>2, DurationsArePositive DEF Bought
  <2> QED BY <2>1, <2>4, <2>5 DEF Bought
<1>3. ASSUME NEW w \in Worker, SettleRead(w) PROVE Bought'
  <2>1. Still /\ UNCHANGED <<today, sub, due>> /\ at[w] = "settle" /\ on[w] \in Payment
    BY <1>3 DEF SettleRead
  <2>2. CASE payment[on[w]] = "SUCCESS"
    <3>1. Ends(w)
      BY <1>3, <2>2 DEF SettleRead
    <3> QED BY <1>1, <2>1, <3>1 DEF Ends
  <2>3. CASE payment[on[w]] # "SUCCESS"
    <3>1. PICK p \in Payment : p = on[w]
      BY <2>1
    <3> DEFINE next == Base(sub[forSub[p]]) + PeriodDays
    <3>2. /\ at' = [at EXCEPT ![w] = "commit"] /\ on' = on
          /\ plan'[w].endsAt = next
          /\ \A v \in Worker \ {w} : plan'[v] = plan[v]
      BY <1>3, <2>3, <3>1 DEF SettleRead
    <3>3. next \in Int /\ next <= Reach(p)
      <4>1. p \notin credited
        BY <2>3, <3>1 DEF Bought
      <4>2. /\ Base(sub[forSub[p]]) \in Int
            /\ Base(sub[forSub[p]]) <= Later(due[forSub[p]])
        BY DEF Base, Later, Bought
      <4> HIDE DEF Base, Later
      <4>3. Later(due[forSub[p]]) \in Int
        BY DEF Later
      <4> QED BY <4>1, <4>2, <4>3, DurationsArePositive DEF Reach
    <3> HIDE DEF next
    <3>4. ASSUME NEW v \in Worker, NEW r \in Payment, at'[v] = "commit", on'[v] = r
          PROVE  \/ at[v] = "commit" /\ on[v] = r /\ plan'[v] = plan[v]
                 \/ plan'[v].endsAt \in Int /\ plan'[v].endsAt <= Reach(r)
      <4>1. CASE v = w
        BY <3>1, <3>2, <3>3, <3>4, <4>1
      <4>2. CASE v # w
        BY <3>2, <3>4, <4>2
      <4> QED BY <4>1, <4>2
    <3> QED BY <2>1, <3>4, Carried
  <2> QED BY <2>2, <2>3
<1>4. ASSUME NEW w \in Worker, SettleCommit(w) PROVE Bought'
  <2>1. PICK p \in Payment : p = on[w]
    BY <1>4 DEF SettleCommit
  <2>2. PICK s \in Sub : s = forSub[p]
    OBVIOUS
  <2>3. /\ today' = today /\ at[w] = "commit"
        /\ sub' = [sub EXCEPT ![s] = Row("ACTIVE", plan[w].endsAt, plan[w].endsAt + GraceDays)]
        /\ payment' = [payment EXCEPT ![p] = "SUCCESS"]
        /\ credited' = credited \cup {p}
        /\ due' = IF p \in credited THEN due
                  ELSE [due EXCEPT ![s] = Later(due[s]) + PeriodDays]
    BY <1>4, <2>1, <2>2 DEF SettleCommit, Credits, Later
  <2>4. SamePlans
    BY <1>4 DEF SettleCommit, Ends
  <2>5. /\ due'[s] = Reach(p) /\ plan[w].endsAt <= Reach(p)
        /\ \A r \in Sub \ {s} : due'[r] = due[r]
    BY <2>1, <2>2, <2>3 DEF Bought, Reach
  <2>6. \A r \in Sub : due[r] <= due'[r]
    <3>1. due[s] <= Reach(p)
      <4>1. due[s] \in Int /\ today \in Int /\ PeriodDays \in Nat
        BY DurationsArePositive
      <4> QED BY <2>2, <4>1 DEF Reach, Later
    <3> TAKE r \in Sub
    <3>2. CASE r = s
      BY <2>5, <3>1, <3>2
    <3>3. CASE r # s
      BY <2>5, <3>3
    <3> QED BY <3>2, <3>3
  <2>7. \A r \in Sub : sub'[r].endsAt <= due'[r]
    <3>1. sub'[s].endsAt = plan[w].endsAt /\ \A r \in Sub \ {s} : sub'[r] = sub[r]
      BY <2>3
    <3> TAKE r \in Sub
    <3>2. CASE r = s
      BY <2>5, <3>1, <3>2
    <3>3. CASE r # s
      BY <2>5, <3>1, <3>3 DEF Bought
    <3> QED BY <3>2, <3>3
  <2>8. \A r \in Payment : Reach(r) <= Reach(r)'
    <3> TAKE r \in Payment
    <3>0. r \in credited \cup {p} <=> r \in credited'
      BY <2>3
    <3>1. CASE r \in credited
      <4>1. Reach(r) = due[forSub[r]] /\ Reach(r)' = due'[forSub[r]]
        BY <1>0, <3>0, <3>1 DEF Reach
      <4> QED BY <2>6, <4>1
    <3>2. CASE r = p
      <4>1. Reach(r)' = due'[s]
        BY <1>0, <2>2, <3>0, <3>2 DEF Reach
      <4>2. Reach(r) = Reach(p) /\ due'[s] \in Int
        BY <3>2
      <4> QED BY <2>5, <4>1, <4>2
    <3>3. CASE r \notin credited /\ r # p
      <4>1. due[forSub[r]] <= due'[forSub[r]]
        BY <2>6
      <4> QED BY <1>0, <2>3, <3>3, <4>1, DurationsArePositive DEF Reach, Later
    <3> QED BY <3>1, <3>2, <3>3
  <2>9. \A v \in Worker, r \in Payment : at'[v] = "commit" /\ on'[v] = r =>
          plan'[v].endsAt <= Reach(r)'
    <3>1. \A r \in Payment : Reach(r) \in Int /\ Reach(r)' \in Int
      BY DurationsArePositive DEF Reach, Later
    <3> QED BY <2>4, <2>8, <3>1 DEF Bought
  <2>10. \A r \in Payment : r \in credited' <=> payment'[r] = "SUCCESS"
    BY <2>3 DEF Bought
  <2> QED BY <2>7, <2>9, <2>10 DEF Bought
<1>5. ASSUME NEW s \in Sub, SubscribeCount(s) \/ SubscribeServe(s) \/ Extension(s)
      PROVE  Bought'
  <2>1. Still /\ UNCHANGED <<today, due, at, on, plan>>
    BY <1>5 DEF SubscribeCount, SubscribeServe, Extension, GrantCheck, GrantCommit
  <2>2. SameDates
    <3>1. CASE GrantCommit(s)
      BY <3>1 DEF GrantCommit
    <3>2. CASE ~GrantCommit(s)
      BY <1>5, <3>2 DEF SubscribeCount, SubscribeServe, Extension, GrantCheck
    <3> QED BY <3>1, <3>2
  <2> QED BY <1>1, <2>1, <2>2
<1>6. ASSUME NEW p \in Payment, PayCreate(p) \/ PaySave(p) \/ Debit(p) PROVE Bought'
  <2>1. UNCHANGED <<today, sub, due, credited, forSub, at, on, plan>>
    BY <1>6 DEF PayCreate, PaySave, Debit
  <2>2. Still
    BY <1>6, <2>1 DEF PayCreate, PaySave, Debit, Settled, Pushed
  <2> QED BY <1>1, <2>1, <2>2
<1>7. ASSUME NEW w \in Admin, NEW p \in Payment, ActivateManually(w, p) PROVE Bought'
  <2>1. Still /\ UNCHANGED <<today, sub, due, plan>> /\ SamePlans
    BY <1>7 DEF ActivateManually, Worker
  <2> QED BY <1>1, <2>1
<1>8. ASSUME NEW q \in Reconciler,
             ReconcileSelect(q) \/ \E p \in Payment : ReconcileCheck(q, p)
      PROVE  Bought'
  <2>1. Still /\ UNCHANGED <<today, sub, due, plan>>
    BY <1>8 DEF ReconcileSelect, ReconcileCheck
  <2>2. SamePlans
    BY <1>8 DEF ReconcileSelect, ReconcileCheck, Worker
  <2> QED BY <1>1, <2>1, <2>2
<1>9. ASSUME NEW q \in Reconciler, Fail(q) PROVE Bought'
  <2>1. UNCHANGED <<today, sub, due, forSub, credited>> /\ SamePlans
    BY <1>9 DEF Fail, Ends, Worker
  <2>2. q \in Worker /\ on[q] \in Payment /\ payment[on[q]] # "SUCCESS"
    BY <1>9 DEF Fail, Settled, Answered, Kept, Worker
  <2>3. Still
    BY <1>9, <2>1, <2>2 DEF Fail
  <2> QED BY <1>1, <2>1, <2>3
<1>10. ASSUME NEW w \in Worker, SettleThank(w) \/ Throw(w) PROVE Bought'
  <2>1. Still /\ UNCHANGED <<today, sub, due>> /\ SamePlans
    BY <1>10 DEF SettleThank, Throw, Ends
  <2> QED BY <1>1, <2>1
<1>11. ASSUME NEW j \in Job, RunLifecycle(j) PROVE Bought'
  <2>1. Still /\ UNCHANGED <<today, due, at, on, plan>>
    BY <1>11 DEF RunLifecycle, RunQuery, Remind, EnterGrace, SecondNotice, Suspend,
                 SendNotice, RunFail
  <2>2. SameDates
    <3>1. CASE RunQuery(j) \/ SendNotice(j) \/ RunFail(j)
      BY <3>1 DEF RunQuery, SendNotice, RunFail
    <3>2. ASSUME NEW s \in Sub,
                 Remind(j, s) \/ EnterGrace(j, s) \/ SecondNotice(j, s) \/ Suspend(j, s)
          PROVE  SameDates
      <4>1. CASE EnterGrace(j, s)
        BY <4>1 DEF EnterGrace
      <4>2. CASE Suspend(j, s)
        BY <4>2 DEF Suspend
      <4>3. CASE Remind(j, s) \/ SecondNotice(j, s)
        BY <4>3 DEF Remind, SecondNotice
      <4> QED BY <3>2, <4>1, <4>2, <4>3
    <3> QED BY <1>11, <3>1, <3>2 DEF RunLifecycle
  <2> QED BY <1>1, <2>1, <2>2
<1>12. CASE Tick
  <2>1. Still /\ today' >= today /\ UNCHANGED <<sub, due, at, on, plan>>
    BY <1>12 DEF Tick
  <2> QED BY <1>1, <2>1
<1>13. CASE Crash
  <2>1. Still /\ UNCHANGED <<today, sub, due>> /\ SamePlans
    BY <1>13 DEF Crash
  <2> QED BY <1>1, <2>1
<1> QED BY <1>2, <1>3, <1>4, <1>5, <1>6, <1>7, <1>8, <1>9, <1>10, <1>11, <1>12, <1>13
        DEF Next, Reconcile, Subscribe, Settle

-----------------------------------------------------------------------------
\* The trial if there was one, one period for each payment the first time it is
\* recorded SUCCESS, and nothing more, however often a payment is settled, however
\* reconciliations, manual activations and extensions are interleaved and wherever
\* the API restarts.
THEOREM NoFreeTime == Spec => []PaidTimeOnly
<1> DEFINE Inv == IInv /\ Settled /\ Bought
<1>1. Init => Inv
  <2>1. Init => Bought
    BY DEF Init, Bought
  <2> QED BY <2>1, InitHolds, InitSettled
<1>2. Inv /\ [Next]_vars => Inv'
  <2> SUFFICES ASSUME Inv, [Next]_vars PROVE Inv'
    OBVIOUS
  <2>1. IInv' /\ Shape /\ Shape'
    BY Step, HasShape, PTL
  <2>2. CASE Next
    BY <2>1, <2>2, SettledStep, BoughtStep
  <2>3. CASE UNCHANGED vars
    BY <2>1, <2>3 DEF vars, Settled, Fresh, Pushed, Answered, Manual, Kept, Bought,
                      Reach, Later
  <2> QED BY <2>2, <2>3
<1>3. Inv => PaidTimeOnly
  BY DEF Bought, PaidTimeOnly
<1> QED BY <1>1, <1>2, <1>3, PTL DEF Spec

-----------------------------------------------------------------------------
\* What may still put s in grace, suspend it or write over its status reads no paid
\* period, or the settlement that paid it crossed it.
Untaken ==
  /\ PaidStaysActive
  /\ \A s \in Sub : ReadBefore(s) => sub[s].endsAt <= today \/ s \in crossed
  /\ \A s \in Sub : sub[s].status \in {"NONE", "PENDING"} => sub[s].endsAt = NoDay

\* Steps that write neither a status nor a date, and read nothing of a paid period.
LEMMA StillUntaken ==
  ASSUME IInv, Untaken, today' \in Int, today' >= today, UNCHANGED <<sub, crossed>>,
         \A s \in Sub : ReadBefore(s)' =>
           ReadBefore(s) \/ sub[s].endsAt <= today \/ s \in crossed
  PROVE  Untaken'
<1>1. today \in Int /\ sub \in [Sub -> [status : SubStatus, endsAt : Int, graceEndsAt : Int]]
  BY DEF IInv, TypeOK, Fields
<1>2. \A s \in Sub : sub[s].endsAt \in Int /\ (sub[s].endsAt <= today => sub[s].endsAt <= today')
  BY <1>1
<1> HIDE DEF ReadBefore
<1> QED BY <1>1, <1>2 DEF Untaken, PaidStaysActive

LEMMA UntakenStep ==
  ASSUME IInv, IInv', Untaken, Next
  PROVE  Untaken'
<1>0. /\ today \in Nat /\ phase \in [Job -> {"idle", "remind", "expire", "second", "suspend"}]
      /\ list \in [Job -> SUBSET Sub] /\ granting \in [Sub -> Int] /\ crossed \subseteq Sub
      /\ sub \in [Sub -> [status : SubStatus, endsAt : Int, graceEndsAt : Int]]
  BY BoundsAreNat DEF IInv, TypeOK, Fields
<1>1. ASSUME UNCHANGED <<today, sub, crossed, granting, phase, list>> PROVE Untaken'
  BY <1>0, <1>1, StillUntaken DEF ReadBefore
<1>2. ASSUME NEW s \in Sub, SubscribeCount(s) \/ SubscribeServe(s) PROVE Untaken'
  <2>1. UNCHANGED <<today, sub, crossed, granting, phase, list>>
    BY <1>2 DEF SubscribeCount, SubscribeServe
  <2> QED BY <1>1, <2>1
<1>3. ASSUME NEW s \in Sub, SubscribeCreate(s) PROVE Untaken'
  <2>1. /\ UNCHANGED <<today, crossed, granting, phase, list>>
        /\ \A r \in Sub \ {s} : sub'[r] = sub[r]
        /\ \/ sub'[s].status = "TRIAL"
           \/ sub'[s].status = "PENDING" /\ sub'[s].endsAt = sub[s].endsAt
    BY <1>0, <1>3 DEF SubscribeCreate
  <2>2. sub[s].status = "NONE" /\ sub[s].endsAt = NoDay
    BY <1>3 DEF SubscribeCreate, IInv, Agreed, Existing, Untaken
  <2>3. ~ReadBefore(s)
    <3>1. ~Dated(s)
      BY <2>2 DEF Dated, Served
    <3>2. InHand
      BY DEF IInv, Agreed
    <3> QED BY <3>1, <3>2 DEF ReadBefore, InHand
  <2>4. \A r \in Sub : ReadBefore(r)' <=> ReadBefore(r)
    BY <2>1 DEF ReadBefore
  <2>5. PaidStaysActive'
    <3> SUFFICES ASSUME NEW r \in Sub, sub'[r].endsAt > today'
                 PROVE  sub'[r].status \in {"ACTIVE", "TRIAL"} \/ r \in crossed'
      BY DEF PaidStaysActive
    <3>1. CASE r = s
      BY <1>0, <2>1, <2>2, <3>1
    <3>2. CASE r # s
      BY <2>1, <3>2 DEF Untaken, PaidStaysActive
    <3> QED BY <3>1, <3>2
  <2> HIDE DEF ReadBefore
  <2>6. \A r \in Sub : ReadBefore(r)' => sub'[r].endsAt <= today' \/ r \in crossed'
    BY <2>1, <2>3, <2>4 DEF Untaken
  <2>7. \A r \in Sub : sub'[r].status \in {"NONE", "PENDING"} => sub'[r].endsAt = NoDay
    BY <2>1, <2>2 DEF Untaken
  <2> QED BY <2>5, <2>6, <2>7 DEF Untaken
<1>4. ASSUME NEW s \in Sub, GrantCheck(s) PROVE Untaken'
  <2>1. /\ UNCHANGED <<today, sub, crossed, phase, list>>
        /\ sub[s].status \in {"GRACE", "SUSPENDED"}
        /\ \A r \in Sub \ {s} : granting'[r] = granting[r]
    BY <1>0, <1>4 DEF GrantCheck
  <2>2. sub[s].endsAt <= today \/ s \in crossed
    BY <1>0, <2>1 DEF Untaken, PaidStaysActive
  <2>3. \A r \in Sub \ {s} : ReadBefore(r)' => ReadBefore(r)
    BY <2>1 DEF ReadBefore
  <2> QED BY <1>0, <2>1, <2>2, <2>3, StillUntaken
<1>5. ASSUME NEW s \in Sub, UNCHANGED <<today, crossed, phase>>, ReadBefore(s),
             sub' \in [Sub -> [status : SubStatus, endsAt : Int, graceEndsAt : Int]],
             sub'[s].endsAt = sub[s].endsAt, sub'[s].status \in {"GRACE", "SUSPENDED"},
             \A r \in Sub \ {s} : sub'[r] = sub[r],
             \A r \in Sub : ReadBefore(r)' => ReadBefore(r)
      PROVE  Untaken'
  <2>1. sub[s].endsAt <= today \/ s \in crossed
    BY <1>5 DEF Untaken
  <2> HIDE DEF ReadBefore
  <2>2. PaidStaysActive'
    <3> SUFFICES ASSUME NEW r \in Sub, sub'[r].endsAt > today'
                 PROVE  sub'[r].status \in {"ACTIVE", "TRIAL"} \/ r \in crossed'
      BY DEF PaidStaysActive
    <3>1. CASE r = s
      <4>1. ~(sub[s].endsAt <= today)
        BY <1>0, <1>5, <3>1
      <4> QED BY <1>5, <2>1, <3>1, <4>1
    <3>2. CASE r # s
      BY <1>5, <3>2 DEF Untaken, PaidStaysActive
    <3> QED BY <3>1, <3>2
  <2>3. \A r \in Sub : ReadBefore(r)' => sub'[r].endsAt <= today' \/ r \in crossed'
    BY <1>5 DEF Untaken
  <2>4. \A r \in Sub : sub'[r].status \in {"NONE", "PENDING"} => sub'[r].endsAt = NoDay
    BY <1>5 DEF Untaken
  <2> QED BY <2>2, <2>3, <2>4 DEF Untaken
<1>6. ASSUME NEW s \in Sub, GrantCommit(s) PROVE Untaken'
  <2>1. sub' = [sub EXCEPT ![s] = Row("GRACE", sub[s].endsAt, granting[s])]
    <3>1. sub' = [sub EXCEPT ![s].status = "GRACE", ![s].graceEndsAt = granting[s]]
      BY <1>6 DEF GrantCommit
    <3>2. granting[s] \in Int /\ Fields
      BY DEF IInv, TypeOK
    <3> HIDE DEF IInv, Fields
    <3> QED BY <3>1, <3>2, GraceWritten
  <2>2. /\ UNCHANGED <<today, crossed, phase, list>> /\ granting[s] # NoDay
        /\ granting' = [granting EXCEPT ![s] = NoDay]
    BY <1>6 DEF GrantCommit
  <2>3. ReadBefore(s) /\ \A r \in Sub : ReadBefore(r)' => ReadBefore(r)
    BY <1>0, <2>2 DEF ReadBefore
  <2>4. /\ sub'[s].endsAt = sub[s].endsAt /\ sub'[s].status \in {"GRACE", "SUSPENDED"}
        /\ \A r \in Sub \ {s} : sub'[r] = sub[r]
        /\ sub' \in [Sub -> [status : SubStatus, endsAt : Int, graceEndsAt : Int]]
    BY <1>0, <2>1 DEF Served
  <2> QED BY <1>5, <2>2, <2>3, <2>4
<1>7. ASSUME NEW w \in Worker, SettleCommit(w) PROVE Untaken'
  <2>1. PICK s \in Sub : s = forSub[on[w]]
    BY <1>7 DEF SettleCommit, IInv, TypeOK, Fields
  <2>2. /\ UNCHANGED <<today, granting, phase, list>>
        /\ sub'[s].status = "ACTIVE" /\ \A r \in Sub \ {s} : sub'[r] = sub[r]
        /\ crossed' = IF ReadBefore(s) THEN crossed \cup {s} ELSE crossed \ {s}
    BY <1>0, <1>7, <2>1 DEF SettleCommit, Credits
  <2>3. \A r \in Sub : ReadBefore(r)' <=> ReadBefore(r)
    BY <2>2 DEF ReadBefore
  <2>4. \A r \in Sub \ {s} : r \in crossed' <=> r \in crossed
    BY <2>2
  <2> HIDE DEF ReadBefore
  <2>5. ReadBefore(s)' => s \in crossed'
    BY <2>2, <2>3
  <2> QED BY <2>2, <2>3, <2>4, <2>5 DEF Untaken, PaidStaysActive
<1>8. ASSUME NEW p \in Payment,
             \/ PayCreate(p) \/ PaySave(p) \/ Debit(p)
             \/ \E w \in Admin : ActivateManually(w, p)
      PROVE  Untaken'
  <2>1. UNCHANGED <<today, sub, crossed, granting, phase, list>>
    BY <1>8 DEF PayCreate, PaySave, Debit, ActivateManually
  <2> QED BY <1>1, <2>1
<1>9. ASSUME NEW q \in Reconciler,
             ReconcileSelect(q) \/ Fail(q) \/ \E p \in Payment : ReconcileCheck(q, p)
      PROVE  Untaken'
  <2>1. UNCHANGED <<today, sub, crossed, granting, phase, list>>
    BY <1>9 DEF ReconcileSelect, Fail, ReconcileCheck
  <2> QED BY <1>1, <2>1
<1>10. ASSUME NEW w \in Worker, SettleRead(w) \/ SettleThank(w) \/ Throw(w) PROVE Untaken'
  <2>1. UNCHANGED <<today, sub, crossed, granting, phase, list>>
    BY <1>10 DEF SettleRead, SettleThank, Throw
  <2> QED BY <1>1, <2>1
<1>11. ASSUME NEW j \in Job, RunQuery(j) PROVE Untaken'
  <2>1. UNCHANGED <<today, sub, crossed, granting>>
    BY <1>11 DEF RunQuery
  <2>2. PICK from, to, rows :
          /\ Queries(j, from, to, rows)
          /\ \/ to = "remind" /\ rows = Upcoming
             \/ to = "expire" /\ rows = Expired
             \/ to = "second" /\ rows = InGrace
             \/ to = "suspend" /\ rows = ToSuspend
             \/ to = "idle" /\ rows = {}
    BY <1>11 DEF RunQuery, RunStart, RunNext, RunEnd
  <2>3. /\ phase' = [phase EXCEPT ![j] = to] /\ list' = [list EXCEPT ![j] = rows]
    BY <2>2 DEF Queries
  <2>4. /\ \A s \in Expired : sub[s].endsAt <= today
        /\ \A s \in ToSuspend : sub[s].endsAt <= today \/ s \in crossed
    BY <1>0 DEF Expired, ToSuspend, Untaken, PaidStaysActive
  <2>5. ASSUME NEW s \in Sub, ReadBefore(s)'
        PROVE  ReadBefore(s) \/ sub[s].endsAt <= today \/ s \in crossed
    <3>1. CASE granting[s] # NoDay
      BY <3>1 DEF ReadBefore
    <3>2. CASE granting[s] = NoDay
      <4>1. PICK i \in Job : phase'[i] \in {"expire", "suspend"} /\ s \in list'[i]
        BY <2>1, <2>5, <3>2 DEF ReadBefore
      <4>2. CASE i = j
        <5>1. s \in Expired \/ s \in ToSuspend
          BY <1>0, <2>2, <2>3, <4>1, <4>2
        <5> QED BY <2>4, <5>1
      <4>3. CASE i # j
        BY <1>0, <2>3, <4>1, <4>3 DEF ReadBefore
      <4> QED BY <4>2, <4>3
    <3> QED BY <3>1, <3>2
  <2> QED BY <1>0, <2>1, <2>5, StillUntaken
<1>12. ASSUME NEW j \in Job, NEW s \in Sub, Remind(j, s) \/ SecondNotice(j, s) PROVE Untaken'
  <2>1. UNCHANGED <<today, sub, crossed, granting, phase>> /\ list' = [list EXCEPT ![j] = @ \ {s}]
    BY <1>12 DEF Remind, SecondNotice, Treats
  <2>2. \A r \in Sub : ReadBefore(r)' => ReadBefore(r)
    BY <1>0, <2>1 DEF ReadBefore
  <2> QED BY <1>0, <2>1, <2>2, StillUntaken
<1>13. ASSUME NEW j \in Job, NEW s \in Sub, EnterGrace(j, s) \/ Suspend(j, s) PROVE Untaken'
  <2>1. /\ phase[j] \in {"expire", "suspend"} /\ s \in list[j]
        /\ UNCHANGED <<today, crossed, granting, phase>> /\ list' = [list EXCEPT ![j] = @ \ {s}]
    BY <1>13 DEF EnterGrace, Suspend, Treats
  <2>2. ReadBefore(s) /\ \A r \in Sub : ReadBefore(r)' => ReadBefore(r)
    BY <1>0, <2>1 DEF ReadBefore
  <2>3. /\ sub'[s].endsAt = sub[s].endsAt /\ sub'[s].status \in {"GRACE", "SUSPENDED"}
        /\ \A r \in Sub \ {s} : sub'[r] = sub[r]
    <3>1. CASE EnterGrace(j, s)
      BY <1>0, <3>1 DEF EnterGrace
    <3>2. CASE Suspend(j, s)
      BY <1>0, <3>2 DEF Suspend
    <3> QED BY <1>13, <3>1, <3>2
  <2>4. sub' \in [Sub -> [status : SubStatus, endsAt : Int, graceEndsAt : Int]]
    BY DEF IInv, Fields
  <2> QED BY <1>5, <2>1, <2>2, <2>3, <2>4
<1>14. ASSUME NEW j \in Job, SendNotice(j) PROVE Untaken'
  <2>1. UNCHANGED <<today, sub, crossed, granting, phase, list>>
    BY <1>14 DEF SendNotice
  <2> QED BY <1>1, <2>1
<1>15. ASSUME NEW j \in Job, RunFail(j) PROVE Untaken'
  <2>1. /\ UNCHANGED <<today, sub, crossed, granting>>
        /\ phase' = [phase EXCEPT ![j] = "idle"] /\ list' = [list EXCEPT ![j] = {}]
    BY <1>15 DEF RunFail
  <2>2. \A r \in Sub : ReadBefore(r)' => ReadBefore(r)
    BY <1>0, <2>1 DEF ReadBefore
  <2> QED BY <1>0, <2>1, <2>2, StillUntaken
<1>16. CASE Tick
  <2>1. /\ today' = today + 1 /\ UNCHANGED <<sub, crossed, granting, phase, list>>
    BY <1>16 DEF Tick
  <2>2. \A r \in Sub : ReadBefore(r)' => ReadBefore(r)
    BY <2>1 DEF ReadBefore
  <2> QED BY <1>0, <2>1, <2>2, StillUntaken
<1>17. CASE Crash
  <2>1. /\ UNCHANGED <<today, sub, crossed>> /\ \A s \in Sub : granting'[s] = NoDay
        /\ \A j \in Job : phase'[j] = "idle"
    BY <1>17 DEF Crash
  <2>2. \A r \in Sub : ~ReadBefore(r)'
    BY <2>1 DEF ReadBefore
  <2> QED BY <1>0, <2>1, <2>2, StillUntaken
<1>18. ASSUME NEW j \in Job, RunLifecycle(j) PROVE Untaken'
  BY <1>11, <1>12, <1>13, <1>14, <1>15, <1>18 DEF RunLifecycle
<1>19. ASSUME NEW s \in Sub, Subscribe(s) \/ Extension(s) PROVE Untaken'
  BY <1>2, <1>3, <1>4, <1>6, <1>19 DEF Subscribe, Extension
<1>20. ASSUME NEW w \in Worker, Settle(w) \/ Throw(w) PROVE Untaken'
  BY <1>7, <1>10, <1>20 DEF Settle
<1> QED BY <1>8, <1>9, <1>16, <1>17, <1>18, <1>19, <1>20 DEF Next, Reconcile

\* Until the period paid for ends, a subscription leaves ACTIVE (or its trial) only
\* if its last settlement came while a daily run, about to put it in grace or to
\* suspend it, or an extension had already read it.
THEOREM PaidTimeIsKept == Spec => []PaidStaysActive
<1> DEFINE Inv == IInv /\ Untaken
<1>1. Init => Inv
  <2>1. Init => Untaken
    BY DEF Init, Untaken, PaidStaysActive, ReadBefore
  <2> QED BY <2>1, InitHolds
<1>2. Inv /\ [Next]_vars => Inv'
  <2> SUFFICES ASSUME Inv, [Next]_vars PROVE Inv'
    OBVIOUS
  <2>1. IInv'
    BY Step
  <2>2. CASE Next
    BY <2>1, <2>2, UntakenStep
  <2>3. CASE UNCHANGED vars
    BY <2>1, <2>3 DEF vars, Untaken, PaidStaysActive, ReadBefore
  <2> QED BY <2>2, <2>3
<1>3. Inv => PaidStaysActive
  BY DEF Untaken
<1> QED BY <1>1, <1>2, <1>3, PTL DEF Spec
=============================================================================
