------------------------ MODULE SubscriptionsProofs ------------------------
(***************************************************************************)
(* Theorems about Subscriptions for any number of subscriptions, payments, *)
(* reconciliations, manual activations and life-cycle runs, and any plan.  *)
(* A call writes by id what it decided from an earlier read; the invariant *)
(* says what is still true of the subscription when it does.               *)
(***************************************************************************)
EXTENDS Subscriptions, TLAPS

\* The types TypeOK leaves out.
Fields ==
  /\ sub \in [Sub -> [status : SubStatus, endsAt : Int, graceEndsAt : Int]]
  /\ forSub \in [Payment -> Sub]
  /\ on \in [Worker -> Payment \cup {None}]
  /\ plan \in [Worker -> [endsAt : Int, thanks : BOOLEAN]]
  /\ seen \in [Job -> [Sub -> [endsAt : Int, notices : SUBSET Kind]]]
  /\ notice \in [Job -> {NoNotice} \cup [of : Sub, kind : Kind]]

\* The subscription has been served, and so has its dates.
Dated(s) == sub[s].status \in Served \cup {"SUSPENDED"}

\* A payment has a subscription, and whoever settles has a payment.
Existing ==
  /\ \A p \in Payment : payment[p] # "NONE" => sub[forSub[p]].status # "NONE"
  /\ \A p \in paying : payment[p] # "NONE"
  /\ \A w \in Worker : at[w] # "none" => payment[on[w]] # "NONE"
  /\ \A q \in Reconciler : \A p \in todo[q] : payment[p] # "NONE"
  /\ \A s \in Sub :
       /\ calling[s] \in {"no", "trial", "paid"} => sub[s].status = "NONE"
       /\ calling[s] = "trial" => TrialDays > 0

\* What calls have read and will write.
InHand ==
  /\ \A w \in Worker : at[w] = "commit" => plan[w].endsAt > today
  /\ \A s \in Sub : granting[s] # NoDay => granting[s] \in Nat /\ Dated(s)
  /\ \A j \in Job : \A s \in list[j] :
       phase[j] # "idle" /\ Dated(s) /\ seen[j][s].endsAt \in Nat

\* A trial stays on trial, or is paid, until its agency is served: nobody who
\* could end it has it in hand.
Serving ==
  \A s \in Sub : calling[s] = "serve" =>
    /\ sub[s].status \in {"TRIAL", "ACTIVE"} /\ sub[s].endsAt > today
    /\ granting[s] = NoDay
    /\ \A j \in Job : s \in list[j] => phase[j] \notin {"expire", "suspend"}

Agreed == Existing /\ InHand /\ Serving /\ ServedIsSubscribed
IInv == TypeOK /\ Fields /\ Agreed

USE DEF SubStatus, CycleKind, Kind, Row, NoDay, Dated, payVars, callVars, workVars, jobVars

LEMMA InitHolds == Init => IInv
<1> SUFFICES ASSUME Init PROVE IInv
  OBVIOUS
<1> USE DEF Init
<1>1. TypeOK
  BY BoundsAreNat DEF TypeOK, Served
<1>2. Fields
  BY DEF Fields, NoPlan, Unread, Served
<1>3. Agreed
  BY DEF Agreed, Existing, InHand, Serving, ServedIsSubscribed
<1> QED BY <1>1, <1>2, <1>3 DEF IInv

\* subscribe
LEMMA SubscribeStep ==
  ASSUME IInv, NEW s \in Sub, Subscribe(s)
  PROVE  IInv'
<1> USE DurationsArePositive DEF IInv
<1>1. CASE SubscribeCount(s)
  <2>0. PICK step \in {"trial", "paid"} :
          /\ calling[s] = "no" /\ calling' = [calling EXCEPT ![s] = step]
          /\ step = "trial" => TrialDays > 0
          /\ UNCHANGED <<today, agency, sub, notices, payVars, trials, granting>>
          /\ UNCHANGED <<due, credited, crossed, workVars, jobVars, faults>>
    BY <1>1 DEF SubscribeCount
  <2>1. TypeOK' /\ Fields'
    BY <2>0 DEF TypeOK, Fields
  <2>2. Agreed'
    BY <2>0 DEF TypeOK, Fields, Agreed, Existing, InHand, Serving, ServedIsSubscribed
  <2> QED BY <2>1, <2>2
<1>2. CASE SubscribeCreate(s)
  <2>1. /\ sub[s].status = "NONE" /\ granting[s] = NoDay
        /\ \A j \in Job : s \notin list[j]
    BY <1>2 DEF SubscribeCreate, Agreed, Existing, InHand, Served
  <2>2. /\ UNCHANGED <<today, agency, notices, forSub, payment, charge, paying>>
        /\ UNCHANGED <<granting, at, on, plan, todo, phase, list, seen, notice>>
        /\ UNCHANGED <<ranToday, granted, unbroken, faults, credited, crossed>>
        /\ trials' \subseteq Sub
    BY <1>2 DEF SubscribeCreate, TypeOK
  <2>12. due' \in [Sub -> Int]
    BY <1>2, BoundsAreNat DEF SubscribeCreate, TypeOK
  <2>8. today \in Nat /\ TrialDays \in Nat /\ GraceDays \in Nat \ {0}
        /\ (calling[s] = "trial" => TrialDays > 0)
    BY BoundsAreNat DEF TypeOK, Agreed, Existing
  <2>9. /\ \A r \in Sub \ {s} : sub'[r] = sub[r]
        /\ sub' \in [Sub -> [status : SubStatus, endsAt : Int, graceEndsAt : Int]]
        /\ sub'[s].status # "NONE"
        /\ calling[s] = "trial" =>
             /\ sub'[s].status = "TRIAL" /\ sub'[s].endsAt = today + TrialDays
             /\ sub'[s].graceEndsAt = today + TrialDays + GraceDays
        /\ calling[s] # "trial" => sub'[s].status = "PENDING"
    <3>1. CASE calling[s] = "trial"
      <4>1. sub' = [sub EXCEPT ![s] =
                      Row("TRIAL", today + TrialDays, today + TrialDays + GraceDays)]
        BY <1>2, <3>1 DEF SubscribeCreate
      <4> QED BY <2>8, <3>1, <4>1 DEF Fields, Served
    <3>2. CASE calling[s] # "trial"
      <4>1. sub' = [sub EXCEPT ![s].status = "PENDING"]
        BY <1>2, <3>2 DEF SubscribeCreate
      <4> QED BY <3>2, <4>1 DEF Fields, Served
    <3> QED BY <3>1, <3>2
  <2>10. /\ \A r \in Sub \ {s} : calling'[r] = calling[r]
        /\ calling' \in [Sub -> {"no", "trial", "paid", "serve", "done"}]
        /\ calling'[s] = IF calling[s] = "trial" THEN "serve" ELSE "done"
    BY <1>2 DEF SubscribeCreate, TypeOK
  <2>3. TypeOK' /\ Fields'
    <3>2. \A r \in Sub :
            /\ sub'[r] = Row(sub'[r].status, sub'[r].endsAt, sub'[r].graceEndsAt)
            /\ sub'[r].status \in SubStatus
            /\ sub'[r].status \in Served \cup {"SUSPENDED"}
                 => sub'[r].endsAt \in Nat /\ sub'[r].graceEndsAt \in Nat
      BY <2>8, <2>9, <2>10 DEF TypeOK, Served
    <3> QED BY <2>2, <2>9, <2>10, <2>12, <3>2 DEF TypeOK, Fields
  <2>11. \A r \in Sub : sub[r].status # "NONE" => sub'[r] = sub[r]
    BY <2>1, <2>9
  <2>4. Existing'
    <3>1. \A p \in Payment : payment'[p] # "NONE" => sub'[forSub'[p]].status # "NONE"
      BY <2>2, <2>11 DEF Fields, Agreed, Existing
    <3>2. \A r \in Sub :
            /\ calling'[r] \in {"no", "trial", "paid"} => sub'[r].status = "NONE"
            /\ calling'[r] = "trial" => TrialDays > 0
      BY <2>9, <2>10 DEF Agreed, Existing
    <3> QED BY <2>2, <3>1, <3>2 DEF Agreed, Existing
  <2>5. InHand'
    <3>1. \A r \in Sub : Dated(r) => Dated(r)'
      BY <2>11 DEF Served
    <3>2. \A w \in Worker : at'[w] = "commit" => plan'[w].endsAt > today'
      BY <2>2 DEF Agreed, InHand
    <3>3. \A r \in Sub : granting'[r] # NoDay => granting'[r] \in Nat /\ Dated(r)'
      BY <2>2, <3>1 DEF Agreed, InHand
    <3>4. \A j \in Job : \A r \in list'[j] :
            phase'[j] # "idle" /\ Dated(r)' /\ seen'[j][r].endsAt \in Nat
      BY <2>2, <3>1 DEF Agreed, InHand, TypeOK
    <3> QED BY <3>2, <3>3, <3>4 DEF InHand
  <2>6. Serving'
    BY <2>1, <2>2, <2>8, <2>9, <2>10 DEF TypeOK, Agreed, Serving
  <2>7. ServedIsSubscribed'
    BY <2>1, <2>2, <2>8, <2>9, <2>10 DEF Agreed, ServedIsSubscribed, Served
  <2> QED BY <2>3, <2>4, <2>5, <2>6, <2>7 DEF Agreed
<1>3. CASE SubscribeServe(s)
  <2> USE <1>3 DEF SubscribeServe
  <2>1. TypeOK' /\ Fields'
    BY DEF TypeOK, Fields
  <2>2. Agreed'
    BY DEF TypeOK, Fields, Agreed, Existing, InHand, Serving, ServedIsSubscribed, Served
  <2> QED BY <2>1, <2>2
<1> QED BY <1>1, <1>2, <1>3 DEF Subscribe

\* A call of settle or of a reconciliation goes on to its next query.
LEMMA WorkerMoved ==
  ASSUME IInv, NEW w \in Worker, NEW o \in Payment \cup {None},
         NEW a \in {"none", "settle", "commit", "thank", "fail"},
         a = "none" <=> o = None,
         at' = [at EXCEPT ![w] = a], on' = [on EXCEPT ![w] = o]
  PROVE  /\ at' \in [Worker -> {"none", "settle", "commit", "thank", "fail"}]
         /\ on' \in [Worker -> Payment \cup {None}]
         /\ \A v \in Worker : at'[v] = "none" <=> on'[v] = None
         /\ at'[w] = a /\ on'[w] = o
         /\ \A v \in Worker \ {w} : at'[v] = at[v] /\ on'[v] = on[v]
BY DEF IInv, TypeOK, Fields

\* pay, the payer and activateManually leave the subscriptions alone.
LEMMA PayStep ==
  ASSUME IInv, NEW p \in Payment,
         \/ PayCreate(p) \/ PaySave(p) \/ Debit(p)
         \/ \E w \in Admin : ActivateManually(w, p)
  PROVE  IInv'
<1> USE DEF IInv
<1>1. CASE PayCreate(p)
  <2>1. TypeOK' /\ Fields'
    BY <1>1 DEF PayCreate, TypeOK, Fields
  <2>2. Agreed'
    BY <1>1 DEF PayCreate, TypeOK, Fields, Agreed, Existing, InHand, Serving,
                ServedIsSubscribed
  <2> QED BY <2>1, <2>2
<1>2. CASE PaySave(p)
  <2>1. TypeOK' /\ Fields'
    BY <1>2 DEF PaySave, TypeOK, Fields
  <2>2. Agreed'
    BY <1>2 DEF PaySave, TypeOK, Fields, Agreed, Existing, InHand, Serving,
                ServedIsSubscribed
  <2> QED BY <2>1, <2>2
<1>3. CASE Debit(p)
  <2>1. TypeOK' /\ Fields'
    BY <1>3 DEF Debit, TypeOK, Fields
  <2>2. Agreed'
    BY <1>3 DEF Debit, TypeOK, Fields, Agreed, Existing, InHand, Serving,
                ServedIsSubscribed
  <2> QED BY <2>1, <2>2
<1>4. ASSUME NEW w \in Admin, ActivateManually(w, p) PROVE IInv'
  <2>1. TypeOK' /\ Fields'
    BY <1>4, NoneIsFresh DEF ActivateManually, TypeOK, Fields, Worker
  <2>2. Agreed'
    BY <1>4 DEF ActivateManually, TypeOK, Fields, Worker, Agreed, Existing, InHand,
                Serving, ServedIsSubscribed
  <2> QED BY <2>1, <2>2
<1> QED BY <1>1, <1>2, <1>3, <1>4

\* reconcilePending up to settle, and the queries of settle that only read.
LEMMA ReconcileStep ==
  ASSUME IInv, NEW q \in Reconciler,
         ReconcileSelect(q) \/ Fail(q) \/ \E p \in Payment : ReconcileCheck(q, p)
  PROVE  IInv'
<1> USE DEF IInv
<1>1. CASE ReconcileSelect(q)
  <2>1. PICK S \in SUBSET Unsettled : todo' = [todo EXCEPT ![q] = S]
    BY <1>1 DEF ReconcileSelect
  <2>2. TypeOK' /\ Fields'
    BY <1>1, <2>1 DEF ReconcileSelect, TypeOK, Fields, Unsettled
  <2>3. Agreed'
    BY <1>1, <2>1 DEF ReconcileSelect, Unsettled, TypeOK, Fields, Agreed, Existing,
                      InHand, Serving, ServedIsSubscribed
  <2> QED BY <2>2, <2>3
<1>2. CASE Fail(q)
  <2>1. on[q] \in Payment /\ q \in Worker
    BY <1>2 DEF Fail, TypeOK, Fields, Worker
  <2>2. TypeOK' /\ Fields'
    BY <1>2, <2>1 DEF Fail, Ends, NoPlan, TypeOK, Fields
  <2>3. Agreed'
    BY <1>2, <2>1 DEF Fail, Ends, NoPlan, TypeOK, Fields, Agreed, Existing, InHand,
                      Serving, ServedIsSubscribed
  <2> QED BY <2>2, <2>3
<1>3. ASSUME NEW p \in Payment, ReconcileCheck(q, p) PROVE IInv'
  <2>1. /\ UNCHANGED <<today, agency, sub, notices, payVars, callVars, granting, plan>>
        /\ UNCHANGED jobVars /\ UNCHANGED faults
        /\ todo' = [todo EXCEPT ![q] = @ \ {p}] /\ p \in todo[q] /\ q \in Worker
    BY <1>3 DEF ReconcileCheck, Worker
  <2>2. CASE charge[p] = "pending"
    <3>1. UNCHANGED <<at, on>>
      BY <1>3, <2>2 DEF ReconcileCheck
    <3>2. TypeOK' /\ Fields'
      BY <2>1, <3>1 DEF TypeOK, Fields
    <3>3. Agreed'
      BY <2>1, <3>1 DEF TypeOK, Fields, Agreed, Existing, InHand, Serving,
                        ServedIsSubscribed
    <3> QED BY <3>2, <3>3
  <2>3. CASE charge[p] # "pending"
    <3>1. PICK query \in {"settle", "fail"} :
            at' = [at EXCEPT ![q] = query] /\ on' = [on EXCEPT ![q] = p]
      BY <1>3, <2>3 DEF ReconcileCheck
    <3>2. /\ at' \in [Worker -> {"none", "settle", "commit", "thank", "fail"}]
          /\ on' \in [Worker -> Payment \cup {None}]
          /\ \A v \in Worker : at'[v] = "none" <=> on'[v] = None
          /\ at'[q] = query /\ on'[q] = p
          /\ \A v \in Worker \ {q} : at'[v] = at[v] /\ on'[v] = on[v]
      BY <2>1, <3>1, NoneIsFresh, WorkerMoved
    <3>3. TypeOK' /\ Fields'
      BY <2>1, <3>2 DEF TypeOK, Fields
    <3>4. Existing'
      <4>1. payment[p] # "NONE"
        BY <2>1 DEF Agreed, Existing
      <4> QED BY <2>1, <3>2, <4>1 DEF TypeOK, Agreed, Existing
    <3>5. InHand' /\ Serving' /\ ServedIsSubscribed'
      BY <2>1, <3>2 DEF Agreed, InHand, Serving, ServedIsSubscribed
    <3> QED BY <3>3, <3>4, <3>5 DEF Agreed
  <2> QED BY <2>2, <2>3
<1> QED BY <1>1, <1>2, <1>3

\* Writing a served status and dates to a subscription that exists.
LEMMA RowWritten ==
  ASSUME IInv, NEW s \in Sub, sub[s].status # "NONE",
         NEW row \in [status : Served \cup {"SUSPENDED"}, endsAt : Nat, graceEndsAt : Nat],
         sub' = [sub EXCEPT ![s] = row]
  PROVE  /\ sub' \in [Sub -> [status : SubStatus, endsAt : Int, graceEndsAt : Int]]
         /\ sub'[s] = row /\ \A r \in Sub \ {s} : sub'[r] = sub[r]
         /\ \A r \in Sub :
              /\ sub'[r] = Row(sub'[r].status, sub'[r].endsAt, sub'[r].graceEndsAt)
              /\ sub'[r].status \in SubStatus
              /\ sub'[r].status \in Served \cup {"SUSPENDED"}
                   => sub'[r].endsAt \in Nat /\ sub'[r].graceEndsAt \in Nat
         /\ \A r \in Sub : Dated(r) => Dated(r)'
         /\ \A r \in Sub : sub'[r].status = "NONE" <=> sub[r].status = "NONE"
<1>1. /\ sub \in [Sub -> [status : SubStatus, endsAt : Int, graceEndsAt : Int]]
      /\ row \in [status : SubStatus, endsAt : Int, graceEndsAt : Int]
      /\ row = Row(row.status, row.endsAt, row.graceEndsAt) /\ row.status # "NONE"
  BY DEF IInv, Fields, Served
<1>2. /\ sub' \in [Sub -> [status : SubStatus, endsAt : Int, graceEndsAt : Int]]
      /\ sub'[s] = row /\ \A r \in Sub \ {s} : sub'[r] = sub[r]
  BY <1>1
<1> QED BY <1>1, <1>2 DEF IInv, TypeOK

\* Writing two fields of a row writes the row.
LEMMA GraceWritten ==
  ASSUME Fields, NEW s \in Sub, NEW day \in Int,
         sub' = [sub EXCEPT ![s].status = "GRACE", ![s].graceEndsAt = day]
  PROVE  sub' = [sub EXCEPT ![s] = Row("GRACE", sub[s].endsAt, day)]
<1> DEFINE R == [status : SubStatus, endsAt : Int, graceEndsAt : Int]
           half == [sub EXCEPT ![s].status = "GRACE"]
<1>1. sub \in [Sub -> R] /\ sub[s] \in R
  BY DEF Fields
<1>2. [sub[s] EXCEPT !.status = "GRACE"]
        = Row("GRACE", sub[s].endsAt, sub[s].graceEndsAt)
  BY <1>1
<1>3. half \in [Sub -> R]
  BY <1>1, <1>2 DEF Served
<1>4. half[s] = Row("GRACE", sub[s].endsAt, sub[s].graceEndsAt)
      /\ \A r \in Sub \ {s} : half[r] = sub[r]
  BY <1>1, <1>2, <1>3
<1>5. [half[s] EXCEPT !.graceEndsAt = day] = Row("GRACE", sub[s].endsAt, day)
  BY <1>4
<1>6. sub' = [half EXCEPT ![s] = [half[s] EXCEPT !.graceEndsAt = day]]
  OBVIOUS
<1> HIDE DEF half
<1>7. sub' = [half EXCEPT ![s] = Row("GRACE", sub[s].endsAt, day)]
  BY <1>5, <1>6
<1> QED BY <1>1, <1>3, <1>4, <1>7

\* settle: read, one transaction, thanks.
LEMMA SettleStep ==
  ASSUME IInv, NEW w \in Worker, Settle(w)
  PROVE  IInv'
<1> USE DEF IInv
<1>0. /\ today \in Nat /\ GraceDays \in Nat \ {0} /\ PeriodDays \in Nat \ {0}
      /\ on[w] \in Payment /\ forSub[on[w]] \in Sub
      /\ sub[forSub[on[w]]].status # "NONE" /\ payment[on[w]] # "NONE"
  BY BoundsAreNat, DurationsArePositive
     DEF Settle, SettleRead, SettleCommit, SettleThank, TypeOK, Fields, Agreed, Existing
<1>1. CASE SettleRead(w)
  <2> DEFINE row == sub[forSub[on[w]]]
             next == [endsAt |-> Base(row) + PeriodDays,
                      thanks |-> row.status \in {"SUSPENDED", "GRACE"}]
  <2>1. next.endsAt > today /\ next \in [endsAt : Int, thanks : BOOLEAN]
    <3>1. row.endsAt \in Int
      BY <1>0 DEF Fields
    <3> QED BY <1>0, <3>1 DEF Base
  <2>2. UNCHANGED <<today, agency, sub, notices, payVars, callVars, granting, todo,
                    jobVars, faults>>
    BY <1>1 DEF SettleRead
  <2>3. CASE payment[on[w]] = "SUCCESS"
    <3>1. Ends(w)
      BY <1>1, <2>3 DEF SettleRead
    <3>2. TypeOK' /\ Fields'
      BY <2>2, <3>1 DEF Ends, NoPlan, TypeOK, Fields
    <3>3. Agreed'
      BY <2>2, <3>1 DEF Ends, NoPlan, TypeOK, Fields, Agreed, Existing, InHand,
                        Serving, ServedIsSubscribed
    <3> QED BY <3>2, <3>3
  <2>4. CASE payment[on[w]] # "SUCCESS"
    <3>1. /\ plan' = [plan EXCEPT ![w] = next] /\ at' = [at EXCEPT ![w] = "commit"]
          /\ UNCHANGED on
      BY <1>1, <2>4 DEF SettleRead
    <3> HIDE DEF next
    <3>2. at[w] # "none"
      BY <1>1 DEF SettleRead
    <3>3. TypeOK' /\ Fields'
      BY <2>1, <2>2, <3>1, <3>2 DEF TypeOK, Fields
    <3>4. Agreed'
      BY <2>1, <2>2, <3>1, <3>2 DEF TypeOK, Fields, Agreed, Existing, InHand,
                                    Serving, ServedIsSubscribed
    <3> QED BY <3>3, <3>4
  <2> QED BY <2>3, <2>4
<1>2. CASE SettleCommit(w)
  <2> DEFINE s == forSub[on[w]]
             row == Row("ACTIVE", plan[w].endsAt, plan[w].endsAt + GraceDays)
  <2>1. plan[w].endsAt \in Nat /\ plan[w].endsAt > today
    BY <1>0, <1>2 DEF SettleCommit, Fields, Agreed, InHand
  <2>2. /\ sub' = [sub EXCEPT ![s] = row]
        /\ row \in [status : Served \cup {"SUSPENDED"}, endsAt : Nat, graceEndsAt : Nat]
        /\ row.status = "ACTIVE" /\ row.endsAt > today
    BY <1>0, <1>2, <2>1 DEF SettleCommit, Served
  <2>3. /\ payment' = [payment EXCEPT ![on[w]] = "SUCCESS"] /\ agency' = "ACTIVE"
        /\ notices' = [notices EXCEPT ![s] = @ \ CycleKind]
        /\ UNCHANGED <<today, forSub, charge, paying, calling, trials, rivals>>
        /\ UNCHANGED <<granting, todo, jobVars, faults>>
    BY <1>2 DEF SettleCommit
  <2>4. due' \in [Sub -> Int] /\ credited' \subseteq Payment /\ crossed' \subseteq Sub
    BY <1>0, <1>2 DEF SettleCommit, Credits, TypeOK
  <2> HIDE DEF row
  <2>5. /\ sub' \in [Sub -> [status : SubStatus, endsAt : Int, graceEndsAt : Int]]
        /\ sub'[s] = row /\ \A r \in Sub \ {s} : sub'[r] = sub[r]
        /\ \A r \in Sub :
              /\ sub'[r] = Row(sub'[r].status, sub'[r].endsAt, sub'[r].graceEndsAt)
              /\ sub'[r].status \in SubStatus
              /\ sub'[r].status \in Served \cup {"SUSPENDED"}
                   => sub'[r].endsAt \in Nat /\ sub'[r].graceEndsAt \in Nat
        /\ \A r \in Sub : Dated(r) => Dated(r)'
        /\ \A r \in Sub : sub'[r].status = "NONE" <=> sub[r].status = "NONE"
    BY <1>0, <2>2, RowWritten
  <2>6. /\ at' \in [Worker -> {"none", "settle", "commit", "thank", "fail"}]
        /\ \A v \in Worker : at'[v] = "none" <=> on'[v] = None
        /\ on' \in [Worker -> Payment \cup {None}]
        /\ plan' \in [Worker -> [endsAt : Int, thanks : BOOLEAN]]
        /\ \A v \in Worker : at'[v] # "none" => at[v] # "none" /\ on'[v] = on[v]
        /\ \A v \in Worker : at'[v] = "commit" => at[v] = "commit" /\ plan'[v] = plan[v]
    <3>1. at[w] = "commit"
      BY <1>2 DEF SettleCommit
    <3>2. CASE plan[w].thanks
      <4>1. at' = [at EXCEPT ![w] = "thank"] /\ UNCHANGED <<on, plan>>
        BY <1>2, <3>2 DEF SettleCommit
      <4> QED BY <3>1, <4>1 DEF TypeOK, Fields
    <3>3. CASE ~plan[w].thanks
      <4>1. Ends(w)
        BY <1>2, <3>3 DEF SettleCommit
      <4> QED BY <4>1 DEF Ends, NoPlan, TypeOK, Fields
    <3> QED BY <3>2, <3>3
  <2>7. /\ payment' \in [Payment -> {"NONE", "INITIATED", "PENDING", "SUCCESS", "FAILED"}]
        /\ notices' \in [Sub -> SUBSET Kind]
        /\ \A p \in Payment : payment'[p] = "NONE" <=> payment[p] = "NONE"
    BY <1>0, <2>3 DEF TypeOK
  <2>8. TypeOK' /\ Fields'
    BY <2>3, <2>4, <2>5, <2>6, <2>7 DEF TypeOK, Fields
  <2>9. Existing'
    BY <1>0, <2>3, <2>5, <2>6, <2>7 DEF TypeOK, Fields, Agreed, Existing
  <2>10. InHand'
    <3>1. \A v \in Worker : at'[v] = "commit" => plan'[v].endsAt > today'
      BY <2>3, <2>6 DEF Agreed, InHand
    <3>2. \A r \in Sub : granting'[r] # NoDay => granting'[r] \in Nat /\ Dated(r)'
      BY <2>3, <2>5 DEF Agreed, InHand
    <3>3. \A j \in Job : \A r \in list'[j] :
            phase'[j] # "idle" /\ Dated(r)' /\ seen'[j][r].endsAt \in Nat
      BY <2>3, <2>5 DEF Agreed, InHand, TypeOK
    <3> QED BY <3>1, <3>2, <3>3 DEF InHand
  <2>11. Serving' /\ ServedIsSubscribed'
    BY <1>0, <2>2, <2>3, <2>5 DEF Agreed, Serving, ServedIsSubscribed, Served
  <2> QED BY <2>8, <2>9, <2>10, <2>11 DEF Agreed
<1>3. CASE SettleThank(w)
  <2>1. TypeOK' /\ Fields'
    BY <1>0, <1>3 DEF SettleThank, Ends, NoPlan, TypeOK, Fields
  <2>2. Agreed'
    BY <1>0, <1>3 DEF SettleThank, Ends, NoPlan, TypeOK, Fields, Agreed, Existing,
                      InHand, Serving, ServedIsSubscribed
  <2> QED BY <2>1, <2>2
<1> QED BY <1>1, <1>2, <1>3 DEF Settle

\* A refused query: the caller gives up.
LEMMA ThrowStep ==
  ASSUME IInv, NEW w \in Worker, Throw(w)
  PROVE  IInv'
<1> USE DEF IInv
<1>1. /\ Ends(w) /\ faults' \in 0..MaxFaults
      /\ todo' \in [Reconciler -> SUBSET Payment]
      /\ \A q \in Reconciler : todo'[q] \subseteq todo[q]
      /\ UNCHANGED <<today, agency, sub, notices, payVars, callVars, granting>>
      /\ UNCHANGED jobVars
  BY BoundsAreNat DEF Throw, TypeOK
<1>2. TypeOK' /\ Fields'
  BY <1>1 DEF Ends, NoPlan, TypeOK, Fields
<1>3. Agreed'
  BY <1>1 DEF Ends, NoPlan, TypeOK, Fields, Agreed, Existing, InHand, Serving,
              ServedIsSubscribed
<1> QED BY <1>2, <1>3

\* grantExtension: nobody grants one to a trial about to be served.
LEMMA ExtensionStep ==
  ASSUME IInv, NEW s \in Sub, Extension(s)
  PROVE  IInv'
<1> USE DEF IInv
<1>1. CASE GrantCheck(s)
  <2>1. /\ sub[s].status \in {"GRACE", "SUSPENDED"}
        /\ sub[s].graceEndsAt + ExtraDays \in Nat
    BY <1>1, DurationsArePositive DEF GrantCheck, TypeOK, Served
  <2>2. TypeOK' /\ Fields'
    BY <1>1, <2>1 DEF GrantCheck, TypeOK, Fields
  <2>3. Agreed'
    BY <1>1, <2>1 DEF GrantCheck, TypeOK, Fields, Agreed, Existing, InHand, Serving,
                      ServedIsSubscribed, Served
  <2> QED BY <2>2, <2>3
<1>2. CASE GrantCommit(s)
  <2> DEFINE row == Row("GRACE", sub[s].endsAt, granting[s])
  <2>1. granting[s] # NoDay /\ granting[s] \in Nat /\ Dated(s)
    BY <1>2 DEF GrantCommit, Agreed, InHand
  <2>2. /\ sub' = [sub EXCEPT ![s] = row] /\ sub[s].status # "NONE"
        /\ row \in [status : Served \cup {"SUSPENDED"}, endsAt : Nat, graceEndsAt : Nat]
        /\ row.status = "GRACE"
    <3>1. sub[s].endsAt \in Nat
      BY <2>1 DEF TypeOK, Fields
    <3>2. sub' = [sub EXCEPT ![s] = row]
      <4>1. sub' = [sub EXCEPT ![s].status = "GRACE", ![s].graceEndsAt = granting[s]]
        BY <1>2 DEF GrantCommit
      <4>2. granting[s] \in Int /\ Fields
        BY <2>1
      <4> HIDE DEF IInv, Fields
      <4> QED BY <4>1, <4>2, GraceWritten
    <3> QED BY <2>1, <3>1, <3>2 DEF Served
  <2>3. /\ agency' = "ACTIVE" /\ notices' = [notices EXCEPT ![s] = @ \ {"SUSPENSION"}]
        /\ granting' = [granting EXCEPT ![s] = NoDay] /\ granted' = granted \cup {s}
        /\ UNCHANGED <<today, payVars, callVars, workVars, phase, list, seen, notice>>
        /\ UNCHANGED <<ranToday, unbroken, faults>>
    BY <1>2 DEF GrantCommit
  <2> HIDE DEF row
  <2>4. /\ sub' \in [Sub -> [status : SubStatus, endsAt : Int, graceEndsAt : Int]]
        /\ sub'[s] = row /\ \A r \in Sub \ {s} : sub'[r] = sub[r]
        /\ \A r \in Sub :
              /\ sub'[r] = Row(sub'[r].status, sub'[r].endsAt, sub'[r].graceEndsAt)
              /\ sub'[r].status \in SubStatus
              /\ sub'[r].status \in Served \cup {"SUSPENDED"}
                   => sub'[r].endsAt \in Nat /\ sub'[r].graceEndsAt \in Nat
        /\ \A r \in Sub : Dated(r) => Dated(r)'
        /\ \A r \in Sub : sub'[r].status = "NONE" <=> sub[r].status = "NONE"
    BY <2>2, RowWritten
  <2>5. /\ granting' \in [Sub -> Int] /\ granting'[s] = NoDay
        /\ \A r \in Sub \ {s} : granting'[r] = granting[r]
    BY <2>3 DEF TypeOK
  <2>6. TypeOK' /\ Fields'
    BY <2>3, <2>4, <2>5 DEF TypeOK, Fields
  <2>7. Existing'
    BY <2>3, <2>4 DEF TypeOK, Fields, Agreed, Existing
  <2>8. InHand'
    <3>1. \A w \in Worker : at'[w] = "commit" => plan'[w].endsAt > today'
      BY <2>3 DEF Agreed, InHand
    <3>2. \A r \in Sub : granting'[r] # NoDay => granting'[r] \in Nat /\ Dated(r)'
      BY <2>4, <2>5 DEF Agreed, InHand
    <3>3. \A j \in Job : \A r \in list'[j] :
            phase'[j] # "idle" /\ Dated(r)' /\ seen'[j][r].endsAt \in Nat
      BY <2>3, <2>4 DEF Agreed, InHand, TypeOK
    <3> QED BY <3>1, <3>2, <3>3 DEF InHand
  <2>9. Serving' /\ ServedIsSubscribed'
    BY <2>1, <2>2, <2>3, <2>4, <2>5 DEF Agreed, Serving, ServedIsSubscribed, Served
  <2> QED BY <2>6, <2>7, <2>8, <2>9 DEF Agreed
<1> QED BY <1>1, <1>2 DEF Extension

\* Each query of runLifecycle lists rows that have dates, and those of the two
\* that change a status list none that is about to be served.
LEMMA QueryStep ==
  ASSUME IInv, NEW j \in Job, RunQuery(j)
  PROVE  IInv'
<1> USE DEF IInv
<1>1. PICK from, to, rows :
        /\ Queries(j, from, to, rows)
        /\ to \in {"idle", "remind", "expire", "second", "suspend"}
        /\ to = "idle" => rows = {}
        /\ rows \subseteq {s \in Sub : sub[s].status \in Served}
        /\ to \in {"expire", "suspend"} =>
             \A s \in rows : sub[s].status = "GRACE" \/ sub[s].endsAt <= today
  <2>1. CASE RunStart(j)
    BY <2>1 DEF RunStart, Upcoming, Served
  <2>2. CASE Queries(j, "remind", "expire", Expired)
    BY <2>2 DEF Expired, Served
  <2>3. CASE Queries(j, "expire", "second", InGrace)
    BY <2>3 DEF InGrace, Served
  <2>4. CASE Queries(j, "second", "suspend", ToSuspend)
    BY <2>4 DEF ToSuspend, Served
  <2>5. CASE RunEnd(j)
    BY <2>5 DEF RunEnd
  <2> QED BY <2>1, <2>2, <2>3, <2>4, <2>5 DEF RunQuery, RunNext
<1>2. /\ phase' = [phase EXCEPT ![j] = to] /\ list' = [list EXCEPT ![j] = rows]
      /\ UNCHANGED notice
      /\ seen' = [seen EXCEPT ![j] =
                    [s \in Sub |->
                       IF s \in rows
                       THEN [endsAt |-> sub[s].endsAt, notices |-> notices[s]]
                       ELSE Unread[s]]]
      /\ granted' \subseteq Sub /\ unbroken' \subseteq Job
      /\ UNCHANGED <<today, agency, sub, notices, payVars, callVars, granting>>
      /\ UNCHANGED <<workVars, faults>>
  BY <1>1 DEF Queries, RunQuery, RunStart, RunNext, RunEnd, TypeOK
<1>3. \A s \in rows : Dated(s) /\ sub[s].endsAt \in Nat
  BY <1>1 DEF TypeOK
<1>4. seen' \in [Job -> [Sub -> [endsAt : Int, notices : SUBSET Kind]]]
      /\ \A s \in rows : seen'[j][s].endsAt \in Nat
      /\ \A i \in Job \ {j} : seen'[i] = seen[i]
  <2>1. \A s \in Sub : sub[s].endsAt \in Int /\ notices[s] \in SUBSET Kind
    BY DEF TypeOK, Fields
  <2>2. [s \in Sub |-> IF s \in rows
                       THEN [endsAt |-> sub[s].endsAt, notices |-> notices[s]]
                       ELSE Unread[s]] \in [Sub -> [endsAt : Int, notices : SUBSET Kind]]
    BY <2>1 DEF Unread
  <2> QED BY <1>1, <1>2, <1>3, <2>2 DEF Fields
<1>5. TypeOK' /\ Fields'
  BY <1>1, <1>2, <1>4 DEF TypeOK, Fields
<1>6. Existing'
  BY <1>2 DEF Agreed, Existing
<1>7. InHand'
  <2>1. \A i \in Job : \A s \in list'[i] :
          phase'[i] # "idle" /\ Dated(s)' /\ seen'[i][s].endsAt \in Nat
    BY <1>1, <1>2, <1>3, <1>4 DEF Agreed, InHand, TypeOK
  <2> QED BY <1>2, <2>1 DEF Agreed, InHand
<1>8. Serving'
  <2> SUFFICES ASSUME NEW s \in Sub, calling[s] = "serve"
               PROVE  \A i \in Job :
                        s \in list'[i] => phase'[i] \notin {"expire", "suspend"}
    BY <1>2 DEF Agreed, Serving
  <2>1. today \in Int /\ sub[s].endsAt \in Int
    BY DEF TypeOK, Fields
  <2>2. sub[s].status # "GRACE" /\ ~(sub[s].endsAt <= today)
    BY <2>1 DEF Agreed, Serving
  <2> QED BY <1>1, <1>2, <2>2 DEF Agreed, Serving, TypeOK
<1>9. ServedIsSubscribed'
  BY <1>2 DEF Agreed, ServedIsSubscribed
<1> QED BY <1>5, <1>6, <1>7, <1>8, <1>9 DEF Agreed

\* What a loop of runLifecycle keeps when it takes a subscription from its list.
LEMMA TreatsFacts ==
  ASSUME IInv, NEW j \in Job, NEW s \in Sub, NEW phaseOf, NEW note,
         note \in {NoNotice} \cup [of : Sub, kind : Kind], Treats(j, s, phaseOf, note)
  PROVE  /\ phase[j] = phaseOf /\ s \in list[j] /\ Dated(s) /\ seen[j][s].endsAt \in Nat
         /\ sub[s].status # "NONE"
         /\ list' \in [Job -> SUBSET Sub]
         /\ \A i \in Job : list'[i] \subseteq list[i]
         /\ notice' \in [Job -> {NoNotice} \cup [of : Sub, kind : Kind]]
         /\ UNCHANGED <<phase, seen, ranToday, granted, unbroken>>
<1>1. /\ phase[j] = phaseOf /\ s \in list[j]
      /\ list' = [list EXCEPT ![j] = @ \ {s}] /\ notice' = [notice EXCEPT ![j] = note]
      /\ UNCHANGED <<phase, seen, ranToday, granted, unbroken>>
  BY DEF Treats
<1>2. list' \in [Job -> SUBSET Sub] /\ \A i \in Job : list'[i] \subseteq list[i]
  BY <1>1 DEF IInv, TypeOK
<1>3. notice' \in [Job -> {NoNotice} \cup [of : Sub, kind : Kind]]
  BY <1>1 DEF IInv, Fields
<1>4. Dated(s) /\ seen[j][s].endsAt \in Nat
  BY <1>1 DEF IInv, Agreed, InHand
<1> QED BY <1>1, <1>2, <1>3, <1>4 DEF Served

\* Reminders and second notices: the subscription keeps its row.
LEMMA NoteStep ==
  ASSUME IInv, NEW j \in Job, NEW s \in Sub, Remind(j, s) \/ SecondNotice(j, s)
  PROVE  IInv'
<1> USE DEF IInv
<1>1. PICK phaseOf, note :
        Treats(j, s, phaseOf, note) /\ note \in {NoNotice} \cup [of : Sub, kind : Kind]
  <2>1. CASE Remind(j, s)
    <3>1. Reminder(s, seen[j][s]) \in {NoNotice} \cup [of : Sub, kind : Kind]
      BY DEF Reminder, Note
    <3> QED BY <2>1, <3>1 DEF Remind
  <2>2. CASE SecondNotice(j, s)
    BY <2>2 DEF SecondNotice, Note
  <2> QED BY <2>1, <2>2
<1>2. /\ list' \in [Job -> SUBSET Sub] /\ \A i \in Job : list'[i] \subseteq list[i]
      /\ notice' \in [Job -> {NoNotice} \cup [of : Sub, kind : Kind]]
      /\ UNCHANGED <<phase, seen, ranToday, granted, unbroken>>
  BY <1>1, TreatsFacts
<1>3. UNCHANGED <<today, agency, sub, notices, payVars, callVars, granting, workVars, faults>>
  BY DEF Remind, SecondNotice
<1>4. TypeOK' /\ Fields'
  BY <1>2, <1>3 DEF TypeOK, Fields
<1>5. Agreed'
  BY <1>2, <1>3 DEF TypeOK, Agreed, Existing, InHand, Serving, ServedIsSubscribed
<1> QED BY <1>4, <1>5

\* GRACE and SUSPENDED: the run has not read a trial about to be served.
LEMMA EndStep ==
  ASSUME IInv, NEW j \in Job, NEW s \in Sub, EnterGrace(j, s) \/ Suspend(j, s)
  PROVE  IInv'
<1> USE DEF IInv
<1>1. PICK phaseOf \in {"expire", "suspend"}, note \in {NoNotice} \cup [of : Sub, kind : Kind] :
        Treats(j, s, phaseOf, note)
  BY DEF EnterGrace, Suspend, Note
<1>2. /\ phase[j] = phaseOf /\ s \in list[j] /\ Dated(s) /\ seen[j][s].endsAt \in Nat
      /\ sub[s].status # "NONE"
      /\ list' \in [Job -> SUBSET Sub] /\ \A i \in Job : list'[i] \subseteq list[i]
      /\ notice' \in [Job -> {NoNotice} \cup [of : Sub, kind : Kind]]
      /\ UNCHANGED <<phase, seen, ranToday, granted, unbroken>>
  BY <1>1, TreatsFacts
<1>3. /\ UNCHANGED <<today, notices, payVars, callVars, granting, workVars, faults>>
      /\ calling[s] # "serve"
  BY <1>2 DEF EnterGrace, Suspend, Agreed, Serving
<1>4. PICK row \in [status : {"GRACE", "SUSPENDED"}, endsAt : Nat, graceEndsAt : Nat] :
        /\ sub' = [sub EXCEPT ![s] = row]
        /\ \/ row.status = "GRACE" /\ UNCHANGED agency
           \/ agency' = "SUSPENDED"
  <2>1. sub[s].endsAt \in Nat /\ sub[s].graceEndsAt \in Nat
    BY <1>2 DEF TypeOK
  <2>2. CASE EnterGrace(j, s)
    <3> DEFINE day == seen[j][s].endsAt + GraceDays
    <3>1. day \in Nat
      BY <1>2, DurationsArePositive
    <3>2. sub' = [sub EXCEPT ![s].status = "GRACE", ![s].graceEndsAt = day]
          /\ UNCHANGED agency
      BY <2>2 DEF EnterGrace
    <3> HIDE DEF day
    <3>3. sub' = [sub EXCEPT ![s] = Row("GRACE", sub[s].endsAt, day)]
      <4>1. Fields /\ day \in Int
        BY <3>1
      <4> HIDE DEF IInv, Fields
      <4> QED BY <3>2, <4>1, GraceWritten
    <3>4. Row("GRACE", sub[s].endsAt, day)
            \in [status : {"GRACE", "SUSPENDED"}, endsAt : Nat, graceEndsAt : Nat]
      BY <2>1, <3>1
    <3> QED BY <3>2, <3>3, <3>4
  <2>3. CASE Suspend(j, s)
    <3>1. sub' = [sub EXCEPT ![s].status = "SUSPENDED"] /\ agency' = "SUSPENDED"
      BY <2>3 DEF Suspend
    <3>2. sub' = [sub EXCEPT ![s] = Row("SUSPENDED", sub[s].endsAt, sub[s].graceEndsAt)]
      <4>1. [sub[s] EXCEPT !.status = "SUSPENDED"]
              = Row("SUSPENDED", sub[s].endsAt, sub[s].graceEndsAt)
        BY DEF Fields
      <4> QED BY <3>1, <4>1
    <3>3. Row("SUSPENDED", sub[s].endsAt, sub[s].graceEndsAt)
            \in [status : {"GRACE", "SUSPENDED"}, endsAt : Nat, graceEndsAt : Nat]
      BY <2>1
    <3> QED BY <3>1, <3>2, <3>3
  <2> QED BY <2>2, <2>3
<1>5. row \in [status : Served \cup {"SUSPENDED"}, endsAt : Nat, graceEndsAt : Nat]
  BY DEF Served
<1>6. /\ sub' \in [Sub -> [status : SubStatus, endsAt : Int, graceEndsAt : Int]]
      /\ sub'[s] = row /\ \A r \in Sub \ {s} : sub'[r] = sub[r]
      /\ \A r \in Sub :
            /\ sub'[r] = Row(sub'[r].status, sub'[r].endsAt, sub'[r].graceEndsAt)
            /\ sub'[r].status \in SubStatus
            /\ sub'[r].status \in Served \cup {"SUSPENDED"}
                 => sub'[r].endsAt \in Nat /\ sub'[r].graceEndsAt \in Nat
      /\ \A r \in Sub : Dated(r) => Dated(r)'
      /\ \A r \in Sub : sub'[r].status = "NONE" <=> sub[r].status = "NONE"
  BY <1>2, <1>4, <1>5, RowWritten
<1>7. TypeOK' /\ Fields'
  BY <1>2, <1>3, <1>4, <1>6 DEF TypeOK, Fields
<1>8. Existing'
  BY <1>3, <1>6 DEF TypeOK, Fields, Agreed, Existing
<1>9. InHand'
  <2>1. \A w \in Worker : at'[w] = "commit" => plan'[w].endsAt > today'
    BY <1>3 DEF Agreed, InHand
  <2>2. \A r \in Sub : granting'[r] # NoDay => granting'[r] \in Nat /\ Dated(r)'
    BY <1>3, <1>6 DEF Agreed, InHand
  <2>3. \A i \in Job : \A r \in list'[i] :
          phase'[i] # "idle" /\ Dated(r)' /\ seen'[i][r].endsAt \in Nat
    BY <1>2, <1>6 DEF Agreed, InHand, TypeOK
  <2> QED BY <2>1, <2>2, <2>3 DEF InHand
<1>10. Serving'
  BY <1>2, <1>3, <1>6 DEF Agreed, Serving
<1>11. ServedIsSubscribed'
  BY <1>4, <1>6 DEF Agreed, ServedIsSubscribed, Served
<1> QED BY <1>7, <1>8, <1>9, <1>10, <1>11 DEF Agreed

LEMMA FailStep ==
  ASSUME IInv, NEW j \in Job, RunFail(j)
  PROVE  IInv'
<1> USE DEF IInv
<1>1. TypeOK'
  BY BoundsAreNat DEF RunFail, TypeOK
<1>2. Fields'
  BY DEF RunFail, Fields, Unread
<1>3. Agreed'
  BY DEF RunFail, TypeOK, Agreed, Existing, InHand, Serving, ServedIsSubscribed
<1> QED BY <1>1, <1>2, <1>3

LEMMA NoticeStep ==
  ASSUME IInv, NEW j \in Job, SendNotice(j)
  PROVE  IInv'
<1> USE DEF IInv
<1>1. notice[j] \in [of : Sub, kind : Kind]
  BY DEF SendNotice, Fields
<1>2. TypeOK' /\ Fields'
  BY <1>1 DEF SendNotice, TypeOK, Fields
<1>3. Agreed'
  BY DEF SendNotice, TypeOK, Agreed, Existing, InHand, Serving, ServedIsSubscribed
<1> QED BY <1>2, <1>3

\* No day passes while a call holds something it has read.
LEMMA TickStep ==
  ASSUME IInv, Tick
  PROVE  IInv'
<1> USE DEF IInv
<1>1. TypeOK' /\ Fields'
  BY BoundsAreNat DEF Tick, TypeOK, Fields
<1>2. Agreed'
  BY DEF Tick, Quiet, TypeOK, Agreed, Existing, InHand, Serving, ServedIsSubscribed
<1> QED BY <1>1, <1>2

LEMMA CrashStep ==
  ASSUME IInv, Crash
  PROVE  IInv'
<1> USE DEF IInv
<1>1. TypeOK'
  BY BoundsAreNat DEF Crash, TypeOK
<1>2. Fields'
  BY DEF Crash, Fields, NoPlan, Unread
<1>3. Agreed'
  BY DEF Crash, TypeOK, Agreed, Existing, InHand, Serving, ServedIsSubscribed
<1> QED BY <1>1, <1>2, <1>3

LEMMA Step == IInv /\ [Next]_vars => IInv'
<1> SUFFICES ASSUME IInv, [Next]_vars PROVE IInv'
  OBVIOUS
<1>1. ASSUME NEW s \in Sub, Subscribe(s) \/ Extension(s) PROVE IInv'
  BY <1>1, SubscribeStep, ExtensionStep
<1>2. ASSUME NEW p \in Payment, PayCreate(p) \/ PaySave(p) \/ Debit(p) PROVE IInv'
  BY <1>2, PayStep
<1>3. ASSUME NEW w \in Admin, NEW p \in Payment, ActivateManually(w, p) PROVE IInv'
  BY <1>3, PayStep
<1>4. ASSUME NEW q \in Reconciler,
             ReconcileSelect(q) \/ Fail(q) \/ \E p \in Payment : ReconcileCheck(q, p)
      PROVE  IInv'
  BY <1>4, ReconcileStep
<1>5. ASSUME NEW w \in Worker, Settle(w) \/ Throw(w) PROVE IInv'
  BY <1>5, SettleStep, ThrowStep
<1>6. ASSUME NEW j \in Job, RunLifecycle(j) PROVE IInv'
  BY <1>6, QueryStep, NoteStep, EndStep, NoticeStep, FailStep DEF RunLifecycle
<1>7. CASE UNCHANGED vars
  <2> USE <1>7 DEF vars, IInv
  <2>1. TypeOK' /\ Fields'
    BY DEF TypeOK, Fields
  <2>2. Agreed'
    BY DEF Agreed, Existing, InHand, Serving, ServedIsSubscribed
  <2> QED BY <2>1, <2>2
<1> QED BY <1>1, <1>2, <1>3, <1>4, <1>5, <1>6, <1>7, TickStep, CrashStep DEF Next, Reconcile

LEMMA Invariant == Spec => []IInv
BY InitHolds, Step, PTL DEF Spec

-----------------------------------------------------------------------------
\* Every row, call and day has its type, and a subscription that has been served
\* has the two dates the assertions endsAt! and graceEndsAt! of the code assume.
THEOREM TypeCorrect == Spec => []TypeOK
<1>1. IInv => TypeOK
  BY DEF IInv
<1> QED BY <1>1, Invariant, PTL

\* However many calls and runs overlap and wherever the API restarts, an agency is
\* ACTIVE only while one of its subscriptions is on trial, paid or in grace.
THEOREM AgencyIsSubscribed == Spec => []ServedIsSubscribed
<1>1. IInv => ServedIsSubscribed
  BY DEF IInv, Agreed
<1> QED BY <1>1, Invariant, PTL

-----------------------------------------------------------------------------
\* Which calls can still create a trial, and beside which others.
Trialling(s) == calling[s] = "trial"
Trials ==
  /\ \A t \in trials : sub[t].status # "NONE"
  /\ \A s \in Sub : Trialling(s) =>
       /\ \A t \in trials : {s, t} \in rivals
       /\ \A t \in Sub : Trialling(t) => s = t \/ {s, t} \in rivals

\* No subscription row is ever deleted.
LEMMA RowsStay ==
  ASSUME IInv, Next, NEW s \in Sub, sub[s].status # "NONE"
  PROVE  sub'[s].status # "NONE"
<1> USE DEF IInv
<1>0. sub \in [Sub -> [status : SubStatus, endsAt : Int, graceEndsAt : Int]]
  BY DEF Fields
<1>1. ASSUME NEW r \in Sub, Subscribe(r) \/ Extension(r) PROVE sub'[s].status # "NONE"
  <2>1. CASE SubscribeCreate(r)
    BY <1>0, <2>1 DEF SubscribeCreate
  <2>2. CASE GrantCommit(r)
    BY <1>0, <2>2 DEF GrantCommit
  <2> QED BY <1>1, <2>1, <2>2
          DEF Subscribe, Extension, SubscribeCount, SubscribeServe, GrantCheck
<1>2. ASSUME NEW w \in Worker, Settle(w) \/ Throw(w) PROVE sub'[s].status # "NONE"
  BY <1>0, <1>2 DEF Settle, SettleRead, SettleCommit, SettleThank, Throw
<1>3. ASSUME NEW j \in Job, RunLifecycle(j) PROVE sub'[s].status # "NONE"
  <2>1. CASE RunQuery(j) \/ SendNotice(j) \/ RunFail(j)
    BY <2>1 DEF RunQuery, SendNotice, RunFail
  <2>2. ASSUME NEW r \in Sub,
               Remind(j, r) \/ EnterGrace(j, r) \/ SecondNotice(j, r) \/ Suspend(j, r)
        PROVE  sub'[s].status # "NONE"
    <3>1. CASE EnterGrace(j, r)
      BY <1>0, <3>1 DEF EnterGrace
    <3>2. CASE Suspend(j, r)
      BY <1>0, <3>2 DEF Suspend
    <3>3. CASE Remind(j, r) \/ SecondNotice(j, r)
      BY <3>3 DEF Remind, SecondNotice
    <3> QED BY <2>2, <3>1, <3>2, <3>3
  <2> QED BY <1>3, <2>1, <2>2 DEF RunLifecycle
<1>4. ASSUME NEW p \in Payment,
             \/ PayCreate(p) \/ PaySave(p) \/ Debit(p)
             \/ \E w \in Admin : ActivateManually(w, p)
      PROVE  sub'[s].status # "NONE"
  BY <1>4 DEF PayCreate, PaySave, Debit, ActivateManually
<1>5. ASSUME NEW q \in Reconciler,
             ReconcileSelect(q) \/ Fail(q) \/ \E p \in Payment : ReconcileCheck(q, p)
      PROVE  sub'[s].status # "NONE"
  BY <1>5 DEF ReconcileSelect, Fail, ReconcileCheck
<1>6. CASE Tick \/ Crash
  BY <1>6 DEF Tick, Crash
<1> QED BY <1>1, <1>2, <1>3, <1>4, <1>5, <1>6 DEF Next, Reconcile

\* Only the count lets a call create a trial, and only the creation is one.
LEMMA OnlySubscribeTries ==
  ASSUME Next, \A s \in Sub : ~SubscribeCount(s) /\ ~SubscribeCreate(s)
  PROVE  /\ UNCHANGED <<trials, rivals>>
         /\ \A s \in Sub : Trialling(s)' => Trialling(s)
<1> USE DEF Trialling
<1>1. ASSUME NEW s \in Sub, SubscribeServe(s) \/ Extension(s)
      PROVE  /\ UNCHANGED <<trials, rivals>>
             /\ \A r \in Sub : Trialling(r)' => Trialling(r)
  <2>1. CASE SubscribeServe(s)
    <3>1. calling' = [calling EXCEPT ![s] = "done"] /\ UNCHANGED <<trials, rivals>>
      BY <2>1 DEF SubscribeServe
    <3>2. \A r \in Sub : calling'[r] = "trial" => calling[r] = "trial"
      BY <3>1
    <3> QED BY <3>1, <3>2
  <2>2. CASE Extension(s)
    BY <2>2 DEF Extension, GrantCheck, GrantCommit
  <2> QED BY <1>1, <2>1, <2>2
<1>2. CASE Crash
  BY <1>2 DEF Crash
<1>3. ASSUME NEW j \in Job, RunLifecycle(j) PROVE UNCHANGED callVars
  BY <1>3 DEF RunLifecycle, RunQuery, Remind, EnterGrace, SecondNotice, Suspend,
              SendNotice, RunFail
<1>4. ASSUME NEW w \in Worker, Settle(w) \/ Throw(w)
      PROVE  UNCHANGED <<calling, trials, rivals>>
  BY <1>4 DEF Settle, SettleRead, SettleCommit, SettleThank, Throw
<1>5. ASSUME NEW p \in Payment,
             \/ PayCreate(p) \/ PaySave(p) \/ Debit(p)
             \/ \E w \in Admin : ActivateManually(w, p)
      PROVE  UNCHANGED callVars
  BY <1>5 DEF PayCreate, PaySave, Debit, ActivateManually
<1>6. ASSUME NEW q \in Reconciler,
             ReconcileSelect(q) \/ Fail(q) \/ \E p \in Payment : ReconcileCheck(q, p)
      PROVE  UNCHANGED callVars
  BY <1>6 DEF ReconcileSelect, Fail, ReconcileCheck
<1>7. CASE Tick
  BY <1>7 DEF Tick
<1> QED BY <1>1, <1>2, <1>3, <1>4, <1>5, <1>6, <1>7 DEF Next, Reconcile, Subscribe

LEMMA TrialsStep ==
  ASSUME IInv, Trials, OneTrial, Next
  PROVE  Trials' /\ OneTrial'
<1>1. ASSUME NEW s \in Sub, SubscribeCount(s) PROVE Trials' /\ OneTrial'
  <2>0. UNCHANGED <<sub, trials>>
    BY <1>1 DEF SubscribeCount
  <2>1. CASE calling' = [calling EXCEPT ![s] = "paid"] /\ UNCHANGED rivals
    <3>1. \A r \in Sub : Trialling(r)' => Trialling(r)
      BY <2>1 DEF Trialling
    <3> QED BY <2>0, <2>1, <3>1 DEF Trials, OneTrial
  <2>2. CASE /\ \A q \in Sub : sub[q].status = "NONE"
             /\ calling' = [calling EXCEPT ![s] = "trial"]
             /\ rivals' = rivals \cup {{s, q} : q \in {r \in Sub : calling[r] = "trial"}}
    <3>1. trials = {}
      BY <2>2 DEF Trials, IInv, TypeOK
    <3>2. ASSUME NEW r \in Sub, NEW t \in Sub, Trialling(r)', Trialling(t)', r # t
          PROVE  {r, t} \in rivals'
      <4>1. (r # s => calling[r] = "trial") /\ (t # s => calling[t] = "trial")
        BY <2>2, <3>2 DEF Trialling
      <4>2. CASE r = s
        BY <2>2, <3>2, <4>1, <4>2
      <4>3. CASE t = s
        <5>1. {s, r} \in rivals' /\ {s, r} = {r, t}
          BY <2>2, <3>2, <4>1, <4>3
        <5> QED BY <5>1
      <4>4. CASE r # s /\ t # s
        BY <2>2, <3>2, <4>1, <4>4 DEF Trials, Trialling
      <4> QED BY <4>2, <4>3, <4>4
    <3> QED BY <2>0, <3>1, <3>2 DEF Trials, OneTrial
  <2> QED BY <1>1, <2>1, <2>2 DEF SubscribeCount
<1>2. ASSUME NEW s \in Sub, SubscribeCreate(s) PROVE Trials' /\ OneTrial'
  <2>1. /\ UNCHANGED rivals /\ ~Trialling(s)'
        /\ \A r \in Sub : Trialling(r)' => Trialling(r) /\ r # s
        /\ \/ trials' = trials
           \/ /\ trials' = trials \cup {s} /\ Trialling(s)
              /\ sub'[s].status = "TRIAL"
    BY <1>2 DEF SubscribeCreate, Trialling, IInv, TypeOK, Fields
  <2>2. \A t \in trials : sub'[t].status # "NONE"
    BY <1>2, RowsStay DEF Trials, IInv, TypeOK, Next, Subscribe
  <2>3. Trials'
    BY <2>1, <2>2 DEF Trials
  <2>4. \A t \in trials : Trialling(s) => {s, t} \in rivals /\ {t, s} = {s, t}
    BY DEF Trials
  <2> QED BY <2>1, <2>3, <2>4 DEF OneTrial
<1>3. CASE \A s \in Sub : ~SubscribeCount(s) /\ ~SubscribeCreate(s)
  <2>1. \A t \in trials : sub'[t].status # "NONE"
    BY RowsStay DEF Trials, IInv, TypeOK
  <2> QED BY <1>3, <2>1, OnlySubscribeTries DEF Trials, OneTrial
<1> QED BY <1>1, <1>2, <1>3

\* An agency never has a second trial unless two first calls of subscribe were at
\* once between counting its subscriptions and creating theirs, whatever was paid,
\* suspended, extended or cut short in between.
THEOREM NoSecondTrial == Spec => []OneTrial
<1> DEFINE Inv == IInv /\ Trials /\ OneTrial
<1>1. Init => Inv
  BY InitHolds DEF Init, Trials, Trialling, OneTrial
<1>2. Inv /\ [Next]_vars => Inv'
  <2> SUFFICES ASSUME Inv, [Next]_vars PROVE Inv'
    OBVIOUS
  <2>1. IInv'
    BY Step
  <2>2. CASE Next
    BY <2>1, <2>2, TrialsStep
  <2>3. CASE UNCHANGED vars
    BY <2>1, <2>3 DEF vars, Trials, Trialling, OneTrial
  <2> QED BY <2>2, <2>3
<1>3. Inv => OneTrial
  OBVIOUS
<1> QED BY <1>1, <1>2, <1>3, PTL DEF Spec

=============================================================================
