-------------------------- MODULE DeparturesProofs --------------------------
(***************************************************************************)
(* Theorems about Departures for any timetable, any range of dates and any *)
(* number of departures and changes.  Two generations at a time can both   *)
(* find a slot free: that a slot is filled once is proved of the others.   *)
(***************************************************************************)
EXTENDS Departures, TLAPS

IInv == TypeOK /\ GridCovered

\* The departures that a generation put where they are.
FromGrid(t) == t \in Rows /\ trips[t].of # None /\ ~trips[t].moved

\* The slot a generation is about to fill was not filled by another, or that was
\* recorded as a clash.
StillFree ==
  \A g \in Generator : creating[g] # None =>
    \/ creating[g].slot \in clash
    \/ \A t \in Trip : FromGrid(t) => trips[t].slot # creating[g].slot

LEMMA InitHolds == Init => IInv
BY TimetablesAreTyped, BoundsAreNat DEF Init, IInv, TypeOK, GridCovered

LEMMA TypeStep ==
  ASSUME TypeOK, [Next]_vars
  PROVE  TypeOK'
<1> USE DEF TypeOK, Rows
<1>1. ASSUME NEW g \in Generator, GenerateRead(g) PROVE TypeOK'
  <2>2. PICK plan \in SUBSET Item :
          /\ todo' = [todo EXCEPT ![g] = plan]
          /\ planned' = [planned EXCEPT ![g] = {i.slot : i \in plan}]
    BY <1>1 DEF GenerateRead
  <2>3. UNCHANGED <<timetable, trips, creating, moving, vacated, clash, edits, faults>>
        /\ creating[g] = None
    BY <1>1 DEF GenerateRead, Running
  <2>4. {i.slot : i \in plan} \in SUBSET Slot
    BY DEF Item
  <2> QED BY <2>2, <2>3, <2>4
<1>2. ASSUME NEW g \in Generator, GenerateLook(g) PROVE TypeOK'
  <2>1. PICK i \in todo[g] :
          /\ todo' = [todo EXCEPT ![g] = @ \ {i}]
          /\ creating' = creating \/ creating' = [creating EXCEPT ![g] = i]
    BY <1>2 DEF GenerateLook
  <2>2. UNCHANGED <<timetable, trips, planned, moving, vacated, clash, edits, faults>>
    BY <1>2 DEF GenerateLook
  <2> QED BY <2>1, <2>2
<1>3. ASSUME NEW g \in Generator, GenerateCreate(g) PROVE TypeOK'
  <2>1. PICK t \in Trip \ Rows :
          trips' = [trips EXCEPT ![t] = Departure(creating[g].slot, creating[g].of)]
    BY <1>3 DEF GenerateCreate
  <2>2. creating[g] \in Item
    BY <1>3 DEF GenerateCreate
  <2>3. Departure(creating[g].slot, creating[g].of) \in TripRow
    BY <2>2 DEF Departure, TripRow, Item
  <2>4. trips' \in [Trip -> TripRow \cup {None}]
    BY <2>1, <2>3
  <2>5. creating' = [creating EXCEPT ![g] = None]
        /\ UNCHANGED <<timetable, todo, planned, moving, vacated, edits, faults>>
        /\ clash' \subseteq Slot
    BY <1>3 DEF GenerateCreate
  <2>6. moving' \subseteq Rows'
    BY <2>1, <2>3, <2>5, NoneIsNoRow
  <2> QED BY <2>4, <2>5, <2>6
<1>4. ASSUME NEW t \in Trip, CreateTrip(t) PROVE TypeOK'
  <2>1. PICK slot \in Slot : trips' = [trips EXCEPT ![t] = Departure(slot, None)]
    BY <1>4 DEF CreateTrip
  <2>2. Departure(slot, None) \in TripRow
    BY DEF Departure, TripRow
  <2>3. UNCHANGED <<timetable, genVars, moving, vacated, clash, edits, faults>>
    BY <1>4 DEF CreateTrip
  <2>4. trips' \in [Trip -> TripRow \cup {None}] /\ moving' \subseteq Rows'
    BY <2>1, <2>2, <2>3, NoneIsNoRow
  <2> QED BY <2>3, <2>4 DEF genVars
<1>5. ASSUME NEW t \in Trip, UpdateTripCheck(t) PROVE TypeOK'
  BY <1>5 DEF UpdateTripCheck, genVars
<1>6. ASSUME NEW t \in Trip, UpdateTripCommit(t) PROVE TypeOK'
  <2>1. PICK slot \in Slot :
          trips' = [trips EXCEPT ![t].slot = slot, ![t].moved = TRUE]
    BY <1>6 DEF UpdateTripCommit
  <2>2. trips[t] \in TripRow
    BY <1>6 DEF UpdateTripCommit
  <2>3. trips' \in [Trip -> TripRow \cup {None}] /\ trips'[t] \in TripRow
        /\ \A u \in Trip \ {t} : trips'[u] = trips[u]
    BY <2>1, <2>2 DEF TripRow
  <2>4. /\ edits < MaxEdits /\ edits' = edits + 1 /\ moving' = moving \ {t}
        /\ vacated' = vacated \cup {trips[t].slot}
        /\ UNCHANGED <<timetable, genVars, clash, faults>>
    BY <1>6 DEF UpdateTripCommit
  <2>5. trips[t].slot \in Slot
    BY <2>2 DEF TripRow
  <2> QED BY <2>3, <2>4, <2>5, BoundsAreNat DEF genVars
<1>7. ASSUME NEW t \in Trip, CancelTrip(t) PROVE TypeOK'
  <2>1. trips' = [trips EXCEPT ![t].status = "CANCELLED"] /\ trips[t] \in TripRow
    BY <1>7 DEF CancelTrip
  <2>2. trips' \in [Trip -> TripRow \cup {None}] /\ trips'[t] \in TripRow
        /\ \A u \in Trip \ {t} : trips'[u] = trips[u]
    BY <2>1 DEF TripRow
  <2>3. UNCHANGED <<timetable, genVars, moving, vacated, clash, edits, faults>>
    BY <1>7 DEF CancelTrip
  <2> QED BY <2>2, <2>3, NoneIsNoRow DEF genVars
<1>8. ASSUME NEW s \in Schedule, UpdateSchedule(s) PROVE TypeOK'
  BY <1>8, BoundsAreNat DEF UpdateSchedule, genVars
<1>9. CASE Crash
  BY <1>9, BoundsAreNat DEF Crash
<1>10. CASE UNCHANGED vars
  BY <1>10 DEF vars, genVars
<1> QED BY <1>1, <1>2, <1>3, <1>4, <1>5, <1>6, <1>7, <1>8, <1>9, <1>10
        DEF Next, GenerateTrips

\* A row keeps its slot, unless somebody moves the departure.
LEMMA RowsStay ==
  ASSUME TypeOK, Next
  PROVE  \A t \in Rows : \/ t \in Rows' /\ trips'[t].slot = trips[t].slot
                         \/ trips[t].slot \in vacated'
<1> USE DEF TypeOK
<1>1. ASSUME NEW t \in Trip, UpdateTripCommit(t)
      PROVE  \A u \in Rows : \/ u \in Rows' /\ trips'[u].slot = trips[u].slot
                             \/ trips[u].slot \in vacated'
  BY <1>1 DEF UpdateTripCommit, Rows
<1>2. ASSUME NEW t \in Trip, CancelTrip(t)
      PROVE  \A u \in Rows : u \in Rows' /\ trips'[u].slot = trips[u].slot
  <2>1. trips' = [trips EXCEPT ![t].status = "CANCELLED"] /\ trips[t] \in TripRow
    BY <1>2 DEF CancelTrip, Rows
  <2>2. trips'[t] \in TripRow /\ trips'[t].slot = trips[t].slot
        /\ \A u \in Trip \ {t} : trips'[u] = trips[u]
    BY <2>1 DEF TripRow
  <2> QED BY <2>2, NoneIsNoRow DEF Rows
<1>3. ASSUME NEW t \in Trip \ Rows, NEW row, trips' = [trips EXCEPT ![t] = row]
      PROVE  \A u \in Rows : u \in Rows' /\ trips'[u].slot = trips[u].slot
  BY <1>3 DEF Rows
<1>4. ASSUME UNCHANGED trips
      PROVE  \A u \in Rows : u \in Rows' /\ trips'[u].slot = trips[u].slot
  BY <1>4 DEF Rows
<1>5. ASSUME NEW g \in Generator, GenerateTrips(g)
      PROVE  \A u \in Rows : u \in Rows' /\ trips'[u].slot = trips[u].slot
  BY <1>3, <1>4, <1>5 DEF GenerateTrips, GenerateRead, GenerateLook, GenerateCreate
<1>6. ASSUME NEW t \in Trip, CreateTrip(t)
      PROVE  \A u \in Rows : u \in Rows' /\ trips'[u].slot = trips[u].slot
  BY <1>3, <1>6 DEF CreateTrip
<1>7. ASSUME NEW t \in Trip, UpdateTripCheck(t) PROVE UNCHANGED trips
  BY <1>7 DEF UpdateTripCheck
<1>8. ASSUME NEW s \in Schedule, UpdateSchedule(s) PROVE UNCHANGED trips
  BY <1>8 DEF UpdateSchedule
<1>9. Crash => UNCHANGED trips
  BY DEF Crash
<1> QED BY <1>1, <1>2, <1>4, <1>5, <1>6, <1>7, <1>8, <1>9 DEF Next

-----------------------------------------------------------------------------
LEMMA CoveredStep ==
  ASSUME TypeOK, TypeOK', GridCovered, [Next]_vars
  PROVE  GridCovered'
<1> USE DEF TypeOK
<1> DEFINE Has(slot) == (\E t \in Rows : trips[t].slot = slot) \/ slot \in vacated
<1>1. CASE UNCHANGED vars
  BY <1>1 DEF vars, genVars, GridCovered, Rows
<1>2. ASSUME Next PROVE \A slot \in Slot : Has(slot) => Has(slot)'
  <2>1. vacated \subseteq vacated'
    BY <1>2 DEF Next, GenerateTrips, GenerateRead, GenerateLook, GenerateCreate,
                CreateTrip, CancelTrip, UpdateTripCheck, UpdateTripCommit,
                UpdateSchedule, Crash
  <2> QED BY <1>2, <2>1, RowsStay
<1>3. ASSUME Next, UNCHANGED genVars PROVE GridCovered'
  BY <1>2, <1>3 DEF genVars, GridCovered
<1>4. ASSUME NEW g \in Generator, GenerateRead(g) PROVE GridCovered'
  <2>1. PICK plan \in SUBSET Item :
          /\ todo' = [todo EXCEPT ![g] = plan]
          /\ planned' = [planned EXCEPT ![g] = {i.slot : i \in plan}]
    BY <1>4 DEF GenerateRead
  <2>2. UNCHANGED <<creating, trips, vacated>>
    BY <1>4 DEF GenerateRead
  <2> QED BY <2>1, <2>2 DEF GridCovered, Rows
<1>5. ASSUME NEW g \in Generator, GenerateLook(g) PROVE GridCovered'
  <2>1. PICK i \in todo[g] :
          /\ todo' = [todo EXCEPT ![g] = @ \ {i}]
          /\ creating' = IF Occupied(i.slot) THEN creating
                         ELSE [creating EXCEPT ![g] = i]
    BY <1>5 DEF GenerateLook
  <2>2. creating[g] = None /\ UNCHANGED <<planned, trips, vacated>>
    BY <1>5 DEF GenerateLook
  <2>3. \/ \E t \in Rows : trips[t].slot = i.slot
        \/ creating'[g] = i
    BY <2>1 DEF Occupied
  <2>4. \A h \in Generator \ {g} : creating'[h] = creating[h] /\ todo'[h] = todo[h]
    BY <2>1
  <2>5. i \in Item
    BY <2>1
  <2>6. ASSUME NEW slot \in planned[g]
        PROVE  \/ \E j \in todo'[g] : j.slot = slot
               \/ creating'[g] # None /\ creating'[g].slot = slot
               \/ Has(slot)
    <3>1. CASE slot = i.slot
      BY <2>3, <2>5, <3>1, NoneIsNoRow
    <3>2. CASE slot # i.slot
      BY <2>1, <2>2, <3>2 DEF GridCovered
    <3> QED BY <3>1, <3>2
  <2>7. ASSUME NEW h \in Generator, NEW slot \in planned[h]
        PROVE  \/ \E j \in todo'[h] : j.slot = slot
               \/ creating'[h] # None /\ creating'[h].slot = slot
               \/ Has(slot)
    BY <2>4, <2>6 DEF GridCovered
  <2> QED BY <2>2, <2>7 DEF GridCovered, Rows
<1>6. ASSUME NEW g \in Generator, GenerateCreate(g) PROVE GridCovered'
  <2>1. PICK t \in Trip \ Rows :
          trips' = [trips EXCEPT ![t] = Departure(creating[g].slot, creating[g].of)]
    BY <1>6 DEF GenerateCreate
  <2>2. creating[g] \in Item /\ creating' = [creating EXCEPT ![g] = None]
        /\ UNCHANGED <<todo, planned, vacated>>
    BY <1>6 DEF GenerateCreate
  <2>3. Departure(creating[g].slot, creating[g].of) \in TripRow
    BY <2>2 DEF Departure, TripRow, Item
  <2>4. t \in Rows' /\ trips'[t].slot = creating[g].slot
    BY <2>1, <2>3, NoneIsNoRow DEF Rows, Departure
  <2>5. \A slot \in Slot : Has(slot) => Has(slot)'
    BY <1>2, <1>6 DEF Next, GenerateTrips
  <2>6. ASSUME NEW h \in Generator, NEW slot \in planned[h]
        PROVE  \/ \E j \in todo[h] : j.slot = slot
               \/ creating'[h] # None /\ creating'[h].slot = slot
               \/ Has(slot)'
    <3>1. slot \in Slot
      OBVIOUS
    <3>2. CASE h = g /\ creating[g].slot = slot
      BY <2>4, <3>2
    <3>3. CASE ~(h = g /\ creating[g].slot = slot)
      BY <2>2, <2>5, <3>1, <3>3 DEF GridCovered
    <3> QED BY <3>2, <3>3
  <2> QED BY <2>2, <2>6 DEF GridCovered
<1>7. CASE Crash
  BY <1>7 DEF Crash, GridCovered
<1>8. ASSUME NEW t \in Trip,
             \/ CreateTrip(t) \/ CancelTrip(t)
             \/ UpdateTripCheck(t) \/ UpdateTripCommit(t)
      PROVE  UNCHANGED genVars
  BY <1>8 DEF CreateTrip, CancelTrip, UpdateTripCheck, UpdateTripCommit
<1>9. ASSUME NEW s \in Schedule, UpdateSchedule(s) PROVE UNCHANGED genVars
  BY <1>9 DEF UpdateSchedule
<1> QED BY <1>1, <1>3, <1>4, <1>5, <1>6, <1>7, <1>8, <1>9 DEF Next, GenerateTrips

\* A slot is found free, or was filled while somebody had found it free.
LEMMA OnceStep ==
  ASSUME TypeOK, GeneratedOnce, StillFree, [Next]_vars
  PROVE  GeneratedOnce' /\ StillFree'
<1> USE DEF TypeOK
<1>0. GeneratedOnce <=> \A t, u \in Trip :
        FromGrid(t) /\ FromGrid(u) /\ trips[t].slot = trips[u].slot
          => t = u \/ trips[t].slot \in clash
  BY DEF GeneratedOnce, FromGrid, Rows
<1>1. GeneratedOnce' <=> \A t, u \in Trip :
        FromGrid(t)' /\ FromGrid(u)' /\ trips'[t].slot = trips'[u].slot
          => t = u \/ trips'[t].slot \in clash'
  BY DEF GeneratedOnce, FromGrid, Rows
<1>2. ASSUME \A t \in Trip : FromGrid(t)' => FromGrid(t) /\ trips'[t].slot = trips[t].slot,
             UNCHANGED <<creating, clash>>
      PROVE  GeneratedOnce' /\ StillFree'
  BY <1>0, <1>1, <1>2 DEF StillFree
<1>3. ASSUME UNCHANGED <<trips, creating, clash>> PROVE GeneratedOnce' /\ StillFree'
  BY <1>2, <1>3 DEF FromGrid, Rows
<1>4. ASSUME NEW g \in Generator, GenerateRead(g) PROVE GeneratedOnce' /\ StillFree'
  BY <1>3, <1>4 DEF GenerateRead
<1>5. ASSUME NEW g \in Generator, GenerateLook(g) PROVE GeneratedOnce' /\ StillFree'
  <2>1. UNCHANGED <<trips, clash>>
    BY <1>5 DEF GenerateLook
  <2>2. GeneratedOnce'
    BY <2>1 DEF GeneratedOnce, Rows
  <2>3. PICK i \in todo[g] : creating' = IF Occupied(i.slot) THEN creating
                                        ELSE [creating EXCEPT ![g] = i]
    BY <1>5 DEF GenerateLook
  <2>4. CASE Occupied(i.slot)
    BY <1>3, <2>1, <2>3, <2>4
  <2>5. CASE ~Occupied(i.slot)
    <3>1. creating'[g] = i /\ \A h \in Generator \ {g} : creating'[h] = creating[h]
      BY <2>3, <2>5
    <3>2. \A t \in Trip : FromGrid(t)' => FromGrid(t) /\ trips'[t].slot # i.slot
      BY <2>1, <2>5 DEF Occupied, FromGrid, Rows
    <3> QED BY <2>1, <2>2, <3>1, <3>2 DEF StillFree
  <2> QED BY <2>4, <2>5
<1>6. ASSUME NEW g \in Generator, GenerateCreate(g) PROVE GeneratedOnce' /\ StillFree'
  <2> DEFINE slot == creating[g].slot
  <2>1. PICK t \in Trip \ Rows :
          trips' = [trips EXCEPT ![t] = Departure(slot, creating[g].of)]
    BY <1>6 DEF GenerateCreate
  <2>2. creating[g] # None /\ creating' = [creating EXCEPT ![g] = None]
    BY <1>6 DEF GenerateCreate
  <2>3. /\ clash \subseteq clash'
        /\ \A h \in Generator \ {g} :
              creating[h] # None /\ creating[h].slot = slot => slot \in clash'
    BY <1>6 DEF GenerateCreate
  <2>4. trips'[t].slot = slot /\ \A u \in Trip \ {t} : trips'[u] = trips[u]
    BY <2>1 DEF Departure
  <2>5. \A u \in Trip \ {t} : FromGrid(u)' => FromGrid(u) /\ trips'[u].slot = trips[u].slot
    BY <2>4 DEF FromGrid, Rows
  <2>6. slot \in clash \/ \A u \in Trip \ {t} : FromGrid(u)' => trips'[u].slot # slot
    BY <2>2, <2>5 DEF StillFree
  <2>7. StillFree'
    <3> SUFFICES ASSUME NEW h \in Generator, creating'[h] # None,
                        creating'[h].slot \notin clash'
                 PROVE  \A u \in Trip : FromGrid(u)' => trips'[u].slot # creating'[h].slot
      BY DEF StillFree
    <3>1. h # g /\ creating'[h] = creating[h] /\ creating[h] # None
      BY <2>2
    <3>2. creating[h].slot # slot /\ creating[h].slot \notin clash
      BY <2>3, <3>1
    <3> QED BY <2>4, <2>5, <3>1, <3>2 DEF StillFree
  <2>8. ASSUME NEW u \in Trip, NEW v \in Trip, FromGrid(u)', FromGrid(v)',
               trips'[u].slot = trips'[v].slot, trips'[u].slot \notin clash'
        PROVE  u = v
    <3>1. CASE u # t /\ v # t
      BY <1>0, <2>3, <2>5, <2>8, <3>1
    <3>2. CASE u = t \/ v = t
      BY <2>3, <2>4, <2>6, <2>8, <3>2
    <3> QED BY <3>1, <3>2
  <2> QED BY <1>1, <2>7, <2>8
<1>7. ASSUME NEW t \in Trip, CreateTrip(t) PROVE GeneratedOnce' /\ StillFree'
  <2>1. PICK slot \in Slot : trips' = [trips EXCEPT ![t] = Departure(slot, None)]
    BY <1>7 DEF CreateTrip
  <2>2. trips'[t].of = None /\ \A u \in Trip \ {t} : trips'[u] = trips[u]
    BY <2>1 DEF Departure
  <2>3. \A u \in Trip : FromGrid(u)' => FromGrid(u) /\ trips'[u].slot = trips[u].slot
    BY <2>2 DEF FromGrid, Rows
  <2>4. UNCHANGED <<creating, clash>>
    BY <1>7 DEF CreateTrip, genVars
  <2> QED BY <1>2, <2>3, <2>4
<1>8. ASSUME NEW t \in Trip, UpdateTripCommit(t) PROVE GeneratedOnce' /\ StillFree'
  <2>1. PICK slot \in Slot :
          trips' = [trips EXCEPT ![t].slot = slot, ![t].moved = TRUE]
    BY <1>8 DEF UpdateTripCommit
  <2>2. trips[t] \in TripRow
    BY <1>8 DEF UpdateTripCommit, Rows
  <2>3. trips'[t].moved /\ \A u \in Trip \ {t} : trips'[u] = trips[u]
    BY <2>1, <2>2 DEF TripRow
  <2>4. \A u \in Trip : FromGrid(u)' => FromGrid(u) /\ trips'[u].slot = trips[u].slot
    BY <2>3 DEF FromGrid, Rows
  <2>5. UNCHANGED <<creating, clash>>
    BY <1>8 DEF UpdateTripCommit, genVars
  <2> QED BY <1>2, <2>4, <2>5
<1>9. ASSUME NEW t \in Trip, CancelTrip(t) PROVE GeneratedOnce' /\ StillFree'
  <2>1. trips' = [trips EXCEPT ![t].status = "CANCELLED"] /\ trips[t] \in TripRow
    BY <1>9 DEF CancelTrip, Rows
  <2>2. /\ trips'[t].slot = trips[t].slot /\ trips'[t].of = trips[t].of
        /\ trips'[t].moved = trips[t].moved /\ trips[t] # None
        /\ \A u \in Trip \ {t} : trips'[u] = trips[u]
    BY <2>1, NoneIsNoRow DEF TripRow
  <2>3. \A u \in Trip : FromGrid(u)' => FromGrid(u) /\ trips'[u].slot = trips[u].slot
    BY <2>2 DEF FromGrid, Rows
  <2>4. UNCHANGED <<creating, clash>>
    BY <1>9 DEF CancelTrip, genVars
  <2> QED BY <1>2, <2>3, <2>4
<1>10. ASSUME \/ \E t \in Trip : UpdateTripCheck(t)
              \/ \E s \in Schedule : UpdateSchedule(s)
              \/ UNCHANGED vars
       PROVE  UNCHANGED <<trips, creating, clash>>
  BY <1>10 DEF UpdateTripCheck, UpdateSchedule, vars, genVars
<1>11. CASE Crash
  BY <1>11 DEF Crash, GeneratedOnce, StillFree, Rows
<1> QED BY <1>3, <1>4, <1>5, <1>6, <1>7, <1>8, <1>9, <1>10, <1>11
        DEF Next, GenerateTrips

-----------------------------------------------------------------------------
\* Timetable, departures and the work of each generation have their types.
THEOREM TypeCorrect == Spec => []TypeOK
<1>1. Init => TypeOK
  BY InitHolds DEF IInv
<1> QED BY <1>1, TypeStep, PTL DEF Spec

\* However many generations, changes of the timetable, moves, cancellations and
\* restarts there are, no slot a generation has dealt with is left empty.
THEOREM NoHoleInGrid == Spec => []GridCovered
<1>1. Init => IInv
  BY InitHolds
<1>2. IInv /\ [Next]_vars => IInv'
  BY TypeStep, CoveredStep DEF IInv
<1>3. IInv => GridCovered
  BY DEF IInv
<1> QED BY <1>1, <1>2, <1>3, PTL DEF Spec

\* generateTrips is idempotent as its comment says, however many generations run at
\* once, over any dates and after any restart: only a slot that two of them found
\* free together is filled twice.
THEOREM GenerationIsIdempotent == Spec => []GeneratedOnce
<1> DEFINE Inv == TypeOK /\ GeneratedOnce /\ StillFree
<1>1. Init => Inv
  <2>1. Init => GeneratedOnce /\ StillFree
    BY DEF Init, GeneratedOnce, StillFree, Rows
  <2> QED BY <2>1, InitHolds DEF IInv
<1>2. Inv /\ [Next]_vars => Inv'
  BY TypeStep, OnceStep
<1>3. Inv => GeneratedOnce
  OBVIOUS
<1> QED BY <1>1, <1>2, <1>3, PTL DEF Spec
=============================================================================
