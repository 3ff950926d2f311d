----------------------------- MODULE Departures -----------------------------
(***************************************************************************)
(* CatalogService: the timetable of a route and its departures, generated  *)
(* from the timetable, added by hand, moved or cancelled.  Every action is *)
(* the code between two awaits.                                            *)
(*                                                                         *)
(* A slot is a day and a time of day.  Price, bus and boarding point are   *)
(* left out, and so are departures that have left: modules SeatHold and    *)
(* Boarding.                                                               *)
(***************************************************************************)
EXTENDS Integers, FiniteSets

CONSTANTS
  Schedule,    \* rows of the timetable
  Trip,        \* departures that can exist: bound on creations
  Day,         \* days since 1970-01-01 that a generation may cover
  Time,        \* times of day
  Generator,   \* concurrent calls of generateTrips for the route
  None,        \* no departure, no slot to fill, no schedule
  Timetables,  \* the timetables the route may start from
  MaxEdits,    \* bound on changes to the timetable and on moved departures
  MaxFaults    \* bound on restarts

ASSUME DaysAreNumbers == Day \subseteq Nat
ASSUME NoneIsFresh == None \notin Schedule
ASSUME BoundsAreNat == MaxEdits \in Nat /\ MaxFaults \in Nat

VARIABLES
  timetable,  \* Schedule.departureTime, daysOfWeek, isActive
  trips,      \* the departures, None where there is no row
  todo,       \* what each generation has still to look at
  creating,   \* the slot it has found free and not yet filled
  planned,    \* history: the slots it set out to fill
  moving,     \* departures whose updateTrip has passed its check
  vacated,    \* history: slots that updateTrip has taken a departure from
  clash,      \* history: slots filled while another generation was about to
  edits, faults

genVars == <<todo, creating, planned>>
vars == <<timetable, trips, genVars, moving, vacated, clash, edits, faults>>

\* ((getUTCDay() + 6) % 7) + 1, day 0 being a Thursday.
IsoDow(d) == (((((d + 4) % 7) + 6) % 7) + 1)

Slot == [day : Day, time : Time]
Line == [time : Time, days : SUBSET {IsoDow(d) : d \in Day}, active : BOOLEAN]

ASSUME TimetablesAreTyped == Timetables \subseteq [Schedule -> Line]

Item == [slot : Slot, of : Schedule]
TripRow == [slot : Slot, of : Schedule \cup {None},
            status : {"SCHEDULED", "CANCELLED"}, moved : BOOLEAN]

ASSUME NoneIsNoRow == None \notin Item \cup TripRow

\* Mutant: a new departure is boarding at once.
DepartureBoarding(slot, of) ==
  [slot |-> slot, of |-> of, status |-> "BOARDING", moved |-> FALSE]

Departure(slot, of) ==
  [slot |-> slot, of |-> of, status |-> "SCHEDULED", moved |-> FALSE]

\* updateSchedule does not ask for a day: an empty daysOfWeek is possible.
Init ==
  /\ timetable \in Timetables
  /\ trips = [t \in Trip |-> None]
  /\ todo = [g \in Generator |-> {}]
  /\ creating = [g \in Generator |-> None]
  /\ planned = [g \in Generator |-> {}]
  /\ moving = {}
  /\ vacated = {} /\ clash = {}
  /\ edits = 0
  /\ faults = 0

Rows == {t \in Trip : trips[t] # None}

-----------------------------------------------------------------------------
(* generateTrips *)

\* Mutants: a cancelled departure leaves its slot free; the date is not compared.
OccupiedOnSale(slot) ==
  \E t \in Rows : trips[t].slot = slot /\ trips[t].status = "SCHEDULED"
OccupiedAnyDay(slot) == \E t \in Rows : trips[t].slot.time = slot.time

\* The route has a departure at that date and time, whatever its status.
Occupied(slot) == \E t \in Rows : trips[t].slot = slot

Running(g) == todo[g] # {} \/ creating[g] # None

\* The timetable is read once; the dates of the range are walked in order.
GenerateRead(g) ==
  /\ ~Running(g)
  /\ \E s \in Schedule : timetable[s].active
  /\ \E from, to \in Day :
       LET plan == {i \in Item : /\ i.slot.day \in from..to
                                 /\ timetable[i.of].active
                                 /\ IsoDow(i.slot.day) \in timetable[i.of].days
                                 /\ timetable[i.of].time = i.slot.time}
       IN  /\ from <= to
           /\ todo' = [todo EXCEPT ![g] = plan]
           /\ planned' = [planned EXCEPT ![g] = {i.slot : i \in plan}]
  /\ UNCHANGED <<timetable, trips, creating, moving, vacated, clash, edits, faults>>

GenerateLook(g) ==
  /\ creating[g] = None
  /\ \E i \in todo[g] :
       /\ \A j \in todo[g] : i.slot.day <= j.slot.day
       /\ todo' = [todo EXCEPT ![g] = @ \ {i}]
       /\ creating' = IF Occupied(i.slot) THEN creating
                      ELSE [creating EXCEPT ![g] = i]
  /\ UNCHANGED <<timetable, trips, planned, moving, vacated, clash, edits, faults>>

GenerateCreate(g) ==
  /\ creating[g] # None
  /\ \E t \in Trip \ Rows :
       trips' = [trips EXCEPT ![t] = Departure(creating[g].slot, creating[g].of)]
  /\ creating' = [creating EXCEPT ![g] = None]
  /\ clash' = clash \cup {creating[g].slot : h \in {h \in Generator \ {g} :
                              /\ creating[h] # None
                              /\ creating[h].slot = creating[g].slot}}
  /\ UNCHANGED <<timetable, todo, planned, moving, vacated, edits, faults>>

-----------------------------------------------------------------------------
(* createTrip, updateTrip, cancelTrip *)

\* A departure outside the timetable is not compared with the others.
CreateTrip(t) ==
  /\ t \notin Rows
  /\ \E slot \in Slot : trips' = [trips EXCEPT ![t] = Departure(slot, None)]
  /\ UNCHANGED <<timetable, genVars, moving, vacated, clash, edits, faults>>

UpdateTripCheck(t) ==
  /\ t \in Rows /\ trips[t].status = "SCHEDULED"
  /\ moving' = moving \cup {t}
  /\ UNCHANGED <<timetable, trips, genVars, vacated, clash, edits, faults>>

\* By id alone.
UpdateTripCommit(t) ==
  /\ t \in moving
  /\ edits < MaxEdits
  /\ edits' = edits + 1
  /\ moving' = moving \ {t}
  /\ \E slot \in Slot \ {trips[t].slot} :
       trips' = [trips EXCEPT ![t].slot = slot, ![t].moved = TRUE]
  /\ vacated' = vacated \cup {trips[t].slot}
  /\ UNCHANGED <<timetable, genVars, clash, faults>>

\* Its check refuses departures that have left; there are none here.
CancelTrip(t) ==
  /\ t \in Rows
  /\ trips' = [trips EXCEPT ![t].status = "CANCELLED"]
  /\ UNCHANGED <<timetable, genVars, moving, vacated, clash, edits, faults>>

\* createSchedule (an inactive row stands for a missing one), updateSchedule.
UpdateSchedule(s) ==
  /\ edits < MaxEdits
  /\ edits' = edits + 1
  /\ \E line \in Line : timetable' = [timetable EXCEPT ![s] = line]
  /\ UNCHANGED <<trips, genVars, moving, vacated, clash, faults>>

\* A restart, or the failure of a query: the rows created so far stay.
Crash ==
  /\ moving # {} \/ \E g \in Generator : Running(g)
  /\ faults < MaxFaults
  /\ faults' = faults + 1
  /\ todo' = [g \in Generator |-> {}]
  /\ creating' = [g \in Generator |-> None]
  /\ planned' = [g \in Generator |-> {}]
  /\ moving' = {}
  /\ UNCHANGED <<timetable, trips, vacated, clash, edits>>

-----------------------------------------------------------------------------
GenerateTrips(g) == GenerateRead(g) \/ GenerateLook(g) \/ GenerateCreate(g)

Next ==
  \/ \E g \in Generator : GenerateTrips(g)
  \/ \E t \in Trip :
       \/ CreateTrip(t) \/ CancelTrip(t)
       \/ UpdateTripCheck(t) \/ UpdateTripCommit(t)
  \/ \E s \in Schedule : UpdateSchedule(s)
  \/ Crash

Spec == Init /\ [][Next]_vars

-----------------------------------------------------------------------------
(* Properties *)

\* Every variable keeps the shape the code gives it; a generation works on items
\* of its plan, and only departures that exist are moved.
TypeOK ==
  /\ timetable \in [Schedule -> Line]
  /\ trips \in [Trip -> TripRow \cup {None}]
  /\ todo \in [Generator -> SUBSET Item]
  /\ creating \in [Generator -> Item \cup {None}]
  /\ planned \in [Generator -> SUBSET Slot]
  /\ \A g \in Generator :
       /\ \A i \in todo[g] : i.slot \in planned[g]
       /\ creating[g] # None => creating[g].slot \in planned[g]
  /\ moving \subseteq Rows
  /\ vacated \subseteq Slot /\ clash \subseteq Slot
  /\ edits \in 0..MaxEdits /\ faults \in 0..MaxFaults

\* "Idempotent : n'écrase pas un départ déjà existant (même ligne, même
\* date-heure)" (catalog.service.ts:252): whatever the generations, over whatever
\* dates, after a failure or a change of the timetable and from two schedules at
\* the same time, a slot is filled once, and a cancelled departure is not offered
\* again.  Excepted are the departures somebody has moved, and the slots that one
\* generation filled while another had found them free.
GeneratedOnce ==
  \A t, u \in Rows :
    /\ trips[t].slot = trips[u].slot
    /\ trips[t].of # None /\ trips[u].of # None
    /\ ~trips[t].moved /\ ~trips[u].moved
    => t = u \/ trips[t].slot \in clash

\* A generation leaves no hole: what it has dealt with has a departure, unless
\* somebody moved one away.
GridCovered ==
  \A g \in Generator : \A slot \in planned[g] :
    \/ \E i \in todo[g] : i.slot = slot
    \/ creating[g] # None /\ creating[g].slot = slot
    \/ \E t \in Rows : trips[t].slot = slot
    \/ slot \in vacated

=============================================================================
