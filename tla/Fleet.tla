------------------------------- MODULE Fleet -------------------------------
(***************************************************************************)
(* CatalogService.assertQuota and the calls it guards: the buses and       *)
(* routes of one agency, created, activated and deactivated under the      *)
(* limits of its plan, while the plan changes.  Every action is the code   *)
(* between two awaits.                                                     *)
(*                                                                         *)
(* A row is named by what makes it unique: a bus by its plate, a route by  *)
(* its two cities.  Checks that refuse without effect (another agency's    *)
(* row, an unknown seat plan, equal cities) are left out.                  *)
(***************************************************************************)
EXTENDS Naturals, FiniteSets

CONSTANTS
  Bus, Route,
  Caller,      \* concurrent calls of the agency's users
  Limits,      \* values of SubscriptionPlan.maxBuses and maxRoutes
  NoLimit,     \* null, or no subscription in TRIAL, ACTIVE or GRACE
  MaxChanges,  \* bound on changes of the plan in force
  MaxFaults    \* bound on restarts and failed calls

ASSUME KindsAreDisjoint == Bus \cap Route = {}
ASSUME LimitsAreNat == Limits \subseteq Nat
ASSUME NoLimitIsFresh == NoLimit \notin Nat
ASSUME BoundsAreNat == MaxChanges \in Nat /\ MaxFaults \in Nat
ASSUME AgencyIsFinite == IsFiniteSet(Bus \cup Route) /\ IsFiniteSet(Caller)

VARIABLES
  rows,     \* isActive of the buses and routes, "NONE" where there is no row
  limit,    \* the limit of the plan in force, for each kind
  call,     \* each call's row and what it asks, <<>> when there is none
  at,       \* its next query
  allowed,  \* the limit assertQuota has read for it
  met,      \* history: every limit in force so far
  crowd,    \* history: the most calls that were about to activate at once
  changes, faults

callVars == <<call, at, allowed>>
vars == <<rows, limit, callVars, met, crowd, changes, faults>>

Item == Bus \cup Route
Kind == {"bus", "route"}
KindOf(i) == IF i \in Bus THEN "bus" ELSE "route"
Ask == {"create", "activate", "deactivate"}

RowOf(c) == call[c][1]
Asks(c)  == call[c][2]

ActiveOf(k) == {i \in Item : KindOf(i) = k /\ rows[i] = "ACTIVE"}

Init ==
  /\ rows = [i \in Item |-> "NONE"]
  /\ limit \in [Kind -> Limits \cup {NoLimit}]
  /\ call = [c \in Caller |-> <<>>]
  /\ at = [c \in Caller |-> "plan"]
  /\ allowed = [c \in Caller |-> NoLimit]
  /\ met = [k \in Kind |-> {limit[k]}]
  /\ crowd = [k \in Kind |-> 0]
  /\ changes = 0
  /\ faults = 0

-----------------------------------------------------------------------------
(* The calls *)

\* Calls that will activate a row of kind k whatever happens in between.
AboutToActivate(k) ==
  {c \in Caller : /\ call[c] # <<>> /\ at[c] = "write"
                  /\ Asks(c) # "deactivate" /\ KindOf(RowOf(c)) = k}

\* The calls and the next query of each; crowd follows.
Moves(calls, queries) ==
  /\ call' = calls
  /\ at' = queries
  /\ crowd' = [k \in Kind |->
                 LET now == Cardinality(AboutToActivate(k)')
                 IN  IF now > crowd[k] THEN now ELSE crowd[k]]

Starts(c, i, ask, query) ==
  /\ call[c] = <<>>
  /\ Moves([call EXCEPT ![c] = <<i, ask>>], [at EXCEPT ![c] = query])
  /\ UNCHANGED <<rows, limit, allowed, met, changes, faults>>

\* createBus, createRoute: nothing is read of the row.
Create(c) == \E i \in Item : Starts(c, i, "create", "plan")

\* Mutant: updateBus never asks for the quota.
NeedsQuotaRoute(i) == i \in Route

\* updateBus asks for the quota unless the bus is active, updateRoute always.
NeedsQuota(i) == i \in Route \/ rows[i] # "ACTIVE"

\* updateBus, updateRoute with isActive: the row is read first.
Update(c) ==
  \E i \in Item :
    /\ rows[i] # "NONE"
    /\ \/ Starts(c, i, "deactivate", "write")
       \/ Starts(c, i, "activate", IF NeedsQuota(i) THEN "plan" ELSE "write")

Reaches(c, query) == call[c] # <<>> /\ at[c] = query
Proceeds(c, query) == Moves(call, [at EXCEPT ![c] = query])

Ends(c) ==
  /\ Moves([call EXCEPT ![c] = <<>>], [at EXCEPT ![c] = "plan"])
  /\ allowed' = [allowed EXCEPT ![c] = NoLimit]

\* Mutant: buses are counted under the limit of the routes.
LimitOfRoutes(k) == limit["route"]

LimitOf(k) == limit[k]

\* assertQuota: the plan in force, that of the latest subscription served.
ReadPlan(c) ==
  /\ Reaches(c, "plan")
  /\ LET read == LimitOf(KindOf(RowOf(c)))
     IN  /\ allowed' = [allowed EXCEPT ![c] = read]
         /\ Proceeds(c, IF read = NoLimit THEN "write" ELSE "count")
  /\ UNCHANGED <<rows, limit, met, changes, faults>>

Full(k, most) == Cardinality(ActiveOf(k)) >= most

\* assertQuota: what is active is counted; "Palier atteint" ends the call.
Count(c) ==
  /\ Reaches(c, "count")
  /\ \/ Full(KindOf(RowOf(c)), allowed[c]) /\ Ends(c)
     \/ /\ ~Full(KindOf(RowOf(c)), allowed[c])
        /\ Proceeds(c, "write")
        /\ UNCHANGED allowed
  /\ UNCHANGED <<rows, limit, met, changes, faults>>

\* The unique index refuses to create a row that exists (P2002); the updates
\* are by id, whatever the row has become.
Written(row, ask) ==
  CASE ask = "create" /\ row # "NONE" -> row
    [] ask = "deactivate" -> "INACTIVE"
    [] OTHER -> "ACTIVE"

Write(c) ==
  /\ Reaches(c, "write")
  /\ rows' = [rows EXCEPT ![RowOf(c)] = Written(@, Asks(c))]
  /\ Ends(c)
  /\ UNCHANGED <<limit, met, changes, faults>>

-----------------------------------------------------------------------------
(* The plan and the process *)

\* upsertPlan, or another subscription of the agency is now the latest served.
ChangePlan ==
  /\ changes < MaxChanges
  /\ changes' = changes + 1
  /\ limit' \in [Kind -> Limits \cup {NoLimit}]
  /\ met' = [k \in Kind |-> met[k] \cup {limit'[k]}]
  /\ UNCHANGED <<rows, callVars, crowd, faults>>

\* A restart, or a call that fails.
Crash ==
  /\ faults < MaxFaults
  /\ faults' = faults + 1
  /\ \E C \in SUBSET Caller :
       /\ \E c \in C : call[c] # <<>>
       /\ Moves([c \in Caller |-> IF c \in C THEN <<>> ELSE call[c]],
                [c \in Caller |-> IF c \in C THEN "plan" ELSE at[c]])
       /\ allowed' = [c \in Caller |-> IF c \in C THEN NoLimit ELSE allowed[c]]
  /\ UNCHANGED <<rows, limit, met, changes>>

-----------------------------------------------------------------------------
Handle(c) == Create(c) \/ Update(c) \/ ReadPlan(c) \/ Count(c) \/ Write(c)

Next == (\E c \in Caller : Handle(c)) \/ ChangePlan \/ Crash

Spec == Init /\ [][Next]_vars

-----------------------------------------------------------------------------
(* Properties *)

\* A call that waits for its count has read a limit, and one the plan had; the
\* row an update is about exists until the call ends.
TypeOK ==
  /\ rows \in [Item -> {"NONE", "ACTIVE", "INACTIVE"}]
  /\ limit \in [Kind -> Limits \cup {NoLimit}]
  /\ call \in [Caller -> {<<>>} \cup (Item \X Ask)]
  /\ at \in [Caller -> {"plan", "count", "write"}]
  /\ allowed \in [Caller -> Limits \cup {NoLimit}]
  /\ \A c \in Caller :
       /\ Reaches(c, "count") => allowed[c] \in met[KindOf(RowOf(c))] \ {NoLimit}
       /\ call[c] # <<>> /\ Asks(c) # "create" => rows[RowOf(c)] # "NONE"
  /\ met \in [Kind -> SUBSET (Limits \cup {NoLimit})]
  /\ \A k \in Kind : limit[k] \in met[k]
  /\ crowd \in [Kind -> Nat]
  /\ changes \in 0..MaxChanges /\ faults \in 0..MaxFaults

\* "Vérifie les paliers du plan (maxBuses / maxRoutes) avant création"
\* (catalog.service.ts:32): counting and creating are two queries, so calls that
\* overlap can all be counted under the limit.  What this costs is bounded: the
\* agency has no more active rows than the largest limit it had, plus one for
\* each call but one that was between its count and its write at the same time.
\* With calls that never overlap the limit is exact, stale reads of isActive and
\* repeated creations included.
QuotaKept ==
  \A k \in Kind :
    \/ NoLimit \in met[k]
    \/ \E most \in met[k] :
         \/ Cardinality(ActiveOf(k)) <= most
         \/ Cardinality(ActiveOf(k)) < most + crowd[k]

=============================================================================
