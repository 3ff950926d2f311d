---------------------------- MODULE FleetProofs ----------------------------
(***************************************************************************)
(* Theorems about Fleet for any fleet, number of calls, limits and changes *)
(* of plan.  QuotaKept is not inductive: a call between its count and its  *)
(* write has already used a place.  Loaded counts these places with the    *)
(* active rows, as a set: two calls may be about the same row.             *)
(***************************************************************************)
EXTENDS Fleet, FiniteSetTheorems, TLAPS

Coming(k) == {i \in Item : \E c \in AboutToActivate(k) : RowOf(c) = i}
Loaded(k) == ActiveOf(k) \cup Coming(k)

Bounded(k) ==
  \/ NoLimit \in met[k]
  \/ \E most \in met[k] :
       \/ Cardinality(Loaded(k)) <= most
       \/ Cardinality(Loaded(k)) < most + crowd[k]

IInv == TypeOK /\ \A k \in Kind : Bounded(k)

\* The sets counted are finite.
LEMMA Finite ==
  ASSUME NEW k
  PROVE  /\ IsFiniteSet(ActiveOf(k)) /\ Cardinality(ActiveOf(k)) \in Nat
         /\ IsFiniteSet(Loaded(k)) /\ Cardinality(Loaded(k)) \in Nat
         /\ IsFiniteSet(Coming(k)) /\ Cardinality(Coming(k)) \in Nat
         /\ IsFiniteSet(AboutToActivate(k))
         /\ Cardinality(AboutToActivate(k)) \in Nat
<1>1. /\ ActiveOf(k) \in SUBSET Item /\ Loaded(k) \in SUBSET Item
      /\ Coming(k) \in SUBSET Item /\ AboutToActivate(k) \in SUBSET Caller
  BY DEF ActiveOf, Loaded, Coming, AboutToActivate
<1>2. IsFiniteSet(Item) /\ IsFiniteSet(Caller)
  BY AgencyIsFinite DEF Item
<1>3. /\ IsFiniteSet(ActiveOf(k)) /\ IsFiniteSet(Loaded(k))
      /\ IsFiniteSet(Coming(k)) /\ IsFiniteSet(AboutToActivate(k))
  BY <1>1, <1>2, FS_Subset
<1> QED BY <1>3, FS_CardinalityType

\* Calls are about no more rows than they are.
LEMMA RowsOfCalls ==
  ASSUME NEW C, IsFiniteSet(C), NEW f \in [C -> Item],
         NEW R, R = {i \in Item : \E c \in C : f[c] = i}
  PROVE  IsFiniteSet(R) /\ Cardinality(R) <= Cardinality(C)
<1>1. f \in Surjection(C, R)
  BY DEF Surjection
<1> QED BY <1>1, FS_Surjection

\* What a move of the calls does to crowd.
LEMMA CrowdGrows ==
  ASSUME TypeOK, NEW calls, NEW queries, Moves(calls, queries), NEW k \in Kind
  PROVE  /\ crowd' \in [Kind -> Nat]
         /\ crowd[k] <= crowd'[k]
         /\ Cardinality(AboutToActivate(k)') <= crowd'[k]
<1>1. \A m \in Kind : Cardinality(AboutToActivate(m)') \in Nat
  <2> TAKE m \in Kind
  <2>1. AboutToActivate(m)' \in SUBSET Caller
    BY DEF AboutToActivate
  <2>2. IsFiniteSet(AboutToActivate(m)')
    BY <2>1, AgencyIsFinite, FS_Subset
  <2> QED BY <2>2, FS_CardinalityType
<1>2. crowd \in [Kind -> Nat]
  BY DEF TypeOK
<1> QED BY <1>1, <1>2 DEF Moves

\* A step that loads kind k with nothing new keeps its bound.
LEMMA LoadShrinks ==
  ASSUME IInv, TypeOK', NEW k \in Kind, Loaded(k)' \subseteq Loaded(k),
         crowd[k] <= crowd'[k], met[k] \subseteq met'[k]
  PROVE  Bounded(k)'
<1>1. /\ Cardinality(Loaded(k)') <= Cardinality(Loaded(k))
      /\ Cardinality(Loaded(k)') \in Nat /\ Cardinality(Loaded(k)) \in Nat
  BY Finite, FS_Subset, FS_CardinalityType
<1>2. Bounded(k) /\ crowd[k] \in Nat /\ crowd'[k] \in Nat
  BY DEF IInv, TypeOK
<1>3. CASE NoLimit \in met[k]
  BY <1>3 DEF Bounded
<1>4. CASE NoLimit \notin met[k]
  <2>1. PICK most \in met[k] :
          \/ Cardinality(Loaded(k)) <= most
          \/ Cardinality(Loaded(k)) < most + crowd[k]
    BY <1>2, <1>4 DEF Bounded
  <2>2. most \in Nat
    BY <1>4, LimitsAreNat DEF IInv, TypeOK
  <2>3. \/ Cardinality(Loaded(k)') <= most
        \/ Cardinality(Loaded(k)') < most + crowd'[k]
    BY <1>1, <1>2, <2>1, <2>2
  <2> QED BY <2>1, <2>3 DEF Bounded
<1> QED BY <1>3, <1>4

LEMMA InitHolds == Init => IInv
<1> SUFFICES ASSUME Init PROVE IInv
  OBVIOUS
<1>1. TypeOK
  BY BoundsAreNat DEF Init, TypeOK, Reaches
<1>2. ASSUME NEW k \in Kind PROVE Bounded(k)
  <2>1. ActiveOf(k) = {} /\ AboutToActivate(k) = {}
    BY DEF Init, ActiveOf, AboutToActivate
  <2>2. Loaded(k) = {}
    BY <2>1 DEF Loaded, Coming
  <2>3. Cardinality(Loaded(k)) = 0
    BY <2>2, FS_EmptySet
  <2>4. met[k] = {limit[k]} /\ limit[k] \in Limits \cup {NoLimit}
    BY DEF Init
  <2>5. CASE limit[k] = NoLimit
    BY <2>4, <2>5 DEF Bounded
  <2>6. CASE limit[k] \in Limits
    <3>1. limit[k] \in met[k]
      BY <2>4
    <3>2. limit[k] \in Nat
      BY <2>6, LimitsAreNat
    <3>3. Cardinality(Loaded(k)) <= limit[k]
      BY <2>3, <3>2
    <3> QED BY <3>1, <3>3 DEF Bounded
  <2> QED BY <2>4, <2>5, <2>6
<1> QED BY <1>1, <1>2 DEF IInv

\* A call that starts: an update that needs no quota is about an active bus.
LEMMA StartStep ==
  ASSUME IInv, NEW c \in Caller, Create(c) \/ Update(c)
  PROVE  IInv'
<1>1. PICK i \in Item, ask \in Ask, query \in {"plan", "write"} :
        /\ Starts(c, i, ask, query)
        /\ ask # "create" => rows[i] # "NONE"
        /\ query = "write" /\ ask # "deactivate" => rows[i] = "ACTIVE"
  <2>1. CASE Create(c)
    BY <2>1 DEF Create, Ask
  <2>2. CASE Update(c)
    BY <2>2 DEF Update, NeedsQuota, Ask
  <2> QED BY <2>1, <2>2
<1> DEFINE calls == [call EXCEPT ![c] = <<i, ask>>]
           queries == [at EXCEPT ![c] = query]
<1>2. /\ Moves(calls, queries) /\ call[c] = <<>>
      /\ UNCHANGED <<rows, limit, allowed, met, changes, faults>>
  BY <1>1 DEF Starts
<1>3. TypeOK /\ call' = calls /\ at' = queries
  BY <1>2 DEF IInv, Moves
<1>4. call'[c] = <<i, ask>> /\ at'[c] = query
      /\ \A d \in Caller \ {c} : call'[d] = call[d] /\ at'[d] = at[d]
  BY <1>3 DEF TypeOK
<1>5. RowOf(c)' = i /\ Asks(c)' = ask
  BY <1>4 DEF RowOf, Asks
<1>6. TypeOK'
  <2>1. \A k \in Kind : crowd' \in [Kind -> Nat]
    BY <1>2, <1>3, CrowdGrows
  <2>2. crowd' \in [Kind -> Nat]
    BY <2>1 DEF Kind
  <2>3. call' \in [Caller -> {<<>>} \cup (Item \X Ask)]
    BY <1>3 DEF TypeOK
  <2>4. \A d \in Caller :
          /\ Reaches(d, "count")' => allowed'[d] \in met'[KindOf(RowOf(d))'] \ {NoLimit}
          /\ call'[d] # <<>> /\ Asks(d)' # "create" => rows'[RowOf(d)'] # "NONE"
    BY <1>1, <1>2, <1>3, <1>4, <1>5 DEF TypeOK, Reaches, RowOf, Asks, KindOf
  <2> QED BY <1>2, <1>3, <2>2, <2>3, <2>4 DEF TypeOK, KindOf
<1>7. ASSUME NEW k \in Kind PROVE Bounded(k)'
  <2>1. ActiveOf(k)' = ActiveOf(k)
    BY <1>2 DEF ActiveOf
  <2>2. AboutToActivate(k)' \subseteq AboutToActivate(k) \cup {c}
    BY <1>4 DEF AboutToActivate, RowOf, Asks
  <2>3. c \in AboutToActivate(k)' => i \in ActiveOf(k)
    BY <1>1, <1>4, <1>5 DEF AboutToActivate, ActiveOf
  <2>4. \A d \in Caller \ {c} : RowOf(d)' = RowOf(d)
    BY <1>4 DEF RowOf
  <2>5. Loaded(k)' \subseteq Loaded(k)
    <3>1. Coming(k)' \subseteq Coming(k) \cup ActiveOf(k)
      BY <1>5, <2>2, <2>3, <2>4 DEF Coming, AboutToActivate
    <3> QED BY <2>1, <3>1 DEF Loaded
  <2>6. crowd[k] <= crowd'[k]
    BY <1>2, <1>3, CrowdGrows
  <2> QED BY <1>2, <1>6, <2>5, <2>6, LoadShrinks
<1> QED BY <1>6, <1>7 DEF IInv

\* The calls of a kind that a step leaves alone, or ends.
LEMMA EndStep ==
  ASSUME IInv, NEW c \in Caller, call[c] # <<>>, Ends(c),
         UNCHANGED <<limit, met, changes, faults>>,
         \/ UNCHANGED rows
         \/ /\ at[c] = "write"
            /\ rows' = [rows EXCEPT ![RowOf(c)] = Written(@, Asks(c))]
  PROVE  IInv'
<1>1. TypeOK /\ RowOf(c) \in Item /\ Asks(c) \in Ask
  BY DEF IInv, TypeOK, RowOf, Asks
<1>2. /\ call' = [call EXCEPT ![c] = <<>>] /\ at' = [at EXCEPT ![c] = "plan"]
      /\ allowed' = [allowed EXCEPT ![c] = NoLimit]
      /\ \E calls, queries : Moves(calls, queries)
  BY DEF Ends, Moves
<1>3. call'[c] = <<>>
      /\ \A d \in Caller \ {c} :
           call'[d] = call[d] /\ at'[d] = at[d] /\ allowed'[d] = allowed[d]
  BY <1>1, <1>2 DEF TypeOK
<1>4. rows' \in [Item -> {"NONE", "ACTIVE", "INACTIVE"}]
      /\ \A i \in Item : rows[i] # "NONE" => rows'[i] # "NONE"
  BY <1>1 DEF TypeOK, Written
<1>5. TypeOK'
  <2>1. crowd' \in [Kind -> Nat]
    BY <1>1, <1>2, CrowdGrows DEF Kind
  <2>2. call' \in [Caller -> {<<>>} \cup (Item \X Ask)]
    BY <1>1, <1>2 DEF TypeOK
  <2>3. \A d \in Caller :
          /\ Reaches(d, "count")' => allowed'[d] \in met'[KindOf(RowOf(d))'] \ {NoLimit}
          /\ call'[d] # <<>> /\ Asks(d)' # "create" => rows'[RowOf(d)'] # "NONE"
    BY <1>1, <1>3, <1>4 DEF TypeOK, Reaches, RowOf, Asks, KindOf
  <2> QED BY <1>1, <1>2, <1>4, <2>1, <2>2, <2>3 DEF TypeOK, KindOf
<1>6. ASSUME NEW k \in Kind PROVE Bounded(k)'
  <2>1. AboutToActivate(k)' \subseteq AboutToActivate(k) \ {c}
    BY <1>3 DEF AboutToActivate, RowOf, Asks
  <2>2. \A d \in Caller \ {c} : RowOf(d)' = RowOf(d)
    BY <1>3 DEF RowOf
  <2>3. Coming(k)' \subseteq Coming(k)
    BY <2>1, <2>2 DEF Coming, AboutToActivate
  <2>4. ASSUME NEW i \in ActiveOf(k)', i \notin ActiveOf(k)
        PROVE  i \in Coming(k)
    <3>1. at[c] = "write" /\ i = RowOf(c) /\ rows'[i] = "ACTIVE" /\ KindOf(i) = k
      BY <1>1, <2>4 DEF ActiveOf, TypeOK
    <3>2. rows'[i] = Written(rows[i], Asks(c)) /\ rows[i] # "ACTIVE"
      BY <1>1, <2>4, <3>1 DEF ActiveOf, TypeOK
    <3>3. Asks(c) # "deactivate"
      BY <3>1, <3>2 DEF Written
    <3> QED BY <1>1, <3>1, <3>3 DEF Coming, AboutToActivate
  <2>5. Loaded(k)' \subseteq Loaded(k)
    BY <2>3, <2>4 DEF Loaded
  <2>6. crowd[k] <= crowd'[k]
    BY <1>1, <1>2, CrowdGrows
  <2> QED BY <1>5, <2>5, <2>6, LoadShrinks
<1> QED BY <1>5, <1>6 DEF IInv

\* A call that has found no limit, or a place: the place is loaded from now on.
LEMMA PassStep ==
  ASSUME IInv, NEW c \in Caller, call[c] # <<>>, at[c] \in {"plan", "count"},
         NEW query \in {"count", "write"}, Proceeds(c, query),
         allowed' \in [Caller -> Limits \cup {NoLimit}],
         \A d \in Caller \ {c} : allowed'[d] = allowed[d],
         UNCHANGED <<rows, limit, met, changes, faults>>,
         query = "count" => allowed'[c] \in met[KindOf(RowOf(c))] \ {NoLimit},
         query = "write" =>
           \/ NoLimit \in met[KindOf(RowOf(c))]
           \/ \E most \in met[KindOf(RowOf(c))] \ {NoLimit} :
                ~Full(KindOf(RowOf(c)), most)
  PROVE  IInv'
<1>1. TypeOK /\ RowOf(c) \in Item /\ Asks(c) \in Ask /\ KindOf(RowOf(c)) \in Kind
  BY DEF IInv, TypeOK, RowOf, Asks, KindOf, Kind
<1>2. /\ call' = call /\ at' = [at EXCEPT ![c] = query]
      /\ \E calls, queries : Moves(calls, queries)
  BY DEF Proceeds, Moves
<1>3. at'[c] = query /\ \A d \in Caller \ {c} : at'[d] = at[d]
  BY <1>1, <1>2 DEF TypeOK
<1>4. \A d \in Caller : RowOf(d)' = RowOf(d) /\ Asks(d)' = Asks(d)
  BY <1>2 DEF RowOf, Asks
<1>5. TypeOK'
  <2>1. crowd' \in [Kind -> Nat]
    BY <1>1, <1>2, CrowdGrows DEF Kind
  <2>2. \A d \in Caller :
          /\ Reaches(d, "count")' => allowed'[d] \in met'[KindOf(RowOf(d))'] \ {NoLimit}
          /\ call'[d] # <<>> /\ Asks(d)' # "create" => rows'[RowOf(d)'] # "NONE"
    BY <1>1, <1>2, <1>3, <1>4 DEF TypeOK, Reaches, KindOf
  <2> QED BY <1>1, <1>2, <2>1, <2>2 DEF TypeOK, KindOf
<1>6. ASSUME NEW k \in Kind PROVE Bounded(k)'
  <2>1. ActiveOf(k)' = ActiveOf(k) /\ met' = met
    BY DEF ActiveOf
  <2>2. crowd[k] <= crowd'[k] /\ Cardinality(AboutToActivate(k)') <= crowd'[k]
        /\ crowd'[k] \in Nat
    BY <1>1, <1>2, CrowdGrows
  <2>3. CASE query = "write" /\ KindOf(RowOf(c)) = k /\ NoLimit \notin met[k]
    <3>1. PICK most \in met[k] : most # NoLimit /\ ~Full(k, most)
      BY <2>3
    <3>2. most \in Nat
      BY <1>1, <3>1, LimitsAreNat DEF TypeOK
    <3>3. Cardinality(ActiveOf(k)) < most
      BY <3>1, <3>2, Finite DEF Full
    <3>4. IsFiniteSet(Coming(k)') /\ Cardinality(Coming(k)') <= crowd'[k]
      <4> DEFINE C == AboutToActivate(k)'
                 f == [d \in C |-> RowOf(d)]
      <4>1. C \in SUBSET Caller /\ f \in [C -> Item]
        BY <1>1, <1>2 DEF AboutToActivate, RowOf, TypeOK
      <4>2. Coming(k)' = {i \in Item : \E d \in C : f[d] = i}
        BY <1>4, <4>1 DEF Coming
      <4>3. IsFiniteSet(C) /\ Cardinality(C) \in Nat
        BY <4>1, AgencyIsFinite, FS_Subset, FS_CardinalityType
      <4>4. IsFiniteSet(Coming(k)') /\ Cardinality(Coming(k)') <= Cardinality(C)
        <5> HIDE DEF C, f
        <5> QED BY <4>1, <4>2, <4>3, RowsOfCalls
      <4> QED BY <2>2, <4>3, <4>4, FS_CardinalityType
    <3>5. Loaded(k)' = ActiveOf(k) \cup Coming(k)'
      BY <2>1 DEF Loaded
    <3>6. /\ Cardinality(Loaded(k)') <= Cardinality(ActiveOf(k)) + Cardinality(Coming(k)')
          /\ Cardinality(Loaded(k)') \in Nat /\ Cardinality(Coming(k)') \in Nat
          /\ Cardinality(ActiveOf(k)) \in Nat
      <4>1. IsFiniteSet(ActiveOf(k) \cap Coming(k)')
        BY <3>4, FS_Subset
      <4>2. IsFiniteSet(ActiveOf(k)) /\ IsFiniteSet(Loaded(k)')
        <5>1. IsFiniteSet(ActiveOf(k))
          BY Finite
        <5>2. IsFiniteSet(ActiveOf(k) \cup Coming(k)')
          BY <3>4, <5>1, FS_Union
        <5> QED BY <3>5, <5>1, <5>2
      <4>3. /\ Cardinality(Loaded(k)') \in Nat /\ Cardinality(Coming(k)') \in Nat
            /\ Cardinality(ActiveOf(k)) \in Nat
            /\ Cardinality(ActiveOf(k) \cap Coming(k)') \in Nat
        BY <3>4, <4>1, <4>2, FS_CardinalityType
      <4>4. Cardinality(Loaded(k)') =
              Cardinality(ActiveOf(k)) + Cardinality(Coming(k)')
                - Cardinality(ActiveOf(k) \cap Coming(k)')
        BY <3>4, <3>5, <4>2, FS_Union
      <4> QED BY <4>3, <4>4
    <3>7. Cardinality(Loaded(k)') < most + crowd'[k]
      BY <2>2, <3>2, <3>3, <3>4, <3>6
    <3> QED BY <2>1, <3>1, <3>7 DEF Bounded
  <2>4. CASE NoLimit \in met[k]
    BY <2>1, <2>4 DEF Bounded
  <2>5. CASE query # "write" \/ KindOf(RowOf(c)) # k
    <3>1. AboutToActivate(k)' \subseteq AboutToActivate(k)
      BY <1>2, <1>3, <1>4, <2>5 DEF AboutToActivate
    <3>2. Loaded(k)' \subseteq Loaded(k)
      BY <1>4, <2>1, <3>1 DEF Loaded, Coming, AboutToActivate
    <3> QED BY <1>5, <2>1, <2>2, <3>2, LoadShrinks
  <2> QED BY <2>3, <2>4, <2>5
<1> QED BY <1>5, <1>6 DEF IInv

\* assertQuota: the count passes under a limit the plan has had.
LEMMA QuotaStep ==
  ASSUME IInv, NEW c \in Caller, ReadPlan(c) \/ Count(c)
  PROVE  IInv'
<1> DEFINE k == KindOf(RowOf(c))
<1>1. TypeOK /\ call[c] # <<>> /\ k \in Kind /\ limit[k] \in met[k]
      /\ limit[k] \in Limits \cup {NoLimit}
  BY DEF IInv, TypeOK, ReadPlan, Count, Reaches, KindOf, Kind
<1>2. CASE ReadPlan(c)
  <2>1. /\ allowed' = [allowed EXCEPT ![c] = limit[k]]
        /\ Proceeds(c, IF limit[k] = NoLimit THEN "write" ELSE "count")
        /\ at[c] = "plan" /\ UNCHANGED <<rows, limit, met, changes, faults>>
    BY <1>2 DEF ReadPlan, LimitOf, Reaches
  <2>2. allowed' \in [Caller -> Limits \cup {NoLimit}] /\ allowed'[c] = limit[k]
        /\ \A d \in Caller \ {c} : allowed'[d] = allowed[d]
    BY <1>1, <2>1 DEF TypeOK
  <2>3. CASE limit[k] = NoLimit
    <3>1. Proceeds(c, "write")
      BY <2>1, <2>3
    <3> QED BY <1>1, <2>1, <2>2, <2>3, <3>1, PassStep
  <2>4. CASE limit[k] # NoLimit
    <3>1. Proceeds(c, "count")
      BY <2>1, <2>4
    <3> QED BY <1>1, <2>1, <2>2, <2>4, <3>1, PassStep
  <2> QED BY <2>3, <2>4
<1>3. CASE Count(c)
  <2>1. at[c] = "count" /\ allowed[c] \in met[k] \ {NoLimit}
        /\ UNCHANGED <<rows, limit, met, changes, faults>>
    BY <1>1, <1>3 DEF Count, TypeOK, Reaches
  <2>2. CASE Full(k, allowed[c]) /\ Ends(c)
    BY <1>1, <2>1, <2>2, EndStep
  <2>3. CASE ~Full(k, allowed[c]) /\ Proceeds(c, "write") /\ UNCHANGED allowed
    <3>1. allowed' \in [Caller -> Limits \cup {NoLimit}]
      BY <1>1, <2>3 DEF TypeOK
    <3> QED BY <1>1, <2>1, <2>3, <3>1, PassStep
  <2> QED BY <1>3, <2>2, <2>3 DEF Count
<1> QED BY <1>2, <1>3

\* A change of plan forgets no limit the agency has had.
LEMMA PlanStep ==
  ASSUME IInv, ChangePlan
  PROVE  IInv'
<1>1. /\ UNCHANGED <<rows, call, at, allowed, crowd, faults>>
      /\ \A k \in Kind : met'[k] = met[k] \cup {limit'[k]}
  BY DEF ChangePlan, callVars
<1>2. TypeOK'
  <2>1. \A c \in Caller : Reaches(c, "count") => KindOf(RowOf(c)) \in Kind
    BY DEF KindOf, Kind
  <2> QED BY <1>1, <2>1, BoundsAreNat
          DEF IInv, TypeOK, ChangePlan, Reaches, RowOf, Asks, KindOf
<1>3. ASSUME NEW k \in Kind PROVE Bounded(k)'
  <2>1. Loaded(k)' = Loaded(k)
    BY <1>1 DEF Loaded, Coming, ActiveOf, AboutToActivate, RowOf, Asks
  <2>2. crowd[k] <= crowd'[k] /\ met[k] \subseteq met'[k]
    BY <1>1 DEF IInv, TypeOK
  <2> QED BY <1>2, <2>1, <2>2, LoadShrinks
<1> QED BY <1>2, <1>3 DEF IInv

\* A restart takes the calls and leaves the rows.
LEMMA CrashStep ==
  ASSUME IInv, Crash
  PROVE  IInv'
<1>1. PICK C \in SUBSET Caller :
        /\ Moves([c \in Caller |-> IF c \in C THEN <<>> ELSE call[c]],
                 [c \in Caller |-> IF c \in C THEN "plan" ELSE at[c]])
        /\ allowed' = [c \in Caller |-> IF c \in C THEN NoLimit ELSE allowed[c]]
  BY DEF Crash
<1>2. /\ call' = [c \in Caller |-> IF c \in C THEN <<>> ELSE call[c]]
      /\ at' = [c \in Caller |-> IF c \in C THEN "plan" ELSE at[c]]
      /\ UNCHANGED <<rows, limit, met, changes>> /\ faults' \in 0..MaxFaults
  BY <1>1, BoundsAreNat DEF Moves, Crash, IInv, TypeOK
<1>3. TypeOK'
  <2>1. crowd' \in [Kind -> Nat]
    BY <1>1, CrowdGrows DEF Kind, IInv
  <2>2. call' \in [Caller -> {<<>>} \cup (Item \X Ask)]
    BY <1>2 DEF IInv, TypeOK
  <2>3. \A d \in Caller :
          /\ Reaches(d, "count")' => allowed'[d] \in met'[KindOf(RowOf(d))'] \ {NoLimit}
          /\ call'[d] # <<>> /\ Asks(d)' # "create" => rows'[RowOf(d)'] # "NONE"
    BY <1>1, <1>2 DEF IInv, TypeOK, Reaches, RowOf, Asks, KindOf
  <2> QED BY <1>1, <1>2, <2>1, <2>2, <2>3 DEF IInv, TypeOK, KindOf
<1>4. ASSUME NEW k \in Kind PROVE Bounded(k)'
  <2>1. AboutToActivate(k)' \subseteq AboutToActivate(k)
    BY <1>2 DEF AboutToActivate, RowOf, Asks
  <2>2. \A d \in AboutToActivate(k)' : RowOf(d)' = RowOf(d)
    BY <1>2 DEF AboutToActivate, RowOf
  <2>3. Loaded(k)' \subseteq Loaded(k)
    BY <1>2, <2>1, <2>2 DEF Loaded, Coming, ActiveOf
  <2>4. crowd[k] <= crowd'[k]
    BY <1>1, CrowdGrows DEF IInv
  <2> QED BY <1>2, <1>3, <2>3, <2>4, LoadShrinks
<1> QED BY <1>3, <1>4 DEF IInv

LEMMA Step == IInv /\ [Next]_vars => IInv'
<1> SUFFICES ASSUME IInv, [Next]_vars PROVE IInv'
  OBVIOUS
<1>1. ASSUME NEW c \in Caller, Handle(c) PROVE IInv'
  <2>1. CASE Create(c) \/ Update(c)
    BY <2>1, StartStep
  <2>2. CASE ReadPlan(c) \/ Count(c)
    BY <2>2, QuotaStep
  <2>3. CASE Write(c)
    BY <2>3, EndStep DEF Write, Reaches
  <2> QED BY <1>1, <2>1, <2>2, <2>3 DEF Handle
<1>2. CASE UNCHANGED vars
  BY <1>2 DEF vars, callVars, IInv, TypeOK, Bounded, Loaded, Coming, ActiveOf,
              AboutToActivate, Reaches, RowOf, Asks
<1> QED BY <1>1, <1>2, PlanStep, CrashStep DEF Next

LEMMA Invariant == Spec => []IInv
BY InitHolds, Step, PTL DEF Spec

-----------------------------------------------------------------------------
\* A call that counts has read a limit the plan has had, and a call that updates
\* a bus or a route has one to update, however calls overlap.
THEOREM TypeCorrect == Spec => []TypeOK
<1>1. IInv => TypeOK
  BY DEF IInv
<1> QED BY <1>1, Invariant, PTL

\* assertQuota (catalog.service.ts:33-47): however calls, changes of plan and
\* restarts overlap, an agency has at most the largest limit it had, plus the
\* calls less one that were between count and write at the same time.
THEOREM PlanIsKept == Spec => []QuotaKept
<1>1. ASSUME IInv PROVE QuotaKept
  <2> SUFFICES ASSUME NEW k \in Kind, NoLimit \notin met[k]
               PROVE  \E most \in met[k] :
                        \/ Cardinality(ActiveOf(k)) <= most
                        \/ Cardinality(ActiveOf(k)) < most + crowd[k]
    BY DEF QuotaKept
  <2>1. PICK most \in met[k] :
          \/ Cardinality(Loaded(k)) <= most
          \/ Cardinality(Loaded(k)) < most + crowd[k]
    BY <1>1 DEF IInv, Bounded
  <2>2. most \in Nat /\ crowd[k] \in Nat
    BY <1>1, LimitsAreNat DEF IInv, TypeOK
  <2>3. Cardinality(ActiveOf(k)) <= Cardinality(Loaded(k))
    BY Finite, FS_Subset DEF Loaded
  <2>4. Cardinality(ActiveOf(k)) \in Nat /\ Cardinality(Loaded(k)) \in Nat
    BY Finite
  <2> QED BY <2>1, <2>2, <2>3, <2>4
<1> QED BY <1>1, Invariant, PTL
=============================================================================
