--------------------------- MODULE TenantsProofs ---------------------------
(***************************************************************************)
(* Proofs about Tenants, for any tenants, callers and limits.              *)
(***************************************************************************)
EXTENDS Tenants, FiniteSetTheorems, TLAPS

\* What a caller does, which TenantsTypeOK says in part.
Calls == {NoRequest} \cup [pc: {"points"}, of: TenantIds, amount: 1..MaxAmount]
                     \cup [pc: {"query", "inside"}, of: TenantIds]

TypeInv ==
    /\ tenants \subseteq TenantIds /\ replaced \subseteq tenants
    /\ points \in [TenantIds -> Nat] /\ active \in [TenantIds -> Nat]
    /\ request \in [Requests -> Calls]
    /\ \A r \in Requests : request[r] # NoRequest => request[r].of \in tenants

TInv == TypeInv /\ SlotsBalance /\ QuotaOverrun

(***************************************************************************)
(* Types.                                                                  *)
(***************************************************************************)

LEMMA TypeInit == TenantsInit => TypeInv
BY DEF TenantsInit, TypeInv, Calls

LEMMA TypeStep == TypeInv /\ [TenantsNext]_tenantVars => TypeInv'
<1> SUFFICES ASSUME TypeInv, [TenantsNext]_tenantVars PROVE TypeInv'
  OBVIOUS
<1> USE TenantsAssumption DEF TypeInv
<1>1. ASSUME NEW id \in TenantIds, CreateTenant(id) PROVE TypeInv'
  BY <1>1 DEF CreateTenant
<1>2. ASSUME NEW id \in TenantIds, NEW r \in Requests, NEW n \in 1..MaxAmount,
             ValidatePoints(r, id, n)
      PROVE  TypeInv'
  BY <1>2 DEF ValidatePoints, Calls, NoRequest
<1>3. ASSUME NEW id \in TenantIds, NEW r \in Requests, IncrementPoints(r, id)
      PROVE  TypeInv'
  <2>1. request[r] \in [pc: {"points"}, of: TenantIds, amount: 1..MaxAmount]
    BY <1>3 DEF IncrementPoints, Doing, Calls, NoRequest
  <2>2. points' \in [TenantIds -> Nat]
    BY <1>3, <2>1 DEF IncrementPoints
  <2> QED
    BY <1>3, <2>2 DEF IncrementPoints, Calls
<1>4. ASSUME NEW id \in TenantIds, NEW r \in Requests, ValidateQuery(r, id)
      PROVE  TypeInv'
  BY <1>4 DEF ValidateQuery, Calls, NoRequest
<1>5. ASSUME NEW id \in TenantIds, NEW r \in Requests, IncrementActiveQueries(r, id)
      PROVE  TypeInv'
  <2>1. id \in tenants /\ request[r] # NoRequest
    BY <1>5 DEF IncrementActiveQueries, Doing, NoRequest
  <2> QED
    BY <1>5, <2>1 DEF IncrementActiveQueries, Calls
<1>6. ASSUME NEW id \in TenantIds, NEW r \in Requests, DecrementActiveQueries(r, id)
      PROVE  TypeInv'
  BY <1>6 DEF DecrementActiveQueries, Calls
<1>7. ASSUME NEW id \in TenantIds,
             NEW p \in 0..MaxPointsPerDay, NEW a \in 0..MaxConcurrentQueries,
             UpdateResourceUsage(id, p, a)
      PROVE  TypeInv'
  BY <1>7 DEF UpdateResourceUsage
<1>8. CASE UNCHANGED tenantVars
  BY <1>8 DEF tenantVars
<1> QED
  BY <1>1, <1>2, <1>3, <1>4, <1>5, <1>6, <1>7, <1>8 DEF TenantsNext

LEMMA TypeInvImplied == TypeInv => TenantsTypeOK
BY DEF TypeInv, TenantsTypeOK, Calls, NoRequest

(***************************************************************************)
(* The slots of queries.                                                   *)
(***************************************************************************)

LEMMA DoingFinite ==
    ASSUME NEW pc, NEW id
    PROVE  IsFiniteSet(Doing(pc, id)) /\ Cardinality(Doing(pc, id)) \in Nat
BY TenantsAssumption, FS_Subset, FS_CardinalityType DEF Doing

LEMMA SlotsStep == TypeInv /\ SlotsBalance /\ [TenantsNext]_tenantVars => SlotsBalance'
<1> SUFFICES ASSUME TypeInv, SlotsBalance, [TenantsNext]_tenantVars,
                    NEW i \in TenantIds \ replaced'
             PROVE  active'[i] = Cardinality(Doing("inside", i)')
  BY DEF SlotsBalance
<1> DEFINE inside == Doing("inside", i)
<1>1. i \notin replaced => active[i] = Cardinality(inside)
  BY DEF SlotsBalance
<1>2. ASSUME NEW id \in TenantIds, CreateTenant(id)
      PROVE  active'[i] = Cardinality(inside')
  BY <1>1, <1>2 DEF CreateTenant, Doing
<1>3. ASSUME NEW id \in TenantIds, NEW r \in Requests, NEW n \in 1..MaxAmount,
             ValidatePoints(r, id, n)
      PROVE  active'[i] = Cardinality(inside')
  <2>1. inside' = inside
    BY <1>3 DEF ValidatePoints, Doing, NoRequest, TypeInv
  <2> QED
    BY <1>1, <1>3, <2>1 DEF ValidatePoints
<1>4. ASSUME NEW id \in TenantIds, NEW r \in Requests, IncrementPoints(r, id)
      PROVE  active'[i] = Cardinality(inside')
  <2>1. inside' = inside
    BY <1>4 DEF IncrementPoints, Doing, NoRequest, TypeInv
  <2> QED
    BY <1>1, <1>4, <2>1 DEF IncrementPoints
<1>5. ASSUME NEW id \in TenantIds, NEW r \in Requests, ValidateQuery(r, id)
      PROVE  active'[i] = Cardinality(inside')
  <2>1. inside' = inside
    BY <1>5 DEF ValidateQuery, Doing, NoRequest, TypeInv
  <2> QED
    BY <1>1, <1>5, <2>1 DEF ValidateQuery
<1>6. ASSUME NEW id \in TenantIds, NEW r \in Requests, IncrementActiveQueries(r, id)
      PROVE  active'[i] = Cardinality(inside')
  <2>1. CASE id = i
    <3>1. inside' = inside \cup {r} /\ r \notin inside
      BY <1>6, <2>1 DEF IncrementActiveQueries, Doing, TypeInv
    <3>2. active'[i] = active[i] + 1
      BY <1>6, <2>1 DEF IncrementActiveQueries, TypeInv
    <3>3. i \notin replaced
      BY <1>6 DEF IncrementActiveQueries
    <3> QED
      BY <1>1, <3>1, <3>2, <3>3, DoingFinite, FS_AddElement
  <2>2. CASE id # i
    <3>1. inside' = inside
      BY <1>6, <2>2 DEF IncrementActiveQueries, Doing, TypeInv
    <3> QED
      BY <1>1, <1>6, <2>2, <3>1 DEF IncrementActiveQueries, TypeInv
  <2> QED
    BY <2>1, <2>2
<1>7. ASSUME NEW id \in TenantIds, NEW r \in Requests, DecrementActiveQueries(r, id)
      PROVE  active'[i] = Cardinality(inside')
  <2>1. CASE id = i
    <3>1. inside' = inside \ {r} /\ r \in inside
      BY <1>7, <2>1 DEF DecrementActiveQueries, Doing, NoRequest, TypeInv
    <3>2. i \notin replaced
      BY <1>7 DEF DecrementActiveQueries
    <3>3. Cardinality(inside') = Cardinality(inside) - 1
      BY <3>1, DoingFinite, FS_RemoveElement
    <3>4. Cardinality(inside) > 0
      BY <3>1, DoingFinite, FS_EmptySet
    <3>5. active'[i] = active[i] - 1
      BY <1>1, <1>7, <2>1, <3>2, <3>4 DEF DecrementActiveQueries, TypeInv
    <3> QED
      BY <1>1, <3>2, <3>3, <3>5
  <2>2. CASE id # i
    <3>1. inside' = inside
      BY <1>7, <2>2 DEF DecrementActiveQueries, Doing, NoRequest, TypeInv
    <3> QED
      BY <1>1, <1>7, <2>2, <3>1 DEF DecrementActiveQueries, TypeInv
  <2> QED
    BY <2>1, <2>2
<1>8. ASSUME NEW id \in TenantIds,
             NEW p \in 0..MaxPointsPerDay, NEW a \in 0..MaxConcurrentQueries,
             UpdateResourceUsage(id, p, a)
      PROVE  active'[i] = Cardinality(inside')
  <2>1. inside' = inside /\ i \notin replaced
    BY <1>8 DEF UpdateResourceUsage, Doing
  <2>2. CASE id = i
    <3>1. a = 0 /\ inside = {}
      BY <1>8, <2>2 DEF UpdateResourceUsage
    <3>2. active'[i] = 0
      BY <1>8, <2>2, <3>1 DEF UpdateResourceUsage, TypeInv
    <3> QED
      BY <2>1, <3>1, <3>2, FS_EmptySet
  <2>3. CASE id # i
    BY <1>1, <1>8, <2>1, <2>3 DEF UpdateResourceUsage, TypeInv
  <2> QED
    BY <2>2, <2>3
<1>9. CASE UNCHANGED tenantVars
  BY <1>1, <1>9 DEF tenantVars, Doing
<1> QED
  BY <1>2, <1>3, <1>4, <1>5, <1>6, <1>7, <1>8, <1>9 DEF TenantsNext

(***************************************************************************)
(* The points let through and not charged yet.                             *)
(***************************************************************************)

LEMMA PendingFinite ==
    ASSUME NEW id
    PROVE  /\ IsFiniteSet(Pending(id)) /\ Cardinality(Pending(id)) \in Nat
           /\ Cardinality(Requests) \in Nat \ {0}
           /\ Cardinality(Requests \X (1..MaxAmount)) = Cardinality(Requests) * MaxAmount
           /\ Cardinality(Pending(id)) <= Cardinality(Requests) * MaxAmount
<1> USE TenantsAssumption
<1>1. IsFiniteSet(1..MaxAmount) /\ Cardinality(1..MaxAmount) = MaxAmount
  BY FS_Interval
<1>2. /\ IsFiniteSet(Requests \X (1..MaxAmount))
      /\ Cardinality(Requests \X (1..MaxAmount)) = Cardinality(Requests) * MaxAmount
  BY <1>1, FS_Product
<1>3. Pending(id) \in SUBSET (Requests \X (1..MaxAmount))
  BY DEF Pending, Doing
<1>4. /\ IsFiniteSet(Pending(id))
      /\ Cardinality(Pending(id)) <= Cardinality(Requests \X (1..MaxAmount))
  BY <1>2, <1>3, FS_Subset
<1>5. Cardinality(Requests) \in Nat /\ Cardinality(Requests) # 0
  BY FS_CardinalityType, FS_EmptySet
<1> QED
  BY <1>2, <1>4, <1>5, FS_CardinalityType

\* What the others have in hand while r has nothing.
LEMMA OthersPending ==
    ASSUME NEW id, NEW r \in Requests, request[r] = NoRequest
    PROVE  Cardinality(Pending(id)) <= (Cardinality(Requests) - 1) * MaxAmount
<1> USE TenantsAssumption
<1>1. IsFiniteSet(1..MaxAmount) /\ Cardinality(1..MaxAmount) = MaxAmount
  BY FS_Interval
<1>2. IsFiniteSet(Requests \ {r}) /\ Cardinality(Requests \ {r}) = Cardinality(Requests) - 1
  BY FS_RemoveElement
<1>3. /\ IsFiniteSet((Requests \ {r}) \X (1..MaxAmount))
      /\ Cardinality((Requests \ {r}) \X (1..MaxAmount)) = (Cardinality(Requests) - 1) * MaxAmount
  BY <1>1, <1>2, FS_Product
<1>4. Pending(id) \in SUBSET ((Requests \ {r}) \X (1..MaxAmount))
  BY DEF Pending, Doing, NoRequest
<1> QED
  BY <1>3, <1>4, FS_Subset

\* One caller's share of what is pending.
LEMMA ShareOf ==
    ASSUME NEW r, NEW n \in 0..MaxAmount
    PROVE  IsFiniteSet({r} \X (1..n)) /\ Cardinality({r} \X (1..n)) = n
<1>1. IsFiniteSet(1..n) /\ Cardinality(1..n) = n
  BY FS_Interval
<1>2. IsFiniteSet({r}) /\ Cardinality({r}) = 1
  BY FS_Singleton
<1>3. IsFiniteSet({r} \X (1..n)) /\ Cardinality({r} \X (1..n)) = 1 * n
  BY <1>1, <1>2, FS_Product
<1> QED
  BY <1>3

\* The bound QuotaOverrun puts on a tenant, without and with a replacement.
Bound(id) == MaxPointsPerDay
               + (Cardinality(Requests) - (IF id \in replaced THEN 0 ELSE 1)) * MaxAmount

LEMMA BoundFacts ==
    ASSUME NEW id
    PROVE  /\ Bound(id) \in Int /\ MaxPointsPerDay \in Nat
           /\ (Cardinality(Requests) - 1) * MaxAmount \in Nat
           /\ MaxPointsPerDay + (Cardinality(Requests) - 1) * MaxAmount <= Bound(id)
           /\ id \in replaced => Bound(id) = MaxPointsPerDay + Cardinality(Requests) * MaxAmount
<1> DEFINE N == Cardinality(Requests)
<1>1. N \in Nat \ {0}
  BY PendingFinite
<1>2. MaxAmount \in Nat /\ MaxPointsPerDay \in Nat
  BY TenantsAssumption
<1> HIDE DEF N
<1>3. N * MaxAmount = (N - 1) * MaxAmount + MaxAmount /\ (N - 1) * MaxAmount \in Nat
  BY <1>1, <1>2
<1>4. Bound(id) = MaxPointsPerDay + (N - (IF id \in replaced THEN 0 ELSE 1)) * MaxAmount
  BY DEF Bound, N
<1>5. CASE id \in replaced
  <2>1. Bound(id) = MaxPointsPerDay + N * MaxAmount
    BY <1>1, <1>4, <1>5
  <2> QED
    BY <1>2, <1>3, <1>5, <2>1 DEF N
<1>6. CASE id \notin replaced
  <2>1. Bound(id) = MaxPointsPerDay + (N - 1) * MaxAmount
    BY <1>4, <1>6
  <2> QED
    BY <1>2, <1>3, <1>6, <2>1 DEF N
<1> QED
  BY <1>5, <1>6

LEMMA QuotaStep == TypeInv /\ QuotaOverrun /\ [TenantsNext]_tenantVars => QuotaOverrun'
<1> SUFFICES ASSUME TypeInv, QuotaOverrun, [TenantsNext]_tenantVars, NEW i \in TenantIds
             PROVE  points'[i] + Cardinality(Pending(i)') <= Bound(i)'
  BY DEF QuotaOverrun, Bound
<1> DEFINE pending == Pending(i)
<1> USE TenantsAssumption
<1>1. points[i] + Cardinality(pending) <= Bound(i)
  BY DEF QuotaOverrun, Bound
<1>2. /\ points[i] \in Nat /\ IsFiniteSet(pending) /\ Cardinality(pending) \in Nat
      /\ Bound(i) \in Int /\ MaxPointsPerDay + (Cardinality(Requests) - 1) * MaxAmount <= Bound(i)
      /\ (Cardinality(Requests) - 1) * MaxAmount \in Nat
  BY BoundFacts, PendingFinite DEF TypeInv
<1>3. ASSUME UNCHANGED <<points, replaced>>, pending' = pending
      PROVE  points'[i] + Cardinality(pending') <= Bound(i)'
  BY <1>1, <1>3 DEF Bound
<1>4. ASSUME NEW id \in TenantIds, CreateTenant(id)
      PROVE  points'[i] + Cardinality(pending') <= Bound(i)'
  BY <1>3, <1>4 DEF CreateTenant, Pending, Doing
<1>5. ASSUME NEW id \in TenantIds, NEW r \in Requests, NEW n \in 1..MaxAmount,
             ValidatePoints(r, id, n)
      PROVE  points'[i] + Cardinality(pending') <= Bound(i)'
  <2>1. CASE id = i
    <3> DEFINE share == {r} \X (1..n)
    <3>1. pending' = pending \cup share /\ pending \cap share = {}
      BY <1>5, <2>1 DEF ValidatePoints, Pending, Doing, NoRequest, TypeInv
    <3>2. IsFiniteSet(share) /\ Cardinality(share) = n
      <4>1. n \in 0..MaxAmount
        OBVIOUS
      <4> QED
        BY <4>1, ShareOf, Zenon
    <3>3. Cardinality(pending') = Cardinality(pending) + n
      <4> HIDE DEF pending, share
      <4>1. /\ Cardinality(pending \cup share)
                  = Cardinality(pending) + Cardinality(share) - Cardinality(pending \cap share)
            /\ Cardinality(pending \cap share) = 0
        BY <1>2, <3>1, <3>2, FS_Union, FS_EmptySet
      <4> QED
        BY <1>2, <3>1, <3>2, <4>1
    <3>4. points[i] + n <= MaxPointsPerDay /\ points' = points /\ Bound(i)' = Bound(i)
      BY <1>5, <2>1 DEF ValidatePoints, Bound
    <3>5. Cardinality(pending) <= (Cardinality(Requests) - 1) * MaxAmount
      BY <1>5, OthersPending DEF ValidatePoints
    <3> HIDE DEF pending
    <3> QED
      BY <1>2, <3>3, <3>4, <3>5
  <2>2. CASE id # i
    <3>1. pending' = pending
      BY <1>5, <2>2 DEF ValidatePoints, Pending, Doing, NoRequest, TypeInv
    <3> QED
      BY <1>3, <1>5, <3>1 DEF ValidatePoints
  <2> QED
    BY <2>1, <2>2
<1>6. ASSUME NEW id \in TenantIds, NEW r \in Requests, IncrementPoints(r, id)
      PROVE  points'[i] + Cardinality(pending') <= Bound(i)'
  <2>1. CASE id = i
    <3> DEFINE n == request[r].amount
               share == {r} \X (1..n)
    <3>1. n \in 1..MaxAmount
      BY <1>6 DEF IncrementPoints, Doing, Calls, NoRequest, TypeInv
    <3>2. pending' = pending \ share /\ share \subseteq pending
      <4>1. share \subseteq pending
        BY <1>6, <2>1, <3>1 DEF IncrementPoints, Pending, Doing
      <4>2. Doing("points", i)' = Doing("points", i) \ {r}
        BY <1>6, <2>1 DEF IncrementPoints, Doing, NoRequest, TypeInv
      <4>3. \A q \in Requests \ {r} : request'[q] = request[q]
        BY <1>6 DEF IncrementPoints, TypeInv
      <4>4. pending' = {x \in pending : x[1] # r}
        BY <4>2, <4>3 DEF Pending, Doing
      <4>5. \A x \in pending : x[1] = r <=> x \in share
        BY <3>1 DEF Pending
      <4> HIDE DEF pending, share
      <4> QED
        BY <4>1, <4>4, <4>5
    <3>3. IsFiniteSet(share) /\ Cardinality(share) = n
      <4>1. n \in 0..MaxAmount
        BY <3>1
      <4> QED
        BY <4>1, ShareOf, Zenon
    <3>4. Cardinality(pending') = Cardinality(pending) - n
      <4> HIDE DEF pending, share, n
      <4>1. pending \cap share = share
        BY <3>2
      <4> QED
        BY <1>2, <3>2, <3>3, <4>1, FS_Difference
    <3>5. points'[i] = points[i] + n /\ Bound(i)' = Bound(i)
      BY <1>6, <2>1 DEF IncrementPoints, Bound, TypeInv
    <3> HIDE DEF pending, n
    <3> QED
      BY <1>1, <1>2, <3>1, <3>4, <3>5
  <2>2. CASE id # i
    <3>1. pending' = pending
      BY <1>6, <2>2 DEF IncrementPoints, Pending, Doing, NoRequest, TypeInv
    <3>2. points'[i] = points[i] /\ Bound(i)' = Bound(i)
      BY <1>6, <2>2 DEF IncrementPoints, Bound, TypeInv
    <3> QED
      BY <1>1, <3>1, <3>2
  <2> QED
    BY <2>1, <2>2
<1>7. ASSUME NEW id \in TenantIds, NEW r \in Requests, ValidateQuery(r, id)
      PROVE  points'[i] + Cardinality(pending') <= Bound(i)'
  <2>1. pending' = pending
    BY <1>7 DEF ValidateQuery, Pending, Doing, NoRequest, TypeInv
  <2> QED
    BY <1>3, <1>7, <2>1 DEF ValidateQuery
<1>8. ASSUME NEW id \in TenantIds, NEW r \in Requests, IncrementActiveQueries(r, id)
      PROVE  points'[i] + Cardinality(pending') <= Bound(i)'
  <2>1. pending' = pending
    BY <1>8 DEF IncrementActiveQueries, Pending, Doing, NoRequest, TypeInv
  <2> QED
    BY <1>3, <1>8, <2>1 DEF IncrementActiveQueries
<1>9. ASSUME NEW id \in TenantIds, NEW r \in Requests, DecrementActiveQueries(r, id)
      PROVE  points'[i] + Cardinality(pending') <= Bound(i)'
  <2>1. pending' = pending
    BY <1>9 DEF DecrementActiveQueries, Pending, Doing, NoRequest, TypeInv
  <2> QED
    BY <1>3, <1>9, <2>1 DEF DecrementActiveQueries
<1>10. ASSUME NEW id \in TenantIds,
              NEW p \in 0..MaxPointsPerDay, NEW a \in 0..MaxConcurrentQueries,
              UpdateResourceUsage(id, p, a)
       PROVE  points'[i] + Cardinality(pending') <= Bound(i)'
  <2>1. pending' = pending
    BY <1>10 DEF UpdateResourceUsage, Pending, Doing
  <2>2. CASE id = i
    <3>1. points'[i] = p
      BY <1>10, <2>2 DEF UpdateResourceUsage, TypeInv
    <3>2. CASE i \in replaced'
      <4>1. Bound(i)' = MaxPointsPerDay + Cardinality(Requests) * MaxAmount
        BY <3>2, PendingFinite DEF Bound
      <4>2. Cardinality(pending) <= Cardinality(Requests) * MaxAmount
        BY PendingFinite
      <4>3. Cardinality(Requests) * MaxAmount \in Nat
        BY PendingFinite
      <4> HIDE DEF pending
      <4> QED
        BY <1>2, <2>1, <3>1, <4>1, <4>2, <4>3
    <3>3. CASE i \notin replaced'
      <4>1. pending = {}
        BY <1>10, <2>2, <3>3 DEF UpdateResourceUsage, Pending, Doing
      <4>2. Bound(i)' = MaxPointsPerDay + (Cardinality(Requests) - 1) * MaxAmount
        BY <3>3 DEF Bound
      <4> HIDE DEF pending
      <4> QED
        BY <1>2, <2>1, <3>1, <4>1, <4>2, FS_EmptySet
    <3> QED
      BY <3>2, <3>3
  <2>3. CASE id # i
    <3>1. points'[i] = points[i] /\ Bound(i)' = Bound(i)
      BY <1>10, <2>3 DEF UpdateResourceUsage, Bound, TypeInv
    <3> QED
      BY <1>1, <2>1, <3>1
  <2> QED
    BY <2>2, <2>3
<1>11. CASE UNCHANGED tenantVars
  <2>1. pending' = pending
    BY <1>11 DEF tenantVars, Pending, Doing
  <2> QED
    BY <1>3, <1>11, <2>1 DEF tenantVars
<1> QED
  BY <1>4, <1>5, <1>6, <1>7, <1>8, <1>9, <1>10, <1>11 DEF TenantsNext

-----------------------------------------------------------------------------
LEMMA InvInit == TenantsInit => TInv
<1> SUFFICES ASSUME TenantsInit PROVE TInv
  OBVIOUS
<1>1. SlotsBalance
  <2>1. \A id \in TenantIds : Doing("inside", id) = {}
    BY DEF TenantsInit, Doing, NoRequest
  <2> QED
    BY <2>1, FS_EmptySet DEF SlotsBalance, TenantsInit
<1>2. QuotaOverrun
  <2> SUFFICES ASSUME NEW id \in TenantIds
               PROVE  points[id] + Cardinality(Pending(id)) <= Bound(id)
    BY DEF QuotaOverrun, Bound
  <2>1. Pending(id) = {} /\ points[id] = 0
    BY DEF TenantsInit, Pending, Doing, NoRequest
  <2> QED
    BY <2>1, BoundFacts, FS_EmptySet
<1> QED
  BY <1>1, <1>2, TypeInit DEF TInv

LEMMA InvStep == TInv /\ [TenantsNext]_tenantVars => TInv'
BY TypeStep, SlotsStep, QuotaStep DEF TInv

LEMMA Invariant == TenantsSpec => []TInv
<1>1. TenantsInit => TInv
  BY InvInit
<1>2. TInv /\ [TenantsNext]_tenantVars => TInv'
  BY InvStep
<1> QED
  BY <1>1, <1>2, PTL DEF TenantsSpec

\* The usage of a tenant never becomes negative, and a caller charges only a
\* tenant that exists (CreateTenant, IncrementPoints, DecrementActiveQueries).
THEOREM UsageWellTyped == TenantsSpec => []TenantsTypeOK
<1>1. TInv => TenantsTypeOK
  BY TypeInvImplied DEF TInv
<1> QED
  BY <1>1, Invariant, PTL

\* However many callers of ValidateResourceUsage and IncrementActiveQueries there
\* are, the slots counted are those of the queries that run, until
\* UpdateResourceUsage replaces the count under them.
THEOREM SlotsAlwaysBalance == TenantsSpec => []SlotsBalance
<1>1. TInv => SlotsBalance
  BY DEF TInv
<1> QED
  BY <1>1, Invariant, PTL

\* Checking and charging the points in two critical sections costs at most one
\* largest request per other caller, for any number of callers and any limits.
THEOREM QuotaOverrunBounded == TenantsSpec => []QuotaOverrun
<1>1. TInv => QuotaOverrun
  BY DEF TInv
<1> QED
  BY <1>1, Invariant, PTL
=============================================================================
