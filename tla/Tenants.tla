------------------------------ MODULE Tenants ------------------------------
(***************************************************************************)
(* TenantManager, src/enterprise/multitenancy.go: the usage of each tenant *)
(* against the limits of its plan.  ValidateResourceUsage checks in one    *)
(* critical section what IncrementPoints or IncrementActiveQueries charges *)
(* in another, and UpdateResourceUsage replaces the whole usage at once.   *)
(* The check of resources that runs periodically reads and warns, no more. *)
(*                                                                         *)
(* A request is a caller that validates, charges, and, for a query, gives  *)
(* back its slot.  "series" and "query_rate" are only ever checked against *)
(* what UpdateResourceUsage has set: no code counts them.                  *)
(***************************************************************************)
EXTENDS Integers, FiniteSets

CONSTANTS
    TenantIds,
    Requests,               \* callers
    MaxAmount,              \* the most points one caller asks for at once
    MaxPointsPerDay,        \* the limits of the plan
    MaxConcurrentQueries

ASSUME TenantsAssumption ==
    /\ MaxAmount \in Nat \ {0}
    /\ MaxPointsPerDay \in Nat /\ MaxConcurrentQueries \in Nat
    /\ IsFiniteSet(Requests) /\ Requests # {}

VARIABLES
    tenants,        \* the ids that exist
    points,         \* CurrentUsage.PointsToday
    active,         \* CurrentUsage.ActiveQueries
    request,        \* what each caller does
    replaced        \* history: the usage was replaced under requests, or with
                    \* queries that nobody runs

tenantVars == <<tenants, points, active, request, replaced>>

NoRequest == [pc |-> "idle"]
Doing(pc, id) == {r \in Requests : request[r].pc = pc /\ request[r].of = id}

TenantsInit ==
    /\ tenants = {}
    /\ points = [id \in TenantIds |-> 0] /\ active = [id \in TenantIds |-> 0]
    /\ request = [r \in Requests |-> NoRequest]
    /\ replaced = {}

-----------------------------------------------------------------------------
\* A second tenant of the same name is refused.
CreateTenant(id) ==
    /\ id \notin tenants
    /\ tenants' = tenants \cup {id}
    /\ UNCHANGED <<points, active, request, replaced>>

\* Faulty: the amount asked for is left out of the check.
FaultyValidatePoints(r, id, n) ==
    /\ request[r] = NoRequest /\ id \in tenants
    /\ points[id] <= MaxPointsPerDay
    /\ request' = [request EXCEPT ![r] = [pc |-> "points", of |-> id, amount |-> n]]
    /\ UNCHANGED <<tenants, points, active, replaced>>

ValidatePoints(r, id, n) ==
    /\ request[r] = NoRequest /\ id \in tenants
    /\ points[id] + n <= MaxPointsPerDay
    /\ request' = [request EXCEPT ![r] = [pc |-> "points", of |-> id, amount |-> n]]
    /\ UNCHANGED <<tenants, points, active, replaced>>

IncrementPoints(r, id) ==
    /\ r \in Doing("points", id)
    /\ points' = [points EXCEPT ![id] = @ + request[r].amount]
    /\ request' = [request EXCEPT ![r] = NoRequest]
    /\ UNCHANGED <<tenants, active, replaced>>

ValidateQuery(r, id) ==
    /\ request[r] = NoRequest /\ id \in tenants
    /\ active[id] < MaxConcurrentQueries
    /\ request' = [request EXCEPT ![r] = [pc |-> "query", of |-> id]]
    /\ UNCHANGED <<tenants, points, active, replaced>>

IncrementActiveQueries(r, id) ==
    /\ r \in Doing("query", id)
    /\ active' = [active EXCEPT ![id] = @ + 1]
    /\ request' = [request EXCEPT ![r] = [pc |-> "inside", of |-> id]]
    /\ UNCHANGED <<tenants, points, replaced>>

\* Faulty: the counter may go below zero.
FaultyDecrementActiveQueries(r, id) ==
    /\ r \in Doing("inside", id)
    /\ active' = [active EXCEPT ![id] = @ - 1]
    /\ request' = [request EXCEPT ![r] = NoRequest]
    /\ UNCHANGED <<tenants, points, replaced>>

\* Faulty: a query that ends while others run gives no slot back.
FaultyGiveBack(r, id) ==
    /\ r \in Doing("inside", id)
    /\ active' = [active EXCEPT ![id] = IF @ > 1 THEN @ ELSE 0]
    /\ request' = [request EXCEPT ![r] = NoRequest]
    /\ UNCHANGED <<tenants, points, replaced>>

DecrementActiveQueries(r, id) ==
    /\ r \in Doing("inside", id)
    /\ active' = [active EXCEPT ![id] = IF @ > 0 THEN @ - 1 ELSE 0]
    /\ request' = [request EXCEPT ![r] = NoRequest]
    /\ UNCHANGED <<tenants, points, replaced>>

\* The usage a caller has measured, at most the limits, replaces what was
\* counted.
UpdateResourceUsage(id, p, a) ==
    /\ id \in tenants
    /\ points' = [points EXCEPT ![id] = p]
    /\ active' = [active EXCEPT ![id] = a]
    /\ replaced' = IF a # 0 \/ Doing("inside", id) \cup Doing("points", id) # {}
                   THEN replaced \cup {id} ELSE replaced
    /\ UNCHANGED <<tenants, request>>

-----------------------------------------------------------------------------
TenantsNext ==
    \/ \E id \in TenantIds :
         \/ CreateTenant(id)
         \/ \E r \in Requests : \/ \E n \in 1..MaxAmount : ValidatePoints(r, id, n)
                                \/ IncrementPoints(r, id)
                                \/ ValidateQuery(r, id)
                                \/ IncrementActiveQueries(r, id)
                                \/ DecrementActiveQueries(r, id)
         \/ \E p \in 0..MaxPointsPerDay, a \in 0..MaxConcurrentQueries :
              UpdateResourceUsage(id, p, a)

TenantsSpec == TenantsInit /\ [][TenantsNext]_tenantVars

-----------------------------------------------------------------------------
TenantsTypeOK ==
    /\ tenants \subseteq TenantIds /\ replaced \subseteq tenants
    /\ points \in [TenantIds -> Nat] /\ active \in [TenantIds -> Nat]
    /\ \A r \in Requests :
         \/ request[r] = NoRequest
         \/ request[r].of \in tenants /\ request[r].pc \in {"points", "query", "inside"}

\* The points let through and not charged yet, one by one.
Pending(id) == {p \in Doing("points", id) \X (1..MaxAmount) : p[2] <= request[p[1]].amount}

\* The quota of points is exceeded by what the other callers had in hand when
\* one was let through, and by no more, however long they go on: with what is
\* still to be charged, a tenant is at most one largest request per other caller
\* over its limit, and one more when its usage was replaced under them.
QuotaOverrun ==
    \A id \in TenantIds :
        LET others == Cardinality(Requests) - (IF id \in replaced THEN 0 ELSE 1)
        IN points[id] + Cardinality(Pending(id)) <= MaxPointsPerDay + others * MaxAmount

\* Every slot counted belongs to a query that runs, and the other way round,
\* until the usage is replaced under running queries: DecrementActiveQueries
\* takes one for one, and its floor at zero hides nothing.
SlotsBalance ==
    \A id \in TenantIds \ replaced : active[id] = Cardinality(Doing("inside", id))
=============================================================================
