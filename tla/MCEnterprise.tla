---------------------------- MODULE MCEnterprise ----------------------------
(***************************************************************************)
(* An instance of the managers of package enterprise for TLC.  Cluster     *)
(* membership, quorum calls and tenants are checked one at a time: `part`  *)
(* says which one moves, and the others stay at their start.  They share   *)
(* no state that one of them would change for another.                     *)
(***************************************************************************)
EXTENDS Replication, Tenants, TLC

CONSTANTS A, B, C, D, c1

VARIABLES part, status, age, missed, ring, adding, round, heartbeat, down, walks

\* B and C collide at 40.
RingTokens == A :> <<10, 40>> @@ B :> <<20, 50>> @@ C :> <<40, 30>> @@ D :> <<25, 5>>

\* Three of the nodes are enough for Cluster, with a ring of its own.
Three == {A, B, C}
Clu == INSTANCE Cluster WITH
    Nodes <- Three, Tokens <- [n \in Three |-> RingTokens[n]],
    Clients <- {c1}, KeyHashes <- {35}, MissLimit <- 2

ASSUME Clu!RingAssumption /\ Clu!ClusterAssumption

clusterVars    == <<status, age, missed, ring, adding, round, heartbeat, down, walks>>
enterpriseVars == <<part, clusterVars, replicationVars, tenantVars>>

EnterpriseInit ==
    /\ part \in {"cluster", "replication", "tenants"}
    /\ Clu!ClusterInit /\ ReplicationInit /\ TenantsInit
    /\ part # "replication" => replication = [write |-> 1, read |-> 1]

ClusterStep ==
    part = "cluster" /\ Clu!ClusterNext /\ UNCHANGED <<part, replicationVars, tenantVars>>
ReplicationStep ==
    part = "replication" /\ ReplicationNext /\ UNCHANGED <<part, clusterVars, tenantVars>>
TenantsStep ==
    part = "tenants" /\ TenantsNext /\ UNCHANGED <<part, clusterVars, replicationVars>>

EnterpriseNext == ClusterStep \/ ReplicationStep \/ TenantsStep

\* The fairness of Cluster, where it is Cluster that moves.
On == part = "cluster"

EnterpriseSpec ==
    /\ EnterpriseInit /\ [][EnterpriseNext]_enterpriseVars
    /\ WF_clusterVars(On /\ Clu!HeartbeatLoop)
    /\ \A n \in Three \ {Self} : WF_clusterVars(On /\ Clu!HeartbeatToNode(n))
    /\ WF_clusterVars(On /\ Clu!JoinRing) /\ WF_clusterVars(On /\ Clu!Walk(c1))

\* The three managers keep their types, and what relates their own variables.
EnterpriseTypeOK == Clu!ClusterTypeOK /\ ReplicationTypeOK /\ TenantsTypeOK

\* Stated in Cluster: what becomes of a walk of the ring.
WalkFate == Clu!WalkFate
\* Stated in Cluster: no node is marked inactive that did not miss heartbeats.
NoFalseAlarm == Clu!NoFalseAlarm
\* Stated in Cluster: a node that is down is not taken for active for ever.
SilentNoticed == Clu!SilentNoticed
=============================================================================
