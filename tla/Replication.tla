---------------------------- MODULE Replication ----------------------------
(***************************************************************************)
(* Quorum writes and reads of ClusterManager, src/enterprise/clustering.go.*)
(* WriteDataPoint and ReadDataPoints take the replicas of a key from the   *)
(* ring and go down the list, one request after the other; the node itself *)
(* counts as reached at once.  Nodes join meanwhile.                       *)
(*                                                                         *)
(* What the nodes store is not modelled, for no write gives them anything: *)
(* the node itself stores nothing, and writeToRemoteNode marshals the key  *)
(* and the point, then sends a request without a body to a URL without the *)
(* key.  A write that is acknowledged was answered 200 by a quorum and is  *)
(* held by no node.  The model knows who answered, and its properties say  *)
(* no more than that.                                                      *)
(*                                                                         *)
(* writeToRemoteNode and readFromRemoteNode look the node up without       *)
(* cm.mutex.  When that meets the insertion by AddNode, the Go runtime may *)
(* end the process (concurrent map read and map write).                    *)
(***************************************************************************)
EXTENDS HashRing

CONSTANTS
    Writers,            \* calls of WriteDataPoint
    Readers,            \* calls of ReadDataPoints
    KeyHash             \* the hash of the series they are about

ASSUME ReplicationAssumption ==
    /\ Writers \cap Readers = {}
    /\ KeyHash \in Nat

VARIABLES
    replication,    \* WriteQuorum and ReadQuorum, as configured
    nodes,          \* the keys of cm.nodes
    partitioner,    \* cm.partitioner
    inserting,      \* the node AddNode is inserting into cm.nodes
    dead,           \* the process was ended by the Go runtime
    call            \* each call of WriteDataPoint or ReadDataPoints

replicationVars == <<replication, nodes, partitioner, inserting, dead, call>>

Calls      == Writers \cup Readers
Quorum(c)  == IF c \in Writers THEN replication.write ELSE replication.read
NotCalled  == [pc |-> "idle"]
Running(c) == call[c].pc = "running"
Smaller(a, b) == IF a < b THEN a ELSE b

ReplicationInit ==
    /\ replication \in [write : 1..ReplicaFactor, read : 1..ReplicaFactor]
    /\ nodes = {Self} /\ partitioner = AddToRing(EmptyRing, Self)
    /\ inserting = None /\ dead = FALSE
    /\ call = [c \in Calls |-> NotCalled]

-----------------------------------------------------------------------------
(* AddNode: the insertion into the map, then the ring. *)

Insert(n) ==
    /\ inserting = None /\ n \notin nodes
    /\ inserting' = n
    /\ UNCHANGED <<nodes, partitioner, dead, call>>

Inserted ==
    /\ inserting # None
    /\ nodes' = nodes \cup {inserting}
    /\ partitioner' = AddToRing(partitioner, inserting)
    /\ inserting' = None
    /\ UNCHANGED <<dead, call>>

-----------------------------------------------------------------------------
(* WriteDataPoint and ReadDataPoints.  The quorum is cut to the length of  *)
(* the list.  They count answers, `got`; `reached` is who gave them.       *)

\* A call that finds fewer nodes than replicas does not come back (Cluster).
Begin(c) ==
    /\ call[c] = NotCalled /\ ~Hopeless(partitioner)
    /\ LET list == Preferred(partitioner, KeyHash)
       IN call' = [call EXCEPT ![c] =
             [pc |-> "running", list |-> list, next |-> 1, reached |-> {}, got |-> 0,
              quorum |-> Smaller(Quorum(c), Len(list)),
              acked |-> {w \in Writers : call[w].pc = "ok"}]]
    /\ UNCHANGED <<nodes, partitioner, inserting, dead>>

\* A write goes at least to the first writeQuorum nodes, and on until it has
\* reached as many; a read stops at readQuorum answers.
GoOn(c) ==
    /\ Running(c) /\ call[c].next <= Len(call[c].list)
    /\ \/ c \in Writers /\ call[c].next <= call[c].quorum
       \/ call[c].got < call[c].quorum

Target(c) == call[c].list[call[c].next]

Reaches(c) ==
    call' = [call EXCEPT ![c].next = @ + 1,
                         ![c].got = @ + 1,
                         ![c].reached = @ \cup {Target(c)}]

Misses(c) == call' = [call EXCEPT ![c].next = @ + 1]

Local(c) ==
    /\ GoOn(c) /\ Target(c) = Self
    /\ Reaches(c)
    /\ UNCHANGED <<nodes, partitioner, inserting, dead>>

\* A request is answered 200, or it fails; it hands the node no point.
Remote(c) ==
    /\ GoOn(c) /\ Target(c) # Self /\ Target(c) \in nodes
    /\ Reaches(c) \/ Misses(c)
    /\ UNCHANGED <<nodes, partitioner, inserting, dead>>

Crash(c) ==
    /\ GoOn(c) /\ Target(c) # Self /\ inserting # None
    /\ dead' = TRUE
    /\ call' = [d \in Calls |-> NotCalled]
    /\ UNCHANGED <<nodes, partitioner, inserting>>

\* Faulty: a call that has reached any node at all succeeds.
FaultyFinish(c) ==
    /\ Running(c) /\ ~GoOn(c)
    /\ call' = [call EXCEPT ![c].pc = IF call[c].got = 0 THEN "failed" ELSE "ok"]
    /\ UNCHANGED <<nodes, partitioner, inserting, dead>>

Finish(c) ==
    /\ Running(c) /\ ~GoOn(c)
    /\ call' = [call EXCEPT ![c].pc =
                   IF call[c].got < call[c].quorum THEN "failed" ELSE "ok"]
    /\ UNCHANGED <<nodes, partitioner, inserting, dead>>

-----------------------------------------------------------------------------
ReplicationNext ==
    /\ ~dead /\ UNCHANGED replication
    /\ \/ \E n \in Nodes : Insert(n)
       \/ Inserted
       \/ \E c \in Calls : Begin(c) \/ Local(c) \/ Remote(c) \/ Crash(c) \/ Finish(c)

ReplicationSpec == ReplicationInit /\ [][ReplicationNext]_replicationVars

-----------------------------------------------------------------------------
ReplicationTypeOK ==
    /\ replication \in [write : 1..ReplicaFactor, read : 1..ReplicaFactor]
    /\ Self \in nodes /\ nodes \subseteq Nodes /\ Owners(partitioner) \subseteq nodes
    /\ inserting \in (Nodes \ nodes) \cup {None}
    /\ dead \in BOOLEAN
    /\ \A c \in Calls :
         call[c] = NotCalled \/ /\ call[c].pc \in {"running", "ok", "failed"}
                                /\ call[c].next \in 1..(Len(call[c].list) + 1)
                                /\ call[c].got \in 0..(call[c].next - 1)
                                /\ call[c].reached \subseteq Range(call[c].list)

Succeeded(c) == call[c].pc = "ok"

\* The nodes the joining one takes a hash away from.
Robbed == {partitioner.owner[h] : h \in DOMAIN partitioner.owner \cap Range(Tokens[inserting])}

\* A node that joins takes keys over and moves no key between the others: it is
\* the only node that can be new among the replicas of any key.  (A hash of the
\* ring stands for all keys between it and the one before.)  Were its hashes to
\* meet those of two other nodes, both could fall back behind a third.
JoinMovesLittle ==
    [][partitioner' # partitioner /\ Cardinality(Robbed) <= 1 =>
         \A h \in DOMAIN partitioner'.owner :
            Range(Preferred(partitioner', h)) \subseteq Range(Preferred(partitioner, h)) \cup {inserting}]_replicationVars

\* A read that succeeds was answered by a node that answered each write
\* acknowledged before it began, when their quorums overlap in the list of the
\* write by more than the nodes that are new in the list of the read (nodes join in
\* between).  It rests on lists that name no node twice, for WriteDataPoint and
\* ReadDataPoints count answers and not nodes.  They meet at a node, which may be
\* the one that runs the code; that it holds the point is not said, and is not so.
QuorumsMeet ==
    \A r \in Readers : Succeeded(r) =>
        \A w \in call[r].acked :
            call[w].quorum + call[r].quorum
                > Len(call[w].list) + Cardinality(Range(call[r].list) \ Range(call[w].list))
            => call[w].reached \cap call[r].reached # {}
=============================================================================
