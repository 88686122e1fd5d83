------------------------------ MODULE Cluster ------------------------------
(***************************************************************************)
(* Membership and routing of ClusterManager, src/enterprise/clustering.go, *)
(* as one node, Self, sees them: the nodes it knows, the rounds of         *)
(* heartbeats that tell which of them are alive, and the hash ring that    *)
(* says where a key lives.  RemoveNode only marks a node: nothing takes it *)
(* out of the map or off the ring.                                         *)
(*                                                                         *)
(* Two locks: cm.mutex guards the nodes, p.mutex the ring.  AddNode waits  *)
(* for the second while it holds the first, and a writer that waits for a  *)
(* Go RWMutex keeps new readers out: `adding` is the node being added.     *)
(*                                                                         *)
(* Time is counted in rounds of 30 s.  A request is answered or given up   *)
(* (after 5 s) before the next round.                                      *)
(***************************************************************************)
EXTENDS HashRing

CONSTANTS
    Clients,        \* callers of GetPartitionForKey
    KeyHashes,      \* hashes of the keys they ask for
    MissLimit       \* rounds in 90 s

\* What the constants are; MCEnterprise ASSUMEs it of its instance.
ClusterAssumption ==
    /\ KeyHashes \subseteq Nat
    /\ MissLimit \in Nat \ {0}

VARIABLES
    status,         \* ClusterNode.Status, "absent" when not in cm.nodes
    age,            \* rounds since LastHeartbeat
    missed,         \* history: heartbeats in a row that got no answer, up to MissLimit - 1
    ring,           \* cm.partitioner
    adding,         \* the node whose AddNode holds cm.mutex and wants the ring
    round,          \* what startHeartbeat does next
    heartbeat,      \* the request to each node: none, sent, answered
    down,           \* nodes that are down for good
    walks           \* what each client does inside GetNodes

clusterVars == <<status, age, missed, ring, adding, round, heartbeat, down, walks>>

Others     == Nodes \ {Self}
Known      == {n \in Nodes : status[n] # "absent"}
Walking(c) == walks[c].pc = "walking"
NoWalk       == [pc |-> "idle"]
Free       == adding = None

ClusterInit ==
    /\ status = [n \in Nodes |-> IF n = Self THEN "active" ELSE "absent"]
    /\ age = [n \in Nodes |-> 0] /\ missed = [n \in Nodes |-> 0]
    /\ ring = AddToRing(EmptyRing, Self)
    /\ adding = None
    /\ round = "wait"
    /\ heartbeat = [n \in Nodes |-> "none"]
    /\ down = {}
    /\ walks = [c \in Clients |-> NoWalk]

-----------------------------------------------------------------------------
(* AddNode and RemoveNode.  AddNode refuses known nodes, RemoveNode unknown *)
(* ones.  Removing Self would only set a status that nothing reads.         *)

AddNode(n) ==
    /\ Free /\ status[n] = "absent"
    /\ status' = [status EXCEPT ![n] = "active"]
    /\ age' = [age EXCEPT ![n] = 0]
    /\ adding' = n
    /\ UNCHANGED <<missed, ring, round, heartbeat, down, walks>>

JoinRing ==
    /\ ~Free /\ ~\E c \in Clients : Walking(c)
    /\ ring' = AddToRing(ring, adding)
    /\ adding' = None
    /\ UNCHANGED <<status, age, missed, round, heartbeat, down, walks>>

RemoveNode(n) ==
    /\ Free /\ n \in Known
    /\ status' = [status EXCEPT ![n] = "draining"]
    /\ UNCHANGED <<age, missed, ring, adding, round, heartbeat, down, walks>>

-----------------------------------------------------------------------------
(* startHeartbeat: at each tick the requests are sent, then the health of  *)
(* the nodes is checked without waiting for the answers.                   *)

Tick ==
    /\ round = "wait" /\ \A n \in Nodes : heartbeat[n] = "none"
    /\ age' = [n \in Nodes |-> IF n \in Known \ {Self} /\ age[n] <= MissLimit
                               THEN age[n] + 1 ELSE age[n]]
    /\ round' = "send"
    /\ UNCHANGED <<status, missed, ring, adding, heartbeat, down, walks>>

SendHeartbeats ==
    /\ round = "send" /\ Free
    /\ heartbeat' = [n \in Nodes |-> IF n \in Known \ {Self} THEN "sent" ELSE "none"]
    /\ round' = "check"
    /\ UNCHANGED <<status, age, missed, ring, adding, down, walks>>

\* A node not heard from for MissLimit rounds is at the limit: it is over it or
\* not, depending on how long the last answer took.
\* Faulty: the limit is one round short.
FaultyTooOld(n, late) == age[n] >= MissLimit \/ (age[n] = MissLimit - 1 /\ n \in late)
TooOld(n, late) == age[n] > MissLimit \/ (age[n] = MissLimit /\ n \in late)

CheckHealth ==
    /\ round = "check" /\ Free
    /\ \E late \in SUBSET {n \in Others : age[n] \in {MissLimit - 1, MissLimit}} :
         status' = [n \in Nodes |-> IF n # Self /\ status[n] = "active" /\ TooOld(n, late)
                                    THEN "inactive" ELSE status[n]]
    /\ round' = "wait"
    /\ UNCHANGED <<age, missed, ring, adding, heartbeat, down, walks>>

\* sendHeartbeatToNode.  The answer counts when it has the lock, whatever became
\* of the node, and makes it active.
Answer(n) ==
    /\ heartbeat[n] = "sent" /\ n \notin down
    /\ heartbeat' = [heartbeat EXCEPT ![n] = "answered"]
    /\ UNCHANGED <<status, age, missed, ring, adding, round, down, walks>>

Heard(n) ==
    /\ heartbeat[n] = "answered" /\ Free
    /\ status' = [status EXCEPT ![n] = "active"]
    /\ age' = [age EXCEPT ![n] = 0]
    /\ missed' = [missed EXCEPT ![n] = 0]
    /\ heartbeat' = [heartbeat EXCEPT ![n] = "none"]
    /\ UNCHANGED <<ring, adding, round, down, walks>>

\* Any request may fail on its way.
\* Faulty: a request that failed counts as answered.
FaultyNoAnswer(n) ==
    /\ heartbeat[n] = "sent" /\ Free
    /\ status' = [status EXCEPT ![n] = "active"]
    /\ age' = [age EXCEPT ![n] = 0]
    /\ heartbeat' = [heartbeat EXCEPT ![n] = "none"]
    /\ UNCHANGED <<missed, ring, adding, round, down, walks>>

NoAnswer(n) ==
    /\ heartbeat[n] = "sent"
    /\ missed' = [missed EXCEPT ![n] = IF @ < MissLimit - 1 THEN @ + 1 ELSE @]
    /\ heartbeat' = [heartbeat EXCEPT ![n] = "none"]
    /\ UNCHANGED <<status, age, ring, adding, round, down, walks>>

\* External: a node goes down for good.  One that comes back has failed to answer
\* for a while.
Fail(n) ==
    /\ n \notin down
    /\ down' = down \cup {n}
    /\ UNCHANGED <<status, age, missed, ring, adding, round, heartbeat, walks>>

-----------------------------------------------------------------------------
(* GetPartitionForKey is GetNodes: one step of its loop is an action. *)

BeginWalk(c, h) ==
    /\ walks[c] = NoWalk /\ Free
    /\ walks' = [walks EXCEPT ![c] =
                    [pc |-> "walking", key |-> h, at |-> Start(ring, h), found |-> <<>>]]
    /\ UNCHANGED <<status, age, missed, ring, adding, round, heartbeat, down>>

WalkStep(c) ==
    /\ Walking(c) /\ GoesOn(ring, walks[c].found)
    /\ LET n == OwnerAt(ring, walks[c].at)
       IN walks' = [walks EXCEPT ![c].at = Clockwise(ring, @),
                                 ![c].found = IF n \in Range(@) THEN @ ELSE Append(@, n)]
    /\ UNCHANGED <<status, age, missed, ring, adding, round, heartbeat, down>>

EndWalk(c) ==
    /\ Walking(c) /\ ~GoesOn(ring, walks[c].found)
    /\ walks' = [walks EXCEPT ![c].pc = "done"]
    /\ UNCHANGED <<status, age, missed, ring, adding, round, heartbeat, down>>

\* The client has its answer, and can ask again.
Return(c) ==
    /\ walks[c].pc = "done"
    /\ walks' = [walks EXCEPT ![c] = NoWalk]
    /\ UNCHANGED <<status, age, missed, ring, adding, round, heartbeat, down>>

-----------------------------------------------------------------------------
ClusterNext ==
    \/ \E n \in Others : \/ AddNode(n) \/ RemoveNode(n)
                         \/ Answer(n) \/ Heard(n) \/ NoAnswer(n) \/ Fail(n)
    \/ JoinRing \/ Tick \/ SendHeartbeats \/ CheckHealth
    \/ \E c \in Clients : \/ \E h \in KeyHashes : BeginWalk(c, h)
                          \/ WalkStep(c) \/ EndWalk(c) \/ Return(c)

ClusterSpec == ClusterInit /\ [][ClusterNext]_clusterVars

\* Goroutines run: the loop of startHeartbeat, each request, AddNode, each walk.
HeartbeatLoop      == Tick \/ SendHeartbeats \/ CheckHealth
HeartbeatToNode(n) == Answer(n) \/ Heard(n) \/ NoAnswer(n)
Walk(c)            == WalkStep(c) \/ EndWalk(c)

Fairness ==
    /\ WF_clusterVars(HeartbeatLoop) /\ \A n \in Others : WF_clusterVars(HeartbeatToNode(n))
    /\ WF_clusterVars(JoinRing) /\ \A c \in Clients : WF_clusterVars(Walk(c))

ClusterFairSpec == ClusterSpec /\ Fairness

-----------------------------------------------------------------------------
ClusterTypeOK ==
    /\ status \in [Nodes -> {"absent", "active", "inactive", "draining"}]
    /\ age \in [Nodes -> 0..(MissLimit + 1)] /\ missed \in [Nodes -> 0..(MissLimit - 1)]
    /\ adding \in Nodes \cup {None}
    /\ round \in {"wait", "send", "check"}
    /\ heartbeat \in [Nodes -> {"none", "sent", "answered"}]
    /\ down \subseteq Others
    /\ Owners(ring) \subseteq Known

\* A walk that holds the read lock of the ring and cannot end.
Trapped(c) == Walking(c) /\ Hopeless(ring)
Frozen     == ~Free /\ \E c \in Clients : Trapped(c)

\* GetNodes ends with exactly the first replicas clockwise from the key, unless
\* the ring has too few nodes for the number of replicas.  Then it never ends:
\* nobody can add a node any more, for a walk in progress keeps the ring as it is.
WalkFate ==
    /\ [][\A c \in Clients : Trapped(c) => Trapped(c)']_clusterVars
    /\ \A c \in Clients :
         Walking(c) ~> \/ walks[c].pc = "done" /\ walks[c].found = Preferred(ring, walks[c].key)
                       \/ Trapped(c)

\* checkNodeHealth calls no node down that has not missed all heartbeats that
\* were due, though it runs before the answers of its own round arrive and beside
\* answers that wait for the lock.
NoFalseAlarm ==
    [][\A n \in Others : status[n] = "active" /\ status'[n] = "inactive"
                           => missed[n] >= MissLimit - 1]_clusterVars

\* A node that stays down is in the end not taken for active, not even by an
\* answer given before it went down: unless a trapped walk has frozen AddNode,
\* and with it everything that needs cm.mutex.
SilentNoticed ==
    \A n \in Others :
        [](n \in down /\ n \in Known => <>[](status[n] # "active" \/ Frozen))
=============================================================================
