------------------------------ MODULE HashRing ------------------------------
(***************************************************************************)
(* The ring of ConsistentHashPartitioner, src/enterprise/clustering.go: a  *)
(* sorted slice of the hashes of all virtual nodes, and a map from each    *)
(* hash to the node that owns it.  Operators only; Cluster and Replication *)
(* keep a ring and take its locks.                                         *)
(*                                                                         *)
(* Hashes are numbers.  Nothing is ever taken off a ring.                  *)
(***************************************************************************)
EXTENDS Naturals, Sequences, FiniteSets, SequencesExt

CONSTANTS
    Nodes,          \* the nodes there can be
    Tokens,         \* the hashes of the virtual nodes of each, hash("node:i")
    ReplicaFactor,  \* p.replicaFactor
    Self,           \* the node that runs the code
    None            \* no node

ASSUME RingAssumption ==
    /\ IsFiniteSet(Nodes)
    /\ Tokens \in [Nodes -> Seq(Nat)] /\ \A n \in Nodes : Tokens[n] # <<>>
    /\ ReplicaFactor \in Nat \ {0}
    /\ Self \in Nodes /\ None \notin Nodes

\* sort.Slice: the k-th of s in order, for each k.  (The prover cannot expand
\* SortSeq of TLC.)
InOrder(s) ==
    LET Upto(t)   == {i \in 1..Len(s) : s[i] <= t}
        Before(t) == {i \in 1..Len(s) : s[i] < t}
    IN [k \in 1..Len(s) |->
          CHOOSE t \in Range(s) : Cardinality(Before(t)) < k /\ k <= Cardinality(Upto(t))]

EmptyRing == [owner |-> <<>>, sorted |-> <<>>]

\* partitioner.AddNode.  A hash that two nodes share belongs to the one added
\* last, and is in the slice twice.
AddToRing(ring, n) ==
    [owner  |-> [h \in DOMAIN ring.owner \cup Range(Tokens[n]) |->
                     IF h \in Range(Tokens[n]) THEN n ELSE ring.owner[h]],
     sorted |-> InOrder(ring.sorted \o Tokens[n])]

Owners(ring) == Range(ring.owner)

\* Faulty: keys are spread over the slice by the remainder of their hash.
FaultyStart(ring, h) == (h % Len(ring.sorted)) + 1

\* The first virtual node at or after hash h; the first of all when there is
\* none.
Start(ring, h) == LET i == SelectInSeq(ring.sorted, LAMBDA t : t >= h)
                  IN IF i = 0 THEN 1 ELSE i

OwnerAt(ring, i) == ring.owner[ring.sorted[i]]
Clockwise(ring, i) == (i % Len(ring.sorted)) + 1

\* The condition of the loop of GetNodes.  What has been seen is compared with
\* the number of hashes, not of nodes.
\* Faulty: the walk goes on until it has seen a node for every hash.
FaultyGoesOn(ring, found) == Cardinality(Range(found)) < Cardinality(DOMAIN ring.owner)
GoesOn(ring, found) ==
    /\ Len(found) < ReplicaFactor
    /\ Cardinality(Range(found)) < Cardinality(DOMAIN ring.owner)

\* No walk of the ring ends: it has too few owners for the number of replicas,
\* and more hashes than owners.
Hopeless(ring) ==
    /\ Cardinality(Owners(ring)) < ReplicaFactor
    /\ Cardinality(Owners(ring)) < Cardinality(DOMAIN ring.owner)

\* The k-th smallest number of S.
Kth(S, k) == CHOOSE i \in S : Cardinality({j \in S : j <= i}) = k

\* What GetNodes is for, without its loop: the first ReplicaFactor owners of
\* one lap from the key's position, each where it occurs first.
Preferred(ring, h) ==
    LET n     == Len(ring.sorted)
        s     == Start(ring, h)
        lap   == [k \in 1..n |-> OwnerAt(ring, ((s + k - 2) % n) + 1)]
        first == {k \in 1..n : \A j \in 1..(k - 1) : lap[j] # lap[k]}
    IN [k \in 1..(IF Cardinality(first) < ReplicaFactor THEN Cardinality(first) ELSE ReplicaFactor)
          |-> lap[Kth(first, k)]]
=============================================================================
