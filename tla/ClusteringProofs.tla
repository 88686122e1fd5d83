--------------------------- MODULE ClusteringProofs ---------------------------
(***************************************************************************)
(* Proofs about Cluster and Replication, for any nodes, rings, callers and *)
(* replica factors.                                                        *)
(***************************************************************************)
EXTENDS Cluster, Replication, FiniteSetTheorems, SequenceTheorems,
        WellFoundedInduction, TLAPS

(***************************************************************************)
(* The ring.                                                               *)
(***************************************************************************)

\* A sequence, of whatever elements.
IsList(s) == s \in Seq(Range(s))

\* A ring that has at least one virtual node, all of them of nodes in S.
RingOK(r, S) == IsList(r.sorted) /\ Len(r.sorted) >= 1 /\ Owners(r) \subseteq S

LEMMA ListOf ==
    ASSUME NEW n \in Nat, NEW s, DOMAIN s = 1..n, s = [k \in 1..n |-> s[k]]
    PROVE  IsList(s) /\ Len(s) = n
<1>1. s \in [1..n -> Range(s)]
  BY DEF Range
<1> QED
  BY <1>1 DEF IsList

LEMMA AddToRingOK ==
    ASSUME NEW r, IsList(r.sorted), NEW n \in Nodes, NEW S, Owners(r) \subseteq S
    PROVE  RingOK(AddToRing(r, n), S \cup {n})
<1> DEFINE s == r.sorted \o Tokens[n]
           t == InOrder(s)
           o == [h \in DOMAIN r.owner \cup Range(Tokens[n]) |->
                     IF h \in Range(Tokens[n]) THEN n ELSE r.owner[h]]
<1>1. Tokens[n] \in Seq(Nat) /\ Len(Tokens[n]) >= 1
  <2>1. Tokens[n] \in Seq(Nat) /\ Tokens[n] # <<>>
    BY RingAssumption
  <2> QED
    BY <2>1
<1>2. Len(s) \in Nat /\ Len(s) >= 1
  <2>1. r.sorted \in Seq(Range(r.sorted) \cup Nat) /\ Tokens[n] \in Seq(Range(r.sorted) \cup Nat)
    BY <1>1 DEF IsList
  <2>2. Len(s) = Len(r.sorted) + Len(Tokens[n])
    BY <2>1, ConcatProperties, Zenon
  <2>3. Len(r.sorted) \in Nat /\ Len(Tokens[n]) \in Nat
    BY <2>1, LenProperties, Zenon
  <2> DEFINE a == Len(r.sorted)
             b == Len(Tokens[n])
  <2>4. a \in Nat /\ b \in Nat /\ b >= 1 /\ Len(s) = a + b
    BY <1>1, <2>2, <2>3, Zenon
  <2> HIDE DEF a, b, s
  <2> QED
    BY <2>4
<1>3. IsList(t) /\ Len(t) = Len(s)
  <2> DEFINE At(k) == CHOOSE x \in Range(s) :
                        /\ Cardinality({i \in 1..Len(s) : s[i] < x}) < k
                        /\ k <= Cardinality({i \in 1..Len(s) : s[i] <= x})
  <2>1. t = [k \in 1..Len(s) |-> At(k)]
    BY Zenon DEF InOrder
  <2>2. DOMAIN t = 1..Len(s) /\ t = [i \in 1..Len(s) |-> t[i]]
    <3> HIDE DEF At, t, s
    <3> QED
      BY <2>1
  <2> HIDE DEF t, s
  <2> QED
    BY <1>2, <2>2, ListOf
<1>4. Range(o) \subseteq S \cup {n}
  BY DEF Owners, Range
<1>5. AddToRing(r, n) = [owner |-> o, sorted |-> t]
  BY DEF AddToRing
<1> HIDE DEF t, s, o
<1> QED
  BY <1>2, <1>3, <1>4, <1>5 DEF RingOK, Owners

\* The first ring: that of Self alone.
LEMMA FirstRingOK == RingOK(AddToRing(EmptyRing, Self), {Self})
<1>1. IsList(EmptyRing.sorted) /\ Owners(EmptyRing) = {}
  BY DEF IsList, EmptyRing, Owners, Range
<1> QED
  <2>1. RingOK(AddToRing(EmptyRing, Self), {} \cup {Self})
    BY <1>1, AddToRingOK, RingAssumption, Zenon
  <2> QED
    BY <2>1, Zenon

\* GetNodes returns between one and ReplicaFactor nodes.
LEMMA PreferredList ==
    ASSUME NEW r, NEW S, RingOK(r, S), NEW h
    PROVE  IsList(Preferred(r, h)) /\ Len(Preferred(r, h)) \in 1..ReplicaFactor
<1> DEFINE n     == Len(r.sorted)
           s     == Start(r, h)
           lap   == [k \in 1..n |-> OwnerAt(r, ((s + k - 2) % n) + 1)]
           first == {k \in 1..n : \A j \in 1..(k - 1) : lap[j] # lap[k]}
           m     == IF Cardinality(first) < ReplicaFactor THEN Cardinality(first) ELSE ReplicaFactor
           list  == [k \in 1..m |-> lap[Kth(first, k)]]
<1>1. n \in Nat \ {0}
  BY DEF RingOK, IsList
<1>2. 1 \in first /\ first \subseteq 1..n
  BY <1>1
<1>3. Cardinality(first) \in Nat \ {0}
  <2> HIDE DEF first, n
  <2>1. IsFiniteSet(1..n)
    BY <1>1, FS_Interval
  <2>2. IsFiniteSet(first)
    BY <1>2, <2>1, FS_Subset
  <2> QED
    BY <1>2, <2>2, FS_CardinalityType, FS_EmptySet
<1>4. m \in Nat /\ m \in 1..ReplicaFactor
  <2> HIDE DEF first
  <2> QED
    BY <1>3, RingAssumption
<1>5. Preferred(r, h) = list
  BY DEF Preferred
<1>6. DOMAIN list = 1..m /\ list = [k \in 1..m |-> list[k]]
  OBVIOUS
<1> HIDE DEF list, m
<1> QED
  BY <1>4, <1>5, <1>6, ListOf

(***************************************************************************)
(* Replication: what holds of each call.                                   *)
(***************************************************************************)

\* The fields of a call; a list of nodes is as long as the ring made it.
CallTyped(c) ==
    /\ call[c] \in [pc : {"running", "ok", "failed"}, list : {call[c].list}, next : Nat \ {0},
                    reached : SUBSET Nodes, got : Nat, quorum : Nat \ {0},
                    acked : SUBSET Writers]
    /\ IsList(call[c].list) /\ call[c].next <= Len(call[c].list) + 1
    /\ call[c].got < call[c].next
    /\ call[c].reached \subseteq Range(call[c].list)

\* A call that succeeded has a quorum of answers, and what was acknowledged when it
\* began stays so.
CallCounts(c) == call[c].pc = "ok" => call[c].got >= call[c].quorum
CallSaw(c)    == \A w \in call[c].acked : call[w].pc = "ok"

CallOK(c) == call[c] = NotCalled \/ (CallTyped(c) /\ CallCounts(c) /\ CallSaw(c))

NodesOK ==
    /\ replication \in [write : 1..ReplicaFactor, read : 1..ReplicaFactor]
    /\ Self \in nodes /\ nodes \subseteq Nodes /\ RingOK(partitioner, nodes)
    /\ inserting \in (Nodes \ nodes) \cup {None}
    /\ dead \in BOOLEAN

CallsOK == call = [c \in Calls |-> call[c]] /\ \A c \in Calls : CallOK(c)

RInv == NodesOK /\ CallsOK

LEMMA ReplicationInitOK == ReplicationInit => RInv
<1> SUFFICES ASSUME ReplicationInit PROVE RInv
  OBVIOUS
<1>1. NodesOK
  BY RingAssumption, FirstRingOK DEF ReplicationInit, NodesOK
<1>2. CallsOK
  BY DEF ReplicationInit, CallsOK, CallOK
<1> QED
  BY <1>1, <1>2 DEF RInv

LEMMA NodesStep == RInv /\ [ReplicationNext]_replicationVars => NodesOK'
<1> SUFFICES ASSUME RInv, [ReplicationNext]_replicationVars PROVE NodesOK'
  OBVIOUS
<1> USE RingAssumption DEF RInv, NodesOK
<1>1. ASSUME NEW n \in Nodes, Insert(n), UNCHANGED replication PROVE NodesOK'
  BY <1>1 DEF Insert
<1>2. ASSUME Inserted, UNCHANGED replication PROVE NodesOK'
  <2>1. inserting \in Nodes
    BY <1>2 DEF Inserted
  <2>2. RingOK(partitioner, nodes)'
    <3>1. IsList(partitioner.sorted) /\ Owners(partitioner) \subseteq nodes
      BY DEF RingOK
    <3>2. RingOK(AddToRing(partitioner, inserting), nodes \cup {inserting})
      BY <2>1, <3>1, AddToRingOK, Zenon
    <3> QED
      BY <1>2, <3>2, Zenon DEF Inserted
  <2> QED
    BY <1>2, <2>1, <2>2 DEF Inserted
<1>3. ASSUME NEW c \in Calls, Begin(c), UNCHANGED replication PROVE NodesOK'
  BY <1>3 DEF Begin
<1>4. ASSUME NEW c \in Calls, Local(c), UNCHANGED replication PROVE NodesOK'
  BY <1>4 DEF Local
<1>5. ASSUME NEW c \in Calls, Remote(c), UNCHANGED replication PROVE NodesOK'
  BY <1>5 DEF Remote
<1>6. ASSUME NEW c \in Calls, Crash(c), UNCHANGED replication PROVE NodesOK'
  BY <1>6 DEF Crash
<1>7. ASSUME NEW c \in Calls, Finish(c), UNCHANGED replication PROVE NodesOK'
  BY <1>7 DEF Finish
<1>8. CASE UNCHANGED replicationVars
  BY <1>8 DEF replicationVars
<1> QED
  BY <1>1, <1>2, <1>3, <1>4, <1>5, <1>6, <1>7, <1>8 DEF ReplicationNext

-----------------------------------------------------------------------------
\* A step of call c leaves the others as they are.
LEMMA OtherCall ==
    ASSUME RInv, NEW c \in Calls, NEW d \in Calls, c # d, call[c].pc # "ok",
           \A e \in Calls \ {c} : call'[e] = call[e]
    PROVE  CallOK(d)'
<1>1. CallOK(d) /\ call'[d] = call[d]
  BY DEF RInv, CallsOK
<1>2. CASE call[d] = NotCalled
  BY <1>1, <1>2 DEF CallOK
<1>3. CASE CallTyped(d) /\ CallCounts(d) /\ CallSaw(d)
  <2>1. CallTyped(d)'
    BY <1>1, <1>3 DEF CallTyped
  <2>2. CallCounts(d)'
    BY <1>1, <1>3 DEF CallTyped, CallCounts
  <2>3. CallSaw(d)'
    <3>1. \A w \in call[d].acked : w \in Calls /\ w # c
      BY <1>3 DEF CallTyped, CallSaw, Calls
    <3> QED
      BY <1>1, <1>3, <3>1 DEF CallSaw
  <2> QED
    BY <2>1, <2>2, <2>3 DEF CallOK
<1> QED
  BY <1>1, <1>2, <1>3 DEF CallOK

LEMMA BeginKeeps ==
    ASSUME RInv, NEW c \in Calls, Begin(c)
    PROVE  CallOK(c)'
<1> DEFINE list == Preferred(partitioner, KeyHash)
           q    == Smaller(Quorum(c), Len(list))
           ok   == {w \in Writers : call[w].pc = "ok"}
<1>1. call'[c] = [pc |-> "running", list |-> list, next |-> 1, reached |-> {}, got |-> 0,
                  quorum |-> q, acked |-> ok]
  BY DEF Begin, RInv, CallsOK
<1>2. IsList(list) /\ Len(list) \in 1..ReplicaFactor
  <2>1. RingOK(partitioner, nodes)
    BY DEF RInv, NodesOK
  <2> QED
    BY <2>1, PreferredList, Zenon
<1>3. q \in Nat \ {0}
  <2>1. Quorum(c) \in 1..ReplicaFactor
    BY DEF Quorum, RInv, NodesOK
  <2> DEFINE l == Len(list)
  <2>2. l \in 1..ReplicaFactor
    BY <1>2
  <2> HIDE DEF l
  <2>3. Smaller(Quorum(c), l) \in Nat \ {0}
    BY <2>1, <2>2, RingAssumption DEF Smaller
  <2> QED
    BY <2>3 DEF l
<1>4. \A w \in ok : call'[w] = call[w]
  BY DEF Begin, NotCalled, Calls, RInv, CallsOK
<1> HIDE DEF list, q
<1>5. CallTyped(c)'
  <2>1. 1 <= Len(list) + 1 /\ 0 < 1
    <3> DEFINE l == Len(list)
    <3>1. l \in 1..ReplicaFactor
      BY <1>2
    <3> HIDE DEF l
    <3>2. 1 <= l + 1
      BY <3>1
    <3> QED
      BY <3>2 DEF l
  <2> QED
    BY <1>1, <1>2, <1>3, <2>1 DEF CallTyped
<1>6. CallCounts(c)' /\ CallSaw(c)'
  BY <1>1, <1>4 DEF CallCounts, CallSaw
<1> QED
  BY <1>5, <1>6 DEF CallOK

\* A call in the middle of its list.
LEMMA TargetInList ==
    ASSUME RInv, NEW c \in Calls, GoOn(c)
    PROVE  /\ call[c].pc = "running" /\ CallTyped(c) /\ CallCounts(c) /\ CallSaw(c)
           /\ Target(c) \in Range(call[c].list)
           /\ call[c].next + 1 <= Len(call[c].list) + 1
<1>1. call[c].pc = "running" /\ CallTyped(c) /\ CallCounts(c) /\ CallSaw(c)
  BY DEF GoOn, Running, RInv, CallsOK, CallOK, NotCalled
<1> DEFINE list == call[c].list
           l == Len(list)
           k == call[c].next
<1>2. l \in Nat /\ DOMAIN list = 1..l
  <2>1. list \in Seq(Range(list))
    BY <1>1 DEF CallTyped, IsList
  <2> HIDE DEF list
  <2> QED
    BY <2>1, LenProperties
<1>3. k \in Nat \ {0} /\ k <= l
  BY <1>1 DEF CallTyped, GoOn
<1> HIDE DEF l, k
<1>4. k \in 1..l /\ k + 1 <= l + 1
  BY <1>2, <1>3
<1>5. Target(c) \in Range(list)
  BY <1>2, <1>4 DEF Target, Range, k
<1> QED
  BY <1>1, <1>4, <1>5 DEF l, k

LEMMA ReachesKeeps ==
    ASSUME RInv, NEW c \in Calls, GoOn(c), Reaches(c), Target(c) \in Nodes
    PROVE  CallOK(c)'
<1>1. /\ call[c].pc = "running" /\ CallTyped(c) /\ CallCounts(c) /\ CallSaw(c)
      /\ Target(c) \in Range(call[c].list)
      /\ call[c].next + 1 <= Len(call[c].list) + 1
  BY TargetInList
<1>2. call'[c] = [call[c] EXCEPT !.next = @ + 1, !.got = @ + 1, !.reached = @ \cup {Target(c)}]
  BY DEF Reaches, RInv, CallsOK
<1>3. /\ call'[c].pc = "running" /\ call'[c].list = call[c].list
      /\ call'[c].next = call[c].next + 1 /\ call'[c].got = call[c].got + 1
      /\ call'[c].reached = call[c].reached \cup {Target(c)}
      /\ call'[c].quorum = call[c].quorum /\ call'[c].acked = call[c].acked
  BY <1>1, <1>2 DEF CallTyped
<1>4. CallTyped(c)'
  <2>1. /\ call[c].next + 1 \in Nat \ {0} /\ call[c].got + 1 \in Nat
        /\ call[c].got + 1 < call[c].next + 1
        /\ call[c].reached \cup {Target(c)} \in SUBSET Nodes
    BY <1>1 DEF CallTyped
  <2>2. call'[c] \in [pc : {"running", "ok", "failed"}, list : {call[c].list}, next : Nat \ {0},
                      reached : SUBSET Nodes, got : Nat, quorum : Nat \ {0},
                      acked : SUBSET Writers]
    BY <1>1, <1>2, <2>1 DEF CallTyped
  <2> QED
    BY <1>1, <1>3, <2>1, <2>2 DEF CallTyped
<1>5. CallCounts(c)'
  BY <1>3 DEF CallCounts
<1>6. CallSaw(c)'
  <2>1. \A w \in call[c].acked : call'[w] = call[w]
    BY <1>1 DEF CallSaw, CallTyped, Reaches, RInv, CallsOK, Calls
  <2> QED
    BY <1>1, <1>3, <2>1 DEF CallSaw
<1> QED
  BY <1>4, <1>5, <1>6 DEF CallOK

LEMMA MissesKeeps ==
    ASSUME RInv, NEW c \in Calls, GoOn(c), Misses(c)
    PROVE  CallOK(c)'
<1>1. /\ call[c].pc = "running" /\ CallTyped(c) /\ CallCounts(c) /\ CallSaw(c)
      /\ call[c].next + 1 <= Len(call[c].list) + 1
  BY TargetInList
<1>2. call'[c] = [call[c] EXCEPT !.next = @ + 1]
  BY DEF Misses, RInv, CallsOK
<1>3. CallTyped(c)'
  BY <1>1, <1>2 DEF CallTyped
<1>4. CallCounts(c)'
  BY <1>1, <1>2 DEF CallTyped, CallCounts
<1>5. CallSaw(c)'
  <2>1. \A w \in call[c].acked : call'[w] = call[w]
    BY <1>1 DEF CallSaw, CallTyped, Misses, RInv, CallsOK, Calls
  <2>2. call'[c].acked = call[c].acked
    BY <1>1, <1>2 DEF CallTyped
  <2> QED
    BY <1>1, <2>1, <2>2 DEF CallSaw
<1> QED
  BY <1>3, <1>4, <1>5 DEF CallOK

LEMMA FinishKeeps ==
    ASSUME RInv, NEW c \in Calls, Finish(c)
    PROVE  CallOK(c)'
<1>1. call[c].pc = "running" /\ CallTyped(c) /\ CallCounts(c) /\ CallSaw(c)
  BY DEF Finish, Running, RInv, CallsOK, CallOK, NotCalled
<1> DEFINE pc == IF call[c].got < call[c].quorum THEN "failed" ELSE "ok"
<1>2. call'[c] = [call[c] EXCEPT !.pc = pc]
  BY DEF Finish, RInv, CallsOK
<1>3. /\ call'[c].pc = pc /\ call'[c].acked = call[c].acked
      /\ call'[c].got = call[c].got /\ call'[c].quorum = call[c].quorum
  BY <1>1, <1>2 DEF CallTyped
<1>4. CallTyped(c)'
  BY <1>1, <1>2 DEF CallTyped
<1>5. CallCounts(c)'
  <2>1. call[c].got \in Nat /\ call[c].quorum \in Nat
    BY <1>1 DEF CallTyped
  <2> QED
    BY <1>3, <2>1 DEF CallCounts
<1>6. CallSaw(c)'
  <2>1. \A w \in call[c].acked : call'[w] = call[w]
    BY <1>1 DEF CallSaw, CallTyped, Finish, RInv, CallsOK, Calls
  <2> QED
    BY <1>1, <1>3, <2>1 DEF CallSaw
<1> QED
  BY <1>4, <1>5, <1>6 DEF CallOK

\* What is known of a call that has ended well.
LEMMA OkCall ==
    ASSUME RInv, NEW c \in Calls, call[c].pc = "ok"
    PROVE  CallTyped(c) /\ CallCounts(c) /\ CallSaw(c)
<1>1. CallOK(c)
  BY DEF RInv, CallsOK
<1>2. call[c] # NotCalled
  BY DEF NotCalled
<1> QED
  BY <1>1, <1>2 DEF CallOK

LEMMA CallsStep == RInv /\ [ReplicationNext]_replicationVars => CallsOK'
<1> SUFFICES ASSUME RInv, [ReplicationNext]_replicationVars PROVE CallsOK'
  OBVIOUS
<1>1. NodesOK /\ call = [c \in Calls |-> call[c]] /\ \A c \in Calls : CallOK(c)
  BY DEF RInv, CallsOK
<1>2. ASSUME NEW c \in Calls, call[c].pc # "ok", CallOK(c)',
             call' = [call EXCEPT ![c] = call'[c]]
      PROVE  CallsOK'
  <2>1. \A e \in Calls \ {c} : call'[e] = call[e]
    BY <1>1, <1>2
  <2>2. \A d \in Calls : CallOK(d)'
    BY <1>2, <2>1, OtherCall
  <2>3. call' = [e \in Calls |-> call'[e]]
    BY <1>1, <1>2
  <2> QED
    BY <2>2, <2>3 DEF CallsOK
<1>3. ASSUME UNCHANGED call PROVE CallsOK'
  BY <1>1, <1>3 DEF CallsOK, CallOK, CallTyped, CallCounts, CallSaw
<1>4. ASSUME NEW c \in Calls, Begin(c) PROVE CallsOK'
  <2>1. CallOK(c)' /\ call[c].pc # "ok"
    BY <1>4, BeginKeeps DEF Begin, NotCalled
  <2>2. call' = [call EXCEPT ![c] = call'[c]]
    BY <1>1, <1>4 DEF Begin
  <2> QED
    BY <1>2, <2>1, <2>2
<1>5. ASSUME NEW c \in Calls, Local(c) PROVE CallsOK'
  <2>1. GoOn(c) /\ Target(c) = Self /\ Reaches(c)
    BY <1>5 DEF Local
  <2>2. CallOK(c)'
    BY <2>1, ReachesKeeps, RingAssumption
  <2>3. call' = [call EXCEPT ![c] = call'[c]] /\ call[c].pc # "ok"
    BY <1>1, <2>1 DEF Reaches, GoOn, Running
  <2> QED
    BY <1>2, <2>1, <2>2, <2>3
<1>6. ASSUME NEW c \in Calls, Remote(c) PROVE CallsOK'
  <2>1. GoOn(c) /\ Target(c) \in Nodes /\ (Reaches(c) \/ Misses(c))
    BY <1>1, <1>6 DEF Remote, NodesOK
  <2>2. CallOK(c)'
    BY <2>1, ReachesKeeps, MissesKeeps
  <2>3. call' = [call EXCEPT ![c] = call'[c]] /\ call[c].pc # "ok"
    BY <1>1, <2>1 DEF Reaches, Misses, GoOn, Running
  <2> QED
    BY <1>2, <2>2, <2>3
<1>7. ASSUME NEW c \in Calls, Crash(c) PROVE CallsOK'
  BY <1>7 DEF Crash, CallsOK, CallOK
<1>8. ASSUME NEW c \in Calls, Finish(c) PROVE CallsOK'
  <2>1. CallOK(c)' /\ call[c].pc # "ok"
    BY <1>8, FinishKeeps DEF Finish, Running
  <2>2. call' = [call EXCEPT ![c] = call'[c]]
    BY <1>1, <1>8 DEF Finish
  <2> QED
    BY <1>2, <2>1, <2>2
<1> QED
  BY <1>3, <1>4, <1>5, <1>6, <1>7, <1>8 DEF ReplicationNext, Insert, Inserted, replicationVars

LEMMA ReplicationInvariant == ReplicationSpec => []RInv
<1>1. ReplicationInit => RInv
  BY ReplicationInitOK
<1>2. RInv /\ [ReplicationNext]_replicationVars => RInv'
  BY NodesStep, CallsStep DEF RInv
<1> QED
  BY <1>1, <1>2, PTL DEF ReplicationSpec

\* The nodes, the ring and the calls are well formed: no call counts more answers
\* than it sent requests (AddNode, WriteDataPoint, ReadDataPoints).
THEOREM ReplicationWellTyped == ReplicationSpec => []ReplicationTypeOK
<1>1. ASSUME RInv PROVE ReplicationTypeOK
  <2>1. NodesOK /\ \A c \in Calls : CallOK(c)
    BY <1>1 DEF RInv, CallsOK
  <2>2. ASSUME NEW c \in Calls, call[c] # NotCalled
        PROVE  /\ call[c].pc \in {"running", "ok", "failed"}
               /\ call[c].next \in 1..(Len(call[c].list) + 1)
               /\ call[c].got \in 0..(call[c].next - 1)
               /\ call[c].reached \subseteq Range(call[c].list)
    <3>1. CallTyped(c)
      BY <2>1, <2>2 DEF CallOK
    <3> DEFINE l == Len(call[c].list)
    <3>2. l \in Nat
      BY <3>1, LenProperties, Zenon DEF CallTyped, IsList
    <3>3. call[c].next \in Nat \ {0} /\ call[c].next <= l + 1
      BY <3>1 DEF CallTyped
    <3> HIDE DEF l
    <3>4. call[c].next \in 1..(l + 1)
      BY <3>2, <3>3
    <3>5. call[c].got \in 0..(call[c].next - 1)
      BY <3>1, <3>3 DEF CallTyped
    <3> QED
      BY <3>1, <3>4, <3>5 DEF CallTyped, l
  <2>3. /\ replication \in [write : 1..ReplicaFactor, read : 1..ReplicaFactor]
        /\ Self \in nodes /\ nodes \subseteq Nodes /\ Owners(partitioner) \subseteq nodes
        /\ inserting \in (Nodes \ nodes) \cup {None}
        /\ dead \in BOOLEAN
    BY <2>1 DEF NodesOK, RingOK
  <2> QED
    BY <2>2, <2>3 DEF ReplicationTypeOK
<1> QED
  BY <1>1, ReplicationInvariant, PTL

\* A list of nodes has no more of them than places.
LEMMA ListCardinality ==
    ASSUME NEW s, IsList(s)
    PROVE  /\ Len(s) \in Nat /\ IsFiniteSet(Range(s)) /\ Cardinality(Range(s)) \in Nat
           /\ Cardinality(Range(s)) <= Len(s)
<1>1. Len(s) \in Nat /\ s \in [1..Len(s) -> Range(s)]
  BY LenProperties DEF IsList
<1>2. s \in Surjection(1..Len(s), Range(s))
  BY <1>1 DEF Surjection, Range
<1>3. IsFiniteSet(1..Len(s)) /\ Cardinality(1..Len(s)) = Len(s)
  <2> DEFINE l == Len(s)
  <2>1. l \in Nat
    BY <1>1
  <2> HIDE DEF l
  <2>2. IsFiniteSet(1..l) /\ Cardinality(1..l) = l
    BY <2>1, FS_Interval
  <2> QED
    BY <2>2 DEF l
<1>4. IsFiniteSet(Range(s)) /\ Cardinality(Range(s)) <= Cardinality(1..Len(s))
  BY <1>2, <1>3, FS_Surjection
<1> QED
  BY <1>1, <1>3, <1>4, FS_CardinalityType

(***************************************************************************)
(* Cluster: the rounds of heartbeats.                                      *)
(***************************************************************************)

\* A node is as old as the answers it missed, and one round older while the answer
\* of this round is due.
AgeExplained(n) ==
    \/ missed[n] = MissLimit - 1
    \/ age[n] <= missed[n] + (IF round = "send" \/ heartbeat[n] # "none" THEN 1 ELSE 0)

ClusterTyped ==
    /\ status \in [Nodes -> {"absent", "active", "inactive", "draining"}]
    /\ age \in [Nodes -> 0..(MissLimit + 1)] /\ missed \in [Nodes -> 0..(MissLimit - 1)]
    /\ adding \in Known \cup {None}
    /\ round \in {"wait", "send", "check"}
    /\ heartbeat \in [Nodes -> {"none", "sent", "answered"}]
    /\ down \subseteq Others
    /\ RingOK(ring, Known)

AgesExplained ==
    /\ \A n \in Nodes : status[n] = "absent" => age[n] = 0
    /\ \A n \in Others : AgeExplained(n)

LEMMA ClusterTypedInit == ASSUME ClusterAssumption PROVE ClusterInit => ClusterTyped
<1> SUFFICES ASSUME ClusterInit PROVE ClusterTyped
  OBVIOUS
<1>1. Known = {Self}
  BY RingAssumption DEF ClusterInit, Known
<1>2. RingOK(ring, Known)
  BY <1>1, FirstRingOK DEF ClusterInit
<1> QED
  BY <1>2 DEF ClusterInit, ClusterTyped, ClusterAssumption

LEMMA AgesInit == ASSUME ClusterAssumption PROVE ClusterInit => AgesExplained
BY DEF ClusterInit, AgesExplained, AgeExplained, Others, ClusterAssumption

\* No step makes a known node unknown.
LEMMA KnownStays ==
    ASSUME ClusterTyped, [ClusterNext]_clusterVars
    PROVE  Known \subseteq Known'
<1> SUFFICES ASSUME NEW m \in Nodes, status[m] # "absent" PROVE status'[m] # "absent"
  BY DEF Known
<1> USE DEF ClusterTyped
<1>1. ASSUME NEW n \in Others, AddNode(n) PROVE status'[m] # "absent"
  BY <1>1 DEF AddNode
<1>2. ASSUME NEW n \in Others, RemoveNode(n) PROVE status'[m] # "absent"
  BY <1>2 DEF RemoveNode
<1>3. ASSUME NEW n \in Others, Heard(n) PROVE status'[m] # "absent"
  BY <1>3 DEF Heard
<1>4. CASE CheckHealth
  BY <1>4 DEF CheckHealth
<1>5. CASE UNCHANGED status
  BY <1>5
<1> QED
  BY <1>1, <1>2, <1>3, <1>4, <1>5
     DEF ClusterNext, clusterVars, Answer, NoAnswer, Fail, JoinRing, Tick, SendHeartbeats,
         BeginWalk, WalkStep, EndWalk, Return

LEMMA RingWiden ==
    ASSUME NEW r, NEW S, NEW T, RingOK(r, S), S \subseteq T
    PROVE  RingOK(r, T)
BY DEF RingOK

LEMMA ClusterTypedStep ==
    ASSUME ClusterAssumption
    PROVE  ClusterTyped /\ [ClusterNext]_clusterVars => ClusterTyped'
<1> SUFFICES ASSUME ClusterTyped, [ClusterNext]_clusterVars PROVE ClusterTyped'
  OBVIOUS
<1>0. Known \subseteq Known' /\ (ring' = ring => RingOK(ring', Known'))
  BY KnownStays, RingWiden DEF ClusterTyped
<1>a. MissLimit \in Nat \ {0}
  BY DEF ClusterAssumption
<1>1. ASSUME NEW n \in Others, AddNode(n) PROVE ClusterTyped'
  <2>1. n \in Nodes /\ n \in Known'
    BY <1>1 DEF AddNode, Known, Others, ClusterTyped
  <2> QED
    BY <1>0, <1>a, <1>1, <2>1 DEF AddNode, ClusterTyped
<1>2. ASSUME NEW n \in Others, RemoveNode(n) PROVE ClusterTyped'
  BY <1>0, <1>2 DEF RemoveNode, ClusterTyped
<1>3. ASSUME NEW n \in Others, Answer(n) PROVE ClusterTyped'
  BY <1>0, <1>3 DEF Answer, ClusterTyped
<1>4. ASSUME NEW n \in Others, Heard(n) PROVE ClusterTyped'
  <2>1. 0 \in 0..(MissLimit + 1) /\ 0 \in 0..(MissLimit - 1)
    BY <1>a
  <2>2. age' \in [Nodes -> 0..(MissLimit + 1)] /\ missed' \in [Nodes -> 0..(MissLimit - 1)]
    BY <1>4, <2>1 DEF Heard, ClusterTyped
  <2> QED
    BY <1>0, <1>4, <2>2 DEF Heard, ClusterTyped
<1>5. ASSUME NEW n \in Others, NoAnswer(n) PROVE ClusterTyped'
  <2> DEFINE k == IF missed[n] < MissLimit - 1 THEN missed[n] + 1 ELSE missed[n]
  <2>0. k \in 0..(MissLimit - 1)
    <3>1. missed[n] \in 0..(MissLimit - 1)
      BY DEF ClusterTyped, Others
    <3> QED
      BY <1>a, <3>1
  <2>1. missed' \in [Nodes -> 0..(MissLimit - 1)]
    <3>1. missed' = [missed EXCEPT ![n] = k]
      BY <1>5 DEF NoAnswer
    <3> HIDE DEF k
    <3> QED
      BY <2>0, <3>1 DEF ClusterTyped
  <2> QED
    BY <1>0, <1>5, <2>1 DEF NoAnswer, ClusterTyped
<1>6. ASSUME NEW n \in Others, Fail(n) PROVE ClusterTyped'
  BY <1>0, <1>6 DEF Fail, ClusterTyped
<1>7. CASE JoinRing
  <2>1. adding \in Known /\ adding \in Nodes
    BY <1>7 DEF JoinRing, Free, ClusterTyped, Known
  <2>2. RingOK(ring', Known \cup {adding})
    <3>1. IsList(ring.sorted) /\ Owners(ring) \subseteq Known
      BY DEF ClusterTyped, RingOK
    <3>2. RingOK(AddToRing(ring, adding), Known \cup {adding})
      BY <2>1, <3>1, AddToRingOK, Zenon
    <3> QED
      BY <1>7, <3>2, Zenon DEF JoinRing
  <2>3. RingOK(ring', Known')
    BY <1>0, <2>1, <2>2, RingWiden
  <2> QED
    BY <1>0, <1>7, <2>3 DEF JoinRing, ClusterTyped
<1>8. CASE Tick
  <2>1. age' \in [Nodes -> 0..(MissLimit + 1)]
    BY <1>a, <1>8 DEF Tick, ClusterTyped
  <2> QED
    BY <1>0, <1>8, <2>1 DEF Tick, ClusterTyped
<1>9. CASE SendHeartbeats
  BY <1>0, <1>9 DEF SendHeartbeats, ClusterTyped
<1>10. CASE CheckHealth
  <2>1. status' \in [Nodes -> {"absent", "active", "inactive", "draining"}]
    BY <1>10 DEF CheckHealth, ClusterTyped
  <2> QED
    BY <1>0, <1>10, <2>1 DEF CheckHealth, ClusterTyped
<1>11. CASE UNCHANGED <<status, age, missed, ring, adding, round, heartbeat, down>>
  BY <1>0, <1>11 DEF ClusterTyped
<1> QED
  BY <1>1, <1>2, <1>3, <1>4, <1>5, <1>6, <1>7, <1>8, <1>9, <1>10, <1>11
     DEF ClusterNext, clusterVars, BeginWalk, WalkStep, EndWalk, Return

LEMMA AgesStep ==
    ASSUME ClusterAssumption
    PROVE  ClusterTyped /\ AgesExplained /\ [ClusterNext]_clusterVars => AgesExplained'
<1> SUFFICES ASSUME ClusterTyped, AgesExplained, [ClusterNext]_clusterVars PROVE AgesExplained'
  OBVIOUS
<1>a. MissLimit \in Nat \ {0} /\ \A n \in Nodes : age[n] \in Nat /\ missed[n] \in Nat
  BY DEF ClusterAssumption, ClusterTyped
<1> USE DEF AgesExplained, AgeExplained, ClusterTyped
<1>1. ASSUME NEW n \in Others, AddNode(n) PROVE AgesExplained'
  BY <1>a, <1>1 DEF AddNode, Others
<1>2. ASSUME NEW n \in Others, RemoveNode(n) PROVE AgesExplained'
  BY <1>a, <1>2 DEF RemoveNode, Others, Known
<1>3. ASSUME NEW n \in Others, Answer(n) PROVE AgesExplained'
  BY <1>a, <1>3 DEF Answer, Others
<1>4. ASSUME NEW n \in Others, Heard(n) PROVE AgesExplained'
  BY <1>a, <1>4 DEF Heard, Others
<1>5. ASSUME NEW n \in Others, NoAnswer(n) PROVE AgesExplained'
  <2>1. n \in Nodes
    BY DEF Others
  <2>2. missed'[n] = missed[n] + 1 \/ missed'[n] = MissLimit - 1
    BY <1>a, <1>5, <2>1 DEF NoAnswer
  <2>3. AgeExplained(n)'
    BY <1>a, <1>5, <2>1, <2>2 DEF NoAnswer
  <2>4. \A m \in Others \ {n} : AgeExplained(m)'
    BY <1>5 DEF NoAnswer, Others
  <2> QED
    BY <1>5, <2>3, <2>4 DEF NoAnswer
<1>6. ASSUME NEW n \in Others, Fail(n) PROVE AgesExplained'
  BY <1>6 DEF Fail
<1>7. CASE JoinRing
  BY <1>7 DEF JoinRing
<1>8. CASE Tick
  BY <1>a, <1>8 DEF Tick, Others, Known
<1>9. CASE SendHeartbeats
  BY <1>a, <1>9 DEF SendHeartbeats, Others, Known
<1>10. CASE CheckHealth
  <2>1. \A m \in Nodes : status'[m] = "absent" => status[m] = "absent"
    BY <1>10 DEF CheckHealth
  <2> QED
    BY <1>a, <1>10, <2>1 DEF CheckHealth
<1>11. CASE UNCHANGED <<status, age, missed, ring, adding, round, heartbeat, down>>
  BY <1>11
<1> QED
  BY <1>1, <1>2, <1>3, <1>4, <1>5, <1>6, <1>7, <1>8, <1>9, <1>10, <1>11
     DEF ClusterNext, clusterVars, BeginWalk, WalkStep, EndWalk, Return

LEMMA ClusterInvariant ==
    ASSUME ClusterAssumption
    PROVE  ClusterSpec => [](ClusterTyped /\ AgesExplained)
<1>1. ClusterInit => ClusterTyped /\ AgesExplained
  BY ClusterTypedInit, AgesInit
<1>2. ClusterTyped /\ AgesExplained /\ [ClusterNext]_clusterVars => (ClusterTyped /\ AgesExplained)'
  BY ClusterTypedStep, AgesStep
<1> QED
  BY <1>1, <1>2, PTL DEF ClusterSpec

\* The manager keeps its types; only nodes it knows are on its ring.
THEOREM ClusterWellTyped ==
    ASSUME ClusterAssumption
    PROVE  ClusterSpec => []ClusterTypeOK
<1>1. ClusterTyped => ClusterTypeOK
  BY DEF ClusterTyped, ClusterTypeOK, RingOK, Known
<1> QED
  BY <1>1, ClusterInvariant, PTL

\* checkNodeHealth marks no node inactive that has not missed every heartbeat due,
\* for any number of nodes and any limit: because a node's age is explained by the
\* answers it missed, and one round more while an answer is on its way.
THEOREM NoNodeFalselyAlarmed ==
    ASSUME ClusterAssumption
    PROVE  ClusterSpec => NoFalseAlarm
<1> DEFINE Alarmed(n) == status[n] = "active" /\ status'[n] = "inactive"
<1>1. ClusterTyped /\ AgesExplained /\ [ClusterNext]_clusterVars
        => [\A n \in Others : Alarmed(n) => missed[n] >= MissLimit - 1]_clusterVars
  <2> SUFFICES ASSUME ClusterTyped, AgesExplained, ClusterNext, NEW n \in Others, Alarmed(n)
               PROVE  missed[n] >= MissLimit - 1
    BY DEF clusterVars
  <2>1. n \in Nodes /\ MissLimit \in Nat \ {0} /\ age[n] \in Nat /\ missed[n] \in Nat
    BY DEF ClusterAssumption, ClusterTyped, Others
  <2>2. CASE CheckHealth
    <3>1. age[n] >= MissLimit
      BY <2>1, <2>2 DEF CheckHealth, TooOld, ClusterTyped
    <3> QED
      BY <2>1, <3>1 DEF AgesExplained, AgeExplained
  <2>3. CASE ~CheckHealth
    <3>1. status' = status \/ \E m \in Others : status' = [status EXCEPT ![m] = "active"]
                                \/ status' = [status EXCEPT ![m] = "draining"]
      BY <2>3 DEF ClusterNext, AddNode, RemoveNode, Answer, Heard, NoAnswer, Fail, JoinRing, Tick,
                  SendHeartbeats, BeginWalk, WalkStep, EndWalk, Return
    <3> QED
      BY <2>1, <3>1 DEF ClusterTyped
  <2> QED
    BY <2>2, <2>3
<1> QED
  BY <1>1, ClusterInvariant, PTL DEF ClusterSpec, NoFalseAlarm

(***************************************************************************)
(* Numbers: the least-number principle, stated for sets, and what follows. *)
(***************************************************************************)

\* < on the numbers, as a relation.
Lesser == {p \in Nat \X Nat : p[1] < p[2]}

\* A set of numbers that is not empty has a least one: by well-founded induction,
\* and in place of it wherever something holds of every number.
LEMMA LeastNumber ==
    ASSUME NEW T, T \subseteq Nat, T # {}
    PROVE  \E x \in T : \A y \in T : x <= y
<1>1. OpToRel(<, Nat) = Lesser
  BY DEF OpToRel, Lesser
<1>2. IsWellFoundedOn(Lesser, Nat)
  BY <1>1, NatLessThanWellFounded
<1>3. PICK x \in T : \A y \in T : ~ (<<y, x>> \in Lesser)
  BY <1>2, WFMin, Zenon
<1>4. ASSUME NEW y \in T PROVE x <= y
  <2>1. x \in Nat /\ y \in Nat /\ <<y, x>> \notin Lesser
    BY <1>3
  <2>2. <<y, x>> \in Lesser <=> y < x
    BY <2>1 DEF Lesser
  <2> QED
    BY <2>1, <2>2
<1> QED
  BY <1>4

\* Of finitely many places of a sequence of numbers, one holds the greatest.
LEMMA GreatestPlace ==
    ASSUME NEW s, NEW I, IsFiniteSet(I), I # {}, \A i \in I : s[i] \in Nat
    PROVE  \E i \in I : \A j \in I : s[j] <= s[i]
<1> DEFINE under(i) == {j \in I : s[j] <= s[i]}
           c == Cardinality(I)
           T == {c - Cardinality(under(i)) : i \in I}
<1>1. \A i \in I : /\ under(i) \subseteq I /\ IsFiniteSet(under(i)) /\ Cardinality(under(i)) \in Nat
                   /\ c \in Nat /\ Cardinality(under(i)) <= c
  BY FS_Subset, FS_CardinalityType
<1>2. T \subseteq Nat /\ T # {}
  <2> HIDE DEF under, c
  <2> QED
    BY <1>1
<1>3. PICK i \in I : \A j \in I : Cardinality(under(j)) <= Cardinality(under(i))
  <2> HIDE DEF under, c
  <2>1. PICK x \in T : \A y \in T : x <= y
    BY <1>2, LeastNumber
  <2>2. PICK i \in I : x = c - Cardinality(under(i))
    OBVIOUS
  <2>3. ASSUME NEW j \in I PROVE Cardinality(under(j)) <= Cardinality(under(i))
    <3>1. c - Cardinality(under(i)) <= c - Cardinality(under(j))
      BY <2>1, <2>2
    <3> QED
      BY <1>1, <3>1
  <2> QED
    BY <2>3
<1>4. ASSUME NEW j \in I, s[i] < s[j] PROVE FALSE
  <2>1. under(i) \subseteq under(j) /\ j \in under(j) /\ j \notin under(i)
    BY <1>4
  <2> HIDE DEF under, c, T
  <2>2. Cardinality(under(i)) <= Cardinality(under(j)) /\ Cardinality(under(i)) # Cardinality(under(j))
    BY <1>1, <2>1, FS_Subset
  <2> QED
    BY <1>1, <1>3, <2>2
<1> QED
  BY <1>4

(***************************************************************************)
(* InOrder sorts.                                                          *)
(***************************************************************************)

\* A sorted slice; the places up to and under a number.
Ascending(s) == \A i, j \in DOMAIN s : i <= j => s[i] <= s[j]
Upto(s, t)   == {i \in 1..Len(s) : s[i] <= t}
Under(s, t)  == {i \in 1..Len(s) : s[i] < t}

\* The places whose number is at most, or under, a bound can be counted.
LEMMA CountFacts ==
    ASSUME NEW s \in Seq(Nat), NEW t \in Nat
    PROVE  /\ IsFiniteSet(Upto(s, t)) /\ Cardinality(Upto(s, t)) \in Nat
           /\ IsFiniteSet(Under(s, t)) /\ Cardinality(Under(s, t)) \in Nat
           /\ Cardinality(Upto(s, t)) <= Len(s)
<1>1. Len(s) \in Nat
  OBVIOUS
<1>2. IsFiniteSet(1..Len(s)) /\ Cardinality(1..Len(s)) = Len(s)
  <2> DEFINE l == Len(s)
  <2> HIDE DEF l
  <2>1. l \in Nat => IsFiniteSet(1..l) /\ Cardinality(1..l) = l
    BY FS_Interval
  <2> QED
    BY <1>1, <2>1 DEF l
<1>3. Upto(s, t) \subseteq 1..Len(s) /\ Under(s, t) \subseteq 1..Len(s)
  BY DEF Upto, Under
<1>4. \A A \in SUBSET (1..Len(s)) : IsFiniteSet(A) /\ Cardinality(A) \in Nat /\ Cardinality(A) <= Len(s)
  BY <1>2, FS_Subset, FS_CardinalityType
<1> QED
  BY <1>1, <1>3, <1>4

\* Fewer places are under t than up to u, when t is no greater.
\* A smaller number has at most as many numbers up to it as the greater has under it.
LEMMA CountOrder ==
    ASSUME NEW s \in Seq(Nat), NEW t \in Nat, NEW u \in Nat
    PROVE  /\ u < t => Cardinality(Upto(s, u)) <= Cardinality(Under(s, t))
           /\ t \in Range(s) => Cardinality(Under(s, t)) < Cardinality(Upto(s, t))
<1>0. \A i \in 1..Len(s) : s[i] \in Nat
  OBVIOUS
<1>1. u < t => Upto(s, u) \subseteq Under(s, t)
  BY <1>0 DEF Upto, Under
<1>2. Under(s, t) \subseteq Upto(s, t)
  BY <1>0 DEF Upto, Under
<1>3. t \in Range(s) => Upto(s, t) # Under(s, t)
  BY <1>0 DEF Upto, Under, Range
<1>4. u < t => Cardinality(Upto(s, u)) <= Cardinality(Under(s, t))
  BY <1>1, CountFacts, FS_Subset
<1>5. t \in Range(s) => Cardinality(Under(s, t)) <= Cardinality(Upto(s, t))
                          /\ Cardinality(Under(s, t)) # Cardinality(Upto(s, t))
  BY <1>2, <1>3, CountFacts, FS_Subset
<1> QED
  BY <1>4, <1>5, CountFacts

\* The k-th number in order: it is there, and it is the only one.
\* t is the k-th of s in order.
Ranked(s, k, t) == Cardinality(Under(s, t)) < k /\ k <= Cardinality(Upto(s, t))

\* Each rank is some element's.
LEMMA RankExists ==
    ASSUME NEW s \in Seq(Nat), NEW k \in 1..Len(s)
    PROVE  \E t \in Range(s) : Ranked(s, k, t)
<1>0. /\ Len(s) \in Nat /\ \A i \in 1..Len(s) : s[i] \in Nat /\ s[i] \in Range(s)
      /\ Range(s) \subseteq Nat /\ \A t \in Range(s) : \E i \in 1..Len(s) : s[i] = t
  BY DEF Range
<1> DEFINE T == {t \in Range(s) : k <= Cardinality(Upto(s, t))}
<1>1. T # {}
  <2>1. IsFiniteSet(1..Len(s)) /\ Cardinality(1..Len(s)) = Len(s)
    <3> DEFINE l == Len(s)
    <3> HIDE DEF l
    <3>1. l \in Nat => IsFiniteSet(1..l) /\ Cardinality(1..l) = l
      BY FS_Interval
    <3> QED
      BY <1>0, <3>1 DEF l
  <2>2. PICK i \in 1..Len(s) : \A j \in 1..Len(s) : s[j] <= s[i]
    BY <1>0, <2>1, GreatestPlace
  <2>3. Upto(s, s[i]) = 1..Len(s)
    BY <2>2 DEF Upto
  <2>4. k <= Cardinality(Upto(s, s[i]))
    BY <1>0, <2>1, <2>3
  <2> QED
    BY <1>0, <2>4
<1>2. PICK t \in T : \A u \in T : t <= u
  <2>1. T \subseteq Nat
    BY <1>0
  <2> HIDE DEF T
  <2> QED
    BY <1>1, <2>1, LeastNumber
<1>3. ASSUME k <= Cardinality(Under(s, t)) PROVE FALSE
  <2>1. Under(s, t) # {} /\ IsFiniteSet(Under(s, t)) /\ t \in Nat
    <3>1. t \in Nat
      BY <1>0
    <3>2. IsFiniteSet(Under(s, t)) /\ Cardinality(Under(s, t)) \in Nat
      BY <3>1, CountFacts
    <3>3. Cardinality(Under(s, t)) # 0
      BY <1>0, <1>3, <3>2
    <3> QED
      BY <3>1, <3>2, <3>3, FS_EmptySet
  <2>2. PICK i \in Under(s, t) : \A j \in Under(s, t) : s[j] <= s[i]
    <3>1. \A j \in Under(s, t) : s[j] \in Nat
      BY <1>0 DEF Under
    <3> QED
      BY <2>1, <3>1, GreatestPlace
  <2>3. s[i] < t /\ s[i] \in Range(s) /\ s[i] \in Nat
    BY <1>0, <2>2 DEF Under
  <2>4. Under(s, t) \subseteq Upto(s, s[i])
    BY <2>2 DEF Under, Upto
  <2>5. Cardinality(Under(s, t)) <= Cardinality(Upto(s, s[i]))
    BY <2>3, <2>4, CountFacts, FS_Subset
  <2>6. s[i] \in T
    <3>1. k <= Cardinality(Upto(s, s[i]))
      <4>1. Cardinality(Under(s, t)) \in Nat /\ Cardinality(Upto(s, s[i])) \in Nat /\ k \in Nat
        <5>1. \A u \in Nat : Cardinality(Under(s, u)) \in Nat /\ Cardinality(Upto(s, u)) \in Nat
          BY CountFacts
        <5>2. Cardinality(Under(s, t)) \in Nat
          BY <2>1, <5>1
        <5>3. Cardinality(Upto(s, s[i])) \in Nat
          BY <2>3, <5>1
        <5>4. k \in Nat
          BY <1>0
        <5> QED
          BY <5>2, <5>3, <5>4
      <4> QED
        BY <1>3, <2>5, <4>1
    <3> QED
      BY <2>3, <3>1
  <2>7. t <= s[i]
    BY <1>2, <2>6
  <2> QED
    BY <2>1, <2>3, <2>7
<1>4. Cardinality(Under(s, t)) < k
  <2>1. Cardinality(Under(s, t)) \in Nat /\ k \in Nat
    BY <1>0, CountFacts
  <2> QED
    BY <1>3, <2>1
<1> QED
  BY <1>4 DEF Ranked

\* A greater rank is of no smaller an element.
LEMMA RankOrder ==
    ASSUME NEW s \in Seq(Nat), NEW j \in Nat, NEW k \in Nat, j <= k,
           NEW t \in Nat, NEW u \in Nat, Ranked(s, j, t), Ranked(s, k, u)
    PROVE  t <= u
<1> SUFFICES ASSUME u < t PROVE FALSE
  OBVIOUS
<1>1. Cardinality(Upto(s, u)) <= Cardinality(Under(s, t))
  BY CountOrder
<1> QED
  BY <1>1, CountFacts DEF Ranked

\* sort.Slice, as the model states it, sorts: the same numbers, in order.
LEMMA InOrderSorts ==
    ASSUME NEW s \in Seq(Nat)
    PROVE  /\ InOrder(s) \in Seq(Nat) /\ Len(InOrder(s)) = Len(s)
           /\ Ascending(InOrder(s)) /\ Range(InOrder(s)) = Range(s)
<1> DEFINE pick(k) == CHOOSE t \in Range(s) : Ranked(s, k, t)
           o == [k \in 1..Len(s) |-> pick(k)]
<1>0. Len(s) \in Nat /\ Range(s) \subseteq Nat /\ \A i \in 1..Len(s) : s[i] \in Nat /\ s[i] \in Range(s)
  BY DEF Range
<1>1. InOrder(s) = o
  BY DEF InOrder, Ranked, Upto, Under
<1>2. \A k \in 1..Len(s) : pick(k) \in Range(s) /\ Ranked(s, k, pick(k))
  BY RankExists
<1>3. \A k \in 1..Len(s) : o[k] = pick(k)
  OBVIOUS
<1>4. DOMAIN o = 1..Len(s)
  OBVIOUS
<1> HIDE DEF pick, o
<1>5. o \in Seq(Nat) /\ Len(o) = Len(s)
  <2>1. o \in [1..Len(s) -> Nat]
    <3>1. \A k \in 1..Len(s) : o[k] \in Nat
      BY <1>0, <1>2, <1>3
    <3>2. o = [k \in 1..Len(s) |-> o[k]]
      BY DEF o
    <3> QED
      BY <3>1, <3>2
  <2> QED
    BY <1>0, <2>1
<1>6. Ascending(o)
  <2> SUFFICES ASSUME NEW i \in 1..Len(s), NEW j \in 1..Len(s), i <= j PROVE pick(i) <= pick(j)
    BY <1>3, <1>4 DEF Ascending
  <2>1. pick(i) \in Nat /\ pick(j) \in Nat
    BY <1>0, <1>2
  <2> QED
    BY <1>0, <1>2, <2>1, RankOrder
<1>7. Range(o) = Range(s)
  <2>1. Range(o) \subseteq Range(s)
    BY <1>2, <1>3, <1>4 DEF Range
  <2>2. ASSUME NEW t \in Range(s) PROVE t \in Range(o)
    <3> DEFINE k == Cardinality(Upto(s, t))
    <3>1. t \in Nat /\ Cardinality(Under(s, t)) < k /\ k \in Nat /\ k <= Len(s) /\ Cardinality(Under(s, t)) \in Nat
      BY <1>0, CountFacts, CountOrder
    <3>2. k \in 1..Len(s) /\ Ranked(s, k, t)
      BY <1>0, <3>1 DEF Ranked
    <3> HIDE DEF k
    <3>3. pick(k) = t
      <4>1. pick(k) \in Nat /\ Ranked(s, k, pick(k)) /\ k \in Nat
        BY <1>0, <1>2, <3>2
      <4>2. pick(k) <= t /\ t <= pick(k)
        BY <3>1, <3>2, <4>1, RankOrder
      <4> QED
        BY <3>1, <4>1, <4>2
    <3> QED
      BY <1>3, <1>4, <3>2, <3>3 DEF Range
  <2> QED
    BY <2>1, <2>2
<1> QED
  BY <1>1, <1>5, <1>6, <1>7

(***************************************************************************)
(* Kth counts.                                                             *)
(***************************************************************************)
\* What Kth counts.
AtMost(S, i) == {j \in S : j <= i}

\* A finite set of numbers that is not empty has a greatest one.
LEMMA Greatest ==
    ASSUME NEW S, S \subseteq Nat, IsFiniteSet(S), S # {}
    PROVE  \E i \in S : \A j \in S : j <= i
<1> DEFINE id == [j \in S |-> j]
<1>1. \A j \in S : id[j] = j
  OBVIOUS
<1> HIDE DEF id
<1>2. PICK i \in S : \A j \in S : id[j] <= id[i]
  <2>1. \A j \in S : id[j] \in Nat
    BY <1>1
  <2> QED
    BY <2>1, GreatestPlace, Zenon
<1> QED
  BY <1>1, <1>2

\* The greater a number of the set, the more of the set is at most that.
LEMMA AtMostFacts ==
    ASSUME NEW S, S \subseteq Nat, IsFiniteSet(S)
    PROVE  /\ Cardinality(S) \in Nat
           /\ \A i \in S : /\ AtMost(S, i) \subseteq S /\ IsFiniteSet(AtMost(S, i))
                           /\ Cardinality(AtMost(S, i)) \in 1..Cardinality(S)
           /\ \A i, j \in S : i < j => Cardinality(AtMost(S, i)) < Cardinality(AtMost(S, j))
<1>1. Cardinality(S) \in Nat /\ \A A \in SUBSET S : IsFiniteSet(A) /\ Cardinality(A) \in Nat
                                                     /\ Cardinality(A) <= Cardinality(S)
  BY FS_Subset, FS_CardinalityType
<1>2. ASSUME NEW i \in S
      PROVE  /\ AtMost(S, i) \subseteq S /\ IsFiniteSet(AtMost(S, i))
             /\ Cardinality(AtMost(S, i)) \in 1..Cardinality(S)
  <2>1. AtMost(S, i) \subseteq S /\ i \in AtMost(S, i)
    BY DEF AtMost
  <2>2. IsFiniteSet(AtMost(S, i)) /\ Cardinality(AtMost(S, i)) # 0
    BY <1>1, <2>1, FS_EmptySet
  <2> QED
    BY <1>1, <2>1, <2>2
<1>3. ASSUME NEW i \in S, NEW j \in S, i < j
      PROVE  Cardinality(AtMost(S, i)) < Cardinality(AtMost(S, j))
  <2>0. i \in Nat /\ j \in Nat /\ \A l \in S : l \in Nat
    OBVIOUS
  <2>1. AtMost(S, i) \subseteq AtMost(S, j) /\ j \in AtMost(S, j) /\ j \notin AtMost(S, i)
    <3>1. \A l \in S : l <= i => l <= j
      BY <1>3, <2>0
    <3>2. ~(j <= i) /\ j <= j
      BY <1>3, <2>0
    <3> QED
      BY <3>1, <3>2 DEF AtMost
  <2>2. Cardinality(AtMost(S, i)) <= Cardinality(AtMost(S, j)) /\ Cardinality(AtMost(S, i)) # Cardinality(AtMost(S, j))
    BY <1>2, <2>1, FS_Subset
  <2> QED
    BY <1>2, <2>2
<1> QED
  BY <1>1, <1>2, <1>3

\* Each number of a set is the k-th of it for its own k.
LEMMA KthIs ==
    ASSUME NEW S, S \subseteq Nat, IsFiniteSet(S), NEW i \in S
    PROVE  Kth(S, Cardinality(AtMost(S, i))) = i
<1> DEFINE k == Cardinality(AtMost(S, i))
<1>1. ASSUME NEW j \in S, Cardinality(AtMost(S, j)) = k PROVE j = i
  <2>1. i \in Nat /\ j \in Nat /\ k \in Nat
    BY AtMostFacts
  <2>2. ~(i < j) /\ ~(j < i)
    <3>1. i < j => k < Cardinality(AtMost(S, j))
      BY AtMostFacts
    <3>2. j < i => Cardinality(AtMost(S, j)) < k
      BY AtMostFacts
    <3> HIDE DEF k
    <3> QED
      BY <1>1, <2>1, <3>1, <3>2
  <2> QED
    BY <2>1, <2>2
<1>2. i \in S /\ Cardinality(AtMost(S, i)) = k
  OBVIOUS
<1>3. Kth(S, k) = CHOOSE j \in S : Cardinality(AtMost(S, j)) = k
  BY DEF Kth, AtMost
<1> HIDE DEF k
<1> QED
  BY <1>1, <1>2, <1>3 DEF k

\* There is a k-th number of a set for every k up to its size.
LEMMA KthExists ==
    ASSUME NEW S, S \subseteq Nat, IsFiniteSet(S), NEW m \in 1..Cardinality(S)
    PROVE  Kth(S, m) \in S /\ Cardinality(AtMost(S, Kth(S, m))) = m
<1> DEFINE T == {i \in S : m <= Cardinality(AtMost(S, i))}
<1>0. Cardinality(S) \in Nat /\ m \in Nat \ {0} /\ m <= Cardinality(S)
  <2>1. Cardinality(S) \in Nat
    BY AtMostFacts
  <2> QED
    BY <2>1
<1>1. T # {}
  <2>1. S # {}
    BY <1>0, FS_EmptySet
  <2>2. PICK i \in S : \A j \in S : j <= i
    BY <2>1, Greatest
  <2>3. AtMost(S, i) = S
    BY <2>2 DEF AtMost
  <2> QED
    BY <1>0, <2>3
<1>2. PICK i \in T : \A j \in T : i <= j
  <2>1. T \subseteq Nat
    OBVIOUS
  <2> HIDE DEF T
  <2> QED
    BY <1>1, <2>1, LeastNumber
<1>3. Cardinality(AtMost(S, i)) = m
  <2> SUFFICES ASSUME Cardinality(AtMost(S, i)) # m PROVE FALSE
    OBVIOUS
  <2> DEFINE R == AtMost(S, i) \ {i}
  <2>1. i \in AtMost(S, i) /\ R \subseteq S /\ R \subseteq Nat
    <3>1. i \in S /\ i \in Nat
      OBVIOUS
    <3>2. i <= i
      BY <3>1
    <3> QED
      BY <3>1, <3>2 DEF AtMost
  <2>2. IsFiniteSet(AtMost(S, i)) /\ Cardinality(AtMost(S, i)) \in Nat
    BY AtMostFacts
  <2>3. IsFiniteSet(R) /\ Cardinality(R) = Cardinality(AtMost(S, i)) - 1
    BY <2>1, <2>2, FS_RemoveElement
  <2>4. m <= Cardinality(R)
    BY <1>0, <2>2, <2>3
  <2>5. R # {}
    BY <1>0, <2>4, FS_EmptySet
  <2> HIDE DEF R
  <2>6. PICK j \in R : \A l \in R : l <= j
    BY <2>1, <2>3, <2>5, Greatest
  <2>7. j \in S /\ j < i /\ j \in Nat /\ i \in Nat
    <3>1. j \in S /\ j <= i /\ j # i
      BY DEF R, AtMost
    <3>2. j \in Nat /\ i \in Nat
      BY <3>1, <2>1
    <3> QED
      BY <3>1, <3>2
  <2>8. AtMost(S, j) = R
    <3>0. \A l \in S : l \in Nat
      OBVIOUS
    <3>1. AtMost(S, j) \subseteq R
      <4>1. \A l \in S : l <= j => l <= i /\ l # i
        BY <2>7, <3>0
      <4> QED
        BY <4>1 DEF R, AtMost
    <3>2. R \subseteq AtMost(S, j)
      BY <2>1, <2>6 DEF AtMost
    <3> QED
      BY <3>1, <3>2
  <2>9. j \in T
    BY <2>4, <2>7, <2>8
  <2> QED
    BY <1>2, <2>7, <2>9
<1>4. Kth(S, m) = i
  BY <1>3, KthIs
<1> QED
  BY <1>3, <1>4

(***************************************************************************)
(* A lap of the ring from a hash.                                          *)
(***************************************************************************)
\* The slice is sorted and holds the keys of the map; RingWell also when empty.
RingSound(r) == /\ r.sorted \in Seq(Nat) /\ Len(r.sorted) >= 1 /\ Ascending(r.sorted)
                /\ Range(r.sorted) = DOMAIN r.owner

\* The virtual nodes from Start on are at or after the key, or none is
\* (sort.Search and the wrap of GetNodes).
LEMMA StartFacts ==
    ASSUME NEW r, RingSound(r), NEW h \in Nat
    PROVE  /\ Start(r, h) \in 1..Len(r.sorted)
           /\ \/ \A i \in 1..Len(r.sorted) : r.sorted[i] >= h <=> i >= Start(r, h)
              \/ Start(r, h) = 1 /\ \A i \in 1..Len(r.sorted) : r.sorted[i] < h
<1> DEFINE n == Len(r.sorted)
           I == {i \in 1..n : r.sorted[i] >= h}
<1>0. n \in Nat \ {0} /\ DOMAIN r.sorted = 1..n /\ \A i \in 1..n : r.sorted[i] \in Nat
  BY DEF RingSound
<1>1. Start(r, h) = IF I # {} THEN Min(I) ELSE 1
  <2>1. SelectInSeq(r.sorted, LAMBDA t : t >= h) = IF I # {} THEN Min(I) ELSE 0
    BY DEF SelectInSeq
  <2>2. I # {} => Min(I) # 0
    <3> SUFFICES ASSUME I # {} PROVE Min(I) # 0
      OBVIOUS
    <3>1. I \subseteq Nat
      BY <1>0
    <3>2. \E x \in I : \A y \in I : x <= y
      BY <3>1, LeastNumber
    <3>3. Min(I) \in I
      BY <3>2 DEF Min
    <3> QED
      BY <1>0, <3>3
  <2> HIDE DEF I
  <2> QED
    BY <2>1, <2>2 DEF Start
<1>2. CASE I # {}
  <2>1. I \subseteq Nat
    BY <1>0
  <2>2. PICK x \in I : \A y \in I : x <= y
    BY <1>2, <2>1, LeastNumber
  <2>3. Min(I) \in I /\ \A y \in I : Min(I) <= y
    BY <2>2 DEF Min
  <2> DEFINE s == Start(r, h)
  <2>4. s \in I /\ \A y \in I : s <= y
    BY <1>1, <1>2, <2>3
  <2> HIDE DEF s
  <2>5. ASSUME NEW i \in 1..n PROVE r.sorted[i] >= h <=> i >= s
    <3>1. r.sorted[i] >= h => i >= s
      BY <1>0, <2>4
    <3>2. i >= s => r.sorted[s] <= r.sorted[i]
      BY <1>0, <2>4 DEF RingSound, Ascending
    <3>3. r.sorted[s] >= h /\ r.sorted[s] \in Nat /\ r.sorted[i] \in Nat
      BY <1>0, <2>4
    <3> QED
      BY <3>1, <3>2, <3>3
  <2> QED
    BY <1>0, <2>4, <2>5 DEF s
<1>3. CASE I = {}
  <2>1. \A i \in 1..n : r.sorted[i] < h
    BY <1>0, <1>3
  <2> QED
    BY <1>0, <1>1, <1>3, <2>1
<1> QED
  BY <1>2, <1>3

\* The place in the slice of the k-th stop of a lap, and the stop at a place.
Place(r, h, k) == ((Start(r, h) + k - 2) % Len(r.sorted)) + 1
Stop(r, h, p)  == IF p >= Start(r, h) THEN p - Start(r, h) + 1
                  ELSE p - Start(r, h) + 1 + Len(r.sorted)
Lap(r, h)      == [k \in 1..Len(r.sorted) |-> OwnerAt(r, Place(r, h, k))]

\* The remainder at most one turn away.
LEMMA Wraps ==
    ASSUME NEW n \in Nat \ {0}, NEW a \in Nat
    PROVE  (a < n => a % n = a) /\ (n <= a /\ a < 2 * n => a % n = a - n)
<1>1. a % n \in 0..(n-1) /\ a = n * (a \div n) + (a % n) /\ a \div n \in Nat
  OBVIOUS
<1> QED
  BY <1>1

\* A lap stops at every place of the slice once.
LEMMA StopsAndPlaces ==
    ASSUME NEW r, RingSound(r), NEW h \in Nat
    PROVE  /\ \A k \in 1..Len(r.sorted) : /\ Place(r, h, k) \in 1..Len(r.sorted)
                                          /\ Stop(r, h, Place(r, h, k)) = k
           /\ \A p \in 1..Len(r.sorted) : /\ Stop(r, h, p) \in 1..Len(r.sorted)
                                          /\ Place(r, h, Stop(r, h, p)) = p
<1> DEFINE n == Len(r.sorted)
           s == Start(r, h)
<1>1. n \in Nat \ {0} /\ s \in 1..n
  BY StartFacts DEF RingSound
<1> HIDE DEF n, s
<1>2. \A k \in 1..n : s + k - 2 \in Nat /\ s + k - 2 < 2 * n
  BY <1>1
<1>3a. \A a \in Nat : (a < n => a % n = a) /\ (n <= a /\ a < 2 * n => a % n = a - n)
  BY <1>1, Wraps, Zenon
<1>3. ASSUME NEW k \in 1..n
      PROVE  (s + k - 2) % n = (IF s + k - 2 < n THEN s + k - 2 ELSE s + k - 2 - n)
  <2>1. PICK a \in Nat : a = s + k - 2
    BY <1>2
  <2>2. (a < n => a % n = a) /\ (n <= a /\ a < 2 * n => a % n = a - n)
    BY <1>3a
  <2>3. a % n = (IF a < n THEN a ELSE a - n)
    BY <1>1, <1>2, <2>1, <2>2
  <2>4. (s + k - 2) % n = (IF s + k - 2 < n THEN s + k - 2 ELSE s + k - 2 - n)
    BY <1>1, <2>1, <2>3
  <2> QED
    BY <2>4
<1>4. \A k \in 1..n : LET p == (IF s + k - 2 < n THEN s + k - 2 ELSE s + k - 2 - n) + 1 IN
        p \in 1..n /\ (IF p >= s THEN p - s + 1 ELSE p - s + 1 + n) = k
  BY <1>1
<1>5. \A p \in 1..n : LET k == IF p >= s THEN p - s + 1 ELSE p - s + 1 + n IN
        k \in 1..n /\ (IF s + k - 2 < n THEN s + k - 2 ELSE s + k - 2 - n) + 1 = p
  BY <1>1
<1> QED
  BY <1>3, <1>4, <1>5 DEF Place, Stop, n, s

\* Hash t comes before hash u on the way from h.
Before(h, t, u) == \/ t >= h /\ u < h
                   \/ (t >= h <=> u >= h) /\ t < u

\* The stops of a lap are in the order of the hashes, from the key's hash on.
LEMMA LapOrder ==
    ASSUME NEW r, RingSound(r), NEW h \in Nat,
           NEW p \in 1..Len(r.sorted), NEW q \in 1..Len(r.sorted)
    PROVE  /\ Before(h, r.sorted[p], r.sorted[q]) => Stop(r, h, p) < Stop(r, h, q)
           /\ Stop(r, h, p) < Stop(r, h, q) /\ r.sorted[p] # r.sorted[q]
                => Before(h, r.sorted[p], r.sorted[q])
<1> DEFINE n == Len(r.sorted)
           s == Start(r, h)
<1>1. n \in Nat \ {0} /\ s \in 1..n /\ p \in 1..n /\ q \in 1..n
  BY StartFacts DEF RingSound
<1>2. r.sorted[p] \in Nat /\ r.sorted[q] \in Nat
  BY DEF RingSound
<1>3. (p <= q => r.sorted[p] <= r.sorted[q]) /\ (q <= p => r.sorted[q] <= r.sorted[p])
  <2>1. p \in DOMAIN r.sorted /\ q \in DOMAIN r.sorted
    BY DEF RingSound
  <2> QED
    BY <2>1, Zenon DEF RingSound, Ascending
<1>4. \/ (r.sorted[p] >= h <=> p >= s) /\ (r.sorted[q] >= h <=> q >= s)
      \/ s = 1 /\ r.sorted[p] < h /\ r.sorted[q] < h
  BY StartFacts
<1>5. Stop(r, h, p) = (IF p >= s THEN p - s + 1 ELSE p - s + 1 + n)
      /\ Stop(r, h, q) = (IF q >= s THEN q - s + 1 ELSE q - s + 1 + n)
  BY DEF Stop
<1> DEFINE t == r.sorted[p]
           u == r.sorted[q]
<1> HIDE DEF n, s
<1>6. /\ Before(h, t, u) => Stop(r, h, p) < Stop(r, h, q)
      /\ Stop(r, h, p) < Stop(r, h, q) /\ t # u => Before(h, t, u)
  <2> HIDE DEF t, u
  <2>1. t \in Nat /\ u \in Nat /\ (p <= q => t <= u) /\ (q <= p => u <= t)
        /\ (((t >= h <=> p >= s) /\ (u >= h <=> q >= s)) \/ (s = 1 /\ t < h /\ u < h))
    BY <1>2, <1>3, <1>4 DEF t, u
  <2> QED
    BY <1>1, <1>5, <2>1 DEF Before
<1> QED
  BY <1>6

\* The stops of a lap at an owner not met before.
Firsts(r, h) == {k \in 1..Len(r.sorted) : \A j \in 1..(k - 1) : Lap(r, h)[j] # Lap(r, h)[k]}

\* Preferred in the terms of a lap.
LEMMA PreferredIs ==
    ASSUME NEW r, NEW h
    PROVE  Preferred(r, h) =
             [k \in 1..(IF Cardinality(Firsts(r, h)) < ReplicaFactor
                        THEN Cardinality(Firsts(r, h)) ELSE ReplicaFactor)
                |-> Lap(r, h)[Kth(Firsts(r, h), k)]]
BY DEF Preferred, Firsts, Lap, Place

\* What a lap meets are owners, and where it meets one first is one place.
LEMMA LapFacts ==
    ASSUME NEW r, RingSound(r), NEW h \in Nat
    PROVE  /\ Firsts(r, h) \subseteq 1..Len(r.sorted) /\ Firsts(r, h) \subseteq Nat
           /\ IsFiniteSet(Firsts(r, h))
           /\ \A k \in 1..Len(r.sorted) : /\ r.sorted[Place(r, h, k)] \in DOMAIN r.owner
                                          /\ Lap(r, h)[k] = r.owner[r.sorted[Place(r, h, k)]]
                                          /\ Lap(r, h)[k] \in Owners(r)
           /\ \A j, k \in Firsts(r, h) : Lap(r, h)[j] = Lap(r, h)[k] => j = k
<1> DEFINE n == Len(r.sorted)
           l == Lap(r, h)
           F == Firsts(r, h)
<1>1. n \in Nat /\ Range(r.sorted) = DOMAIN r.owner /\ DOMAIN r.sorted = 1..n
  BY DEF RingSound
<1>2. F \subseteq 1..n /\ F \subseteq Nat
  BY <1>1 DEF Firsts
<1>3. IsFiniteSet(F)
  <2>1. IsFiniteSet(1..n)
    BY <1>1, FS_Interval
  <2> QED
    BY <1>2, <2>1, FS_Subset
<1>4. ASSUME NEW k \in 1..n
      PROVE  /\ r.sorted[Place(r, h, k)] \in DOMAIN r.owner
             /\ l[k] = r.owner[r.sorted[Place(r, h, k)]] /\ l[k] \in Owners(r)
  <2>1. Place(r, h, k) \in DOMAIN r.sorted
    BY <1>1, StopsAndPlaces
  <2>2. r.sorted[Place(r, h, k)] \in DOMAIN r.owner
    BY <1>1, <2>1 DEF Range
  <2>3. l[k] = r.owner[r.sorted[Place(r, h, k)]]
    BY DEF Lap, OwnerAt
  <2> QED
    BY <2>2, <2>3 DEF Owners, Range
<1>6. ASSUME NEW j \in F, NEW k \in F, l[j] = l[k]
      PROVE  j = k
  <2>1. j \in 1..n /\ k \in 1..n /\ j \in Nat /\ k \in Nat
    BY <1>2
  <2>2. ~(j \in 1..(k - 1)) /\ ~(k \in 1..(j - 1))
    BY <1>6 DEF Firsts
  <2> HIDE DEF F, l
  <2> QED
    BY <1>1, <2>1, <2>2
<1> QED
  BY <1>2, <1>3, <1>4, <1>6

\* A lap meets every hash.
LEMMA LapMeets ==
    ASSUME NEW r, RingSound(r), NEW h \in Nat, NEW t \in DOMAIN r.owner
    PROVE  \E k \in 1..Len(r.sorted) : r.sorted[Place(r, h, k)] = t /\ Lap(r, h)[k] = r.owner[t]
<1>1. PICK p \in 1..Len(r.sorted) : r.sorted[p] = t
  BY DEF RingSound, Range
<1>2. Stop(r, h, p) \in 1..Len(r.sorted) /\ Place(r, h, Stop(r, h, p)) = p
  BY StopsAndPlaces
<1>3. Lap(r, h)[Stop(r, h, p)] = r.owner[t]
  BY <1>1, <1>2, LapFacts
<1> QED
  BY <1>1, <1>2, <1>3

\* What a lap meets it has met first.
LEMMA LapFirst ==
    ASSUME NEW r, RingSound(r), NEW h \in Nat, NEW k \in 1..Len(r.sorted)
    PROVE  \E j \in Firsts(r, h) : j <= k /\ Lap(r, h)[j] = Lap(r, h)[k]
<1> DEFINE n == Len(r.sorted)
           l == Lap(r, h)
           I == {i \in 1..n : l[i] = l[k]}
<1>1. n \in Nat
  BY DEF RingSound
<1>2. I \subseteq Nat /\ k \in I
  BY <1>1
<1>3. PICK j \in I : \A i \in I : j <= i
  BY <1>2, LeastNumber
<1>4. j \in 1..n /\ j <= k /\ l[j] = l[k]
  BY <1>2, <1>3
<1>5. ASSUME NEW i \in 1..(j - 1) PROVE l[i] # l[j]
  <2>1. i \in 1..n /\ ~(j <= i)
    BY <1>1, <1>4
  <2> QED
    BY <1>3, <1>4, <2>1
<1> QED
  BY <1>4, <1>5 DEF Firsts

\* The owners met before o on the way from h.
Closer(r, h, o) ==
    {p \in Owners(r) : \E t \in DOMAIN r.owner :
        r.owner[t] = p /\ \A u \in DOMAIN r.owner : r.owner[u] = o => Before(h, t, u)}

\* The owners closer than one are those met first before it.
LEMMA CloserIs ==
    ASSUME NEW r, RingSound(r), NEW h \in Nat, NEW k \in Firsts(r, h)
    PROVE  Closer(r, h, Lap(r, h)[k]) = {Lap(r, h)[j] : j \in AtMost(Firsts(r, h), k) \ {k}}
<1> DEFINE n == Len(r.sorted)
           l == Lap(r, h)
           F == Firsts(r, h)
           D == AtMost(F, k) \ {k}
<1>0. n \in Nat /\ F \subseteq 1..n /\ k \in 1..n
  <2>1. n \in Nat
    BY DEF RingSound
  <2> QED
    BY <2>1, LapFacts
<1>1. ASSUME NEW j \in D PROVE j \in F /\ j \in 1..n /\ j < k /\ l[j] # l[k]
  <2>1. j \in F /\ j <= k /\ j # k
    BY DEF AtMost
  <2>2. j \in 1..(k - 1)
    BY <1>0, <2>1
  <2> QED
    BY <1>0, <2>1, <2>2 DEF Firsts
<1>2. ASSUME NEW p \in Closer(r, h, l[k]) PROVE p \in {l[j] : j \in D}
  <2>1. PICK t \in DOMAIN r.owner :
            r.owner[t] = p /\ \A u \in DOMAIN r.owner : r.owner[u] = l[k] => Before(h, t, u)
    BY DEF Closer
  <2>2. PICK i \in 1..n : r.sorted[Place(r, h, i)] = t /\ l[i] = p
    BY <2>1, LapMeets
  <2>3. Before(h, t, r.sorted[Place(r, h, k)])
    <3>1. r.sorted[Place(r, h, k)] \in DOMAIN r.owner /\ l[k] = r.owner[r.sorted[Place(r, h, k)]]
      BY <1>0, LapFacts
    <3> HIDE DEF l
    <3> QED
      BY <2>1, <3>1
  <2>4. Stop(r, h, Place(r, h, i)) < Stop(r, h, Place(r, h, k))
    BY <1>0, <2>2, <2>3, StopsAndPlaces, LapOrder
  <2>5. i < k
    BY <1>0, <2>4, StopsAndPlaces
  <2>6. PICK j \in F : j <= i /\ l[j] = p
    BY <2>2, LapFirst
  <2>7. j \in D
    <3>1. j \in Nat /\ k \in Nat /\ i \in Nat
      BY <1>0, <2>6
    <3>2. j <= k /\ j # k
      BY <2>5, <2>6, <3>1
    <3> QED
      BY <2>6, <3>2 DEF AtMost
  <2> QED
    BY <2>6, <2>7
<1>3. ASSUME NEW j \in D PROVE l[j] \in Closer(r, h, l[k])
  <2> DEFINE t == r.sorted[Place(r, h, j)]
  <2>1. t \in DOMAIN r.owner /\ l[j] = r.owner[t] /\ l[j] \in Owners(r)
    BY <1>1, LapFacts
  <2>2. ASSUME NEW u \in DOMAIN r.owner, r.owner[u] = l[k] PROVE Before(h, t, u)
    <3>1. PICK m \in 1..n : r.sorted[Place(r, h, m)] = u /\ l[m] = r.owner[u]
      BY LapMeets
    <3>2. ~(m \in 1..(k - 1))
      BY <1>0, <2>2, <3>1 DEF Firsts
    <3>3. j < m
      BY <1>0, <1>1, <3>1, <3>2
    <3>4. t # u
      BY <1>1, <2>1, <2>2
    <3>5. Place(r, h, j) \in 1..n /\ Place(r, h, m) \in 1..n
          /\ Stop(r, h, Place(r, h, j)) = j /\ Stop(r, h, Place(r, h, m)) = m
      BY <1>1, <3>1, StopsAndPlaces
    <3> QED
      BY <3>1, <3>3, <3>4, <3>5, LapOrder
  <2> HIDE DEF t
  <2> QED
    BY <2>1, <2>2 DEF Closer
<1> HIDE DEF l, D
<1>4. Closer(r, h, l[k]) = {l[j] : j \in D}
  BY <1>2, <1>3
<1> QED
  BY <1>4 DEF l, D

\* The k-th owner that is met has k - 1 closer ones.
LEMMA CloserCount ==
    ASSUME NEW r, RingSound(r), NEW h \in Nat, NEW k \in Firsts(r, h)
    PROVE  /\ IsFiniteSet(Closer(r, h, Lap(r, h)[k]))
           /\ Cardinality(Closer(r, h, Lap(r, h)[k])) = Cardinality(AtMost(Firsts(r, h), k)) - 1
<1> DEFINE l == Lap(r, h)
           F == Firsts(r, h)
           D == AtMost(F, k) \ {k}
           C == {l[j] : j \in D}
           f == [j \in D |-> l[j]]
<1>1. F \subseteq Nat /\ IsFiniteSet(F) /\ k \in F /\ k \in Nat
  BY LapFacts
<1>2. AtMost(F, k) \subseteq F /\ IsFiniteSet(AtMost(F, k)) /\ k \in AtMost(F, k)
  <2>1. k <= k
    BY <1>1
  <2> QED
    BY <1>1, <2>1, AtMostFacts DEF AtMost
<1>3. IsFiniteSet(D) /\ Cardinality(D) = Cardinality(AtMost(F, k)) - 1
  BY <1>2, FS_RemoveElement
<1>4. D \subseteq F
  BY <1>2
<1>5. \A i, j \in D : l[i] = l[j] => i = j
  BY <1>4, LapFacts
<1>6. Closer(r, h, l[k]) = C
  BY CloserIs
<1> HIDE DEF D, l
<1>7. f \in Bijection(D, C)
  <2>1. f \in [D -> C] /\ \A i \in D : f[i] = l[i]
    OBVIOUS
  <2>2. \A c \in C : \E i \in D : f[i] = c
    OBVIOUS
  <2> HIDE DEF f, C
  <2>3. \A i, j \in D : f[i] = f[j] => i = j
    BY <1>5, <2>1
  <2> QED
    BY <2>1, <2>2, <2>3 DEF Bijection, Injection, Surjection, IsInjective
<1>8. IsFiniteSet(C) /\ Cardinality(C) = Cardinality(D)
  <2>1. ExistsBijection(D, C)
    BY <1>7 DEF ExistsBijection
  <2> HIDE DEF C
  <2> QED
    BY <1>3, <2>1, FS_Bijection
<1> QED
  BY <1>3, <1>6, <1>8 DEF l

\* The replicas of a key without the walk: the owners with fewer than ReplicaFactor
\* owners closer to the key.
LEMMA InPreferred ==
    ASSUME NEW r, RingSound(r), NEW h \in Nat, NEW o
    PROVE  o \in Range(Preferred(r, h)) <=>
             o \in Owners(r) /\ Cardinality(Closer(r, h, o)) < ReplicaFactor
<1> DEFINE l == Lap(r, h)
           F == Firsts(r, h)
           c == IF Cardinality(F) < ReplicaFactor THEN Cardinality(F) ELSE ReplicaFactor
<1>0. ReplicaFactor \in Nat \ {0}
  BY RingAssumption
<1>1. F \subseteq Nat /\ IsFiniteSet(F) /\ Cardinality(F) \in Nat
  BY LapFacts, AtMostFacts
<1>2. Range(Preferred(r, h)) = {l[Kth(F, m)] : m \in 1..c}
  BY PreferredIs DEF Range
<1>3. \A k \in F : Cardinality(AtMost(F, k)) \in 1..Cardinality(F)
                   /\ (Cardinality(Closer(r, h, l[k])) < ReplicaFactor
                         <=> Cardinality(AtMost(F, k)) <= ReplicaFactor)
  <2> SUFFICES ASSUME NEW k \in F
               PROVE  Cardinality(AtMost(F, k)) \in 1..Cardinality(F)
                      /\ (Cardinality(Closer(r, h, l[k])) < ReplicaFactor
                            <=> Cardinality(AtMost(F, k)) <= ReplicaFactor)
    OBVIOUS
  <2>1. Cardinality(AtMost(F, k)) \in 1..Cardinality(F)
    BY <1>1, AtMostFacts
  <2>2. Cardinality(Closer(r, h, l[k])) = Cardinality(AtMost(F, k)) - 1
    BY CloserCount
  <2> QED
    BY <1>0, <1>1, <2>1, <2>2
<1>4. ASSUME o \in Range(Preferred(r, h))
      PROVE  o \in Owners(r) /\ Cardinality(Closer(r, h, o)) < ReplicaFactor
  <2>1. PICK m \in 1..c : o = l[Kth(F, m)]
    BY <1>2, <1>4
  <2>2. m \in 1..Cardinality(F) /\ m <= ReplicaFactor
    BY <1>0, <1>1, <2>1
  <2>3. Kth(F, m) \in F /\ Cardinality(AtMost(F, Kth(F, m))) = m
    BY <1>1, <2>2, KthExists
  <2>4. Kth(F, m) \in 1..Len(r.sorted)
    BY <2>3, LapFacts
  <2>5. o \in Owners(r)
    BY <2>1, <2>4, LapFacts
  <2> QED
    BY <1>3, <2>1, <2>2, <2>3, <2>5
<1>5. ASSUME o \in Owners(r), Cardinality(Closer(r, h, o)) < ReplicaFactor
      PROVE  o \in Range(Preferred(r, h))
  <2>1. PICK t \in DOMAIN r.owner : r.owner[t] = o
    BY <1>5 DEF Owners, Range
  <2>2. PICK i \in 1..Len(r.sorted) : l[i] = o
    BY <2>1, LapMeets
  <2>3. PICK k \in F : l[k] = o
    BY <2>2, LapFirst
  <2> DEFINE m == Cardinality(AtMost(F, k))
  <2>4. m \in 1..Cardinality(F) /\ m <= ReplicaFactor
    BY <1>3, <1>5, <2>3
  <2>5. Kth(F, m) = k
    BY <1>1, KthIs
  <2>6. m \in 1..c
    BY <1>0, <1>1, <2>4
  <2> HIDE DEF m
  <2> QED
    BY <1>2, <2>3, <2>5, <2>6
<1> QED
  BY <1>4, <1>5

(***************************************************************************)
(* AddNode on a ring.                                                      *)
(***************************************************************************)
RingWell(r) == r.sorted \in Seq(Nat) /\ Ascending(r.sorted) /\ Range(r.sorted) = DOMAIN r.owner

\* Adding a node gives it its hashes and leaves the others alone.
LEMMA AddToRingOwner ==
    ASSUME NEW r, NEW n
    PROVE  LET new == AddToRing(r, n) IN
           /\ DOMAIN new.owner = DOMAIN r.owner \cup Range(Tokens[n])
           /\ \A h \in Range(Tokens[n]) : new.owner[h] = n
           /\ \A h \in DOMAIN r.owner \ Range(Tokens[n]) : new.owner[h] = r.owner[h]
BY DEF AddToRing

\* Adding a node keeps the slice sorted, and in step with the map.
LEMMA AddToRingSound ==
    ASSUME NEW r, RingWell(r), NEW n \in Nodes
    PROVE  RingSound(AddToRing(r, n))
<1> DEFINE s == r.sorted \o Tokens[n]
           new == AddToRing(r, n)
<1>1. Tokens[n] \in Seq(Nat) /\ Tokens[n] # <<>> /\ r.sorted \in Seq(Nat)
  BY RingAssumption DEF RingWell
<1> DEFINE a == Len(r.sorted)
           b == Len(Tokens[n])
<1>2. /\ s \in Seq(Nat) /\ a \in Nat /\ b \in Nat \ {0} /\ Len(s) = a + b
      /\ \A i \in 1..(a + b) : s[i] = IF i <= a THEN r.sorted[i] ELSE Tokens[n][i - a]
      /\ DOMAIN s = 1..(a + b) /\ DOMAIN r.sorted = 1..a /\ DOMAIN Tokens[n] = 1..b
  <2>1. /\ s \in Seq(Nat) /\ Len(s) = a + b
        /\ \A i \in 1..(a + b) : s[i] = IF i <= a THEN r.sorted[i] ELSE Tokens[n][i - a]
    BY <1>1, ConcatProperties, Zenon
  <2>2. a \in Nat /\ b \in Nat /\ b # 0
    BY <1>1
  <2>3. DOMAIN s = 1..Len(s) /\ DOMAIN r.sorted = 1..a /\ DOMAIN Tokens[n] = 1..b
    BY <1>1, <2>1, LenProperties, Zenon
  <2> HIDE DEF a, b, s
  <2> QED
    BY <2>1, <2>2, <2>3
<1> HIDE DEF s, a, b
<1>3. Range(s) = Range(r.sorted) \cup Range(Tokens[n])
  <2>1. \A i \in 1..a : i \in DOMAIN s /\ s[i] = r.sorted[i]
    BY <1>2
  <2>2. \A i \in 1..b : a + i \in DOMAIN s /\ s[a + i] = Tokens[n][i]
    <3> SUFFICES ASSUME NEW i \in 1..b PROVE a + i \in DOMAIN s /\ s[a + i] = Tokens[n][i]
      OBVIOUS
    <3>1. a + i \in 1..(a + b) /\ ~(a + i <= a) /\ (a + i) - a = i
      BY <1>2
    <3> QED
      BY <1>2, <3>1
  <2>3. ASSUME NEW i \in DOMAIN s PROVE s[i] \in Range(r.sorted) \cup Range(Tokens[n])
    <3>1. i \in 1..(a + b) /\ (i <= a => i \in 1..a) /\ (~(i <= a) => i - a \in 1..b)
      BY <1>2
    <3> QED
      BY <1>2, <3>1 DEF Range
  <2>4. Range(s) \subseteq Range(r.sorted) \cup Range(Tokens[n])
    <3>1. ASSUME NEW x \in Range(s) PROVE x \in Range(r.sorted) \cup Range(Tokens[n])
      <4>1. PICK i \in DOMAIN s : x = s[i]
        BY DEF Range
      <4> QED
        BY <2>3, <4>1
    <3> QED
      BY <3>1
  <2>5. Range(r.sorted) \subseteq Range(s)
    BY <1>2, <2>1 DEF Range
  <2>6. Range(Tokens[n]) \subseteq Range(s)
    <3>1. ASSUME NEW x \in Range(Tokens[n]) PROVE x \in Range(s)
      <4>1. PICK i \in 1..b : x = Tokens[n][i]
        BY <1>2 DEF Range
      <4>2. a + i \in DOMAIN s /\ s[a + i] = x
        BY <2>2, <4>1
      <4> QED
        BY <4>2 DEF Range
    <3> QED
      BY <3>1
  <2> QED
    BY <2>4, <2>5, <2>6
<1>4. new.sorted = InOrder(s)
  BY DEF AddToRing, s
<1>5. /\ InOrder(s) \in Seq(Nat) /\ Len(InOrder(s)) = Len(s)
      /\ Ascending(InOrder(s)) /\ Range(InOrder(s)) = Range(s)
  BY <1>2, InOrderSorts
<1>6. DOMAIN new.owner = Range(s)
  BY <1>3, AddToRingOwner DEF RingWell
<1> HIDE DEF new
<1>7. RingSound(new)
  BY <1>2, <1>4, <1>5, <1>6 DEF RingSound
<1> QED
  BY <1>7 DEF new

\* The first ring is sound.
LEMMA FirstRingSound == RingSound(AddToRing(EmptyRing, Self))
<1>1. RingWell(EmptyRing)
  BY DEF RingWell, EmptyRing, Ascending, Range
<1> QED
  BY <1>1, AddToRingSound, RingAssumption

\* Those that lose a hash when n joins.
Losers(r, n) == {r.owner[h] : h \in DOMAIN r.owner \cap Range(Tokens[n])}

\* The closer owners can be counted.
LEMMA CloserCounts ==
    ASSUME NEW r, RingSound(r), NEW S, Owners(r) \subseteq S, IsFiniteSet(S), NEW h, NEW o
    PROVE  IsFiniteSet(Closer(r, h, o)) /\ Cardinality(Closer(r, h, o)) \in Nat
<1>1. Closer(r, h, o) \subseteq S
  BY DEF Closer
<1> QED
  BY <1>1, FS_Subset, FS_CardinalityType

\* When a node joins and takes hashes from at most one other, no other node has fewer
\* owners closer than before: for the one that may have lost its place, n is there.
LEMMA CloserGrows ==
    ASSUME NEW r, RingSound(r), NEW n \in Nodes, Owners(r) \subseteq Nodes \ {n},
           RingSound(AddToRing(r, n)), Owners(AddToRing(r, n)) \subseteq Nodes,
           Cardinality(Losers(r, n)) <= 1, NEW h \in Nat, NEW o, o # n
    PROVE  Cardinality(Closer(r, h, o)) <= Cardinality(Closer(AddToRing(r, n), h, o))
<1> DEFINE new == AddToRing(r, n)
           C == Closer(r, h, o)
           D == Closer(new, h, o)
           X == Range(Tokens[n])
<1>1. /\ DOMAIN new.owner = DOMAIN r.owner \cup X
      /\ \A t \in X : new.owner[t] = n
      /\ \A t \in DOMAIN r.owner \ X : new.owner[t] = r.owner[t]
  BY AddToRingOwner
<1>2. /\ IsFiniteSet(C) /\ Cardinality(C) \in Nat
      /\ IsFiniteSet(D) /\ Cardinality(D) \in Nat
  <2>1. IsFiniteSet(Nodes) /\ Owners(r) \subseteq Nodes
    BY RingAssumption
  <2> HIDE DEF new
  <2> QED
    BY <2>1, CloserCounts DEF new
<1> HIDE DEF new, X
<1>3. \A u \in DOMAIN new.owner : new.owner[u] = o => u \in DOMAIN r.owner /\ r.owner[u] = o
  BY <1>1
<1>4. ASSUME NEW p \in C, NEW t \in DOMAIN r.owner, r.owner[t] = p,
             \A u \in DOMAIN r.owner : r.owner[u] = o => Before(h, t, u)
      PROVE  \/ t \notin X /\ p \in D
             \/ t \in X /\ p \in Losers(r, n) /\ n \in D
  <2>1. \A u \in DOMAIN new.owner : new.owner[u] = o => Before(h, t, u)
    BY <1>3, <1>4
  <2>2. t \in DOMAIN new.owner /\ new.owner[t] \in Owners(new)
    BY <1>1 DEF Owners, Range
  <2>3. new.owner[t] \in D
    BY <2>1, <2>2 DEF Closer
  <2>4. CASE t \in X
    <3>1. p \in Losers(r, n)
      BY <1>4, <2>4 DEF Losers, X
    <3> QED
      BY <1>1, <2>3, <2>4, <3>1
  <2>5. CASE t \notin X
    BY <1>1, <1>4, <2>3, <2>5
  <2> QED
    BY <2>4, <2>5
<1>5. ASSUME NEW p \in C PROVE p \in D \/ (p \in Losers(r, n) /\ n \in D)
  <2>1. PICK t \in DOMAIN r.owner :
            r.owner[t] = p /\ \A u \in DOMAIN r.owner : r.owner[u] = o => Before(h, t, u)
    BY DEF Closer
  <2> QED
    BY <1>4, <2>1
<1>6. n \notin C
  BY DEF Closer
<1>7. IsFiniteSet(Losers(r, n))
  <2>1. Losers(r, n) \subseteq Nodes
    BY DEF Losers, Owners, Range
  <2> QED
    BY <2>1, FS_Subset, RingAssumption
<1>8. \A p, q \in Losers(r, n) : p = q
  <2> SUFFICES ASSUME NEW p \in Losers(r, n), NEW q \in Losers(r, n), p # q PROVE FALSE
    OBVIOUS
  <2>1. {p, q} \subseteq Losers(r, n)
    OBVIOUS
  <2>2. Cardinality({p, q}) = 2
    <3>1. IsFiniteSet({p}) /\ Cardinality({p}) = 1
      BY FS_Singleton
    <3>2. Cardinality({p} \cup {q}) = Cardinality({p}) + 1
      BY <3>1, FS_AddElement
    <3>3. {p} \cup {q} = {p, q}
      OBVIOUS
    <3> QED
      BY <3>1, <3>2, <3>3
  <2>3. 2 <= Cardinality(Losers(r, n)) /\ Cardinality(Losers(r, n)) \in Nat
    BY <1>7, <2>1, <2>2, FS_Subset, FS_CardinalityType
  <2> QED
    BY <2>3
<1> HIDE DEF C, D
<1>9. C \subseteq D => Cardinality(C) <= Cardinality(D)
  BY <1>2, FS_Subset
<1>10. ASSUME ~(C \subseteq D) PROVE Cardinality(C) <= Cardinality(D)
  <2>1. PICK p \in C : p \notin D
    BY <1>10
  <2>2. p \in Losers(r, n) /\ n \in D
    BY <1>5, <2>1
  <2>3. C \ {p} \subseteq D
    BY <1>5, <1>8, <2>2
  <2> DEFINE E == (C \ {p}) \cup {n}
  <2>4. IsFiniteSet(C \ {p}) /\ Cardinality(C \ {p}) = Cardinality(C) - 1
    BY <1>2, <2>1, FS_RemoveElement
  <2>5. n \notin C \ {p}
    BY <1>6
  <2>6. Cardinality(E) = Cardinality(C \ {p}) + 1
    BY <2>4, <2>5, FS_AddElement
  <2>7. E \subseteq D
    BY <2>2, <2>3
  <2> HIDE DEF E
  <2>8. Cardinality(E) <= Cardinality(D)
    BY <1>2, <2>7, FS_Subset
  <2> QED
    BY <1>2, <2>4, <2>6, <2>8
<1>11. Cardinality(C) <= Cardinality(D)
  BY <1>9, <1>10
<1> QED
  BY <1>11 DEF C, D, new

\* So a node that joins brings only itself among the replicas.
LEMMA JoinKeeps ==
    ASSUME NEW r, RingSound(r), NEW n \in Nodes, Owners(r) \subseteq Nodes \ {n},
           RingSound(AddToRing(r, n)), Cardinality(Losers(r, n)) <= 1, NEW h \in Nat
    PROVE  Range(Preferred(AddToRing(r, n), h)) \subseteq Range(Preferred(r, h)) \cup {n}
<1> DEFINE new == AddToRing(r, n)
<1> SUFFICES ASSUME NEW o \in Range(Preferred(new, h)), o # n
             PROVE  o \in Range(Preferred(r, h))
  OBVIOUS
<1>0. ReplicaFactor \in Nat \ {0} /\ IsFiniteSet(Nodes)
  BY RingAssumption
<1>1. o \in Owners(new) /\ Cardinality(Closer(new, h, o)) < ReplicaFactor
  <2> HIDE DEF new
  <2> QED
    BY <1>0, InPreferred DEF new
<1>2. \A t \in DOMAIN new.owner : new.owner[t] = n \/ (t \in DOMAIN r.owner /\ new.owner[t] = r.owner[t])
  BY AddToRingOwner
<1> HIDE DEF new
<1>3. Owners(new) \subseteq Nodes /\ o \in Owners(r)
  <2>1. Owners(new) \subseteq Owners(r) \cup {n}
    BY <1>2 DEF Owners, Range
  <2> QED
    BY <1>1, <2>1
<1>4. Cardinality(Closer(r, h, o)) <= Cardinality(Closer(new, h, o))
  BY <1>0, <1>3, CloserGrows DEF new
<1>5. Cardinality(Closer(r, h, o)) \in Nat /\ Cardinality(Closer(new, h, o)) \in Nat
  BY <1>0, <1>3, CloserCounts DEF new
<1>6. Cardinality(Closer(r, h, o)) < ReplicaFactor
  BY <1>0, <1>1, <1>4, <1>5
<1> QED
  BY <1>0, <1>3, <1>6, InPreferred

(***************************************************************************)
(* Replication: a node that joins.                                         *)
(***************************************************************************)
LEMMA RingStep ==
    RInv /\ RingSound(partitioner) /\ [ReplicationNext]_replicationVars => RingSound(partitioner)'
<1> SUFFICES ASSUME RInv, RingSound(partitioner), [ReplicationNext]_replicationVars
             PROVE  RingSound(partitioner')
  OBVIOUS
<1>1. CASE Inserted
  <2>1. inserting \in Nodes /\ partitioner' = AddToRing(partitioner, inserting)
    BY <1>1 DEF Inserted, RInv, NodesOK
  <2>2. RingWell(partitioner)
    BY DEF RingSound, RingWell
  <2> QED
    BY <2>1, <2>2, AddToRingSound
<1>2. CASE ~Inserted
  <2>1. partitioner' = partitioner
    BY <1>2 DEF ReplicationNext, replicationVars, Insert, Begin, Local, Remote, Crash, Finish
  <2> QED
    BY <2>1
<1> QED
  BY <1>1, <1>2

\* A node that joins takes keys over and moves none between the others, for any
\* nodes, hashes and replica factor, as long as it takes hashes from at most one
\* (AddNode of the partitioner, GetNodes).
THEOREM JoiningMovesLittle == ReplicationSpec => JoinMovesLittle
<1> DEFINE Moves == \A h \in DOMAIN partitioner'.owner :
               Range(Preferred(partitioner', h)) \subseteq Range(Preferred(partitioner, h)) \cup {inserting}
<1>1. ReplicationInit => RingSound(partitioner)
  BY FirstRingSound DEF ReplicationInit
<1>2. ASSUME RInv, RingSound(partitioner), RingSound(partitioner)', [ReplicationNext]_replicationVars,
             partitioner' # partitioner, Cardinality(Robbed) <= 1
      PROVE  Moves
  <2>1. Inserted
    BY <1>2 DEF ReplicationNext, replicationVars, Insert, Begin, Local, Remote, Crash, Finish
  <2>2. /\ inserting \in Nodes /\ partitioner' = AddToRing(partitioner, inserting)
        /\ Owners(partitioner) \subseteq Nodes \ {inserting}
    BY <1>2, <2>1 DEF Inserted, RInv, NodesOK, RingOK
  <2>3. RingSound(AddToRing(partitioner, inserting)) /\ Cardinality(Losers(partitioner, inserting)) <= 1
    BY <1>2, <2>2 DEF Robbed, Losers
  <2>4. DOMAIN partitioner'.owner \subseteq Nat
    <3>1. RingSound(partitioner')
      BY <1>2
    <3> QED
      BY <3>1 DEF RingSound, Range
  <2>5. ASSUME NEW h \in DOMAIN partitioner'.owner
        PROVE  Range(Preferred(partitioner', h)) \subseteq Range(Preferred(partitioner, h)) \cup {inserting}
    <3>1. h \in Nat
      BY <2>4
    <3> QED
      BY <1>2, <2>2, <2>3, <3>1, JoinKeeps
  <2> QED
    BY <2>5
<1>3. RInv /\ RingSound(partitioner) /\ RingSound(partitioner)' /\ [ReplicationNext]_replicationVars
        => [partitioner' # partitioner /\ Cardinality(Robbed) <= 1 => Moves]_replicationVars
  BY <1>2
<1> HIDE DEF Moves
<1>4. ReplicationSpec => [][partitioner' # partitioner /\ Cardinality(Robbed) <= 1 => Moves]_replicationVars
  BY <1>1, <1>3, RingStep, ReplicationInvariant, PTL DEF ReplicationSpec
<1> QED
  BY <1>4 DEF JoinMovesLittle, Moves

(***************************************************************************)
(* Replication: quorums meet.                                              *)
(***************************************************************************)
\* A list that names no node twice.
Distinct(s) == \A i, j \in 1..Len(s) : s[i] = s[j] => i = j

\* A call has had as many answers as nodes answered it, for each place of its list
\* is another node.
CallHeard(c) ==
    /\ Distinct(call[c].list)
    /\ \A n \in call[c].reached : \E i \in 1..(call[c].next - 1) : n = call[c].list[i]
    /\ call[c].got = Cardinality(call[c].reached)

HeardOK == \A c \in Calls : call[c] = NotCalled \/ CallHeard(c)

\* GetNodes names no node twice: it takes the owners where a lap meets them first.
LEMMA PreferredDistinct ==
    ASSUME NEW r, RingSound(r), NEW h \in Nat
    PROVE  Distinct(Preferred(r, h))
<1> DEFINE F    == Firsts(r, h)
           m    == IF Cardinality(F) < ReplicaFactor THEN Cardinality(F) ELSE ReplicaFactor
           list == [k \in 1..m |-> Lap(r, h)[Kth(F, k)]]
<1>1. /\ F \subseteq Nat /\ IsFiniteSet(F)
      /\ \A j, k \in F : Lap(r, h)[j] = Lap(r, h)[k] => j = k
  BY LapFacts
<1>2. m \in Nat /\ \A k \in 1..m : k \in 1..Cardinality(F)
  <2>1. Cardinality(F) \in Nat
    BY <1>1, FS_CardinalityType
  <2> HIDE DEF F
  <2> QED
    BY <2>1, RingAssumption
<1>3. Preferred(r, h) = list
  BY PreferredIs
<1> HIDE DEF m, F
<1>4. DOMAIN list = 1..m /\ \A k \in 1..m : list[k] = Lap(r, h)[Kth(F, k)]
  OBVIOUS
<1> HIDE DEF list
<1>5. Len(list) = m
  BY <1>2, <1>4, ListOf
<1>6. ASSUME NEW i \in 1..m, NEW j \in 1..m, list[i] = list[j]
      PROVE  i = j
  <2>1. /\ Kth(F, i) \in F /\ Cardinality(AtMost(F, Kth(F, i))) = i
        /\ Kth(F, j) \in F /\ Cardinality(AtMost(F, Kth(F, j))) = j
    BY <1>1, <1>2, KthExists
  <2>2. Kth(F, i) = Kth(F, j)
    BY <1>1, <1>4, <1>6, <2>1
  <2> QED
    BY <2>1, <2>2
<1> QED
  BY <1>3, <1>5, <1>6 DEF Distinct

LEMMA HeardBegin ==
    ASSUME RInv, RingSound(partitioner), NEW c \in Calls, Begin(c)
    PROVE  CallHeard(c)'
<1> DEFINE list == Preferred(partitioner, KeyHash)
           q    == Smaller(Quorum(c), Len(list))
           ok   == {w \in Writers : call[w].pc = "ok"}
<1>1. call'[c] = [pc |-> "running", list |-> list, next |-> 1, reached |-> {}, got |-> 0,
                  quorum |-> q, acked |-> ok]
  BY DEF Begin, RInv, CallsOK
<1>2. Distinct(list)
  BY PreferredDistinct, ReplicationAssumption
<1>3. Cardinality({}) = 0
  BY FS_EmptySet
<1> HIDE DEF list, q, ok
<1> QED
  BY <1>1, <1>2, <1>3 DEF CallHeard

\* The node reached has a place no node reached before it has.
LEMMA HeardReaches ==
    ASSUME RInv, NEW c \in Calls, GoOn(c), CallHeard(c), Reaches(c)
    PROVE  CallHeard(c)'
<1> DEFINE list == call[c].list
           k    == call[c].next
           S    == call[c].reached
           n    == Target(c)
<1>1. CallTyped(c) /\ k + 1 <= Len(list) + 1
  BY TargetInList
<1>2. call'[c] = [call[c] EXCEPT !.next = @ + 1, !.got = @ + 1, !.reached = @ \cup {Target(c)}]
  BY DEF Reaches, RInv, CallsOK
<1>3. /\ call'[c].list = list /\ call'[c].next = k + 1
      /\ call'[c].got = call[c].got + 1 /\ call'[c].reached = S \cup {n}
  BY <1>1, <1>2 DEF CallTyped
<1>4. k \in Nat \ {0} /\ Len(list) \in Nat /\ k \in 1..Len(list)
  <2>1. Len(list) \in Nat /\ k \in Nat \ {0}
    BY <1>1, LenProperties DEF CallTyped, IsList
  <2> DEFINE l == Len(list)
  <2>2. l \in Nat /\ k + 1 <= l + 1
    BY <1>1, <2>1
  <2> HIDE DEF l, k
  <2>3. k \in 1..l
    BY <2>1, <2>2
  <2> QED
    BY <2>1, <2>3 DEF l
<1>5. n = list[k]
  BY DEF Target
<1>6. n \notin S
  <2> SUFFICES ASSUME n \in S PROVE FALSE
    OBVIOUS
  <2>1. PICK i \in 1..(k - 1) : n = list[i]
    BY DEF CallHeard
  <2> DEFINE l == Len(list)
  <2>2. l \in Nat /\ k \in 1..l /\ k \in Nat
    BY <1>4
  <2> HIDE DEF l, k
  <2>3. i \in 1..l /\ i # k
    BY <2>1, <2>2
  <2>4. list[i] = list[k]
    BY <1>5, <2>1
  <2> QED
    BY <2>2, <2>3, <2>4 DEF CallHeard, Distinct, l
<1>7. call[c].got + 1 = Cardinality(S \cup {n})
  <2>1. IsFiniteSet(S)
    BY <1>1, RingAssumption, FS_Subset DEF CallTyped
  <2>2. Cardinality(S \cup {n}) = Cardinality(S) + 1
    BY <1>6, <2>1, FS_AddElement
  <2> QED
    BY <2>2 DEF CallHeard
<1>8. \A a \in S \cup {n} : \E i \in 1..((k + 1) - 1) : a = list[i]
  <2>1. \A i \in 1..(k - 1) : i \in 1..((k + 1) - 1)
    <3> HIDE DEF k
    <3> QED
      BY <1>4
  <2>2. k \in 1..((k + 1) - 1)
    <3>1. k \in Nat \ {0}
      BY <1>4
    <3> HIDE DEF k
    <3> QED
      BY <3>1
  <2>3. \A a \in S : \E i \in 1..(k - 1) : a = list[i]
    BY DEF CallHeard
  <2> HIDE DEF k, S, list, n
  <2> QED
    BY <1>5, <2>1, <2>2, <2>3
<1> HIDE DEF k, S, list, n
<1>9. Distinct(list)
  BY DEF CallHeard, list
<1> QED
  BY <1>3, <1>7, <1>8, <1>9 DEF CallHeard

LEMMA HeardMisses ==
    ASSUME RInv, NEW c \in Calls, GoOn(c), CallHeard(c), Misses(c)
    PROVE  CallHeard(c)'
<1>1. CallTyped(c) /\ call'[c] = [call[c] EXCEPT !.next = @ + 1]
  BY TargetInList DEF Misses, RInv, CallsOK
<1>2. /\ call'[c].list = call[c].list /\ call'[c].next = call[c].next + 1
      /\ call'[c].got = call[c].got /\ call'[c].reached = call[c].reached
      /\ call[c].next \in Nat
  BY <1>1 DEF CallTyped
<1>3. \A i \in 1..(call[c].next - 1) : i \in 1..((call[c].next + 1) - 1)
  BY <1>2
<1> QED
  BY <1>2, <1>3 DEF CallHeard

LEMMA HeardStep ==
    RInv /\ RingSound(partitioner) /\ HeardOK /\ [ReplicationNext]_replicationVars => HeardOK'
<1> SUFFICES ASSUME RInv, RingSound(partitioner), HeardOK, [ReplicationNext]_replicationVars,
                    NEW d \in Calls
             PROVE  (call[d] = NotCalled \/ CallHeard(d))'
  BY DEF HeardOK
<1>1. call = [c \in Calls |-> call[c]] /\ (call[d] = NotCalled \/ CallHeard(d))
  BY DEF RInv, CallsOK, HeardOK
<1>2. ASSUME call'[d] = call[d] PROVE (call[d] = NotCalled \/ CallHeard(d))'
  BY <1>1, <1>2 DEF CallHeard
<1>3. ASSUME NEW c \in Calls, Begin(c) PROVE (call[d] = NotCalled \/ CallHeard(d))'
  <2>1. CASE c = d
    BY <1>3, <2>1, HeardBegin
  <2>2. CASE c # d
    BY <1>1, <1>2, <1>3, <2>2 DEF Begin
  <2> QED
    BY <2>1, <2>2
<1>4. ASSUME NEW c \in Calls, GoOn(c), Reaches(c) \/ Misses(c)
      PROVE  (call[d] = NotCalled \/ CallHeard(d))'
  <2>1. CASE c = d
    <3>1. CallHeard(d)
      BY <1>1, <1>4, <2>1 DEF GoOn, Running, NotCalled
    <3> QED
      BY <1>4, <2>1, <3>1, HeardReaches, HeardMisses
  <2>2. CASE c # d
    BY <1>1, <1>2, <1>4, <2>2 DEF Reaches, Misses
  <2> QED
    BY <2>1, <2>2
<1>5. ASSUME NEW c \in Calls, Local(c) \/ Remote(c) PROVE (call[d] = NotCalled \/ CallHeard(d))'
  BY <1>4, <1>5 DEF Local, Remote
<1>6. ASSUME NEW c \in Calls, Crash(c) PROVE (call[d] = NotCalled \/ CallHeard(d))'
  BY <1>6 DEF Crash
<1>7. ASSUME NEW c \in Calls, Finish(c) PROVE (call[d] = NotCalled \/ CallHeard(d))'
  <2>1. CASE c = d
    <3>1. call[d].pc = "running" /\ call[d] # NotCalled
      BY <1>7, <2>1 DEF Finish, Running, NotCalled
    <3>2. CallHeard(d) /\ CallTyped(d)
      BY <1>1, <3>1 DEF RInv, CallsOK, CallOK
    <3>3. PICK pc : call'[d] = [call[d] EXCEPT !.pc = pc]
      BY <1>1, <1>7, <2>1 DEF Finish
    <3>4. /\ call'[d].list = call[d].list /\ call'[d].next = call[d].next
          /\ call'[d].got = call[d].got /\ call'[d].reached = call[d].reached
      BY <3>2, <3>3 DEF CallTyped
    <3> QED
      BY <3>2, <3>4 DEF CallHeard
  <2>2. CASE c # d
    BY <1>1, <1>2, <1>7, <2>2 DEF Finish
  <2> QED
    BY <2>1, <2>2
<1>8. CASE UNCHANGED call
  BY <1>2, <1>8
<1> QED
  BY <1>3, <1>5, <1>6, <1>7, <1>8 DEF ReplicationNext, Insert, Inserted, replicationVars

LEMMA HeardInvariant == ReplicationSpec => []HeardOK
<1>1. ReplicationInit => RingSound(partitioner) /\ HeardOK
  BY FirstRingSound DEF ReplicationInit, HeardOK
<1> QED
  BY <1>1, RingStep, HeardStep, ReplicationInvariant, PTL DEF ReplicationSpec

\* Two sets in lists, when they are larger together than the first list and what
\* the second has besides it.
LEMMA OverlapInList ==
    ASSUME NEW U, NEW V, IsFiniteSet(U), IsFiniteSet(V), NEW S, S \subseteq U, NEW T, T \subseteq V,
           Cardinality(S) + Cardinality(T) > Cardinality(U) + Cardinality(V \ U)
    PROVE  S \cap T # {}
<1>1. /\ IsFiniteSet(T) /\ IsFiniteSet(T \cap U) /\ IsFiniteSet(T \ U) /\ IsFiniteSet(V \ U)
      /\ IsFiniteSet(S)
  BY FS_Subset
<1>2. Cardinality(T \ U) <= Cardinality(V \ U)
  BY <1>1, FS_Subset
<1>3. Cardinality(T \ U) = Cardinality(T) - Cardinality(T \cap U)
  BY <1>1, FS_Difference
<1>4. /\ Cardinality(S) \in Nat /\ Cardinality(T) \in Nat /\ Cardinality(T \cap U) \in Nat
      /\ Cardinality(T \ U) \in Nat
      /\ Cardinality(U) \in Nat /\ Cardinality(V \ U) \in Nat
  BY <1>1, FS_CardinalityType
<1>5. Cardinality(S) + Cardinality(T \cap U) > Cardinality(U)
  BY <1>2, <1>3, <1>4
<1>6. S \cap (T \cap U) # {}
  BY <1>5, FS_MajoritiesIntersect
<1> QED
  BY <1>6

\* Reads and acknowledged writes meet at a node, for any nodes, hashes, quorums and
\* replica factor, whatever nodes join in between: answers are as many as the nodes
\* that gave them, and two sets of them in the lists of the calls overlap
\* (WriteDataPoint, ReadDataPoints, GetNodes).
THEOREM QuorumsAlwaysMeet == ReplicationSpec => []QuorumsMeet
<1>1. ASSUME RInv, HeardOK PROVE QuorumsMeet
  <2> SUFFICES ASSUME NEW r \in Readers, Succeeded(r), NEW w \in call[r].acked,
                      call[w].quorum + call[r].quorum
                        > Len(call[w].list) + Cardinality(Range(call[r].list) \ Range(call[w].list))
               PROVE  call[w].reached \cap call[r].reached # {}
    BY DEF QuorumsMeet
  <2> DEFINE U  == Range(call[w].list)
             V  == Range(call[r].list)
             S  == call[w].reached
             T  == call[r].reached
             l  == Len(call[w].list)
             qw == call[w].quorum
             qr == call[r].quorum
  <2>1. CallTyped(r) /\ CallCounts(r) /\ CallSaw(r)
    BY <1>1, OkCall DEF Calls, Succeeded
  <2>2. w \in Writers /\ call[w].pc = "ok"
    BY <2>1 DEF CallTyped, CallSaw
  <2>3. CallTyped(w) /\ CallCounts(w)
    BY <1>1, <2>2, OkCall DEF Calls
  <2>4. CallHeard(r) /\ CallHeard(w)
    BY <1>1, <2>2 DEF HeardOK, Succeeded, NotCalled, Calls
  <2>5. S \subseteq U /\ T \subseteq V
    BY <2>1, <2>3 DEF CallTyped
  <2>6. /\ Cardinality(S) >= qw /\ Cardinality(T) >= qr /\ qw \in Nat /\ qr \in Nat
        /\ qw + qr > l + Cardinality(V \ U)
    BY <2>1, <2>2, <2>3, <2>4 DEF CallCounts, CallTyped, CallHeard, Succeeded
  <2>7. /\ l \in Nat /\ IsFiniteSet(U) /\ Cardinality(U) \in Nat /\ Cardinality(U) <= l
        /\ IsFiniteSet(V)
    BY <2>1, <2>3, ListCardinality DEF CallTyped
  <2> HIDE DEF U, V, S, T, l, qw, qr
  <2>8. Cardinality(S) \in Nat /\ Cardinality(T) \in Nat /\ Cardinality(V \ U) \in Nat
    BY <2>5, <2>7, FS_Subset, FS_CardinalityType
  <2>9. Cardinality(S) + Cardinality(T) > Cardinality(U) + Cardinality(V \ U)
    BY <2>6, <2>7, <2>8
  <2> QED
    BY <2>5, <2>7, <2>9, OverlapInList DEF S, T
<1> QED
  BY <1>1, ReplicationInvariant, HeardInvariant, PTL

(***************************************************************************)
(* Cluster: the walk of the ring.                                          *)
(***************************************************************************)

\* After k stops of a lap from h, the nodes found are those met first on them.
Took(r, h, k, found) ==
    /\ Len(found) = Cardinality(AtMost(Firsts(r, h), k))
    /\ \A m \in 1..Len(found) : found[m] = Lap(r, h)[Kth(Firsts(r, h), m)]

\* Once it has made a whole lap a walk has found all there are.
Walked(r, h, at, found) ==
    /\ at \in 1..Len(r.sorted) /\ Len(found) <= ReplicaFactor
    /\ \E k \in 0..Len(r.sorted) : /\ Took(r, h, k, found)
                                   /\ k < Len(r.sorted) => at = Place(r, h, k + 1)

\* The nodes found are the owners met.
LEMMA TookRange ==
    ASSUME NEW r, RingSound(r), NEW h \in Nat, NEW k \in Nat, NEW found \in Seq(Nodes),
           Took(r, h, k, found)
    PROVE  Range(found) = {Lap(r, h)[j] : j \in AtMost(Firsts(r, h), k)}
<1> DEFINE l == Lap(r, h)
           F == Firsts(r, h)
           A == AtMost(F, k)
<1>1. F \subseteq Nat /\ IsFiniteSet(F) /\ Cardinality(F) \in Nat
  BY LapFacts, AtMostFacts
<1>2. A \subseteq F /\ IsFiniteSet(A) /\ Cardinality(A) \in Nat /\ Cardinality(A) <= Cardinality(F)
  <2>1. A \subseteq F
    BY DEF AtMost
  <2> HIDE DEF A
  <2> QED
    BY <1>1, <2>1, FS_Subset, FS_CardinalityType
<1>3. Range(found) = {found[m] : m \in 1..Cardinality(A)}
  BY DEF Took, Range
<1>4. \A m \in 1..Cardinality(A) : found[m] = l[Kth(F, m)]
  BY DEF Took
<1> HIDE DEF l, F
<1>5. ASSUME NEW m \in 1..Cardinality(A) PROVE Kth(F, m) \in A
  <2>1. m \in 1..Cardinality(F) /\ m \in Nat
    BY <1>1, <1>2
  <2> DEFINE j == Kth(F, m)
  <2>2. j \in F /\ Cardinality(AtMost(F, j)) = m
    BY <1>1, <2>1, KthExists
  <2> HIDE DEF j
  <2>3. IsFiniteSet(AtMost(F, j))
    BY <1>1, <2>2, AtMostFacts
  <2>4. j <= k
    <3> SUFFICES ASSUME ~(j <= k) PROVE FALSE
      OBVIOUS
    <3>1. j \in Nat /\ j <= j /\ \A x \in F : x \in Nat
      BY <1>1, <2>2
    <3>2. \A x \in F : x <= k => x <= j
      BY <3>1
    <3>3. j \in AtMost(F, j) /\ j \notin A /\ A \subseteq AtMost(F, j)
      BY <2>2, <3>1, <3>2 DEF AtMost
    <3>4. Cardinality(A) <= m /\ Cardinality(A) # m
      BY <2>2, <2>3, <3>3, FS_Subset
    <3> QED
      BY <1>2, <2>1, <3>4
  <2> QED
    BY <2>2, <2>4 DEF AtMost, j
<1>6. ASSUME NEW j \in A PROVE \E m \in 1..Cardinality(A) : Kth(F, m) = j
  <2>1. j \in F /\ j <= k /\ \A x \in F : x \in Nat
    BY <1>1 DEF AtMost
  <2>2. \A x \in F : x <= j => x <= k
    BY <2>1
  <2>3. AtMost(F, j) \subseteq A
    BY <2>2 DEF AtMost
  <2>4. Cardinality(AtMost(F, j)) \in 1..Cardinality(F)
    BY <1>1, <2>1, AtMostFacts
  <2>5. Cardinality(AtMost(F, j)) <= Cardinality(A)
    BY <1>2, <2>3, FS_Subset
  <2>6. Cardinality(AtMost(F, j)) \in 1..Cardinality(A)
    BY <1>1, <1>2, <2>4, <2>5
  <2>7. Kth(F, Cardinality(AtMost(F, j))) = j
    BY <1>1, <2>1, KthIs
  <2> QED
    BY <2>6, <2>7
<1> HIDE DEF A
<1>7. Range(found) \subseteq {l[j] : j \in A}
  BY <1>3, <1>4, <1>5
<1>8. {l[j] : j \in A} \subseteq Range(found)
  <2>1. ASSUME NEW j \in A PROVE l[j] \in Range(found)
    <3>1. PICK m \in 1..Cardinality(A) : Kth(F, m) = j
      BY <1>6
    <3> QED
      BY <1>3, <1>4, <3>1
  <2> QED
    BY <2>1
<1> QED
  BY <1>7, <1>8 DEF l, F, A

\* The next place of the slice is the next stop (the loop of GetNodes).
LEMMA NextPlace ==
    ASSUME NEW r, RingSound(r), NEW h \in Nat, NEW k \in 1..Len(r.sorted)
    PROVE  /\ Clockwise(r, Place(r, h, k)) \in 1..Len(r.sorted)
           /\ k < Len(r.sorted) => Clockwise(r, Place(r, h, k)) = Place(r, h, k + 1)
<1> DEFINE n == Len(r.sorted)
           s == Start(r, h)
           a == s + k - 2
           p == Place(r, h, k)
<1>1. n \in Nat \ {0} /\ s \in 1..n
  BY StartFacts DEF RingSound
<1>2. p \in 1..n /\ p = (a % n) + 1
  BY StopsAndPlaces DEF Place
<1>3. Clockwise(r, p) = (p % n) + 1
  BY DEF Clockwise
<1>4. k < n => Place(r, h, k + 1) = ((a + 1) % n) + 1
  <2>1. k \in Nat /\ s + (k + 1) - 2 = a + 1
    BY <1>1
  <2> QED
    BY <2>1 DEF Place
<1>5. a \in Nat /\ (k < n => a + 1 \in Nat /\ a + 1 < 2 * n) /\ a < 2 * n
  BY <1>1
<1> HIDE DEF n, s, a, p
<1>6. (a < n => a % n = a) /\ (n <= a => a % n = a - n)
  BY <1>1, <1>5, Wraps
<1>7. k < n => (a + 1 < n => (a + 1) % n = a + 1) /\ (n <= a + 1 => (a + 1) % n = (a + 1) - n)
  <2> DEFINE b == a + 1
  <2>1. k < n => b \in Nat /\ b < 2 * n
    BY <1>5
  <2> HIDE DEF b
  <2>2. k < n => (b < n => b % n = b) /\ (n <= b => b % n = b - n)
    BY <1>1, <2>1, Wraps
  <2> QED
    BY <2>2 DEF b
<1>8. (p < n => p % n = p) /\ (n <= p => p % n = p - n)
  <2>1. p \in Nat /\ p < 2 * n
    BY <1>1, <1>2
  <2> QED
    BY <1>1, <2>1, Wraps
<1>9. Clockwise(r, p) \in 1..n
  BY <1>1, <1>2, <1>3, <1>8
<1>10. ASSUME k < n PROVE Clockwise(r, p) = Place(r, h, k + 1)
  <2> DEFINE x == a % n
             y == (a + 1) % n
             z == p % n
  <2>1. /\ (a < n => x = a) /\ (n <= a => x = a - n)
        /\ (a + 1 < n => y = a + 1) /\ (n <= a + 1 => y = (a + 1) - n)
        /\ (p < n => z = p) /\ (n <= p => z = p - n) /\ p = x + 1
        /\ Clockwise(r, p) = z + 1 /\ Place(r, h, k + 1) = y + 1
    BY <1>2, <1>3, <1>4, <1>6, <1>7, <1>8, <1>10
  <2> HIDE DEF x, y, z
  <2> QED
    BY <1>1, <1>2, <1>5, <1>10, <2>1
<1> QED
  BY <1>9, <1>10 DEF n, p

\* A walk starts at the first stop.
LEMMA WalkBegins ==
    ASSUME NEW r, RingSound(r), NEW h \in Nat
    PROVE  Walked(r, h, Start(r, h), <<>>)
<1> DEFINE n == Len(r.sorted)
           s == Start(r, h)
           F == Firsts(r, h)
<1>1. n \in Nat \ {0} /\ s \in 1..n /\ ReplicaFactor \in Nat \ {0}
  <2>1. n \in Nat \ {0}
    BY DEF RingSound
  <2>2. s \in 1..n
    BY StartFacts
  <2> QED
    BY <2>1, <2>2, RingAssumption
<1>2. AtMost(F, 0) = {}
  <2>1. F \subseteq 1..n
    BY LapFacts
  <2> HIDE DEF F, n
  <2>2. \A x \in F : ~(x <= 0)
    BY <1>1, <2>1
  <2> QED
    BY <2>2 DEF AtMost
<1>3. Took(r, h, 0, <<>>)
  <2>1. Cardinality(AtMost(F, 0)) = 0
    BY <1>2, FS_EmptySet
  <2> QED
    BY <2>1 DEF Took
<1>4. Place(r, h, 0 + 1) = s
  <2>1. s + (0 + 1) - 2 = s - 1 /\ s - 1 \in Nat /\ s - 1 < n
    BY <1>1
  <2>2. (s - 1) % n = s - 1
    <3> DEFINE a == s - 1
    <3> HIDE DEF n, a
    <3>1. a \in Nat /\ a < n => a % n = a
      BY <1>1, Wraps
    <3> QED
      BY <2>1, <3>1 DEF a
  <2>3. Place(r, h, 0 + 1) = ((s - 1) % n) + 1
    BY <2>1 DEF Place
  <2> HIDE DEF n, s
  <2> QED
    BY <1>1, <2>2, <2>3
<1> HIDE DEF n, s
<1>5. 0 \in 0..n /\ Len(<<>>) = 0 /\ 0 <= ReplicaFactor
  BY <1>1
<1> QED
  BY <1>1, <1>3, <1>4, <1>5 DEF Walked, n, s

\* A step of the loop of GetNodes is a stop of the lap.
LEMMA WalkGoesOn ==
    ASSUME NEW r, RingSound(r), Owners(r) \subseteq Nodes, NEW h \in Nat, NEW at, NEW found \in Seq(Nodes),
           Walked(r, h, at, found), Len(found) < ReplicaFactor,
           NEW next, next = (IF OwnerAt(r, at) \in Range(found) THEN found ELSE Append(found, OwnerAt(r, at)))
    PROVE  next \in Seq(Nodes) /\ Walked(r, h, Clockwise(r, at), next)
<1> DEFINE n == Len(r.sorted)
           F == Firsts(r, h)
           l == Lap(r, h)
           o == OwnerAt(r, at)
<1>0. n \in Nat \ {0} /\ ReplicaFactor \in Nat \ {0} /\ DOMAIN r.sorted = 1..n /\ Len(found) \in Nat
  <2>1. n \in Nat \ {0} /\ DOMAIN r.sorted = 1..n
    BY DEF RingSound
  <2> QED
    BY <2>1, RingAssumption
<1>1. at \in 1..n /\ o \in Owners(r)
  <2>1. at \in DOMAIN r.sorted
    BY <1>0 DEF Walked
  <2>2. r.sorted[at] \in DOMAIN r.owner
    BY <2>1 DEF RingSound, Range
  <2> QED
    BY <1>0, <2>1, <2>2 DEF OwnerAt, Owners, Range
<1>2. PICK k \in 0..n : Took(r, h, k, found) /\ (k < n => at = Place(r, h, k + 1))
  BY DEF Walked
<1>3. k \in Nat /\ F \subseteq 1..n /\ F \subseteq Nat /\ IsFiniteSet(F)
  BY <1>0, LapFacts
<1>4. Range(found) = {l[j] : j \in AtMost(F, k)}
  BY <1>2, <1>3, TookRange
<1>5. Len(next) <= ReplicaFactor /\ next \in Seq(Nodes)
  <2>1. Append(found, o) \in Seq(Nodes) /\ Len(Append(found, o)) = Len(found) + 1
    BY <1>1
  <2> QED
    BY <1>0, <2>1
<1>6. Clockwise(r, at) \in 1..n
  <2>1. Clockwise(r, at) = (at % n) + 1
    BY DEF Clockwise
  <2> HIDE DEF n
  <2>2. at \in Nat /\ at < 2 * n
    BY <1>0, <1>1
  <2>3. (at < n => at % n = at) /\ (n <= at => at % n = at - n)
    BY <1>0, <2>2, Wraps
  <2> QED
    BY <1>0, <1>1, <2>1, <2>3
<1>7. \A j \in 1..n : \E i \in F : i <= j /\ l[i] = l[j]
  BY LapFirst
\* A lap is over: everything has been found.
<1>8. CASE k = n
  <2>1. o \in Range(found)
    <3>1. PICK t \in DOMAIN r.owner : r.owner[t] = o
      BY <1>1 DEF Owners, Range
    <3>2. PICK j \in 1..n : l[j] = o
      <4>1. \E j \in 1..n : r.sorted[Place(r, h, j)] = t /\ l[j] = r.owner[t]
        BY LapMeets
      <4> HIDE DEF l, o, n
      <4> QED
        BY <3>1, <4>1
    <3>3. PICK i \in F : i <= j /\ l[i] = o
      BY <1>7, <3>2
    <3>4. i <= k
      BY <1>0, <1>3, <1>8, <3>3
    <3>5. i \in AtMost(F, k)
      BY <3>3, <3>4 DEF AtMost
    <3> QED
      BY <1>4, <3>3, <3>5
  <2>2. next = found
    BY <2>1
  <2>3. Took(r, h, n, next) /\ n \in 0..n /\ ~(n < n)
    BY <1>0, <1>2, <1>8, <2>2
  <2> QED
    BY <1>5, <1>6, <2>3 DEF Walked
<1>9. CASE k < n
  <2>1. k + 1 \in 1..n /\ k + 1 \in 0..n /\ \A x \in F : x \in Nat
    BY <1>0, <1>3, <1>9
  <2>2. at = Place(r, h, k + 1) /\ o = l[k + 1]
    <3>1. at = Place(r, h, k + 1)
      BY <1>2, <1>9
    <3> QED
      BY <2>1, <3>1 DEF Lap
  <2>3. k + 1 < n => Clockwise(r, at) = Place(r, h, (k + 1) + 1)
    BY <2>1, <2>2, NextPlace
  <2>4. AtMost(F, k) \subseteq F /\ IsFiniteSet(AtMost(F, k)) /\ k + 1 \notin AtMost(F, k)
    <3>1. ~(k + 1 <= k)
      BY <1>3
    <3>2. AtMost(F, k) \subseteq F /\ k + 1 \notin AtMost(F, k)
      BY <3>1 DEF AtMost
    <3> QED
      BY <1>3, <3>2, FS_Subset
  <2>5. CASE k + 1 \in F
    <3>1. AtMost(F, k + 1) = AtMost(F, k) \cup {k + 1}
      <4>1. \A x \in F : x <= k + 1 <=> (x <= k \/ x = k + 1)
        BY <1>3, <2>1
      <4> QED
        BY <2>5, <4>1 DEF AtMost
    <3>2. o \notin Range(found)
      <4>1. ASSUME NEW j \in AtMost(F, k), l[j] = l[k + 1] PROVE FALSE
        <5>1. j = k + 1
          BY <2>4, <2>5, <4>1, LapFacts
        <5> QED
          BY <2>4, <5>1
      <4> QED
        BY <1>4, <2>2, <4>1
    <3>3. next = Append(found, o)
      BY <3>2
    <3>4. Cardinality(AtMost(F, k + 1)) = Len(found) + 1
      <4>1. Cardinality(AtMost(F, k)) = Len(found)
        BY <1>2 DEF Took
      <4> QED
        BY <2>4, <3>1, <4>1, FS_AddElement
    <3>5. /\ Len(next) = Len(found) + 1 /\ next[Len(found) + 1] = o
          /\ \A m \in 1..Len(found) : next[m] = found[m]
      BY <1>1, <3>3
    <3>6. Kth(F, Len(found) + 1) = k + 1
      BY <1>3, <2>5, <3>4, KthIs
    <3>7. ASSUME NEW m \in 1..Len(next) PROVE next[m] = l[Kth(F, m)]
      <4>1. m \in 1..Len(found) \/ m = Len(found) + 1
        BY <1>0, <3>5
      <4>2. \A i \in 1..Len(found) : found[i] = l[Kth(F, i)]
        BY <1>2 DEF Took
      <4> HIDE DEF l, F, o
      <4> QED
        BY <2>2, <3>5, <3>6, <4>1, <4>2
    <3>8. Took(r, h, k + 1, next)
      BY <3>4, <3>5, <3>7 DEF Took
    <3> QED
      BY <1>5, <1>6, <2>1, <2>3, <3>8 DEF Walked
  <2>6. CASE k + 1 \notin F
    <3>1. AtMost(F, k + 1) = AtMost(F, k)
      <4>1. \A x \in F : x <= k + 1 <=> x <= k
        BY <1>3, <2>1, <2>6
      <4> QED
        BY <4>1 DEF AtMost
    <3>2. PICK i \in F : i <= k + 1 /\ l[i] = l[k + 1]
      BY <1>7, <2>1
    <3>3. i \in AtMost(F, k)
      <4>1. i <= k
        BY <1>3, <2>1, <2>6, <3>2
      <4> QED
        BY <4>1 DEF AtMost
    <3>4. next = found
      BY <1>4, <2>2, <3>2, <3>3
    <3>5. Took(r, h, k + 1, next)
      BY <1>2, <3>1, <3>4 DEF Took
    <3> QED
      BY <1>5, <1>6, <2>1, <2>3, <3>5 DEF Walked
  <2> QED
    BY <2>5, <2>6
<1> QED
  BY <1>0, <1>8, <1>9

\* There are no more owners than hashes.
LEMMA OwnersCount ==
    ASSUME NEW r, RingSound(r)
    PROVE  /\ IsFiniteSet(Owners(r)) /\ Cardinality(Owners(r)) \in Nat
           /\ Cardinality(DOMAIN r.owner) \in Nat /\ Cardinality(Owners(r)) <= Cardinality(DOMAIN r.owner)
<1> DEFINE D == DOMAIN r.owner
           f == [t \in D |-> r.owner[t]]
           n == Len(r.sorted)
           g == [i \in 1..n |-> r.sorted[i]]
<1>1. n \in Nat /\ Range(r.sorted) = D /\ DOMAIN r.sorted = 1..n
  BY DEF RingSound
<1>2. IsFiniteSet(D)
  <2>1. IsFiniteSet(1..n)
    BY <1>1, FS_Interval
  <2>2. D = {r.sorted[i] : i \in 1..n}
    BY <1>1 DEF Range
  <2>3. g \in Surjection(1..n, D)
    BY <2>2 DEF Surjection
  <2> HIDE DEF g, D, n
  <2> QED
    BY <2>1, <2>3, FS_Surjection
<1>3. f \in Surjection(D, Owners(r))
  BY DEF Surjection, Owners, Range
<1> HIDE DEF f, D
<1>4. IsFiniteSet(Owners(r)) /\ Cardinality(Owners(r)) <= Cardinality(D)
  BY <1>2, <1>3, FS_Surjection
<1> QED
  BY <1>2, <1>4, FS_CardinalityType DEF D

\* A walk that may end has found the preferred nodes, in order.
LEMMA WalkEnds ==
    ASSUME NEW r, RingSound(r), Owners(r) \subseteq Nodes, NEW h \in Nat, NEW at, NEW found \in Seq(Nodes),
           Walked(r, h, at, found), ~GoesOn(r, found)
    PROVE  found = Preferred(r, h)
<1> DEFINE n == Len(r.sorted)
           F == Firsts(r, h)
           l == Lap(r, h)
           c == IF Cardinality(F) < ReplicaFactor THEN Cardinality(F) ELSE ReplicaFactor
<1>0. n \in Nat /\ ReplicaFactor \in Nat \ {0} /\ Len(found) \in Nat /\ Len(found) <= ReplicaFactor
  <2>1. n \in Nat
    BY DEF RingSound
  <2> QED
    BY <2>1, RingAssumption DEF Walked
<1>1. PICK k \in 0..n : Took(r, h, k, found)
  BY DEF Walked
<1>2. k \in Nat /\ F \subseteq Nat /\ IsFiniteSet(F) /\ Cardinality(F) \in Nat
  BY <1>0, LapFacts, AtMostFacts
<1>3. Range(found) = {l[j] : j \in AtMost(F, k)}
  BY <1>1, <1>2, TookRange
<1>4. AtMost(F, k) \subseteq F /\ Cardinality(AtMost(F, k)) = Len(found)
  BY <1>1 DEF Took, AtMost
<1>5. Len(found) <= Cardinality(F)
  BY <1>2, <1>4, FS_Subset
<1>6. ASSUME Len(found) # ReplicaFactor PROVE Len(found) = Cardinality(F)
  <2>1. ~(Cardinality(Range(found)) < Cardinality(DOMAIN r.owner))
    BY <1>0, <1>6 DEF GoesOn
  <2>2. Range(found) \subseteq Owners(r)
    <3>1. \A j \in F : l[j] \in Owners(r)
      BY LapFacts
    <3> HIDE DEF l, F
    <3> QED
      BY <1>3, <1>4, <3>1
  <2>3. Range(found) = Owners(r)
    <3>1. IsFiniteSet(Owners(r)) /\ Cardinality(Range(found)) <= Cardinality(Owners(r))
          /\ Cardinality(Range(found)) \in Nat
      BY <2>2, OwnersCount, FS_Subset, FS_CardinalityType
    <3>2. Cardinality(Owners(r)) = Cardinality(Range(found))
      BY <2>1, <3>1, OwnersCount
    <3> QED
      BY <2>2, <3>1, <3>2, FS_Subset
  <2>4. ASSUME NEW j \in F PROVE j \in AtMost(F, k)
    <3>1. l[j] \in Owners(r)
      BY LapFacts
    <3>2. PICK i \in AtMost(F, k) : l[j] = l[i]
      BY <1>3, <2>3, <3>1
    <3>3. i = j
      BY <1>4, <3>2, LapFacts
    <3> QED
      BY <3>2, <3>3
  <2>5. AtMost(F, k) = F
    BY <1>4, <2>4
  <2> QED
    BY <1>4, <2>5
<1>7. Len(found) = c
  BY <1>0, <1>2, <1>5, <1>6
<1>8. Preferred(r, h) = [m \in 1..c |-> l[Kth(F, m)]]
  BY PreferredIs
<1>9. \A m \in 1..Len(found) : found[m] = l[Kth(F, m)]
  BY <1>1 DEF Took
<1> HIDE DEF c, l, F
<1>10. found = [m \in 1..c |-> found[m]]
  <2>1. found = [m \in 1..Len(found) |-> found[m]]
    OBVIOUS
  <2> QED
    BY <1>7, <2>1
<1> QED
  BY <1>7, <1>8, <1>9, <1>10

\* A walk of a ring with too few owners goes on.
LEMMA HopelessGoesOn ==
    ASSUME NEW r, RingSound(r), Owners(r) \subseteq Nodes, NEW h \in Nat, NEW at, NEW found \in Seq(Nodes),
           Walked(r, h, at, found), Hopeless(r)
    PROVE  GoesOn(r, found)
<1> DEFINE n == Len(r.sorted)
           F == Firsts(r, h)
           l == Lap(r, h)
           f == [j \in F |-> l[j]]
<1>0. ReplicaFactor \in Nat \ {0} /\ Len(found) \in Nat /\ n \in Nat
  <2>1. n \in Nat
    BY DEF RingSound
  <2> QED
    BY <2>1, RingAssumption
<1>1. PICK k \in 0..n : Took(r, h, k, found)
  BY DEF Walked
<1>2. k \in Nat /\ F \subseteq Nat /\ IsFiniteSet(F) /\ Cardinality(F) \in Nat
  BY <1>0, LapFacts, AtMostFacts
<1>3. Range(found) = {l[j] : j \in AtMost(F, k)}
  BY <1>1, <1>2, TookRange
<1>4. AtMost(F, k) \subseteq F /\ Cardinality(AtMost(F, k)) = Len(found)
  BY <1>1 DEF Took, AtMost
<1>5. Len(found) <= Cardinality(F)
  BY <1>2, <1>4, FS_Subset
<1>6. (\A j \in F : l[j] \in Owners(r)) /\ (\A i, j \in F : l[i] = l[j] => i = j)
  BY LapFacts
<1> HIDE DEF l, F
<1>7. f \in Injection(F, Owners(r))
  BY <1>6 DEF Injection, IsInjective
<1>8. Cardinality(F) <= Cardinality(Owners(r))
  BY <1>7, OwnersCount, FS_Injection
<1>9. Range(found) \subseteq Owners(r)
  BY <1>3, <1>4, <1>6
<1>10. Cardinality(Range(found)) <= Cardinality(Owners(r)) /\ Cardinality(Range(found)) \in Nat
  BY <1>9, OwnersCount, FS_Subset, FS_CardinalityType
<1>11. Cardinality(Owners(r)) \in Nat /\ Cardinality(DOMAIN r.owner) \in Nat
  BY OwnersCount
<1> QED
  BY <1>0, <1>2, <1>5, <1>8, <1>10, <1>11 DEF Hopeless, GoesOn

\* What holds of every walk: it has found what its part of the lap has to find.
WalksTyped ==
    walks \in [Clients -> {NoWalk} \cup [pc : {"walking", "done"}, key : KeyHashes, at : Nat, found : Seq(Nodes)]]

WalkSound(c) == Walking(c) => Walked(ring, walks[c].key, walks[c].at, walks[c].found)

WalkInv == RingSound(ring) /\ WalksTyped /\ \A c \in Clients : WalkSound(c)

\* WalkInv holds at the start.
LEMMA WalkInvInit == ASSUME ClusterAssumption PROVE ClusterInit => WalkInv
<1> SUFFICES ASSUME ClusterInit PROVE WalkInv
  OBVIOUS
<1>1. RingSound(ring)
  BY FirstRingSound DEF ClusterInit
<1>2. WalksTyped /\ \A c \in Clients : ~Walking(c)
  BY DEF ClusterInit, WalksTyped, Walking, NoWalk
<1> QED
  BY <1>1, <1>2 DEF WalkInv, WalkSound

\* The fields of a walk.
LEMMA WalkFields ==
    ASSUME WalksTyped, NEW c \in Clients, Walking(c)
    PROVE  /\ walks[c].key \in KeyHashes /\ walks[c].at \in Nat /\ walks[c].found \in Seq(Nodes)
           /\ walks[c] \in [pc : {"walking", "done"}, key : KeyHashes, at : Nat, found : Seq(Nodes)]
BY DEF WalksTyped, Walking, NoWalk

\* Every step keeps it.
LEMMA WalkInvStep ==
    ASSUME ClusterAssumption
    PROVE  ClusterTyped /\ WalkInv /\ [ClusterNext]_clusterVars => WalkInv'
<1> SUFFICES ASSUME ClusterTyped, WalkInv, [ClusterNext]_clusterVars PROVE WalkInv'
  OBVIOUS
<1>a. KeyHashes \subseteq Nat /\ Owners(ring) \subseteq Nodes
  BY DEF ClusterAssumption, ClusterTyped, RingOK, Known
<1>1. CASE JoinRing
  <2>1. adding \in Nodes
    BY <1>1 DEF JoinRing, Free, ClusterTyped, Known
  <2>2. RingSound(ring')
    <3>1. RingWell(ring)
      BY DEF WalkInv, RingSound, RingWell
    <3> QED
      BY <1>1, <2>1, <3>1, AddToRingSound DEF JoinRing
  <2>3. WalksTyped' /\ \A c \in Clients : ~Walking(c)'
    BY <1>1 DEF JoinRing, WalkInv, WalksTyped, Walking
  <2> QED
    BY <2>2, <2>3 DEF WalkInv, WalkSound
<1>2. ASSUME NEW c \in Clients, NEW h \in KeyHashes, BeginWalk(c, h) PROVE WalkInv'
  <2> DEFINE w == [pc |-> "walking", key |-> h, at |-> Start(ring, h), found |-> <<>>]
  <2>1. h \in Nat /\ Walked(ring, h, Start(ring, h), <<>>)
    BY <1>a, WalkBegins DEF WalkInv
  <2>2. walks' = [walks EXCEPT ![c] = w] /\ ring' = ring
    BY <1>2 DEF BeginWalk
  <2>3. w \in [pc : {"walking", "done"}, key : KeyHashes, at : Nat, found : Seq(Nodes)]
    <3>1. Start(ring, h) \in Nat
      BY <2>1, StartFacts DEF WalkInv, RingSound
    <3> QED
      BY <3>1
  <2>4. w.key = h /\ w.at = Start(ring, h) /\ w.found = <<>>
    OBVIOUS
  <2> HIDE DEF w
  <2>5. WalksTyped' /\ walks'[c] = w /\ \A d \in Clients \ {c} : walks'[d] = walks[d]
    BY <2>2, <2>3 DEF WalkInv, WalksTyped
  <2>6. WalkSound(c)'
    BY <2>1, <2>2, <2>4, <2>5 DEF WalkSound
  <2>7. \A d \in Clients \ {c} : WalkSound(d)'
    BY <2>2, <2>5 DEF WalkSound, WalkInv, Walking
  <2> QED
    BY <2>2, <2>5, <2>6, <2>7 DEF WalkInv
<1>3. ASSUME NEW c \in Clients, WalkStep(c) PROVE WalkInv'
  <2> DEFINE o == OwnerAt(ring, walks[c].at)
             next == IF o \in Range(walks[c].found) THEN walks[c].found ELSE Append(walks[c].found, o)
             at == Clockwise(ring, walks[c].at)
  <2>1. /\ walks[c].key \in Nat /\ walks[c].found \in Seq(Nodes)
        /\ walks[c] \in [pc : {"walking", "done"}, key : KeyHashes, at : Nat, found : Seq(Nodes)]
        /\ Walked(ring, walks[c].key, walks[c].at, walks[c].found) /\ Len(walks[c].found) < ReplicaFactor
    BY <1>a, <1>3, WalkFields DEF WalkStep, WalkInv, WalkSound, GoesOn
  <2>2. next \in Seq(Nodes) /\ Walked(ring, walks[c].key, at, next)
    BY <1>a, <2>1, WalkGoesOn DEF WalkInv
  <2>3. walks' = [walks EXCEPT ![c].at = at, ![c].found = next] /\ ring' = ring
    BY <1>3 DEF WalkStep
  <2>4. at \in Nat
    BY <2>2 DEF Walked
  <2> HIDE DEF o, next, at
  <2>5. /\ walks'[c] = [walks[c] EXCEPT !.at = at, !.found = next]
        /\ walks'[c] \in [pc : {"walking", "done"}, key : KeyHashes, at : Nat, found : Seq(Nodes)]
        /\ walks'[c].key = walks[c].key /\ walks'[c].at = at /\ walks'[c].found = next
        /\ WalksTyped' /\ \A d \in Clients \ {c} : walks'[d] = walks[d]
    <3>1. walks'[c] = [walks[c] EXCEPT !.at = at, !.found = next]
      BY <2>3 DEF WalkInv, WalksTyped
    <3>2. [walks[c] EXCEPT !.at = at, !.found = next]
              \in [pc : {"walking", "done"}, key : KeyHashes, at : Nat, found : Seq(Nodes)]
      BY <2>1, <2>2, <2>4
    <3>3. WalksTyped' /\ \A d \in Clients \ {c} : walks'[d] = walks[d]
      BY <2>3, <3>1, <3>2 DEF WalkInv, WalksTyped
    <3> QED
      BY <2>1, <3>1, <3>2, <3>3
  <2>6. WalkSound(c)'
    BY <2>2, <2>3, <2>5 DEF WalkSound
  <2>7. \A d \in Clients \ {c} : WalkSound(d)'
    BY <2>3, <2>5 DEF WalkSound, WalkInv, Walking
  <2> QED
    BY <2>3, <2>5, <2>6, <2>7 DEF WalkInv
<1>4. ASSUME NEW c \in Clients, EndWalk(c) PROVE WalkInv'
  <2>1. walks' = [walks EXCEPT ![c].pc = "done"] /\ ring' = ring
    BY <1>4 DEF EndWalk
  <2>2. walks[c] \in [pc : {"walking", "done"}, key : KeyHashes, at : Nat, found : Seq(Nodes)]
    BY <1>4, WalkFields DEF EndWalk, WalkInv
  <2>3. WalksTyped' /\ ~Walking(c)' /\ \A d \in Clients \ {c} : walks'[d] = walks[d]
    BY <2>1, <2>2 DEF WalkInv, WalksTyped, Walking
  <2>4. \A d \in Clients : WalkSound(d)'
    BY <2>1, <2>3 DEF WalkSound, WalkInv, Walking
  <2> QED
    BY <2>1, <2>3, <2>4 DEF WalkInv
<1>5. ASSUME NEW c \in Clients, Return(c) PROVE WalkInv'
  <2>1. walks' = [walks EXCEPT ![c] = NoWalk] /\ ring' = ring
    BY <1>5 DEF Return
  <2>2. WalksTyped' /\ ~Walking(c)' /\ \A d \in Clients \ {c} : walks'[d] = walks[d]
    BY <2>1 DEF WalkInv, WalksTyped, Walking, NoWalk
  <2>3. \A d \in Clients : WalkSound(d)'
    BY <2>1, <2>2 DEF WalkSound, WalkInv, Walking
  <2> QED
    BY <2>1, <2>2, <2>3 DEF WalkInv
<1>6. CASE UNCHANGED <<ring, walks>>
  BY <1>6 DEF WalkInv, WalksTyped, WalkSound, Walking
<1> QED
  BY <1>1, <1>2, <1>3, <1>4, <1>5, <1>6
     DEF ClusterNext, clusterVars, AddNode, RemoveNode, Answer, Heard, NoAnswer, Fail,
         Tick, SendHeartbeats, CheckHealth

LEMMA WalkInvariant ==
    ASSUME ClusterAssumption
    PROVE  ClusterSpec => [](ClusterTyped /\ WalkInv)
<1>1. ClusterInit => ClusterTyped /\ WalkInv
  BY ClusterTypedInit, WalkInvInit
<1>2. ClusterTyped /\ WalkInv /\ [ClusterNext]_clusterVars => (ClusterTyped /\ WalkInv)'
  BY ClusterTypedStep, WalkInvStep
<1> QED
  BY <1>1, <1>2, PTL DEF ClusterSpec

\* GetNodes answers with exactly the first ReplicaFactor nodes clockwise from the
\* key: a walk that has no more to do has found them, however often it went
\* round, and no node joins meanwhile.  (Replication takes the answer as one.)
THEOREM GetNodesIsExact ==
    ASSUME ClusterAssumption
    PROVE  ClusterSpec => [](\A c \in Clients :
             Walking(c) /\ ~GoesOn(ring, walks[c].found) => walks[c].found = Preferred(ring, walks[c].key))
<1> DEFINE Exact == \A c \in Clients :
             Walking(c) /\ ~GoesOn(ring, walks[c].found) => walks[c].found = Preferred(ring, walks[c].key)
<1>1. ClusterTyped /\ WalkInv => Exact
  <2> SUFFICES ASSUME ClusterTyped, WalkInv, NEW c \in Clients,
                      Walking(c), ~GoesOn(ring, walks[c].found)
               PROVE  walks[c].found = Preferred(ring, walks[c].key)
    OBVIOUS
  <2>1. RingSound(ring) /\ Owners(ring) \subseteq Nodes
    BY DEF WalkInv, ClusterTyped, RingOK, Known
  <2>2. walks[c].key \in Nat /\ walks[c].found \in Seq(Nodes)
    BY WalkFields DEF ClusterAssumption, WalkInv
  <2>3. Walked(ring, walks[c].key, walks[c].at, walks[c].found)
    BY DEF WalkInv, WalkSound
  <2> QED
    BY <2>1, <2>2, <2>3, WalkEnds
<1> HIDE DEF Exact
<1>2. ClusterSpec => []Exact
  BY <1>1, WalkInvariant, PTL
<1> QED
  BY <1>2 DEF Exact

\* A walk of a ring that has too few nodes never ends, and keeps the ring as it
\* is: the safety half of WalkFate.
THEOREM TrappedForEver ==
    ASSUME ClusterAssumption
    PROVE  ClusterSpec => [][\A c \in Clients : Trapped(c) => Trapped(c)']_clusterVars
<1>1. ASSUME ClusterTyped, WalkInv, [ClusterNext]_clusterVars
      PROVE  \A c \in Clients : Trapped(c) => Trapped(c)'
  <2> SUFFICES ASSUME NEW c \in Clients, Trapped(c) PROVE Trapped(c)'
    OBVIOUS
  <2>1. GoesOn(ring, walks[c].found)
    <3>1. RingSound(ring) /\ Owners(ring) \subseteq Nodes /\ Walking(c) /\ Hopeless(ring)
      BY <1>1 DEF WalkInv, ClusterTyped, RingOK, Known, Trapped
    <3>2. walks[c].key \in Nat /\ walks[c].found \in Seq(Nodes)
      BY <1>1, <3>1, WalkFields DEF ClusterAssumption, WalkInv
    <3>3. Walked(ring, walks[c].key, walks[c].at, walks[c].found)
      BY <1>1, <3>1 DEF WalkInv, WalkSound
    <3> QED
      BY <3>1, <3>2, <3>3, HopelessGoesOn
  <2>2. ring' = ring
    BY <1>1 DEF Trapped, ClusterNext, clusterVars, JoinRing, AddNode, RemoveNode, Answer, Heard, NoAnswer,
                Fail, Tick, SendHeartbeats, CheckHealth, BeginWalk, WalkStep, EndWalk, Return
  <2>3. walks'[c].pc = "walking"
    <3>1. walks[c].pc = "walking" /\ DOMAIN walks = Clients
      BY <1>1 DEF Trapped, Walking, WalkInv, WalksTyped
    <3>2. ASSUME NEW d \in Clients, WalkStep(d) PROVE walks'[c].pc = "walking"
      <4>1. walks[d] \in [pc : {"walking", "done"}, key : KeyHashes, at : Nat, found : Seq(Nodes)]
        BY <1>1, <3>2, WalkFields DEF WalkStep, WalkInv
      <4>2. walks'[c].pc = walks[c].pc
        BY <3>1, <3>2, <4>1 DEF WalkStep
      <4> QED
        BY <3>1, <4>2
    <3>3. ASSUME NEW d \in Clients, EndWalk(d) PROVE walks'[c].pc = "walking"
      <4>1. d # c
        BY <2>1, <3>3 DEF EndWalk
      <4> QED
        BY <3>1, <3>3, <4>1 DEF EndWalk
    <3>4. ASSUME NEW d \in Clients, Return(d) PROVE walks'[c].pc = "walking"
      BY <3>1, <3>4 DEF Return
    <3>5. ASSUME NEW d \in Clients, NEW h \in KeyHashes, BeginWalk(d, h) PROVE walks'[c].pc = "walking"
      BY <3>1, <3>5 DEF BeginWalk, NoWalk
    <3>6. CASE UNCHANGED walks
      BY <3>1, <3>6
    <3> QED
      BY <1>1, <3>2, <3>3, <3>4, <3>5, <3>6
         DEF ClusterNext, clusterVars, JoinRing, AddNode, RemoveNode, Answer, Heard, NoAnswer,
             Fail, Tick, SendHeartbeats, CheckHealth
  <2> QED
    BY <2>2, <2>3 DEF Trapped, Walking
<1>2. ClusterTyped /\ WalkInv /\ [ClusterNext]_clusterVars
        => [\A c \in Clients : Trapped(c) => Trapped(c)']_clusterVars
  BY <1>1
<1> QED
  BY <1>2, WalkInvariant, PTL DEF ClusterSpec

=============================================================================
