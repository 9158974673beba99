-------------------------- MODULE EplbRanksProofs --------------------------
(***************************************************************************)
(* A rebalancing moves the weights of all ranks to the same placement,     *)
(* whatever order the ranks run in: for every topology, number of layers,  *)
(* initial placement and load, with and without the utilization metrics.   *)
(*                                                                         *)
(* The argument: while a rebalancing runs, there is a placement m that all *)
(* ranks had when it began, and a target that all ranks compute.  A send   *)
(* of one rank and the receive of its peer for the same layer and expert   *)
(* are done together (MatchInv), so that a rank can only leave a layer     *)
(* when its peers have had what they need of it, the next ops of two ranks *)
(* are always of the same layer and expert, and every slot ends with the   *)
(* weights that the target names there.                                    *)
(***************************************************************************)
EXTENDS EplbRanks, ExpertLocationUpdaterProofs

-----------------------------------------------------------------------------
(* The plan *)

\* The slots of a rank, and its rank within the node, by two divisions or by one.
LEMMA DivDiv ==
  ASSUME NEW p \in Nat, NEW b \in Nat \ {0}, NEW c \in Nat \ {0}
  PROVE  (p \div b) \div c = p \div (c * b)
<1> DEFINE d == p \div b
           q == d \div c
           m == c * b
<1>1. d \in Nat /\ d * b <= p /\ p < d * b + b
  BY DivMod, Quotient
<1> HIDE DEF d
<1>2. q \in Nat /\ q * c <= d /\ d < q * c + c
  BY <1>1, DivMod, Quotient
<1> HIDE DEF q
<1> DEFINE qc == q * c
<1>3. qc \in Nat /\ qc <= d /\ d + 1 <= qc + c
  BY <1>1, <1>2
<1>4. qc * b = q * m /\ (qc + c) * b = q * m + m /\ m \in Nat /\ q * m \in Nat
  <2>1. (q * c) * b = q * (c * b) /\ (q * c + c) * b = (q * c) * b + c * b /\ c * b \in Nat
    BY <1>2
  <2>2. q * m \in Nat
    BY <1>2, <2>1
  <2> QED BY <2>1, <2>2
<1>5. m # 0
  OBVIOUS
<1> HIDE DEF qc, m
<1>6. qc * b <= d * b /\ (d + 1) * b <= (qc + c) * b
  BY <1>1, <1>3, MulMono
<1>7. (d + 1) * b = d * b + b /\ d * b \in Nat
  BY <1>1, MulSucc
<1>8. q * m <= p /\ p < q * m + m
  BY <1>1, <1>4, <1>6, <1>7
<1>9. p \div m = q
  BY <1>2, <1>4, <1>5, <1>8, Quotient
<1> QED BY <1>9 DEF q, d, m

\* The nodes of a policy.
PolicyNodes == IF Hierarchical THEN NumNodes ELSE 1

\* The slots of a node.
SlotsOf(n) == {p \in Physical : Hierarchical => NodeOf(GpuOf(p)) = n}

\* They are as many numbers in a row for each node.
LEMMA NodesOfSlots ==
  /\ SlotsPerNode \in Nat \ {0}
  /\ Hierarchical => \A p \in Physical : NodeOf(GpuOf(p)) = p \div SlotsPerNode
  /\ \A n \in Upto(PolicyNodes) : SlotsOf(n) # {} /\ \A p \in Physical : p \in SlotsOf(n) <=> p \div SlotsPerNode = n
<1> DEFINE s == SlotsPerNode
           k == PolicyNodes
<1>0. Hierarchical \in BOOLEAN /\ \A p \in Physical : p \in Nat /\ p < NumPhysical
  BY Topology, TopologyAssumption, UptoFacts DEF Physical
<1>1. s \in Nat \ {0} /\ k \in Nat \ {0} /\ NumPhysical = k * s
  <2>1. CASE Hierarchical
    <3>1. s = GpusPerNode * NumLocal /\ k = NumNodes /\ NumPhysical = (NumNodes * GpusPerNode) * NumLocal
      BY <2>1 DEF SlotsPerNode, PolicyNodes, NumPhysical, NumGpus
    <3>2. /\ GpusPerNode * NumLocal \in Nat /\ GpusPerNode * NumLocal # 0
          /\ (NumNodes * GpusPerNode) * NumLocal = NumNodes * (GpusPerNode * NumLocal)
      BY Topology
    <3> QED BY <3>1, <3>2, Topology
  <2>2. CASE ~Hierarchical
    BY <2>2, Topology, TopologyAssumption DEF SlotsPerNode, PolicyNodes
  <2> QED BY <1>0, <2>1, <2>2
<1>2. ASSUME Hierarchical, NEW p \in Physical PROVE NodeOf(GpuOf(p)) = p \div s
  <2>1. (p \div NumLocal) \div GpusPerNode = p \div (GpusPerNode * NumLocal)
    BY <1>0, Topology, DivDiv
  <2> QED BY <1>2, <2>1 DEF NodeOf, GpuOf, SlotsPerNode
<1>3. ASSUME ~Hierarchical, NEW p \in Physical PROVE p \div s = 0
  <2>1. p \in Nat /\ s = NumPhysical /\ p < s
    BY <1>0, <1>3 DEF SlotsPerNode
  <2> HIDE DEF s
  <2> QED BY <1>1, <2>1, Quotient
<1>4. ASSUME NEW n \in Upto(k)
      PROVE  \A p \in Physical : p \in SlotsOf(n) <=> p \div s = n
  <2>1. CASE Hierarchical
    BY <1>2, <2>1 DEF SlotsOf
  <2>2. CASE ~Hierarchical
    <3>1. k = 1 /\ n = 0
      BY <2>2, <1>1, UptoFacts DEF PolicyNodes
    <3> QED BY <1>3, <2>2, <3>1 DEF SlotsOf
  <2> QED BY <1>0, <2>1, <2>2
<1>5. ASSUME NEW n \in Upto(k) PROVE SlotsOf(n) # {}
  <2>1. n \in Nat /\ n < k
    BY <1>1, UptoFacts
  <2> HIDE DEF s, k
  <2>2. n * s + 0 \in Nat /\ n * s + 0 < k * s /\ (n * s + 0) \div s = n
    BY <1>1, <2>1, Digits
  <2>3. n * s + 0 \in Physical
    BY <1>1, <2>2, Topology, UptoFacts DEF Physical
  <2> QED BY <1>4, <2>2, <2>3
<1> QED BY <1>1, <1>2, <1>4, <1>5 DEF s, k

\* The placement of a layer by its loads is sound.
LEMMA PlanSound ==
  ASSUME NEW w \in [Logical -> Nat]
  PROVE  SoundPlacement(NewPlacement(w)) /\ NewPlacement(w).phy2log = Policy(w).phy2log
<1> DEFINE a == Policy(w)
           r == Scatter(a)
           x == NewPlacement(w)
<1>1. Numbered(a)
  BY PolicySound DEF Placed
<1> HIDE DEF a
<1>2. Listed(a, r)
  BY <1>1, ReplicasListed
<1> DEFINE Used(l) == {k \in DOMAIN r.log2phy[l] : r.log2phy[l][k] # -1}
           d == [l \in Logical |-> {r.log2phy[l][k] : k \in Upto(Cardinality(Used(l)))}]
<1>3. x = [phy2log |-> r.phy2log, dispatch |-> d]
  BY DEF NewPlacement, InitRaw, rebalance_experts, a
<1> HIDE DEF r, x
<1>4. -1 \notin Physical
  BY Topology, UptoFacts DEF Physical
<1>5. ASSUME NEW l \in Logical PROVE Used(l) = Upto(a.cnt[l])
  BY <1>2, <1>4 DEF Listed
<1>6. ASSUME NEW l \in Logical
      PROVE  /\ d[l] = {r.log2phy[l][k] : k \in Upto(a.cnt[l])}
             /\ 0 \in Upto(a.cnt[l])
  <2> DEFINE n == a.cnt[l]
  <2>1. n \in Nat \ {0}
    BY <1>1 DEF Numbered
  <2> HIDE DEF n
  <2>2. Cardinality(Upto(n)) = n /\ 0 \in Upto(n)
    BY <2>1, UptoFacts
  <2>3. Cardinality(Used(l)) = n
    BY <1>5, <2>2 DEF n
  <2> HIDE DEF Used
  <2>4. d[l] = {r.log2phy[l][k] : k \in Upto(n)}
    BY <2>3
  <2> QED BY <2>2, <2>4 DEF n
<1>7. ASSUME NEW l \in Logical
      PROVE  d[l] # {} /\ \A p \in d[l] : p \in Physical /\ a.phy2log[p] = l
  <2> HIDE DEF d, Used
  <2>1. \A k \in Upto(a.cnt[l]) : r.log2phy[l][k] \in Physical /\ a.phy2log[r.log2phy[l][k]] = l
    BY <1>2 DEF Listed
  <2> QED BY <1>6, <2>1
<1>8. d \in [Logical -> SUBSET (Physical \cup {-1})]
  <2>1. \A l \in Logical : d[l] \in SUBSET (Physical \cup {-1})
    BY <1>7
  <2>2. d = [l \in Logical |-> d[l]]
    OBVIOUS
  <2> HIDE DEF d
  <2> QED BY <2>1, <2>2
<1> HIDE DEF d
<1>9. x.phy2log = a.phy2log /\ x.dispatch = d /\ x = [phy2log |-> a.phy2log, dispatch |-> d]
  BY <1>2, <1>3 DEF Listed
<1>10. a.phy2log \in Maps
  BY <1>1 DEF Numbered
<1>11. x \in PlacementType
  BY <1>8, <1>9, <1>10 DEF PlacementType
<1>12. \A e \in Logical : \E p \in Physical : a.phy2log[p] = e
  BY <1>7
<1>13. SoundPlacement(x) /\ x.phy2log = a.phy2log
  BY <1>7, <1>9, <1>11, <1>12 DEF SoundPlacement
<1> QED BY <1>13 DEF a, x

\* x has the experts of one group on one node.
Grouped(x) ==
  Hierarchical => \A p, q \in Physical :
    x.phy2log[p] \div (NumLogical \div NumGroups) = x.phy2log[q] \div (NumLogical \div NumGroups)
      => NodeOf(GpuOf(p)) = NodeOf(GpuOf(q))

\* The hierarchical policy keeps the groups together.
LEMMA PlanGrouped ==
  ASSUME NEW w \in [Logical -> Nat]
  PROVE  Grouped(NewPlacement(w))
<1> DEFINE new == NewPlacement(w).phy2log
<1>1. PICK nodeOf : /\ Numbered(Policy(w)) /\ NodeWise(w, SlotsPerNode, nodeOf, Policy(w))
                    /\ \A y, z \in Logical : y \div GroupSize = z \div GroupSize => nodeOf[y] = nodeOf[z]
  BY PolicySound DEF Placed
<1>2. new = Policy(w).phy2log
  BY PlanSound
<1> HIDE DEF new
<1>3. new \in [Physical -> Logical] /\ \A p \in Physical : nodeOf[new[p]] = p \div SlotsPerNode
  BY <1>1, <1>2 DEF Numbered, NodeWise, Maps
<1>4. ASSUME Hierarchical, NEW p \in Physical, NEW q \in Physical,
             new[p] \div (NumLogical \div NumGroups) = new[q] \div (NumLogical \div NumGroups)
      PROVE  NodeOf(GpuOf(p)) = NodeOf(GpuOf(q))
  <2>1. new[p] \div GroupSize = new[q] \div GroupSize
    BY <1>4 DEF GroupSize
  <2>2. nodeOf[new[p]] = nodeOf[new[q]]
    BY <1>1, <1>3, <2>1
  <2> QED BY <1>3, <1>4, <2>2, NodesOfSlots
<1> QED BY <1>4 DEF Grouped, new

\* x shares out the slots of node n in the best way for the loads w.
Optimal(w, x, n) ==
  LET new     == x.phy2log
      slots   == SlotsOf(n)
      experts == {new[p] : p \in slots}
      cnt     == [e \in experts |-> Cardinality({p \in slots : new[p] = e})]
  IN \A other \in [slots -> experts] :
       \E e \in experts : \A i \in experts :
         w[e] * cnt[i] >= w[i] * Cardinality({p \in slots : other[p] = e})

\* Both policies do.
LEMMA PlanOptimal ==
  ASSUME NEW w \in [Logical -> Nat], NEW n \in Upto(PolicyNodes)
  PROVE  Optimal(w, NewPlacement(w), n)
<1> DEFINE a == Policy(w)
           new == NewPlacement(w).phy2log
           S == SlotsOf(n)
           E == {new[p] : p \in S}
           cnt == [e \in E |-> Cardinality({p \in S : new[p] = e})]
           x == [p \in S |-> new[p]]
<1>1. PICK nodeOf : Numbered(a) /\ NodeWise(w, SlotsPerNode, nodeOf, a)
  BY PolicySound DEF Placed
<1>2. new = a.phy2log
  BY PlanSound
<1> HIDE DEF new, a
<1>3. /\ new \in [Physical -> Logical] /\ \A p \in Physical : nodeOf[new[p]] = p \div SlotsPerNode
      /\ \A i, j \in Logical : nodeOf[i] = nodeOf[j] => w[i] * a.cnt[j] >= w[j] * (a.cnt[i] - 1)
      /\ a.cnt \in [Logical -> Nat \ {0}]
  BY <1>1, <1>2 DEF Numbered, NodeWise, Maps
<1>4. S # {} /\ S \in SUBSET Physical /\ \A p \in Physical : p \in S <=> p \div SlotsPerNode = n
  <2>1. S \in SUBSET Physical
    BY DEF SlotsOf
  <2> QED BY <2>1, NodesOfSlots
<1> HIDE DEF S
<1>5. IsFiniteSet(S)
  BY <1>4, FiniteRanges, FS_Subset
<1>6. E # {} /\ E \in SUBSET Logical /\ \A e \in E : nodeOf[e] = n
  BY <1>3, <1>4
<1>7. ASSUME NEW e \in E PROVE cnt[e] = Cardinality(Fibre(S, x, e)) /\ cnt[e] = a.cnt[e] /\ cnt[e] \in Nat \ {0}
  <2>1. Fibre(S, x, e) = {p \in S : new[p] = e}
    BY DEF Fibre
  <2>2. {p \in S : new[p] = e} = {p \in Physical : a.phy2log[p] = e}
    BY <1>2, <1>3, <1>4, <1>6
  <2>3. Cardinality({p \in Physical : a.phy2log[p] = e}) = a.cnt[e]
    BY <1>1, <1>6, ReplicasCounted
  <2>4. cnt[e] = Cardinality({p \in S : new[p] = e})
    OBVIOUS
  <2>5. a.cnt[e] \in Nat \ {0}
    BY <1>3, <1>6
  <2> HIDE DEF cnt, x, E
  <2> QED BY <2>1, <2>2, <2>3, <2>4, <2>5
<1>8. x \in [S -> E]
  OBVIOUS
<1> HIDE DEF cnt, x, E
<1>9. \A i, j \in E : w[i] * cnt[j] >= w[j] * (cnt[i] - 1)
  <2>1. ASSUME NEW i \in E, NEW j \in E PROVE w[i] * cnt[j] >= w[j] * (cnt[i] - 1)
    <3>1. i \in Logical /\ j \in Logical /\ nodeOf[i] = nodeOf[j] /\ cnt[i] = a.cnt[i] /\ cnt[j] = a.cnt[j]
      BY <1>6, <1>7
    <3>2. w[i] * a.cnt[j] >= w[j] * (a.cnt[i] - 1)
      BY <1>3, <3>1
    <3> QED BY <3>1, <3>2
  <2> QED BY <2>1
<1>10. ASSUME NEW other \in [S -> E]
       PROVE  \E e \in E : \A i \in E : w[e] * cnt[i] >= w[i] * Cardinality({p \in S : other[p] = e})
  <2>1. E \in SUBSET Upto(NumLogical) /\ NumLogical \in Nat /\ \A e \in E : w[e] \in Nat
    BY <1>6, Topology DEF Logical
  <2>2. \A e \in E : cnt[e] = Cardinality(Fibre(S, x, e)) /\ cnt[e] \in Nat \ {0}
    BY <1>7
  <2>3. NoBetter(E, w, cnt, S, other)
    BY <1>5, <1>6, <1>8, <1>9, <2>1, <2>2, GreedyOptimal
  <2> QED BY <2>3 DEF NoBetter, Fibre
<1> QED BY <1>10 DEF Optimal, cnt, E, S, new

\* The algorithm makes a sound placement of every load.
LEMMA PlansAreSound ==
  /\ PlansSound
  /\ \A c \in LoadChoices, l \in Layers : c[l] \in [Logical -> Nat] /\ Plans[c[l]] = NewPlacement(c[l])
<1>1. ASSUME NEW c \in LoadChoices, NEW l \in Layers
      PROVE  c[l] \in [Logical -> Nat] /\ Plans[c[l]] = NewPlacement(c[l])
  <2>1. c \in [Layers -> [Logical -> Nat]]
    BY RanksAssumption
  <2>2. c[l] \in UNION {Range(b) : b \in LoadChoices}
    BY <2>1 DEF Range
  <2> QED BY <2>1, <2>2 DEF Plans
<1> QED BY <1>1, PlanSound DEF PlansSound
-----------------------------------------------------------------------------
(* One layer of one rank *)

\* The lowest of a set of slots is in the set, and no other is lower.
LEMMA MinSlot ==
  ASSUME NEW S \in SUBSET Physical, S # {}
  PROVE  Min(S) \in S /\ \A q \in S : ~(q < Min(S))
<1>1. PICK p \in S : \A q \in S : ~(q < p)
  BY LowestSlot
<1>2. Physical \in SUBSET Int
  BY FiniteRanges
<1>3. \A q \in S : p <= q
  BY <1>1, <1>2
<1>4. Min(S) \in S /\ \A q \in S : Min(S) <= q
  BY <1>3, Zenon DEF Min
<1> DEFINE m == Min(S)
<1> HIDE DEF m
<1>5. m \in S /\ \A q \in S : m <= q
  BY <1>4 DEF m
<1>6. m \in Int /\ \A q \in S : q \in Int
  BY <1>2, <1>5
<1>7. m \in S /\ \A q \in S : ~(q < m)
  BY <1>5, <1>6
<1> QED BY <1>7 DEF m

\* There are ranks, layers, and rank 0.
LEMMA Ranges ==
  /\ 0 \in Gpus /\ 0 \in Layers /\ Gpus \in SUBSET Int /\ Layers \in SUBSET Int
  /\ NumLayers \in Nat \ {0} /\ NumLayers - 1 \in Layers
  /\ \A l \in Layers : 0 <= l /\ l <= NumLayers - 1
  /\ \A l \in Layers : l < NumLayers - 1 => l + 1 \in Layers
  /\ \A g \in Gpus : LocalOf(g) \in SUBSET Physical
<1>1. NumGpus \in Nat \ {0}
  <2>1. NumNodes * GpusPerNode # 0
    <3> DEFINE a == NumNodes
               b == GpusPerNode
    <3>1. a \in Nat /\ b \in Nat /\ 1 <= a /\ 1 <= b
      BY Topology
    <3> HIDE DEF a, b
    <3>2. 1 * b <= a * b
      BY <3>1, MulMono
    <3>3. a * b \in Nat
      BY <3>1
    <3> QED BY <3>1, <3>2, <3>3 DEF a, b
  <2> QED BY <2>1, Topology DEF NumGpus
<1>2. 0 \in Gpus /\ Gpus \in SUBSET Int
  BY <1>1 DEF Gpus, Upto
<1>3. NumLayers \in Nat \ {0}
  BY LayersAssumption
<1> QED BY <1>2, <1>3 DEF Layers, Upto, LocalOf

\* The ops of a batch: a receive for each slot to be fetched, and sends of what
\* the rank holds.
LEMMA BatchOps ==
  ASSUME NEW old \in Maps, NEW new \in Maps, NEW g \in Gpus, NEW o \in Batch(g, old, new),
         \A e \in Logical : Holders(old, e) # {}
  PROVE  /\ o \in Op /\ o.slot \in LocalOf(g)
         /\ o.kind = "irecv" => o.slot \in Slots(g, old, new, "fetch") /\ o.expert = new[o.slot]
         /\ o.kind = "isend" => o.expert = old[o.slot] /\ o.peer # g
<1> DEFINE Recv(p)    == [kind |-> "irecv", expert |-> new[p], slot |-> p,
                          peer |-> SourceOf(old, new, new[p], g)]
           Send(p, h) == [kind |-> "isend", expert |-> old[p], slot |-> p, peer |-> h]
           first      == {p \in LocalOf(g) : \A q \in LocalOf(g) : q < p => old[q] # old[p]}
<1>1. LocalOf(g) \in SUBSET Physical
  BY DEF LocalOf
<1>2. ASSUME NEW p \in Slots(g, old, new, "fetch")
      PROVE  SourceOf(old, new, new[p], g) \in Gpus /\ new[p] \in Logical /\ p \in LocalOf(g)
  <2>1. p \in LocalOf(g) /\ new[p] \in Logical
    BY <1>1 DEF Slots, Maps
  <2>2. g \in Targets(old, new, new[p])
    BY <2>1, FetchSlot
  <2>3. SourceOf(old, new, new[p], g) \in Holders(old, new[p])
    BY <2>1, <2>2, SourceIsHolder
  <2> QED BY <2>1, <2>3, HoldersAreRanks
<1>3. ASSUME NEW p \in first, NEW h \in TargetsOf(old, new, old[p], g)
      PROVE  h \in Gpus /\ old[p] \in Logical /\ p \in LocalOf(g) /\ h # g
  <2>1. p \in LocalOf(g) /\ old[p] \in Logical
    BY <1>1 DEF Maps
  <2>2. h \in Targets(old, new, old[p])
    BY DEF TargetsOf, ElementValues, NearTargets, FarTargets
  <2>3. h \in Holders(new, old[p]) /\ h \notin Holders(old, old[p])
    BY <2>2 DEF Targets
  <2>4. g \in Holders(old, old[p])
    BY <2>1, HolderSlot
  <2> QED BY <2>1, <2>3, <2>4, HoldersAreRanks
<1>4. CASE \E p \in Slots(g, old, new, "fetch") : o = Recv(p)
  <2>1. PICK p \in Slots(g, old, new, "fetch") : o = Recv(p)
    BY <1>4
  <2>2. /\ SourceOf(old, new, new[p], g) \in Gpus /\ new[p] \in Logical /\ p \in LocalOf(g)
        /\ p \in Physical
    BY <1>1, <1>2
  <2> QED BY <2>1, <2>2 DEF Op
<1>5. CASE \E p \in first : \E h \in TargetsOf(old, new, old[p], g) : o = Send(p, h)
  <2>1. PICK p \in first : \E h \in TargetsOf(old, new, old[p], g) : o = Send(p, h)
    BY <1>5
  <2>2. PICK h \in TargetsOf(old, new, old[p], g) : o = Send(p, h)
    BY <2>1
  <2>3. h \in Gpus /\ old[p] \in Logical /\ p \in LocalOf(g) /\ p \in Physical /\ h # g
    BY <1>1, <1>3
  <2> QED BY <2>2, <2>3 DEF Op
<1>6. \/ \E p \in Slots(g, old, new, "fetch") : o = Recv(p)
      \/ \E p \in first : \E h \in TargetsOf(old, new, old[p], g) : o = Send(p, h)
  BY DEF Batch
<1> QED BY <1>4, <1>5, <1>6

\* Each slot to be fetched has its receive.
LEMMA FetchHasOp ==
  ASSUME NEW old \in Maps, NEW new \in Maps, NEW g \in Gpus, NEW p \in Slots(g, old, new, "fetch")
  PROVE  \E o \in Batch(g, old, new) : o.kind = "irecv" /\ o.slot = p
<1> DEFINE o == [kind |-> "irecv", expert |-> new[p], slot |-> p,
                 peer |-> SourceOf(old, new, new[p], g)]
<1>1. o \in Batch(g, old, new)
  BY DEF Batch
<1> QED BY <1>1

\* A slot to be filled is filled from a slot of the buffer that holds its expert.
LEMMA CopySource ==
  ASSUME NEW old \in Maps, NEW new \in Maps, NEW g \in Gpus, NEW p \in LocalOf(g)
  PROVE  /\ p \in DOMAIN BufferCopies(g, old, new) <=> old[p] # new[p]
         /\ old[p] # new[p] =>
              LET q == BufferCopies(g, old, new)[p]
              IN q \in Slots(g, old, new, "same-gpu") \cup Slots(g, old, new, "fetch")
                 /\ q \in LocalOf(g) /\ new[q] = new[p]
<1> DEFINE C == BufferCopies(g, old, new)
<1>0. LocalOf(g) \in SUBSET Physical
  BY DEF LocalOf
<1>1. old[p] = new[p] <=> RecvCase(old, new, g, p) = "unchanged"
  BY DEF RecvCase
<1>2. p \in DOMAIN C <=> old[p] # new[p]
  BY <1>1 DEF BufferCopies, Slots
<1>3. ASSUME old[p] # new[p]
      PROVE  C[p] \in Slots(g, old, new, "same-gpu") \cup Slots(g, old, new, "fetch")
             /\ C[p] \in LocalOf(g) /\ new[C[p]] = new[p]
  <2>1. C[p] = IF RecvCase(old, new, g, p) = "free-rider"
               THEN Min({q \in LocalOf(g) : new[q] = new[p]}) ELSE p
    BY <1>2, <1>3 DEF BufferCopies
  <2>2. CASE RecvCase(old, new, g, p) # "free-rider"
    <3>1. RecvCase(old, new, g, p) \in {"same-gpu", "fetch"}
      BY <1>1, <1>3, <2>2 DEF RecvCase
    <3> QED BY <2>1, <2>2, <3>1 DEF Slots
  <2>3. CASE RecvCase(old, new, g, p) = "free-rider"
    <3> DEFINE S == {q \in LocalOf(g) : new[q] = new[p]}
               q == Min(S)
    <3>1. q \in S /\ \A i \in S : ~(i < q)
      BY <1>0, MinSlot
    <3> HIDE DEF q
    <3>2. \A i \in LocalOf(g) : old[i] # new[p]
      BY <2>3 DEF RecvCase
    <3>3. q \in LocalOf(g) /\ new[q] = new[p] /\ old[q] # new[q]
      BY <3>1, <3>2
    <3>4. \A i \in LocalOf(g) : old[i] # new[q]
      BY <3>2, <3>3
    <3>5. ~\E i \in LocalOf(g) : i < q /\ new[i] = new[q]
      BY <3>1, <3>3
    <3>6. RecvCase(old, new, g, q) = "fetch"
      BY <3>3, <3>4, <3>5 DEF RecvCase
    <3> QED BY <2>1, <2>3, <3>3, <3>6 DEF Slots, q
  <2> QED BY <2>2, <2>3
<1> QED BY <1>2, <1>3

\* When the buffer has what is to be copied and fetched, the copies from the
\* buffer make the weights of the layer those of the new placement.
LEMMA LayerMoved ==
  ASSUME NEW old \in Maps, NEW new \in Maps, NEW g \in Gpus, NEW w, NEW t, NEW p \in LocalOf(g),
         w[p] = old[p],
         \A q \in Slots(g, old, new, "same-gpu") : t[q] = new[q],
         \A q \in Slots(g, old, new, "fetch") : t[q] = new[q]
  PROVE  (IF p \in DOMAIN BufferCopies(g, old, new) THEN t[BufferCopies(g, old, new)[p]] ELSE w[p])
           = new[p]
<1>1. CASE old[p] = new[p]
  BY <1>1, CopySource
<1>2. CASE old[p] # new[p]
  <2> DEFINE q == BufferCopies(g, old, new)[p]
  <2>1. /\ p \in DOMAIN BufferCopies(g, old, new) /\ new[q] = new[p]
        /\ q \in Slots(g, old, new, "same-gpu") \cup Slots(g, old, new, "fetch")
    BY <1>2, CopySource
  <2> HIDE DEF q
  <2>2. t[q] = new[q]
    BY <2>1
  <2> QED BY <2>1, <2>2 DEF q
<1> QED BY <1>1, <1>2

\* The local copies to the buffer: a slot of the same GPU holds the expert.
LEMMA StagedSlots ==
  ASSUME NEW old \in Maps, NEW new \in Maps, NEW g \in Gpus, NEW w, NEW t,
         \A p \in LocalOf(g) : w[p] = old[p]
  PROVE  /\ \A p \in Slots(g, old, new, "same-gpu") : StagedBuffer(g, old, new, w, t)[p] = new[p]
         /\ t \in [LocalOf(g) -> Logical \cup {Undef}] =>
              StagedBuffer(g, old, new, w, t) \in [LocalOf(g) -> Logical \cup {Undef}]
<1> DEFINE B == StagedBuffer(g, old, new, w, t)
<1>0. LocalOf(g) \in SUBSET Physical
  BY DEF LocalOf
<1>1. ASSUME NEW p \in Slots(g, old, new, "same-gpu")
      PROVE  p \in LocalOf(g) /\ B[p] = new[p] /\ new[p] \in Logical
  <2> DEFINE S == {q \in LocalOf(g) : old[q] = new[p]}
  <2>1. p \in LocalOf(g) /\ \E q \in LocalOf(g) : old[q] = new[p]
    BY DEF Slots, RecvCase
  <2>2. S # {} /\ S \in SUBSET Physical
    BY <1>0, <2>1
  <2>3. Min(S) \in S
    BY <2>2, MinSlot
  <2>4. B[p] = w[Min(S)]
    BY <2>1 DEF StagedBuffer
  <2>5. w[Min(S)] = new[p]
    BY <2>3
  <2> QED BY <1>0, <2>1, <2>4, <2>5 DEF Maps
<1>2. ASSUME t \in [LocalOf(g) -> Logical \cup {Undef}], NEW p \in LocalOf(g)
      PROVE  B[p] \in Logical \cup {Undef}
  <2>1. CASE p \in Slots(g, old, new, "same-gpu")
    BY <1>1, <2>1
  <2>2. CASE p \notin Slots(g, old, new, "same-gpu")
    <3>1. B[p] = t[p]
      BY <2>2 DEF StagedBuffer
    <3> QED BY <1>2, <3>1
  <2> QED BY <2>1, <2>2
<1>3. B = [p \in LocalOf(g) |-> B[p]]
  BY DEF StagedBuffer
<1> HIDE DEF B
<1>4. t \in [LocalOf(g) -> Logical \cup {Undef}] => B \in [LocalOf(g) -> Logical \cup {Undef}]
  BY <1>2, <1>3
<1> QED BY <1>1, <1>4 DEF B
-----------------------------------------------------------------------------
(* The invariant *)

\* The functions of the updater are defined for all ranks and layers.
Shape ==
  /\ DOMAIN meta = Gpus /\ DOMAIN plan = Gpus /\ DOMAIN weights = Gpus /\ DOMAIN temp = Gpus
  /\ DOMAIN layer = Gpus /\ DOMAIN ops = Gpus /\ DOMAIN copies = Gpus
  /\ \A g \in Gpus : DOMAIN weights[g] = Layers

\* The positions of a rank that does not know the rate of the round yet.
Undecided == {"all_reduce", "rate", "raised"}

\* No rank decides before rank 0 has broadcast a rate, and the rate then stays.
RateInv ==
  /\ pc[0] \in Undecided => rate = "none"
  /\ ~AllIdle /\ metrics /\ rate = "none" => \A g \in Gpus : pc[g] \in Undecided
  /\ ~metrics => rate = "none"

\* A rebalancing comes after a pass that was recorded, if the server records.
HistoryInv ==
  cause = "rebalance" /\ metrics /\ recording /\ pc[0] \in {"all_reduce", "rate"} => history

\* The decision that all ranks come to once the rate of the round is known.
Moving == cause = "rebalance" /\ rate # "high"

\* Rank g is through with a rebalancing that others are still in.
Through(g) == pc[g] = "idle" /\ ~AllIdle /\ Moving

\* Rank g has moved the weights of layer l in the running rebalancing.
Passed(g, l) == Through(g) \/ Moved(g, l)

\* The map of layer l that the running rebalancing leads to.
New(l) == target[l].phy2log

\* An op of the batch of rank g for layer l is done.
OpDone(g, l, o) == Passed(g, l) \/ (pc[g] = "wait" /\ layer[g] = l /\ o \notin ops[g])

\* Send s of rank g and receive r of rank h are for each other.
Pair(g, h, s, r) ==
  /\ s.kind = "isend" /\ s.peer = h
  /\ r.kind = "irecv" /\ r.peer = g
  /\ s.expert = r.expert

\* The placements hold all experts: the one that the rebalancing began with, m,
\* those of the ranks, and the target.
SoundInv(m) ==
  /\ m \in [Layers -> Maps]
  /\ \A l \in Layers : \A e \in Logical : \E p \in Physical : m[l][p] = e
  /\ \A g \in Gpus : \A l \in Layers : SoundPlacement(meta[g][l])
  /\ cause = "rebalance" => \A l \in Layers : SoundPlacement(target[l])

\* A rank has the target when it is through, and had m before.
MetaInv(m) ==
  /\ \A g \in Gpus : Through(g) => meta[g] = target
  /\ \A g \in Gpus : ~Through(g) => \A l \in Layers : meta[g][l].phy2log = m[l]
  /\ \A g \in Updating : Moving /\ plan[g] = target

\* The weights are those of the target in the layers that are done, else of m.
WeightsInv(m) ==
  \A g \in Gpus : \A l \in Layers : \A p \in LocalOf(g) :
     weights[g][l][p] = IF Passed(g, l) THEN New(l)[p] ELSE m[l][p]

\* What the posted ops os, the copies cs and the buffer b of rank g are for a layer
\* with the maps old and new: an expert to be fetched is in the buffer, or its
\* receive is not done.
Staged(g, old, new, os, cs, b) ==
  /\ os \subseteq Batch(g, old, new)
  /\ cs = BufferCopies(g, old, new)
  /\ \A p \in Slots(g, old, new, "same-gpu") : b[p] = new[p]
  /\ \A p \in Slots(g, old, new, "fetch") :
       b[p] = new[p] \/ \E o \in os : o.kind = "irecv" /\ o.slot = p

BufferInv(m) ==
  \A g \in Gpus : /\ pc[g] # "wait" => ops[g] = {}
                  /\ pc[g] = "wait" =>
                       Staged(g, m[layer[g]], New(layer[g]), ops[g], copies[g], temp[g])

\* A send and its receive are done together.
MatchInv(m) ==
  cause = "rebalance" =>
    \A g, h \in Gpus : \A l \in Layers :
      \A s \in Batch(g, m[l], New(l)) : \A r \in Batch(h, m[l], New(l)) :
        Pair(g, h, s, r) => /\ OpDone(g, l, s) => OpDone(h, l, r)
                            /\ OpDone(h, l, r) => OpDone(g, l, s)

\* A rebalancing is to the placements that the algorithm makes of the loads.
TargetInv == cause = "rebalance" => load \in LoadChoices /\ target = [l \in Layers |-> Plans[load[l]]]

RoundInv(m) == SoundInv(m) /\ MetaInv(m) /\ WeightsInv(m) /\ BufferInv(m) /\ MatchInv(m)

MapOf(x) == [l \in Layers |-> x[l].phy2log]

\* The inductive invariant: m is the placement of a rank that is not through.
Inv ==
  /\ TypeOK /\ Shape /\ RateInv /\ HistoryInv /\ RebalanceHasHistory /\ TargetInv
  /\ \E m \in {MapOf(meta[g]) : g \in Gpus} : RoundInv(m)
-----------------------------------------------------------------------------
(* Facts that the steps share *)

\* A send has its receive, a receive its send, and each only one.
LEMMA Partners ==
  ASSUME NEW old \in Maps, NEW new \in Maps, NEW g \in Gpus, NEW h \in Gpus,
         \A e \in Logical : \E p \in Physical : old[p] = e
  PROVE  /\ \A e \in Logical : Holders(old, e) # {}
         /\ \A s \in Batch(g, old, new) : s.kind = "isend" /\ s.peer = h =>
              \E r \in Batch(h, old, new) : Pair(g, h, s, r)
         /\ \A r \in Batch(h, old, new) : r.kind = "irecv" /\ r.peer = g =>
              \E s \in Batch(g, old, new) : Pair(g, h, s, r)
         /\ \A s, s1 \in Batch(g, old, new), r, r1 \in Batch(h, old, new) :
              Pair(g, h, s, r) => /\ Pair(g, h, s, r1) => r = r1
                                  /\ Pair(g, h, s1, r) => s = s1
<1>1. ASSUME NEW e \in Logical PROVE Holders(old, e) # {}
  BY DEF Holders
<1> DEFINE R(e) == OpsOf(Batch(h, old, new), "irecv", e, g)
           S(e) == OpsOf(Batch(g, old, new), "isend", e, h)
<1>2. ASSUME NEW e \in Logical
      PROVE  /\ R(e) = {} <=> S(e) = {}
             /\ \A o, i \in R(e) : o = i
             /\ \A o, i \in S(e) : o = i
  BY <1>1, BatchesMatch
<1>3. \A o \in Batch(g, old, new) \cup Batch(h, old, new) : o.expert \in Logical
  BY <1>1, BatchOps DEF Op
<1>4. ASSUME NEW s \in Batch(g, old, new), s.kind = "isend", s.peer = h
      PROVE  \E r \in Batch(h, old, new) : Pair(g, h, s, r)
  <2>1. s \in S(s.expert) /\ s.expert \in Logical
    BY <1>3, <1>4 DEF OpsOf
  <2>2. PICK r \in R(s.expert) : TRUE
    BY <1>2, <2>1
  <2> QED BY <1>4, <2>2 DEF OpsOf, Pair
<1>5. ASSUME NEW r \in Batch(h, old, new), r.kind = "irecv", r.peer = g
      PROVE  \E s \in Batch(g, old, new) : Pair(g, h, s, r)
  <2>1. r \in R(r.expert) /\ r.expert \in Logical
    BY <1>3, <1>5 DEF OpsOf
  <2>2. PICK s \in S(r.expert) : TRUE
    BY <1>2, <2>1
  <2> QED BY <1>5, <2>2 DEF OpsOf, Pair
<1>6. ASSUME NEW s \in Batch(g, old, new), NEW r \in Batch(h, old, new), Pair(g, h, s, r)
      PROVE  s.expert \in Logical /\ s \in S(s.expert) /\ r \in R(s.expert)
  BY <1>3, <1>6 DEF OpsOf, Pair
<1>7. ASSUME NEW s \in Batch(g, old, new), NEW s1 \in Batch(g, old, new),
             NEW r \in Batch(h, old, new), NEW r1 \in Batch(h, old, new), Pair(g, h, s, r)
      PROVE  /\ Pair(g, h, s, r1) => r = r1
             /\ Pair(g, h, s1, r) => s = s1
  <2>1. ASSUME Pair(g, h, s, r1) PROVE r = r1
    BY <1>2, <1>6, <1>7, <2>1
  <2>2. ASSUME Pair(g, h, s1, r) PROVE s = s1
    <3>1. s1.expert = s.expert
      BY <1>7, <2>2 DEF Pair
    <3> QED BY <1>2, <1>6, <1>7, <2>2, <3>1
  <2> QED BY <2>1, <2>2
<1> QED BY <1>1, <1>4, <1>5, <1>7

\* The two maps of a layer in a running rebalancing, and that they hold all experts.
LEMMA LayerMaps ==
  ASSUME NEW m, SoundInv(m), cause = "rebalance", NEW l \in Layers
  PROVE  /\ m[l] \in Maps /\ New(l) \in Maps
         /\ \A e \in Logical : \E p \in Physical : m[l][p] = e
BY DEF SoundInv, SoundPlacement, PlacementType, New

\* The states between rebalancings, and before anyone has begun to move.
Settled(m) ==
  /\ \A g \in Gpus : ~Through(g) /\ g \notin Updating /\ ops[g] = {}
  /\ SoundInv(m)
  /\ \A g \in Gpus : \A l \in Layers : meta[g][l].phy2log = m[l]
  /\ \A g \in Gpus : \A l \in Layers : \A p \in LocalOf(g) : weights[g][l][p] = m[l][p]

LEMMA SettledInv == ASSUME NEW m, Settled(m) PROVE RoundInv(m)
<1>1. \A g \in Gpus, l \in Layers : ~Passed(g, l)
  BY DEF Settled, Passed, Moved
<1>2. \A g \in Gpus : pc[g] # "wait"
  BY DEF Settled, Updating
<1>3. MetaInv(m)
  BY DEF Settled, MetaInv, Updating
<1>4. WeightsInv(m)
  BY <1>1 DEF Settled, WeightsInv
<1>5. BufferInv(m)
  BY <1>2 DEF Settled, BufferInv
<1>6. \A g \in Gpus, l \in Layers : \A o : ~OpDone(g, l, o)
  BY <1>1, <1>2 DEF OpDone
<1>7. MatchInv(m)
  BY <1>6 DEF MatchInv
<1> QED BY <1>3, <1>4, <1>5, <1>7 DEF RoundInv, Settled

LEMMA InvSettled ==
  ASSUME NEW m, RoundInv(m), \A g \in Gpus : ~Through(g) /\ g \notin Updating
  PROVE  Settled(m)
<1>1. \A g \in Gpus, l \in Layers : ~Passed(g, l)
  BY DEF Passed, Moved
<1>2. \A g \in Gpus : pc[g] # "wait"
  BY DEF Updating
<1> QED BY <1>1, <1>2 DEF RoundInv, MetaInv, WeightsInv, BufferInv, Settled

\* Some rank is not through, so that m is the placement of one.
LEMMA SomeNotThrough ==
  ASSUME NEW m, RoundInv(m)
  PROVE  m \in {MapOf(meta[g]) : g \in Gpus}
<1>1. PICK g \in Gpus : ~Through(g)
  BY Ranges DEF Through, AllIdle
<1>2. \A l \in Layers : meta[g][l].phy2log = m[l]
  BY <1>1 DEF RoundInv, MetaInv
<1>3. m = MapOf(meta[g])
  BY <1>2 DEF RoundInv, SoundInv, MapOf
<1> QED BY <1>3

\* Both facts after a step.
LEMMA SettledInvNext == ASSUME NEW m PROVE Settled(m)' => RoundInv(m)'
<1>1. Settled(m) => RoundInv(m)
  BY SettledInv
<1> QED BY <1>1, PTL

LEMMA SomeNotThroughNext ==
  ASSUME NEW m
  PROVE  RoundInv(m)' => (m \in {MapOf(meta[g]) : g \in Gpus})'
<1>1. RoundInv(m) => m \in {MapOf(meta[g]) : g \in Gpus}
  BY SomeNotThrough
<1> QED BY <1>1, PTL

\* A step that moves no weights, and neither begins nor ends the moves of a rank.
LEMMA QuietStep ==
  ASSUME NEW m, RoundInv(m), UNCHANGED <<updater, cause, target>>,
         \A h \in Gpus : pc[h] \in {"stage", "wait"} => pc'[h] = pc[h],
         \A h \in Gpus : pc'[h] \in {"stage", "wait"} => pc'[h] = pc[h],
         \A h \in Gpus : Through(h)' => Through(h),
         \A h \in Gpus : Through(h) => Through(h)',
         (\E h \in Gpus : h \in Updating) => Moving'
  PROVE  RoundInv(m)'
<1> USE DEF RoundInv, updater
<1>1. SoundInv(m)'
  BY DEF SoundInv
<1>2. \A h \in Gpus : (h \in Updating' => h \in Updating) /\ (h \in Updating => h \in Updating')
  BY DEF Updating
<1>3. Updating' \subseteq Gpus
  BY DEF Updating
<1>4. MetaInv(m)'
  BY <1>2, <1>3 DEF MetaInv
<1>5. ASSUME NEW h \in Gpus, NEW l \in Layers
      PROVE  (Passed(h, l)' => Passed(h, l)) /\ (Passed(h, l) => Passed(h, l)')
  BY <1>2 DEF Passed, Moved
<1>6. WeightsInv(m)'
  BY <1>5 DEF WeightsInv, New
<1>7. \A h \in Gpus : (pc'[h] = "wait" => pc[h] = "wait") /\ (pc[h] = "wait" => pc'[h] = "wait")
  OBVIOUS
<1>8. BufferInv(m)'
  BY <1>7 DEF BufferInv, New
<1>9. ASSUME NEW h \in Gpus, NEW l \in Layers, NEW o
      PROVE  (OpDone(h, l, o)' => OpDone(h, l, o)) /\ (OpDone(h, l, o) => OpDone(h, l, o)')
  BY <1>5, <1>7 DEF OpDone
<1>10. MatchInv(m)'
  BY <1>9 DEF MatchInv, New
<1> QED BY <1>1, <1>4, <1>6, <1>8, <1>10
-----------------------------------------------------------------------------
(* The dump and the decision *)

\* Nothing that the invariant speaks of changes.
LEMMA RequestInv ==
  ASSUME NEW m, RoundInv(m), UNCHANGED <<pc, updater, cause, target, rate>>
  PROVE  RoundInv(m)'
<1>1. \A h \in Gpus : (Through(h)' => Through(h)) /\ (Through(h) => Through(h)')
  BY DEF Through, AllIdle, Moving
<1>2. (\E h \in Gpus : h \in Updating) => Moving'
  BY DEF RoundInv, MetaInv, Moving
<1> QED BY <1>1, <1>2, QuietStep

\* A dump begins while all ranks are idle.
LEMMA BeginDumpInv ==
  ASSUME NEW m, RoundInv(m), AllIdle, NEW why, BeginDump(why), UNCHANGED updater,
         why = "rebalance" => \A l \in Layers : SoundPlacement(target'[l])
  PROVE  RoundInv(m)'
<1>1. \A g \in Gpus : ~Through(g) /\ g \notin Updating
  BY DEF AllIdle, Through, Updating
<1>2. Settled(m)
  BY <1>1, InvSettled
<1>3. \A g \in Gpus : ~Through(g)' /\ g \notin Updating'
  BY DEF BeginDump, Through, Updating
<1>4. SoundInv(m)'
  BY <1>2 DEF Settled, SoundInv, BeginDump, updater
<1>5. Settled(m)'
  BY <1>2, <1>3, <1>4 DEF Settled, updater
<1> QED BY <1>5, SettledInvNext

\* The collective ends on all ranks at once.
LEMMA AllReduceInv ==
  ASSUME NEW m, RoundInv(m), AllReduce
  PROVE  RoundInv(m)'
<1>1. \A h \in Gpus : ~Through(h) /\ ~Through(h)'
  BY DEF AllReduce, Through
<1>2. \A h \in Gpus : h \notin Updating
  BY DEF AllReduce, Updating
<1> QED BY <1>1, <1>2, QuietStep DEF AllReduce, control

\* A rank that learns the rate, or raises, moves nothing; when rank 0 broadcasts
\* it, nobody has decided yet.
LEMMA UtilizationRateInv ==
  ASSUME NEW m, RoundInv(m), TypeOK, RateInv, NEW g \in Gpus, UtilizationRate(g)
  PROVE  RoundInv(m)'
<1>1. /\ pc[g] = "rate" /\ pc'[g] \in {"decide", "raised"} /\ \A h \in Gpus \ {g} : pc'[h] = pc[h]
      /\ UNCHANGED <<updater, cause, target, metrics>>
  BY DEF UtilizationRate, TypeOK
<1>2. ~AllIdle /\ ~AllIdle'
  BY <1>1 DEF AllIdle
<1>3. CASE rate' = rate
  <2>1. \A h \in Gpus : (Through(h)' => Through(h)) /\ (Through(h) => Through(h)')
    BY <1>1, <1>2, <1>3 DEF Through, Moving
  <2>2. (\E h \in Gpus : h \in Updating) => Moving'
    BY <1>1, <1>3 DEF RoundInv, MetaInv, Moving
  <2> QED BY <1>1, <2>1, <2>2, QuietStep
<1>4. CASE rate' # rate
  <2>1. metrics /\ g = 0
    BY <1>4 DEF UtilizationRate
  <2>2. rate = "none"
    BY <1>1, <2>1 DEF RateInv, Undecided
  <2>3. \A h \in Gpus : pc[h] \in Undecided
    BY <1>2, <2>1, <2>2 DEF RateInv
  <2>4. \A h \in Gpus : ~Through(h) /\ ~Through(h)' /\ h \notin Updating
    BY <1>1, <2>3 DEF Through, Undecided, Updating
  <2>5. \A h \in Gpus : pc'[h] \notin {"stage", "wait"} /\ pc[h] \notin {"stage", "wait"}
    BY <1>1, <2>3 DEF Undecided
  <2> QED BY <1>1, <2>4, <2>5, QuietStep
<1> QED BY <1>3, <1>4

\* A rank that does not rebalance is idle again, as all the others will be; one
\* that does has its plan, and has moved nothing yet.
LEMMA DecideInv ==
  ASSUME NEW m, RoundInv(m), TypeOK, Shape, NEW g \in Gpus, Decide(g)
  PROVE  RoundInv(m)'
<1>0. /\ pc[g] = "decide" /\ ~AllIdle /\ g \notin Updating /\ ~Through(g)
      /\ UNCHANGED <<meta, weights, ops, copies, cause, target, rate>>
  BY DEF Decide, AllIdle, Updating, Through
<1>1. CASE ~Rebalances(g)
  <2>1. /\ pc' = [pc EXCEPT ![g] = "idle"] /\ ~Moving /\ ~Moving'
        /\ UNCHANGED <<plan, temp, layer>>
    BY <1>0, <1>1 DEF Decide, Rebalances, Moving
  <2>2. \A h \in Gpus : h \notin Updating /\ ~Through(h)
    BY <2>1 DEF RoundInv, MetaInv, Through
  <2>3. \A h \in Gpus : h \notin Updating' /\ ~Through(h)'
    BY <1>0, <2>1, <2>2 DEF Updating, Through, TypeOK
  <2>4. Settled(m)
    BY <2>2, InvSettled
  <2>5. SoundInv(m)'
    BY <1>0, <2>4 DEF Settled, SoundInv
  <2>6. Settled(m)'
    BY <1>0, <2>3, <2>4, <2>5 DEF Settled
  <2> QED BY <2>6, SettledInvNext
<1>2. CASE Rebalances(g)
  <2>1. /\ pc' = [pc EXCEPT ![g] = "stage"] /\ plan' = [plan EXCEPT ![g] = target]
        /\ layer' = [layer EXCEPT ![g] = 0]
        /\ \A h \in Gpus \ {g} : temp'[h] = temp[h]
        /\ Moving /\ Moving'
    BY <1>0, <1>2 DEF Decide, Rebalances, Moving, Shape
  <2>2. /\ pc'[g] = "stage" /\ plan'[g] = target /\ layer'[g] = 0
        /\ \A h \in Gpus \ {g} : pc'[h] = pc[h] /\ plan'[h] = plan[h] /\ layer'[h] = layer[h]
    BY <2>1 DEF TypeOK, Shape
  <2>3. ~AllIdle'
    BY <2>2 DEF AllIdle
  <2>4. \A h \in Gpus : (Through(h)' => Through(h)) /\ (Through(h) => Through(h)')
    BY <1>0, <2>1, <2>2, <2>3 DEF Through
  <2>5. \A h \in Gpus \ {g} : (h \in Updating' => h \in Updating) /\ (h \in Updating => h \in Updating')
    BY <2>2 DEF Updating
  <2>6. SoundInv(m)'
    BY <1>0 DEF RoundInv, SoundInv
  <2>7. MetaInv(m)'
    <3>1. \A h \in Updating' : Moving' /\ plan'[h] = target'
      BY <1>0, <2>1, <2>2, <2>5 DEF RoundInv, MetaInv, Updating
    <3> QED BY <1>0, <2>4, <3>1 DEF RoundInv, MetaInv
  <2>8. ASSUME NEW h \in Gpus, NEW l \in Layers
        PROVE  (Passed(h, l)' => Passed(h, l)) /\ (Passed(h, l) => Passed(h, l)')
    <3>1. CASE h = g
      <4>1. ~(l < layer'[g])
        BY <2>2, Ranges
      <4> QED BY <1>0, <2>4, <3>1, <4>1 DEF Passed, Moved
    <3>2. CASE h # g
      BY <2>2, <2>4, <2>5, <3>2 DEF Passed, Moved
    <3> QED BY <3>1, <3>2
  <2>9. WeightsInv(m)'
    BY <1>0, <2>8 DEF RoundInv, WeightsInv, New
  <2>10. BufferInv(m)'
    <3>1. ops'[g] = {} /\ pc'[g] # "wait"
      BY <1>0, <2>2 DEF RoundInv, BufferInv
    <3>2. ASSUME NEW h \in Gpus \ {g}
          PROVE  /\ pc'[h] # "wait" => ops'[h] = {}
                 /\ pc'[h] = "wait" =>
                      Staged(h, m[layer'[h]], New(layer[h])', ops'[h], copies'[h], temp'[h])
      BY <1>0, <2>1, <2>2 DEF RoundInv, BufferInv, New
    <3> QED BY <3>1, <3>2 DEF BufferInv
  <2>11. ASSUME NEW h \in Gpus, NEW l \in Layers, NEW o
         PROVE  (OpDone(h, l, o)' => OpDone(h, l, o)) /\ (OpDone(h, l, o) => OpDone(h, l, o)')
    <3>1. CASE h = g
      BY <1>0, <2>2, <2>8, <3>1 DEF OpDone
    <3>2. CASE h # g
      BY <1>0, <2>2, <2>8, <3>2 DEF OpDone
    <3> QED BY <3>1, <3>2
  <2>12. MatchInv(m)'
    BY <1>0, <2>11 DEF RoundInv, MatchInv, New
  <2> QED BY <2>6, <2>7, <2>9, <2>10, <2>12 DEF RoundInv
<1> QED BY <1>1, <1>2
-----------------------------------------------------------------------------
(* The exchange of weights *)

\* Rank g posts the batch of its layer: no op of it is done.
LEMMA PostBatchInv ==
  ASSUME NEW m, RoundInv(m), TypeOK, Shape, NEW g \in Gpus, PostBatch(g), UNCHANGED control
  PROVE  RoundInv(m)'
<1>1. /\ pc[g] = "stage" /\ g \in Updating /\ ~AllIdle /\ ~Through(g)
      /\ UNCHANGED <<meta, plan, weights, layer, cause, target, rate>>
  BY DEF PostBatch, Updating, AllIdle, Through, control
<1>2. Moving /\ plan[g] = target /\ cause = "rebalance"
  BY <1>1 DEF RoundInv, MetaInv, Moving
<1>3. PICK l0 \in Layers : l0 = layer[g]
  BY DEF TypeOK
<1>4. PICK old \in Maps, new \in Maps : old = m[l0] /\ new = New(l0)
  BY <1>2, <1>3, LayerMaps DEF RoundInv
<1>5. /\ temp' = [temp EXCEPT ![g] = StagedBuffer(g, old, new, weights[g][l0], temp[g])]
      /\ ops' = [ops EXCEPT ![g] = Batch(g, old, new)]
      /\ copies' = [copies EXCEPT ![g] = BufferCopies(g, old, new)]
      /\ pc' = [pc EXCEPT ![g] = "wait"]
  <2>1. meta[g][l0].phy2log = old /\ plan[g][l0].phy2log = new
    BY <1>1, <1>2, <1>4 DEF RoundInv, MetaInv, New
  <2> QED BY <1>3, <2>1 DEF PostBatch
<1>6. /\ temp'[g] = StagedBuffer(g, old, new, weights[g][l0], temp[g])
      /\ ops'[g] = Batch(g, old, new) /\ copies'[g] = BufferCopies(g, old, new) /\ pc'[g] = "wait"
      /\ \A h \in Gpus \ {g} : /\ temp'[h] = temp[h] /\ ops'[h] = ops[h]
                               /\ copies'[h] = copies[h] /\ pc'[h] = pc[h]
  BY <1>5 DEF Shape, TypeOK
<1>7. ~AllIdle'
  BY <1>6 DEF AllIdle
<1>8. \A h \in Gpus : (Through(h)' => Through(h)) /\ (Through(h) => Through(h)')
  BY <1>1, <1>6, <1>7 DEF Through, Moving
<1>9. \A h \in Gpus : (h \in Updating' => h \in Updating) /\ (h \in Updating => h \in Updating')
  BY <1>1, <1>6 DEF Updating
<1>10. \A h \in Gpus, l \in Layers : (Passed(h, l)' => Passed(h, l)) /\ (Passed(h, l) => Passed(h, l)')
  BY <1>1, <1>8, <1>9 DEF Passed, Moved
<1>11. SoundInv(m)'
  BY <1>1 DEF RoundInv, SoundInv
<1>12. MetaInv(m)'
  <2>1. Updating' \subseteq Gpus
    BY DEF Updating
  <2> QED BY <1>1, <1>8, <1>9, <2>1 DEF RoundInv, MetaInv, Moving
<1>13. WeightsInv(m)'
  BY <1>1, <1>10 DEF RoundInv, WeightsInv, New
<1>14. ~Passed(g, l0)
  BY <1>1, <1>3, Ranges DEF Passed, Moved
<1>15. Staged(g, old, new, ops'[g], copies'[g], temp'[g])
  <2>1. \A p \in LocalOf(g) : weights[g][l0][p] = old[p]
    BY <1>4, <1>14 DEF RoundInv, WeightsInv
  <2>2. \A p \in Slots(g, old, new, "same-gpu") : temp'[g][p] = new[p]
    BY <1>6, <2>1, StagedSlots
  <2>3. \A p \in Slots(g, old, new, "fetch") : \E o \in ops'[g] : o.kind = "irecv" /\ o.slot = p
    BY <1>6, FetchHasOp
  <2> QED BY <1>6, <2>2, <2>3 DEF Staged
<1>16. BufferInv(m)'
  <2>1. m[layer'[g]] = old /\ New(layer[g])' = new
    BY <1>1, <1>3, <1>4 DEF New
  <2>2. ASSUME NEW h \in Gpus \ {g}
        PROVE  /\ pc'[h] # "wait" => ops'[h] = {}
               /\ pc'[h] = "wait" =>
                    Staged(h, m[layer'[h]], New(layer[h])', ops'[h], copies'[h], temp'[h])
    BY <1>1, <1>6 DEF RoundInv, BufferInv, New
  <2> QED BY <1>6, <1>15, <2>1, <2>2 DEF BufferInv
<1>17. ASSUME NEW h \in Gpus, NEW l \in Layers, NEW o \in Batch(h, m[l], New(l))
       PROVE  (OpDone(h, l, o)' => OpDone(h, l, o)) /\ (OpDone(h, l, o) => OpDone(h, l, o)')
  <2>1. CASE h = g
    <3>1. pc'[g] = "wait" /\ layer'[g] = l => o \in ops'[g]
      BY <1>1, <1>3, <1>4, <1>6, <1>17, <2>1
    <3> QED BY <1>1, <1>10, <2>1, <3>1 DEF OpDone
  <2>2. CASE h # g
    BY <1>1, <1>6, <1>10, <2>2 DEF OpDone
  <2> QED BY <2>1, <2>2
<1>18. MatchInv(m)'
  <2>1. \A l \in Layers : New(l)' = New(l)
    BY <1>1 DEF New
  <2> QED BY <1>1, <1>17, <2>1 DEF RoundInv, MatchInv
<1> QED BY <1>11, <1>12, <1>13, <1>16, <1>18 DEF RoundInv

\* The next send of g to h and the next receive of h from g are of the same layer
\* and of the same expert, although neither carries a tag.
LEMMA TransferMatches ==
  ASSUME NEW m, RoundInv(m), TypeOK, NEW g \in Gpus, NEW h \in Gpus,
         NEW s \in NextOp(g, "isend", h), NEW r \in NextOp(h, "irecv", g)
  PROVE  /\ pc[g] = "wait" /\ pc[h] = "wait" /\ layer[h] = layer[g] /\ cause = "rebalance"
         /\ s \in ops[g] /\ r \in ops[h] /\ Pair(g, h, s, r)
<1>1. /\ s \in ops[g] /\ s.kind = "isend" /\ s.peer = h
      /\ \A i \in ops[g] : i.kind = "isend" /\ i.peer = h => s.expert <= i.expert
      /\ r \in ops[h] /\ r.kind = "irecv" /\ r.peer = g
      /\ \A i \in ops[h] : i.kind = "irecv" /\ i.peer = g => r.expert <= i.expert
  BY DEF NextOp, SortKey
<1>2. pc[g] = "wait" /\ pc[h] = "wait"
  BY <1>1 DEF RoundInv, BufferInv
<1>3. cause = "rebalance" /\ ~Through(g) /\ ~Through(h) /\ g \in Updating /\ h \in Updating
  BY <1>2 DEF RoundInv, MetaInv, Moving, Updating, Through
<1>4. PICK lg \in Layers, lh \in Layers : lg = layer[g] /\ lh = layer[h]
  BY DEF TypeOK
<1>5. /\ m[lg] \in Maps /\ New(lg) \in Maps /\ \A e \in Logical : \E p \in Physical : m[lg][p] = e
      /\ m[lh] \in Maps /\ New(lh) \in Maps /\ \A e \in Logical : \E p \in Physical : m[lh][p] = e
  BY <1>3, LayerMaps DEF RoundInv
<1>6. s \in Batch(g, m[lg], New(lg)) /\ r \in Batch(h, m[lh], New(lh))
  BY <1>1, <1>2, <1>4 DEF RoundInv, BufferInv, Staged
<1>7. PICK r1 \in Batch(h, m[lg], New(lg)) : Pair(g, h, s, r1)
  BY <1>1, <1>5, <1>6, Partners
<1>8. PICK s1 \in Batch(g, m[lh], New(lh)) : Pair(g, h, s1, r)
  BY <1>1, <1>5, <1>6, Partners
<1>9. lg \in Int /\ lh \in Int
  BY Ranges
<1>10. ~OpDone(g, lg, s) /\ ~OpDone(h, lh, r)
  BY <1>1, <1>2, <1>3, <1>4, <1>9 DEF OpDone, Passed, Moved
<1>11. ~OpDone(h, lg, r1)
  BY <1>3, <1>6, <1>7, <1>10 DEF RoundInv, MatchInv
<1>12. ~OpDone(g, lh, s1)
  BY <1>3, <1>6, <1>8, <1>10 DEF RoundInv, MatchInv
<1>13. lg = lh
  BY <1>3, <1>4, <1>9, <1>11, <1>12 DEF OpDone, Passed, Moved
<1>14. r1 \in ops[h] /\ s1 \in ops[g]
  BY <1>2, <1>4, <1>11, <1>12, <1>13 DEF OpDone
<1>15. r.expert <= s.expert /\ s.expert <= r.expert
  BY <1>1, <1>7, <1>8, <1>14 DEF Pair
<1>16. s.expert \in Int /\ r.expert \in Int
  BY <1>1, Topology DEF TypeOK, Op, Logical, Upto
<1>17. s.expert = r.expert
  BY <1>15, <1>16
<1> QED BY <1>1, <1>2, <1>3, <1>4, <1>13, <1>17 DEF Pair

\* A send and its receive are done together, and the receive has put in the buffer
\* what the target names in its slot.
LEMMA TransferInv ==
  ASSUME NEW m, RoundInv(m), TypeOK, Shape, NEW g \in Gpus, NEW h \in Gpus, Transfer(g, h),
         UNCHANGED control
  PROVE  RoundInv(m)'
<1>1. PICK s \in NextOp(g, "isend", h), r \in NextOp(h, "irecv", g) :
        /\ temp' = [temp EXCEPT ![h][r.slot] = weights[g][layer[g]][s.slot]]
        /\ ops' = [ops EXCEPT ![g] = @ \ {s}, ![h] = @ \ {r}]
  BY DEF Transfer
<1>2. UNCHANGED <<pc, meta, plan, weights, layer, copies, cause, target, rate>>
  BY DEF Transfer, control
<1>3. /\ pc[g] = "wait" /\ pc[h] = "wait" /\ layer[h] = layer[g] /\ cause = "rebalance"
      /\ s \in ops[g] /\ r \in ops[h] /\ Pair(g, h, s, r)
  BY TransferMatches
<1>4. PICK l0 \in Layers : l0 = layer[g]
  BY DEF TypeOK
<1>5. PICK old \in Maps, new \in Maps : old = m[l0] /\ new = New(l0)
  BY <1>3, <1>4, LayerMaps DEF RoundInv
<1>6. \A e \in Logical : \E p \in Physical : old[p] = e
  BY <1>3, <1>5, LayerMaps DEF RoundInv
<1>7. /\ Staged(g, old, new, ops[g], copies[g], temp[g])
      /\ Staged(h, old, new, ops[h], copies[h], temp[h])
  BY <1>3, <1>4, <1>5 DEF RoundInv, BufferInv
<1>8. s \in Batch(g, old, new) /\ r \in Batch(h, old, new)
  BY <1>3, <1>7 DEF Staged
<1>9. /\ s.slot \in LocalOf(g) /\ s.expert = old[s.slot] /\ s.peer # g
      /\ r.slot \in LocalOf(h) /\ r.expert = new[r.slot]
  <2>1. \A e \in Logical : Holders(old, e) # {}
    BY <1>6, Partners
  <2>2. s.kind = "isend" /\ r.kind = "irecv"
    BY <1>3 DEF Pair
  <2>3. s.slot \in LocalOf(g) /\ s.expert = old[s.slot] /\ s.peer # g
    BY <1>8, <2>1, <2>2, BatchOps
  <2>4. r.slot \in LocalOf(h) /\ r.expert = new[r.slot]
    BY <1>8, <2>1, <2>2, BatchOps
  <2> QED BY <2>3, <2>4
<1>10. g # h
  BY <1>3, <1>9 DEF Pair
<1>11. /\ ops'[g] = ops[g] \ {s} /\ ops'[h] = ops[h] \ {r}
       /\ \A x \in Gpus \ {g, h} : ops'[x] = ops[x]
  BY <1>1, <1>10 DEF Shape
<1>12. /\ \A x \in Gpus \ {h} : temp'[x] = temp[x]
       /\ temp'[h][r.slot] = weights[g][l0][s.slot]
       /\ \A p \in LocalOf(h) : p # r.slot => temp'[h][p] = temp[h][p]
  BY <1>1, <1>4, <1>9 DEF Shape, TypeOK
<1>13. weights[g][l0][s.slot] = new[r.slot]
  <2>1. ~Passed(g, l0)
    BY <1>3, <1>4, Ranges DEF Passed, Through, Moved
  <2>2. weights[g][l0][s.slot] = old[s.slot]
    BY <1>5, <1>9, <2>1 DEF RoundInv, WeightsInv
  <2> QED BY <1>3, <1>9, <2>2 DEF Pair
<1>14. /\ \A x \in Gpus : (Through(x)' => Through(x)) /\ (Through(x) => Through(x)')
       /\ Updating' = Updating
  BY <1>2 DEF Through, Moving, AllIdle, Updating
<1>15. \A x \in Gpus, l \in Layers : (Passed(x, l)' => Passed(x, l)) /\ (Passed(x, l) => Passed(x, l)')
  BY <1>2, <1>14 DEF Passed, Moved
<1>16. SoundInv(m)' /\ MetaInv(m)'
  BY <1>2, <1>14 DEF RoundInv, SoundInv, MetaInv, Moving
<1>17. WeightsInv(m)'
  BY <1>2, <1>15 DEF RoundInv, WeightsInv, New
<1>18. Staged(g, old, new, ops'[g], copies'[g], temp'[g])
  <2>1. \A o \in ops[g] : o.kind = "irecv" => o \in ops'[g]
    BY <1>3, <1>11 DEF Pair
  <2>2. temp'[g] = temp[g] /\ copies'[g] = copies[g]
    BY <1>2, <1>10, <1>12
  <2> QED BY <1>7, <1>11, <2>1, <2>2 DEF Staged
<1>19. Staged(h, old, new, ops'[h], copies'[h], temp'[h])
  <2>1. ASSUME NEW p \in LocalOf(h)
        PROVE  temp'[h][p] = IF p = r.slot THEN new[p] ELSE temp[h][p]
    BY <1>12, <1>13
  <2>2. \A o \in ops[h] : o.slot # r.slot => o \in ops'[h]
    BY <1>11
  <2>3. \A c : Slots(h, old, new, c) \subseteq LocalOf(h)
    BY DEF Slots
  <2>4. \A p \in Slots(h, old, new, "same-gpu") : temp'[h][p] = new[p]
    BY <1>7, <2>1, <2>3 DEF Staged
  <2>5. ASSUME NEW p \in Slots(h, old, new, "fetch")
        PROVE  temp'[h][p] = new[p] \/ \E o \in ops'[h] : o.kind = "irecv" /\ o.slot = p
    BY <1>7, <2>1, <2>2, <2>3 DEF Staged
  <2>6. ops'[h] \subseteq Batch(h, old, new) /\ copies'[h] = BufferCopies(h, old, new)
    BY <1>2, <1>7, <1>11 DEF Staged
  <2> QED BY <2>4, <2>5, <2>6 DEF Staged
<1>20. BufferInv(m)'
  <2>1. /\ m[layer'[g]] = old /\ New(layer[g])' = new
        /\ m[layer'[h]] = old /\ New(layer[h])' = new
    BY <1>2, <1>3, <1>4, <1>5 DEF New
  <2>2. ASSUME NEW x \in Gpus \ {g, h}
        PROVE  /\ pc'[x] # "wait" => ops'[x] = {}
               /\ pc'[x] = "wait" =>
                    Staged(x, m[layer'[x]], New(layer[x])', ops'[x], copies'[x], temp'[x])
    BY <1>2, <1>11, <1>12 DEF RoundInv, BufferInv, New
  <2> QED BY <1>2, <1>3, <1>18, <1>19, <2>1, <2>2 DEF BufferInv
<1>21. MatchInv(m)'
  <2> SUFFICES ASSUME NEW a \in Gpus, NEW b \in Gpus, NEW l \in Layers,
                      NEW s2 \in Batch(a, m[l], New(l)), NEW r2 \in Batch(b, m[l], New(l)),
                      Pair(a, b, s2, r2)
               PROVE  /\ OpDone(a, l, s2)' => OpDone(b, l, r2)'
                      /\ OpDone(b, l, r2)' => OpDone(a, l, s2)'
    BY <1>2 DEF MatchInv, New
  <2>1. /\ OpDone(a, l, s2) => OpDone(b, l, r2)
        /\ OpDone(b, l, r2) => OpDone(a, l, s2)
    BY <1>3 DEF RoundInv, MatchInv
  <2>2. ASSUME NEW x \in Gpus, NEW o,
               ~(x = g /\ l = l0 /\ o = s), ~(x = h /\ l = l0 /\ o = r)
        PROVE  (OpDone(x, l, o)' => OpDone(x, l, o)) /\ (OpDone(x, l, o) => OpDone(x, l, o)')
    <3>1. pc[x] = "wait" /\ layer[x] = l => (o \in ops'[x] => o \in ops[x]) /\ (o \in ops[x] => o \in ops'[x])
      BY <1>3, <1>4, <1>11, <2>2
    <3> QED BY <1>2, <1>15, <3>1 DEF OpDone
  <2>3. s2 # r /\ r2 # s
    BY <1>3 DEF Pair
  <2>4. OpDone(g, l0, s)' /\ OpDone(h, l0, r)'
    BY <1>2, <1>3, <1>4, <1>11 DEF OpDone
  <2>5. CASE a = g /\ l = l0 /\ s2 = s
    <3>1. b = h /\ r2 \in Batch(h, old, new)
      BY <1>3, <1>5, <2>5 DEF Pair
    <3>2. r2 = r
      BY <1>3, <1>6, <1>8, <2>5, <3>1, Partners
    <3> QED BY <2>4, <2>5, <3>1, <3>2
  <2>6. CASE b = h /\ l = l0 /\ r2 = r
    <3>1. a = g /\ s2 \in Batch(g, old, new)
      BY <1>3, <1>5, <2>6 DEF Pair
    <3>2. s2 = s
      BY <1>3, <1>6, <1>8, <2>6, <3>1, Partners
    <3> QED BY <2>4, <2>6, <3>1, <3>2
  <2>7. CASE ~(a = g /\ l = l0 /\ s2 = s) /\ ~(b = h /\ l = l0 /\ r2 = r)
    <3>1. (OpDone(a, l, s2)' => OpDone(a, l, s2)) /\ (OpDone(a, l, s2) => OpDone(a, l, s2)')
      BY <2>2, <2>3, <2>7
    <3>2. (OpDone(b, l, r2)' => OpDone(b, l, r2)) /\ (OpDone(b, l, r2) => OpDone(b, l, r2)')
      BY <2>2, <2>3, <2>7
    <3> QED BY <2>1, <3>1, <3>2
  <2> QED BY <2>5, <2>6, <2>7
<1> QED BY <1>16, <1>17, <1>20, <1>21 DEF RoundInv

\* A rank whose ops are all done has the weights of the target in its layer.
LEMMA LayerDone ==
  ASSUME NEW m, RoundInv(m), TypeOK, Shape, NEW g \in Gpus, FinishLayer(g), UNCHANGED control
  PROVE  /\ \A p \in LocalOf(g) : weights'[g][layer[g]][p] = New(layer[g])[p]
         /\ \A l \in Layers : l # layer[g] => weights'[g][l] = weights[g][l]
         /\ \A h \in Gpus \ {g} : weights'[h] = weights[h]
<1>1. pc[g] = "wait" /\ ops[g] = {} /\ cause = "rebalance"
  BY DEF FinishLayer, RoundInv, MetaInv, Moving, Updating
<1>2. PICK l0 \in Layers : l0 = layer[g]
  BY DEF TypeOK
<1>3. PICK old \in Maps, new \in Maps : old = m[l0] /\ new = New(l0)
  BY <1>1, <1>2, LayerMaps DEF RoundInv
<1>4. Staged(g, old, new, {}, copies[g], temp[g])
  BY <1>1, <1>2, <1>3 DEF RoundInv, BufferInv
<1>5. ~Passed(g, l0)
  BY <1>1, <1>2, Ranges DEF Passed, Through, Moved
<1>6. \A p \in LocalOf(g) : weights[g][l0][p] = old[p]
  BY <1>3, <1>5 DEF RoundInv, WeightsInv
<1> DEFINE row == [p \in LocalOf(g) |-> IF p \in DOMAIN copies[g] THEN temp[g][copies[g][p]]
                                                                  ELSE weights[g][l0][p]]
<1>7. weights' = [weights EXCEPT ![g] = [weights[g] EXCEPT ![l0] = row]]
  BY <1>2 DEF FinishLayer, Shape
<1>8. \A p \in LocalOf(g) : row[p] = new[p]
  <2> SUFFICES ASSUME NEW p \in LocalOf(g) PROVE row[p] = new[p]
    OBVIOUS
  <2>1. /\ copies[g] = BufferCopies(g, old, new)
        /\ \A q \in Slots(g, old, new, "same-gpu") : temp[g][q] = new[q]
        /\ \A q \in Slots(g, old, new, "fetch") : temp[g][q] = new[q]
    BY <1>4 DEF Staged
  <2>2. (IF p \in DOMAIN BufferCopies(g, old, new) THEN temp[g][BufferCopies(g, old, new)[p]]
                                                    ELSE weights[g][l0][p]) = new[p]
    <3> DEFINE w == weights[g][l0]
               t == temp[g]
    <3>1. /\ w[p] = old[p]
          /\ \A q \in Slots(g, old, new, "same-gpu") : t[q] = new[q]
          /\ \A q \in Slots(g, old, new, "fetch") : t[q] = new[q]
      BY <1>6, <2>1
    <3> HIDE DEF w, t
    <3>2. (IF p \in DOMAIN BufferCopies(g, old, new) THEN t[BufferCopies(g, old, new)[p]] ELSE w[p])
            = new[p]
      BY <3>1, LayerMoved
    <3> QED BY <3>2 DEF w, t
  <2> QED BY <2>1, <2>2
<1> HIDE DEF row
<1>9. weights'[g][l0] = row
  BY <1>2, <1>7 DEF Shape
<1>10. \A l \in Layers : l # l0 => weights'[g][l] = weights[g][l]
  BY <1>7 DEF Shape
<1>11. \A h \in Gpus \ {g} : weights'[h] = weights[h]
  BY <1>7 DEF Shape
<1> QED BY <1>2, <1>3, <1>8, <1>9, <1>10, <1>11

\* A rank leaves a layer: for this layer all its ops were done, so nothing changes
\* for its peers; after the last layer of the last rank, all ranks have the target.
LEMMA FinishLayerInv ==
  ASSUME NEW m, RoundInv(m), TypeOK, Shape, NEW g \in Gpus, FinishLayer(g), UNCHANGED control
  PROVE  \E m1 \in {m, MapOf(target)} : RoundInv(m1)'
<1>1. /\ pc[g] = "wait" /\ ops[g] = {} /\ g \in Updating /\ ~Through(g) /\ ~AllIdle
      /\ UNCHANGED <<plan, temp, ops, copies, cause, target, rate>>
  BY DEF FinishLayer, Updating, Through, AllIdle, control
<1>2. Moving /\ Moving' /\ plan[g] = target /\ cause = "rebalance"
  BY <1>1 DEF RoundInv, MetaInv, Moving
<1>3. PICK l0 \in Layers : l0 = layer[g]
  BY DEF TypeOK
<1>4. /\ \A p \in LocalOf(g) : weights'[g][l0][p] = New(l0)[p]
      /\ \A l \in Layers : l # l0 => weights'[g][l] = weights[g][l]
      /\ \A h \in Gpus \ {g} : weights'[h] = weights[h]
  BY <1>3, LayerDone
<1>5. \A h \in Gpus \ {g} : pc'[h] = pc[h] /\ layer'[h] = layer[h] /\ meta'[h] = meta[h]
  BY DEF FinishLayer, NextLayer, Shape, TypeOK
<1>6. \A l \in Layers : New(l)' = New(l)
  BY <1>1 DEF New
<1>7. \/ /\ l0 < NumLayers - 1 /\ layer'[g] = l0 + 1 /\ pc'[g] = "stage" /\ meta'[g] = meta[g]
      \/ /\ l0 = NumLayers - 1 /\ pc'[g] = "idle" /\ meta'[g] = target /\ layer'[g] = l0
  <2>1. CASE l0 < NumLayers - 1
    <3>1. layer' = [layer EXCEPT ![g] = @ + 1] /\ pc' = [pc EXCEPT ![g] = "stage"] /\ UNCHANGED meta
      BY <1>3, <2>1 DEF FinishLayer, NextLayer
    <3> QED BY <1>3, <2>1, <3>1 DEF Shape, TypeOK
  <2>2. CASE ~(l0 < NumLayers - 1)
    <3>1. pc' = [pc EXCEPT ![g] = "idle"] /\ meta' = [meta EXCEPT ![g] = plan[g]] /\ UNCHANGED layer
      BY <1>3, <2>2 DEF FinishLayer, NextLayer
    <3>2. l0 = NumLayers - 1
      BY <2>2, Ranges
    <3> QED BY <1>2, <1>3, <3>1, <3>2 DEF Shape, TypeOK
  <2> QED BY <2>1, <2>2
<1>8. /\ \A l \in Layers : SoundPlacement(meta'[g][l])
      /\ \A h \in Gpus : \A l \in Layers : SoundPlacement(meta'[h][l])
      /\ \A l \in Layers : SoundPlacement(target'[l])
  <2>1. \A l \in Layers : SoundPlacement(meta'[g][l])
    BY <1>2, <1>7 DEF RoundInv, SoundInv
  <2> QED BY <1>1, <1>2, <1>5, <2>1 DEF RoundInv, SoundInv
<1>9. CASE AllIdle'
  <2>1. pc'[g] = "idle" /\ meta'[g] = target /\ l0 = NumLayers - 1
    BY <1>7, <1>9 DEF AllIdle
  <2>2. \A h \in Gpus \ {g} : Through(h)
    BY <1>1, <1>2, <1>5, <1>9 DEF AllIdle, Through
  <2>3. \A h \in Gpus : meta'[h] = target
    BY <1>5, <2>1, <2>2 DEF RoundInv, MetaInv
  <2> DEFINE n == MapOf(target)
  <2>4. ASSUME NEW l \in Layers PROVE n[l] = New(l)
    BY DEF MapOf, New
  <2>5. \A h \in Gpus : ~Through(h)' /\ h \notin Updating'
    BY <1>9 DEF AllIdle, Through, Updating
  <2>6. \A h \in Gpus : ops'[h] = {}
    BY <1>1, <2>2 DEF RoundInv, BufferInv, Through
  <2>7. n \in [Layers -> Maps] /\ \A l \in Layers : \A e \in Logical : \E p \in Physical : n[l][p] = e
    <3>1. \A l \in Layers : New(l) \in Maps /\ \A e \in Logical : \E p \in Physical : New(l)[p] = e
      BY <1>2 DEF RoundInv, SoundInv, SoundPlacement, PlacementType, New
    <3>2. n = [l \in Layers |-> New(l)]
      BY DEF MapOf, New
    <3> QED BY <3>1, <3>2
  <2>8. ASSUME NEW h \in Gpus, NEW l \in Layers, NEW p \in LocalOf(h)
        PROVE  weights'[h][l][p] = New(l)[p]
    <3>1. CASE h = g
      <4>1. CASE l = l0
        BY <1>4, <3>1, <4>1
      <4>2. CASE l # l0
        <5>1. l < layer[g]
          BY <1>3, <2>1, <4>2, Ranges
        <5>2. Passed(g, l)
          BY <1>1, <5>1 DEF Passed, Moved
        <5> QED BY <1>4, <3>1, <4>2, <5>2 DEF RoundInv, WeightsInv
      <4> QED BY <4>1, <4>2
    <3>2. CASE h # g
      <4>1. Passed(h, l)
        BY <2>2, <3>2 DEF Passed
      <4> QED BY <1>4, <3>2, <4>1 DEF RoundInv, WeightsInv
    <3> QED BY <3>1, <3>2
  <2> PICK n1 \in {MapOf(target)} : n1 = n
    OBVIOUS
  <2>9. /\ n1 \in [Layers -> Maps] /\ \A l \in Layers : \A e \in Logical : \E p \in Physical : n1[l][p] = e
        /\ \A l \in Layers : n1[l] = New(l)
    BY <2>4, <2>7
  <2> HIDE DEF n
  <2>10. SoundInv(n1)'
    BY <1>8, <2>9 DEF SoundInv
  <2>11. \A h \in Gpus : \A l \in Layers : meta'[h][l].phy2log = n1[l]
    BY <2>3, <2>9 DEF New
  <2>12. Settled(n1)'
    BY <2>5, <2>6, <2>8, <2>9, <2>10, <2>11 DEF Settled
  <2>13. RoundInv(n1)'
    BY <2>12, SettledInvNext
  <2> QED BY <2>13
<1>10. CASE ~AllIdle'
  <2>1. \A h \in Gpus \ {g} : (Through(h)' => Through(h)) /\ (Through(h) => Through(h)')
    BY <1>1, <1>2, <1>5, <1>10 DEF Through
  <2>2. \A h \in Gpus \ {g} : (h \in Updating' => h \in Updating) /\ (h \in Updating => h \in Updating')
    BY <1>5 DEF Updating
  <2>3. \A h \in Gpus \ {g} : \A l \in Layers :
          (Passed(h, l)' => Passed(h, l)) /\ (Passed(h, l) => Passed(h, l)')
    BY <1>5, <2>1, <2>2 DEF Passed, Moved
  <2>4. ASSUME NEW l \in Layers
        PROVE  (Passed(g, l)' => Passed(g, l) \/ l = l0) /\ (Passed(g, l) \/ l = l0 => Passed(g, l)')
    <3>0. l \in Int /\ l0 \in Int /\ l <= NumLayers - 1 /\ NumLayers \in Int
      BY Ranges
    <3>1. CASE pc'[g] = "stage"
      <4>1. layer'[g] = l0 + 1 /\ g \in Updating' /\ ~Through(g)'
        BY <1>7, <3>1 DEF Updating, Through
      <4>2. l < l0 + 1 <=> l < l0 \/ l = l0
        BY <3>0
      <4> QED BY <1>1, <1>3, <4>1, <4>2 DEF Passed, Moved
    <3>2. CASE pc'[g] = "idle"
      <4>1. Through(g)' /\ l0 = NumLayers - 1
        BY <1>2, <1>7, <1>10, <3>2 DEF Through
      <4>2. l < l0 \/ l = l0
        BY <3>0, <4>1
      <4> QED BY <1>1, <1>3, <4>1, <4>2 DEF Passed, Moved
    <3> QED BY <1>7, <3>1, <3>2
  <2>5. SoundInv(m)'
    BY <1>8 DEF RoundInv, SoundInv
  <2>6. MetaInv(m)'
    <3>1. \A h \in Gpus \ {g} : /\ Through(h)' => meta'[h] = target'
                                /\ ~Through(h)' => \A l \in Layers : meta'[h][l].phy2log = m[l]
      BY <1>1, <1>5, <2>1 DEF RoundInv, MetaInv
    <3>2. /\ Through(g)' => meta'[g] = target'
          /\ ~Through(g)' => \A l \in Layers : meta'[g][l].phy2log = m[l]
      <4>1. CASE pc'[g] = "stage"
        BY <1>1, <1>7, <4>1 DEF RoundInv, MetaInv, Through
      <4>2. CASE pc'[g] = "idle"
        BY <1>1, <1>2, <1>7, <1>10, <4>2 DEF Through
      <4> QED BY <1>7, <4>1, <4>2
    <3>3. \A h \in Updating' : Moving' /\ plan'[h] = target'
      <4> SUFFICES ASSUME NEW h \in Updating' PROVE plan'[h] = target'
        BY <1>2
      <4>1. h \in Gpus
        BY DEF Updating
      <4> QED BY <1>1, <1>2, <2>2, <4>1 DEF RoundInv, MetaInv
    <3> QED BY <3>1, <3>2, <3>3 DEF MetaInv
  <2>7. WeightsInv(m)'
    <3> SUFFICES ASSUME NEW h \in Gpus, NEW l \in Layers, NEW p \in LocalOf(h)
                 PROVE  weights'[h][l][p] = IF Passed(h, l)' THEN New(l)[p] ELSE m[l][p]
      BY <1>6 DEF WeightsInv
    <3>1. weights[h][l][p] = IF Passed(h, l) THEN New(l)[p] ELSE m[l][p]
      BY DEF RoundInv, WeightsInv
    <3>2. CASE h # g
      BY <1>4, <2>3, <3>1, <3>2
    <3>3. CASE h = g /\ l = l0
      BY <1>4, <2>4, <3>3
    <3>4. CASE h = g /\ l # l0
      BY <1>4, <2>4, <3>1, <3>4
    <3> QED BY <3>2, <3>3, <3>4
  <2>8. BufferInv(m)'
    <3>1. pc'[g] # "wait" /\ ops'[g] = {}
      BY <1>1, <1>7
    <3>2. ASSUME NEW h \in Gpus \ {g}
          PROVE  /\ pc'[h] # "wait" => ops'[h] = {}
                 /\ pc'[h] = "wait" =>
                      Staged(h, m[layer'[h]], New(layer[h])', ops'[h], copies'[h], temp'[h])
      BY <1>1, <1>5 DEF RoundInv, BufferInv, New
    <3> QED BY <3>1, <3>2 DEF BufferInv
  <2>9. ASSUME NEW h \in Gpus, NEW l \in Layers, NEW o
        PROVE  (OpDone(h, l, o)' => OpDone(h, l, o)) /\ (OpDone(h, l, o) => OpDone(h, l, o)')
    <3>1. CASE h = g
      <4>1. OpDone(g, l, o) <=> Passed(g, l) \/ l = l0
        BY <1>1, <1>3 DEF OpDone
      <4>2. OpDone(g, l, o)' <=> Passed(g, l)'
        BY <1>7 DEF OpDone
      <4> QED BY <2>4, <3>1, <4>1, <4>2
    <3>2. CASE h # g
      BY <1>1, <1>5, <2>3, <3>2 DEF OpDone
    <3> QED BY <3>1, <3>2
  <2>10. MatchInv(m)'
    BY <1>1, <1>6, <2>9 DEF RoundInv, MatchInv
  <2>11. RoundInv(m)'
    BY <2>5, <2>6, <2>7, <2>8, <2>10 DEF RoundInv
  <2> QED BY <2>11
<1> QED BY <1>9, <1>10
-----------------------------------------------------------------------------
(* The rate and the history *)

\* The types that the next lemmas need.
ControlOK ==
  /\ pc \in [Gpus -> {"idle", "all_reduce", "rate", "raised", "decide", "stage", "wait"}]
  /\ metrics \in BOOLEAN /\ recording \in BOOLEAN /\ history \in BOOLEAN

\* What a rank does once it knows the rate changes its own position only.
LEMMA OwnPosition ==
  ASSUME ControlOK, NEW g \in Gpus,
         \/ Decide(g)
         \/ /\ PostBatch(g) \/ FinishLayer(g) \/ \E h \in Gpus : Transfer(g, h) \/ Transfer(h, g)
            /\ UNCHANGED control
  PROVE  /\ pc' \in [Gpus -> {"idle", "all_reduce", "rate", "raised", "decide", "stage", "wait"}]
         /\ \A h \in Gpus : pc'[h] # pc[h] =>
              pc[h] \in {"decide", "stage", "wait"} /\ pc'[h] \in {"idle", "stage", "wait"}
         /\ UNCHANGED <<metrics, recording, cause, rate>>
         /\ history' = history \/ (Decide(g) /\ history' = (history /\ (g # 0 \/ cause = "status")))
<1>1. CASE Decide(g)
  BY <1>1 DEF Decide, ControlOK
<1>2. CASE PostBatch(g) /\ UNCHANGED control
  BY <1>2 DEF PostBatch, ControlOK, control
<1>3. CASE FinishLayer(g) /\ UNCHANGED control
  BY <1>3 DEF FinishLayer, NextLayer, ControlOK, control
<1>4. CASE (\E h \in Gpus : Transfer(g, h) \/ Transfer(h, g)) /\ UNCHANGED control
  BY <1>4 DEF Transfer, ControlOK, control
<1> QED BY <1>1, <1>2, <1>3, <1>4

\* The steps of the updater, by the rank that takes them.
LEMMA UpdateSteps ==
  ASSUME Update
  PROVE  /\ UNCHANGED control
         /\ \/ \E g \in Gpus : PostBatch(g)
            \/ \E g, h \in Gpus : Transfer(g, h)
            \/ \E g \in Gpus : FinishLayer(g)
BY DEF Update

LEMMA ControlStep ==
  ASSUME ControlOK, [Next]_vars
  PROVE  ControlOK'
<1>1. CASE UNCHANGED vars
  BY <1>1 DEF ControlOK, vars, control
<1>2. CASE StartRecord \/ StopRecord \/ DumpRecord \/ GetStatus \/ ForwardPass \/ AllReduce
  BY <1>2 DEF ControlOK, StartRecord, StopRecord, DumpRecord, GetStatus, ForwardPass, StartRebalance,
              BeginDump, AllReduce, control
<1>3. CASE \E g \in Gpus : UtilizationRate(g)
  BY <1>3 DEF ControlOK, UtilizationRate
<1>4. CASE \E g \in Gpus : Decide(g)
  <2>1. PICK g \in Gpus : Decide(g)
    BY <1>4
  <2>2. history' \in BOOLEAN
    BY <2>1 DEF ControlOK, Decide
  <2> QED BY <2>1, <2>2, OwnPosition DEF ControlOK
<1>5. CASE Update
  <2>1. PICK g \in Gpus : /\ UNCHANGED control
                          /\ PostBatch(g) \/ FinishLayer(g) \/ \E h \in Gpus : Transfer(g, h) \/ Transfer(h, g)
    BY <1>5, UpdateSteps
  <2> QED BY <2>1, OwnPosition DEF ControlOK, control
<1> QED BY <1>1, <1>2, <1>3, <1>4, <1>5 DEF Next, RankStep

\* The history is filled by the pass that a rebalancing follows, and only a dump
\* or a start of the recording empties it.
LEMMA HistoryStep ==
  ASSUME ControlOK, HistoryInv, RebalanceHasHistory, [Next]_vars
  PROVE  HistoryInv' /\ RebalanceHasHistory'
<1>0. 0 \in Gpus
  BY Ranges
<1> USE DEF HistoryInv, RebalanceHasHistory
<1>1. CASE UNCHANGED vars
  BY <1>1 DEF vars, control
<1>2. CASE StartRecord \/ StopRecord \/ DumpRecord \/ GetStatus
  BY <1>0, <1>2 DEF StartRecord, StopRecord, DumpRecord, GetStatus, BeginDump, AllIdle
<1>3. CASE ForwardPass
  BY <1>0, <1>3 DEF ForwardPass, StartRebalance, BeginDump, AllIdle, ControlOK
<1>4. CASE AllReduce
  BY <1>0, <1>4 DEF AllReduce, control
<1>5. CASE \E g \in Gpus : UtilizationRate(g)
  <2>1. PICK g \in Gpus : UtilizationRate(g)
    BY <1>5
  <2>2. CASE g # 0
    BY <1>0, <2>1, <2>2 DEF UtilizationRate, ControlOK
  <2>3. CASE g = 0
    BY <1>0, <2>1, <2>3 DEF UtilizationRate, ControlOK
  <2> QED BY <2>2, <2>3
<1>6. CASE \E g \in Gpus : Decide(g)
  <2>1. PICK g \in Gpus : Decide(g)
    BY <1>6
  <2>2. /\ pc'[0] # pc[0] => pc'[0] \in {"idle", "stage", "wait"}
        /\ UNCHANGED <<metrics, recording, cause>>
    BY <1>0, <2>1, OwnPosition
  <2>3. g # 0 => history' = history
    BY <2>1 DEF Decide, ControlOK
  <2>4. g = 0 => pc'[0] \in {"idle", "stage", "wait"}
    BY <2>1 DEF Decide, ControlOK
  <2> QED BY <2>2, <2>3, <2>4
<1>7. CASE Update
  <2>1. PICK g \in Gpus : /\ UNCHANGED control
                          /\ PostBatch(g) \/ FinishLayer(g) \/ \E h \in Gpus : Transfer(g, h) \/ Transfer(h, g)
    BY <1>7, UpdateSteps
  <2>2. pc'[0] # pc[0] => pc'[0] \in {"idle", "stage", "wait"}
    BY <1>0, <2>1, OwnPosition
  <2> QED BY <2>1, <2>2 DEF control
<1> QED BY <1>1, <1>2, <1>3, <1>4, <1>5, <1>6, <1>7 DEF Next, RankStep

LEMMA RateStep ==
  ASSUME ControlOK, RateInv, [Next]_vars
  PROVE  RateInv'
<1>0. 0 \in Gpus
  BY Ranges
<1> USE DEF RateInv, Undecided
<1>1. CASE UNCHANGED vars
  BY <1>1 DEF vars, control, AllIdle
<1>2. CASE StartRecord \/ StopRecord
  BY <1>2 DEF StartRecord, StopRecord, AllIdle
<1>3. CASE \E why : BeginDump(why) /\ UNCHANGED metrics
  BY <1>0, <1>3 DEF BeginDump, AllIdle
<1>4. CASE ForwardPass
  <2>1. CASE UNCHANGED <<pc, metrics, rate>>
    BY <2>1 DEF AllIdle
  <2>2. CASE StartRebalance /\ UNCHANGED metrics
    BY <1>3, <2>2 DEF StartRebalance
  <2> QED BY <1>4, <2>1, <2>2 DEF ForwardPass
<1>5. CASE AllReduce
  BY <1>0, <1>5 DEF AllReduce, control
<1>6. CASE \E g \in Gpus : UtilizationRate(g)
  <2>1. PICK g \in Gpus : UtilizationRate(g)
    BY <1>6
  <2>2. /\ pc[g] = "rate" /\ pc'[g] \in {"decide", "raised"} /\ \A h \in Gpus \ {g} : pc'[h] = pc[h]
        /\ UNCHANGED metrics
    BY <2>1 DEF UtilizationRate, ControlOK
  <2>3. ~AllIdle
    BY <2>2 DEF AllIdle
  <2>4. CASE ~metrics
    BY <2>1, <2>2, <2>4 DEF UtilizationRate
  <2>5. CASE metrics /\ g = 0 /\ history
    <3>1. rate' \in {"low", "high"} /\ pc'[0] = "decide"
      BY <2>1, <2>2, <2>5 DEF UtilizationRate, ControlOK
    <3> QED BY <2>2, <2>5, <3>1
  <2>6. CASE metrics /\ g = 0 /\ ~history
    <3>1. rate' = rate /\ pc'[0] = "raised" /\ rate = "none"
      BY <2>1, <2>2, <2>6 DEF UtilizationRate, ControlOK
    <3>2. \A h \in Gpus : pc[h] \in {"all_reduce", "rate", "raised"}
      BY <2>3, <2>6, <3>1
    <3> QED BY <2>2, <2>6, <3>1, <3>2
  <2>7. CASE metrics /\ g # 0
    <3>1. rate' = rate /\ rate # "none"
      BY <2>1, <2>7 DEF UtilizationRate
    <3> QED BY <1>0, <2>2, <2>7, <3>1
  <2> QED BY <2>4, <2>5, <2>6, <2>7 DEF ControlOK
<1>7. ASSUME NEW g \in Gpus,
             \/ Decide(g)
             \/ /\ PostBatch(g) \/ FinishLayer(g) \/ \E h \in Gpus : Transfer(g, h) \/ Transfer(h, g)
                /\ UNCHANGED control
      PROVE  RateInv'
  <2>1. /\ \A h \in Gpus : pc'[h] # pc[h] =>
             pc[h] \in {"decide", "stage", "wait"} /\ pc'[h] \in {"idle", "stage", "wait"}
        /\ UNCHANGED <<metrics, rate>>
    BY <1>7, OwnPosition
  <2>2. pc'[0] \in Undecided => rate' = "none"
    BY <1>0, <2>1
  <2>3. ASSUME ~AllIdle', metrics, rate = "none" PROVE \A h \in Gpus : pc'[h] \in Undecided
    <3>1. ~AllIdle
      BY <2>1, <2>3 DEF AllIdle
    <3>2. \A h \in Gpus : pc[h] \in Undecided
      BY <2>3, <3>1
    <3> QED BY <2>1, <3>2
  <2> QED BY <2>1, <2>2, <2>3
<1>8. CASE \E g \in Gpus : Decide(g)
  BY <1>7, <1>8
<1>9. CASE Update
  BY <1>7, <1>9, UpdateSteps
<1>10. CASE DumpRecord \/ GetStatus
  BY <1>3, <1>10 DEF DumpRecord, GetStatus
<1> QED BY <1>1, <1>2, <1>4, <1>5, <1>6, <1>8, <1>9, <1>10 DEF Next, RankStep
-----------------------------------------------------------------------------
(* The types *)

\* The types of the variables of the updater, for one rank.
RankOK(g) ==
  /\ \A l \in Layers : meta[g][l] \in PlacementType /\ plan[g][l] \in PlacementType
  /\ DOMAIN weights[g] = Layers
  /\ \A l \in Layers : weights[g][l] \in [LocalOf(g) -> Logical \cup {Undef}]
  /\ temp[g] \in [LocalOf(g) -> Logical \cup {Undef}]
  /\ layer[g] \in Layers
  /\ ops[g] \subseteq Op
  /\ DOMAIN copies[g] \subseteq LocalOf(g)
  /\ \A p \in DOMAIN copies[g] : copies[g][p] \in LocalOf(g)

\* The types of the variables of the dump.
DumpOK ==
  /\ ControlOK
  /\ cause \in {"client", "status", "rebalance"} /\ load \in LoadChoices \cup {<<>>}
  /\ target \in [Layers -> PlacementType] \cup {<<>>}
  /\ rate \in {"none", "low", "high"} /\ rounds \in 0..MaxRounds

Domains ==
  /\ DOMAIN meta = Gpus /\ DOMAIN plan = Gpus /\ DOMAIN weights = Gpus /\ DOMAIN temp = Gpus
  /\ DOMAIN layer = Gpus /\ DOMAIN ops = Gpus /\ DOMAIN copies = Gpus

LEMMA TypeParts == /\ TypeOK /\ Shape => DumpOK /\ Domains /\ \A g \in Gpus : RankOK(g)
                   /\ DumpOK /\ Domains /\ (\A g \in Gpus : RankOK(g)) => TypeOK /\ Shape
<1>1. TypeOK /\ Shape => DumpOK /\ Domains /\ \A g \in Gpus : RankOK(g)
  <2> SUFFICES ASSUME TypeOK, Shape PROVE DumpOK /\ Domains /\ \A g \in Gpus : RankOK(g)
    OBVIOUS
  <2>1. DumpOK /\ Domains
    BY DEF TypeOK, Shape, DumpOK, ControlOK, Domains
  <2>2. ASSUME NEW g \in Gpus PROVE RankOK(g)
    BY DEF TypeOK, Shape, RankOK, Range
  <2> QED BY <2>1, <2>2
<1>2. DumpOK /\ Domains /\ (\A g \in Gpus : RankOK(g)) => TypeOK /\ Shape
  BY DEF TypeOK, Shape, DumpOK, ControlOK, Domains, RankOK, Range
<1> QED BY <1>1, <1>2

LEMMA TypePartsNext ==
  (DumpOK /\ Domains /\ \A g \in Gpus : RankOK(g))' => (TypeOK /\ Shape)'
<1>1. DumpOK /\ Domains /\ (\A g \in Gpus : RankOK(g)) => TypeOK /\ Shape
  BY TypeParts
<1> QED BY <1>1, PTL

\* The slots and the weights of a transfer.
LEMMA TransferSlots ==
  ASSUME NEW m, RoundInv(m), TypeOK, NEW g \in Gpus, NEW h \in Gpus,
         NEW s \in NextOp(g, "isend", h), NEW r \in NextOp(h, "irecv", g)
  PROVE  s.slot \in LocalOf(g) /\ r.slot \in LocalOf(h) /\ g # h
<1>1. /\ pc[g] = "wait" /\ pc[h] = "wait" /\ layer[h] = layer[g] /\ cause = "rebalance"
      /\ s \in ops[g] /\ r \in ops[h] /\ Pair(g, h, s, r)
  BY TransferMatches
<1>2. PICK l0 \in Layers : l0 = layer[g]
  BY DEF TypeOK
<1>3. PICK old \in Maps, new \in Maps : old = m[l0] /\ new = New(l0)
  BY <1>1, <1>2, LayerMaps DEF RoundInv
<1>4. \A e \in Logical : \E p \in Physical : old[p] = e
  BY <1>1, <1>3, LayerMaps DEF RoundInv
<1>5. \A e \in Logical : Holders(old, e) # {}
  BY <1>4, Partners
<1>6. s \in Batch(g, old, new) /\ r \in Batch(h, old, new)
  BY <1>1, <1>2, <1>3 DEF RoundInv, BufferInv, Staged
<1>7. s.kind = "isend" /\ s.peer = h
  BY <1>1 DEF Pair
<1>8. s.slot \in LocalOf(g) /\ s.peer # g
  BY <1>5, <1>6, <1>7, BatchOps
<1>9. r.slot \in LocalOf(h)
  BY <1>5, <1>6, BatchOps
<1> QED BY <1>7, <1>8, <1>9

LEMMA RankTypeStep ==
  ASSUME NEW m, RoundInv(m), TypeOK, Shape, [Next]_vars
  PROVE  Domains' /\ \A g \in Gpus : RankOK(g)'
<1>0. Domains /\ \A g \in Gpus : RankOK(g)
  BY TypeParts
<1>1. CASE UNCHANGED updater
  BY <1>0, <1>1 DEF Domains, RankOK, updater
<1>2. CASE \E g \in Gpus : Decide(g)
  <2>1. PICK g \in Gpus : Decide(g)
    BY <1>2
  <2>2. UNCHANGED <<meta, weights, ops, copies>>
    BY <2>1 DEF Decide
  <2>3. CASE Rebalances(g)
    <3>1. /\ plan' = [plan EXCEPT ![g] = target]
          /\ temp' = [temp EXCEPT ![g] = [p \in LocalOf(g) |-> Undef]]
          /\ layer' = [layer EXCEPT ![g] = 0]
      BY <2>1, <2>3 DEF Decide
    <3>2. \A l \in Layers : target[l] \in PlacementType
      BY <2>3 DEF RoundInv, SoundInv, SoundPlacement, Rebalances
    <3>3. /\ plan'[g] = target /\ temp'[g] = [p \in LocalOf(g) |-> Undef] /\ layer'[g] = 0
          /\ \A h \in Gpus \ {g} : plan'[h] = plan[h] /\ temp'[h] = temp[h] /\ layer'[h] = layer[h]
      BY <1>0, <3>1 DEF Domains
    <3>4. RankOK(g)'
      BY <1>0, <2>2, <3>2, <3>3, Ranges DEF RankOK
    <3>5. \A h \in Gpus \ {g} : RankOK(h)'
      BY <1>0, <2>2, <3>3 DEF RankOK
    <3> QED BY <1>0, <2>2, <3>1, <3>4, <3>5 DEF Domains
  <2>4. CASE ~Rebalances(g)
    BY <1>1, <2>1, <2>2, <2>4 DEF Decide, updater
  <2> QED BY <2>3, <2>4
<1>3. CASE (\E g \in Gpus : PostBatch(g)) /\ UNCHANGED control
  <2>1. PICK g \in Gpus : PostBatch(g)
    BY <1>3
  <2>2. UNCHANGED <<meta, plan, weights, layer>> /\ pc[g] = "stage"
    BY <2>1 DEF PostBatch
  <2>3. cause = "rebalance" /\ ~Through(g)
    BY <2>2 DEF RoundInv, MetaInv, Moving, Updating, Through
  <2>4. PICK l0 \in Layers : l0 = layer[g]
    BY DEF TypeOK
  <2>5. PICK old \in Maps, new \in Maps :
          old = meta[g][l0].phy2log /\ new = plan[g][l0].phy2log /\ old = m[l0]
    <3>1. meta[g][l0] \in PlacementType /\ plan[g][l0] \in PlacementType
      BY <1>0 DEF RankOK
    <3> QED BY <2>3, <3>1 DEF PlacementType, RoundInv, MetaInv
  <2>6. \A e \in Logical : Holders(old, e) # {}
    BY <2>3, <2>5, LayerMaps DEF RoundInv, Holders
  <2>7. /\ temp' = [temp EXCEPT ![g] = StagedBuffer(g, old, new, weights[g][l0], temp[g])]
        /\ ops' = [ops EXCEPT ![g] = Batch(g, old, new)]
        /\ copies' = [copies EXCEPT ![g] = BufferCopies(g, old, new)]
    BY <2>1, <2>4, <2>5 DEF PostBatch
  <2>8. /\ temp'[g] = StagedBuffer(g, old, new, weights[g][l0], temp[g])
        /\ ops'[g] = Batch(g, old, new) /\ copies'[g] = BufferCopies(g, old, new)
        /\ \A h \in Gpus \ {g} : temp'[h] = temp[h] /\ ops'[h] = ops[h] /\ copies'[h] = copies[h]
    BY <1>0, <2>7 DEF Domains
  <2>9. ops'[g] \subseteq Op
    BY <2>6, <2>8, BatchOps
  <2>10. DOMAIN copies'[g] \subseteq LocalOf(g) /\ \A p \in DOMAIN copies'[g] : copies'[g][p] \in LocalOf(g)
    <3>1. DOMAIN copies'[g] \subseteq LocalOf(g)
      BY <2>8 DEF BufferCopies
    <3> QED BY <2>8, <3>1, CopySource
  <2>11. temp'[g] \in [LocalOf(g) -> Logical \cup {Undef}]
    <3>1. ~Passed(g, l0)
      BY <2>2, <2>4, Ranges DEF Passed, Through, Moved
    <3> DEFINE w == weights[g][l0]
               t == temp[g]
    <3>2. (\A p \in LocalOf(g) : w[p] = old[p]) /\ t \in [LocalOf(g) -> Logical \cup {Undef}]
      BY <1>0, <2>5, <3>1 DEF RoundInv, WeightsInv, RankOK
    <3> HIDE DEF w, t
    <3>3. StagedBuffer(g, old, new, w, t) \in [LocalOf(g) -> Logical \cup {Undef}]
      BY <3>2, StagedSlots
    <3> QED BY <2>8, <3>3 DEF w, t
  <2>12. RankOK(g)'
    BY <1>0, <2>2, <2>9, <2>10, <2>11 DEF RankOK
  <2>13. \A h \in Gpus \ {g} : RankOK(h)'
    BY <1>0, <2>2, <2>8 DEF RankOK
  <2> QED BY <1>0, <2>2, <2>7, <2>12, <2>13 DEF Domains
<1>4. CASE (\E g, h \in Gpus : Transfer(g, h)) /\ UNCHANGED control
  <2>1. PICK g \in Gpus, h \in Gpus : Transfer(g, h)
    BY <1>4
  <2>2. PICK s \in NextOp(g, "isend", h), r \in NextOp(h, "irecv", g) :
          /\ temp' = [temp EXCEPT ![h][r.slot] = weights[g][layer[g]][s.slot]]
          /\ ops' = [ops EXCEPT ![g] = @ \ {s}, ![h] = @ \ {r}]
    BY <2>1 DEF Transfer
  <2>3. UNCHANGED <<meta, plan, weights, layer, copies>>
    BY <2>1 DEF Transfer
  <2>4. s.slot \in LocalOf(g) /\ r.slot \in LocalOf(h) /\ g # h
    BY TransferSlots
  <2>5. weights[g][layer[g]][s.slot] \in Logical \cup {Undef}
    BY <1>0, <2>4 DEF RankOK
  <2>6. /\ temp'[h] = [temp[h] EXCEPT ![r.slot] = weights[g][layer[g]][s.slot]]
        /\ \A x \in Gpus \ {h} : temp'[x] = temp[x]
    BY <1>0, <2>2 DEF Domains
  <2>7. \A x \in Gpus : temp'[x] \in [LocalOf(x) -> Logical \cup {Undef}]
    BY <1>0, <2>5, <2>6 DEF RankOK
  <2>8. \A x \in Gpus : ops'[x] \subseteq ops[x]
    BY <1>0, <2>2, <2>4 DEF Domains
  <2>9. \A x \in Gpus : RankOK(x)'
    BY <1>0, <2>3, <2>7, <2>8 DEF RankOK
  <2> QED BY <1>0, <2>2, <2>3, <2>9 DEF Domains
<1>5. CASE (\E g \in Gpus : FinishLayer(g)) /\ UNCHANGED control
  <2>1. PICK g \in Gpus : FinishLayer(g)
    BY <1>5
  <2>2. PICK l0 \in Layers : l0 = layer[g]
    BY DEF TypeOK
  <2> DEFINE row == [p \in LocalOf(g) |-> IF p \in DOMAIN copies[g] THEN temp[g][copies[g][p]]
                                                                    ELSE weights[g][l0][p]]
  <2>3. weights' = [weights EXCEPT ![g] = [weights[g] EXCEPT ![l0] = row]]
    BY <2>1, <2>2 DEF FinishLayer, Shape
  <2>4. \A p \in LocalOf(g) : row[p] \in Logical \cup {Undef}
    BY <1>0 DEF RankOK
  <2>5. row \in [LocalOf(g) -> Logical \cup {Undef}]
    BY <2>4
  <2> HIDE DEF row
  <2>6. /\ weights'[g] = [weights[g] EXCEPT ![l0] = row]
        /\ \A h \in Gpus \ {g} : weights'[h] = weights[h]
    BY <1>0, <2>3 DEF Domains
  <2>7. /\ DOMAIN weights'[g] = Layers
        /\ \A l \in Layers : weights'[g][l] \in [LocalOf(g) -> Logical \cup {Undef}]
    BY <1>0, <2>5, <2>6 DEF RankOK
  <2>8. UNCHANGED <<plan, temp, ops, copies>>
    BY <2>1 DEF FinishLayer
  <2>9. /\ DOMAIN meta' = Gpus /\ DOMAIN layer' = Gpus
        /\ \A h \in Gpus \ {g} : meta'[h] = meta[h] /\ layer'[h] = layer[h]
        /\ meta'[g] = meta[g] \/ meta'[g] = plan[g]
    BY <1>0, <2>1 DEF FinishLayer, NextLayer, Domains
  <2>10. layer'[g] \in Layers
    <3>1. CASE l0 < NumLayers - 1
      <4>1. layer'[g] = l0 + 1
        BY <1>0, <2>1, <2>2, <3>1 DEF FinishLayer, NextLayer, Domains
      <4> QED BY <3>1, <4>1, Ranges
    <3>2. CASE ~(l0 < NumLayers - 1)
      BY <2>1, <2>2, <3>2 DEF FinishLayer, NextLayer
    <3> QED BY <3>1, <3>2
  <2>11. RankOK(g)'
    BY <1>0, <2>7, <2>8, <2>9, <2>10 DEF RankOK
  <2>12. \A h \in Gpus \ {g} : RankOK(h)'
    BY <1>0, <2>6, <2>8, <2>9 DEF RankOK
  <2> QED BY <1>0, <2>3, <2>8, <2>9, <2>11, <2>12 DEF Domains
<1>6. CASE Update
  BY <1>3, <1>4, <1>5, <1>6, UpdateSteps
<1>7. CASE \/ UNCHANGED vars
           \/ StartRecord \/ StopRecord \/ DumpRecord \/ GetStatus \/ ForwardPass \/ AllReduce
           \/ \E g \in Gpus : UtilizationRate(g)
  BY <1>1, <1>7 DEF vars, StartRecord, StopRecord, DumpRecord, GetStatus, ForwardPass, AllReduce,
                    UtilizationRate
<1> QED BY <1>2, <1>6, <1>7 DEF Next, RankStep

LEMMA DumpTypeStep ==
  ASSUME DumpOK, [Next]_vars
  PROVE  DumpOK'
<1>1. ControlOK'
  BY ControlStep DEF DumpOK
<1>2. CASE UNCHANGED <<cause, load, target, rate, rounds>>
  BY <1>1, <1>2 DEF DumpOK
<1>3. CASE \E why \in {"client", "status"} : BeginDump(why) /\ UNCHANGED <<load, target, rounds>>
  BY <1>1, <1>3 DEF DumpOK, BeginDump
<1>4. CASE StartRebalance
  <2>1. PICK w \in LoadChoices : load' = w /\ target' = [l \in Layers |-> Plans[w[l]]]
    BY <1>4 DEF StartRebalance
  <2>2. \A l \in Layers : Plans[w[l]] \in PlacementType
    BY PlansAreSound DEF PlansSound, SoundPlacement
  <2>3. target' \in [Layers -> PlacementType]
    BY <2>1, <2>2
  <2>4. rounds' \in 0..MaxRounds
    BY <1>4, RanksAssumption DEF StartRebalance, DumpOK
  <2> QED BY <1>1, <1>4, <2>1, <2>3, <2>4 DEF StartRebalance, BeginDump, DumpOK
<1>5. CASE \E g \in Gpus : UtilizationRate(g)
  BY <1>1, <1>5 DEF UtilizationRate, DumpOK
<1>6. CASE UNCHANGED vars \/ StartRecord \/ StopRecord \/ AllReduce \/ \E g \in Gpus : Decide(g)
  BY <1>2, <1>6 DEF vars, control, StartRecord, StopRecord, AllReduce, Decide
<1>7. CASE DumpRecord \/ GetStatus
  BY <1>3, <1>7 DEF DumpRecord, GetStatus
<1>8. CASE ForwardPass
  BY <1>2, <1>4, <1>8 DEF ForwardPass
<1>9. CASE Update
  BY <1>2, <1>9 DEF Update, control
<1> QED BY <1>5, <1>6, <1>7, <1>8, <1>9 DEF Next, RankStep

\* The loads and the target change only when a rebalancing begins.
LEMMA TargetStep ==
  ASSUME TargetInv, [Next]_vars
  PROVE  TargetInv'
<1>1. CASE UNCHANGED <<cause, load, target>>
  BY <1>1 DEF TargetInv
<1>2. CASE \E why \in {"client", "status"} : BeginDump(why)
  BY <1>2 DEF TargetInv, BeginDump
<1>3. CASE StartRebalance
  BY <1>3 DEF TargetInv, StartRebalance
<1>4. CASE UNCHANGED vars \/ StartRecord \/ StopRecord \/ AllReduce
           \/ (\E g \in Gpus : UtilizationRate(g) \/ Decide(g)) \/ Update
  BY <1>1, <1>4 DEF vars, control, StartRecord, StopRecord, AllReduce, UtilizationRate, Decide, Update
<1>5. CASE DumpRecord \/ GetStatus
  BY <1>2, <1>5 DEF DumpRecord, GetStatus
<1>6. CASE ForwardPass
  BY <1>1, <1>3, <1>6 DEF ForwardPass
<1> QED BY <1>4, <1>5, <1>6 DEF Next, RankStep
-----------------------------------------------------------------------------
(* The theorems *)

\* init_by_mapping dispatches every expert to places that hold it.
LEMMA PlacementSound ==
  ASSUME NEW x \in Maps, Range(x) = Logical, NEW g \in Gpus
  PROVE  SoundPlacement(Placement(x, g))
<1>1. \A e \in Logical : \E p \in Physical : x[p] = e
  BY DEF Range, Maps
<1>2. ASSUME NEW e \in Logical
      PROVE  /\ AllPhysical(x, g, e) # {}
             /\ \A p \in AllPhysical(x, g, e) : p \in Physical /\ x[p] = e
  <2> DEFINE all  == {p \in Physical : x[p] = e}
             mine == all \cap LocalOf(g)
             near == {p \in all : GpuOf(p) \in SameNode(g)}
  <2>1. all # {} /\ all \in SUBSET Physical /\ mine \in SUBSET all /\ near \in SUBSET all
    BY <1>1
  <2>2. mine # {} => Min(mine) \in mine
    BY <2>1, MinSlot
  <2>3. near # {} => Min(near) \in near
    BY <2>1, MinSlot
  <2>4. AllPhysical(x, g, e) =
          IF mine # {} THEN {Min(mine)} ELSE IF near # {} THEN {Min(near)} ELSE all
    BY DEF AllPhysical
  <2> HIDE DEF mine, near
  <2> QED BY <2>1, <2>2, <2>3, <2>4
<1> DEFINE d == [e \in Logical |-> AllPhysical(x, g, e)]
<1>3. d \in [Logical -> SUBSET (Physical \cup {-1})]
  BY <1>2
<1>4. /\ Placement(x, g).phy2log = x /\ Placement(x, g).dispatch = d
      /\ Placement(x, g) = [phy2log |-> x, dispatch |-> d]
  BY DEF Placement
<1>5. \A e \in Logical : d[e] # {} /\ \A p \in d[e] : p \in Physical /\ x[p] = e
  BY <1>2
<1> HIDE DEF d
<1>6. Placement(x, g) \in PlacementType
  BY <1>3, <1>4 DEF PlacementType
<1> QED BY <1>1, <1>4, <1>5, <1>6 DEF SoundPlacement

LEMMA InitInv == Init => Inv
<1> SUFFICES ASSUME Init PROVE Inv
  OBVIOUS
<1>1. PICK m \in InitMaps :
        /\ meta = [g \in Gpus |-> [l \in Layers |-> Placement(m[l], g)]]
        /\ weights = [g \in Gpus |-> [l \in Layers |-> [p \in LocalOf(g) |-> m[l][p]]]]
  BY DEF Init
<1>2. m \in [Layers -> Maps] /\ \A l \in Layers : m[l] \in Maps /\ Range(m[l]) = Logical
  BY RanksAssumption
<1>3. \A g \in Gpus, l \in Layers : SoundPlacement(meta[g][l]) /\ meta[g][l].phy2log = m[l]
  <2> SUFFICES ASSUME NEW g \in Gpus, NEW l \in Layers
               PROVE  SoundPlacement(meta[g][l]) /\ meta[g][l].phy2log = m[l]
    OBVIOUS
  <2>1. meta[g][l] = Placement(m[l], g)
    BY <1>1
  <2> QED BY <1>2, <2>1, PlacementSound DEF Placement
<1>4. \A l \in Layers : \A e \in Logical : \E p \in Physical : m[l][p] = e
  BY <1>2 DEF Range, Maps
<1>5. AllIdle /\ cause = "client" /\ \A g \in Gpus : ops[g] = {} /\ pc[g] = "idle"
  BY DEF Init, AllIdle
<1>6. Settled(m)
  <2>1. \A g \in Gpus : ~Through(g) /\ g \notin Updating
    BY <1>5 DEF Through, Updating
  <2>2. SoundInv(m)
    BY <1>2, <1>3, <1>4, <1>5 DEF SoundInv
  <2>3. \A g \in Gpus : \A l \in Layers : \A p \in LocalOf(g) : weights[g][l][p] = m[l][p]
    BY <1>1
  <2> QED BY <1>3, <1>5, <2>1, <2>2, <2>3 DEF Settled
<1>7. RoundInv(m) /\ m \in {MapOf(meta[g]) : g \in Gpus}
  BY <1>6, SettledInv, SomeNotThrough
<1>8. \A g \in Gpus : RankOK(g)
  <2> SUFFICES ASSUME NEW g \in Gpus PROVE RankOK(g)
    OBVIOUS
  <2>1. \A l \in Layers : meta[g][l] \in PlacementType /\ plan[g][l] \in PlacementType
    BY <1>3 DEF SoundPlacement, Init
  <2>2. /\ DOMAIN weights[g] = Layers
        /\ \A l \in Layers : weights[g][l] = [p \in LocalOf(g) |-> m[l][p]]
    BY <1>1
  <2>3. \A l \in Layers : \A p \in LocalOf(g) : m[l][p] \in Logical
    BY <1>2, Ranges DEF Maps
  <2>4. \A l \in Layers : weights[g][l] \in [LocalOf(g) -> Logical \cup {Undef}]
    <3> SUFFICES ASSUME NEW l \in Layers
                 PROVE  [p \in LocalOf(g) |-> m[l][p]] \in [LocalOf(g) -> Logical \cup {Undef}]
      BY <2>2
    <3>1. \A p \in LocalOf(g) : m[l][p] \in Logical \cup {Undef}
      BY <2>3
    <3> QED BY <3>1
  <2>5. /\ temp[g] \in [LocalOf(g) -> Logical \cup {Undef}] /\ layer[g] \in Layers
        /\ ops[g] \subseteq Op /\ copies[g] = <<>>
    BY Ranges DEF Init
  <2>6. DOMAIN copies[g] = {}
    BY <2>5
  <2> QED BY <2>1, <2>2, <2>4, <2>5, <2>6 DEF RankOK
<1>9. Domains
  BY <1>1 DEF Init, Domains
<1>10. DumpOK
  <2>1. ControlOK
    BY DEF Init, ControlOK
  <2>2. rounds \in 0..MaxRounds
    BY RanksAssumption DEF Init
  <2>3. load \in LoadChoices \cup {<<>>} /\ target \in [Layers -> PlacementType] \cup {<<>>}
    BY Zenon DEF Init
  <2> QED BY <2>1, <2>2, <2>3 DEF Init, DumpOK
<1>11. TypeOK /\ Shape
  BY <1>8, <1>9, <1>10, TypeParts
<1>12. RateInv /\ HistoryInv /\ RebalanceHasHistory /\ TargetInv
  BY <1>5, Ranges DEF RateInv, HistoryInv, RebalanceHasHistory, TargetInv, Undecided, Init
<1> QED BY <1>7, <1>11, <1>12 DEF Inv

\* Some placement satisfies the invariant of the round after a step.
LEMMA RoundStep ==
  ASSUME TypeOK, Shape, RateInv, NEW m, RoundInv(m), [Next]_vars
  PROVE  \E m1 \in {m, MapOf(target)} : RoundInv(m1)'
<1>1. CASE UNCHANGED vars \/ StartRecord \/ StopRecord
  <2>1. UNCHANGED <<pc, updater, cause, target, rate>>
    BY <1>1 DEF vars, control, StartRecord, StopRecord
  <2> QED BY <2>1, RequestInv
<1>2. CASE DumpRecord \/ GetStatus
  <2>1. PICK why \in {"client", "status"} : BeginDump(why)
    BY <1>2 DEF DumpRecord, GetStatus
  <2>2. AllIdle /\ UNCHANGED updater
    BY <1>2 DEF DumpRecord, GetStatus
  <2>3. RoundInv(m)'
    BY <2>1, <2>2, BeginDumpInv
  <2> QED BY <2>3
<1>3. CASE ForwardPass
  <2>1. AllIdle /\ UNCHANGED updater
    BY <1>3 DEF ForwardPass
  <2>2. CASE UNCHANGED <<pc, cause, target, rate>>
    BY <2>1, <2>2, RequestInv
  <2>3. CASE StartRebalance
    <3>1. PICK w \in LoadChoices : target' = [l \in Layers |-> Plans[w[l]]]
      BY <2>3 DEF StartRebalance
    <3>2. \A l \in Layers : SoundPlacement(target'[l])
      BY <3>1, PlansAreSound DEF PlansSound
    <3>3. BeginDump("rebalance")
      BY <2>3 DEF StartRebalance
    <3>4. RoundInv(m)'
      BY <2>1, <3>2, <3>3, BeginDumpInv
    <3> QED BY <3>4
  <2> QED BY <1>3, <2>2, <2>3 DEF ForwardPass
<1>4. CASE AllReduce
  BY <1>4, AllReduceInv
<1>5. CASE \E g \in Gpus : UtilizationRate(g)
  BY <1>5, UtilizationRateInv
<1>6. CASE \E g \in Gpus : Decide(g)
  BY <1>6, DecideInv
<1>7. CASE (\E g \in Gpus : PostBatch(g)) /\ UNCHANGED control
  BY <1>7, PostBatchInv
<1>8. CASE (\E g, h \in Gpus : Transfer(g, h)) /\ UNCHANGED control
  BY <1>8, TransferInv
<1>9. CASE (\E g \in Gpus : FinishLayer(g)) /\ UNCHANGED control
  BY <1>9, FinishLayerInv
<1>10. CASE Update
  BY <1>7, <1>8, <1>9, <1>10, UpdateSteps
<1> QED BY <1>1, <1>2, <1>3, <1>4, <1>5, <1>6, <1>10 DEF Next, RankStep

LEMMA StepInv ==
  ASSUME Inv, [Next]_vars
  PROVE  Inv'
<1>1. PICK m \in {MapOf(meta[g]) : g \in Gpus} : RoundInv(m)
  BY DEF Inv
<1>2. TypeOK /\ Shape /\ RateInv /\ HistoryInv /\ RebalanceHasHistory
  BY DEF Inv
<1>3. DumpOK /\ ControlOK
  BY <1>2, TypeParts DEF DumpOK
<1>4. TypeOK' /\ Shape'
  <2>1. DumpOK'
    BY <1>3, DumpTypeStep
  <2>2. Domains' /\ \A g \in Gpus : RankOK(g)'
    BY <1>1, <1>2, RankTypeStep
  <2> QED BY <2>1, <2>2, TypePartsNext
<1>5. HistoryInv' /\ RebalanceHasHistory'
  BY <1>2, <1>3, HistoryStep
<1>6. RateInv'
  BY <1>2, <1>3, RateStep
<1>7. PICK m1 \in {m, MapOf(target)} : RoundInv(m1)'
  BY <1>1, <1>2, RoundStep
<1>8. (m1 \in {MapOf(meta[g]) : g \in Gpus})'
  BY <1>7, SomeNotThroughNext
<1>9. (\E n \in {MapOf(meta[g]) : g \in Gpus} : RoundInv(n))'
  BY <1>7, <1>8
<1>10. TargetInv'
  BY TargetStep DEF Inv
<1> QED BY <1>4, <1>5, <1>6, <1>9, <1>10 DEF Inv

\* The invariant holds in every behaviour.
LEMMA SpecInv == Spec => []Inv
<1>1. Init => Inv
  BY InitInv
<1>2. Inv /\ [Next]_vars => Inv'
  BY StepInv
<1> QED BY <1>1, <1>2, PTL DEF Spec

\* The variables have their types throughout: no posted op, copy or plan leaves
\* the slots and the experts there are, and no rank a layer.
THEOREM RanksTypeCorrect == Spec => []TypeOK
<1>1. Spec => []Inv
  BY SpecInv
<1>2. Inv => TypeOK
  BY DEF Inv
<1> QED BY <1>1, <1>2, PTL

\* The canary holds at any time: the weights of a slot are those of the expert that
\* the map in force for this layer names there, whatever order the ranks run in.
THEOREM WeightsAlwaysFollowMap == Spec => []WeightsFollowMap
<1>1. Spec => []Inv
  BY SpecInv
<1>2. Inv => WeightsFollowMap
  <2> SUFFICES ASSUME Inv, NEW g \in Gpus, NEW l \in Layers, NEW p \in Physical, p \in LocalOf(g)
               PROVE  weights[g][l][p] = (IF Moved(g, l) THEN plan[g][l] ELSE meta[g][l]).phy2log[p]
    BY DEF WeightsFollowMap
  <2>1. PICK m : RoundInv(m)
    BY DEF Inv
  <2>2. weights[g][l][p] = IF Passed(g, l) THEN New(l)[p] ELSE m[l][p]
    BY <2>1 DEF RoundInv, WeightsInv
  <2>3. CASE Through(g)
    <3>1. meta[g] = target /\ ~Moved(g, l) /\ Passed(g, l)
      BY <2>1, <2>3 DEF RoundInv, MetaInv, Through, Moved, Updating, Passed
    <3> QED BY <2>2, <3>1 DEF New
  <2>4. CASE ~Through(g) /\ Moved(g, l)
    <3>1. plan[g] = target /\ Passed(g, l)
      BY <2>1, <2>4 DEF RoundInv, MetaInv, Moved, Passed
    <3> QED BY <2>2, <2>4, <3>1 DEF New
  <2>5. CASE ~Through(g) /\ ~Moved(g, l)
    <3>1. meta[g][l].phy2log = m[l] /\ ~Passed(g, l)
      BY <2>1, <2>5 DEF RoundInv, MetaInv, Passed
    <3> QED BY <2>2, <2>5, <3>1
  <2> QED BY <2>3, <2>4, <2>5
<1> QED BY <1>1, <1>2, PTL

\* Although every rank decides and plans for itself, all move to the same
\* placement, and have the same placement when the rebalancing is over.
THEOREM RanksAlwaysAgree == Spec => []RanksAgree
<1>1. Spec => []Inv
  BY SpecInv
<1>2. Inv => RanksAgree
  <2> SUFFICES ASSUME Inv, NEW g \in Gpus, NEW h \in Gpus, NEW l \in Layers
               PROVE  /\ AllIdle => meta[g][l].phy2log = meta[h][l].phy2log
                      /\ g \in Updating /\ h \in Updating => plan[g] = plan[h]
                      /\ g \in Updating /\ pc[h] = "idle" => meta[h] = plan[g]
    BY DEF RanksAgree
  <2>1. PICK m : RoundInv(m)
    BY DEF Inv
  <2>2. AllIdle => meta[g][l].phy2log = meta[h][l].phy2log
    BY <2>1 DEF RoundInv, MetaInv, Through
  <2>3. g \in Updating /\ h \in Updating => plan[g] = plan[h]
    BY <2>1 DEF RoundInv, MetaInv
  <2>4. ASSUME g \in Updating, pc[h] = "idle" PROVE meta[h] = plan[g]
    <3>1. Moving /\ plan[g] = target /\ ~AllIdle
      BY <2>1, <2>4 DEF RoundInv, MetaInv, Updating, AllIdle
    <3>2. Through(h)
      BY <2>4, <3>1 DEF Through
    <3> QED BY <2>1, <3>1, <3>2 DEF RoundInv, MetaInv
  <2> QED BY <2>2, <2>3, <2>4
<1> QED BY <1>1, <1>2, PTL

\* Whenever passes may run, every place that a rank may dispatch an expert to has
\* the weights of that expert.
THEOREM DispatchAlwaysFindsWeights == Spec => []DispatchFindsWeights
<1>1. Spec => []Inv
  BY SpecInv
<1>2. Inv => DispatchFindsWeights
  <2> SUFFICES ASSUME Inv, AllIdle, NEW g \in Gpus, NEW l \in Layers, NEW e \in Logical
               PROVE  /\ meta[g][l].dispatch[e] # {}
                      /\ \A p \in meta[g][l].dispatch[e] :
                           p \in Physical /\ weights[GpuOf(p)][l][p] = e
    BY DEF DispatchFindsWeights
  <2>1. PICK m : RoundInv(m)
    BY DEF Inv
  <2>2. SoundPlacement(meta[g][l])
    BY <2>1 DEF RoundInv, SoundInv
  <2>3. \A h \in Gpus : ~Through(h) /\ h \notin Updating
    BY DEF AllIdle, Through, Updating
  <2>4. Settled(m)
    BY <2>1, <2>3, InvSettled
  <2>5. ASSUME NEW p \in meta[g][l].dispatch[e]
        PROVE  p \in Physical /\ weights[GpuOf(p)][l][p] = e
    <3>1. p \in Physical /\ meta[g][l].phy2log[p] = e
      BY <2>2 DEF SoundPlacement
    <3>2. GpuOf(p) \in Gpus /\ p \in LocalOf(GpuOf(p))
      BY <3>1, GpuOfRange DEF LocalOf
    <3>3. weights[GpuOf(p)][l][p] = m[l][p]
      BY <2>4, <3>2 DEF Settled
    <3> QED BY <2>4, <3>1, <3>3 DEF Settled
  <2> QED BY <2>2, <2>5 DEF SoundPlacement
<1> QED BY <1>1, <1>2, PTL

\* A rebalancing of a recording server never raises on an empty history, whatever
\* the algorithm plans.
THEOREM RebalanceAlwaysHasHistory == Spec => []RebalanceHasHistory
<1> DEFINE J == ControlOK /\ HistoryInv /\ RebalanceHasHistory
<1>1. Init => J
  BY Ranges DEF Init, ControlOK, HistoryInv, RebalanceHasHistory
<1>2. J /\ [Next]_vars => J'
  BY ControlStep, HistoryStep
<1>3. J => RebalanceHasHistory
  OBVIOUS
<1> QED BY <1>1, <1>2, <1>3, PTL DEF Spec

\* A rank that has planned and moved nothing has the plan for the loads.
LEMMA PlannedIsNew ==
  ASSUME Inv, NEW g \in Planned, NEW l \in Layers
  PROVE  load[l] \in [Logical -> Nat] /\ plan[g][l] = NewPlacement(load[l])
<1>1. PICK m : RoundInv(m)
  BY DEF Inv
<1>2. g \in Updating
  BY DEF Planned, Updating
<1>3. cause = "rebalance" /\ plan[g] = target
  BY <1>1, <1>2 DEF RoundInv, MetaInv, Moving
<1>4. load \in LoadChoices /\ plan[g][l] = Plans[load[l]]
  BY <1>3 DEF Inv, TargetInv
<1> QED BY <1>4, PlansAreSound

\* Under the hierarchical policy every plan has the experts of a group on one node,
\* whatever the loads are and however the groups are packed.
THEOREM GroupsAlwaysStayTogether == Spec => []GroupsStayTogether
<1>1. Spec => []Inv
  BY SpecInv
<1>2. Inv => GroupsStayTogether
  <2> SUFFICES ASSUME Inv, Hierarchical, NEW g \in Planned, NEW l \in Layers, NEW p \in Physical, NEW q \in Physical,
                      plan[g][l].phy2log[p] \div (NumLogical \div NumGroups)
                        = plan[g][l].phy2log[q] \div (NumLogical \div NumGroups)
               PROVE  NodeOf(GpuOf(p)) = NodeOf(GpuOf(q))
    BY DEF GroupsStayTogether
  <2>1. Grouped(plan[g][l])
    BY PlannedIsNew, PlanGrouped
  <2> QED BY <2>1 DEF Grouped
<1> QED BY <1>1, <1>2, PTL

\* "The maximum load of all replicas is minimized", node by node: no other way to
\* share the slots of a node out to its experts has a lighter heaviest replica.
THEOREM ReplicasAlwaysOptimal == Spec => []ReplicasOptimal
<1>1. Spec => []Inv
  BY SpecInv
<1>2. Inv => ReplicasOptimal
  <2>1. ASSUME Inv PROVE \A g \in Planned, l \in Layers, n \in Upto(PolicyNodes) : Optimal(load[l], plan[g][l], n)
    BY <2>1, PlannedIsNew, PlanOptimal
  <2> QED BY <2>1 DEF ReplicasOptimal, Optimal, PolicyNodes, SlotsOf
<1> QED BY <1>1, <1>2, PTL
=============================================================================
