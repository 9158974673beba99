--------------------------- MODULE EplbAlgorithm ---------------------------
(***************************************************************************)
(* The placement algorithm of src/sglang/srt/eplb/eplb_algorithms/         *)
(* deepseek.py, for one layer (the layers are independent of each other).  *)
(*                                                                         *)
(* Tensors are functions on 0..(n-1).  A load is a natural number; where   *)
(* the code divides by a number of replicas the loads are first multiplied *)
(* by a common multiple, so that comparisons are exact.  Equal loads are   *)
(* ordered by their index, as the sort and the max of the CPU do.          *)
(***************************************************************************)
EXTENDS Integers, FiniteSets, FiniteSetsExt, Functions

CONSTANTS
  NumNodes,      \* nnodes
  GpusPerNode,   \* ep_size / nnodes
  NumLocal,      \* num_local_physical_experts
  NumLogical,    \* num_logical_experts
  NumGroups,     \* num_groups of the model
  Hierarchical   \* enable_hierarchical

NumGpus     == NumNodes * GpusPerNode
NumPhysical == NumGpus * NumLocal

\* The assertions of rebalance_experts_hierarchical and replicate_experts.
ASSUME TopologyAssumption ==
  /\ {NumNodes, GpusPerNode, NumLocal, NumLogical, NumGroups} \subseteq Nat \ {0}
  /\ Hierarchical \in BOOLEAN
  /\ NumPhysical >= NumLogical
  /\ Hierarchical => NumLogical % NumGroups = 0 /\ NumGroups % NumNodes = 0

Upto(n)  == 0..(n - 1)
Gpus     == Upto(NumGpus)
Physical == Upto(NumPhysical)
Logical  == Upto(NumLogical)
Maps     == [Physical -> Logical]

GpuOf(p)   == p \div NumLocal
NodeOf(g)  == g \div GpusPerNode
LocalOf(g) == {p \in Physical : GpuOf(p) = g}
-----------------------------------------------------------------------------
\* sort(descending=True).indices
Before(w, i)  == {j \in DOMAIN w : w[j] > w[i] \/ (w[j] = w[i] /\ j < i)}
Descending(w) ==
  [k \in 1..Cardinality(DOMAIN w) |-> CHOOSE i \in DOMAIN w : Cardinality(Before(w, i)) = k - 1]

\* The item goes to the lightest pack with less than perPack items, the first of several.
Put(weight, perPack, acc, item) ==
  LET open == {i \in DOMAIN acc.items : acc.items[i] < perPack}
      pack == Min({i \in open : \A j \in open : acc.load[i] <= acc.load[j]})
  IN [pack  |-> [acc.pack EXCEPT ![item] = pack],
      rank  |-> [acc.rank EXCEPT ![item] = acc.items[pack]],
      load  |-> [acc.load EXCEPT ![pack] = @ + weight[item]],
      items |-> [acc.items EXCEPT ![pack] = @ + 1]]

NoItems(weight, numPacks) ==
  [pack |-> [i \in DOMAIN weight |-> -1], rank |-> [i \in DOMAIN weight |-> -1],
   load |-> [i \in Upto(numPacks) |-> 0], items |-> [i \in Upto(numPacks) |-> 0]]

\* Heaviest item first; after[k] is the state after k items.
Pack(weight, numPacks, perPack) ==
  LET n        == Cardinality(DOMAIN weight)
      order    == Descending(weight)
      after[k \in 0..n] == IF k = 0 THEN NoItems(weight, numPacks)
                                    ELSE Put(weight, perPack, after[k - 1], order[k])
  IN after[n]

\* With one item for each pack the items stay in their places.
balanced_packing(weight, numPacks) ==
  LET perPack == Cardinality(DOMAIN weight) \div numPacks
  IN IF perPack = 1
     THEN [pack |-> [i \in DOMAIN weight |-> i], rank |-> [i \in DOMAIN weight |-> 0]]
     ELSE Pack(weight, numPacks, perPack)

\* Mutant of Hottest: the loads are not divided by the replicas made so far.
MutantUndivided(weight, cnt) == Min({i \in DOMAIN weight : \A j \in DOMAIN weight : weight[i] >= weight[j]})

\* (weight / logcnt).max().indices: the expert whose replicas have the largest load.
Hottest(weight, cnt) ==
  Min({i \in DOMAIN weight : \A j \in DOMAIN weight : weight[i] * cnt[j] >= weight[j] * cnt[i]})

\* Slot p becomes one more replica of the hottest expert.
Replica(weight, acc, p) ==
  LET hot == Hottest(weight, acc.cnt)
  IN [acc EXCEPT !.phy2log[p] = hot, !.rank[p] = acc.cnt[hot], !.cnt[hot] = @ + 1]

OneOfEach(weight, numPhy) ==
  [phy2log |-> [p \in Upto(numPhy) |-> p], rank |-> [p \in Upto(numPhy) |-> 0],
   cnt |-> [i \in DOMAIN weight |-> 1]]

\* One replica of every expert, then one more of the hottest until all slots are used.
replicate_experts(weight, numPhy) ==
  LET n == Cardinality(DOMAIN weight)
      after[k \in 0..(numPhy - n)] == IF k = 0 THEN OneOfEach(weight, numPhy)
                                               ELSE Replica(weight, after[k - 1], n + k - 1)
  IN after[numPhy - n]

\* The sum and the product of n numbers.
Sum(f, n)     == LET s[i \in 0..n] == IF i = 0 THEN 0 ELSE s[i - 1] + f[i - 1] IN s[n]
Product(f, n) == LET s[i \in 0..n] == IF i = 0 THEN 1 ELSE s[i - 1] * f[i - 1] IN s[n]

\* Step 1: log2mlog, the order of the experts after the groups are packed to nodes.
PackGroups(weight, numGroups, numNodes) ==
  LET groupSize == NumLogical \div numGroups
      groups    == balanced_packing([g \in Upto(numGroups) |->
                     Sum([i \in Upto(groupSize) |-> weight[g * groupSize + i]], groupSize)], numNodes)
  IN [l \in Logical |->
       LET g == l \div groupSize
       IN (groups.pack[g] * (numGroups \div numNodes) + groups.rank[g]) * groupSize + (l % groupSize)]

\* Step 3 for a node: pphy2phy, from the places in the node to its replicas.
PackReplicas(w, reps, numGpus) ==
  LET scale  == Product(reps.cnt, Cardinality(DOMAIN w))
      packed == balanced_packing([p \in DOMAIN reps.phy2log |->
                  w[reps.phy2log[p]] * (scale \div reps.cnt[reps.phy2log[p]])], numGpus)
  IN AntiFunction([p \in DOMAIN reps.phy2log |-> packed.pack[p] * NumLocal + packed.rank[p]])

\* Steps 2 and 3 for a node with the experts of loads w: the replica at each place.
PlaceNode(w, numPhy, numGpus) ==
  LET reps     == replicate_experts(w, numPhy)
      pphy2phy == PackReplicas(w, reps, numGpus)
  IN [phy2mlog |-> [p \in Upto(numPhy) |-> reps.phy2log[pphy2phy[p]]],
      rank     |-> [p \in Upto(numPhy) |-> reps.rank[pphy2phy[p]]],
      cnt      |-> reps.cnt]

\* The nodes put together, in terms of the experts before step 1.
Assemble(weight, log2mlog, mlog2log, numNodes) ==
  LET perNode    == NumLogical \div numNodes   \* logical experts of a node
      phyPerNode == NumPhysical \div numNodes
      nodes      == [n \in Upto(numNodes) |->
                      PlaceNode([i \in Upto(perNode) |-> weight[mlog2log[n * perNode + i]]],
                                phyPerNode, NumGpus \div numNodes)]
  IN [phy2log |-> [p \in Physical |->
                     LET n == p \div phyPerNode
                     IN mlog2log[n * perNode + nodes[n].phy2mlog[p % phyPerNode]]],
      rank    |-> [p \in Physical |-> nodes[p \div phyPerNode].rank[p % phyPerNode]],
      cnt     |-> [l \in Logical |-> nodes[log2mlog[l] \div perNode].cnt[log2mlog[l] % perNode]]]

rebalance_experts_hierarchical(weight, numGroups, numNodes) ==
  LET log2mlog == PackGroups(weight, numGroups, numNodes)
  IN Assemble(weight, log2mlog, AntiFunction(log2mlog), numNodes)

\* Mutant of Policy: the groups of the model are not looked at.
MutantAlwaysGlobal(weight) == rebalance_experts_hierarchical(weight, 1, 1)

\* The two policies of rebalance_experts; the global one knows one node and one group.
Policy(weight) ==
  rebalance_experts_hierarchical(weight, IF Hierarchical THEN NumGroups ELSE 1,
                                         IF Hierarchical THEN NumNodes ELSE 1)

\* log2phy[l][k] is the place of replica k of expert l, or -1.
Scatter(r) ==
  [phy2log |-> r.phy2log,
   cnt     |-> r.cnt,
   log2phy |-> [l \in Logical |-> [k \in Upto(Max(Range(r.cnt))) |->
                  LET at == {p \in Physical : r.phy2log[p] = l /\ r.rank[p] = k}
                  IN IF at = {} THEN -1 ELSE Max(at)]]]

rebalance_experts(weight) == Scatter(Policy(weight))
=============================================================================
