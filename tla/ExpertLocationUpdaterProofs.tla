--------------------- MODULE ExpertLocationUpdaterProofs ---------------------
(***************************************************************************)
(* The batches that two ranks post for a layer fit together, for every     *)
(* topology and every two placements: a rank posts a receive of an expert  *)
(* from another one exactly if that one posts a send of it, and neither    *)
(* posts it twice.                                                         *)
(***************************************************************************)
EXTENDS ExpertLocationUpdater, EplbAlgorithmProofs

(* _ChunkUtils: a receiver computes the chunk of an element, a sender the   *)
(* elements of a chunk.  For any number of elements and of chunks the two   *)
(* computations are inverse to each other.                                  *)

\* _chunk_index_from_element_index and _element_slice_from_chunk_index fit
\* together: the slice of chunk c has exactly the elements whose chunk is c, so
\* that a rank sends an expert to exactly the ranks that expect it from it.
THEOREM SlicesAreChunks ==
  ASSUME NEW n \in Nat, NEW k \in Nat \ {0}, NEW c \in 0..(k - 1), NEW e \in 0..(n - 1)
  PROVE  ChunkIndex(n, k, e) = c <=> SliceStart(n, k, c) <= e /\ e < SliceEnd(n, k, c)
<1> DEFINE s == n \div k
           l == n % k
           split == l * (s + 1)
<1>1. s \in Nat /\ l \in Nat /\ n = k * s + l /\ l < k
  BY DivMod
<1>2. ChunkIndex(n, k, e) = IF e < split THEN e \div (s + 1) ELSE l + (e - split) \div s
  BY DEF ChunkIndex
<1>3. SliceStart(n, k, c) = c * s + (IF c < l THEN c ELSE l)
  BY DEF SliceStart
<1>4. SliceEnd(n, k, c) = SliceStart(n, k, c) + s + (IF c < l THEN 1 ELSE 0)
  BY DEF SliceEnd
<1> HIDE DEF s, l, split
<1>5. c \in Nat /\ e \in Nat /\ s + 1 \in Nat \ {0}
  BY <1>1
<1>6. split \in Nat /\ split = l * s + l
  BY <1>1, MulSucc DEF split
<1>7. c * s \in Nat /\ c * (s + 1) = c * s + c
  BY <1>1, <1>5, MulSucc
<1>8. CASE e < split
  <2>1. ChunkIndex(n, k, e) = c <=> c * (s + 1) <= e /\ e < c * (s + 1) + (s + 1)
    BY <1>2, <1>5, <1>8, Quotient
  <2>2. CASE c < l
    BY <1>1, <1>3, <1>4, <1>5, <1>7, <2>1, <2>2
  <2>3. CASE l <= c
    <3>1. l * (s + 1) <= c * (s + 1) /\ l * s <= c * s
      BY <1>1, <1>5, <2>3, MulMono
    <3>2. e < c * (s + 1) /\ e < c * s + l
      <4>1. c * (s + 1) \in Nat
        BY <1>5
      <4> QED BY <1>1, <1>5, <1>6, <1>7, <1>8, <3>1, <4>1 DEF split
    <3> QED BY <1>1, <1>3, <1>4, <1>5, <1>7, <2>1, <2>3, <3>2
  <2> QED BY <1>1, <1>5, <2>2, <2>3
<1>9. CASE split <= e
  <2>1. s \in Nat \ {0}
    <3>1. ASSUME s = 0 PROVE FALSE
      <4>1. k * s = 0 /\ l * s = 0
        BY <1>1, <3>1
      <4> QED BY <1>1, <1>5, <1>6, <1>9, <4>1
    <3> QED BY <1>1, <3>1
  <2>2. e - split \in Nat
    BY <1>5, <1>6, <1>9
  <2>3. ChunkIndex(n, k, e) = l + (e - split) \div s
    BY <1>2, <1>5, <1>6, <1>9
  <2>4. (e - split) \div s \in Nat
    BY <2>1, <2>2, DivMod
  <2>5. CASE c < l
    <3>1. (c + 1) * (s + 1) <= l * (s + 1)
      BY <1>1, <1>5, <2>5, MulMono
    <3>2. (c + 1) * (s + 1) = c * s + c + s + 1
      BY <1>1, <1>5, <1>7, MulSucc
    <3>3. c * s + c + s + 1 <= e
      BY <1>1, <1>5, <1>6, <1>7, <1>9, <3>1, <3>2 DEF split
    <3> QED BY <1>1, <1>3, <1>4, <1>5, <1>7, <2>3, <2>4, <2>5, <3>3
  <2>6. CASE l <= c
    <3>1. c - l \in Nat /\ c - l + l = c
      BY <1>1, <1>5, <2>6
    <3>2. (e - split) \div s = c - l <=> (c - l) * s <= e - split /\ e - split < (c - l) * s + s
      BY <2>1, <2>2, <3>1, Quotient
    <3>3. (c - l) * s = c * s - l * s /\ l * s \in Nat
      BY <1>1, <1>5, <3>1
    <3> QED BY <1>1, <1>3, <1>4, <1>5, <1>6, <1>7, <2>3, <2>4, <2>6, <3>2, <3>3
  <2> QED BY <1>1, <1>5, <2>5, <2>6
<1> QED BY <1>5, <1>6, <1>8, <1>9

\* A chunk index is the index of a chunk.
LEMMA ChunkIndexRange ==
  ASSUME NEW n \in Nat, NEW k \in Nat \ {0}, NEW e \in 0..(n - 1)
  PROVE  ChunkIndex(n, k, e) \in 0..(k - 1)
<1> DEFINE s == n \div k
           l == n % k
           split == l * (s + 1)
<1>1. s \in Nat /\ l \in Nat /\ n = k * s + l /\ l < k
  BY DivMod
<1>2. ChunkIndex(n, k, e) = IF e < split THEN e \div (s + 1) ELSE l + (e - split) \div s
  BY DEF ChunkIndex
<1> HIDE DEF s, l, split
<1>3. e \in Nat /\ s + 1 \in Nat \ {0}
  BY <1>1
<1>4. split \in Nat /\ split = l * s + l /\ l * s \in Nat
  BY <1>1, MulSucc DEF split
<1>5. CASE e < split
  <2> DEFINE q == e \div (s + 1)
  <2>1. q \in Nat /\ q * (s + 1) <= e
    BY <1>3, DivMod, Quotient
  <2> HIDE DEF q
  <2>2. ASSUME l <= q PROVE FALSE
    <3>1. l * (s + 1) <= q * (s + 1)
      BY <1>1, <1>3, <2>1, <2>2, MulMono
    <3>2. q * (s + 1) \in Nat
      BY <1>3, <2>1
    <3> QED BY <1>3, <1>4, <1>5, <2>1, <3>1, <3>2 DEF split
  <2>3. ChunkIndex(n, k, e) = q
    BY <1>2, <1>5 DEF q
  <2> QED BY <1>1, <2>1, <2>2, <2>3
<1>6. CASE split <= e
  <2>1. s \in Nat \ {0}
    <3>1. ASSUME s = 0 PROVE FALSE
      <4>1. k * s = 0 /\ l * s = 0
        BY <1>1, <3>1
      <4> QED BY <1>1, <1>3, <1>4, <1>6, <4>1
    <3> QED BY <1>1, <3>1
  <2> DEFINE q == (e - split) \div s
  <2>2. e - split \in Nat
    BY <1>3, <1>4, <1>6
  <2>3. q \in Nat /\ q * s <= e - split
    BY <2>1, <2>2, DivMod, Quotient
  <2>4. ChunkIndex(n, k, e) = l + q
    BY <1>2, <1>3, <1>4, <1>6
  <2> HIDE DEF q
  <2>5. ASSUME k - l <= q PROVE FALSE
    <3>1. k - l \in Nat
      BY <1>1
    <3>2. (k - l) * s <= q * s
      BY <2>1, <2>3, <2>5, <3>1, MulMono
    <3>3. (k - l) * s = k * s - l * s /\ k * s \in Nat
      BY <1>1, <3>1
    <3>4. q * s \in Nat
      BY <2>1, <2>3
    <3> QED BY <1>1, <1>3, <1>4, <2>2, <2>3, <3>2, <3>3, <3>4
  <2> QED BY <1>1, <2>3, <2>4, <2>5
<1> QED BY <1>3, <1>4, <1>5, <1>6

\* The index of a member is below the number of members.
LEMMA IndexRange ==
  ASSUME NEW S \in SUBSET Int, IsFiniteSet(S), NEW x \in S
  PROVE  IndexIn(S, x) \in 0..(Cardinality(S) - 1)
<1> DEFINE T == {y \in S : y < x}
<1>1. T \in SUBSET S /\ T # S
  <2>1. x \notin T
    BY x \in Int
  <2> QED BY <2>1
<1> HIDE DEF T
<1>2. IsFiniteSet(T) /\ Cardinality(T) <= Cardinality(S) /\ Cardinality(S) # Cardinality(T)
  BY <1>1, FS_Subset
<1>3. Cardinality(T) \in Nat /\ Cardinality(S) \in Nat
  BY <1>2, FS_CardinalityType
<1> QED BY <1>2, <1>3 DEF T, IndexIn

\* Members with the same index are the same.
LEMMA IndexInjective ==
  ASSUME NEW S \in SUBSET Int, IsFiniteSet(S), NEW x \in S, NEW z \in S, IndexIn(S, x) = IndexIn(S, z)
  PROVE  x = z
<1>1. ASSUME NEW a \in S, NEW b \in S, a < b, IndexIn(S, a) = IndexIn(S, b)
      PROVE  FALSE
  <2> DEFINE A == {y \in S : y < a}
             B == {y \in S : y < b}
  <2>1. A \in SUBSET B
    <3>1. a \in Int /\ b \in Int
      BY <1>1
    <3>2. ASSUME NEW y \in S, y < a
          PROVE  y < b
      <4>1. y \in Int
        OBVIOUS
      <4> QED BY <1>1, <3>1, <3>2, <4>1
    <3> QED BY <3>2, Zenon
  <2>2. a \in B /\ a \notin A
    BY <1>1
  <2>3. IsFiniteSet(B)
    BY FS_Subset, B \in SUBSET S
  <2>4. Cardinality(A) = Cardinality(B)
    BY <1>1 DEF IndexIn
  <2> HIDE DEF A, B
  <2> QED BY <2>1, <2>2, <2>3, <2>4, FS_Subset
<1>2. x < z \/ x = z \/ z < x
  BY x \in Int, z \in Int
<1> QED BY <1>1, <1>2

\* Every number below the number of members is the index of one.
LEMMA IndexSurjective ==
  ASSUME NEW S \in SUBSET Int, IsFiniteSet(S), NEW i \in 0..(Cardinality(S) - 1)
  PROVE  \E x \in S : IndexIn(S, x) = i
<1> DEFINE n == Cardinality(S)
           T == 0..(n - 1)
           f == [x \in S |-> IndexIn(S, x)]
<1>1. n \in Nat
  BY FS_CardinalityType
<1>2. f \in [S -> T]
  BY IndexRange
<1>3. \A x, z \in S : f[x] = f[z] => x = z
  BY IndexInjective
<1>4. IsFiniteSet(T) /\ Cardinality(T) = n
  <2>1. 0 \in Int /\ n - 1 \in Int
    BY <1>1
  <2>2. IsFiniteSet(T) /\ Cardinality(T) = IF 0 > n - 1 THEN 0 ELSE n - 1 - 0 + 1
    BY <2>1, FS_Interval
  <2> QED BY <1>1, <2>2
<1>5. f \in Injection(S, T)
  BY <1>2, <1>3, Zenon DEF Injection, IsInjective
<1> HIDE DEF f, T
<1>6. f \in Surjection(S, T)
  BY <1>4, <1>5, FS_Injection DEF n
<1>7. \E x \in S : f[x] = i
  BY <1>6 DEF Surjection, T, n
<1> QED BY <1>7 DEF f

\* The chunk of an element is one of the chunks, the one with the chunk index.
LEMMA ChunkValueIsChunk ==
  ASSUME NEW chunks \in SUBSET Int, IsFiniteSet(chunks), chunks # {},
         NEW elements \in SUBSET Int, IsFiniteSet(elements),
         NEW x \in elements
  PROVE  /\ ChunkValue(chunks, elements, x) \in chunks
         /\ IndexIn(chunks, ChunkValue(chunks, elements, x))
              = ChunkIndex(Cardinality(elements), Cardinality(chunks), IndexIn(elements, x))
<1> DEFINE n == Cardinality(elements)
           k == Cardinality(chunks)
           j == ChunkIndex(n, k, IndexIn(elements, x))
<1>1. n \in Nat /\ k \in Nat \ {0}
  BY FS_CardinalityType, FS_EmptySet
<1>2. IndexIn(elements, x) \in 0..(n - 1)
  BY IndexRange
<1>3. j \in 0..(k - 1)
  BY <1>1, <1>2, ChunkIndexRange
<1>4. ChunkValue(chunks, elements, x) = CHOOSE d \in chunks : IndexIn(chunks, d) = j
  BY DEF ChunkValue
<1> HIDE DEF j
<1>5. \E d \in chunks : IndexIn(chunks, d) = j
  BY <1>3, IndexSurjective
<1>6. ChunkValue(chunks, elements, x) \in chunks /\ IndexIn(chunks, ChunkValue(chunks, elements, x)) = j
  BY <1>4, <1>5, Zenon
<1> QED BY <1>6 DEF j

\* A rank that lacks an expert asks _ChunkUtils which holder gives it, a holder
\* asks which ranks it has to serve.  For any two lists of ranks the answers agree:
\* a holder c serves exactly those ranks that expect the expert from c.
THEOREM ChunkUtilsAgree ==
  ASSUME NEW chunks \in SUBSET Int, IsFiniteSet(chunks),
         NEW elements \in SUBSET Int, IsFiniteSet(elements),
         NEW x \in elements, NEW c \in chunks
  PROVE  ChunkValue(chunks, elements, x) = c <=> x \in ElementValues(chunks, elements, c)
<1> DEFINE n == Cardinality(elements)
           k == Cardinality(chunks)
           j == ChunkIndex(n, k, IndexIn(elements, x))
<1>1. n \in Nat /\ k \in Nat \ {0}
  BY FS_CardinalityType, FS_EmptySet
<1>2. IndexIn(elements, x) \in 0..(n - 1) /\ IndexIn(chunks, c) \in 0..(k - 1)
  BY IndexRange
<1>3. x \in ElementValues(chunks, elements, c) <=> j = IndexIn(chunks, c)
  <2>1. j = IndexIn(chunks, c) <=> /\ SliceStart(n, k, IndexIn(chunks, c)) <= IndexIn(elements, x)
                                   /\ IndexIn(elements, x) < SliceEnd(n, k, IndexIn(chunks, c))
    BY <1>1, <1>2, SlicesAreChunks
  <2> QED BY <2>1, Zenon DEF ElementValues
<1>4. ChunkValue(chunks, elements, x) \in chunks /\ IndexIn(chunks, ChunkValue(chunks, elements, x)) = j
  BY ChunkValueIsChunk
<1> HIDE DEF j
<1>5. ASSUME j = IndexIn(chunks, c)
      PROVE  ChunkValue(chunks, elements, x) = c
  <2> DEFINE v == ChunkValue(chunks, elements, x)
  <2>1. v \in chunks /\ IndexIn(chunks, v) = IndexIn(chunks, c)
    BY <1>4, <1>5, Zenon
  <2> HIDE DEF v
  <2>2. v = c
    BY <2>1, IndexInjective
  <2> QED BY <2>2 DEF v
<1>6. ASSUME ChunkValue(chunks, elements, x) = c
      PROVE  j = IndexIn(chunks, c)
  BY <1>4, <1>6, Zenon
<1> QED BY <1>3, <1>5, <1>6, Zenon
-----------------------------------------------------------------------------
(* The batches of two ranks *)

\* The ops of a batch that move expert e from or to a given peer.
OpsOf(batch, kind, e, peer) == {o \in batch : o.kind = kind /\ o.expert = e /\ o.peer = peer}

\* The constants are numbers, and so are the bounds of the ranges.
LEMMA Topology ==
  /\ NumNodes \in Nat \ {0} /\ GpusPerNode \in Nat \ {0} /\ NumLocal \in Nat \ {0}
  /\ NumGpus \in Nat /\ NumPhysical \in Nat /\ NumPhysical = NumGpus * NumLocal
  /\ NumLogical \in Nat \ {0}
<1>1. /\ NumNodes \in Nat \ {0} /\ GpusPerNode \in Nat \ {0} /\ NumLocal \in Nat \ {0}
      /\ NumLogical \in Nat \ {0}
  BY TopologyAssumption
<1>2. NumGpus \in Nat
  BY <1>1 DEF NumGpus
<1> QED BY <1>1, <1>2 DEF NumPhysical

\* A physical expert is on a rank.
LEMMA GpuOfRange ==
  ASSUME NEW p \in Physical
  PROVE  GpuOf(p) \in Gpus
<1> DEFINE q == p \div NumLocal
<1>1. p \in Nat /\ p < NumGpus * NumLocal
  BY Topology DEF Physical, Upto
<1>2. q \in Nat /\ q * NumLocal <= p
  BY <1>1, Topology, DivMod, Quotient
<1> HIDE DEF q
<1>3. ASSUME NumGpus <= q PROVE FALSE
  <2>1. NumGpus * NumLocal <= q * NumLocal
    BY <1>2, <1>3, Topology, MulMono
  <2>2. q * NumLocal \in Nat /\ NumGpus * NumLocal \in Nat
    BY <1>2, Topology
  <2> QED BY <1>1, <1>2, <2>1, <2>2
<1>4. q \in 0..(NumGpus - 1)
  BY <1>2, <1>3, Topology
<1> QED BY <1>4 DEF q, GpuOf, Gpus, Upto

\* Ranks and slots are finite sets of integers.
LEMMA FiniteRanges == /\ IsFiniteSet(Gpus) /\ Gpus \in SUBSET Int
                      /\ IsFiniteSet(Physical) /\ Physical \in SUBSET Int
<1>1. 0 \in Int /\ NumGpus - 1 \in Int /\ NumPhysical - 1 \in Int
  BY Topology
<1>2. IsFiniteSet(0..(NumGpus - 1)) /\ IsFiniteSet(0..(NumPhysical - 1))
  BY <1>1, FS_Interval
<1> QED BY <1>1, <1>2 DEF Gpus, Physical, Upto

\* A set of slots that is not empty has a lowest one.
LEMMA LowestSlot ==
  ASSUME NEW S \in SUBSET Physical, S # {}
  PROVE  \E p \in S : \A q \in S : ~(q < p)
<1>1. IsFiniteSet(S) /\ S \in SUBSET Int
  BY FiniteRanges, FS_Subset
<1>2. Cardinality(S) \in Nat \ {0}
  BY <1>1, FS_CardinalityType, FS_EmptySet
<1>3. 0 \in 0..(Cardinality(S) - 1)
  BY <1>2
<1>4. PICK p \in S : IndexIn(S, p) = 0
  BY <1>1, <1>3, IndexSurjective
<1>5. {q \in S : q < p} = {}
  <2>1. IsFiniteSet({q \in S : q < p})
    BY <1>1, FS_Subset
  <2> QED BY <1>4, <2>1, FS_EmptySet DEF IndexIn
<1> QED BY <1>5

\* Who holds an expert, and who gets it, are ranks.
LEMMA HoldersAreRanks ==
  ASSUME NEW m \in Maps, NEW e
  PROVE  Holders(m, e) \in SUBSET Gpus
BY GpuOfRange DEF Holders

\* A rank holds an expert if one of its slots does.
LEMMA HolderSlot ==
  ASSUME NEW m \in Maps, NEW e, NEW g \in Gpus
  PROVE  g \in Holders(m, e) <=> \E p \in LocalOf(g) : m[p] = e
BY DEF Holders, LocalOf

\* _compute_comm_info gives the two ends the same answer: a rank g that lacks an
\* expert fetches it from the holder h exactly if h counts g among the ranks it
\* has to serve, within the node as well as across nodes.
THEOREM SourcesAndTargetsAgree ==
  ASSUME NEW old \in Maps, NEW new \in Maps, NEW e \in Logical,
         NEW g \in Targets(old, new, e), NEW h \in Holders(old, e)
  PROVE  SourceOf(old, new, e, g) = h <=> g \in TargetsOf(old, new, e, h)
<1> DEFINE H  == Holders(old, e)
           F  == FarTargets(old, new, e)
           NS == NearSources(old, e, g)
           NT == NearTargets(old, new, e, g)
<1>1. H \in SUBSET Gpus /\ Targets(old, new, e) \in SUBSET Gpus
  BY HoldersAreRanks DEF Targets
<1>2. NS \in SUBSET H /\ NT \in SUBSET Targets(old, new, e) /\ F \in SUBSET Targets(old, new, e)
  BY DEF NearSources, NearTargets, FarTargets
<1>3. /\ H \in SUBSET Int /\ IsFiniteSet(H) /\ F \in SUBSET Int /\ IsFiniteSet(F)
      /\ NS \in SUBSET Int /\ IsFiniteSet(NS) /\ NT \in SUBSET Int /\ IsFiniteSet(NT)
  <2>1. ASSUME NEW S \in SUBSET Gpus PROVE S \in SUBSET Int /\ IsFiniteSet(S)
    BY FiniteRanges, FS_Subset
  <2>2. H \in SUBSET Gpus /\ F \in SUBSET Gpus /\ NS \in SUBSET Gpus /\ NT \in SUBSET Gpus
    BY <1>1, <1>2
  <2> QED BY <2>1, <2>2
<1>4. g \in Gpus /\ h \in Gpus
  BY <1>1
<1>5. CASE NS = {}
  <2>1. NT = {} /\ g \in F
    BY <1>5 DEF NearTargets, FarTargets
  <2>2. SourceOf(old, new, e, g) = ChunkValue(H, F, g)
    BY <2>1 DEF SourceOf
  <2>3. g \notin NearTargets(old, new, e, h)
    BY <1>4, <1>5 DEF NearTargets, NearSources, SameNode
  <2>4. g \in TargetsOf(old, new, e, h) <=> g \in ElementValues(H, F, h)
    BY <2>3 DEF TargetsOf, ElementValues
  <2>5. ChunkValue(H, F, g) = h <=> g \in ElementValues(H, F, h)
    BY <1>3, <2>1, ChunkUtilsAgree
  <2> QED BY <2>2, <2>4, <2>5, Zenon
<1>6. CASE NS # {}
  <2>1. g \in NT /\ g \notin F
    BY <1>4, <1>6 DEF NearTargets, FarTargets, SameNode
  <2>2. SourceOf(old, new, e, g) = ChunkValue(NS, NT, g)
    BY <2>1 DEF SourceOf
  <2>3. g \in TargetsOf(old, new, e, h)
          <=> g \in ElementValues(NearSources(old, e, h), NearTargets(old, new, e, h), h)
    BY <2>1 DEF TargetsOf, ElementValues
  <2>4. CASE NodeOf(h) = NodeOf(g)
    <3>1. h \in NS
      BY <1>4, <2>4 DEF NearSources, SameNode
    <3>2. NearSources(old, e, h) = NS /\ NearTargets(old, new, e, h) = NT
      BY <2>4 DEF NearSources, NearTargets, SameNode
    <3>3. ChunkValue(NS, NT, g) = h <=> g \in ElementValues(NS, NT, h)
      BY <1>3, <2>1, <3>1, ChunkUtilsAgree
    <3> QED BY <2>2, <2>3, <3>2, <3>3, Zenon
  <2>5. CASE NodeOf(h) # NodeOf(g)
    <3>1. g \notin NearTargets(old, new, e, h) /\ h \notin NS
      BY <1>4, <2>5 DEF NearTargets, NearSources, SameNode
    <3>2. ChunkValue(NS, NT, g) \in NS
      BY <1>3, <1>6, <2>1, ChunkValueIsChunk
    <3> QED BY <2>2, <2>3, <3>1, <3>2 DEF ElementValues
  <2> QED BY <2>4, <2>5
<1> QED BY <1>5, <1>6

\* The ranks that fetch an expert are those that get it and did not hold it, each
\* into one slot.
LEMMA FetchSlot ==
  ASSUME NEW old \in Maps, NEW new \in Maps, NEW e \in Logical, NEW g \in Gpus
  PROVE  /\ g \in Targets(old, new, e) <=> \E p \in Slots(g, old, new, "fetch") : new[p] = e
         /\ \A p, q \in Slots(g, old, new, "fetch") : new[p] = e /\ new[q] = e => p = q
<1>1. ASSUME NEW p \in LocalOf(g), RecvCase(old, new, g, p) = "fetch"
      PROVE  /\ \A q \in LocalOf(g) : old[q] # new[p]
             /\ \A q \in LocalOf(g) : q < p => new[q] # new[p]
  BY <1>1 DEF RecvCase
<1>2. ASSUME NEW p \in LocalOf(g), new[p] = e, \A q \in LocalOf(g) : old[q] # e,
             \A q \in LocalOf(g) : q < p => new[q] # e
      PROVE  RecvCase(old, new, g, p) = "fetch"
  BY <1>2 DEF RecvCase
<1>3. LocalOf(g) \in SUBSET Physical
  BY DEF LocalOf
<1>4. ASSUME g \in Targets(old, new, e)
      PROVE  \E p \in Slots(g, old, new, "fetch") : new[p] = e
  <2> DEFINE S == {p \in LocalOf(g) : new[p] = e}
  <2>1. S # {} /\ \A q \in LocalOf(g) : old[q] # e
    BY <1>4, HolderSlot DEF Targets
  <2>2. S \in SUBSET Physical
    BY <1>3
  <2>3. PICK p \in S : \A q \in S : ~(q < p)
    BY <2>1, <2>2, LowestSlot
  <2>4. RecvCase(old, new, g, p) = "fetch"
    BY <1>2, <2>1, <2>3
  <2> QED BY <2>3, <2>4 DEF Slots
<1>5. ASSUME NEW p \in Slots(g, old, new, "fetch"), new[p] = e
      PROVE  g \in Targets(old, new, e)
  <2>1. p \in LocalOf(g) /\ \A q \in LocalOf(g) : old[q] # e
    BY <1>1, <1>5 DEF Slots
  <2> QED BY <1>5, <2>1, HolderSlot DEF Targets
<1>6. ASSUME NEW p \in Slots(g, old, new, "fetch"), NEW q \in Slots(g, old, new, "fetch"),
             new[p] = e, new[q] = e
      PROVE  p = q
  <2>1. p \in LocalOf(g) /\ q \in LocalOf(g) /\ ~(q < p) /\ ~(p < q)
    BY <1>1, <1>6 DEF Slots
  <2>2. p \in Int /\ q \in Int
    BY <1>3, <2>1, FiniteRanges
  <2> QED BY <2>1, <2>2
<1> QED BY <1>4, <1>5, <1>6

\* A rank sends an expert that it holds from one slot.
LEMMA SendSlot ==
  ASSUME NEW old \in Maps, NEW e \in Logical, NEW h \in Gpus
  PROVE  LET first == {p \in LocalOf(h) : \A q \in LocalOf(h) : q < p => old[q] # old[p]}
         IN  /\ h \in Holders(old, e) <=> \E p \in first : old[p] = e
             /\ \A p, q \in first : old[p] = e /\ old[q] = e => p = q
<1> DEFINE first == {p \in LocalOf(h) : \A q \in LocalOf(h) : q < p => old[q] # old[p]}
<1>1. LocalOf(h) \in SUBSET Physical
  BY DEF LocalOf
<1>2. ASSUME h \in Holders(old, e)
      PROVE  \E p \in first : old[p] = e
  <2> DEFINE S == {p \in LocalOf(h) : old[p] = e}
  <2>1. S # {} /\ S \in SUBSET Physical
    BY <1>1, <1>2, HolderSlot
  <2>2. PICK p \in S : \A q \in S : ~(q < p)
    BY <2>1, LowestSlot
  <2> QED BY <2>2
<1>3. ASSUME NEW p \in first, old[p] = e
      PROVE  h \in Holders(old, e)
  BY <1>3, HolderSlot
<1>4. ASSUME NEW p \in first, NEW q \in first, old[p] = e, old[q] = e
      PROVE  p = q
  <2>1. p \in Int /\ q \in Int /\ ~(q < p) /\ ~(p < q)
    BY <1>1, <1>4, FiniteRanges
  <2> QED BY <2>1
<1> QED BY <1>2, <1>3, <1>4

\* An expert that some rank holds is fetched from a rank that holds it.
LEMMA SourceIsHolder ==
  ASSUME NEW old \in Maps, NEW new \in Maps, NEW e \in Logical,
         NEW g \in Targets(old, new, e), Holders(old, e) # {}
  PROVE  SourceOf(old, new, e, g) \in Holders(old, e)
<1> DEFINE H  == Holders(old, e)
           F  == FarTargets(old, new, e)
           NS == NearSources(old, e, g)
           NT == NearTargets(old, new, e, g)
<1>1. H \in SUBSET Gpus /\ Targets(old, new, e) \in SUBSET Gpus
  BY HoldersAreRanks DEF Targets
<1>2. NS \in SUBSET H /\ NT \in SUBSET Targets(old, new, e) /\ F \in SUBSET Targets(old, new, e)
  BY DEF NearSources, NearTargets, FarTargets
<1>3. ASSUME NEW S \in SUBSET Gpus PROVE S \in SUBSET Int /\ IsFiniteSet(S)
  BY FiniteRanges, FS_Subset
<1>4. CASE g \in NT
  <2>1. NS # {}
    BY <1>4 DEF NearTargets
  <2>2. ChunkValue(NS, NT, g) \in NS
    <3>1. NS \in SUBSET Gpus /\ NT \in SUBSET Gpus
      BY <1>1, <1>2
    <3>2. NS \in SUBSET Int /\ IsFiniteSet(NS) /\ NT \in SUBSET Int /\ IsFiniteSet(NT)
      BY <1>3, <3>1
    <3> QED BY <1>4, <2>1, <3>2, ChunkValueIsChunk
  <2> QED BY <1>2, <1>4, <2>2 DEF SourceOf
<1>5. CASE g \notin NT
  <2>1. g \in F
    BY <1>1, <1>5 DEF NearTargets, FarTargets, SameNode
  <2>2. ChunkValue(H, F, g) \in H
    <3>1. H \in SUBSET Gpus /\ F \in SUBSET Gpus
      BY <1>1, <1>2
    <3>2. H \in SUBSET Int /\ IsFiniteSet(H) /\ F \in SUBSET Int /\ IsFiniteSet(F)
      BY <1>3, <3>1
    <3> QED BY <2>1, <3>2, ChunkValueIsChunk
  <2> QED BY <1>5, <2>2 DEF SourceOf
<1> QED BY <1>4, <1>5

\* The batches of two ranks fit together: rank g posts a receive of an expert from
\* rank h exactly if h posts a send of it to g, and each posts it once, so that no
\* request of batch_isend_irecv waits for an op that its peer never posts.  It
\* takes that every expert of the old placement is held by some rank.
THEOREM BatchesMatch ==
  ASSUME NEW old \in Maps, NEW new \in Maps, NEW e \in Logical,
         NEW g \in Gpus, NEW h \in Gpus, Holders(old, e) # {}
  PROVE  LET received == OpsOf(Batch(g, old, new), "irecv", e, h)
             sent     == OpsOf(Batch(h, old, new), "isend", e, g)
         IN  /\ received = {} <=> sent = {}
             /\ \A o, i \in received : o = i
             /\ \A o, i \in sent : o = i
<1> DEFINE Recv(p)    == [kind |-> "irecv", expert |-> new[p], slot |-> p,
                          peer |-> SourceOf(old, new, new[p], g)]
           Send(p, r) == [kind |-> "isend", expert |-> old[p], slot |-> p, peer |-> r]
           first      == {p \in LocalOf(h) : \A q \in LocalOf(h) : q < p => old[q] # old[p]}
           received   == OpsOf(Batch(g, old, new), "irecv", e, h)
           sent       == OpsOf(Batch(h, old, new), "isend", e, g)
<1>1. received = {Recv(p) : p \in {q \in Slots(g, old, new, "fetch") :
                                     new[q] = e /\ SourceOf(old, new, e, g) = h}}
  BY DEF OpsOf, Batch
<1>2. sent = {Send(p, g) : p \in {q \in first : old[q] = e /\ g \in TargetsOf(old, new, e, h)}}
  BY DEF OpsOf, Batch
<1>3. /\ h \in Holders(old, e) <=> \E p \in first : old[p] = e
      /\ \A p, q \in first : old[p] = e /\ old[q] = e => p = q
  BY SendSlot
<1> HIDE DEF first
<1>4. g \in TargetsOf(old, new, e, h) => g \in Targets(old, new, e)
  BY DEF TargetsOf, ElementValues, NearTargets, FarTargets
<1>5. received # {} <=> g \in Targets(old, new, e) /\ SourceOf(old, new, e, g) = h
  <2>1. g \in Targets(old, new, e) <=> \E p \in Slots(g, old, new, "fetch") : new[p] = e
    BY FetchSlot
  <2>2. received # {} <=> \E p \in Slots(g, old, new, "fetch") : new[p] = e /\ SourceOf(old, new, e, g) = h
    BY <1>1, Zenon
  <2> QED BY <2>1, <2>2, Zenon
<1>6. sent # {} <=> h \in Holders(old, e) /\ g \in TargetsOf(old, new, e, h)
  BY <1>2, <1>3
<1>7. received = {} <=> sent = {}
  <2>1. ASSUME g \in Targets(old, new, e), SourceOf(old, new, e, g) = h
        PROVE  h \in Holders(old, e) /\ g \in TargetsOf(old, new, e, h)
    BY <2>1, SourceIsHolder, SourcesAndTargetsAgree
  <2>2. ASSUME h \in Holders(old, e), g \in TargetsOf(old, new, e, h)
        PROVE  g \in Targets(old, new, e) /\ SourceOf(old, new, e, g) = h
    BY <1>4, <2>2, SourcesAndTargetsAgree
  <2> QED BY <1>5, <1>6, <2>1, <2>2
<1>8. \A o, i \in received : o = i
  BY <1>1, FetchSlot
<1>9. \A o, i \in sent : o = i
  BY <1>2, <1>3
<1> QED BY <1>7, <1>8, <1>9
=============================================================================
