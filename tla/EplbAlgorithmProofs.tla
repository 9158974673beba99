------------------------- MODULE EplbAlgorithmProofs -------------------------
(***************************************************************************)
(* The placement algorithm, for every topology and every load.             *)
(*                                                                         *)
(* balanced_packing puts as many items into each pack, one for every rank  *)
(* of it.  replicate_experts gives every slot to one replica of one        *)
(* expert, and no expert gets a replica while another has more load per    *)
(* replica (Greedy).  So the slots of a node are a permutation of the      *)
(* replicas of its experts, the slots of all nodes those of all experts    *)
(* (Numbered), every group of experts is within one node (NodeWise), and   *)
(* no other way to share out the slots of a node makes its most loaded     *)
(* replica lighter (GreedyOptimal).                                        *)
(*                                                                         *)
(* The loops of the algorithm are recursive functions; what holds after n  *)
(* steps is shown by induction, from a least counterexample (Induct).      *)
(***************************************************************************)
EXTENDS EplbAlgorithm, FiniteSetTheorems, TLAPS

(* Numbers *)

\* Every set of natural numbers that is not empty has a least one.
LEMMA Least ==
  ASSUME NEW T \in SUBSET Nat, T # {}
  PROVE  \E x \in T : \A y \in T : x <= y
<1>1. PICK x \in T : \A y \in T : ~(<<y, x>> \in OpToRel(<, Nat))
  BY NatLessThanWellFounded, WFMin
<1>2. ASSUME NEW y \in T PROVE x <= y
  <2>1. ~(<<y, x>> \in OpToRel(<, Nat))
    BY <1>1
  <2>2. ~(y < x)
    BY <2>1, x \in Nat, y \in Nat DEF OpToRel
  <2> QED BY <2>2
<1> QED BY <1>2

\* Induction: a set with 0 that has the successors of its numbers has all numbers.
LEMMA Induct ==
  ASSUME NEW S, 0 \in S, \A n \in Nat : n \in S => n + 1 \in S
  PROVE  Nat \subseteq S
<1>1. SUFFICES ASSUME Nat \ S # {} PROVE FALSE
  OBVIOUS
<1>2. PICK x \in Nat \ S : \A y \in Nat \ S : x <= y
  BY <1>1, Least
<1>3. x # 0 /\ x - 1 \in Nat /\ ~(x <= x - 1) /\ x - 1 + 1 = x
  BY <1>2
<1>4. x - 1 \in S
  BY <1>2, <1>3
<1> QED BY <1>2, <1>3, <1>4

\* Induction up to a bound.
LEMMA InductUpto ==
  ASSUME NEW N \in Nat, NEW S, 0 \in S, \A n \in Nat : n < N /\ n \in S => n + 1 \in S
  PROVE  0..N \subseteq S
<1> DEFINE T == {n \in Nat : n <= N => n \in S}
<1>1. 0 \in T
  OBVIOUS
<1>2. ASSUME NEW n \in Nat, n \in T PROVE n + 1 \in T
  BY <1>2
<1>3. Nat \subseteq T
  <2> HIDE DEF T
  <2> QED BY <1>1, <1>2, Induct
<1> QED BY <1>3

\* Min of FiniteSetsExt is the least number of a set.
LEMMA MinNat ==
  ASSUME NEW S \in SUBSET Nat, S # {}
  PROVE  Min(S) \in S /\ \A q \in S : Min(S) <= q
<1>1. \E x \in S : \A y \in S : x =< y
  BY Least
<1> QED BY <1>1, Zenon DEF Min

\* Max is the largest number of a set with a bound.
LEMMA MaxNat ==
  ASSUME NEW S \in SUBSET Nat, S # {}, NEW b \in Nat, \A q \in S : q <= b
  PROVE  Max(S) \in S /\ \A q \in S : q <= Max(S)
<1> DEFINE T == {b - q : q \in S}
<1>1. T \in SUBSET Nat /\ T # {}
  <2>1. \A q \in S : b - q \in Nat
    OBVIOUS
  <2> QED BY <2>1
<1>2. PICK t \in T : \A y \in T : t <= y
  <2> HIDE DEF T
  <2> QED BY <1>1, Least
<1>3. PICK x \in S : t = b - x
  BY <1>2
<1>4. \A y \in S : x >= y
  <2>1. ASSUME NEW y \in S PROVE x >= y
    <3>1. b - x <= b - y
      BY <1>2, <1>3
    <3> QED BY <3>1, x \in Nat, y \in Nat
  <2> QED BY <2>1
<1>5. \E z \in S : \A y \in S : z >= y
  BY <1>4
<1>6. Max(S) \in S /\ \A y \in S : Max(S) >= y
  BY <1>5, Zenon DEF Max
<1> DEFINE m == Max(S)
<1> HIDE DEF m
<1>7. m \in S /\ \A y \in S : m >= y
  BY <1>6 DEF m
<1>8. m \in S /\ \A y \in S : y <= m
  BY <1>7
<1> QED BY <1>8 DEF m

\* Division with remainder.
LEMMA DivMod ==
  ASSUME NEW a \in Nat, NEW b \in Nat \ {0}
  PROVE  /\ a \div b \in Nat
         /\ a % b \in Nat
         /\ a = b * (a \div b) + (a % b)
         /\ a % b < b
OBVIOUS

\* A product does not shrink when a factor grows.
LEMMA MulMono ==
  ASSUME NEW a \in Nat, NEW b \in Nat, NEW m \in Nat, a <= b
  PROVE  a * m <= b * m
OBVIOUS

\* A product with one more.
LEMMA MulSucc ==
  ASSUME NEW a \in Nat, NEW m \in Nat
  PROVE  /\ a * m \in Nat /\ (a + 1) * m = a * m + m
         /\ a * (m + 1) = a * m + a
OBVIOUS

\* The quotient is the one number whose multiple is below a by less than b.
LEMMA Quotient ==
  ASSUME NEW a \in Nat, NEW b \in Nat \ {0}, NEW q \in Nat
  PROVE  (a \div b = q) <=> (q * b <= a /\ a < q * b + b)
<1> DEFINE d == a \div b
<1>1. d \in Nat /\ d * b <= a /\ a < d * b + b
  <2>1. b * d = d * b /\ d * b \in Nat
    BY DivMod
  <2> QED BY <2>1, DivMod
<1> HIDE DEF d
<1>2. q * b \in Nat /\ d * b \in Nat
  BY <1>1
<1>3. ASSUME d < q PROVE ~(q * b <= a)
  <2>1. (d + 1) * b <= q * b
    BY <1>1, <1>3, MulMono
  <2> QED BY <1>1, <1>2, <2>1, MulSucc
<1>4. ASSUME q < d PROVE ~(a < q * b + b)
  <2>1. (q + 1) * b <= d * b
    BY <1>1, <1>4, MulMono
  <2> QED BY <1>1, <1>2, <2>1, MulSucc
<1> QED BY <1>1, <1>3, <1>4 DEF d

\* p * m + r is below k * m, and p and r are its quotient and its remainder.
LEMMA Digits ==
  ASSUME NEW k \in Nat, NEW m \in Nat \ {0}, NEW p \in Nat, NEW r \in Nat, r < m
  PROVE  /\ p * m + r \in Nat
         /\ (p * m + r) \div m = p /\ (p * m + r) % m = r
         /\ p < k => p * m + r < k * m
<1> DEFINE a == p * m
           x == a + r
<1>1. a \in Nat
  OBVIOUS
<1>2. x \in Nat /\ a <= x /\ x < a + m
  BY <1>1
<1>3. x \div m = p
  <2> HIDE DEF x
  <2> QED BY <1>2, Quotient
<1>4. x % m = r
  <2>1. x \in Nat /\ x = m * (x \div m) + (x % m) /\ x % m \in Nat
    BY <1>2, DivMod
  <2>2. m * (x \div m) = a
    BY <1>3
  <2> DEFINE y == x % m
             z == m * (x \div m)
  <2>3. x = z + y /\ y \in Nat /\ z = a
    BY <2>1, <2>2
  <2>4. x = a + r
    OBVIOUS
  <2> HIDE DEF x, y, z, a
  <2>5. y = r
    BY <1>1, <2>3, <2>4
  <2> QED BY <2>5 DEF y
<1>5. ASSUME p < k PROVE x < k * m
  <2>1. (p + 1) * m <= k * m
    BY <1>5, MulMono
  <2>2. (p + 1) * m = a + m
    BY MulSucc
  <2>3. k * m \in Nat
    OBVIOUS
  <2> QED BY <1>1, <1>2, <2>1, <2>2, <2>3
<1> QED BY <1>2, <1>3, <1>4, <1>5

\* Quotient and remainder of a number below k * m.
LEMMA DigitsOf ==
  ASSUME NEW k \in Nat, NEW m \in Nat \ {0}, NEW x \in Nat, x < k * m
  PROVE  /\ x \div m \in Nat /\ x \div m < k
         /\ x % m \in Nat /\ x % m < m
         /\ x = (x \div m) * m + (x % m)
<1> DEFINE q == x \div m
           r == x % m
<1>1. q \in Nat /\ r \in Nat /\ r < m /\ x = m * q + r
  BY DivMod
<1>2. m * q = q * m
  BY <1>1
<1>3. ASSUME k <= q PROVE FALSE
  <2>1. k * m <= q * m
    BY <1>1, <1>3, MulMono
  <2>2. k * m \in Nat /\ q * m \in Nat
    BY <1>1
  <2> HIDE DEF q, r
  <2> QED BY <1>1, <1>2, <2>1, <2>2
<1> HIDE DEF q, r
<1>4. q < k
  BY <1>1, <1>3
<1> QED BY <1>1, <1>2, <1>4 DEF q, r

\* A number that b divides.
LEMMA Divides ==
  ASSUME NEW a \in Nat \ {0}, NEW b \in Nat \ {0}, a % b = 0
  PROVE  a \div b \in Nat \ {0} /\ a = (a \div b) * b
<1>1. a \div b \in Nat /\ a = b * (a \div b) + (a % b)
  BY DivMod
<1> DEFINE q == a \div b
<1>2. q \in Nat /\ a = b * q + 0
  BY <1>1
<1> HIDE DEF q
<1>3. b * q = q * b /\ q * b \in Nat
  BY <1>2
<1>4. q # 0
  BY <1>2
<1>5. q \in Nat \ {0} /\ a = q * b
  BY <1>2, <1>3, <1>4
<1> QED BY <1>5 DEF q

\* A factor divides a product.
LEMMA DivProduct ==
  ASSUME NEW a \in Nat, NEW b \in Nat \ {0}
  PROVE  (a * b) \div b = a
<1>1. a * b \in Nat /\ a * b <= a * b /\ a * b < a * b + b
  OBVIOUS
<1> DEFINE c == a * b
<1>2. c \in Nat /\ a * b <= c /\ c < a * b + b
  BY <1>1
<1> HIDE DEF c
<1>3. c \div b = a
  BY <1>2, Quotient
<1> QED BY <1>3 DEF c

-----------------------------------------------------------------------------
(* Ranges and their permutations *)

\* Upto(n) has the n numbers below n.
LEMMA UptoFacts ==
  ASSUME NEW n \in Nat
  PROVE  /\ Upto(n) \in SUBSET Nat /\ IsFiniteSet(Upto(n)) /\ Cardinality(Upto(n)) = n
         /\ \A i : i \in Upto(n) <=> i \in Nat /\ i < n
<1>1. \A i : i \in Upto(n) <=> i \in Nat /\ i < n
  BY DEF Upto
<1>2. 0 \in Int /\ n - 1 \in Int
  OBVIOUS
<1>3. IsFiniteSet(0..(n - 1)) /\ Cardinality(0..(n - 1)) = IF 0 > n - 1 THEN 0 ELSE n - 1 - 0 + 1
  BY <1>2, FS_Interval
<1>4. Cardinality(0..(n - 1)) = n
  BY <1>3
<1> QED BY <1>1, <1>3, <1>4 DEF Upto

\* An injective map of Upto(n) to itself reaches every number.
LEMMA InjectiveIsOnto ==
  ASSUME NEW n \in Nat, NEW f \in [Upto(n) -> Upto(n)],
         \A x, z \in Upto(n) : f[x] = f[z] => x = z, NEW t \in Upto(n)
  PROVE  \E s \in Upto(n) : f[s] = t
<1>1. f \in Injection(Upto(n), Upto(n))
  BY Zenon DEF Injection, IsInjective
<1>2. f \in Surjection(Upto(n), Upto(n))
  BY <1>1, UptoFacts, FS_Injection
<1> QED BY <1>2, Zenon DEF Surjection

\* The inverse of such a map.
LEMMA InverseOf ==
  ASSUME NEW n \in Nat, NEW f \in [Upto(n) -> Upto(n)],
         \A x, z \in Upto(n) : f[x] = f[z] => x = z
  PROVE  /\ AntiFunction(f) \in [Upto(n) -> Upto(n)]
         /\ \A t \in Upto(n) : f[AntiFunction(f)[t]] = t /\ AntiFunction(f)[f[t]] = t
<1> DEFINE N == Upto(n)
<1>1. \A t \in N : \E s \in N : f[s] = t
  BY InjectiveIsOnto
<1> HIDE DEF N
<1>2. f \in [N -> N] /\ \A x, z \in N : f[x] = f[z] => x = z
  BY DEF N
<1>3. DOMAIN f = N /\ Range(f) = N
  BY <1>1, <1>2 DEF Range
<1> DEFINE g == AntiFunction(f)
           h(t) == CHOOSE s \in DOMAIN f : t \in Range(f) => f[s] = t
<1>4. g = [t \in Range(f) |-> h(t)]
  BY Zenon DEF AntiFunction, Inverse
<1>5. ASSUME NEW t \in N PROVE h(t) \in N /\ f[h(t)] = t
  <2>1. \E s \in DOMAIN f : t \in Range(f) => f[s] = t
    BY <1>1, <1>3
  <2>2. h(t) \in DOMAIN f /\ (t \in Range(f) => f[h(t)] = t)
    BY <2>1, Zenon
  <2> QED BY <1>3, <2>2
<1>6. g = [t \in N |-> h(t)]
  BY <1>3, <1>4
<1> HIDE DEF g, h
<1>7. g \in [N -> N] /\ \A t \in N : f[g[t]] = t
  BY <1>5, <1>6
<1>8. \A t \in N : g[f[t]] = t
  <2>1. ASSUME NEW t \in N PROVE g[f[t]] = t
    <3>1. f[t] \in N
      BY <1>2
    <3>2. f[g[f[t]]] = f[t] /\ g[f[t]] \in N
      BY <1>7, <3>1
    <3> QED BY <1>2, <3>2
  <2> QED BY <2>1
<1> QED BY <1>7, <1>8 DEF g, N

\* Two digits make one number, injectively.
LEMMA DigitsEqual ==
  ASSUME NEW m \in Nat \ {0}, NEW p \in Nat, NEW q \in Nat, NEW r \in Nat, NEW s \in Nat,
         r < m, s < m, p * m + r = q * m + s
  PROVE  p = q /\ r = s
<1> DEFINE x == p * m + r
           y == q * m + s
<1>1. x \div m = p /\ x % m = r /\ y \div m = q /\ y % m = s
  BY Digits
<1>2. x = y
  OBVIOUS
<1> HIDE DEF x, y
<1> QED BY <1>1, <1>2

(* The order of the items *)

\* The items before i: fewer than all, and i is not one of them.
LEMMA BeforeSmall ==
  ASSUME NEW n \in Nat, NEW w \in [Upto(n) -> Nat], NEW i \in Upto(n)
  PROVE  /\ IsFiniteSet(Before(w, i)) /\ Before(w, i) \in SUBSET Upto(n)
         /\ Cardinality(Before(w, i)) \in Upto(n)
<1>1. Before(w, i) \in SUBSET Upto(n) /\ i \notin Before(w, i)
  <2>1. i \in Nat /\ w[i] \in Nat
    BY UptoFacts
  <2> QED BY <2>1 DEF Before
<1>2. Before(w, i) # Upto(n)
  BY <1>1
<1>3. IsFiniteSet(Upto(n)) /\ Cardinality(Upto(n)) = n
  BY UptoFacts
<1> DEFINE B == Before(w, i)
<1> HIDE DEF B
<1>4. B \in SUBSET Upto(n) /\ B # Upto(n)
  BY <1>1, <1>2 DEF B
<1>5. IsFiniteSet(B) /\ Cardinality(B) <= n /\ Cardinality(B) # n
  BY <1>3, <1>4, FS_Subset
<1>6. Cardinality(B) \in Nat
  BY <1>5, FS_CardinalityType
<1>7. Cardinality(B) \in Upto(n)
  BY <1>5, <1>6, UptoFacts
<1> QED BY <1>4, <1>5, <1>7 DEF B

\* An item that comes before another one has fewer items before it.
LEMMA BeforeLess ==
  ASSUME NEW n \in Nat, NEW w \in [Upto(n) -> Nat], NEW i \in Upto(n), NEW k \in Upto(n),
         i \in Before(w, k)
  PROVE  Cardinality(Before(w, i)) # Cardinality(Before(w, k))
<1>1. Before(w, i) \in SUBSET Before(w, k)
  <2>1. ASSUME NEW j \in Before(w, i) PROVE j \in Before(w, k)
    <3>1. j \in Upto(n) /\ j \in Nat /\ i \in Nat /\ k \in Nat
      BY BeforeSmall, UptoFacts
    <3>2. w[j] \in Nat /\ w[i] \in Nat /\ w[k] \in Nat
      BY <3>1
    <3>3. w[j] > w[i] \/ (w[j] = w[i] /\ j < i)
      BY <2>1 DEF Before
    <3>4. w[i] > w[k] \/ (w[i] = w[k] /\ i < k)
      BY DEF Before
    <3>5. w[j] > w[k] \/ (w[j] = w[k] /\ j < k)
      BY <3>1, <3>2, <3>3, <3>4
    <3> QED BY <3>1, <3>5 DEF Before
  <2> QED BY <2>1
<1>2. i \notin Before(w, i)
  <2>1. i \in Nat /\ w[i] \in Nat
    BY UptoFacts
  <2> QED BY <2>1 DEF Before
<1>3. IsFiniteSet(Before(w, k))
  BY BeforeSmall
<1>4. Cardinality(Before(w, k)) = Cardinality(Before(w, i)) => Before(w, k) = Before(w, i)
  BY <1>1, <1>3, FS_Subset
<1> QED BY <1>2, <1>4

\* The sorted indices are all items, each once.
LEMMA DescendingPermutes ==
  ASSUME NEW n \in Nat, NEW w \in [Upto(n) -> Nat]
  PROVE  /\ Descending(w) \in [1..n -> Upto(n)]
         /\ \A a, b \in 1..n : Descending(w)[a] = Descending(w)[b] => a = b
         /\ \A i \in Upto(n) : \E a \in 1..n : Descending(w)[a] = i
<1> DEFINE U == Upto(n)
           f == [i \in U |-> Cardinality(Before(w, i))]
<1>1. f \in [U -> U]
  BY BeforeSmall
<1>2. ASSUME NEW i \in U, NEW k \in U, f[i] = f[k] PROVE i = k
  <2>1. i \in Nat /\ k \in Nat /\ w[i] \in Nat /\ w[k] \in Nat
    BY UptoFacts
  <2>2. i = k \/ i \in Before(w, k) \/ k \in Before(w, i)
    BY <2>1 DEF Before
  <2>3. ~(i \in Before(w, k)) /\ ~(k \in Before(w, i))
    BY <1>2, BeforeLess
  <2> QED BY <2>2, <2>3
<1>3. \A t \in U : \E s \in U : f[s] = t
  <2> HIDE DEF f
  <2> QED BY <1>1, <1>2, InjectiveIsOnto
<1>4. DOMAIN w = U /\ Cardinality(DOMAIN w) = n
  BY UptoFacts
<1> DEFINE d == Descending(w)
           h(k) == CHOOSE i \in U : Cardinality(Before(w, i)) = k - 1
<1>5. d = [k \in 1..n |-> h(k)]
  BY <1>4 DEF Descending
<1>6. ASSUME NEW k \in 1..n PROVE h(k) \in U /\ f[h(k)] = k - 1
  <2>1. k - 1 \in U
    BY UptoFacts
  <2>2. \E i \in U : Cardinality(Before(w, i)) = k - 1
    BY <1>3, <2>1
  <2>3. h(k) \in U /\ Cardinality(Before(w, h(k))) = k - 1
    BY <2>2, Zenon
  <2> QED BY <2>3
<1> HIDE DEF d, h, f
<1>7. d \in [1..n -> U] /\ \A k \in 1..n : f[d[k]] = k - 1
  BY <1>5, <1>6
<1>8. ASSUME NEW a \in 1..n, NEW b \in 1..n, d[a] = d[b] PROVE a = b
  <2>1. a - 1 = b - 1
    BY <1>7, <1>8
  <2> QED BY <2>1
<1>9. ASSUME NEW i \in U PROVE \E a \in 1..n : d[a] = i
  <2>1. f[i] \in Nat /\ f[i] < n
    BY <1>1, UptoFacts
  <2> DEFINE a == f[i] + 1
  <2>2. a \in 1..n /\ a - 1 = f[i]
    BY <2>1
  <2> HIDE DEF a
  <2>3. d[a] \in U /\ f[d[a]] = f[i]
    BY <1>7, <2>2
  <2>4. d[a] = i
    BY <1>2, <2>3
  <2> QED BY <2>2, <2>4
<1> QED BY <1>7, <1>8, <1>9 DEF d

-----------------------------------------------------------------------------
(* Packing *)

\* The items of done are in packs, and fill them from rank 0 without a gap.
Packed(n, m, per, done, acc) ==
  /\ acc \in [pack : [Upto(n) -> Int], rank : [Upto(n) -> Int],
              load : [Upto(m) -> Nat], items : [Upto(m) -> 0..per]]
  /\ \A i \in done : /\ acc.pack[i] \in Upto(m) /\ acc.rank[i] \in Nat
                     /\ acc.rank[i] < acc.items[acc.pack[i]]
  /\ \A i, j \in done : acc.pack[i] = acc.pack[j] /\ acc.rank[i] = acc.rank[j] => i = j
  /\ \A p \in Upto(m), r \in Nat : r < acc.items[p] =>
       \E i \in done : acc.pack[i] = p /\ acc.rank[i] = r

\* As long as an item is left, a pack has room: full packs hold all items.
LEMMA RoomLeft ==
  ASSUME NEW n \in Nat, NEW m \in Nat, NEW per \in Nat \ {0}, n = m * per,
         NEW done \in SUBSET Upto(n), NEW item \in Upto(n) \ done,
         NEW acc, Packed(n, m, per, done, acc)
  PROVE  \E p \in Upto(m) : acc.items[p] < per
<1>1. SUFFICES ASSUME \A p \in Upto(m) : ~(acc.items[p] < per) PROVE FALSE
  BY Zenon
<1>2. acc.items \in [Upto(m) -> 0..per] /\ acc.pack \in [Upto(n) -> Int] /\ acc.rank \in [Upto(n) -> Int]
  BY DEF Packed
<1>3. \A p \in Upto(m) : acc.items[p] = per
  BY <1>1, <1>2
<1> DEFINE f == [i \in done |-> acc.pack[i] * per + acc.rank[i]]
<1>4. f \in [done -> Upto(n)]
  <2>1. ASSUME NEW i \in done PROVE acc.pack[i] * per + acc.rank[i] \in Upto(n)
    <3> DEFINE p == acc.pack[i]
               r == acc.rank[i]
    <3>1. p \in Upto(m) /\ r \in Nat /\ r < acc.items[p]
      BY DEF Packed
    <3> HIDE DEF p, r
    <3>2. p \in Nat /\ p < m /\ r < per
      BY <1>3, <3>1, UptoFacts
    <3>3. p * per + r \in Nat /\ p * per + r < m * per
      BY <3>1, <3>2, Digits
    <3>4. p * per + r \in Upto(n)
      BY <3>3, UptoFacts
    <3> QED BY <3>4 DEF p, r
  <2> QED BY <2>1
<1>5. ASSUME NEW t \in Upto(n) PROVE \E i \in done : f[i] = t
  <2>1. t \in Nat /\ t < m * per
    BY UptoFacts
  <2> DEFINE p == t \div per
             r == t % per
  <2>2. p \in Nat /\ p < m /\ r \in Nat /\ r < per /\ t = p * per + r
    BY <2>1, DigitsOf
  <2> HIDE DEF p, r
  <2>3. p \in Upto(m) /\ r < acc.items[p]
    BY <1>3, <2>2, UptoFacts
  <2>4. PICK i \in done : acc.pack[i] = p /\ acc.rank[i] = r
    BY <2>2, <2>3 DEF Packed
  <2>5. f[i] = t
    BY <2>2, <2>4
  <2> QED BY <2>5
<1>6. f \in Surjection(done, Upto(n))
  <2> HIDE DEF f
  <2> QED BY <1>4, <1>5, Zenon DEF Surjection
<1>7. IsFiniteSet(Upto(n))
  BY UptoFacts
<1>8. IsFiniteSet(done) /\ Cardinality(done) <= Cardinality(Upto(n))
      /\ (Cardinality(Upto(n)) = Cardinality(done) => Upto(n) = done)
  BY <1>7, FS_Subset
<1>9. Cardinality(Upto(n)) <= Cardinality(done)
  BY <1>6, <1>8, FS_Surjection
<1>10. Cardinality(Upto(n)) \in Nat /\ Cardinality(done) \in Nat
  BY <1>7, <1>8, FS_CardinalityType
<1>11. Cardinality(Upto(n)) = Cardinality(done)
  BY <1>8, <1>9, <1>10
<1> QED BY <1>8, <1>11

\* The lightest of some packs.
LEMMA Lightest ==
  ASSUME NEW open \in SUBSET Nat, open # {}, NEW load, \A i \in open : load[i] \in Nat
  PROVE  Min({i \in open : \A j \in open : load[i] <= load[j]}) \in open
<1> DEFINE T == {load[i] : i \in open}
           L == {i \in open : \A j \in open : load[i] <= load[j]}
<1>1. T \in SUBSET Nat /\ T # {}
  OBVIOUS
<1>2. PICK t \in T : \A y \in T : t <= y
  <2> HIDE DEF T
  <2> QED BY <1>1, Least
<1>3. PICK i \in open : load[i] = t
  BY <1>2
<1>4. i \in L
  BY <1>2, <1>3
<1>5. L \in SUBSET Nat /\ L # {} /\ L \in SUBSET open
  BY <1>4
<1> HIDE DEF L
<1>6. Min(L) \in L
  BY <1>5, MinNat
<1> QED BY <1>5, <1>6 DEF L

\* Put puts one more item into a pack.
LEMMA PutPacks ==
  ASSUME NEW n \in Nat, NEW m \in Nat, NEW per \in Nat \ {0}, n = m * per,
         NEW w \in [Upto(n) -> Nat],
         NEW done \in SUBSET Upto(n), NEW item \in Upto(n) \ done,
         NEW acc, Packed(n, m, per, done, acc)
  PROVE  Packed(n, m, per, done \cup {item}, Put(w, per, acc, item))
<1> DEFINE open == {i \in DOMAIN acc.items : acc.items[i] < per}
           pk   == Min({i \in open : \A j \in open : acc.load[i] <= acc.load[j]})
           new  == Put(w, per, acc, item)
<1>1. /\ acc.pack \in [Upto(n) -> Int] /\ acc.rank \in [Upto(n) -> Int]
      /\ acc.load \in [Upto(m) -> Nat] /\ acc.items \in [Upto(m) -> 0..per]
  BY DEF Packed
<1>2. open \in SUBSET Upto(m) /\ open # {}
  BY <1>1, RoomLeft
<1>3. pk \in open
  <2>1. open \in SUBSET Nat /\ \A i \in open : acc.load[i] \in Nat
    BY <1>1, <1>2, UptoFacts
  <2> HIDE DEF open
  <2> QED BY <1>2, <2>1, Lightest
<1>4. new = [pack  |-> [acc.pack EXCEPT ![item] = pk],
             rank  |-> [acc.rank EXCEPT ![item] = acc.items[pk]],
             load  |-> [acc.load EXCEPT ![pk] = @ + w[item]],
             items |-> [acc.items EXCEPT ![pk] = @ + 1]]
  BY DEF Put
<1> HIDE DEF pk
<1>5. pk \in Upto(m) /\ acc.items[pk] \in Nat /\ acc.items[pk] < per
  BY <1>1, <1>2, <1>3
<1> HIDE DEF open, new
<1>6. /\ new.pack = [acc.pack EXCEPT ![item] = pk]
      /\ new.rank = [acc.rank EXCEPT ![item] = acc.items[pk]]
      /\ new.load = [acc.load EXCEPT ![pk] = @ + w[item]]
      /\ new.items = [acc.items EXCEPT ![pk] = @ + 1]
  BY <1>4
<1>7. new \in [pack : [Upto(n) -> Int], rank : [Upto(n) -> Int],
               load : [Upto(m) -> Nat], items : [Upto(m) -> 0..per]]
  <2>1. pk \in Int
    BY <1>5, UptoFacts
  <2>2. new.pack \in [Upto(n) -> Int] /\ new.rank \in [Upto(n) -> Int]
    BY <1>1, <1>5, <1>6, <2>1
  <2>3. new.items \in [Upto(m) -> 0..per]
    <3>1. acc.items[pk] + 1 \in 0..per
      BY <1>5
    <3> QED BY <1>1, <1>5, <1>6, <3>1
  <2>4. new.load \in [Upto(m) -> Nat]
    <3>1. acc.load[pk] + w[item] \in Nat
      BY <1>1, <1>5
    <3> QED BY <1>1, <1>5, <1>6, <3>1
  <2>5. new.pack \in [Upto(n) -> Int] /\ new.rank \in [Upto(n) -> Int] /\ new.load \in [Upto(m) -> Nat]
        /\ new.items \in [Upto(m) -> 0..per]
    BY <2>2, <2>3, <2>4
  <2> QED BY <1>4, <1>6, <2>5
<1>8. /\ new.pack[item] = pk /\ new.rank[item] = acc.items[pk]
      /\ \A i \in done : new.pack[i] = acc.pack[i] /\ new.rank[i] = acc.rank[i]
  BY <1>1, <1>6
<1>9. /\ new.items[pk] = acc.items[pk] + 1
      /\ \A p \in Upto(m) : p # pk => new.items[p] = acc.items[p]
  BY <1>1, <1>5, <1>6
<1>10. \A p \in Upto(m) : acc.items[p] \in Nat /\ new.items[p] \in Nat /\ acc.items[p] <= new.items[p]
  BY <1>1, <1>5, <1>9
<1>11. \A i \in done : acc.pack[i] \in Upto(m) /\ acc.rank[i] \in Nat /\ acc.rank[i] < acc.items[acc.pack[i]]
  BY DEF Packed
<1>12. ASSUME NEW i \in done \cup {item}
       PROVE  new.pack[i] \in Upto(m) /\ new.rank[i] \in Nat /\ new.rank[i] < new.items[new.pack[i]]
  <2>1. CASE i \in done
    <3> DEFINE p == acc.pack[i]
               r == acc.rank[i]
    <3>1. p \in Upto(m) /\ r \in Nat /\ r < acc.items[p] /\ new.pack[i] = p /\ new.rank[i] = r
      BY <1>8, <1>11, <2>1
    <3> HIDE DEF p, r
    <3> QED BY <1>10, <3>1
  <2>2. CASE i = item
    BY <1>5, <1>8, <1>9, <2>2
  <2> QED BY <2>1, <2>2
<1>13. ASSUME NEW i \in done \cup {item}, NEW j \in done \cup {item},
              new.pack[i] = new.pack[j], new.rank[i] = new.rank[j]
       PROVE  i = j
  <2>1. \A k \in done : ~(new.pack[k] = pk /\ new.rank[k] = acc.items[pk])
    <3>1. ASSUME NEW k \in done, acc.pack[k] = pk, acc.rank[k] = acc.items[pk] PROVE FALSE
      BY <1>5, <1>11, <3>1
    <3> QED BY <1>8, <3>1
  <2>2. CASE i \in done /\ j \in done
    BY <1>8, <1>13, <2>2 DEF Packed
  <2>3. CASE i = item \/ j = item
    BY <1>8, <1>13, <2>1, <2>3
  <2> QED BY <2>2, <2>3
<1>14. ASSUME NEW p \in Upto(m), NEW r \in Nat, r < new.items[p]
       PROVE  \E i \in done \cup {item} : new.pack[i] = p /\ new.rank[i] = r
  <2>1. CASE r < acc.items[p]
    <3>1. PICK i \in done : acc.pack[i] = p /\ acc.rank[i] = r
      BY <2>1 DEF Packed
    <3> QED BY <1>8, <3>1
  <2>2. CASE ~(r < acc.items[p])
    <3>1. p = pk /\ r = acc.items[pk]
      BY <1>5, <1>9, <1>10, <1>14, <2>2
    <3> QED BY <1>8, <3>1
  <2> QED BY <2>1, <2>2
<1>15. Packed(n, m, per, done \cup {item}, new)
  BY <1>7, <1>12, <1>13, <1>14, Zenon DEF Packed
<1> QED BY <1>15 DEF new

\* Before the first item.
LEMMA NothingPacked ==
  ASSUME NEW n \in Nat, NEW m \in Nat, NEW per \in Nat \ {0}, NEW w \in [Upto(n) -> Nat]
  PROVE  Packed(n, m, per, {}, NoItems(w, m))
<1>1. DOMAIN w = Upto(n)
  OBVIOUS
<1> DEFINE z == NoItems(w, m)
<1>2. z = [pack |-> [i \in Upto(n) |-> -1], rank |-> [i \in Upto(n) |-> -1],
           load |-> [i \in Upto(m) |-> 0], items |-> [i \in Upto(m) |-> 0]]
  BY <1>1 DEF NoItems
<1>3. z \in [pack : [Upto(n) -> Int], rank : [Upto(n) -> Int],
             load : [Upto(m) -> Nat], items : [Upto(m) -> 0..per]]
  BY <1>2
<1>4. \A p \in Upto(m), r \in Nat : ~(r < z.items[p])
  BY <1>2
<1> HIDE DEF z
<1>5. Packed(n, m, per, {}, z)
  BY <1>3, <1>4 DEF Packed
<1> QED BY <1>5 DEF z

\* The states that Pack goes through: item by item its recursive function exists.
LEMMA PackUnfolds ==
  ASSUME NEW w, NEW m, NEW per, NEW N \in Nat, Cardinality(DOMAIN w) = N
  PROVE  \E f : /\ Pack(w, m, per) = f[N] /\ f[0] = NoItems(w, m)
               /\ \A k \in 1..N : f[k] = Put(w, per, f[k - 1], Descending(w)[k])
<1> DEFINE order == Descending(w)
<1> HIDE DEF order
<1> DEFINE S == {n \in Nat : \E f : f = [k \in 0..n |->
                   IF k = 0 THEN NoItems(w, m) ELSE Put(w, per, f[k - 1], order[k])]}
<1>1. 0 \in S
  <2> DEFINE f == [k \in 0..0 |-> NoItems(w, m)]
  <2>1. f = [k \in 0..0 |-> IF k = 0 THEN NoItems(w, m) ELSE Put(w, per, f[k - 1], order[k])]
    OBVIOUS
  <2> QED BY <2>1
<1>2. ASSUME NEW n \in Nat, n \in S PROVE n + 1 \in S
  <2>1. PICK f : f = [k \in 0..n |-> IF k = 0 THEN NoItems(w, m) ELSE Put(w, per, f[k - 1], order[k])]
    BY <1>2
  <2> DEFINE x == Put(w, per, f[n], order[n + 1])
             g == [k \in 0..(n + 1) |-> IF k = n + 1 THEN x ELSE f[k]]
  <2>2. ASSUME NEW k \in 0..(n + 1)
        PROVE  g[k] = IF k = 0 THEN NoItems(w, m) ELSE Put(w, per, g[k - 1], order[k])
    <3>1. CASE k = n + 1
      <4>1. k - 1 = n /\ n \in 0..(n + 1) /\ n # n + 1 /\ k # 0
        BY <3>1
      <4>2. g[n] = f[n]
        BY <4>1
      <4>3. g[k] = x
        BY <3>1
      <4> QED BY <3>1, <4>1, <4>2, <4>3
    <3>2. CASE k = 0
      <4>1. k \in 0..n /\ k # n + 1
        BY <3>2
      <4>2. f[k] = NoItems(w, m)
        BY <2>1, <3>2, <4>1
      <4> QED BY <3>2, <4>1, <4>2
    <3>3. CASE k # n + 1 /\ k # 0
      <4>1. k \in 0..n /\ k - 1 \in 0..(n + 1) /\ k - 1 # n + 1
        BY <3>3
      <4>2. g[k] = f[k] /\ g[k - 1] = f[k - 1]
        BY <3>3, <4>1
      <4>3. f[k] = Put(w, per, f[k - 1], order[k])
        BY <2>1, <3>3, <4>1
      <4> QED BY <3>3, <4>2, <4>3
    <3> QED BY <3>1, <3>2, <3>3
  <2>3. g = [k \in 0..(n + 1) |-> g[k]]
    OBVIOUS
  <2> HIDE DEF g
  <2>4. g = [k \in 0..(n + 1) |-> IF k = 0 THEN NoItems(w, m) ELSE Put(w, per, g[k - 1], order[k])]
    BY <2>2, <2>3
  <2> QED BY <2>4
<1>3. Nat \subseteq S
  <2> HIDE DEF S
  <2> QED BY <1>1, <1>2, Induct
<1> DEFINE f == CHOOSE g : g = [k \in 0..N |->
                  IF k = 0 THEN NoItems(w, m) ELSE Put(w, per, g[k - 1], order[k])]
<1>4. Pack(w, m, per) = f[N]
  BY DEF Pack, order
<1>5. f = [k \in 0..N |-> IF k = 0 THEN NoItems(w, m) ELSE Put(w, per, f[k - 1], order[k])]
  <2>1. \E g : g = [k \in 0..N |-> IF k = 0 THEN NoItems(w, m) ELSE Put(w, per, g[k - 1], order[k])]
    BY <1>3
  <2> QED BY <2>1, Zenon
<1> HIDE DEF f
<1>6. f[0] = NoItems(w, m) /\ \A k \in 1..N : f[k] = Put(w, per, f[k - 1], order[k])
  BY <1>5
<1> QED BY <1>4, <1>6, Zenon DEF order

\* Pack puts every item into a pack.
LEMMA PackPacks ==
  ASSUME NEW n \in Nat, NEW m \in Nat, NEW per \in Nat \ {0}, n = m * per,
         NEW w \in [Upto(n) -> Nat]
  PROVE  Packed(n, m, per, Upto(n), Pack(w, m, per))
<1>1. Cardinality(DOMAIN w) = n
  BY UptoFacts
<1>2. PICK f : /\ Pack(w, m, per) = f[n] /\ f[0] = NoItems(w, m)
               /\ \A k \in 1..n : f[k] = Put(w, per, f[k - 1], Descending(w)[k])
  BY <1>1, PackUnfolds
<1> DEFINE order == Descending(w)
<1>3. \A k \in 1..n : f[k] = Put(w, per, f[k - 1], order[k])
  BY <1>2
<1> HIDE DEF order
<1> DEFINE done(k) == {order[j] : j \in 1..k}
           S == {k \in 0..n : Packed(n, m, per, done(k), f[k])}
<1>4. /\ order \in [1..n -> Upto(n)]
      /\ \A a, b \in 1..n : order[a] = order[b] => a = b
      /\ \A i \in Upto(n) : \E a \in 1..n : order[a] = i
  BY DescendingPermutes DEF order
<1>5. 0 \in S
  <2>1. done(0) = {}
    OBVIOUS
  <2>2. f[0] = NoItems(w, m)
    BY <1>2
  <2>3. Packed(n, m, per, {}, NoItems(w, m))
    BY NothingPacked
  <2> HIDE DEF done
  <2> QED BY <2>1, <2>2, <2>3
<1>6. ASSUME NEW k \in Nat, k < n /\ k \in S PROVE k + 1 \in S
  <2>1. k + 1 \in 1..n /\ k + 1 \in 0..n /\ k + 1 # 0 /\ k + 1 - 1 = k
    BY <1>6
  <2>2. f[k + 1] = Put(w, per, f[k], order[k + 1])
    BY <1>3, <2>1
  <2>3. done(k) \in SUBSET Upto(n) /\ order[k + 1] \in Upto(n)
    BY <1>4, <1>6, <2>1
  <2>4. order[k + 1] \notin done(k)
    <3>1. \A j \in 1..k : j \in 1..n /\ j # k + 1
      BY <1>6
    <3> QED BY <1>4, <2>1, <3>1
  <2>5. done(k + 1) = done(k) \cup {order[k + 1]}
    <3>1. 1..(k + 1) = (1..k) \cup {k + 1}
      OBVIOUS
    <3> QED BY <3>1
  <2>6. Packed(n, m, per, done(k), f[k])
    BY <1>6
  <2> HIDE DEF done
  <2>7. Packed(n, m, per, done(k) \cup {order[k + 1]}, Put(w, per, f[k], order[k + 1]))
    BY <2>3, <2>4, <2>6, PutPacks
  <2> QED BY <2>1, <2>2, <2>5, <2>7
<1>7. n \in S
  <2>1. 0..n \subseteq S
    <3> HIDE DEF S
    <3> QED BY <1>5, <1>6, InductUpto
  <2> HIDE DEF S
  <2> QED BY <2>1
<1>8. done(n) = Upto(n)
  BY <1>4
<1> HIDE DEF done
<1> QED BY <1>2, <1>7, <1>8

\* A packing of n items: no pack has more than per items, and no two items share a place.
GoodPacking(n, m, per, b) ==
  /\ \A i \in Upto(n) : b.pack[i] \in Upto(m) /\ b.rank[i] \in Upto(per)
  /\ \A i, j \in Upto(n) : b.pack[i] = b.pack[j] /\ b.rank[i] = b.rank[j] => i = j

\* balanced_packing makes one, and so fills every pack.
LEMMA PackingSound ==
  ASSUME NEW m \in Nat \ {0}, NEW per \in Nat \ {0}, NEW n \in Nat, n = m * per,
         NEW w \in [Upto(n) -> Nat]
  PROVE  GoodPacking(n, m, per, balanced_packing(w, m))
<1> DEFINE b == balanced_packing(w, m)
<1>1. Cardinality(DOMAIN w) = n /\ DOMAIN w = Upto(n)
  BY UptoFacts
<1>2. n \div m = per
  <2>1. n = per * m
    OBVIOUS
  <2> QED BY <2>1, DivProduct
<1>3. CASE per = 1
  <2>1. b = [pack |-> [i \in Upto(n) |-> i], rank |-> [i \in Upto(n) |-> 0]]
    BY <1>1, <1>2, <1>3 DEF balanced_packing
  <2>2. n = m /\ 0 \in Upto(per)
    BY <1>3, UptoFacts
  <2> HIDE DEF b
  <2> QED BY <2>1, <2>2 DEF b, GoodPacking
<1>4. CASE per # 1
  <2>1. b = Pack(w, m, per)
    BY <1>1, <1>2, <1>4 DEF balanced_packing
  <2>2. Packed(n, m, per, Upto(n), b)
    BY <2>1, PackPacks
  <2> HIDE DEF b
  <2>3. b.items \in [Upto(m) -> 0..per]
    BY <2>2 DEF Packed
  <2>4. ASSUME NEW i \in Upto(n) PROVE b.pack[i] \in Upto(m) /\ b.rank[i] \in Upto(per)
    <3> DEFINE p == b.pack[i]
               r == b.rank[i]
    <3>1. p \in Upto(m) /\ r \in Nat /\ r < b.items[p]
      BY <2>2 DEF Packed
    <3> HIDE DEF p, r
    <3>2. r < per
      BY <2>3, <3>1
    <3>3. r \in Upto(per)
      BY <3>1, <3>2, UptoFacts
    <3> QED BY <3>1, <3>3 DEF p, r
  <2>5. \A i, j \in Upto(n) : b.pack[i] = b.pack[j] /\ b.rank[i] = b.rank[j] => i = j
    BY <2>2 DEF Packed
  <2> QED BY <2>4, <2>5 DEF b, GoodPacking
<1> QED BY <1>3, <1>4

-----------------------------------------------------------------------------
(* Replicas *)

\* Loads per replica are compared by cross products: the comparison is transitive.
LEMMA CrossTrans ==
  ASSUME NEW a \in Nat, NEW b \in Nat, NEW c \in Nat,
         NEW x \in Nat, NEW y \in Nat \ {0}, NEW z \in Nat,
         a * y >= b * x, b * z >= c * y
  PROVE  a * z >= c * x
<1>1. SUFFICES ASSUME ~(a * z >= c * x) PROVE FALSE
  OBVIOUS
<1> DEFINE ay == a * y  bx == b * x  bz == b * z  cy == c * y  az == a * z  cx == c * x
<1>2. ay \in Nat /\ bx \in Nat /\ bz \in Nat /\ cy \in Nat /\ az \in Nat /\ cx \in Nat
  OBVIOUS
<1>3. bx <= ay /\ cy <= bz /\ az + 1 <= cx
  BY <1>1, <1>2
<1>4. ay * z = az * y /\ bx * z = bz * x /\ cy * x = cx * y
  OBVIOUS
<1> HIDE DEF ay, bx, bz, cy, az, cx
<1>5. bx * z <= ay * z /\ cy * x <= bz * x /\ (az + 1) * y <= cx * y
  BY <1>2, <1>3, MulMono
<1>6. (az + 1) * y = az * y + y
  BY <1>2, MulSucc
<1>7. az * y \in Nat /\ cx * y \in Nat /\ bx * z \in Nat
  BY <1>2
<1> QED BY <1>4, <1>5, <1>6, <1>7

\* One of D has the most load per replica.
SomeHottest(D, w, cnt) == \E i \in D : \A j \in D : w[i] * cnt[j] >= w[j] * cnt[i]

\* Among some experts there is one with the most load per replica.
LEMMA HottestExists ==
  ASSUME NEW n \in Nat, NEW D \in SUBSET Upto(n), D # {}, NEW w, NEW cnt,
         \A i \in D : w[i] \in Nat /\ cnt[i] \in Nat \ {0}
  PROVE  SomeHottest(D, w, cnt)
<1> DEFINE R(i, j) == w[i] * cnt[j] >= w[j] * cnt[i]
           S == {k \in Nat : (\E i \in D : i < k) => \E i \in D : \A j \in D : j < k => R(i, j)}
<1>1. \A i \in D : i \in Nat /\ i < n
  BY UptoFacts
<1>2. \A i, j \in D : R(i, j) \/ R(j, i)
  <2>1. ASSUME NEW i \in D, NEW j \in D PROVE R(i, j) \/ R(j, i)
    <3> DEFINE s == w[i] * cnt[j]  t == w[j] * cnt[i]
    <3>1. s \in Nat /\ t \in Nat
      OBVIOUS
    <3> HIDE DEF s, t
    <3>2. s >= t \/ t >= s
      BY <3>1
    <3> QED BY <3>2 DEF s, t
  <2> QED BY <2>1
<1>3. ASSUME NEW l \in D, NEW i \in D, NEW j \in D, R(l, i), R(i, j) PROVE R(l, j)
  <2>1. /\ w[l] \in Nat /\ w[i] \in Nat /\ w[j] \in Nat
        /\ cnt[l] \in Nat /\ cnt[i] \in Nat \ {0} /\ cnt[j] \in Nat
    OBVIOUS
  <2> QED BY <1>3, <2>1, CrossTrans
<1> HIDE DEF R
<1>4. 0 \in S
  BY <1>1
<1>5. ASSUME NEW k \in Nat, k \in S PROVE k + 1 \in S
  <2>1. \A j \in D : j < k + 1 <=> (j < k \/ j = k)
    BY <1>1
  <2>2. CASE k \notin D
    BY <1>5, <2>1, <2>2
  <2>3. CASE k \in D /\ ~\E i \in D : i < k
    <3>1. \A j \in D : j < k + 1 => R(k, j)
      BY <1>2, <2>1, <2>3
    <3> QED BY <2>3, <3>1
  <2>4. CASE k \in D /\ \E i \in D : i < k
    <3>1. PICK i \in D : \A j \in D : j < k => R(i, j)
      BY <1>5, <2>4
    <3>2. CASE R(i, k)
      <4>1. \A j \in D : j < k + 1 => R(i, j)
        BY <2>1, <3>1, <3>2
      <4> QED BY <4>1
    <3>3. CASE R(k, i)
      <4>1. \A j \in D : j < k + 1 => R(k, j)
        BY <1>2, <1>3, <2>1, <2>4, <3>1, <3>3
      <4> QED BY <2>4, <4>1
    <3> QED BY <1>2, <2>4, <3>2, <3>3
  <2> QED BY <2>2, <2>3, <2>4
<1>6. n \in S
  <2>1. Nat \subseteq S
    <3> HIDE DEF S
    <3> QED BY <1>4, <1>5, Induct
  <2> HIDE DEF S
  <2> QED BY <2>1
<1>7. \E i \in D : \A j \in D : R(i, j)
  BY <1>1, <1>6
<1> QED BY <1>7 DEF R, SomeHottest

\* The hottest expert is one of the experts, and no other has more load per replica.
LEMMA HottestSound ==
  ASSUME NEW n \in Nat \ {0}, NEW w \in [Upto(n) -> Nat], NEW cnt \in [Upto(n) -> Nat \ {0}]
  PROVE  /\ Hottest(w, cnt) \in Upto(n)
         /\ \A j \in Upto(n) : w[Hottest(w, cnt)] * cnt[j] >= w[j] * cnt[Hottest(w, cnt)]
<1>1. 0 \in Upto(n)
  BY UptoFacts
<1>4. \E i \in Upto(n) : \A j \in Upto(n) : w[i] * cnt[j] >= w[j] * cnt[i]
  BY <1>1, HottestExists DEF SomeHottest
<1> DEFINE H == {i \in Upto(n) : \A j \in Upto(n) : w[i] * cnt[j] >= w[j] * cnt[i]}
<1>5. H # {} /\ H \in SUBSET Nat
  BY <1>4, UptoFacts
<1>6. Min(H) \in H
  <2> HIDE DEF H
  <2> QED BY <1>5, MinNat
<1>7. Hottest(w, cnt) = Min(H)
  <2>1. DOMAIN w = Upto(n)
    OBVIOUS
  <2> QED BY <2>1 DEF Hottest
<1> QED BY <1>6, <1>7

\* No expert has got a replica while another one had more load per replica.
Greedy(n, w, cnt) == \A i, j \in Upto(n) : w[i] * cnt[j] >= w[j] * (cnt[i] - 1)

\* The first p slots are the replicas of the experts, numbered from 0 for each.
Replicated(n, numPhy, w, p, acc) ==
  /\ acc \in [phy2log : [Upto(numPhy) -> Nat], rank : [Upto(numPhy) -> Nat], cnt : [Upto(n) -> Nat \ {0}]]
  /\ \A q \in Upto(p) : acc.phy2log[q] \in Upto(n) /\ acc.rank[q] < acc.cnt[acc.phy2log[q]]
  /\ \A q, r \in Upto(p) : acc.phy2log[q] = acc.phy2log[r] /\ acc.rank[q] = acc.rank[r] => q = r
  /\ \A e \in Upto(n), k \in Nat : k < acc.cnt[e] =>
       \E q \in Upto(p) : acc.phy2log[q] = e /\ acc.rank[q] = k
  /\ Greedy(n, w, acc.cnt)

\* At the start there is one replica of each.
LEMMA OneOfEachReplicated ==
  ASSUME NEW n \in Nat \ {0}, NEW numPhy \in Nat, n <= numPhy, NEW w \in [Upto(n) -> Nat]
  PROVE  Replicated(n, numPhy, w, n, OneOfEach(w, numPhy))
<1> DEFINE z == OneOfEach(w, numPhy)
<1>1. DOMAIN w = Upto(n)
  OBVIOUS
<1>2. z = [phy2log |-> [p \in Upto(numPhy) |-> p], rank |-> [p \in Upto(numPhy) |-> 0],
           cnt |-> [i \in Upto(n) |-> 1]]
  BY <1>1 DEF OneOfEach
<1> HIDE DEF z
<1>3. /\ z.phy2log = [p \in Upto(numPhy) |-> p] /\ z.rank = [p \in Upto(numPhy) |-> 0]
      /\ z.cnt = [i \in Upto(n) |-> 1]
  BY <1>2
<1>4. \A q \in Upto(n) : q \in Upto(numPhy)
  BY DEF Upto
<1>5. z \in [phy2log : [Upto(numPhy) -> Nat], rank : [Upto(numPhy) -> Nat], cnt : [Upto(n) -> Nat \ {0}]]
  BY <1>2, UptoFacts
<1>6. \A q \in Upto(n) : z.phy2log[q] = q /\ z.rank[q] = 0 /\ z.cnt[q] = 1
  BY <1>3, <1>4
<1>7. \A e \in Upto(n), k \in Nat : k < z.cnt[e] => \E q \in Upto(n) : z.phy2log[q] = e /\ z.rank[q] = k
  BY <1>6
<1>8. Greedy(n, w, z.cnt)
  <2>1. ASSUME NEW i \in Upto(n), NEW j \in Upto(n) PROVE w[i] * z.cnt[j] >= w[j] * (z.cnt[i] - 1)
    <3>1. z.cnt[j] = 1 /\ z.cnt[i] - 1 = 0 /\ w[i] \in Nat /\ w[j] \in Nat
      BY <1>6
    <3> QED BY <3>1
  <2> QED BY <2>1 DEF Greedy
<1>9. Replicated(n, numPhy, w, n, z)
  BY <1>5, <1>6, <1>7, <1>8 DEF Replicated
<1> QED BY <1>9 DEF z

\* Replica fills one more slot.
LEMMA ReplicaReplicates ==
  ASSUME NEW n \in Nat \ {0}, NEW numPhy \in Nat, NEW w \in [Upto(n) -> Nat],
         NEW p \in Nat, p < numPhy, NEW acc, Replicated(n, numPhy, w, p, acc)
  PROVE  Replicated(n, numPhy, w, p + 1, Replica(w, acc, p))
<1> DEFINE hot == Hottest(w, acc.cnt)
           new == Replica(w, acc, p)
<1>1. /\ acc.phy2log \in [Upto(numPhy) -> Nat] /\ acc.rank \in [Upto(numPhy) -> Nat]
      /\ acc.cnt \in [Upto(n) -> Nat \ {0}]
      /\ acc = [phy2log |-> acc.phy2log, rank |-> acc.rank, cnt |-> acc.cnt]
  BY DEF Replicated
<1>2. hot \in Upto(n) /\ \A j \in Upto(n) : w[hot] * acc.cnt[j] >= w[j] * acc.cnt[hot]
  BY <1>1, HottestSound
<1>3. new = [acc EXCEPT !.phy2log[p] = hot, !.rank[p] = acc.cnt[hot], !.cnt[hot] = @ + 1]
  BY DEF Replica
<1> HIDE DEF hot, new
<1>4. /\ new = [phy2log |-> [acc.phy2log EXCEPT ![p] = hot], rank |-> [acc.rank EXCEPT ![p] = acc.cnt[hot]],
                cnt |-> [acc.cnt EXCEPT ![hot] = @ + 1]]
  BY <1>1, <1>3
<1>5. /\ new.phy2log = [acc.phy2log EXCEPT ![p] = hot]
      /\ new.rank = [acc.rank EXCEPT ![p] = acc.cnt[hot]]
      /\ new.cnt = [acc.cnt EXCEPT ![hot] = acc.cnt[hot] + 1]
  BY <1>4
<1>6. p \in Upto(numPhy) /\ Upto(p + 1) = Upto(p) \cup {p} /\ p \notin Upto(p) /\ hot \in Nat
      /\ \A q \in Upto(p) : q \in Upto(numPhy)
  BY <1>2 DEF Upto
<1>7. acc.cnt[hot] \in Nat \ {0}
  BY <1>1, <1>2
<1>8. new \in [phy2log : [Upto(numPhy) -> Nat], rank : [Upto(numPhy) -> Nat], cnt : [Upto(n) -> Nat \ {0}]]
  <2>1. new.phy2log \in [Upto(numPhy) -> Nat] /\ new.rank \in [Upto(numPhy) -> Nat]
    BY <1>1, <1>5, <1>6, <1>7
  <2>2. new.cnt \in [Upto(n) -> Nat \ {0}]
    BY <1>1, <1>2, <1>5, <1>7
  <2> QED BY <1>4, <1>5, <2>1, <2>2
<1>9. /\ new.phy2log[p] = hot /\ new.rank[p] = acc.cnt[hot]
      /\ \A q \in Upto(p) : new.phy2log[q] = acc.phy2log[q] /\ new.rank[q] = acc.rank[q]
  BY <1>1, <1>5, <1>6
<1>10. /\ new.cnt[hot] = acc.cnt[hot] + 1
       /\ \A e \in Upto(n) : e # hot => new.cnt[e] = acc.cnt[e]
  BY <1>1, <1>2, <1>5
<1>11. \A e \in Upto(n) : acc.cnt[e] \in Nat \ {0} /\ new.cnt[e] \in Nat \ {0} /\ acc.cnt[e] <= new.cnt[e]
  BY <1>1, <1>7, <1>10
<1>12. \A q \in Upto(p) : acc.phy2log[q] \in Upto(n) /\ acc.rank[q] < acc.cnt[acc.phy2log[q]] /\ acc.rank[q] \in Nat
  BY <1>1, <1>6 DEF Replicated
<1>13. ASSUME NEW q \in Upto(p + 1) PROVE new.phy2log[q] \in Upto(n) /\ new.rank[q] < new.cnt[new.phy2log[q]]
  <2>1. CASE q \in Upto(p)
    <3> DEFINE e == acc.phy2log[q]
    <3>1. e \in Upto(n) /\ acc.rank[q] \in Nat /\ acc.rank[q] < acc.cnt[e] /\ new.phy2log[q] = e /\ new.rank[q] = acc.rank[q]
      BY <1>9, <1>12, <2>1
    <3> HIDE DEF e
    <3> QED BY <1>11, <3>1
  <2>2. CASE q = p
    BY <1>2, <1>7, <1>9, <1>10, <2>2
  <2> QED BY <1>6, <2>1, <2>2
<1>14. ASSUME NEW q \in Upto(p + 1), NEW r \in Upto(p + 1),
              new.phy2log[q] = new.phy2log[r], new.rank[q] = new.rank[r]
       PROVE  q = r
  <2>1. \A k \in Upto(p) : ~(new.phy2log[k] = hot /\ new.rank[k] = acc.cnt[hot])
    <3>1. ASSUME NEW k \in Upto(p), acc.phy2log[k] = hot, acc.rank[k] = acc.cnt[hot] PROVE FALSE
      BY <1>7, <1>12, <3>1
    <3> QED BY <1>9, <3>1
  <2>2. CASE q \in Upto(p) /\ r \in Upto(p)
    BY <1>9, <1>14, <2>2 DEF Replicated
  <2>3. CASE q = p \/ r = p
    BY <1>6, <1>9, <1>14, <2>1, <2>3
  <2> QED BY <1>6, <2>2, <2>3
<1>15. ASSUME NEW e \in Upto(n), NEW k \in Nat, k < new.cnt[e]
       PROVE  \E q \in Upto(p + 1) : new.phy2log[q] = e /\ new.rank[q] = k
  <2>1. CASE k < acc.cnt[e]
    <3>1. PICK q \in Upto(p) : acc.phy2log[q] = e /\ acc.rank[q] = k
      BY <2>1 DEF Replicated
    <3> QED BY <1>6, <1>9, <3>1
  <2>2. CASE ~(k < acc.cnt[e])
    <3>1. e = hot /\ k = acc.cnt[hot]
      BY <1>7, <1>10, <1>11, <1>15, <2>2
    <3> QED BY <1>6, <1>9, <3>1
  <2> QED BY <2>1, <2>2
<1>16. Greedy(n, w, new.cnt)
  <2>1. ASSUME NEW i \in Upto(n), NEW j \in Upto(n) PROVE w[i] * new.cnt[j] >= w[j] * (new.cnt[i] - 1)
    <3> DEFINE a == w[i]  b == w[j]  c == acc.cnt[j]  d == new.cnt[j]
    <3>1. a \in Nat /\ b \in Nat /\ c \in Nat /\ d \in Nat /\ c <= d
      BY <1>11
    <3>2. c * a <= d * a
      <4> HIDE DEF a, b, c, d
      <4> QED BY <3>1, MulMono
    <3>3. ASSUME NEW x \in Nat, a * c >= b * x PROVE a * d >= b * x
      <4>1. c * a = a * c /\ d * a = a * d /\ a * c \in Nat /\ a * d \in Nat /\ b * x \in Nat
        BY <3>1, <3>3
      <4> HIDE DEF a, b, c, d
      <4> DEFINE ac == a * c  ad == a * d  bx == b * x
      <4>2. ac \in Nat /\ ad \in Nat /\ bx \in Nat /\ ac <= ad /\ ac >= bx
        BY <3>2, <3>3, <4>1
      <4> HIDE DEF ac, ad, bx
      <4>3. ad >= bx
        BY <4>2
      <4> QED BY <4>3 DEF ad, bx
    <3>4. CASE i = hot
      <4>1. new.cnt[i] - 1 = acc.cnt[hot] /\ acc.cnt[hot] \in Nat
        BY <1>7, <1>10, <3>4
      <4>2. a * c >= b * acc.cnt[hot]
        BY <1>2, <3>4
      <4>3. a * d >= b * acc.cnt[hot]
        BY <3>3, <4>1, <4>2
      <4> QED BY <4>1, <4>3
    <3>5. CASE i # hot
      <4>1. new.cnt[i] - 1 = acc.cnt[i] - 1 /\ acc.cnt[i] - 1 \in Nat
        BY <1>10, <1>11, <3>5
      <4>2. a * c >= b * (acc.cnt[i] - 1)
        BY DEF Replicated, Greedy
      <4>3. a * d >= b * (acc.cnt[i] - 1)
        BY <3>3, <4>1, <4>2
      <4> QED BY <4>1, <4>3
    <3> QED BY <3>4, <3>5
  <2> QED BY <2>1 DEF Greedy
<1>17. Replicated(n, numPhy, w, p + 1, new)
  BY <1>8, <1>13, <1>14, <1>15, <1>16, Zenon DEF Replicated
<1> QED BY <1>17 DEF new

\* The states that replicate_experts goes through.
LEMMA ReplicateUnfolds ==
  ASSUME NEW w, NEW numPhy \in Nat, NEW n \in Nat, n <= numPhy, Cardinality(DOMAIN w) = n
  PROVE  \E f : /\ replicate_experts(w, numPhy) = f[numPhy - n] /\ f[0] = OneOfEach(w, numPhy)
               /\ \A k \in 1..(numPhy - n) : f[k] = Replica(w, f[k - 1], n + k - 1)
<1> DEFINE N == numPhy - n
<1>0. N \in Nat
  OBVIOUS
<1> DEFINE S == {m \in Nat : \E f : f = [k \in 0..m |->
                   IF k = 0 THEN OneOfEach(w, numPhy) ELSE Replica(w, f[k - 1], n + k - 1)]}
<1>1. 0 \in S
  <2> DEFINE f == [k \in 0..0 |-> OneOfEach(w, numPhy)]
  <2>1. f = [k \in 0..0 |-> IF k = 0 THEN OneOfEach(w, numPhy) ELSE Replica(w, f[k - 1], n + k - 1)]
    OBVIOUS
  <2> QED BY <2>1
<1>2. ASSUME NEW m \in Nat, m \in S PROVE m + 1 \in S
  <2>1. PICK f : f = [k \in 0..m |-> IF k = 0 THEN OneOfEach(w, numPhy) ELSE Replica(w, f[k - 1], n + k - 1)]
    BY <1>2
  <2> DEFINE x == Replica(w, f[m], n + (m + 1) - 1)
             g == [k \in 0..(m + 1) |-> IF k = m + 1 THEN x ELSE f[k]]
  <2>2. ASSUME NEW k \in 0..(m + 1)
        PROVE  g[k] = IF k = 0 THEN OneOfEach(w, numPhy) ELSE Replica(w, g[k - 1], n + k - 1)
    <3>1. CASE k = m + 1
      <4>1. k - 1 = m /\ m \in 0..(m + 1) /\ m # m + 1 /\ k # 0
        BY <3>1
      <4>2. g[m] = f[m]
        BY <4>1
      <4>3. g[k] = x
        BY <3>1
      <4> QED BY <3>1, <4>1, <4>2, <4>3
    <3>2. CASE k = 0
      <4>1. k \in 0..m /\ k # m + 1
        BY <3>2
      <4>2. f[k] = OneOfEach(w, numPhy)
        BY <2>1, <3>2, <4>1
      <4> QED BY <3>2, <4>1, <4>2
    <3>3. CASE k # m + 1 /\ k # 0
      <4>1. k \in 0..m /\ k - 1 \in 0..(m + 1) /\ k - 1 # m + 1
        BY <3>3
      <4>2. g[k] = f[k] /\ g[k - 1] = f[k - 1]
        BY <3>3, <4>1
      <4>3. f[k] = Replica(w, f[k - 1], n + k - 1)
        BY <2>1, <3>3, <4>1
      <4> QED BY <3>3, <4>2, <4>3
    <3> QED BY <3>1, <3>2, <3>3
  <2>3. g = [k \in 0..(m + 1) |-> g[k]]
    OBVIOUS
  <2> HIDE DEF g
  <2>4. g = [k \in 0..(m + 1) |-> IF k = 0 THEN OneOfEach(w, numPhy) ELSE Replica(w, g[k - 1], n + k - 1)]
    BY <2>2, <2>3
  <2> QED BY <2>4
<1>3. Nat \subseteq S
  <2> HIDE DEF S
  <2> QED BY <1>1, <1>2, Induct
<1> DEFINE f == CHOOSE g : g = [k \in 0..N |->
                  IF k = 0 THEN OneOfEach(w, numPhy) ELSE Replica(w, g[k - 1], n + k - 1)]
<1>4. replicate_experts(w, numPhy) = f[N]
  BY DEF replicate_experts
<1>5. f = [k \in 0..N |-> IF k = 0 THEN OneOfEach(w, numPhy) ELSE Replica(w, f[k - 1], n + k - 1)]
  <2>1. \E g : g = [k \in 0..N |-> IF k = 0 THEN OneOfEach(w, numPhy) ELSE Replica(w, g[k - 1], n + k - 1)]
    <3> HIDE DEF N
    <3> QED BY <1>0, <1>3
  <2> QED BY <2>1, Zenon
<1> HIDE DEF f
<1>6. f[0] = OneOfEach(w, numPhy) /\ \A k \in 1..N : f[k] = Replica(w, f[k - 1], n + k - 1)
  BY <1>5
<1> QED BY <1>4, <1>6, Zenon

\* replicate_experts makes all slots replicas, numbered without a gap for each expert,
\* and gives none to an expert while another has more load per replica.
THEOREM Replicates ==
  ASSUME NEW n \in Nat \ {0}, NEW numPhy \in Nat, n <= numPhy, NEW w \in [Upto(n) -> Nat]
  PROVE  Replicated(n, numPhy, w, numPhy, replicate_experts(w, numPhy))
<1> DEFINE N == numPhy - n
<1>1. Cardinality(DOMAIN w) = n /\ N \in Nat /\ numPhy - n = N /\ n + N = numPhy
  BY UptoFacts
<1>2. PICK f : /\ replicate_experts(w, numPhy) = f[N] /\ f[0] = OneOfEach(w, numPhy)
               /\ \A k \in 1..N : f[k] = Replica(w, f[k - 1], n + k - 1)
  BY <1>1, ReplicateUnfolds
<1> HIDE DEF N
<1> DEFINE S == {k \in 0..N : Replicated(n, numPhy, w, n + k, f[k])}
<1>3. 0 \in S
  <2>1. Replicated(n, numPhy, w, n, OneOfEach(w, numPhy)) /\ n + 0 = n
    BY OneOfEachReplicated
  <2> QED BY <1>1, <1>2, <2>1
<1>4. ASSUME NEW k \in Nat, k < N /\ k \in S PROVE k + 1 \in S
  <2>1. k + 1 \in 1..N /\ k + 1 - 1 = k /\ n + (k + 1) - 1 = n + k
    BY <1>1, <1>4
  <2>2. f[k + 1] = Replica(w, f[k], n + k)
    BY <1>2, <2>1
  <2>3. n + k \in Nat /\ n + k < numPhy /\ n + (k + 1) = n + k + 1
    BY <1>1, <1>4
  <2>4. Replicated(n, numPhy, w, n + k, f[k])
    BY <1>4
  <2>5. Replicated(n, numPhy, w, n + k + 1, Replica(w, f[k], n + k))
    BY <2>3, <2>4, ReplicaReplicates
  <2>6. Replicated(n, numPhy, w, n + (k + 1), f[k + 1])
    BY <2>2, <2>3, <2>5
  <2> QED BY <2>1, <2>6
<1>5. N \in S
  <2> HIDE DEF S
  <2>1. 0..N \subseteq S
    BY <1>1, <1>3, <1>4, InductUpto
  <2> QED BY <1>1, <2>1
<1> QED BY <1>1, <1>2, <1>5

\* A number for each k, each made from the one before.
LEMMA Iterate ==
  ASSUME NEW N \in Nat, NEW b \in Nat, NEW step \in [(1..N) \X Nat -> Nat]
  PROVE  \E f \in [0..N -> Nat] : f[0] = b /\ \A k \in 1..N : f[k] = step[<<k, f[k - 1]>>]
<1> DEFINE S == {m \in Nat : m <= N => \E f \in [0..m -> Nat] :
                   f[0] = b /\ \A k \in 1..m : f[k] = step[<<k, f[k - 1]>>]}
<1>1. 0 \in S
  <2> DEFINE f == [k \in 0..0 |-> b]
  <2>1. f \in [0..0 -> Nat] /\ f[0] = b /\ \A k \in 1..0 : f[k] = step[<<k, f[k - 1]>>]
    OBVIOUS
  <2> HIDE DEF f
  <2> QED BY <2>1
<1>2. ASSUME NEW m \in Nat, m \in S PROVE m + 1 \in S
  <2>0. SUFFICES ASSUME m + 1 <= N
                 PROVE  \E f \in [0..(m + 1) -> Nat] :
                          f[0] = b /\ \A k \in 1..(m + 1) : f[k] = step[<<k, f[k - 1]>>]
    OBVIOUS
  <2>1. PICK f \in [0..m -> Nat] : f[0] = b /\ \A k \in 1..m : f[k] = step[<<k, f[k - 1]>>]
    BY <1>2, <2>0
  <2> DEFINE x == step[<<m + 1, f[m]>>]
             g == [k \in 0..(m + 1) |-> IF k = m + 1 THEN x ELSE f[k]]
  <2>2. x \in Nat
    <3>1. m + 1 \in 1..N /\ f[m] \in Nat
      BY <2>0, <2>1
    <3> QED BY <3>1
  <2>3. ASSUME NEW k \in 1..(m + 1)
        PROVE  g[k] = step[<<k, g[k - 1]>>]
    <3>1. CASE k = m + 1
      <4>1. k - 1 = m /\ m \in 0..(m + 1) /\ m # m + 1 /\ k \in 0..(m + 1)
        BY <3>1
      <4>2. g[m] = f[m]
        BY <4>1
      <4>3. g[k] = x
        BY <3>1, <4>1
      <4> QED BY <3>1, <4>1, <4>2, <4>3
    <3>2. CASE k # m + 1
      <4>1. k \in 1..m /\ k \in 0..(m + 1) /\ k - 1 \in 0..(m + 1) /\ k - 1 # m + 1
        BY <3>2
      <4>2. g[k] = f[k] /\ g[k - 1] = f[k - 1]
        BY <3>2, <4>1
      <4>3. f[k] = step[<<k, f[k - 1]>>]
        BY <2>1, <4>1
      <4> QED BY <4>2, <4>3
    <3> QED BY <3>1, <3>2
  <2>4. g \in [0..(m + 1) -> Nat] /\ g[0] = b
    BY <2>1, <2>2
  <2> HIDE DEF g
  <2> QED BY <2>3, <2>4
<1>3. N \in S
  <2>1. Nat \subseteq S
    <3> HIDE DEF S
    <3> QED BY <1>1, <1>2, Induct
  <2> HIDE DEF S
  <2> QED BY <2>1
<1> QED BY <1>3

\* Sums and products of natural numbers are such numbers.
LEMMA SumProductType ==
  ASSUME NEW n \in Nat, NEW f \in [Upto(n) -> Nat]
  PROVE  Sum(f, n) \in Nat /\ Product(f, n) \in Nat
<1>1. \A i \in 1..n : f[i - 1] \in Nat
  BY UptoFacts
<1>2. Sum(f, n) \in Nat
  <2> DEFINE s == CHOOSE s : s = [i \in 0..n |-> IF i = 0 THEN 0 ELSE s[i - 1] + f[i - 1]]
             step == [x \in (1..n) \X Nat |-> x[2] + f[x[1] - 1]]
  <2>1. step \in [(1..n) \X Nat -> Nat]
    BY <1>1
  <2>2. PICK t \in [0..n -> Nat] : t[0] = 0 /\ \A k \in 1..n : t[k] = step[<<k, t[k - 1]>>]
    <3> HIDE DEF step
    <3>1. 0 \in Nat
      OBVIOUS
    <3> QED BY <2>1, <3>1, Iterate, Zenon
  <2>3. \A k \in 0..n : t[k] = IF k = 0 THEN 0 ELSE t[k - 1] + f[k - 1]
    <3>1. ASSUME NEW k \in 0..n, k # 0 PROVE t[k] = t[k - 1] + f[k - 1]
      <4>1. k \in 1..n /\ k - 1 \in 0..n
        BY <3>1
      <4>2. t[k] = step[<<k, t[k - 1]>>] /\ t[k - 1] \in Nat
        BY <2>2, <3>1, <4>1
      <4> QED BY <4>1, <4>2
    <3>2. t[0] = 0
      BY <2>2
    <3> QED BY <3>1, <3>2
  <2>4. t = [i \in 0..n |-> IF i = 0 THEN 0 ELSE t[i - 1] + f[i - 1]]
    <3>1. t = [i \in 0..n |-> t[i]]
      BY <2>2
    <3> QED BY <2>3, <3>1
  <2>5. s = [i \in 0..n |-> IF i = 0 THEN 0 ELSE s[i - 1] + f[i - 1]]
    BY <2>4, Zenon
  <2>6. Sum(f, n) = s[n]
    BY DEF Sum
  <2> HIDE DEF s
  <2> DEFINE S == {k \in 0..n : s[k] \in Nat}
  <2>7. 0 \in S
    BY <2>5
  <2>8. ASSUME NEW k \in Nat, k < n /\ k \in S PROVE k + 1 \in S
    <3>1. k + 1 \in 1..n /\ k + 1 \in 0..n /\ k + 1 # 0 /\ k + 1 - 1 = k
      BY <2>8
    <3>2. s[k + 1] = s[k] + f[k]
      BY <2>5, <3>1
    <3>3. f[k] \in Nat /\ s[k] \in Nat
      <4>1. k \in Upto(n)
        BY <2>8, UptoFacts
      <4> QED BY <2>8, <4>1
    <3> QED BY <3>1, <3>2, <3>3
  <2>9. n \in S
    <3> HIDE DEF S
    <3>1. 0..n \subseteq S
      BY <2>7, <2>8, InductUpto
    <3> QED BY <3>1
  <2> QED BY <2>6, <2>9
<1>3. Product(f, n) \in Nat
  <2> DEFINE s == CHOOSE s : s = [i \in 0..n |-> IF i = 0 THEN 1 ELSE s[i - 1] * f[i - 1]]
             step == [x \in (1..n) \X Nat |-> x[2] * f[x[1] - 1]]
  <2>1. step \in [(1..n) \X Nat -> Nat]
    BY <1>1
  <2>2. PICK t \in [0..n -> Nat] : t[0] = 1 /\ \A k \in 1..n : t[k] = step[<<k, t[k - 1]>>]
    <3> HIDE DEF step
    <3>1. 1 \in Nat
      OBVIOUS
    <3> QED BY <2>1, <3>1, Iterate, Zenon
  <2>3. \A k \in 0..n : t[k] = IF k = 0 THEN 1 ELSE t[k - 1] * f[k - 1]
    <3>1. ASSUME NEW k \in 0..n, k # 0 PROVE t[k] = t[k - 1] * f[k - 1]
      <4>1. k \in 1..n /\ k - 1 \in 0..n
        BY <3>1
      <4>2. t[k] = step[<<k, t[k - 1]>>] /\ t[k - 1] \in Nat
        BY <2>2, <3>1, <4>1
      <4> QED BY <4>1, <4>2
    <3>2. t[0] = 1
      BY <2>2
    <3> QED BY <3>1, <3>2
  <2>4. t = [i \in 0..n |-> IF i = 0 THEN 1 ELSE t[i - 1] * f[i - 1]]
    <3>1. t = [i \in 0..n |-> t[i]]
      BY <2>2
    <3> QED BY <2>3, <3>1
  <2>5. s = [i \in 0..n |-> IF i = 0 THEN 1 ELSE s[i - 1] * f[i - 1]]
    BY <2>4, Zenon
  <2>6. Product(f, n) = s[n]
    BY DEF Product
  <2> HIDE DEF s
  <2> DEFINE S == {k \in 0..n : s[k] \in Nat}
  <2>7. 0 \in S
    BY <2>5
  <2>8. ASSUME NEW k \in Nat, k < n /\ k \in S PROVE k + 1 \in S
    <3>1. k + 1 \in 1..n /\ k + 1 \in 0..n /\ k + 1 # 0 /\ k + 1 - 1 = k
      BY <2>8
    <3>2. s[k + 1] = s[k] * f[k]
      BY <2>5, <3>1
    <3>3. f[k] \in Nat /\ s[k] \in Nat
      <4>1. k \in Upto(n)
        BY <2>8, UptoFacts
      <4> QED BY <2>8, <4>1
    <3> QED BY <3>1, <3>2, <3>3
  <2>9. n \in S
    <3> HIDE DEF S
    <3>1. 0..n \subseteq S
      BY <2>7, <2>8, InductUpto
    <3> QED BY <3>1
  <2> QED BY <2>6, <2>9
<1> QED BY <1>2, <1>3

\* A map of Upto(n) to itself that takes no value twice.
Permutation(n, f) == f \in [Upto(n) -> Upto(n)] /\ \A x, z \in Upto(n) : f[x] = f[z] => x = z

\* One number of a pack and a rank for each item: a permutation of the items.
LEMMA PackedPlaces ==
  ASSUME NEW m \in Nat \ {0}, NEW per \in Nat \ {0}, NEW n \in Nat, n = m * per,
         NEW b, GoodPacking(n, m, per, b)
  PROVE  Permutation(n, [i \in Upto(n) |-> b.pack[i] * per + b.rank[i]])
<1> DEFINE f == [i \in Upto(n) |-> b.pack[i] * per + b.rank[i]]
<1>1. \A i \in Upto(n) : b.pack[i] \in Nat /\ b.pack[i] < m /\ b.rank[i] \in Nat /\ b.rank[i] < per
  BY UptoFacts DEF GoodPacking
<1>2. ASSUME NEW i \in Upto(n) PROVE b.pack[i] * per + b.rank[i] \in Upto(n)
  <2> DEFINE p == b.pack[i]
             r == b.rank[i]
  <2>1. p \in Nat /\ p < m /\ r \in Nat /\ r < per
    BY <1>1
  <2> HIDE DEF p, r
  <2>2. p * per + r \in Nat /\ p * per + r < m * per
    BY <2>1, Digits
  <2>3. p * per + r \in Upto(n)
    BY <2>2, UptoFacts
  <2> QED BY <2>3 DEF p, r
<1>3. ASSUME NEW x \in Upto(n), NEW z \in Upto(n), f[x] = f[z] PROVE x = z
  <2> DEFINE p == b.pack[x]  q == b.pack[z]  r == b.rank[x]  s == b.rank[z]
  <2>1. p \in Nat /\ q \in Nat /\ r \in Nat /\ r < per /\ s \in Nat /\ s < per
    BY <1>1
  <2>2. p * per + r = q * per + s
    BY <1>3
  <2> HIDE DEF p, q, r, s
  <2>3. p = q /\ r = s
    BY <2>1, <2>2, DigitsEqual
  <2> QED BY <2>3 DEF p, q, r, s, GoodPacking
<1>4. f \in [Upto(n) -> Upto(n)]
  BY <1>2
<1> HIDE DEF f
<1>5. Permutation(n, f)
  BY <1>3, <1>4 DEF Permutation
<1> QED BY <1>5 DEF f

\* The places of a node are the replicas of its experts, numbered from 0 for each.
NodeSound(n, numPhy, w, x) ==
  /\ x.phy2mlog \in [Upto(numPhy) -> Upto(n)] /\ x.rank \in [Upto(numPhy) -> Nat]
  /\ x.cnt \in [Upto(n) -> Nat \ {0}]
  /\ \A q \in Upto(numPhy) : x.rank[q] < x.cnt[x.phy2mlog[q]]
  /\ \A q, r \in Upto(numPhy) : x.phy2mlog[q] = x.phy2mlog[r] /\ x.rank[q] = x.rank[r] => q = r
  /\ \A e \in Upto(n), k \in Nat : k < x.cnt[e] =>
       \E q \in Upto(numPhy) : x.phy2mlog[q] = e /\ x.rank[q] = k
  /\ Greedy(n, w, x.cnt)

\* The replicas of a node are permuted, so that the GPUs get as many each.
LEMMA ReplicasPermuted ==
  ASSUME NEW n \in Nat \ {0}, NEW numPhy \in Nat, NEW gpus \in Nat \ {0}, numPhy = gpus * NumLocal,
         NEW w \in [Upto(n) -> Nat], NEW reps, Replicated(n, numPhy, w, numPhy, reps)
  PROVE  /\ PackReplicas(w, reps, gpus) \in [Upto(numPhy) -> Upto(numPhy)]
         /\ \A x, z \in Upto(numPhy) : PackReplicas(w, reps, gpus)[x] = PackReplicas(w, reps, gpus)[z] => x = z
         /\ \A t \in Upto(numPhy) : \E s \in Upto(numPhy) : PackReplicas(w, reps, gpus)[s] = t
<1>0. NumLocal \in Nat \ {0}
  BY TopologyAssumption
<1>1. /\ reps.phy2log \in [Upto(numPhy) -> Nat] /\ reps.cnt \in [Upto(n) -> Nat \ {0}]
      /\ \A q \in Upto(numPhy) : reps.phy2log[q] \in Upto(n)
  BY DEF Replicated
<1>2. DOMAIN reps.phy2log = Upto(numPhy) /\ Cardinality(DOMAIN w) = n
  BY <1>1, UptoFacts
<1> DEFINE scale == Product(reps.cnt, n)
           v == [p \in Upto(numPhy) |-> w[reps.phy2log[p]] * (scale \div reps.cnt[reps.phy2log[p]])]
           b == balanced_packing(v, gpus)
           f == [i \in Upto(numPhy) |-> b.pack[i] * NumLocal + b.rank[i]]
<1>3. PackReplicas(w, reps, gpus) = AntiFunction(f)
  BY <1>2 DEF PackReplicas
<1>4. v \in [Upto(numPhy) -> Nat]
  <2>1. scale \in Nat
    BY <1>1, SumProductType
  <2> HIDE DEF scale
  <2>2. ASSUME NEW p \in Upto(numPhy) PROVE w[reps.phy2log[p]] * (scale \div reps.cnt[reps.phy2log[p]]) \in Nat
    <3> DEFINE a == w[reps.phy2log[p]]
               c == reps.cnt[reps.phy2log[p]]
    <3>1. a \in Nat /\ c \in Nat \ {0}
      BY <1>1
    <3> HIDE DEF a, c
    <3>2. scale \div c \in Nat
      BY <2>1, <3>1, DivMod
    <3>3. a * (scale \div c) \in Nat
      BY <3>1, <3>2
    <3> QED BY <3>3 DEF a, c
  <2> QED BY <2>2
<1> HIDE DEF v
<1>5. GoodPacking(numPhy, gpus, NumLocal, b)
  BY <1>0, <1>4, PackingSound
<1> HIDE DEF b
<1>6. Permutation(numPhy, f)
  BY <1>0, <1>5, PackedPlaces
<1> DEFINE g == AntiFunction(f)
<1> HIDE DEF f
<1>7. g \in [Upto(numPhy) -> Upto(numPhy)] /\ \A t \in Upto(numPhy) : f[g[t]] = t /\ g[f[t]] = t
  BY <1>6, InverseOf DEF Permutation
<1> HIDE DEF g
<1>8. \A x, z \in Upto(numPhy) : g[x] = g[z] => x = z
  BY <1>7
<1>9. \A t \in Upto(numPhy) : \E s \in Upto(numPhy) : g[s] = t
  <2>1. ASSUME NEW t \in Upto(numPhy) PROVE \E s \in Upto(numPhy) : g[s] = t
    <3>1. f[t] \in Upto(numPhy) /\ g[f[t]] = t
      BY <1>6, <1>7 DEF Permutation
    <3> QED BY <3>1
  <2> QED BY <2>1
<1>10. PackReplicas(w, reps, gpus) = g
  BY <1>3 DEF g
<1> QED BY <1>7, <1>8, <1>9, <1>10

\* PlaceNode makes such a node.
LEMMA NodePlaced ==
  ASSUME NEW n \in Nat \ {0}, NEW numPhy \in Nat, n <= numPhy, NEW gpus \in Nat \ {0}, numPhy = gpus * NumLocal,
         NEW w \in [Upto(n) -> Nat]
  PROVE  NodeSound(n, numPhy, w, PlaceNode(w, numPhy, gpus))
<1> DEFINE reps == replicate_experts(w, numPhy)
           g == PackReplicas(w, reps, gpus)
           x == PlaceNode(w, numPhy, gpus)
<1>1. Replicated(n, numPhy, w, numPhy, reps)
  BY Replicates
<1>2. /\ x.phy2mlog = [p \in Upto(numPhy) |-> reps.phy2log[g[p]]]
      /\ x.rank = [p \in Upto(numPhy) |-> reps.rank[g[p]]]
      /\ x.cnt = reps.cnt
  BY DEF PlaceNode
<1> HIDE DEF reps, x
<1>3. /\ g \in [Upto(numPhy) -> Upto(numPhy)]
      /\ \A y, z \in Upto(numPhy) : g[y] = g[z] => y = z
      /\ \A t \in Upto(numPhy) : \E s \in Upto(numPhy) : g[s] = t
  BY <1>1, ReplicasPermuted
<1> HIDE DEF g
<1>4. /\ reps.rank \in [Upto(numPhy) -> Nat] /\ reps.cnt \in [Upto(n) -> Nat \ {0}]
      /\ \A q \in Upto(numPhy) : reps.phy2log[q] \in Upto(n) /\ reps.rank[q] < reps.cnt[reps.phy2log[q]]
      /\ \A q, r \in Upto(numPhy) : reps.phy2log[q] = reps.phy2log[r] /\ reps.rank[q] = reps.rank[r] => q = r
      /\ \A e \in Upto(n), k \in Nat : k < reps.cnt[e] =>
           \E q \in Upto(numPhy) : reps.phy2log[q] = e /\ reps.rank[q] = k
      /\ Greedy(n, w, reps.cnt)
  BY <1>1 DEF Replicated
<1>5. \A q \in Upto(numPhy) : x.phy2mlog[q] = reps.phy2log[g[q]] /\ x.rank[q] = reps.rank[g[q]] /\ g[q] \in Upto(numPhy)
  BY <1>2, <1>3
<1>6. x.phy2mlog \in [Upto(numPhy) -> Upto(n)] /\ x.rank \in [Upto(numPhy) -> Nat]
  <2>1. ASSUME NEW q \in Upto(numPhy) PROVE reps.phy2log[g[q]] \in Upto(n) /\ reps.rank[g[q]] \in Nat
    BY <1>3, <1>4
  <2> QED BY <1>2, <2>1
<1>7. \A q \in Upto(numPhy) : x.rank[q] < x.cnt[x.phy2mlog[q]]
  BY <1>2, <1>4, <1>5
<1>8. \A q, r \in Upto(numPhy) : x.phy2mlog[q] = x.phy2mlog[r] /\ x.rank[q] = x.rank[r] => q = r
  BY <1>3, <1>4, <1>5
<1>9. ASSUME NEW e \in Upto(n), NEW k \in Nat, k < x.cnt[e]
      PROVE  \E q \in Upto(numPhy) : x.phy2mlog[q] = e /\ x.rank[q] = k
  <2>1. PICK t \in Upto(numPhy) : reps.phy2log[t] = e /\ reps.rank[t] = k
    BY <1>2, <1>4, <1>9
  <2>2. PICK q \in Upto(numPhy) : g[q] = t
    BY <1>3
  <2> QED BY <1>5, <2>1, <2>2
<1>10. Greedy(n, w, x.cnt) /\ x.cnt \in [Upto(n) -> Nat \ {0}]
  BY <1>2, <1>4
<1>11. NodeSound(n, numPhy, w, x)
  BY <1>6, <1>7, <1>8, <1>9, <1>10 DEF NodeSound
<1> QED BY <1>11 DEF x

\* f is a new order of the experts that leaves those of a group within one block of k.
KeepsGroups(size, k, f) ==
  /\ f \in [Logical -> Logical]
  /\ \A x, z \in Logical : f[x] = f[z] => x = z
  /\ \A x, z \in Logical : x \div size = z \div size => f[x] \div k = f[z] \div k

\* Step 1 permutes the experts, and those of one group get to one node.
LEMMA GroupsPacked ==
  ASSUME NEW nodes \in Nat \ {0}, NEW per \in Nat \ {0}, NEW groups \in Nat \ {0}, groups = nodes * per,
         NEW size \in Nat \ {0}, NumLogical = groups * size, NEW w \in [Logical -> Nat]
  PROVE  KeepsGroups(size, per * size, PackGroups(w, groups, nodes))
<1> DEFINE tokens == [g \in Upto(groups) |-> Sum([i \in Upto(size) |-> w[g * size + i]], size)]
           b == balanced_packing(tokens, nodes)
           f == PackGroups(w, groups, nodes)
<1>1. NumLogical \div groups = size /\ groups \div nodes = per /\ NumLogical \in Nat
  <2>1. groups * size = size * groups /\ nodes * per = per * nodes
    OBVIOUS
  <2> QED BY <2>1, DivProduct
<1>2. f = [l \in Logical |-> (b.pack[l \div size] * per + b.rank[l \div size]) * size + (l % size)]
  BY <1>1 DEF PackGroups
<1>3. tokens \in [Upto(groups) -> Nat]
  <2>1. ASSUME NEW g \in Upto(groups) PROVE Sum([i \in Upto(size) |-> w[g * size + i]], size) \in Nat
    <3>1. ASSUME NEW i \in Upto(size) PROVE w[g * size + i] \in Nat
      <4>1. g \in Nat /\ g < groups /\ i \in Nat /\ i < size
        BY UptoFacts
      <4>2. g * size + i \in Nat /\ g * size + i < groups * size
        BY <4>1, Digits
      <4>3. g * size + i \in Logical
        BY <1>1, <4>2, UptoFacts DEF Logical
      <4> QED BY <4>3
    <3> DEFINE h == [i \in Upto(size) |-> w[g * size + i]]
    <3>2. h \in [Upto(size) -> Nat]
      BY <3>1
    <3> HIDE DEF h
    <3>3. Sum(h, size) \in Nat
      BY <3>2, SumProductType
    <3> QED BY <3>3 DEF h
  <2> QED BY <2>1
<1> HIDE DEF tokens
<1>4. GoodPacking(groups, nodes, per, b)
  BY <1>3, PackingSound
<1> HIDE DEF b
<1> DEFINE h == [i \in Upto(groups) |-> b.pack[i] * per + b.rank[i]]
<1>5. h \in [Upto(groups) -> Upto(groups)] /\ \A x, z \in Upto(groups) : h[x] = h[z] => x = z
  <2>1. Permutation(groups, h)
    BY <1>4, PackedPlaces
  <2> HIDE DEF h
  <2> QED BY <2>1 DEF Permutation
<1>6. ASSUME NEW x \in Logical
      PROVE  /\ x \div size \in Upto(groups) /\ x % size \in Nat /\ x % size < size
             /\ x = (x \div size) * size + (x % size)
             /\ f[x] = h[x \div size] * size + (x % size)
             /\ h[x \div size] = b.pack[x \div size] * per + b.rank[x \div size]
  <2>1. x \in Nat /\ x < groups * size
    BY <1>1, UptoFacts DEF Logical
  <2>2. /\ x \div size \in Nat /\ x \div size < groups /\ x % size \in Nat /\ x % size < size
        /\ x = (x \div size) * size + (x % size)
    BY <2>1, DigitsOf
  <2>3. x \div size \in Upto(groups)
    BY <2>2, UptoFacts
  <2>4. f[x] = (b.pack[x \div size] * per + b.rank[x \div size]) * size + (x % size)
    BY <1>2
  <2> QED BY <2>2, <2>3, <2>4
<1> HIDE DEF f, h
<1>7. ASSUME NEW x \in Logical PROVE f[x] \in Logical
  <2> DEFINE a == h[x \div size]
             r == x % size
  <2>1. a \in Nat /\ a < groups /\ r \in Nat /\ r < size /\ f[x] = a * size + r
    BY <1>5, <1>6, UptoFacts
  <2> HIDE DEF a, r
  <2>2. f[x] \in Nat /\ f[x] < groups * size
    BY <2>1, Digits
  <2> QED BY <1>1, <2>2, UptoFacts DEF Logical
<1>8. ASSUME NEW x \in Logical, NEW z \in Logical, f[x] = f[z] PROVE x = z
  <2> DEFINE a == h[x \div size]  r == x % size
             c == h[z \div size]  s == z % size
  <2>1. a \in Nat /\ r \in Nat /\ r < size /\ c \in Nat /\ s \in Nat /\ s < size /\ a * size + r = c * size + s
    BY <1>5, <1>6, <1>8, UptoFacts
  <2> HIDE DEF a, c, r, s
  <2>2. a = c /\ r = s
    BY <2>1, DigitsEqual
  <2>3. x \div size = z \div size /\ x % size = z % size
    BY <1>5, <1>6, <2>2 DEF a, c, r, s
  <2> QED BY <1>6, <2>3
<1>9. ASSUME NEW x \in Logical PROVE f[x] \div (per * size) = b.pack[x \div size]
  <2> DEFINE p == b.pack[x \div size]  k == b.rank[x \div size]  r == x % size
  <2>1. p \in Nat /\ k \in Nat /\ k < per /\ r \in Nat /\ r < size /\ f[x] = (p * per + k) * size + r
    BY <1>4, <1>6, UptoFacts DEF GoodPacking
  <2> HIDE DEF p, k, r
  <2>2. k * size + r \in Nat /\ k * size + r < per * size
    BY <2>1, Digits
  <2> DEFINE s == k * size + r
             m == per * size
  <2>3. m \in Nat \ {0}
    <3>1. m \in Nat /\ m # 0
      BY <2>2
    <3> QED BY <3>1
  <2>4. f[x] = p * m + s
    <3>1. (p * per + k) * size = (p * per) * size + k * size /\ (p * per) * size = p * (per * size)
      BY <2>1
    <3>2. (p * per) * size \in Nat /\ k * size \in Nat
      BY <2>1
    <3> QED BY <2>1, <3>1, <3>2
  <2>5. s \in Nat /\ s < m
    BY <2>2
  <2> HIDE DEF s, m
  <2>6. f[x] \div m = p
    <3>1. (p * m + s) \div m = p
      BY <2>1, <2>3, <2>5, 0 \in Nat, Digits
    <3> QED BY <2>4, <3>1
  <2> QED BY <2>6 DEF m, p
<1>10. ASSUME NEW x \in Logical, NEW z \in Logical, x \div size = z \div size
       PROVE  f[x] \div (per * size) = f[z] \div (per * size)
  BY <1>9, <1>10
<1>11. f \in [Logical -> Logical]
  BY <1>2, <1>7 DEF f
<1>12. KeepsGroups(size, per * size, f)
  BY <1>8, <1>10, <1>11 DEF KeepsGroups
<1> QED BY <1>12 DEF f

\* A placement: the slots are the replicas of the experts, numbered from 0 for each.
Numbered(a) ==
  /\ a.phy2log \in Maps /\ a.rank \in [Physical -> Nat] /\ a.cnt \in [Logical -> Nat \ {0}]
  /\ \A p \in Physical : a.rank[p] < a.cnt[a.phy2log[p]]
  /\ \A p, q \in Physical : a.phy2log[p] = a.phy2log[q] /\ a.rank[p] = a.rank[q] => p = q
  /\ \A l \in Logical, k \in Nat : k < a.cnt[l] => \E p \in Physical : a.phy2log[p] = l /\ a.rank[p] = k

\* Node nodeOf[l] has all replicas of expert l; within a node they are shared out greedily.
NodeWise(w, perNode, nodeOf, a) ==
  /\ \A p \in Physical : nodeOf[a.phy2log[p]] = p \div perNode
  /\ \A i, j \in Logical : nodeOf[i] = nodeOf[j] => w[i] * a.cnt[j] >= w[j] * (a.cnt[i] - 1)

\* The nodes put together.
LEMMA NodesAssembled ==
  ASSUME NEW nodes \in Nat \ {0}, NEW k \in Nat \ {0}, NumLogical = nodes * k,
         NEW gpus \in Nat \ {0}, NumGpus = nodes * gpus, k <= gpus * NumLocal,
         NEW w \in [Logical -> Nat], NEW f \in [Logical -> Logical],
         \A x, z \in Logical : f[x] = f[z] => x = z
  PROVE  /\ Numbered(Assemble(w, f, AntiFunction(f), nodes))
         /\ NodeWise(w, gpus * NumLocal, [l \in Logical |-> f[l] \div k], Assemble(w, f, AntiFunction(f), nodes))
<1> DEFINE h == AntiFunction(f)
           P == gpus * NumLocal
           v(n) == [i \in Upto(k) |-> w[h[n * k + i]]]
           nd == [n \in Upto(nodes) |-> PlaceNode(v(n), P, gpus)]
           a == Assemble(w, f, h, nodes)
<1>1. NumLogical \in Nat /\ NumLocal \in Nat \ {0} /\ NumPhysical \in Nat /\ P \in Nat \ {0} /\ NumPhysical = nodes * P
  <2>1. NumLocal \in Nat \ {0}
    BY TopologyAssumption
  <2>2. NumPhysical = (nodes * gpus) * NumLocal
    BY DEF NumPhysical
  <2>3. (nodes * gpus) * NumLocal = nodes * (gpus * NumLocal) /\ gpus * NumLocal \in Nat
    BY <2>1
  <2>4. gpus * NumLocal # 0
    BY <2>3
  <2>5. P \in Nat \ {0} /\ NumPhysical = nodes * P
    BY <2>2, <2>3, <2>4
  <2>6. NumPhysical \in Nat
    <3> HIDE DEF P
    <3> QED BY <2>5
  <2>7. NumLogical \in Nat
    OBVIOUS
  <2> QED BY <2>1, <2>5, <2>6, <2>7
<1>2. NumLogical \div nodes = k /\ NumPhysical \div nodes = P /\ NumGpus \div nodes = gpus
  <2>1. nodes * k = k * nodes /\ nodes * P = P * nodes /\ nodes * gpus = gpus * nodes
    BY <1>1
  <2> HIDE DEF P
  <2>2. (k * nodes) \div nodes = k /\ (P * nodes) \div nodes = P /\ (gpus * nodes) \div nodes = gpus
    BY <1>1, DivProduct
  <2> QED BY <1>1, <2>1, <2>2
<1>3. a = [phy2log |-> [p \in Physical |-> h[(p \div P) * k + nd[p \div P].phy2mlog[p % P]]],
           rank    |-> [p \in Physical |-> nd[p \div P].rank[p % P]],
           cnt     |-> [l \in Logical |-> nd[f[l] \div k].cnt[f[l] % k]]]
  <2> DEFINE node(k1, p1, g1) == [n \in Upto(nodes) |->
                                   PlaceNode([i \in Upto(k1) |-> w[h[n * k1 + i]]], p1, g1)]
             A(k1, p1, g1) ==
               [phy2log |-> [p \in Physical |-> h[(p \div p1) * k1 + node(k1, p1, g1)[p \div p1].phy2mlog[p % p1]]],
                rank    |-> [p \in Physical |-> node(k1, p1, g1)[p \div p1].rank[p % p1]],
                cnt     |-> [l \in Logical |-> node(k1, p1, g1)[f[l] \div k1].cnt[f[l] % k1]]]
  <2>1. a = A(NumLogical \div nodes, NumPhysical \div nodes, NumGpus \div nodes)
    BY Zenon DEF Assemble
  <2>2. A(NumLogical \div nodes, NumPhysical \div nodes, NumGpus \div nodes) = A(k, P, gpus)
    <3> HIDE DEF A, P
    <3> QED BY <1>2, Zenon
  <2> QED BY <2>1, <2>2, Zenon
<1>4. h \in [Logical -> Logical] /\ \A t \in Logical : f[h[t]] = t /\ h[f[t]] = t
  BY <1>1, InverseOf DEF Logical
<1> HIDE DEF h, P
<1>5. ASSUME NEW n \in Upto(nodes), NEW i \in Upto(k)
      PROVE  /\ n * k + i \in Logical
             /\ (n * k + i) \div k = n /\ (n * k + i) % k = i
  <2>1. n \in Nat /\ n < nodes /\ i \in Nat /\ i < k
    BY UptoFacts
  <2>2. /\ n * k + i \in Nat /\ n * k + i < nodes * k
        /\ (n * k + i) \div k = n /\ (n * k + i) % k = i
    BY <2>1, Digits
  <2> QED BY <1>1, <2>2, UptoFacts DEF Logical
<1>6. \A n \in Upto(nodes) : v(n) \in [Upto(k) -> Nat]
  BY <1>4, <1>5
<1>7. \A n \in Upto(nodes) : NodeSound(k, P, v(n), nd[n])
  <2>1. ASSUME NEW n \in Upto(nodes) PROVE NodeSound(k, P, v(n), nd[n])
    <3>1. nd[n] = PlaceNode(v(n), P, gpus) /\ v(n) \in [Upto(k) -> Nat]
      BY <1>6
    <3>2. P \in Nat /\ k <= P /\ P = gpus * NumLocal
      BY <1>1 DEF P
    <3> HIDE DEF v, nd
    <3>3. NodeSound(k, P, v(n), PlaceNode(v(n), P, gpus))
      BY <3>1, <3>2, NodePlaced
    <3> QED BY <3>1, <3>3
  <2> QED BY <2>1
<1>8. \A n \in Upto(nodes), i \in Upto(k) : v(n)[i] = w[h[n * k + i]]
  OBVIOUS
<1> HIDE DEF v, nd, a
<1>9. /\ a.phy2log = [p \in Physical |-> h[(p \div P) * k + nd[p \div P].phy2mlog[p % P]]]
      /\ a.rank    = [p \in Physical |-> nd[p \div P].rank[p % P]]
      /\ a.cnt     = [l \in Logical |-> nd[f[l] \div k].cnt[f[l] % k]]
  BY <1>3
<1>10. ASSUME NEW p \in Physical
       PROVE  /\ p \div P \in Upto(nodes) /\ p % P \in Upto(P) /\ p = (p \div P) * P + (p % P)
  <2>1. p \in Nat /\ p < nodes * P
    BY <1>1, UptoFacts DEF Physical
  <2> QED BY <1>1, <2>1, DigitsOf, UptoFacts
<1>11. ASSUME NEW l \in Logical
       PROVE  /\ f[l] \div k \in Upto(nodes) /\ f[l] % k \in Upto(k)
              /\ f[l] = (f[l] \div k) * k + (f[l] % k)
              /\ h[f[l]] = l
  <2>1. f[l] \in Nat /\ f[l] < nodes * k
    BY <1>1, UptoFacts DEF Logical
  <2> QED BY <1>4, <2>1, DigitsOf, UptoFacts
<1>12. ASSUME NEW p \in Physical
       PROVE  LET n == p \div P
                  e == nd[n].phy2mlog[p % P]
              IN /\ e \in Upto(k) /\ a.phy2log[p] = h[n * k + e] /\ a.phy2log[p] \in Logical
                 /\ f[a.phy2log[p]] = n * k + e
                 /\ f[a.phy2log[p]] \div k = n /\ f[a.phy2log[p]] % k = e
                 /\ a.rank[p] = nd[n].rank[p % P] /\ a.rank[p] \in Nat
                 /\ a.cnt[a.phy2log[p]] = nd[n].cnt[e]
  <2> DEFINE n == p \div P
             q == p % P
             e == nd[n].phy2mlog[q]
  <2>1. n \in Upto(nodes) /\ q \in Upto(P)
    BY <1>10
  <2>2. a.phy2log[p] = h[n * k + e] /\ a.rank[p] = nd[n].rank[q]
    BY <1>9
  <2> HIDE DEF n, q
  <2>3. e \in Upto(k) /\ nd[n].rank[q] \in Nat
    BY <1>7, <2>1 DEF NodeSound
  <2> HIDE DEF e
  <2>4. n * k + e \in Logical /\ (n * k + e) \div k = n /\ (n * k + e) % k = e
    BY <1>5, <2>1, <2>3
  <2>5. a.phy2log[p] \in Logical /\ f[a.phy2log[p]] = n * k + e
    BY <1>4, <2>2, <2>4
  <2>6. a.cnt[a.phy2log[p]] = nd[n].cnt[e]
    <3> DEFINE L == a.phy2log[p]
    <3>1. L \in Logical /\ f[L] = n * k + e /\ f[L] \div k = n /\ f[L] % k = e
      BY <2>4, <2>5
    <3> HIDE DEF L
    <3>2. a.cnt[L] = nd[f[L] \div k].cnt[f[L] % k]
      BY <1>9, <3>1
    <3>3. a.cnt[L] = nd[n].cnt[e]
      BY <3>1, <3>2
    <3> QED BY <3>3 DEF L
  <2> QED BY <2>2, <2>3, <2>4, <2>5, <2>6 DEF n, q, e
<1>13. a.phy2log \in Maps /\ a.rank \in [Physical -> Nat]
  <2>1. \A p \in Physical : a.phy2log[p] \in Logical /\ a.rank[p] \in Nat
    BY <1>12
  <2>2. a.phy2log = [p \in Physical |-> a.phy2log[p]] /\ a.rank = [p \in Physical |-> a.rank[p]]
    BY <1>9
  <2> QED BY <2>1, <2>2 DEF Maps
<1>14. a.cnt \in [Logical -> Nat \ {0}]
  <2>1. ASSUME NEW l \in Logical PROVE nd[f[l] \div k].cnt[f[l] % k] \in Nat \ {0}
    BY <1>7, <1>11 DEF NodeSound
  <2> QED BY <1>9, <2>1
<1>15. ASSUME NEW p \in Physical PROVE a.rank[p] < a.cnt[a.phy2log[p]]
  <2>1. p \div P \in Upto(nodes) /\ p % P \in Upto(P)
    BY <1>10
  <2>2. nd[p \div P].rank[p % P] < nd[p \div P].cnt[nd[p \div P].phy2mlog[p % P]]
    BY <1>7, <2>1 DEF NodeSound
  <2> QED BY <1>12, <2>2
<1>16. ASSUME NEW p \in Physical, NEW q \in Physical, a.phy2log[p] = a.phy2log[q], a.rank[p] = a.rank[q]
       PROVE  p = q
  <2>1. p \div P = q \div P
    BY <1>12, <1>16
  <2> DEFINE n == p \div P
  <2>2. n \in Upto(nodes) /\ p % P \in Upto(P) /\ q % P \in Upto(P) /\ p = n * P + (p % P) /\ q = n * P + (q % P)
    BY <1>10, <2>1
  <2>3. nd[n].phy2mlog[p % P] = nd[n].phy2mlog[q % P] /\ nd[n].rank[p % P] = nd[n].rank[q % P]
    BY <1>12, <1>16, <2>1
  <2> HIDE DEF n
  <2>4. p % P = q % P
    BY <1>7, <2>2, <2>3 DEF NodeSound
  <2> QED BY <2>2, <2>4
<1>17. ASSUME NEW l \in Logical, NEW j \in Nat, j < a.cnt[l]
       PROVE  \E p \in Physical : a.phy2log[p] = l /\ a.rank[p] = j
  <2> DEFINE n == f[l] \div k
             e == f[l] % k
  <2>1. n \in Upto(nodes) /\ e \in Upto(k) /\ f[l] = n * k + e /\ h[f[l]] = l /\ a.cnt[l] = nd[n].cnt[e]
    BY <1>9, <1>11
  <2> HIDE DEF n, e
  <2>2. PICK q \in Upto(P) : nd[n].phy2mlog[q] = e /\ nd[n].rank[q] = j
    BY <1>7, <1>17, <2>1 DEF NodeSound
  <2> DEFINE p == n * P + q
  <2>3. p \in Physical /\ p \div P = n /\ p % P = q
    <3>1. n \in Nat /\ n < nodes /\ q \in Nat /\ q < P
      BY <1>1, <2>1, UptoFacts
    <3>2. p \in Nat /\ p < nodes * P /\ p \div P = n /\ p % P = q
      BY <1>1, <3>1, Digits
    <3> HIDE DEF p
    <3> QED BY <1>1, <3>2, UptoFacts DEF Physical
  <2> HIDE DEF p
  <2>4. a.phy2log[p] = l /\ a.rank[p] = j
    BY <1>12, <2>1, <2>2, <2>3
  <2> QED BY <2>3, <2>4
<1>18. Numbered(a)
  BY <1>13, <1>14, <1>15, <1>16, <1>17 DEF Numbered
<1>19. ASSUME NEW p \in Physical PROVE [l \in Logical |-> f[l] \div k][a.phy2log[p]] = p \div P
  BY <1>12
<1>20. ASSUME NEW i \in Logical, NEW j \in Logical, f[i] \div k = f[j] \div k
       PROVE  w[i] * a.cnt[j] >= w[j] * (a.cnt[i] - 1)
  <2> DEFINE n == f[i] \div k
             c == f[i] % k
             d == f[j] % k
  <2>1. /\ n \in Upto(nodes) /\ c \in Upto(k) /\ d \in Upto(k)
        /\ f[i] = n * k + c /\ f[j] = n * k + d /\ h[f[i]] = i /\ h[f[j]] = j
        /\ a.cnt[i] = nd[n].cnt[c] /\ a.cnt[j] = nd[n].cnt[d]
    BY <1>9, <1>11, <1>20
  <2> HIDE DEF n, c, d
  <2>2. v(n)[c] = w[i] /\ v(n)[d] = w[j]
    BY <1>8, <2>1
  <2>3. v(n)[c] * nd[n].cnt[d] >= v(n)[d] * (nd[n].cnt[c] - 1)
    BY <1>7, <2>1 DEF NodeSound, Greedy
  <2> QED BY <2>1, <2>2, <2>3
<1>21. NodeWise(w, P, [l \in Logical |-> f[l] \div k], a)
  BY <1>19, <1>20 DEF NodeWise
<1> QED BY <1>18, <1>21 DEF a, h, P

-----------------------------------------------------------------------------
(* The policies *)

\* A placement by loads w, for nodes with that many slots, with the groups of that size kept together.
Placed(w, slots, size, a) ==
  \E nodeOf :
    /\ Numbered(a) /\ NodeWise(w, slots, nodeOf, a)
    /\ \A x, z \in Logical : x \div size = z \div size => nodeOf[x] = nodeOf[z]

\* rebalance_experts_hierarchical numbers the replicas and keeps the groups together.
LEMMA PolicyParts ==
  ASSUME NEW nodes \in Nat \ {0}, NEW per \in Nat \ {0}, NEW groups \in Nat \ {0}, groups = nodes * per,
         NEW size \in Nat \ {0}, NumLogical = groups * size,
         NEW gpus \in Nat \ {0}, NumGpus = nodes * gpus, NEW w \in [Logical -> Nat]
  PROVE  Placed(w, gpus * NumLocal, size, rebalance_experts_hierarchical(w, groups, nodes))
<1> DEFINE k == per * size
           f == PackGroups(w, groups, nodes)
           nodeOf == [l \in Logical |-> f[l] \div k]
<1>1. k \in Nat \ {0} /\ NumLogical = nodes * k
  <2>1. k \in Nat /\ (nodes * per) * size = nodes * (per * size)
    OBVIOUS
  <2>2. NumLogical \in Nat \ {0}
    BY TopologyAssumption
  <2>3. NumLogical = nodes * k
    BY <2>1
  <2> HIDE DEF k
  <2>4. k # 0
    BY <2>1, <2>2, <2>3
  <2> QED BY <2>1, <2>3, <2>4
<1>2. k <= gpus * NumLocal
  <2> DEFINE P == gpus * NumLocal
  <2>1. NumLocal \in Nat \ {0} /\ NumPhysical >= NumLogical
    BY TopologyAssumption
  <2>2. P \in Nat /\ NumPhysical = nodes * P
    <3>1. NumPhysical = (nodes * gpus) * NumLocal
      BY DEF NumPhysical
    <3>2. (nodes * gpus) * NumLocal = nodes * (gpus * NumLocal) /\ gpus * NumLocal \in Nat
      BY <2>1
    <3> QED BY <3>1, <3>2
  <2> HIDE DEF P, k
  <2>3. ASSUME P < k PROVE FALSE
    <3>1. (P + 1) * nodes <= k * nodes
      BY <1>1, <2>2, <2>3, MulMono
    <3>2. (P + 1) * nodes = P * nodes + nodes /\ P * nodes = nodes * P /\ k * nodes = nodes * k /\ P * nodes \in Nat
      BY <1>1, <2>2, MulSucc
    <3>3. NumPhysical = P * nodes /\ NumLogical = k * nodes
      BY <1>1, <2>2, <3>2
    <3>4. k * nodes \in Nat
      BY <1>1
    <3> QED BY <2>1, <3>1, <3>2, <3>3, <3>4
  <2>4. k <= P
    BY <1>1, <2>2, <2>3
  <2> QED BY <2>4 DEF P
<1>3. /\ f \in [Logical -> Logical]
      /\ \A x, z \in Logical : f[x] = f[z] => x = z
      /\ \A x, z \in Logical : x \div size = z \div size => f[x] \div k = f[z] \div k
  <2>1. KeepsGroups(size, k, f)
    BY GroupsPacked
  <2> HIDE DEF k, f
  <2> QED BY <2>1 DEF KeepsGroups
<1>4. rebalance_experts_hierarchical(w, groups, nodes) = Assemble(w, f, AntiFunction(f), nodes)
  BY DEF rebalance_experts_hierarchical
<1> HIDE DEF f, k
<1>5. /\ Numbered(Assemble(w, f, AntiFunction(f), nodes))
      /\ NodeWise(w, gpus * NumLocal, nodeOf, Assemble(w, f, AntiFunction(f), nodes))
  BY <1>1, <1>2, <1>3, NodesAssembled
<1>6. \A x, z \in Logical : x \div size = z \div size => nodeOf[x] = nodeOf[z]
  BY <1>3
<1> HIDE DEF nodeOf
<1> QED BY <1>4, <1>5, <1>6 DEF Placed

\* The slots that share out their experts among themselves: a node, or all of them.
SlotsPerNode == IF Hierarchical THEN GpusPerNode * NumLocal ELSE NumPhysical

\* The number of experts that are kept together.
GroupSize == IF Hierarchical THEN NumLogical \div NumGroups ELSE NumLogical

\* For every load both policies give each slot to one replica of one expert, each
\* expert at least one, the replicas of an expert all within a node, with its group,
\* and the slots of a node greedily to its experts.
THEOREM PolicySound ==
  ASSUME NEW w \in [Logical -> Nat]
  PROVE  Placed(w, SlotsPerNode, GroupSize, Policy(w))
<1>1. /\ NumNodes \in Nat \ {0} /\ GpusPerNode \in Nat \ {0} /\ NumLocal \in Nat \ {0}
      /\ NumLogical \in Nat \ {0} /\ NumGroups \in Nat \ {0} /\ Hierarchical \in BOOLEAN
  BY TopologyAssumption
<1>2. CASE Hierarchical
  <2> DEFINE per == NumGroups \div NumNodes
             size == NumLogical \div NumGroups
  <2>1. NumLogical % NumGroups = 0 /\ NumGroups % NumNodes = 0
    BY <1>2, TopologyAssumption
  <2>2. per \in Nat \ {0} /\ NumGroups = per * NumNodes /\ size \in Nat \ {0} /\ NumLogical = size * NumGroups
    BY <1>1, <2>1, Divides
  <2> HIDE DEF per, size
  <2>3. NumGroups = NumNodes * per /\ NumLogical = NumGroups * size /\ NumGpus = NumNodes * GpusPerNode
    BY <1>1, <2>2 DEF NumGpus
  <2>4. Placed(w, GpusPerNode * NumLocal, size, rebalance_experts_hierarchical(w, NumGroups, NumNodes))
    BY <1>1, <2>2, <2>3, PolicyParts
  <2>5. Policy(w) = rebalance_experts_hierarchical(w, NumGroups, NumNodes) /\ SlotsPerNode = GpusPerNode * NumLocal /\ GroupSize = size
    BY <1>2 DEF Policy, SlotsPerNode, GroupSize, size
  <2> QED BY <2>4, <2>5
<1>3. CASE ~Hierarchical
  <2> DEFINE one == 1
  <2>1. /\ one \in Nat \ {0} /\ one = one * one /\ NumLogical = one * NumLogical
        /\ NumGpus = one * NumGpus /\ NumGpus \in Nat \ {0}
    <3>1. NumGpus \in Nat /\ NumPhysical >= NumLogical /\ NumPhysical = NumGpus * NumLocal
      BY <1>1, TopologyAssumption DEF NumGpus, NumPhysical
    <3>2. NumGpus # 0
      BY <1>1, <3>1
    <3> QED BY <1>1, <3>1, <3>2
  <2>2. Policy(w) = rebalance_experts_hierarchical(w, one, one) /\ SlotsPerNode = NumGpus * NumLocal /\ GroupSize = NumLogical
    BY <1>3 DEF Policy, SlotsPerNode, GroupSize, NumPhysical
  <2> HIDE DEF one
  <2>3. Placed(w, NumGpus * NumLocal, NumLogical, rebalance_experts_hierarchical(w, one, one))
    BY <1>1, <2>1, PolicyParts
  <2> QED BY <2>2, <2>3
<1> QED BY <1>1, <1>2, <1>3

-----------------------------------------------------------------------------
(* The replicas of the experts, counted and listed *)

\* A set whose elements r numbers from 0 to n - 1.
LEMMA NumberedSet ==
  ASSUME NEW S, NEW n \in Nat, NEW r, \A p \in S : r[p] \in Upto(n),
         \A p, q \in S : r[p] = r[q] => p = q, \A k \in Upto(n) : \E p \in S : r[p] = k
  PROVE  IsFiniteSet(S) /\ Cardinality(S) = n
<1> DEFINE f == [p \in S |-> r[p]]
           T == Upto(n)
<1>1. f \in [S -> T] /\ (\A p, q \in S : f[p] = f[q] => p = q) /\ \A k \in T : \E p \in S : f[p] = k
  OBVIOUS
<1>2. IsFiniteSet(T) /\ Cardinality(T) = n
  BY UptoFacts
<1> HIDE DEF f, T
<1>3. f \in Injection(S, T)
  BY <1>1, Zenon DEF Injection, IsInjective
<1>4. f \in Surjection(S, T)
  BY <1>1, Zenon DEF Surjection
<1> QED BY <1>2, <1>3, <1>4, FS_Injection

\* "Each bin contains exactly n/m objects": balanced_packing fills every pack, although
\* it looks only at the loads of the packs that are not full.
THEOREM PacksAreFull ==
  ASSUME NEW m \in Nat \ {0}, NEW per \in Nat \ {0}, NEW n \in Nat, n = m * per,
         NEW w \in [Upto(n) -> Nat], NEW k \in Upto(m)
  PROVE  Cardinality({i \in Upto(n) : balanced_packing(w, m).pack[i] = k}) = per
<1> DEFINE b == balanced_packing(w, m)
           f == [i \in Upto(n) |-> b.pack[i] * per + b.rank[i]]
           S == {i \in Upto(n) : b.pack[i] = k}
<1>1. GoodPacking(n, m, per, b)
  BY PackingSound
<1> HIDE DEF b
<1>2. Permutation(n, f)
  BY <1>1, PackedPlaces
<1>3. /\ \A i \in S : b.rank[i] \in Upto(per)
      /\ \A i, j \in S : b.rank[i] = b.rank[j] => i = j
  BY <1>1 DEF GoodPacking
<1>4. ASSUME NEW r \in Upto(per) PROVE \E i \in S : b.rank[i] = r
  <2>1. k \in Nat /\ k < m /\ r \in Nat /\ r < per
    BY UptoFacts
  <2>2. k * per + r \in Nat /\ k * per + r < m * per
    BY <2>1, Digits
  <2>3. k * per + r \in Upto(n)
    BY <2>2, UptoFacts
  <2>4. f \in [Upto(n) -> Upto(n)] /\ \A x, z \in Upto(n) : f[x] = f[z] => x = z
    <3> HIDE DEF f
    <3> QED BY <1>2 DEF Permutation
  <2>5. PICK i \in Upto(n) : f[i] = k * per + r
    <3> HIDE DEF f
    <3> QED BY <2>3, <2>4, InjectiveIsOnto
  <2> DEFINE p == b.pack[i]  q == b.rank[i]
  <2>6. p \in Nat /\ q \in Nat /\ q < per /\ p * per + q = k * per + r
    BY <1>1, <2>5, UptoFacts DEF GoodPacking
  <2> HIDE DEF p, q
  <2>7. p = k /\ q = r
    BY <2>1, <2>6, DigitsEqual
  <2> QED BY <2>7 DEF p, q
<1> HIDE DEF S
<1>5. Cardinality(S) = per
  BY <1>3, <1>4, NumberedSet
<1> QED BY <1>5 DEF S, b

\* The number of replicas of an expert is the number of its slots.
LEMMA ReplicasCounted ==
  ASSUME NEW a, Numbered(a), NEW l \in Logical
  PROVE  /\ IsFiniteSet({p \in Physical : a.phy2log[p] = l})
         /\ Cardinality({p \in Physical : a.phy2log[p] = l}) = a.cnt[l]
         /\ a.cnt[l] <= NumPhysical
<1> DEFINE S == {p \in Physical : a.phy2log[p] = l}
           n == a.cnt[l]
<1>1. n \in Nat /\ NumPhysical \in Nat
  BY TopologyAssumption DEF Numbered, NumPhysical, NumGpus
<1>2. \A p \in S : a.rank[p] \in Upto(n)
  BY <1>1, UptoFacts DEF Numbered
<1>3. \A p, q \in S : a.rank[p] = a.rank[q] => p = q
  BY DEF Numbered
<1>4. \A k \in Upto(n) : \E p \in S : a.rank[p] = k
  BY <1>1, UptoFacts DEF Numbered
<1>5. S \in SUBSET Upto(NumPhysical)
  BY DEF Physical
<1> HIDE DEF S, n
<1>6. IsFiniteSet(S) /\ Cardinality(S) = n
  BY <1>1, <1>2, <1>3, <1>4, NumberedSet
<1>7. n <= NumPhysical
  BY <1>1, <1>5, <1>6, UptoFacts, FS_Subset
<1> QED BY <1>6, <1>7 DEF S, n

\* r lists the slots of the replicas of each expert from the left, and -1 after them.
Listed(a, r) ==
  /\ r.phy2log = a.phy2log
  /\ \A l \in Logical :
       /\ Upto(a.cnt[l]) \in SUBSET DOMAIN r.log2phy[l]
       /\ \A k \in Upto(a.cnt[l]) : r.log2phy[l][k] \in Physical /\ a.phy2log[r.log2phy[l][k]] = l
       /\ \A k \in DOMAIN r.log2phy[l] : k \notin Upto(a.cnt[l]) => r.log2phy[l][k] = -1

\* Scatter does.
LEMMA ReplicasListed ==
  ASSUME NEW a, Numbered(a)
  PROVE  Listed(a, Scatter(a))
<1> DEFINE r == Scatter(a)
           R == Range(a.cnt)
           M == Max(R)
           at(l, k) == {p \in Physical : a.phy2log[p] = l /\ a.rank[p] = k}
<1>0. /\ NumPhysical \in Nat /\ NumLogical \in Nat \ {0} /\ a.cnt \in [Logical -> Nat \ {0}]
      /\ a.rank \in [Physical -> Nat] /\ a.phy2log \in [Physical -> Logical]
  BY TopologyAssumption DEF Numbered, NumPhysical, NumGpus, Maps
<1>1. M \in Nat /\ \A l \in Logical : a.cnt[l] <= M
  <2>1. \A l \in Logical : a.cnt[l] \in R
    BY <1>0 DEF Range
  <2>2. R \in SUBSET Nat /\ \A q \in R : q <= NumPhysical
    BY <1>0, ReplicasCounted DEF Range
  <2>3. R # {}
    <3>1. 0 \in Logical
      BY <1>0, UptoFacts DEF Logical
    <3> QED BY <2>1, <3>1
  <2> HIDE DEF R
  <2>4. Max(R) \in R /\ \A q \in R : q <= Max(R)
    BY <1>0, <2>2, <2>3, MaxNat
  <2> QED BY <2>1, <2>2, <2>4
<1>2. /\ r.phy2log = a.phy2log
      /\ r.log2phy = [l \in Logical |-> [k \in Upto(M) |-> IF at(l, k) = {} THEN -1 ELSE Max(at(l, k))]]
  BY DEF Scatter
<1> HIDE DEF r, R, M
<1>3. ASSUME NEW l \in Logical
      PROVE  /\ DOMAIN r.log2phy[l] = Upto(M)
             /\ \A k \in Upto(M) : r.log2phy[l][k] = IF at(l, k) = {} THEN -1 ELSE Max(at(l, k))
  BY <1>2
<1>4. ASSUME NEW l \in Logical, NEW k \in Upto(a.cnt[l])
      PROVE  Max(at(l, k)) \in Physical /\ a.phy2log[Max(at(l, k))] = l /\ at(l, k) # {}
  <2> DEFINE A == at(l, k)
  <2>1. k \in Nat /\ k < a.cnt[l]
    BY <1>0, UptoFacts
  <2>2. A # {}
    BY <2>1 DEF Numbered
  <2>3. A \in SUBSET Nat /\ \A q \in A : q <= NumPhysical
    BY <1>0, UptoFacts DEF Physical
  <2> HIDE DEF A
  <2>4. Max(A) \in A
    BY <1>0, <2>2, <2>3, MaxNat
  <2> QED BY <2>2, <2>4 DEF A
<1>5. ASSUME NEW l \in Logical, NEW k \in Upto(M), k \notin Upto(a.cnt[l]) PROVE at(l, k) = {}
  <2>1. k \in Nat /\ ~(k < a.cnt[l])
    BY <1>0, <1>1, <1>5, UptoFacts
  <2>2. ASSUME NEW p \in at(l, k) PROVE FALSE
    BY <1>0, <2>1 DEF Numbered
  <2> QED BY <2>2
<1>6. ASSUME NEW l \in Logical PROVE Upto(a.cnt[l]) \in SUBSET Upto(M)
  <2>1. a.cnt[l] \in Nat /\ a.cnt[l] <= M
    BY <1>0, <1>1
  <2> QED BY <1>1, <2>1, UptoFacts
<1> HIDE DEF at
<1>7. Listed(a, r)
  BY <1>2, <1>3, <1>4, <1>5, <1>6 DEF Listed
<1> QED BY <1>7 DEF r

-----------------------------------------------------------------------------
(* No way to share the slots out makes the most loaded replica lighter *)

\* A smaller set fits into a larger one.
LEMMA SmallerFits ==
  ASSUME NEW A, IsFiniteSet(A), NEW B, IsFiniteSet(B), Cardinality(A) <= Cardinality(B)
  PROVE  Injection(A, B) # {}
<1> DEFINE a == Cardinality(A)
           b == Cardinality(B)
<1>1. a \in Nat /\ b \in Nat
  BY FS_CardinalityType
<1>2. a <= b
  OBVIOUS
<1>3. ExistsBijection(A, Upto(a)) /\ ExistsBijection(Upto(b), B)
  BY <1>1, UptoFacts, FS_SameCardinalityBij
<1> HIDE DEF a, b
<1>4. PICK f \in Bijection(A, Upto(a)) : TRUE
  BY <1>3, Zenon DEF ExistsBijection
<1>5. PICK g \in Bijection(Upto(b), B) : TRUE
  BY <1>3, Zenon DEF ExistsBijection
<1>6. f \in [A -> Upto(a)] /\ \A x, z \in A : f[x] = f[z] => x = z
  BY <1>4, Zenon DEF Bijection, Injection, IsInjective
<1>7. g \in [Upto(b) -> B] /\ \A x, z \in Upto(b) : g[x] = g[z] => x = z
  BY <1>5, Zenon DEF Bijection, Injection, IsInjective
<1>8. \A x \in A : f[x] \in Upto(b)
  BY <1>1, <1>2, <1>6, UptoFacts
<1> DEFINE h == [x \in A |-> g[f[x]]]
<1>9. h \in [A -> B] /\ \A x, z \in A : h[x] = h[z] => x = z
  BY <1>6, <1>7, <1>8
<1> HIDE DEF h
<1>10. h \in Injection(A, B)
  BY <1>9, Zenon DEF Injection, IsInjective
<1> QED BY <1>10, Zenon

\* The slots of S that x gives to e.
Fibre(S, x, e) == {p \in S : x[p] = e}

\* If no element gets less by one function than by another, none gets more.
LEMMA SharedOut ==
  ASSUME NEW S, IsFiniteSet(S), NEW E, NEW x \in [S -> E], NEW y \in [S -> E],
         \A e \in E : Cardinality(Fibre(S, x, e)) <= Cardinality(Fibre(S, y, e)), NEW h \in E
  PROVE  Cardinality(Fibre(S, y, h)) = Cardinality(Fibre(S, x, h))
<1> DEFINE X(e) == Fibre(S, x, e)
           Y(e) == Fibre(S, y, e)
           J == [e \in E |-> CHOOSE f : f \in Injection(X(e), Y(e))]
<1>1. \A e \in E : X(e) \in SUBSET S /\ Y(e) \in SUBSET S
  BY DEF Fibre
<1>2. \A e \in E : IsFiniteSet(X(e)) /\ IsFiniteSet(Y(e))
  <2> HIDE DEF X, Y
  <2> QED BY <1>1, FS_Subset
<1>3. ASSUME NEW e \in E PROVE J[e] \in Injection(X(e), Y(e))
  <2>1. Cardinality(X(e)) <= Cardinality(Y(e))
    OBVIOUS
  <2> HIDE DEF X, Y
  <2>2. Injection(X(e), Y(e)) # {}
    BY <1>2, <2>1, SmallerFits
  <2>3. \E f : f \in Injection(X(e), Y(e))
    BY <2>2, Zenon
  <2> QED BY <2>3, Zenon
<1> HIDE DEF J
<1>4. ASSUME NEW e \in E
      PROVE  J[e] \in [X(e) -> Y(e)] /\ \A p, q \in X(e) : J[e][p] = J[e][q] => p = q
  BY <1>3, Zenon DEF Injection, IsInjective
<1> DEFINE j == [p \in S |-> J[x[p]][p]]
<1>5. ASSUME NEW p \in S
      PROVE  x[p] \in E /\ p \in X(x[p]) /\ j[p] = J[x[p]][p] /\ j[p] \in S /\ y[j[p]] = x[p]
  <2> DEFINE e == x[p]
  <2>1. e \in E /\ p \in X(e) /\ j[p] = J[e][p]
    BY DEF Fibre
  <2> HIDE DEF e
  <2>2. J[e][p] \in Y(e)
    <3> HIDE DEF X, Y
    <3> QED BY <1>4, <2>1
  <2>3. J[e][p] \in S /\ y[J[e][p]] = e
    BY <2>2 DEF Fibre
  <2> HIDE DEF X, Y, j
  <2> QED BY <2>1, <2>3 DEF e
<1>6. ASSUME NEW p \in S, NEW q \in S, j[p] = j[q] PROVE p = q
  <2> DEFINE e == x[p]
  <2> HIDE DEF X, Y, j
  <2>1. e \in E /\ x[q] = e /\ p \in X(e) /\ q \in X(e) /\ J[e][p] = J[e][q]
    BY <1>5, <1>6
  <2> HIDE DEF e
  <2> QED BY <1>4, <2>1
<1>7. j \in [S -> S]
  <2>1. \A p \in S : J[x[p]][p] \in S
    BY <1>5
  <2> QED BY <2>1
<1> HIDE DEF j
<1>8. j \in Surjection(S, S)
  <2>1. j \in Injection(S, S)
    BY <1>6, <1>7, Zenon DEF Injection, IsInjective
  <2> QED BY <2>1, FS_Injection
<1>9. ASSUME NEW t \in Y(h) PROVE \E p \in X(h) : J[h][p] = t
  <2>1. t \in S /\ y[t] = h
    BY DEF Fibre
  <2>2. PICK p \in S : j[p] = t
    BY <1>8, <2>1, Zenon DEF Surjection
  <2>3. x[p] = h
    BY <1>5, <2>1, <2>2
  <2>4. p \in X(h) /\ J[h][p] = t
    <3> HIDE DEF X, Y
    <3> QED BY <1>5, <2>2, <2>3
  <2> QED BY <2>4
<1> HIDE DEF X, Y
<1>10. J[h] \in Surjection(X(h), Y(h))
  BY <1>4, <1>9, Zenon DEF Surjection
<1>11. Cardinality(X(h)) = Cardinality(Y(h))
  BY <1>2, <1>3, <1>10, FS_Injection
<1> QED BY <1>11 DEF X, Y

\* When y shares out S among E, some replica is as loaded as the most loaded one of c.
NoBetter(E, w, c, S, y) ==
  \E e \in E : \A i \in E : w[e] * c[i] >= w[i] * Cardinality(Fibre(S, y, e))

\* Slots shared out greedily: for every other way some replica is as loaded by it
\* as the most loaded one is.
LEMMA GreedyOptimal ==
  ASSUME NEW n \in Nat, NEW E \in SUBSET Upto(n), E # {}, NEW w, \A e \in E : w[e] \in Nat,
         NEW S, IsFiniteSet(S), NEW x \in [S -> E], NEW y \in [S -> E], NEW c,
         \A e \in E : c[e] = Cardinality(Fibre(S, x, e)) /\ c[e] \in Nat \ {0},
         \A i, j \in E : w[i] * c[j] >= w[j] * (c[i] - 1)
  PROVE  NoBetter(E, w, c, S, y)
<1> DEFINE o(e) == Cardinality(Fibre(S, y, e))
<1>1. \A e \in E : o(e) \in Nat
  <2>1. ASSUME NEW e \in E PROVE o(e) \in Nat
    <3>1. Fibre(S, y, e) \in SUBSET S
      BY DEF Fibre
    <3> QED BY <3>1, FS_Subset, FS_CardinalityType
  <2> QED BY <2>1
<1>2. CASE \E e \in E : o(e) < c[e]
  <2>1. PICK e \in E : o(e) < c[e]
    BY <1>2
  <2>2. ASSUME NEW i \in E PROVE w[e] * c[i] >= w[i] * o(e)
    <3> DEFINE k == o(e)
               d == c[e] - 1
               v == w[i]
               u == w[e] * c[i]
    <3>1. k \in Nat /\ d \in Nat /\ k <= d /\ v \in Nat /\ u \in Nat
      <4>1. o(e) \in Nat /\ c[e] \in Nat \ {0} /\ w[i] \in Nat /\ w[e] \in Nat /\ c[i] \in Nat
        BY <1>1
      <4> HIDE DEF o
      <4> QED BY <2>1, <4>1
    <3>2. u >= v * d
      OBVIOUS
    <3> HIDE DEF k, d, v, u
    <3>3. k * v <= d * v /\ k * v = v * k /\ d * v = v * d /\ d * v \in Nat /\ k * v \in Nat
      BY <3>1, MulMono
    <3>4. u >= v * k
      BY <3>1, <3>2, <3>3
    <3> QED BY <3>4 DEF k, u, v
  <2> QED BY <2>2 DEF NoBetter
<1>3. CASE ~\E e \in E : o(e) < c[e]
  <2>1. PICK h \in E : \A i \in E : w[h] * c[i] >= w[i] * c[h]
    <3>1. \A i \in E : w[i] \in Nat /\ c[i] \in Nat \ {0}
      OBVIOUS
    <3>2. SomeHottest(E, w, c)
      BY <3>1, HottestExists
    <3> QED BY <3>2 DEF SomeHottest
  <2>2. \A e \in E : Cardinality(Fibre(S, x, e)) <= o(e)
    <3>1. \A e \in E : o(e) \in Nat /\ c[e] \in Nat /\ ~(o(e) < c[e]) /\ c[e] = Cardinality(Fibre(S, x, e))
      BY <1>1, <1>3
    <3> HIDE DEF o
    <3> QED BY <3>1
  <2>3. o(h) = Cardinality(Fibre(S, x, h))
    BY <2>2, SharedOut
  <2>4. o(h) = c[h]
    BY <2>3
  <2> HIDE DEF o
  <2>5. \A i \in E : w[h] * c[i] >= w[i] * o(h)
    BY <2>1, <2>4
  <2> QED BY <2>5 DEF o, NoBetter
<1> QED BY <1>2, <1>3
=============================================================================
