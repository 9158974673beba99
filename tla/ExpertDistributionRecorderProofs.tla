-------------------- MODULE ExpertDistributionRecorderProofs --------------------
(***************************************************************************)
(* The recorder keeps its types, and as long as the tables are at least as *)
(* wide as the router's top k it implements RecordingLog, for every number *)
(* of layers, experts, tokens and passes, with and without draft passes.   *)
(*                                                                         *)
(* The argument: at the start of a recorded pass all tables are blank;     *)
(* each hooked layer turns its own rows from blank to the selection of the *)
(* router and no other rows; so at any point the rows of a layer are blank *)
(* or hold the selection that this very pass has made there (TablesOfPass).*)
(*                                                                         *)
(* Under the same condition a recording has no gap, and its records hold   *)
(* the scores and the dispatches of their own passes only (RecordInv).     *)
(***************************************************************************)
EXTENDS ExpertDistributionRecorder, FiniteSetTheorems, SequenceTheorems, TLAPS

\* The counts of a table, whatever it holds, are natural numbers.
LEMMA CountType ==
  ASSUME NEW tbl, NEW w \in Nat, NEW n \in Nat
  PROVE  GlobalPhysicalCount(tbl, w, n) \in [Layers -> [Experts -> Nat]]
<1>1. ASSUME NEW l \in Layers, NEW e \in Experts
      PROVE  Cardinality({c \in (1..n) \X (1..w) : tbl[l][c[1]][c[2]] = e}) \in Nat
  <2>1. IsFiniteSet((1..n) \X (1..w))
    <3>1. IsFiniteSet(1..n) /\ IsFiniteSet(1..w)
      BY FS_Interval
    <3> QED BY <3>1, FS_Product
  <2> DEFINE Cells == {c \in (1..n) \X (1..w) : tbl[l][c[1]][c[2]] = e}
  <2>2. Cells \in SUBSET ((1..n) \X (1..w))
    OBVIOUS
  <2>3. IsFiniteSet(Cells)
    BY <2>1, <2>2, FS_Subset
  <2> QED BY <2>3, FS_CardinalityType
<1> QED BY <1>1 DEF GlobalPhysicalCount

\* A function on 1..n is a sequence.
LEMMA FunctionIsSeq ==
  ASSUME NEW S, NEW n \in Nat, NEW f \in [1..n -> S]
  PROVE  f \in Seq(S)
  BY SeqDef

\* What collect and append make of a pass with known metadata is a record.
LEMMA CollectType ==
  ASSUME TypeOK, pass \in Passes, metadata = pass.tokens
  PROVE  RecordOf(pass.id, Collect(metadata)) \in RecordSet
<1> DEFINE n == metadata
<1>1. n \in Rows /\ n \in Nat /\ 1..n \subseteq Rows /\ width \in Nat /\ pass.id \in 1..MaxPass
  BY RecorderAssumption DEF TypeOK, Passes, Rows
<1> HIDE DEF n
<1>2. ASSUME NEW l \in Layers
      PROVE [t \in 1..n |-> ids[l][t]] \in Seq(Seq(-1..(NumExperts - 1)))
  <2>1. ASSUME NEW t \in 1..n PROVE ids[l][t] \in Seq(-1..(NumExperts - 1))
    <3>1. ids[l][t] \in [1..width -> -1..(NumExperts - 1)]
      BY <1>1, <1>2 DEF TypeOK, Row
    <3> QED BY <3>1, <1>1, FunctionIsSeq
  <2> QED BY <2>1, <1>1, FunctionIsSeq
<1>3. ASSUME NEW l \in Layers
      PROVE /\ [t \in 1..n |-> logits[l][t]] \in Seq(Scores)
            /\ [t \in 1..n |-> weights[l][t]] \in Seq(Scores)
  <2>1. ASSUME NEW t \in 1..n PROVE logits[l][t] \in Scores /\ weights[l][t] \in Scores
    BY <1>1, <1>3 DEF TypeOK
  <2> QED BY <2>1, <1>1, FunctionIsSeq
<1>4. GlobalPhysicalCount(ids, width, n) \in [Layers -> [Experts -> Nat]]
  BY <1>1, CountType
<1> QED BY <1>1, <1>2, <1>3, <1>4 DEF n, RecordOf, Collect, RecordSet

\* While a pass is being recorded the gatherer knows its number of tokens.
MetadataOfPass == recording /\ pass # NoPass => metadata = pass.tokens

\* The inductive form of TypeOK: the record of a pass has its types only if the
\* metadata are those of the pass.
TypeInv == TypeOK /\ MetadataOfPass

\* A blank table is a table.
LEMMA BlankType ==
  ASSUME NEW w \in Nat, NEW v \in -1..(NumExperts - 1)
  PROVE  Blank(w, v) \in [Layers -> [Rows -> Row(w)]]
  BY DEF Blank, Row

\* reset keeps the width and the types of all tables.
LEMMA ResetType ==
  ASSUME TypeOK, ResetTables
  PROVE  /\ width' = width /\ width \in Nat
         /\ ids' = Blank(width, -1)
         /\ ids' \in [Layers -> [Rows -> Row(width)]]
         /\ logits' \in [Layers -> [Rows -> Scores]]
         /\ weights' \in [Layers -> [Rows -> Scores]]
         /\ misc' \in Seq(Layers)
<1>1. width \in Nat /\ -1 \in -1..(NumExperts - 1)
  BY RecorderAssumption DEF TypeOK
<1>2. NoScores \in [Layers -> [Rows -> Scores]]
  BY RecorderAssumption DEF NoScores, Scores
<1> QED BY <1>1, <1>2, BlankType DEF ResetTables

\* on_select_experts keeps the types of all tables, also when it resizes them.
LEMMA SelectType ==
  ASSUME TypeOK, pass \in Passes, NEW l \in Layers, NEW s \in Selections(pass.tokens),
         OnSelectExperts(l, s, pass.tokens)
  PROVE  /\ width' \in {TopKNum, TopK}
         /\ ids' \in [Layers -> [Rows -> Row(width')]]
         /\ logits' \in [Layers -> [Rows -> Scores]]
         /\ weights' \in [Layers -> [Rows -> Scores]]
<1> DEFINE n == pass.tokens
           w == IF TopK <= width THEN width ELSE TopK
           E == -1..(NumExperts - 1)
<1>1. /\ width \in Nat /\ w \in Nat /\ width <= w /\ TopK <= w /\ TopK \in Nat
      /\ w \in {TopKNum, TopK} /\ n \in Rows /\ pass.id \in Scores /\ 0 \in Scores
      /\ 0 \in E /\ Experts \subseteq E /\ n \in Nat
  BY RecorderAssumption DEF TypeOK, Passes, Scores, Experts, Rows
<1>2. width' = w
  BY DEF OnSelectExperts
<1>3. ids \in [Layers -> [Rows -> [1..width -> E]]]
  BY DEF TypeOK, Row
<1>4. Widened \in [Layers -> [Rows -> [1..w -> E]]]
  <2>1. CASE TopK <= width
    BY <2>1, <1>3 DEF Widened
  <2>2. CASE ~(TopK <= width)
    BY <2>2, <1>1, <1>3 DEF Widened
  <2> QED BY <2>1, <2>2
<1> HIDE DEF n, w, E
<1>5. ids' \in [Layers -> [Rows -> [1..w -> E]]]
  <2>1. ASSUME NEW t \in Rows, NEW k \in 1..w, t <= n, k <= TopK
        PROVE  s[t][k] \in E
    <3>1. t \in 1..n /\ k \in 1..TopK
      BY <2>1, <1>1 DEF Rows
    <3>2. s[t] \in [1..TopK -> Experts]
      BY <3>1 DEF Selections, n
    <3> QED BY <3>1, <3>2, <1>1
  <2> DEFINE R == [t \in Rows |-> [k \in 1..w |->
                     IF t <= n /\ k <= TopK THEN s[t][k] ELSE Widened[l][t][k]]]
  <2>2. R \in [Rows -> [1..w -> E]]
    <3>1. ASSUME NEW t \in Rows, NEW k \in 1..w
          PROVE  (IF t <= n /\ k <= TopK THEN s[t][k] ELSE Widened[l][t][k]) \in E
      <4>1. Widened[l] \in [Rows -> [1..w -> E]]
        BY <1>4
      <4>2. Widened[l][t] \in [1..w -> E]
        BY <4>1, <3>1
      <4>3. Widened[l][t][k] \in E
        BY <4>2, <3>1
      <4>4. CASE t <= n /\ k <= TopK
        BY <2>1, <3>1, <4>4
      <4> QED BY <4>3, <4>4
    <3> QED BY <3>1
  <2>3. ids' = [Widened EXCEPT ![l] = R]
    BY <1>4 DEF OnSelectExperts, n, w
  <2> HIDE DEF R
  <2> QED BY <2>2, <2>3, <1>4
<1>6. ASSUME NEW tbl \in [Layers -> [Rows -> Scores]]
      PROVE  [tbl EXCEPT ![l] = [t \in Rows |-> IF t <= n THEN pass.id ELSE @[t]]]
               \in [Layers -> [Rows -> Scores]]
  BY <1>1
<1>7. NoScores \in [Layers -> [Rows -> Scores]]
  BY <1>1 DEF NoScores
<1>8. (IF TopK <= width THEN logits ELSE NoScores) \in [Layers -> [Rows -> Scores]]
  BY <1>7 DEF TypeOK
<1>9. weights \in [Layers -> [Rows -> Scores]]
  BY DEF TypeOK
<1> QED BY <1>1, <1>2, <1>5, <1>6, <1>8, <1>9 DEF OnSelectExperts, Row, n, E

\* The state after __init__ satisfies the invariant.
LEMMA InitType ==
  ASSUME Init
  PROVE  TypeInv
<1>1. TopKNum \in Nat /\ 0 \in -1..(NumExperts - 1) /\ 0 \in Scores /\ 0 \in 0..MaxPass
  BY RecorderAssumption DEF Scores
<1>2. ids \in [Layers -> [Rows -> Row(width)]]
  BY <1>1, BlankType DEF Init
<1>3. NoScores \in [Layers -> [Rows -> Scores]]
  BY <1>1 DEF NoScores
<1>4. /\ records \in Seq(RecordSet) /\ misc \in Seq(Layers)
      /\ reply \in [records : Seq(RecordSet), misc : Seq(Layers)]
  BY EmptySeq DEF Init
<1>5. /\ layer \in 0..NumLayers /\ metadata \in 0..MaxTokens
      /\ forwardPassId \in [PassKinds -> 0..MaxPass]
  BY <1>1, RecorderAssumption DEF Init
<1> QED BY <1>2, <1>3, <1>4, <1>5 DEF Init, TypeInv, TypeOK, MetadataOfPass

\* Every request, layer and end of a pass keeps the types.
LEMMA StepType ==
  ASSUME TypeInv, [Next]_vars
  PROVE  TypeInv'
<1> USE DEF TypeInv, MetadataOfPass
<1>1. CASE StartRecord
  BY <1>1, ResetType, RecorderAssumption DEF StartRecord, GathererReset, TypeOK
<1>2. CASE StopRecord
  BY <1>2 DEF StopRecord, gatherer, TypeOK
<1>3. CASE DumpRecord
  BY <1>3, ResetType, RecorderAssumption DEF DumpRecord, GathererReset, TypeOK
<1>4. CASE GetStatus
  BY <1>4 DEF GetStatus, gatherer, TypeOK
<1>5. ASSUME NEW kind \in PassKinds, NEW n \in Rows, BeginPass(kind, n)
      PROVE  TypeInv'
  <2>1. /\ forwardPassId[kind] \in 0..MaxPass /\ forwardPassId[kind] < MaxPass
        /\ forwardPassId[kind] + 1 \in 1..MaxPass
    BY <1>5, RecorderAssumption DEF BeginPass, WithinBound, TypeOK
  <2>2. /\ pass' = [kind |-> kind, id |-> forwardPassId[kind] + 1, tokens |-> n]
        /\ pass' \in Passes /\ pass'.tokens = n
        /\ layer' = 0
        /\ forwardPassId' \in [PassKinds -> 0..MaxPass]
        /\ UNCHANGED <<recording, records, reply>>
    BY <1>5, <2>1 DEF BeginPass, Passes, TypeOK
  <2>3. CASE recording
    <3>1. ResetTables /\ metadata' = n /\ n \in 0..MaxTokens
      BY <1>5, <2>3, RecorderAssumption DEF BeginPass, Rows
    <3> QED BY <3>1, <2>2, ResetType, RecorderAssumption DEF TypeOK
  <2>4. CASE ~recording
    <3>1. UNCHANGED gatherer
      BY <1>5, <2>4 DEF BeginPass
    <3> QED BY <3>1, <2>2, <2>4, RecorderAssumption DEF TypeOK, gatherer
  <2> QED BY <2>3, <2>4
<1>6. CASE RunDenseLayer
  BY <1>6, RecorderAssumption DEF RunDenseLayer, gatherer, TypeOK
<1>7. CASE RunMoeLayer
  <2>1. /\ pass \in Passes /\ layer \in Layers /\ layer' \in 0..NumLayers
        /\ UNCHANGED <<recording, pass, forwardPassId, metadata, records, reply>>
    BY <1>7, RecorderAssumption DEF RunMoeLayer, TypeOK, Layers
  <2>2. PICK s \in Selections(pass.tokens) :
          IF Hooked
          THEN OnSelectExperts(layer, s, pass.tokens) /\ OnDeepepDispatchNormal(layer)
          ELSE UNCHANGED <<width, ids, logits, weights, misc>>
    BY <1>7 DEF RunMoeLayer
  <2>3. CASE Hooked
    <3>1. /\ width' \in {TopKNum, TopK}
          /\ ids' \in [Layers -> [Rows -> Row(width')]]
          /\ logits' \in [Layers -> [Rows -> Scores]]
          /\ weights' \in [Layers -> [Rows -> Scores]]
      BY <2>1, <2>2, <2>3, SelectType
    <3>2. misc' \in Seq(Layers)
      <4>1. misc \in Seq(Layers) /\ Append(misc, layer) \in Seq(Layers)
        BY <2>1, AppendProperties DEF TypeOK
      <4> QED BY <2>2, <2>3, <4>1 DEF OnDeepepDispatchNormal
    <3> QED BY <2>1, <3>1, <3>2 DEF TypeOK
  <2>4. CASE ~Hooked
    BY <2>1, <2>2, <2>4 DEF TypeOK
  <2> QED BY <2>3, <2>4
<1>8. CASE EndPass
  <2>1. records' \in Seq(RecordSet)
    <3>1. CASE recording
      <4>1. pass \in Passes /\ metadata = pass.tokens
        BY <1>8, <3>1 DEF EndPass, TypeOK
      <4>2. RecordOf(pass.id, Collect(metadata)) \in RecordSet
        BY <4>1, CollectType
      <4> QED BY <1>8, <3>1, <4>2 DEF EndPass, TypeOK
    <3>2. CASE ~recording
      BY <1>8, <3>2 DEF EndPass, TypeOK
    <3> QED BY <3>1, <3>2
  <2> QED BY <1>8, <2>1 DEF EndPass, gatherer, TypeOK
<1>9. CASE UNCHANGED vars
  BY <1>9 DEF vars, gatherer, TypeOK
<1> QED
  BY <1>1, <1>2, <1>3, <1>4, <1>5, <1>6, <1>7, <1>8, <1>9 DEF Next

\* The types of the recorder's state, whether or not the tables are resized.
THEOREM RecorderTypeCorrect == Spec => []TypeOK
<1>1. Init => TypeInv
  BY InitType
<1>2. TypeInv /\ [Next]_vars => TypeInv'
  BY StepType
<1>3. TypeInv => TypeOK
  BY DEF TypeInv
<1> QED BY <1>1, <1>2, <1>3, PTL DEF Spec
-----------------------------------------------------------------------------
(* The refinement of RecordingLog *)

\* The rows of one layer name no expert for the first n tokens.
BlankRows(rows, n) == \A t \in 1..n : \A k \in 1..TopKNum : rows[t][k] = -1

\* The rows of one layer hold the selection s of n tokens, padded with -1.
SelectionRows(rows, s, n) ==
  \A t \in 1..n : \A k \in 1..TopKNum : rows[t][k] = IF k <= TopK THEN s[t][k] ELSE -1

\* While a pass is being recorded, the rows of a layer are blank, or the layer
\* has run and they hold what its router selected in this pass.
TablesOfPass ==
  recording /\ pass # NoPass =>
    \A l \in Layers :
      \/ BlankRows(ids[l], pass.tokens)
      \/ /\ l < layer
         /\ \E s \in Selections(pass.tokens) : SelectionRows(ids[l], s, pass.tokens)

\* The inductive invariant behind the refinement.
TableInv == TypeInv /\ width = TopKNum /\ TablesOfPass

\* Blank rows are read as a layer that selected nothing.
LEMMA DecodeBlank ==
  ASSUME NEW n \in Rows, NEW rows, \A t \in 1..n : rows[t] \in Row(TopKNum), BlankRows(rows, n)
  PROVE  Decode(rows, n) = Unrouted
  BY DEF Decode, BlankRows, Row

\* Rows that hold a selection are read as that selection.
LEMMA DecodeSelection ==
  ASSUME NEW n \in Rows, NEW rows, \A t \in 1..n : rows[t] \in Row(TopKNum), TopK <= TopKNum,
         NEW s \in Selections(n), SelectionRows(rows, s, n)
  PROVE  Decode(rows, n) = s
<1>1. /\ 1 \in 1..n /\ 1 \in 1..TopK /\ 1 \in 1..TopKNum /\ TopK \in Nat /\ TopKNum \in Nat
      /\ \A k \in 1..TopK : k \in 1..TopKNum /\ k <= TopK
  BY RecorderAssumption DEF Rows
<1>2. s \in [1..n -> [1..TopK -> Experts]]
  BY DEF Selections
<1>3. rows[1][1] # -1 /\ 1 \in DOMAIN rows[1]
  <2>1. rows[1][1] = s[1][1]
    BY <1>1 DEF SelectionRows
  <2>2. s[1][1] \in Experts
    BY <1>1, <1>2
  <2> QED BY <1>1, <2>1, <2>2 DEF Experts, Row
<1>4. Decode(rows, n) = [t \in 1..n |-> [k \in 1..TopK |-> rows[t][k]]]
  BY <1>1, <1>3 DEF Decode
<1>5. ASSUME NEW t \in 1..n
      PROVE  [k \in 1..TopK |-> rows[t][k]] = s[t]
  <2>1. \A k \in 1..TopK : rows[t][k] = s[t][k]
    BY <1>1, <1>5 DEF SelectionRows
  <2>2. s[t] \in [1..TopK -> Experts]
    BY <1>2, <1>5
  <2> QED BY <2>1, <2>2
<1> QED BY <1>2, <1>4, <1>5

\* No expert is counted in blank rows.
LEMMA CountBlank ==
  ASSUME NEW n \in Nat, NEW tbl, NEW l \in Layers, NEW e \in Experts, BlankRows(tbl[l], n)
  PROVE  GlobalPhysicalCount(tbl, TopKNum, n)[l][e] = 0
<1>1. {c \in (1..n) \X (1..TopKNum) : tbl[l][c[1]][c[2]] = e} = {}
  BY DEF BlankRows, Experts
<1> QED BY <1>1, FS_EmptySet DEF GlobalPhysicalCount

\* The counts of rows that hold a selection are the counts of the selection:
\* the padding is not counted.
LEMMA CountSelection ==
  ASSUME NEW n \in Rows, NEW tbl, NEW l \in Layers, NEW e \in Experts, TopK <= TopKNum,
         NEW s \in Selections(n), SelectionRows(tbl[l], s, n)
  PROVE  GlobalPhysicalCount(tbl, TopKNum, n)[l][e] = Log!CountOf(s, n, e)
<1> DEFINE A == {c \in (1..n) \X (1..TopKNum) : tbl[l][c[1]][c[2]] = e}
           B == {c \in (1..n) \X (1..TopK) : s[c[1]][c[2]] = e}
<1>1. TopK \in Nat /\ TopKNum \in Nat /\ -1 \notin Experts
  BY RecorderAssumption DEF Experts
<1>2. ASSUME NEW c \in A PROVE c \in B
  <2>1. PICK t \in 1..n, k \in 1..TopKNum : c = <<t, k>>
    BY <1>2
  <2>2. tbl[l][t][k] = e
    BY <1>2, <2>1
  <2>3. k <= TopK /\ s[t][k] = e
    BY <2>2, <1>1 DEF SelectionRows
  <2> QED BY <2>1, <2>3, <1>1
<1>3. ASSUME NEW c \in B PROVE c \in A
  <2>1. PICK t \in 1..n, k \in 1..TopK : c = <<t, k>>
    BY <1>3
  <2>2. s[t][k] = e /\ k \in 1..TopKNum /\ k <= TopK
    BY <1>3, <2>1, <1>1
  <2>3. tbl[l][t][k] = e
    BY <2>2 DEF SelectionRows
  <2> QED BY <2>1, <2>2, <2>3
<1>4. A = B
  BY <1>2, <1>3
<1>5. s # Unrouted
  BY NullAssumption
<1>6. GlobalPhysicalCount(tbl, TopKNum, n)[l][e] = Cardinality(A)
  BY DEF GlobalPhysicalCount
<1>7. Log!CountOf(s, n, e) = Cardinality(B)
  <2>1. Log!CountOf(s, n, e) = IF s = Unrouted THEN 0 ELSE Cardinality(B)
    BY Zenon DEF Log!CountOf, Log!Cardinality, Cardinality
  <2> QED BY <1>5, <2>1
<1> HIDE DEF A, B
<1> QED BY <1>4, <1>6, <1>7

\* Appending a record appends its entry to the log.
LEMMA EntriesAppend ==
  ASSUME NEW rs \in Seq(RecordSet), NEW r \in RecordSet
  PROVE  Entries(Append(rs, r)) = Append(Entries(rs), EntryOfRecord(r))
<1> DEFINE T == {EntryOfRecord(x) : x \in RecordSet}
           a == Entries(Append(rs, r))
           b == Append(Entries(rs), EntryOfRecord(r))
<1>1. /\ Append(rs, r) \in Seq(RecordSet) /\ Len(Append(rs, r)) = Len(rs) + 1
      /\ \A i \in 1..Len(rs) : Append(rs, r)[i] = rs[i]
      /\ Append(rs, r)[Len(rs) + 1] = r
      /\ Len(rs) \in Nat /\ DOMAIN rs = 1..Len(rs)
      /\ DOMAIN Append(rs, r) = 1..(Len(rs) + 1)
  BY AppendProperties, LenProperties
<1>2. ASSUME NEW q \in Seq(RecordSet)
      PROVE  Entries(q) \in Seq(T) /\ Len(Entries(q)) = Len(q) /\ Len(q) \in Nat
             /\ \A i \in 1..Len(q) : Entries(q)[i] = EntryOfRecord(q[i])
  <2>1. Len(q) \in Nat /\ DOMAIN q = 1..Len(q) /\ \A i \in 1..Len(q) : q[i] \in RecordSet
    BY <1>2, LenProperties, ElementOfSeq
  <2>2. Entries(q) \in [1..Len(q) -> T]
    BY <2>1 DEF Entries
  <2>3. Entries(q) \in Seq(T)
    BY <2>1, <2>2, FunctionIsSeq
  <2>4. Len(Entries(q)) = Len(q)
    BY <2>1, <2>2, <2>3, LenProperties
  <2> QED BY <2>1, <2>3, <2>4 DEF Entries
<1> HIDE DEF T
<1>3. EntryOfRecord(r) \in T
  BY DEF T
<1>4. /\ b \in Seq(T) /\ Len(b) = Len(rs) + 1
      /\ \A i \in 1..Len(rs) : b[i] = EntryOfRecord(rs[i])
      /\ b[Len(rs) + 1] = EntryOfRecord(r)
  BY <1>2, <1>3, AppendProperties
<1>5. /\ a \in Seq(T) /\ Len(a) = Len(rs) + 1
      /\ \A i \in 1..(Len(rs) + 1) : a[i] = EntryOfRecord(Append(rs, r)[i])
  BY <1>1, <1>2
<1>6. \A i \in 1..Len(a) : a[i] = b[i]
  BY <1>1, <1>4, <1>5
<1> QED BY <1>4, <1>5, <1>6, SeqEqual

\* What the invariant says of one layer of a recorded pass: how its rows are
\* read, and that they are counted as they are read.
LEMMA PassTables ==
  ASSUME TopK <= TopKNum, TableInv, recording, pass # NoPass, NEW l \in Layers
  PROVE  /\ pass \in Passes /\ pass.tokens \in Rows /\ pass.tokens \in Nat /\ metadata = pass.tokens
         /\ \A t \in 1..pass.tokens : ids[l][t] \in Row(TopKNum)
         /\ Decode(ids[l], pass.tokens) \in {Unrouted} \cup Selections(pass.tokens)
         /\ l >= layer => BlankRows(ids[l], pass.tokens)
         /\ \A e \in Experts : GlobalPhysicalCount(ids, width, pass.tokens)[l][e]
                                 = Log!CountOf(Decode(ids[l], pass.tokens), pass.tokens, e)
<1>1. /\ pass \in Passes /\ pass.tokens \in Rows /\ pass.tokens \in Nat /\ metadata = pass.tokens
      /\ width = TopKNum
  BY DEF TableInv, TypeInv, TypeOK, MetadataOfPass, Passes, Rows
<1>2. \A t \in 1..pass.tokens : ids[l][t] \in Row(TopKNum)
  <2>1. 1..pass.tokens \subseteq Rows
    BY <1>1, RecorderAssumption DEF Rows
  <2>2. ids \in [Layers -> [Rows -> Row(TopKNum)]]
    BY DEF TableInv, TypeInv, TypeOK
  <2> QED BY <2>1, <2>2
<1>3. CASE BlankRows(ids[l], pass.tokens)
  <2>1. Decode(ids[l], pass.tokens) = Unrouted
    BY <1>1, <1>2, <1>3, DecodeBlank
  <2>2. \A e \in Experts : Log!CountOf(Unrouted, pass.tokens, e) = 0
    BY DEF Log!CountOf
  <2>3. \A e \in Experts : GlobalPhysicalCount(ids, width, pass.tokens)[l][e] = 0
    BY <1>1, <1>3, CountBlank
  <2> QED BY <1>1, <1>2, <1>3, <2>1, <2>2, <2>3
<1>4. CASE ~BlankRows(ids[l], pass.tokens)
  <2>1. l < layer
    BY <1>4 DEF TableInv, TablesOfPass
  <2>2. PICK s \in Selections(pass.tokens) : SelectionRows(ids[l], s, pass.tokens)
    BY <1>4 DEF TableInv, TablesOfPass
  <2>3. Decode(ids[l], pass.tokens) = s
    BY <1>1, <1>2, <2>2, DecodeSelection
  <2>4. \A e \in Experts : GlobalPhysicalCount(ids, width, pass.tokens)[l][e]
                             = Log!CountOf(s, pass.tokens, e)
    BY <1>1, <2>2, CountSelection
  <2>5. ~(l >= layer)
    BY <2>1, RecorderAssumption DEF TableInv, TypeInv, TypeOK, Layers
  <2> QED BY <1>1, <1>2, <2>3, <2>4, <2>5
<1> QED BY <1>3, <1>4

\* The hook of a layer writes the selection to the rows of that layer and
\* changes no other rows.
LEMMA HookedSelection ==
  ASSUME TopK <= TopKNum, TableInv, recording, pass \in Passes, layer \in Layers,
         NEW s \in Selections(pass.tokens), OnSelectExperts(layer, s, pass.tokens)
  PROVE  /\ width' = width
         /\ \A l \in Layers \ {layer} : ids'[l] = ids[l]
         /\ SelectionRows(ids'[layer], s, pass.tokens)
<1>1. /\ pass.tokens \in Rows /\ pass.tokens \in Nat /\ 1..pass.tokens \subseteq Rows /\ pass # NoPass
      /\ width = TopKNum /\ TopK \in Nat /\ TopKNum \in Nat
  BY RecorderAssumption, NullAssumption DEF TableInv, Passes, Rows
<1>2. ids \in [Layers -> [Rows -> Row(TopKNum)]] /\ Widened = ids
  BY <1>1 DEF TableInv, TypeInv, TypeOK, Widened
<1>3. BlankRows(ids[layer], pass.tokens)
  BY <1>1, PassTables DEF TableInv, TypeInv, TypeOK
<1>4. /\ width' = width
      /\ ids' = [ids EXCEPT ![layer] =
                  [t \in Rows |-> [k \in 1..TopKNum |->
                     IF t <= pass.tokens /\ k <= TopK THEN s[t][k] ELSE ids[layer][t][k]]]]
  BY <1>1, <1>2 DEF OnSelectExperts
<1>5. ASSUME NEW t \in 1..pass.tokens, NEW k \in 1..TopKNum
      PROVE  ids'[layer][t][k] = IF k <= TopK THEN s[t][k] ELSE -1
  <2>1. t \in Rows /\ t <= pass.tokens /\ ids[layer][t][k] = -1
    BY <1>1, <1>3, <1>5 DEF BlankRows
  <2> QED BY <1>2, <1>4, <1>5, <2>1
<1> QED BY <1>2, <1>4, <1>5 DEF SelectionRows

\* No pass is running after __init__.
LEMMA InitTables ==
  ASSUME Init
  PROVE  TableInv
  BY InitType DEF Init, TableInv, TablesOfPass

\* Every step keeps the rows of a recorded pass blank or its own.
LEMMA StepTables ==
  ASSUME TopK <= TopKNum, TableInv, [Next]_vars
  PROVE  TableInv'
<1>1. TypeInv /\ TypeInv' /\ width = TopKNum
  BY StepType DEF TableInv
<1> USE DEF TablesOfPass
<1>2. CASE StartRecord
  BY <1>1, <1>2 DEF TableInv, StartRecord, GathererReset, ResetTables
<1>3. CASE StopRecord
  BY <1>1, <1>3 DEF TableInv, StopRecord, gatherer
<1>4. CASE DumpRecord
  BY <1>1, <1>4 DEF TableInv, DumpRecord, GathererReset, ResetTables
<1>5. CASE GetStatus
  BY <1>1, <1>5 DEF TableInv, GetStatus, gatherer
<1>6. ASSUME NEW kind \in PassKinds, NEW n \in Rows, BeginPass(kind, n)
      PROVE  TableInv'
  <2>1. CASE recording
    <3>1. ids' = Blank(TopKNum, -1) /\ width' = width /\ pass'.tokens = n
      BY <1>1, <1>6, <2>1 DEF BeginPass, ResetTables
    <3>2. \A l \in Layers : BlankRows(ids'[l], n)
      <4>1. 1..n \subseteq Rows
        BY <1>6, RecorderAssumption DEF Rows
      <4> QED BY <3>1, <4>1 DEF BlankRows, Blank
    <3> QED BY <1>1, <3>1, <3>2 DEF TableInv
  <2>2. CASE ~recording
    BY <1>1, <1>6, <2>2 DEF TableInv, BeginPass, gatherer
  <2> QED BY <2>1, <2>2
<1>7. CASE RunDenseLayer
  <2>1. /\ layer' = layer + 1 /\ layer \in Int
        /\ UNCHANGED <<recording, pass, ids, width>>
    BY <1>1, <1>7 DEF RunDenseLayer, gatherer, TypeInv, TypeOK
  <2> QED BY <1>1, <2>1 DEF TableInv, Layers
<1>8. CASE RunMoeLayer
  <2>1. /\ pass \in Passes /\ layer \in Layers /\ layer' = layer + 1
        /\ UNCHANGED <<recording, pass>>
    BY <1>1, <1>8 DEF RunMoeLayer, TypeInv, TypeOK
  <2>2. PICK s \in Selections(pass.tokens) :
          IF Hooked
          THEN OnSelectExperts(layer, s, pass.tokens) /\ OnDeepepDispatchNormal(layer)
          ELSE UNCHANGED <<width, ids, logits, weights, misc>>
    BY <1>8 DEF RunMoeLayer
  <2>3. CASE Hooked
    <3>1. /\ width' = width
          /\ \A l \in Layers \ {layer} : ids'[l] = ids[l]
          /\ SelectionRows(ids'[layer], s, pass.tokens)
      BY <2>1, <2>2, <2>3, HookedSelection DEF Hooked
    <3> QED BY <1>1, <2>1, <2>3, <3>1 DEF TableInv, Layers
  <2>4. CASE ~Hooked
    BY <1>1, <2>1, <2>2, <2>4 DEF TableInv, Layers
  <2> QED BY <2>3, <2>4
<1>9. CASE EndPass
  BY <1>1, <1>9 DEF TableInv, EndPass, gatherer
<1>10. CASE UNCHANGED vars
  BY <1>1, <1>10 DEF TableInv, vars, gatherer
<1> QED
  BY <1>2, <1>3, <1>4, <1>5, <1>6, <1>7, <1>8, <1>9, <1>10 DEF Next

\* A pass that is being recorded is the running pass of the log.
LEMMA RunningPass ==
  ASSUME TopK <= TopKNum, TableInv, recording, pass # NoPass
  PROVE  /\ CurrentPass = [id |-> pass.id, tokens |-> pass.tokens,
                            sel |-> [l \in Layers |-> IF l < layer THEN Decode(ids[l], pass.tokens)
                                                       ELSE Unrouted]]
         /\ CurrentPass # NoPass
<1>1. pass.id \in 1..MaxPass /\ pass.tokens \in Rows /\ metadata = pass.tokens
  BY DEF TableInv, TypeInv, TypeOK, MetadataOfPass, Passes
<1> DEFINE sel == [l \in Layers |-> IF l < layer THEN Decode(ids[l], pass.tokens) ELSE Unrouted]
           p == [id |-> pass.id, tokens |-> pass.tokens, sel |-> sel]
<1>2. CurrentPass = p
  BY <1>1 DEF CurrentPass
<1>3. sel \in [Layers -> {Unrouted} \cup Selections(pass.tokens)]
  BY PassTables
<1>4. p # NoPass
  <2> HIDE DEF sel
  <2>1. p \in [id : 1..MaxPass, tokens : {pass.tokens},
                sel : [Layers -> {Unrouted} \cup Selections(pass.tokens)]]
    BY <1>1, <1>3
  <2> QED BY <1>1, <2>1, NullAssumption
<1> QED BY <1>2, <1>4

\* Without a pass, or without recording, no pass of the log is running.
LEMMA NoRunningPass ==
  ASSUME pass = NoPass \/ ~recording
  PROVE  CurrentPass = NoPass
  BY DEF CurrentPass

\* The record made of a pass at its end is the entry that the log gains.
LEMMA EndedPass ==
  ASSUME TopK <= TopKNum, TableInv, recording, pass # NoPass, layer = NumLayers
  PROVE  EntryOfRecord(RecordOf(pass.id, Collect(metadata))) = Log!EntryOf(CurrentPass)
<1> DEFINE n == pass.tokens
           r == RecordOf(pass.id, Collect(metadata))
           sel == [l \in Layers |-> Decode(ids[l], n)]
<1>1. metadata = n /\ n \in Nat /\ width = TopKNum
  BY DEF TableInv, TypeInv, TypeOK, MetadataOfPass, Passes, Rows
<1>2. CurrentPass = [id |-> pass.id, tokens |-> n, sel |-> sel]
  BY RunningPass, RecorderAssumption DEF Layers
<1>3. /\ r.id = pass.id /\ r.tokens = n
      /\ \A l \in Layers : r.ids[l] = [t \in 1..n |-> ids[l][t]]
      /\ r.count = GlobalPhysicalCount(ids, width, n)
  BY <1>1 DEF RecordOf, Collect
<1>4. ASSUME NEW l \in Layers
      PROVE  Decode(r.ids[l], r.tokens) = sel[l]
  <2>1. Decode([t \in 1..n |-> ids[l][t]], n) = Decode(ids[l], n)
    BY DEF Decode
  <2> QED BY <1>3, <1>4, <2>1
<1>5. r.count = [l \in Layers |-> [e \in Experts |-> Log!CountOf(sel[l], n, e)]]
  <2>1. \A l \in Layers, e \in Experts :
          GlobalPhysicalCount(ids, width, n)[l][e] = Log!CountOf(sel[l], n, e)
    BY PassTables
  <2>2. GlobalPhysicalCount(ids, width, n) \in [Layers -> [Experts -> Nat]]
    BY <1>1, CountType, RecorderAssumption
  <2> HIDE DEF sel, n
  <2> QED BY <1>3, <2>1, <2>2
<1> HIDE DEF r
<1>6. EntryOfRecord(r) = [id |-> pass.id, tokens |-> n, sel |-> sel, count |-> r.count]
  BY <1>3, <1>4 DEF EntryOfRecord
<1>7. Log!EntryOf(CurrentPass) =
        [id |-> pass.id, tokens |-> n, sel |-> sel,
         count |-> [l \in Layers |-> [e \in Experts |-> Log!CountOf(sel[l], n, e)]]]
  BY <1>2 DEF Log!EntryOf
<1> QED BY <1>5, <1>6, <1>7 DEF r

\* No records, no entries.
LEMMA EntriesEmpty == Entries(<<>>) = <<>>
  BY DEF Entries

\* A layer without a router, and a layer whose hook is off, is invisible.
LEMMA SkippedLayer ==
  ASSUME TopK <= TopKNum, TableInv, layer \in Layers, layer' = layer + 1,
         UNCHANGED <<recording, pass, ids, metadata, records, reply>>
  PROVE  UNCHANGED Log!vars
<1>1. CASE recording /\ pass # NoPass
  <2>1. Decode(ids[layer], pass.tokens) = Unrouted
    <3>1. BlankRows(ids[layer], pass.tokens)
      BY <1>1, PassTables, RecorderAssumption DEF Layers
    <3> QED BY <1>1, <3>1, PassTables, DecodeBlank
  <2>2. metadata = pass.tokens
    BY <1>1 DEF TableInv, TypeInv, MetadataOfPass
  <2>3. ASSUME NEW l \in Layers
        PROVE  (IF l < layer' THEN Decode(ids[l], metadata) ELSE Unrouted)
                 = (IF l < layer THEN Decode(ids[l], metadata) ELSE Unrouted)
    <3>1. l \in Int /\ layer \in Int
      BY <2>3, RecorderAssumption DEF Layers
    <3>2. CASE l = layer
      BY <3>1, <3>2, <2>1, <2>2
    <3>3. CASE l # layer
      BY <3>1, <3>3
    <3> QED BY <3>2, <3>3
  <2>4. CurrentPass' = CurrentPass
    BY <2>3 DEF CurrentPass
  <2> QED BY <2>4 DEF Log!vars
<1>2. CASE ~(recording /\ pass # NoPass)
  BY <1>2 DEF CurrentPass, Log!vars
<1> QED BY <1>1, <1>2

\* A layer whose hook is on is a selection of the log.
LEMMA HookedLayer ==
  ASSUME TopK <= TopKNum, TableInv, TableInv', recording, pass \in Passes, pass # NoPass,
         layer \in Layers, layer' = layer + 1,
         UNCHANGED <<recording, pass, metadata, records, reply>>,
         NEW s \in Selections(pass.tokens), OnSelectExperts(layer, s, pass.tokens)
  PROVE  Log!SelectExperts(layer)
<1> DEFINE n == pass.tokens
<1>1. /\ width' = width
      /\ \A l \in Layers \ {layer} : ids'[l] = ids[l]
      /\ SelectionRows(ids'[layer], s, n)
  BY HookedSelection
<1>2. metadata = n /\ n \in Rows
  BY DEF TableInv, TypeInv, MetadataOfPass, Passes
<1>3. Decode(ids'[layer], n) = s
  <2>1. ids' \in [Layers -> [Rows -> Row(TopKNum)]] /\ 1..n \subseteq Rows
    BY <1>2, RecorderAssumption DEF TableInv, TypeInv, TypeOK, Rows
  <2>2. \A t \in 1..n : ids'[layer][t] \in Row(TopKNum)
    BY <2>1
  <2> QED BY <1>1, <1>2, <2>2, DecodeSelection
<1> DEFINE sel(l) == IF l < layer THEN Decode(ids[l], n) ELSE Unrouted
<1>4. CurrentPass = [id |-> pass.id, tokens |-> n, sel |-> [l \in Layers |-> sel(l)]]
      /\ CurrentPass # NoPass
  BY RunningPass
<1>5. CurrentPass' = [id |-> pass.id, tokens |-> n,
                      sel |-> [l \in Layers |-> IF l < layer' THEN Decode(ids'[l], n) ELSE Unrouted]]
  BY <1>2 DEF CurrentPass
<1>6. ASSUME NEW l \in Layers
      PROVE  (IF l < layer' THEN Decode(ids'[l], n) ELSE Unrouted) = (IF l = layer THEN s ELSE sel(l))
  <2>1. l \in Int /\ layer \in Int
    BY <1>6, RecorderAssumption DEF Layers
  <2>2. CASE l = layer
    BY <2>1, <2>2, <1>3
  <2>3. CASE l # layer
    BY <2>1, <2>3, <1>1, <1>6
  <2> QED BY <2>2, <2>3
<1>7. sel(layer) = Unrouted
  BY RecorderAssumption DEF Layers
<1> HIDE DEF sel, n
<1>8. CurrentPass' = [CurrentPass EXCEPT !.sel[layer] = s]
  BY <1>4, <1>5, <1>6
<1>9. CurrentPass.sel[layer] = Unrouted /\ CurrentPass.tokens = n
  BY <1>4, <1>7
<1>10. s \in Log!Selections(CurrentPass.tokens)
  BY <1>9 DEF Log!Selections, Selections, n
<1> QED BY <1>4, <1>8, <1>9, <1>10 DEF Log!SelectExperts

\* Every step of the recorder is a step of the log, or leaves it alone.
LEMMA LogStep ==
  ASSUME TopK <= TopKNum, TableInv, TableInv', [Next]_vars
  PROVE  [Log!Next]_(Log!vars)
<1> USE DEF Log!vars
<1>1. CASE StartRecord
  <2>1. CurrentPass = NoPass /\ CurrentPass' = NoPass
    BY <1>1, NoRunningPass DEF StartRecord, CurrentPass
  <2>2. Log!StartRecord
    BY <1>1, <2>1, EntriesEmpty DEF StartRecord, Log!StartRecord
  <2> QED BY <2>2 DEF Log!Next
<1>2. CASE StopRecord
  <2>1. CurrentPass = NoPass /\ CurrentPass' = NoPass
    BY <1>2 DEF StopRecord, CurrentPass
  <2>2. Log!StopRecord
    BY <1>2, <2>1 DEF StopRecord, Log!StopRecord
  <2> QED BY <2>2 DEF Log!Next
<1>3. CASE DumpRecord
  <2>1. CurrentPass = NoPass /\ CurrentPass' = NoPass
    BY <1>3 DEF DumpRecord, CurrentPass
  <2>2. Log!DumpRecord
    BY <1>3, <2>1, EntriesEmpty DEF DumpRecord, Log!DumpRecord
  <2> QED BY <2>2 DEF Log!Next
<1>4. CASE GetStatus
  <2>1. CurrentPass = NoPass /\ CurrentPass' = NoPass
    BY <1>4 DEF GetStatus, CurrentPass
  <2>2. Log!GetStatus
    BY <1>4, <2>1, EntriesEmpty DEF GetStatus, Log!GetStatus
  <2> QED BY <2>2 DEF Log!Next
<1>5. ASSUME NEW kind \in PassKinds, NEW n \in Rows, BeginPass(kind, n)
      PROVE  [Log!Next]_(Log!vars)
  <2>1. CurrentPass = NoPass
    BY <1>5 DEF BeginPass, CurrentPass
  <2>2. CASE recording
    <3>1. /\ recording' /\ pass' # NoPass /\ pass'.tokens = n /\ pass'.id \in 1..MaxPass
          /\ layer' = 0 /\ UNCHANGED <<recording, records, reply>>
      BY <1>5, <2>2, NullAssumption DEF BeginPass, TableInv, TypeInv, TypeOK, Passes
    <3>2. CurrentPass' = [id |-> pass'.id, tokens |-> n, sel |-> [l \in Layers |-> Unrouted]]
      <4>1. CurrentPass' = [id |-> pass'.id, tokens |-> pass'.tokens,
                            sel |-> [l \in Layers |-> IF l < layer' THEN Decode(ids'[l], pass'.tokens)
                                                       ELSE Unrouted]]
        BY <3>1 DEF CurrentPass, TableInv, TypeInv, MetadataOfPass
      <4>2. \A l \in Layers : ~(l < layer')
        BY <3>1, RecorderAssumption DEF Layers
      <4> QED BY <3>1, <4>1, <4>2
    <3>3. Log!BeginPass
      BY <1>5, <2>1, <2>2, <3>1, <3>2 DEF Log!BeginPass
    <3> QED BY <3>3 DEF Log!Next
  <2>3. CASE ~recording
    BY <1>5, <2>1, <2>3 DEF BeginPass, CurrentPass
  <2> QED BY <2>2, <2>3
<1>6. CASE RunDenseLayer
  <2>1. layer \in Layers
    BY <1>6, RecorderAssumption DEF RunDenseLayer, Layers
  <2> QED BY <1>6, <2>1, SkippedLayer DEF RunDenseLayer, gatherer
<1>7. CASE RunMoeLayer
  <2>1. /\ pass \in Passes /\ pass # NoPass /\ layer \in Layers /\ layer' = layer + 1
        /\ UNCHANGED <<recording, pass, metadata, records, reply>>
    BY <1>7 DEF RunMoeLayer, TableInv, TypeInv, TypeOK
  <2>2. PICK s \in Selections(pass.tokens) :
          IF Hooked
          THEN OnSelectExperts(layer, s, pass.tokens) /\ OnDeepepDispatchNormal(layer)
          ELSE UNCHANGED <<width, ids, logits, weights, misc>>
    BY <1>7 DEF RunMoeLayer
  <2>3. CASE Hooked
    BY <2>1, <2>2, <2>3, HookedLayer DEF Log!Next, Hooked
  <2>4. CASE ~Hooked
    BY <2>1, <2>2, <2>4, SkippedLayer
  <2> QED BY <2>3, <2>4
<1>8. CASE EndPass
  <2>1. CASE recording
    <3>1. /\ pass # NoPass /\ layer = NumLayers /\ pass' = NoPass
          /\ records' = Append(records, RecordOf(pass.id, Collect(metadata)))
          /\ UNCHANGED <<recording, reply>>
      BY <1>8, <2>1 DEF EndPass
    <3>2. RecordOf(pass.id, Collect(metadata)) \in RecordSet /\ records \in Seq(RecordSet)
      BY <2>1, <3>1, CollectType DEF TableInv, TypeInv, TypeOK, MetadataOfPass
    <3>3. Entries(records)' = Append(Entries(records), Log!EntryOf(CurrentPass))
      <4>1. Entries(records') = Append(Entries(records), EntryOfRecord(RecordOf(pass.id, Collect(metadata))))
        BY <3>1, <3>2, EntriesAppend
      <4> QED BY <2>1, <3>1, <4>1, EndedPass
    <3>4. CurrentPass # NoPass /\ CurrentPass' = NoPass
      BY <2>1, <3>1, RunningPass DEF CurrentPass
    <3>5. Log!EndPass
      BY <3>1, <3>3, <3>4 DEF Log!EndPass
    <3> QED BY <3>5 DEF Log!Next
  <2>2. CASE ~recording
    BY <1>8, <2>2 DEF EndPass, CurrentPass
  <2> QED BY <2>1, <2>2
<1>9. CASE UNCHANGED vars
  BY <1>9 DEF vars, gatherer, CurrentPass
<1> QED
  BY <1>1, <1>2, <1>3, <1>4, <1>5, <1>6, <1>7, <1>8, <1>9 DEF Next

\* With tables at least as wide as the router's top k, the answers to dump and
\* status requests are those of RecordingLog: for each pass that ran while
\* recording was on, what _DetailSinglePassGatherer.collect returns is what the
\* router of that pass selected, and how often.
THEOREM RecorderImplementsLog ==
  ASSUME TopK <= TopKNum
  PROVE  Spec => ImplementsLog
<1>1. Init => Log!Init
  BY EntriesEmpty DEF Init, Log!Init, CurrentPass
<1>2. Init => TableInv
  BY InitTables
<1>3. TableInv /\ [Next]_vars => TableInv'
  BY StepTables
<1>4. TableInv /\ TableInv' /\ [Next]_vars => [Log!Next]_(Log!vars)
  BY LogStep
<1> QED BY <1>1, <1>2, <1>3, <1>4, PTL DEF Spec, ImplementsLog, Log!Spec
-----------------------------------------------------------------------------
(* What a record holds besides the selections *)

\* Layer l of the running pass has called the hooks of the recorder.
Ran(l) == l \in Layers \ DenseLayers /\ l < layer /\ pass.kind # "draft"

\* Exactly the layers that called the hooks hold a selection.
SelectedByRan ==
  \A l \in Layers : /\ Ran(l) => Decode(ids[l], pass.tokens) # Unrouted
                    /\ ~Ran(l) => Decode(ids[l], pass.tokens) = Unrouted

\* Exactly they hold scores, which are those of the running pass.
ScoredByRan ==
  \A l \in Layers : \A t \in 1..pass.tokens :
    /\ logits[l][t] = IF Ran(l) THEN pass.id ELSE 0
    /\ weights[l][t] = IF Ran(l) THEN pass.id ELSE 0

\* Exactly they have dispatched through DeepEP.
DispatchedByRan ==
  {misc[m] : m \in 1..Len(misc)} = {l \in Layers : UseDeepEp /\ Ran(l)}

\* While a pass is being recorded, everything in the tables is of this pass.
PassOwn == recording /\ pass # NoPass => SelectedByRan /\ ScoredByRan /\ DispatchedByRan

\* MiscOfLastRecord also holds while a pass runs that is not recorded.
MiscInv == ~recording \/ pass = NoPass =>
  \A i \in 1..Len(records) : i = Len(records) =>
    {misc[m] : m \in 1..Len(misc)}
      = {l \in Layers : UseDeepEp /\ Decode(records[i].ids[l], records[i].tokens) # Unrouted}

\* The target pass that is running, if any, is the last that was begun.
IdOfPass == pass # NoPass /\ pass.kind = "target" => pass.id = forwardPassId["target"]

\* While recording, the last routed record is of the last target pass that ended.
LastRouted ==
  recording =>
    \A i \in 1..Len(records) :
      /\ Routed(records[i])
      /\ \A m \in (i + 1)..Len(records) : ~Routed(records[m])
      => /\ "target" \in PassKinds /\ Layers \ DenseLayers # {}
         /\ records[i].id = IF pass # NoPass /\ pass.kind = "target"
                            THEN forwardPassId["target"] - 1 ELSE forwardPassId["target"]

\* The inductive invariant behind NoGap, ScoresOwn and MiscOfLastRecord.
RecordInv ==
  /\ TableInv
  /\ PassOwn
  /\ ScoresOwn
  /\ MiscInv
  /\ IdOfPass
  /\ LastRouted
  /\ NoGap

\* A hook reads back, in the rows of its layer, what the router selected.
LEMMA DecodeHooked ==
  ASSUME TopK <= TopKNum, TableInv, TableInv', recording, pass \in Passes, layer \in Layers,
         NEW s \in Selections(pass.tokens), OnSelectExperts(layer, s, pass.tokens)
  PROVE  /\ \A l \in Layers \ {layer} : ids'[l] = ids[l]
         /\ Decode(ids'[layer], pass.tokens) # Unrouted
<1> DEFINE n == pass.tokens
<1>1. (\A l \in Layers \ {layer} : ids'[l] = ids[l]) /\ SelectionRows(ids'[layer], s, n)
  BY HookedSelection
<1>2. n \in Rows
  BY DEF Passes
<1>3. ids' \in [Layers -> [Rows -> Row(TopKNum)]] /\ 1..n \subseteq Rows
  BY <1>2, RecorderAssumption DEF TableInv, TypeInv, TypeOK, Rows
<1>4. \A t \in 1..n : ids'[layer][t] \in Row(TopKNum)
  BY <1>3
<1>5. Decode(ids'[layer], n) = s
  BY <1>1, <1>2, <1>4, DecodeSelection
<1> QED BY <1>1, <1>2, <1>5, NullAssumption

\* A hook writes the scores of its layer for the tokens of the pass and no others.
LEMMA ScoresHooked ==
  ASSUME TopK <= TopKNum, TableInv, pass \in Passes, layer \in Layers,
         NEW s \in Selections(pass.tokens), OnSelectExperts(layer, s, pass.tokens)
  PROVE  /\ \A l \in Layers \ {layer} : logits'[l] = logits[l] /\ weights'[l] = weights[l]
         /\ \A t \in 1..pass.tokens : logits'[layer][t] = pass.id /\ weights'[layer][t] = pass.id
<1>1. /\ width = TopKNum /\ TopK <= width /\ pass.tokens \in Nat /\ 1..pass.tokens \subseteq Rows
      /\ logits \in [Layers -> [Rows -> Scores]] /\ weights \in [Layers -> [Rows -> Scores]]
  BY RecorderAssumption DEF TableInv, TypeInv, TypeOK, Passes, Rows
<1>2. /\ logits' = [logits EXCEPT ![layer] =
                      [t \in Rows |-> IF t <= pass.tokens THEN pass.id ELSE logits[layer][t]]]
      /\ weights' = [weights EXCEPT ![layer] =
                      [t \in Rows |-> IF t <= pass.tokens THEN pass.id ELSE weights[layer][t]]]
  BY <1>1 DEF OnSelectExperts
<1>3. \A l \in Layers \ {layer} : logits'[l] = logits[l] /\ weights'[l] = weights[l]
  BY <1>1, <1>2
<1>4. ASSUME NEW t \in 1..pass.tokens
      PROVE  logits'[layer][t] = pass.id /\ weights'[layer][t] = pass.id
  <2>1. t \in Rows /\ t <= pass.tokens
    BY <1>1
  <2> QED BY <1>1, <1>2, <2>1
<1> QED BY <1>3, <1>4

\* The elements of a list that gained one.
LEMMA AppendElements ==
  ASSUME NEW S, NEW q \in Seq(S), NEW e \in S
  PROVE  {Append(q, e)[m] : m \in 1..Len(Append(q, e))} = {q[m] : m \in 1..Len(q)} \cup {e}
<1> DEFINE q1 == Append(q, e)
           n == Len(q)
<1>1. /\ n \in Nat /\ Len(q1) = n + 1 /\ q1[n + 1] = e
      /\ \A m \in 1..n : q1[m] = q[m]
  BY AppendProperties, LenProperties
<1> HIDE DEF q1, n
<1>2. ASSUME NEW x \in {q1[m] : m \in 1..Len(q1)} PROVE x \in {q[m] : m \in 1..n} \cup {e}
  <2>1. PICK m \in 1..Len(q1) : x = q1[m]
    BY <1>2
  <2>2. m \in 1..n \/ m = n + 1
    BY <1>1, <2>1
  <2> QED BY <1>1, <2>1, <2>2
<1>3. ASSUME NEW x \in {q[m] : m \in 1..n} \cup {e} PROVE x \in {q1[m] : m \in 1..Len(q1)}
  <2>1. CASE x = e
    <3>1. n + 1 \in 1..Len(q1)
      BY <1>1
    <3> QED BY <1>1, <2>1, <3>1
  <2>2. CASE x # e
    <3>1. PICK m \in 1..n : x = q[m]
      BY <1>3, <2>2
    <3>2. m \in 1..Len(q1)
      BY <1>1
    <3> QED BY <1>1, <3>1, <3>2
  <2> QED BY <2>1, <2>2
<1> QED BY <1>2, <1>3 DEF q1, n

\* A layer without a hook leaves everything as it was.
LEMMA SkippedOwn ==
  ASSUME PassOwn, layer \in Int, layer' = layer + 1, layer \in DenseLayers \/ ~Hooked,
         UNCHANGED <<recording, pass, ids, logits, weights, misc>>
  PROVE  PassOwn'
<1> SUFFICES ASSUME recording, pass # NoPass
             PROVE  (SelectedByRan /\ ScoredByRan /\ DispatchedByRan)'
  BY DEF PassOwn
<1>1. \A l \in Layers : (Ran(l)' => Ran(l)) /\ (Ran(l) => Ran(l)')
  BY DEF Ran, Hooked, Layers
<1>2. SelectedByRan /\ ScoredByRan /\ DispatchedByRan
  BY DEF PassOwn
<1>3. SelectedByRan' /\ ScoredByRan'
  BY <1>1, <1>2 DEF SelectedByRan, ScoredByRan
<1>4. DispatchedByRan'
  BY <1>1, <1>2 DEF DispatchedByRan
<1> QED BY <1>3, <1>4

\* A layer with a hook adds its own selection, scores and dispatch.
LEMMA HookedOwn ==
  ASSUME TopK <= TopKNum, TableInv, TableInv', PassOwn, pass \in Passes, pass # NoPass,
         layer \in Layers \ DenseLayers, layer' = layer + 1, Hooked,
         UNCHANGED <<recording, pass>>,
         NEW s \in Selections(pass.tokens), OnSelectExperts(layer, s, pass.tokens),
         OnDeepepDispatchNormal(layer)
  PROVE  PassOwn'
<1>1. recording /\ pass.kind # "draft" /\ layer \in Layers /\ layer \in Int
  BY RecorderAssumption DEF Hooked, Layers
<1>2. \A l \in Layers : /\ Ran(l)' => Ran(l) \/ l = layer
                        /\ Ran(l) \/ l = layer => Ran(l)'
  BY <1>1, RecorderAssumption DEF Ran, Layers
<1>3. SelectedByRan /\ ScoredByRan /\ DispatchedByRan
  BY <1>1 DEF PassOwn
<1>4. SelectedByRan'
  <2>1. /\ \A l \in Layers \ {layer} : ids'[l] = ids[l]
        /\ Decode(ids'[layer], pass.tokens) # Unrouted
    BY <1>1, DecodeHooked
  <2> QED BY <1>2, <1>3, <2>1 DEF SelectedByRan
<1>5. ScoredByRan'
  <2>1. /\ \A l \in Layers \ {layer} : logits'[l] = logits[l] /\ weights'[l] = weights[l]
        /\ \A t \in 1..pass.tokens : logits'[layer][t] = pass.id /\ weights'[layer][t] = pass.id
    BY <1>1, ScoresHooked
  <2> SUFFICES ASSUME NEW l \in Layers, NEW t \in 1..pass.tokens
               PROVE  /\ logits'[l][t] = IF Ran(l)' THEN pass.id ELSE 0
                      /\ weights'[l][t] = IF Ran(l)' THEN pass.id ELSE 0
    BY DEF ScoredByRan
  <2>2. CASE l = layer
    BY <1>1, <1>2, <2>1, <2>2
  <2>3. CASE l # layer
    BY <1>2, <1>3, <2>1, <2>3 DEF ScoredByRan
  <2> QED BY <2>2, <2>3
<1>6. DispatchedByRan'
  <2> DEFINE D == {misc[m] : m \in 1..Len(misc)}
             D1 == {misc'[m] : m \in 1..Len(misc')}
  <2>1. CASE UseDeepEp
    <3>1. D1 = D \cup {layer}
      <4>1. misc \in Seq(Layers) /\ misc' = Append(misc, layer)
        BY <2>1 DEF OnDeepepDispatchNormal, TableInv, TypeInv, TypeOK
      <4>2. {Append(misc, layer)[m] : m \in 1..Len(Append(misc, layer))} = D \cup {layer}
        BY <1>1, <4>1, AppendElements
      <4> QED BY <4>1, <4>2
    <3> HIDE DEF D, D1
    <3>2. D = {l \in Layers : Ran(l)}
      BY <1>3, <2>1 DEF DispatchedByRan, D
    <3>3. D1 = {l \in Layers : Ran(l)'}
      BY <1>1, <1>2, <3>1, <3>2
    <3> QED BY <2>1, <3>3 DEF DispatchedByRan, D1
  <2>2. CASE ~UseDeepEp
    <3>1. misc' = misc
      BY <2>2 DEF OnDeepepDispatchNormal
    <3> QED BY <1>3, <2>2, <3>1 DEF DispatchedByRan
  <2> QED BY <2>1, <2>2
<1> QED BY <1>4, <1>5, <1>6 DEF PassOwn

\* After the reset at the start of a pass nothing is in the tables.
LEMMA BeginOwn ==
  ASSUME TableInv, TableInv', NEW kind \in PassKinds, NEW n \in Rows, BeginPass(kind, n)
  PROVE  PassOwn'
<1> SUFFICES ASSUME recording PROVE (SelectedByRan /\ ScoredByRan /\ DispatchedByRan)'
  BY DEF PassOwn, BeginPass
<1>1. /\ ids' = Blank(TopKNum, -1) /\ logits' = NoScores /\ weights' = NoScores /\ misc' = <<>>
      /\ layer' = 0 /\ pass'.tokens = n /\ 1..n \subseteq Rows /\ n \in Nat
  BY RecorderAssumption DEF BeginPass, ResetTables, TableInv, Rows
<1>2. \A l \in Layers : ~Ran(l)'
  BY <1>1, RecorderAssumption DEF Ran, Layers
<1>3. ASSUME NEW l \in Layers PROVE Decode(ids'[l], n) = Unrouted
  <2>1. \A t \in 1..n : ids'[l][t] = [k \in 1..TopKNum |-> -1]
    BY <1>1 DEF Blank
  <2> QED BY <2>1 DEF Decode
<1>4. SelectedByRan'
  BY <1>1, <1>2, <1>3 DEF SelectedByRan
<1>5. ScoredByRan'
  BY <1>1, <1>2 DEF ScoredByRan, NoScores
<1>6. DispatchedByRan'
  <2>1. Len(misc') = 0
    BY <1>1
  <2>2. {misc'[m] : m \in 1..Len(misc')} = {}
    BY <2>1
  <2> QED BY <1>2, <2>2 DEF DispatchedByRan
<1> QED BY <1>4, <1>5, <1>6

\* Every step keeps in the tables only what is of the running pass.
LEMMA StepOwn ==
  ASSUME TopK <= TopKNum, TableInv, TableInv', PassOwn, [Next]_vars
  PROVE  PassOwn'
<1>1. CASE StartRecord \/ StopRecord \/ DumpRecord \/ GetStatus
  BY <1>1 DEF StartRecord, StopRecord, DumpRecord, GetStatus, PassOwn
<1>2. ASSUME NEW kind \in PassKinds, NEW n \in Rows, BeginPass(kind, n)
      PROVE  PassOwn'
  BY <1>2, BeginOwn
<1>3. CASE RunDenseLayer
  BY <1>3, SkippedOwn DEF RunDenseLayer, gatherer, TableInv, TypeInv, TypeOK
<1>4. CASE RunMoeLayer
  <2>1. /\ pass \in Passes /\ pass # NoPass /\ layer \in Layers \ DenseLayers /\ layer' = layer + 1
        /\ UNCHANGED <<recording, pass>> /\ layer \in Int
    BY <1>4 DEF RunMoeLayer, TableInv, TypeInv, TypeOK
  <2>2. PICK s \in Selections(pass.tokens) :
          IF Hooked
          THEN OnSelectExperts(layer, s, pass.tokens) /\ OnDeepepDispatchNormal(layer)
          ELSE UNCHANGED <<width, ids, logits, weights, misc>>
    BY <1>4 DEF RunMoeLayer
  <2>3. CASE Hooked
    BY <2>1, <2>2, <2>3, HookedOwn
  <2>4. CASE ~Hooked
    BY <2>1, <2>2, <2>4, SkippedOwn
  <2> QED BY <2>3, <2>4
<1>5. CASE EndPass
  BY <1>5 DEF EndPass, PassOwn
<1>6. CASE UNCHANGED vars
  BY <1>6 DEF vars, gatherer, PassOwn, SelectedByRan, ScoredByRan, DispatchedByRan, Ran
<1> QED BY <1>1, <1>2, <1>3, <1>4, <1>5, <1>6 DEF Next

\* The record made of a pass at its end holds what the tables hold of this pass.
LEMMA NewRecord ==
  ASSUME TopK <= TopKNum, TableInv, PassOwn, recording, pass # NoPass, layer = NumLayers,
         NEW r, r = RecordOf(pass.id, Collect(metadata))
  PROVE  /\ r \in RecordSet /\ r.id = pass.id /\ r.tokens = pass.tokens
         /\ \A l \in Layers : /\ Ran(l) => Decode(r.ids[l], r.tokens) # Unrouted
                              /\ ~Ran(l) => Decode(r.ids[l], r.tokens) = Unrouted
         /\ \A l \in Layers : \A t \in 1..r.tokens :
              /\ r.logits[l][t] = IF Ran(l) THEN r.id ELSE 0
              /\ r.weights[l][t] = IF Ran(l) THEN r.id ELSE 0
<1> DEFINE n == pass.tokens
<1>1. metadata = n /\ pass \in Passes
  BY DEF TableInv, TypeInv, TypeOK, MetadataOfPass
<1>2. r \in RecordSet
  BY <1>1, CollectType DEF TableInv, TypeInv
<1>3. /\ r.id = pass.id /\ r.tokens = n
      /\ \A l \in Layers : /\ r.ids[l] = [t \in 1..n |-> ids[l][t]]
                           /\ r.logits[l] = [t \in 1..n |-> logits[l][t]]
                           /\ r.weights[l] = [t \in 1..n |-> weights[l][t]]
  BY <1>1 DEF RecordOf, Collect
<1>4. SelectedByRan /\ ScoredByRan
  BY DEF PassOwn
<1>5. ASSUME NEW l \in Layers PROVE Decode(r.ids[l], n) = Decode(ids[l], n)
  <2>1. Decode([t \in 1..n |-> ids[l][t]], n) = Decode(ids[l], n)
    BY DEF Decode
  <2> QED BY <1>3, <2>1
<1>6. ASSUME NEW l \in Layers, NEW t \in 1..n
      PROVE  /\ r.logits[l][t] = IF Ran(l) THEN r.id ELSE 0
             /\ r.weights[l][t] = IF Ran(l) THEN r.id ELSE 0
  <2>1. r.logits[l][t] = logits[l][t] /\ r.weights[l][t] = weights[l][t]
    BY <1>3
  <2> QED BY <1>3, <1>4, <2>1 DEF ScoredByRan
<1>7. \A l \in Layers : /\ Ran(l) => Decode(r.ids[l], r.tokens) # Unrouted
                        /\ ~Ran(l) => Decode(r.ids[l], r.tokens) = Unrouted
  BY <1>3, <1>4, <1>5 DEF SelectedByRan
<1> QED BY <1>2, <1>3, <1>6, <1>7

\* A list of records that gained one.
LEMMA AppendRecord ==
  ASSUME NEW rs \in Seq(RecordSet), NEW r \in RecordSet
  PROVE  /\ Len(rs) \in Nat /\ DOMAIN rs = 1..Len(rs)
         /\ Len(Append(rs, r)) = Len(rs) + 1 /\ DOMAIN Append(rs, r) = 1..(Len(rs) + 1)
         /\ \A i \in 1..Len(rs) : Append(rs, r)[i] = rs[i]
         /\ Append(rs, r)[Len(rs) + 1] = r
  BY AppendProperties, LenProperties

\* The end of a recorded pass: the new record has the scores and the dispatches
\* of its pass, and follows the record of the target pass before.
LEMMA EndRecordInv ==
  ASSUME TopK <= TopKNum, RecordInv, TableInv', PassOwn', EndPass, recording
  PROVE  RecordInv'
<1> DEFINE r == RecordOf(pass.id, Collect(metadata))
           N == Len(records)
<1>0. /\ pass # NoPass /\ layer = NumLayers /\ pass' = NoPass /\ records' = Append(records, r)
      /\ UNCHANGED <<recording, misc, forwardPassId>> /\ records \in Seq(RecordSet)
      /\ pass \in Passes /\ pass.kind \in {"target", "draft"} /\ pass.kind \in PassKinds
      /\ misc \in Seq(Layers)
  BY RecorderAssumption DEF EndPass, gatherer, RecordInv, TableInv, TypeInv, TypeOK, Passes
<1>1. /\ r \in RecordSet /\ r.id = pass.id /\ r.tokens = pass.tokens
      /\ \A l \in Layers : /\ Ran(l) => Decode(r.ids[l], r.tokens) # Unrouted
                           /\ ~Ran(l) => Decode(r.ids[l], r.tokens) = Unrouted
      /\ \A l \in Layers : \A t \in 1..r.tokens :
           /\ r.logits[l][t] = IF Ran(l) THEN r.id ELSE 0
           /\ r.weights[l][t] = IF Ran(l) THEN r.id ELSE 0
  BY <1>0, NewRecord DEF RecordInv
<1> HIDE DEF r
<1>2. /\ N \in Nat /\ DOMAIN records = 1..N /\ Len(records') = N + 1 /\ DOMAIN records' = 1..(N + 1)
      /\ \A i \in 1..N : records'[i] = records[i]
      /\ records'[N + 1] = r
  BY <1>0, <1>1, AppendRecord
<1> HIDE DEF N
<1>3. ScoresOwn'
  <2> SUFFICES ASSUME NEW i \in 1..(N + 1), NEW l \in Layers, NEW t \in 1..records'[i].tokens
               PROVE  LET own == IF Decode(records'[i].ids[l], records'[i].tokens) = Unrouted
                                 THEN 0 ELSE records'[i].id
                      IN records'[i].logits[l][t] = own /\ records'[i].weights[l][t] = own
    BY <1>2, Zenon DEF ScoresOwn
  <2>1. CASE i = N + 1
    BY <1>1, <1>2, <2>1
  <2>2. CASE i # N + 1
    <3>1. i \in 1..N /\ records'[i] = records[i]
      BY <1>2, <2>2
    <3> QED BY <1>2, <3>1 DEF RecordInv, ScoresOwn
  <2> QED BY <2>1, <2>2
<1>4. MiscInv'
  <2>1. {misc[m] : m \in 1..Len(misc)} = {l \in Layers : UseDeepEp /\ Ran(l)}
    BY <1>0 DEF RecordInv, PassOwn, DispatchedByRan
  <2>2. {l \in Layers : UseDeepEp /\ Ran(l)}
          = {l \in Layers : UseDeepEp /\ Decode(r.ids[l], r.tokens) # Unrouted}
    BY <1>1
  <2> QED BY <1>0, <1>2, <2>1, <2>2 DEF MiscInv
<1>5. IdOfPass'
  BY <1>0 DEF IdOfPass
<1>6. Routed(r) => pass.kind = "target" /\ Layers \ DenseLayers # {}
  BY <1>0, <1>1 DEF Routed, Ran
<1>7. pass.kind = "target" /\ Layers \ DenseLayers # {} => Routed(r)
  <2> SUFFICES ASSUME pass.kind = "target", NEW l \in Layers \ DenseLayers PROVE Routed(r)
    OBVIOUS
  <2>1. Ran(l)
    BY <1>0, RecorderAssumption DEF Ran, Layers
  <2> QED BY <1>1, <2>1 DEF Routed
<1>8. pass.kind = "target" => pass.id = forwardPassId["target"]
  BY <1>0 DEF RecordInv, IdOfPass
<1>9. \A i \in 1..N : Routed(records[i]) /\ (\A m \in (i + 1)..N : ~Routed(records[m]))
        => /\ "target" \in PassKinds /\ Layers \ DenseLayers # {}
           /\ records[i].id = IF pass.kind = "target"
                              THEN forwardPassId["target"] - 1 ELSE forwardPassId["target"]
  BY <1>0 DEF RecordInv, LastRouted, N
<1>10. LastRouted'
  <2> SUFFICES ASSUME NEW i \in 1..(N + 1), Routed(records'[i]),
                      \A m \in (i + 1)..(N + 1) : ~Routed(records'[m])
               PROVE  /\ "target" \in PassKinds /\ Layers \ DenseLayers # {}
                      /\ records'[i].id = forwardPassId["target"]
    BY <1>0, <1>2 DEF LastRouted
  <2>1. CASE i = N + 1
    BY <1>0, <1>1, <1>2, <1>6, <1>8, <2>1
  <2>2. CASE i # N + 1
    <3>1. i \in 1..N /\ N + 1 \in (i + 1)..(N + 1) /\ records'[i] = records[i] /\ ~Routed(r)
      BY <1>2, <2>2
    <3>2. \A m \in (i + 1)..N : m \in 1..N /\ m \in (i + 1)..(N + 1) /\ ~Routed(records[m])
      BY <1>2, <3>1
    <3> QED BY <1>0, <1>7, <1>9, <3>1, <3>2
  <2> QED BY <2>1, <2>2
<1>11. NoGap'
  <2> SUFFICES ASSUME NEW i \in 1..(N + 1), NEW j \in 1..(N + 1), i < j,
                      Routed(records'[i]), Routed(records'[j]),
                      \A m \in (i + 1)..(j - 1) : ~Routed(records'[m])
               PROVE  records'[j].id = records'[i].id + 1
    BY <1>2, Zenon DEF NoGap
  <2>1. i \in 1..N /\ records'[i] = records[i]
    BY <1>2
  <2>2. \A m \in (i + 1)..(j - 1) : m \in 1..N /\ ~Routed(records[m])
    BY <1>2, <2>1
  <2>3. CASE j = N + 1
    <3>1. \A m \in (i + 1)..N : ~Routed(records[m])
      BY <1>2, <2>2, <2>3
    <3>2. pass.kind = "target" /\ records'[j].id = forwardPassId["target"]
      BY <1>1, <1>2, <1>6, <1>8, <2>3
    <3>3. "target" \in PassKinds /\ records[i].id = forwardPassId["target"] - 1
      BY <1>9, <2>1, <3>1, <3>2
    <3>4. forwardPassId["target"] \in Int
      BY <3>3, RecorderAssumption DEF RecordInv, TableInv, TypeInv, TypeOK
    <3> QED BY <2>1, <3>2, <3>3, <3>4
  <2>4. CASE j # N + 1
    <3>1. j \in 1..N /\ records'[j] = records[j]
      BY <1>2, <2>4
    <3> QED BY <1>2, <2>1, <2>2, <3>1 DEF RecordInv, NoGap
  <2> QED BY <2>3, <2>4
<1> QED BY <1>3, <1>4, <1>5, <1>10, <1>11 DEF RecordInv

\* A step that empties the list of records has nothing to show about them.
LEMMA ClearedRecordInv ==
  ASSUME TableInv', PassOwn', IdOfPass', records' = <<>>
  PROVE  RecordInv'
<1>1. DOMAIN records' = {} /\ Len(records') = 0
  OBVIOUS
<1>2. ScoresOwn' /\ NoGap'
  BY <1>1 DEF ScoresOwn, NoGap
<1>3. MiscInv' /\ LastRouted'
  BY <1>1 DEF MiscInv, LastRouted
<1> QED BY <1>2, <1>3 DEF RecordInv

\* A step that leaves the records alone can only disturb what relates them to
\* the running pass.
LEMMA KeptRecordInv ==
  ASSUME RecordInv, TableInv', PassOwn', IdOfPass', MiscInv', LastRouted', records' = records
  PROVE  RecordInv'
  BY DEF RecordInv, ScoresOwn, NoGap

\* Every step keeps the invariant.
LEMMA StepRecord ==
  ASSUME TopK <= TopKNum, RecordInv, [Next]_vars
  PROVE  RecordInv'
<1>1. TableInv /\ TableInv' /\ PassOwn'
  BY StepTables, StepOwn DEF RecordInv
<1>2. CASE StartRecord
  BY <1>1, <1>2, ClearedRecordInv DEF StartRecord, IdOfPass
<1>3. CASE StopRecord
  <2>1. /\ pass = NoPass /\ ~recording'
        /\ UNCHANGED <<pass, misc, records, forwardPassId>>
    BY <1>3 DEF StopRecord, gatherer
  <2>2. IdOfPass' /\ LastRouted'
    BY <2>1 DEF IdOfPass, LastRouted
  <2>3. MiscInv'
    BY <2>1 DEF RecordInv, MiscInv
  <2> QED BY <1>1, <2>1, <2>2, <2>3, KeptRecordInv
<1>4. CASE DumpRecord
  BY <1>1, <1>4, ClearedRecordInv DEF DumpRecord, IdOfPass
<1>5. CASE GetStatus
  BY <1>1, <1>5, KeptRecordInv DEF GetStatus, gatherer, RecordInv, IdOfPass, MiscInv, LastRouted
<1>6. ASSUME NEW kind \in PassKinds, NEW n \in Rows, BeginPass(kind, n)
      PROVE  RecordInv'
  <2>1. /\ pass = NoPass /\ pass' = [kind |-> kind, id |-> forwardPassId[kind] + 1, tokens |-> n]
        /\ forwardPassId' = [forwardPassId EXCEPT ![kind] = @ + 1]
        /\ UNCHANGED <<recording, records>> /\ kind \in {"target", "draft"}
        /\ forwardPassId \in [PassKinds -> Int]
    BY <1>1, <1>6, RecorderAssumption DEF BeginPass, TableInv, TypeInv, TypeOK
  <2>2. pass' # NoPass
    <3>1. forwardPassId[kind] + 1 \in 1..MaxPass
      BY <1>1, <1>6, RecorderAssumption DEF BeginPass, WithinBound, TableInv, TypeInv, TypeOK
    <3>2. pass' \in Passes
      BY <1>6, <2>1, <3>1 DEF Passes
    <3> QED BY <3>2, NullAssumption
  <2>3. IdOfPass'
    BY <1>6, <2>1 DEF IdOfPass
  <2>4. MiscInv'
    <3>1. CASE recording
      BY <2>1, <2>2, <3>1 DEF MiscInv
    <3>2. CASE ~recording
      <4>1. misc' = misc
        BY <1>6, <3>2 DEF BeginPass, gatherer
      <4> QED BY <2>1, <3>2, <4>1 DEF RecordInv, MiscInv
    <3> QED BY <3>1, <3>2
  <2>5. LastRouted'
    <3> SUFFICES ASSUME recording, NEW i \in 1..Len(records), Routed(records[i]),
                        \A m \in (i + 1)..Len(records) : ~Routed(records[m])
                 PROVE  /\ "target" \in PassKinds /\ Layers \ DenseLayers # {}
                        /\ records[i].id = IF kind = "target" THEN forwardPassId'["target"] - 1
                                           ELSE forwardPassId'["target"]
      BY <2>1, <2>2 DEF LastRouted
    <3>1. /\ "target" \in PassKinds /\ Layers \ DenseLayers # {}
          /\ records[i].id = forwardPassId["target"]
      BY <2>1 DEF RecordInv, LastRouted
    <3> QED BY <2>1, <3>1
  <2> QED BY <1>1, <2>1, <2>3, <2>4, <2>5, KeptRecordInv
<1>7. CASE RunDenseLayer
  <2>1. UNCHANGED <<recording, pass, forwardPassId, records, misc>>
    BY <1>7 DEF RunDenseLayer, gatherer
  <2>2. IdOfPass' /\ LastRouted'
    BY <2>1 DEF RecordInv, IdOfPass, LastRouted
  <2>3. MiscInv'
    BY <2>1 DEF RecordInv, MiscInv
  <2> QED BY <1>1, <2>1, <2>2, <2>3, KeptRecordInv
<1>8. CASE RunMoeLayer
  <2>1. pass # NoPass /\ UNCHANGED <<recording, pass, forwardPassId, records>>
    BY <1>8 DEF RunMoeLayer
  <2>2. IdOfPass' /\ LastRouted'
    BY <2>1 DEF RecordInv, IdOfPass, LastRouted
  <2>3. MiscInv'
    <3>1. CASE recording
      BY <2>1, <3>1 DEF MiscInv
    <3>2. CASE ~recording
      <4>1. misc' = misc
        BY <1>8, <3>2 DEF RunMoeLayer, Hooked
      <4> QED BY <2>1, <3>2, <4>1 DEF RecordInv, MiscInv
    <3> QED BY <3>1, <3>2
  <2> QED BY <1>1, <2>1, <2>2, <2>3, KeptRecordInv
<1>9. CASE EndPass
  <2>1. CASE recording
    BY <1>1, <1>9, <2>1, EndRecordInv
  <2>2. CASE ~recording
    <3>1. ~recording' /\ pass' = NoPass /\ UNCHANGED <<records, misc>>
      BY <1>9, <2>2 DEF EndPass, gatherer
    <3>2. IdOfPass' /\ LastRouted'
      BY <3>1 DEF IdOfPass, LastRouted
    <3>3. MiscInv'
      BY <2>2, <3>1 DEF RecordInv, MiscInv
    <3> QED BY <1>1, <3>1, <3>2, <3>3, KeptRecordInv
  <2> QED BY <2>1, <2>2
<1>10. CASE UNCHANGED vars
  <2>1. UNCHANGED <<recording, pass, forwardPassId, records, misc>>
    BY <1>10 DEF vars, gatherer
  <2>2. IdOfPass' /\ LastRouted'
    BY <2>1 DEF RecordInv, IdOfPass, LastRouted
  <2>3. MiscInv'
    BY <2>1 DEF RecordInv, MiscInv
  <2> QED BY <1>1, <2>1, <2>2, <2>3, KeptRecordInv
<1> QED
  BY <1>2, <1>3, <1>4, <1>5, <1>6, <1>7, <1>8, <1>9, <1>10 DEF Next

\* The invariant holds in every state, with tables wide enough for the router.
LEMMA RecordInvariant ==
  ASSUME TopK <= TopKNum
  PROVE  Spec => []RecordInv
<1>1. Init => RecordInv
  <2> SUFFICES ASSUME Init PROVE RecordInv
    OBVIOUS
  <2>1. records = <<>> /\ DOMAIN records = {} /\ Len(records) = 0 /\ pass = NoPass
    BY DEF Init
  <2>2. ScoresOwn /\ NoGap
    BY <2>1 DEF ScoresOwn, NoGap
  <2>3. PassOwn /\ MiscInv /\ IdOfPass /\ LastRouted
    BY <2>1 DEF PassOwn, MiscInv, IdOfPass, LastRouted
  <2> QED BY <2>2, <2>3, InitTables DEF RecordInv
<1>2. RecordInv /\ [Next]_vars => RecordInv'
  BY StepRecord
<1> QED BY <1>1, <1>2, PTL DEF Spec

\* The recorded passes of the target model are consecutive: stop keeps the
\* records and start can come at any time, but start_record clears them first.
THEOREM RecordingHasNoGap ==
  ASSUME TopK <= TopKNum
  PROVE  Spec => []NoGap
<1>1. RecordInv => NoGap
  BY DEF RecordInv
<1> QED BY <1>1, RecordInvariant, PTL

\* The router logits and weights that append puts in a record were written in the
\* pass of the record, in the layers for which the record names experts.
THEOREM RecordsHaveOwnScores ==
  ASSUME TopK <= TopKNum
  PROVE  Spec => []ScoresOwn
<1>1. RecordInv => ScoresOwn
  BY DEF RecordInv
<1> QED BY <1>1, RecordInvariant, PTL

\* The list of misc objects that all records share describes the last of them,
\* also after stop_record and while passes run that are not recorded.
THEOREM MiscDescribesLastRecord ==
  ASSUME TopK <= TopKNum
  PROVE  Spec => []MiscOfLastRecord
<1>1. RecordInv => MiscOfLastRecord
  <2> SUFFICES ASSUME RecordInv, pass = NoPass, records # <<>> PROVE MiscOfLastRecord
    BY DEF MiscOfLastRecord
  <2>1. /\ records \in Seq(RecordSet) /\ misc \in Seq(Layers) /\ DOMAIN misc = 1..Len(misc)
        /\ Len(records) \in 1..Len(records)
    BY EmptySeq, LenProperties DEF RecordInv, TableInv, TypeInv, TypeOK
  <2>2. {misc[m] : m \in 1..Len(misc)}
          = {l \in Layers : UseDeepEp /\ Decode(records[Len(records)].ids[l],
                                                records[Len(records)].tokens) # Unrouted}
    BY <2>1 DEF RecordInv, MiscInv
  <2> QED BY <2>1, <2>2 DEF MiscOfLastRecord
<1> QED BY <1>1, RecordInvariant, PTL

\* "Only count valid expert selections for this layer": with tables wide enough
\* for the router, no record counts an expert in a layer without a router. (When
\* on_select_experts has to widen them, it does: the zeros of the new columns.)
THEOREM DenseLayersNotCounted ==
  ASSUME TopK <= TopKNum
  PROVE  Spec => []DenseLayersEmpty
<1>1. Init => DenseLayersEmpty
  BY DEF Init, DenseLayersEmpty
<1>2. RecordInv /\ DenseLayersEmpty /\ [Next]_vars => DenseLayersEmpty'
  <2> SUFFICES ASSUME RecordInv, DenseLayersEmpty, [Next]_vars PROVE DenseLayersEmpty'
    OBVIOUS
  <2>1. CASE records' = <<>>
    BY <2>1 DEF DenseLayersEmpty
  <2>2. CASE records' = records
    BY <2>2 DEF DenseLayersEmpty
  <2>3. CASE EndPass /\ recording
    <3> DEFINE r == RecordOf(pass.id, Collect(metadata))
    <3>1. /\ pass # NoPass /\ layer = NumLayers /\ records' = Append(records, r)
          /\ records \in Seq(RecordSet) /\ TableInv /\ PassOwn
      BY <2>3 DEF EndPass, RecordInv, TableInv, TypeInv, TypeOK
    <3>2. r \in RecordSet
      BY <2>3, <3>1, NewRecord
    <3>3. ASSUME NEW l \in DenseLayers, NEW e \in Experts PROVE r.count[l][e] = 0
      <4>1. l \in Layers /\ ~Ran(l)
        BY <3>3, RecorderAssumption DEF Ran, Layers
      <4>2. Decode(ids[l], pass.tokens) = Unrouted
        BY <2>3, <3>1, <4>1 DEF PassOwn, SelectedByRan
      <4>3. /\ GlobalPhysicalCount(ids, width, pass.tokens)[l][e]
                 = Log!CountOf(Decode(ids[l], pass.tokens), pass.tokens, e)
            /\ metadata = pass.tokens
        BY <2>3, <3>1, <3>3, <4>1, PassTables
      <4>4. Log!CountOf(Unrouted, pass.tokens, e) = 0
        BY DEF Log!CountOf
      <4> QED BY <4>2, <4>3, <4>4 DEF RecordOf, Collect
    <3> HIDE DEF r
    <3>4. /\ Len(records) \in Nat /\ DOMAIN records = 1..Len(records)
          /\ DOMAIN records' = 1..(Len(records) + 1)
          /\ \A i \in 1..Len(records) : records'[i] = records[i]
          /\ records'[Len(records) + 1] = r
      BY <3>1, <3>2, AppendRecord
    <3> QED BY <3>3, <3>4 DEF DenseLayersEmpty
  <2>4. records' = <<>> \/ records' = records \/ (EndPass /\ recording)
    BY DEF Next, StartRecord, StopRecord, DumpRecord, GetStatus, BeginPass, RunDenseLayer,
           RunMoeLayer, EndPass, vars
  <2> QED BY <2>1, <2>2, <2>3, <2>4
<1> QED BY <1>1, <1>2, RecordInvariant, PTL DEF Spec
=============================================================================
