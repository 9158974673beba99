------------------------- MODULE EplbManagerProofs -------------------------
(***************************************************************************)
(* The balancer never rebalances by stale counts, for every buffer size    *)
(* and every number of iterations that the assertion of                    *)
(* EPLBManager.__init__ admits, if the buffer is circular, or infinite and *)
(* all layers are in one chunk, and whatever start, stop and dump requests *)
(* arrive.                                                                 *)
(***************************************************************************)
EXTENDS EplbManager, FiniteSetTheorems, TLAPS

\* How many appends ago slot i of the ring was written: the slot just before
\* _curr_index has age 1, the slot that the next append overwrites is the
\* oldest one.
Age(i) == IF i < index THEN index - i ELSE index + BufferSize - i

\* How many passes were recorded since the metadata last changed.
SinceUpdate == IF phase = "pass_end" THEN iter ELSE iter - 1

\* While the for loop runs and passes are recorded, the rows recorded since the
\* last update are fresh.
YoungRowsFresh ==
  stage = "iterating" /\ recording => \A i \in 0..(BufferSize - 1) : Age(i) <= SinceUpdate => Fresh(i)

\* The strengthening of NoStaleRows that every step preserves.
Inv == TypeOK /\ YoungRowsFresh

\* Appending to the ring moves the index to the next slot, and after the last
\* slot back to the first one.
LEMMA RingSuccessor ==
  ASSUME BufferSize \in Nat \ {0}, NEW i \in 0..(BufferSize - 1)
  PROVE  (i + 1) % BufferSize = IF i + 1 = BufferSize THEN 0 ELSE i + 1
  OBVIOUS

\* The chunk after one that is not the last still starts at some layer.
LEMMA NextChunk ==
  ASSUME NEW c \in Nat, ~LastChunk(c)
  PROVE  c + 1 \in Layers
<1>1. (c + 1) * LayersPerChunk < NumLayers
  BY EplbAssumption DEF LastChunk
<1>2. \A k \in Nat \ {0} : c + 1 <= (c + 1) * k
  <2>1. ASSUME NEW k \in Nat \ {0} PROVE c + 1 <= (c + 1) * k
    OBVIOUS
  <2> QED BY <2>1
<1> QED BY <1>1, <1>2, EplbAssumption DEF Layers

\* The state after EPLBManager.__init__ satisfies the invariant: nothing is
\* buffered, and the loop has not yielded yet.
LEMMA InitInv ==
  ASSUME BufferSize \in Nat \ {0}, Init
  PROVE  Inv
<1>1. TypeOK
  BY EplbAssumption DEF Init, TypeOK, Slots, Circular, Layers, Maps
<1>2. YoungRowsFresh
  BY EplbAssumption DEF Init, YoungRowsFresh, Fresh, Age, SinceUpdate, Circular
<1> QED BY <1>1, <1>2 DEF Inv

\* Zeroing the ring leaves an empty ring of the same size with its index.
LEMMA ResetKeepsRing ==
  ASSUME BufferSize \in Nat \ {0}, TypeOK, BufferReset
  PROVE  /\ buffer' = [i \in 0..(BufferSize - 1) |-> Empty]
         /\ index' = index
         /\ index' \in 0..(BufferSize - 1)
  BY DEF TypeOK, BufferReset, Circular, Slots

\* A recorded pass overwrites the oldest row of the ring.
LEMMA AppendToRing ==
  ASSUME BufferSize \in Nat \ {0}, TypeOK, NEW row, BufferAppend(row)
  PROVE  /\ buffer' = [buffer EXCEPT ![index] = row]
         /\ index' = IF index + 1 = BufferSize THEN 0 ELSE index + 1
         /\ index \in 0..(BufferSize - 1) /\ index' \in 0..(BufferSize - 1)
<1>1. index \in 0..(BufferSize - 1)
  BY DEF TypeOK, Circular
<1>2. CircularAppend(row)
  BY DEF BufferAppend, Circular
<1> QED BY <1>1, <1>2, RingSuccessor DEF CircularAppend

\* Every step of the scheduler, of the model runner and of the balancer keeps
\* the types.
LEMMA StepTypeOK ==
  ASSUME BufferSize \in Nat \ {0}, TypeOK, [Next]_vars
  PROVE  TypeOK'
<1> USE EplbAssumption DEF TypeOK, Slots, Circular
<1>1. CASE StartRecord
  BY <1>1, ResetKeepsRing DEF StartRecord, manager
<1>2. CASE StopRecord
  BY <1>2 DEF StopRecord, manager
<1>3. CASE DumpRecord
  BY <1>3, ResetKeepsRing DEF DumpRecord, manager
<1>4. CASE ForwardPass
  <2>1. CASE recording
    BY <1>4, <2>1, AppendToRing DEF ForwardPass, manager
  <2>2. CASE ~recording
    BY <1>4, <2>2 DEF ForwardPass, manager
  <2> QED BY <2>1, <2>2
<1>5. CASE Iterate
  BY <1>5 DEF Iterate, recorder
<1>6. CASE SkipRebalance
  BY <1>6, ResetKeepsRing DEF SkipRebalance
<1>7. CASE Rebalance
  <2>1. CASE LastChunk(0)
    BY <1>7, <2>1, ResetKeepsRing DEF Rebalance, UpdateExpertLocation, Maps
  <2>2. CASE ~LastChunk(0)
    BY <1>7, <2>2, ResetKeepsRing DEF Rebalance, Layers
  <2> QED BY <2>1, <2>2
<1>8. CASE UpdateChunk
  BY <1>8, NextChunk DEF UpdateChunk, UpdateExpertLocation, Maps, recorder, Layers
<1>9. CASE UNCHANGED vars
  BY <1>9 DEF vars, recorder, manager
<1> QED
  BY <1>1, <1>2, <1>3, <1>4, <1>5, <1>6, <1>7, <1>8, <1>9
  DEF Next, OnForwardPassEnd

\* Every step keeps the young rows fresh: an append makes every row one step
\* older and counts one pass more, a yield changes neither, and a change of
\* the metadata restarts the count.
LEMMA StepYoungRowsFresh ==
  ASSUME BufferSize \in Nat \ {0}, Inv, [Next]_vars
  PROVE  YoungRowsFresh'
<1> USE EplbAssumption DEF Inv, YoungRowsFresh, Fresh, Age, SinceUpdate
<1>1. CASE StartRecord
  BY <1>1, ResetKeepsRing DEF StartRecord
<1>2. CASE StopRecord
  BY <1>2 DEF StopRecord
<1>3. CASE DumpRecord
  BY <1>3, ResetKeepsRing DEF DumpRecord
<1>4. CASE ForwardPass /\ recording
  <2>1. /\ buffer' = [buffer EXCEPT ![index] = map]
        /\ index' = IF index + 1 = BufferSize THEN 0 ELSE index + 1
        /\ index \in 0..(BufferSize - 1)
    BY <1>4, AppendToRing DEF ForwardPass
  <2>2. /\ phase = "idle" /\ phase' = "pass_end"
        /\ UNCHANGED <<recording, map, stage, iter>>
    BY <1>4 DEF ForwardPass, manager
  <2>3. buffer \in [0..(BufferSize - 1) -> Maps \cup {Empty}] /\ iter \in Nat
    BY DEF TypeOK, Circular, Slots
  <2>4. ASSUME stage = "iterating", NEW i \in 0..(BufferSize - 1), Age(i)' <= SinceUpdate'
        PROVE  Fresh(i)'
    <3>1. CASE i = index
      BY <3>1, <2>1, <2>2, <2>3
    <3>2. CASE i # index
      <4>1. Age(i)' = Age(i) + 1
        BY <3>2, <2>1
      <4>2. SinceUpdate' = SinceUpdate + 1
        BY <2>2, <2>3
      <4>3. Fresh(i)
        BY <4>1, <4>2, <2>1, <2>3, <2>4, <1>4
      <4> QED BY <4>3, <3>2, <2>1, <2>2, <2>3
    <3> QED BY <3>1, <3>2
  <2> QED BY <2>2, <2>4
<1>5. CASE ForwardPass /\ ~recording
  BY <1>5 DEF ForwardPass
<1>6. CASE Iterate
  BY <1>6 DEF Iterate, recorder, TypeOK
<1>7. CASE SkipRebalance
  BY <1>7, ResetKeepsRing DEF SkipRebalance
<1>8. CASE Rebalance
  BY <1>8, ResetKeepsRing DEF Rebalance, TypeOK
<1>9. CASE UpdateChunk
  BY <1>9 DEF UpdateChunk, recorder, TypeOK, Circular
<1>10. CASE UNCHANGED vars
  BY <1>10 DEF vars, recorder, manager
<1> QED
  BY <1>1, <1>2, <1>3, <1>4, <1>5, <1>6, <1>7, <1>8, <1>9, <1>10
  DEF Next, OnForwardPassEnd

\* When the loop is over it has seen at least as many passes as the ring has
\* rows, so every row is young.
LEMMA InvImpliesNoStaleRows ==
  ASSUME BufferSize \in Nat \ {0}, Inv
  PROVE  NoStaleRows
<1> SUFFICES ASSUME RebalanceDue, recording, NEW i \in GetAll
             PROVE  Fresh(i)
  BY DEF NoStaleRows
<1>1. i \in 0..(BufferSize - 1) /\ index \in 0..(BufferSize - 1)
  BY DEF Inv, TypeOK, GetAll, Circular
<1>2. Age(i) <= BufferSize
  BY <1>1 DEF Age
<1>3. SinceUpdate = NumIterations /\ stage = "iterating"
  BY DEF RebalanceDue, SinceUpdate
<1> QED BY <1>1, <1>2, <1>3, EplbAssumption DEF Inv, YoungRowsFresh, Age

\* The types of the balancer's state, with a circular buffer.
THEOREM TypeCorrect ==
  ASSUME BufferSize \in Nat \ {0}
  PROVE  Spec => []TypeOK
<1>1. Init => TypeOK
  BY InitInv DEF Inv
<1>2. TypeOK /\ [Next]_vars => TypeOK'
  BY StepTypeOK
<1> QED BY <1>1, <1>2, PTL DEF Spec

\* With a circular buffer no larger than the number of iterations, the counts
\* that EPLBManager.rebalance() dumps while recording is on were all recorded
\* under the map they are translated with.
THEOREM NeverStale ==
  ASSUME BufferSize \in Nat \ {0}
  PROVE  Spec => []NoStaleRows
<1>1. Init => Inv
  BY InitInv
<1>2. Inv /\ [Next]_vars => Inv'
  BY StepTypeOK, StepYoungRowsFresh DEF Inv
<1>3. Inv => NoStaleRows
  BY InvImpliesNoStaleRows
<1> QED BY <1>1, <1>2, <1>3, PTL DEF Spec
-----------------------------------------------------------------------------
(* The infinite buffer, when all layers are in one chunk *)

\* The rows in use are within the capacity, so that none is lost.
WithinCapacity == \E c \in Nat \ {0} : Slots = 0..(c - 1) /\ index <= c

\* The maps change only when the buffer is empty: every row in use is of the current map.
RowsOfMap == stage = "iterating" /\ \A i \in 0..(index - 1) : buffer[i] = map

\* What every step keeps of an infinite buffer.
InfiniteInv == TypeOK /\ WithinCapacity /\ RowsOfMap

\* reset leaves no row in use.
LEMMA ResetInfinite ==
  ASSUME ~Circular, TypeOK, WithinCapacity, BufferReset
  PROVE  /\ WithinCapacity' /\ index' = 0 /\ 0..(index' - 1) = {}
         /\ buffer' \in [Slots' -> Maps \cup {Empty}]
<1>1. buffer' = [i \in Slots |-> Empty] /\ index' = 0
  BY DEF BufferReset
<1>2. Slots' = Slots
  BY <1>1 DEF Slots
<1> QED BY <1>1, <1>2 DEF WithinCapacity

\* append, with or without doubling the capacity, adds one row and keeps the others.
LEMMA AppendInfinite ==
  ASSUME ~Circular, TypeOK, WithinCapacity, NEW row \in Maps, BufferAppend(row)
  PROVE  /\ WithinCapacity' /\ index' = index + 1
         /\ buffer' \in [Slots' -> Maps \cup {Empty}]
         /\ buffer'[index] = row /\ \A i \in 0..(index - 1) : buffer'[i] = buffer[i]
<1>1. PICK c \in Nat \ {0} : Slots = 0..(c - 1) /\ index <= c
  BY DEF WithinCapacity
<1>2. Cardinality(Slots) = c
  <2>1. Cardinality(0..(c - 1)) = c - 1 - 0 + 1
    BY FS_Interval
  <2> QED BY <1>1, <2>1
<1> DEFINE d == IF index = c THEN 2 * c ELSE c
           new(i) == IF i = index THEN row ELSE IF i \in Slots THEN buffer[i] ELSE Empty
<1>3. buffer' = [i \in 0..(d - 1) |-> new(i)] /\ index' = index + 1
  BY <1>2 DEF BufferAppend, InfiniteAppend
<1>4. index \in Nat /\ buffer \in [Slots -> Maps \cup {Empty}]
  BY DEF TypeOK
<1>5. d \in Nat \ {0} /\ index + 1 <= d /\ index \in 0..(d - 1)
      /\ \A i \in 0..(index - 1) : i \in 0..(d - 1) /\ i \in Slots /\ i # index
  BY <1>1, <1>4
<1>6. ASSUME NEW i \in 0..(d - 1) PROVE new(i) \in Maps \cup {Empty}
  BY <1>4
<1> HIDE DEF d
<1>7. buffer' \in [0..(d - 1) -> Maps \cup {Empty}]
  <2> HIDE DEF new
  <2> QED BY <1>3, <1>6
<1>8. Slots' = 0..(d - 1)
  BY <1>3 DEF Slots
<1>9. WithinCapacity'
  BY <1>3, <1>5, <1>8 DEF WithinCapacity
<1>10. buffer'[index] = row /\ \A i \in 0..(index - 1) : buffer'[i] = buffer[i]
  BY <1>3, <1>5
<1> QED BY <1>3, <1>7, <1>8, <1>9, <1>10

\* The first append finds a buffer that is empty and has room.
LEMMA InitInfinite ==
  ASSUME ~Circular, Init
  PROVE  InfiniteInv
<1>1. /\ buffer = [i \in 0..(InitialCapacity - 1) |-> Empty] /\ index = 0
      /\ InitialCapacity \in Nat \ {0} /\ NumIterations \in Nat /\ NumLayers \in Nat \ {0}
  BY EplbAssumption DEF Init
<1>2. Slots = 0..(InitialCapacity - 1)
  BY <1>1 DEF Slots
<1>3. TypeOK
  BY <1>1, <1>2 DEF Init, TypeOK, Layers
<1>4. WithinCapacity /\ RowsOfMap
  BY <1>1, <1>2 DEF Init, WithinCapacity, RowsOfMap
<1> QED BY <1>3, <1>4 DEF InfiniteInv

\* Every step keeps the rows of the current map.
LEMMA StepInfinite ==
  ASSUME ~Circular, LastChunk(0), InfiniteInv, [Next]_vars
  PROVE  InfiniteInv'
<1> USE DEF InfiniteInv
<1>0. NumIterations \in Nat \ {0} /\ iter \in 0..NumIterations
  BY EplbAssumption DEF TypeOK
<1>1. CASE StartRecord \/ DumpRecord
  <2>1. BufferReset /\ recording' \in BOOLEAN /\ UNCHANGED <<map, phase, stage, iter, chunk, plan>>
    BY <1>1 DEF StartRecord, DumpRecord, manager, TypeOK
  <2> QED BY <2>1, ResetInfinite DEF TypeOK, RowsOfMap
<1>2. CASE StopRecord
  <2>1. recording' \in BOOLEAN /\ UNCHANGED <<buffer, index, map, phase, stage, iter, chunk, plan>>
    BY <1>2 DEF StopRecord, manager
  <2> QED BY <2>1 DEF TypeOK, RowsOfMap, WithinCapacity, Slots
<1>3. CASE ForwardPass /\ recording
  <2>1. BufferAppend(map) /\ phase' = "pass_end" /\ UNCHANGED <<recording, map, stage, iter, chunk, plan>>
    BY <1>3 DEF ForwardPass, manager
  <2>2. /\ WithinCapacity' /\ index' = index + 1 /\ buffer' \in [Slots' -> Maps \cup {Empty}]
        /\ buffer'[index] = map /\ \A i \in 0..(index - 1) : buffer'[i] = buffer[i]
    BY <2>1, AppendInfinite DEF TypeOK
  <2>3. index \in Nat
    BY DEF TypeOK
  <2>4. \A i \in 0..(index' - 1) : i \in 0..(index - 1) \/ i = index
    BY <2>2, <2>3
  <2>5. RowsOfMap'
    BY <2>1, <2>2, <2>4 DEF RowsOfMap
  <2>6. TypeOK'
    BY <2>1, <2>2, <2>3 DEF TypeOK
  <2> QED BY <2>2, <2>5, <2>6
<1>4. CASE ForwardPass /\ ~recording
  <2>1. phase' = "pass_end" /\ UNCHANGED <<recording, buffer, index, map, stage, iter, chunk, plan>>
    BY <1>4 DEF ForwardPass, manager
  <2> QED BY <2>1 DEF TypeOK, RowsOfMap, WithinCapacity, Slots
<1>5. CASE Iterate
  <2>1. /\ iter' \in 0..NumIterations /\ phase' = "idle"
        /\ UNCHANGED <<recording, buffer, index, map, stage, chunk, plan>>
    BY <1>0, <1>5 DEF Iterate, recorder
  <2> QED BY <2>1 DEF TypeOK, RowsOfMap, WithinCapacity, Slots
<1>6. CASE SkipRebalance
  <2>1. /\ BufferReset /\ iter' \in 0..NumIterations /\ phase' = "idle"
        /\ UNCHANGED <<recording, map, stage, chunk, plan>>
    BY <1>0, <1>6 DEF SkipRebalance
  <2> QED BY <2>1, ResetInfinite DEF TypeOK, RowsOfMap
<1>7. CASE Rebalance
  <2>1. /\ BufferReset /\ plan' \in Maps /\ map' = [l \in Layers |-> IF l \in Layers THEN plan'[l] ELSE map[l]]
        /\ iter' \in 0..NumIterations /\ phase' = "idle" /\ UNCHANGED <<recording, stage, chunk>>
    BY <1>0, <1>7 DEF Rebalance, UpdateExpertLocation
  <2>2. map' \in Maps
    BY <2>1 DEF Maps
  <2> QED BY <2>1, <2>2, ResetInfinite DEF TypeOK, RowsOfMap
<1>8. CASE UpdateChunk
  BY <1>8 DEF UpdateChunk, RowsOfMap
<1>9. CASE UNCHANGED vars
  BY <1>9 DEF vars, recorder, manager, TypeOK, RowsOfMap, WithinCapacity, Slots
<1> QED BY <1>1, <1>2, <1>3, <1>4, <1>5, <1>6, <1>7, <1>8, <1>9 DEF Next, OnForwardPassEnd

\* The assertion of EPLBManager.__init__ lets an infinite buffer pass. If all layers are
\* in one chunk that is right: the maps change at a dump only, which empties the buffer,
\* so that the counts are never stale; with several chunks they are.
THEOREM InfiniteNeverStale ==
  ASSUME BufferSize < 0, LastChunk(0)
  PROVE  Spec => []NoStaleRows
<1>1. ~Circular
  BY EplbAssumption DEF Circular
<1>2. Init => InfiniteInv
  BY <1>1, InitInfinite
<1>3. InfiniteInv /\ [Next]_vars => InfiniteInv'
  BY <1>1, StepInfinite
<1>4. InfiniteInv => NoStaleRows
  BY <1>1 DEF InfiniteInv, RowsOfMap, NoStaleRows, GetAll, Fresh
<1> QED BY <1>2, <1>3, <1>4, PTL DEF Spec
=============================================================================
