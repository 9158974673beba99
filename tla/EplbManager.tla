---------------------------- MODULE EplbManager ----------------------------
(***************************************************************************)
(* The expert parallel load balancer: EPLBManager                          *)
(* (src/sglang/srt/eplb/eplb_manager.py) driving the recorder in the stat  *)
(* mode (_StatAccumulator with its _CircularBuffer or _InfiniteBuffer) and *)
(* rewriting the expert locations (ExpertLocationMetadata.update).         *)
(*                                                                         *)
(* A buffered step counts the PHYSICAL experts of one forward pass.  The   *)
(* dump translates all buffered steps to logical experts with the map that *)
(* is current when it runs, so a step is counted right only if it was      *)
(* recorded under that map.  A row of the buffer is therefore abstracted   *)
(* to the physical_to_logical_map under which it was recorded, and a       *)
(* zeroed row to Empty; the placement of a layer is a value of Placements. *)
(*                                                                         *)
(* ModelRunner.forward runs the pass and then calls on_forward_pass_end in *)
(* the same thread; control requests are handled between two such calls.   *)
(***************************************************************************)
EXTENDS Integers, FiniteSets

CONSTANTS
  NumIterations,    \* eplb_rebalance_num_iterations
  BufferSize,       \* expert_distribution_recorder_buffer_size, < 0: infinite
  InitialCapacity,  \* rows an _InfiniteBuffer starts with (128 in the code)
  NumLayers,        \* layers with routed experts
  LayersPerChunk,   \* eplb_rebalance_layers_per_chunk
  Placements,       \* the possible physical_to_logical_map[layer]
  MaxRows,          \* bound: rows of an infinite buffer
  Empty

\* The assertion of EPLBManager.__init__, and what the buffers need to work.
ASSUME EplbAssumption ==
  /\ NumIterations \in Nat \ {0}
  /\ BufferSize \in Int \ {0}
  /\ NumIterations >= BufferSize
  /\ InitialCapacity \in Nat \ {0}
  /\ NumLayers \in Nat \ {0}
  /\ LayersPerChunk \in Nat \ {0}
  /\ MaxRows \in Nat

Layers == 0..(NumLayers - 1)
Maps   == [Layers -> Placements]

ASSUME EmptyAssumption == Empty \notin Maps

VARIABLES
  recording,  \* _recording
  buffer,     \* the rows of _global_physical_count_of_buffered_step
  index,      \* _curr_index of a circular buffer, _size of an infinite one
  map,        \* physical_to_logical_map of the global metadata
  phase,      \* "idle", or "pass_end" when on_forward_pass_end is to run
  stage,      \* where the generator stands: "iterating" or "chunk"
  iter,       \* yields of the for loop of _entrypoint so far
  chunk,      \* the next chunk to update when stage = "chunk"
  plan        \* the metadata computed by init_by_eplb

recorder == <<recording, buffer, index>>
manager  == <<stage, iter, chunk, plan>>
vars == <<recorder, map, phase, manager>>

Circular == BufferSize > 0
-----------------------------------------------------------------------------
(* _CircularBuffer and _InfiniteBuffer *)

Slots == DOMAIN buffer

\* Mutant of CircularAppend: the index does not wrap around.
MutantNoWrap(row) ==
  /\ buffer' = [buffer EXCEPT ![index] = row]
  /\ index' = index + 1

\* append of _CircularBuffer
CircularAppend(row) ==
  /\ buffer' = [buffer EXCEPT ![index] = row]
  /\ index' = (index + 1) % BufferSize

\* append of _InfiniteBuffer, which doubles its capacity when it is full.
InfiniteAppend(row) ==
  LET capacity == Cardinality(Slots)
      grown == IF index = capacity THEN 2 * capacity ELSE capacity
  IN /\ buffer' = [i \in 0..(grown - 1) |->
                     IF i = index THEN row
                     ELSE IF i \in Slots THEN buffer[i] ELSE Empty]
     /\ index' = index + 1

BufferAppend(row) == IF Circular THEN CircularAppend(row) ELSE InfiniteAppend(row)

\* get_all: the whole ring, or the rows in use.
GetAll == IF Circular THEN Slots ELSE 0..(index - 1)

\* reset zeroes the rows; a circular buffer keeps its index.
BufferReset ==
  /\ buffer' = [i \in Slots |-> Empty]
  /\ index' = IF Circular THEN index ELSE 0
-----------------------------------------------------------------------------
\* The state after EPLBManager.__init__, which starts the recording.
Init ==
  /\ recording = TRUE
  /\ buffer = [i \in 0..((IF Circular THEN BufferSize ELSE InitialCapacity) - 1) |-> Empty]
  /\ index = 0
  /\ map \in Maps
  /\ phase = "idle"
  /\ stage = "iterating"
  /\ iter = 0
  /\ chunk = 0
  /\ plan = map

(* Control requests, handled by the scheduler between two passes *)

StartRecord ==
  /\ phase = "idle"
  /\ BufferReset
  /\ recording' = TRUE
  /\ UNCHANGED <<map, phase, manager>>

StopRecord ==
  /\ phase = "idle"
  /\ recording' = FALSE
  /\ UNCHANGED <<buffer, index, map, phase, manager>>

DumpRecord ==
  /\ phase = "idle"
  /\ BufferReset
  /\ UNCHANGED <<recording, map, phase, manager>>

(* ModelRunner.forward: the pass selects physical experts of the current map *)

ForwardPass ==
  /\ phase = "idle"
  /\ Circular \/ index < MaxRows
  /\ IF recording THEN BufferAppend(map) ELSE UNCHANGED <<buffer, index>>
  /\ phase' = "pass_end"
  /\ UNCHANGED <<recording, map, manager>>

(* on_forward_pass_end: one step of the generator, from yield to yield *)

\* Mutant of Iterate: the loop starts over before it ends.
MutantLoopRestarts ==
  /\ phase = "pass_end"
  /\ stage = "iterating" /\ iter < NumIterations
  /\ iter' = IF iter + 1 = NumIterations THEN 0 ELSE iter + 1
  /\ phase' = "idle"
  /\ UNCHANGED <<recorder, map, stage, chunk, plan>>

\* Another turn of the for loop.
Iterate ==
  /\ phase = "pass_end"
  /\ stage = "iterating" /\ iter < NumIterations
  /\ iter' = iter + 1
  /\ phase' = "idle"
  /\ UNCHANGED <<recorder, map, stage, chunk, plan>>

\* The for loop is over: rebalance() is next, and starts with dump_record.
RebalanceDue == phase = "pass_end" /\ stage = "iterating" /\ iter = NumIterations

\* _check_rebalance_needed says no: back to the for loop and its first yield.
SkipRebalance ==
  /\ RebalanceDue
  /\ BufferReset
  /\ iter' = 1
  /\ phase' = "idle"
  /\ UNCHANGED <<recording, map, stage, chunk, plan>>

\* Mutant of ChunkLayers: the last layer of each chunk is left out.
MutantShortChunk(c) == {l \in Layers : c * LayersPerChunk <= l /\ l < (c + 1) * LayersPerChunk - 1}

\* _compute_update_layer_ids_chunks: the layers of chunk c, and their number.
ChunkLayers(c) == {l \in Layers : c * LayersPerChunk <= l /\ l < (c + 1) * LayersPerChunk}
LastChunk(c)   == (c + 1) * LayersPerChunk >= NumLayers

\* ExpertLocationMetadata.update for the layers in ls.
UpdateExpertLocation(new, ls) ==
  map' = [l \in Layers |-> IF l \in ls THEN new[l] ELSE map[l]]

\* rebalance(): dump, plan, and if all layers fit one chunk update them at once
\* and go on to the first yield of the for loop.  With several chunks the
\* generator yields before the first of them.
Rebalance ==
  /\ RebalanceDue
  /\ BufferReset
  /\ plan' \in Maps
  /\ IF LastChunk(0)
     THEN UpdateExpertLocation(plan', Layers) /\ iter' = 1 /\ UNCHANGED <<stage, chunk>>
     ELSE stage' = "chunk" /\ chunk' = 0 /\ UNCHANGED <<map, iter>>
  /\ phase' = "idle"
  /\ UNCHANGED recording

\* Mutant of UpdateChunk: the for loop is not started anew after a rebalancing.
MutantLoopNotRestarted ==
  /\ phase = "pass_end"
  /\ stage = "chunk"
  /\ UpdateExpertLocation(plan, ChunkLayers(chunk))
  /\ IF LastChunk(chunk)
     THEN stage' = "iterating" /\ chunk' = 0 /\ UNCHANGED iter
     ELSE chunk' = chunk + 1 /\ UNCHANGED <<stage, iter>>
  /\ phase' = "idle"
  /\ UNCHANGED <<recorder, plan>>

\* Update one chunk; after the last one the for loop yields for the first time.
UpdateChunk ==
  /\ phase = "pass_end"
  /\ stage = "chunk"
  /\ UpdateExpertLocation(plan, ChunkLayers(chunk))
  /\ IF LastChunk(chunk)
     THEN stage' = "iterating" /\ iter' = 1 /\ chunk' = 0
     ELSE chunk' = chunk + 1 /\ UNCHANGED <<stage, iter>>
  /\ phase' = "idle"
  /\ UNCHANGED <<recorder, plan>>

OnForwardPassEnd ==
  Iterate \/ SkipRebalance \/ Rebalance \/ UpdateChunk

Next ==
  \/ StartRecord \/ StopRecord \/ DumpRecord
  \/ ForwardPass
  \/ OnForwardPassEnd

Spec == Init /\ [][Next]_vars

\* Passes keep coming: the server is under load.
FairSpec == Spec /\ WF_vars(ForwardPass) /\ WF_vars(OnForwardPassEnd)
-----------------------------------------------------------------------------
(* Properties *)

\* The types of the variables.
TypeOK ==
  /\ recording \in BOOLEAN
  /\ buffer \in [Slots -> Maps \cup {Empty}]
  /\ index \in Nat
  /\ Circular => Slots = 0..(BufferSize - 1) /\ index < BufferSize
  /\ map \in Maps
  /\ phase \in {"idle", "pass_end"}
  /\ stage \in {"iterating", "chunk"}
  /\ iter \in 0..NumIterations
  /\ chunk \in Layers
  /\ plan \in Maps

\* A row that a dump made now translates to the right logical experts.
Fresh(i) == buffer[i] \in {Empty, map}

\* When a balancer that is recording dumps the counts it will rebalance by,
\* every buffered step was recorded under the map it is translated with,
\* although maps change chunk by chunk while passes are being recorded, and
\* although clients stop, start and dump the recording at any time.
NoStaleRows == RebalanceDue /\ recording => \A i \in GetAll : Fresh(i)

\* A rebalancing that has begun is completed: the metadata becomes the plan in
\* all layers, whatever start and dump requests arrive meanwhile.
PlanApplied == (stage = "chunk") ~> (stage = "iterating" /\ map = plan)

\* The balancer never stops looking at the load.
RebalanceRecurs == []<>RebalanceDue
=============================================================================
