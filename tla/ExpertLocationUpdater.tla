------------------------ MODULE ExpertLocationUpdater ------------------------
(***************************************************************************)
(* ExpertLocationUpdater of src/sglang/srt/eplb/expert_location_updater.py: *)
(* every rank moves the weights of its physical experts from an old to a   *)
(* new placement, layer by layer.  No rank tells another what it needs:    *)
(* each one derives from the two maps what to receive, from whom, and what *)
(* to send, to whom, and the batches of all ranks have to fit together.    *)
(*                                                                         *)
(* The weights of an expert are abstracted to its logical id.  One op      *)
(* stands for the ops of all tensors of an expert, which both ends create  *)
(* in the same order.  Ops between two ranks carry no tag: they are        *)
(* matched in the order in which they were posted, so that a batch is kept *)
(* as a set of ops with the key by which it is sorted.                     *)
(***************************************************************************)
EXTENDS EplbAlgorithm, ChunkUtils

CONSTANTS NumLayers,  \* the layers of one call of update, update_layer_ids
          Undef       \* what torch.empty_like leaves in a new buffer

ASSUME LayersAssumption == NumLayers \in Nat \ {0} /\ Undef \notin Logical

Layers == Upto(NumLayers)

VARIABLES
  pc,       \* pc[g]: where rank g is
  meta,     \* meta[g][l]: the placement of layer l in the metadata of rank g
  plan,     \* plan[g][l]: new_expert_location_metadata
  weights,  \* weights[g][l]: routed_experts_weights, by physical expert
  temp,     \* temp[g]: temp_buffers, by physical expert
  layer,    \* layer[g]: the layer that rank g is moving
  ops,      \* ops[g]: the posted p2p_ops of rank g that are not done
  copies    \* copies[g]: buffer2weight_copy_infos

updater == <<meta, plan, weights, temp, layer, ops, copies>>
-----------------------------------------------------------------------------
(* _compute_comm_info: who gives logical expert e to whom, as seen by rank g *)

Holders(m, e) == {GpuOf(p) : p \in {q \in Physical : m[q] = e}}
SameNode(g)   == {h \in Gpus : NodeOf(h) = NodeOf(g)}

NearSources(old, e, g)      == Holders(old, e) \cap SameNode(g)
Targets(old, new, e)        == Holders(new, e) \ Holders(old, e)
NearTargets(old, new, e, g) == IF NearSources(old, e, g) = {} THEN {} ELSE Targets(old, new, e) \cap SameNode(g)
FarTargets(old, new, e)     == {d \in Targets(old, new, e) : NearSources(old, e, d) = {}}

\* Mutant of SourceOf: a rank of another node fetches from the first holder.
MutantFirstSource(old, new, e, g) ==
  IF g \in NearTargets(old, new, e, g)
  THEN ChunkValue(NearSources(old, e, g), NearTargets(old, new, e, g), g)
  ELSE Min(Holders(old, e))

\* Cases 4 (same-node) and 5 (cross-node) of _handle_recv_of_dst_expert_location.
SourceOf(old, new, e, g) ==
  IF g \in NearTargets(old, new, e, g)
  THEN ChunkValue(NearSources(old, e, g), NearTargets(old, new, e, g), g)
  ELSE ChunkValue(Holders(old, e), FarTargets(old, new, e), g)

\* all_dst_ranks of _create_isend_ops_of_logical_expert_id.
TargetsOf(old, new, e, g) ==
  ElementValues(NearSources(old, e, g), NearTargets(old, new, e, g), g)
    \cup ElementValues(Holders(old, e), FarTargets(old, new, e), g)
-----------------------------------------------------------------------------
(* What rank g does for one layer *)

\* The case that a slot p of rank g is in.
RecvCase(old, new, g, p) ==
  IF old[p] = new[p] THEN "unchanged"
  ELSE IF \E q \in LocalOf(g) : old[q] = new[p] THEN "same-gpu"
  ELSE IF \E q \in LocalOf(g) : q < p /\ new[q] = new[p] THEN "free-rider"
  ELSE "fetch"

Slots(g, old, new, case) == {p \in LocalOf(g) : RecvCase(old, new, g, p) = case}

\* The local copies of case 2, from weights to the buffer.
StagedBuffer(g, old, new, w, t) ==
  [p \in LocalOf(g) |->
     IF p \in Slots(g, old, new, "same-gpu")
     THEN w[Min({q \in LocalOf(g) : old[q] = new[p]})] ELSE t[p]]

\* buffer2weight_copy_infos: from which place of the buffer a slot is filled.
\* Slots are filled once each, so the order of the copies does not matter.
BufferCopies(g, old, new) ==
  [p \in LocalOf(g) \ Slots(g, old, new, "unchanged") |->
     IF RecvCase(old, new, g, p) = "free-rider"
     THEN Min({q \in LocalOf(g) : new[q] = new[p]}) ELSE p]

\* The receives of rank g, and the sends of each expert it holds, from the lowest slot.
Batch(g, old, new) ==
  LET Recv(p)    == [kind |-> "irecv", expert |-> new[p], slot |-> p,
                     peer |-> SourceOf(old, new, new[p], g)]
      Send(p, h) == [kind |-> "isend", expert |-> old[p], slot |-> p, peer |-> h]
      first      == {p \in LocalOf(g) : \A q \in LocalOf(g) : q < p => old[q] # old[p]}
  IN {Recv(p) : p \in Slots(g, old, new, "fetch")}
       \cup UNION {{Send(p, h) : h \in TargetsOf(old, new, old[p], g)} : p \in first}

\* Mutant of SortKey: the batch is posted in the order of the slots.
MutantUnsorted(op) == op.slot

\* _execute_p2p_ops: sorted(p2p_op_infos, key=logical id).
SortKey(op) == op.expert
-----------------------------------------------------------------------------
\* _handle_recv, _create_isend_ops, and the post of the batch.
PostBatch(g) ==
  /\ pc[g] = "stage"
  /\ \E old \in {meta[g][layer[g]].phy2log}, new \in {plan[g][layer[g]].phy2log} :
        /\ temp' = [temp EXCEPT ![g] = StagedBuffer(g, old, new, weights[g][layer[g]], @)]
        /\ ops' = [ops EXCEPT ![g] = Batch(g, old, new)]
        /\ copies' = [copies EXCEPT ![g] = BufferCopies(g, old, new)]
  /\ pc' = [pc EXCEPT ![g] = "wait"]
  /\ UNCHANGED <<meta, plan, weights, layer>>

\* The next op of rank g of the given kind with the given peer: a set of at most one.
NextOp(g, kind, peer) ==
  LET posted == {o \in ops[g] : o.kind = kind /\ o.peer = peer}
  IN {o \in posted : \A i \in posted : SortKey(o) <= SortKey(i)}

\* The communication library matches the next send of g with the next receive of h.
Transfer(g, h) ==
  \E s \in NextOp(g, "isend", h), r \in NextOp(h, "irecv", g) :
    /\ temp' = [temp EXCEPT ![h][r.slot] = weights[g][layer[g]][s.slot]]
    /\ ops' = [ops EXCEPT ![g] = @ \ {s}, ![h] = @ \ {r}]
    /\ UNCHANGED <<pc, meta, plan, weights, layer, copies>>

\* Mutant of NextLayer: one layer too many.
MutantNextLayer(g) ==
  IF layer[g] < NumLayers
  THEN layer' = [layer EXCEPT ![g] = @ + 1] /\ pc' = [pc EXCEPT ![g] = "stage"] /\ UNCHANGED meta
  ELSE pc' = [pc EXCEPT ![g] = "idle"] /\ meta' = [meta EXCEPT ![g] = plan[g]] /\ UNCHANGED layer

\* Mutant of NextLayer: the metadata keep the old slots to dispatch to.
MutantOldDispatch(g) ==
  IF layer[g] < NumLayers - 1
  THEN layer' = [layer EXCEPT ![g] = @ + 1] /\ pc' = [pc EXCEPT ![g] = "stage"] /\ UNCHANGED meta
  ELSE /\ pc' = [pc EXCEPT ![g] = "idle"]
       /\ meta' = [meta EXCEPT ![g] = [l \in DOMAIN @ |-> [@[l] EXCEPT !.phy2log = plan[g][l].phy2log]]]
       /\ UNCHANGED layer

\* After the last layer the metadata of the rank becomes the new one.
NextLayer(g) ==
  IF layer[g] < NumLayers - 1
  THEN layer' = [layer EXCEPT ![g] = @ + 1] /\ pc' = [pc EXCEPT ![g] = "stage"] /\ UNCHANGED meta
  ELSE pc' = [pc EXCEPT ![g] = "idle"] /\ meta' = [meta EXCEPT ![g] = plan[g]] /\ UNCHANGED layer

\* All requests are done: the buffer goes to the weights.
FinishLayer(g) ==
  /\ pc[g] = "wait"
  /\ ops[g] = {}
  /\ weights' = [weights EXCEPT ![g][layer[g]] =
                   [p \in LocalOf(g) |-> IF p \in DOMAIN copies[g] THEN temp[g][copies[g][p]] ELSE @[p]]]
  /\ NextLayer(g)
  /\ UNCHANGED <<plan, temp, ops, copies>>
=============================================================================
