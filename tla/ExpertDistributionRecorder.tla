--------------------- MODULE ExpertDistributionRecorder ---------------------
(***************************************************************************)
(* _ExpertDistributionRecorderReal with the gatherer and the accumulator   *)
(* of the per_token mode (_DetailSinglePassGatherer, _DetailAccumulator),  *)
(* src/sglang/srt/eplb/expert_distribution.py.                             *)
(*                                                                         *)
(* The recorder lives in the scheduler process, which is single threaded:  *)
(* a control request is handled between two forward passes, a forward pass *)
(* is a sequence of layers, and each MoE layer calls the hooks of the      *)
(* recorder.  Every handler below is therefore one action.                 *)
(*                                                                         *)
(* Ids of experts are 0 .. NumExperts-1; -1 marks an empty cell.  Router   *)
(* logits and weights are abstracted to the pass that wrote them (0: the   *)
(* cell holds zeros), which is all that matters to whether they belong to  *)
(* the record they end up in.  CUDA graphs are off (server_sglang.sh), so  *)
(* no hook runs while a stream is being captured.                          *)
(***************************************************************************)
EXTENDS Integers, Sequences, FiniteSets

CONSTANTS
  NumLayers,    \* number of layers of the model
  DenseLayers,  \* the layers without a router (DeepSeek: the first three)
  NumExperts,   \* number of physical experts
  TopKNum,      \* _TOP_K_NUM: the width of the tables at the start
  TopK,         \* the number of experts the router really selects
  MaxTokens,    \* rows of the tables (chunked_prefill_size * 8)
  PassKinds,    \* a subset of {"target", "draft"}
  UseDeepEp,    \* whether the MoE layers dispatch through DeepEP (normal mode)
  MaxPass,      \* bound: forward passes of all kinds together
  NoPass, Unrouted

ASSUME RecorderAssumption ==
  /\ NumLayers \in Nat \ {0}
  /\ DenseLayers \subseteq 0..(NumLayers - 1)
  /\ NumExperts \in Nat \ {0}
  /\ TopKNum \in Nat \ {0}
  /\ TopK \in 1..NumExperts
  /\ MaxTokens \in Nat \ {0}
  /\ PassKinds \subseteq {"target", "draft"}
  /\ UseDeepEp \in BOOLEAN
  /\ MaxPass \in Nat

Layers  == 0..(NumLayers - 1)
Experts == 0..(NumExperts - 1)
Rows    == 1..MaxTokens

VARIABLES
  recording,      \* _recording
  pass,           \* the running forward pass, or NoPass
  layer,          \* the next layer of the running pass
  forwardPassId,  \* ModelRunner.forward_pass_id, one counter for each runner
  width,          \* _topk_ids_of_layer.shape[2]
  ids,            \* _topk_ids_of_layer
  logits,         \* _router_logits_of_layer
  weights,        \* _topk_weights_of_layer
  misc,           \* _misc_objects: one list object, never replaced
  metadata,       \* _metadata: the number of tokens of the pass, 0 for None
  records,        \* _records of the accumulator
  reply           \* the last answer to a dump or status request

gatherer == <<width, ids, logits, weights, misc, metadata>>
vars == <<recording, pass, layer, forwardPassId, gatherer, records, reply>>

\* A forward pass: its kind, its id and the number of tokens of the batch.
Passes == [kind : PassKinds, id : 1..MaxPass, tokens : Rows]

\* What a router may select for n tokens: torch.topk returns different experts.
Selections(n) ==
  [1..n -> {s \in [1..TopK -> Experts] : \A i, j \in 1..TopK : i # j => s[i] # s[j]}]

ASSUME NullAssumption ==
  /\ \A n \in Rows : Unrouted \notin Selections(n)
  /\ NoPass \notin Passes
  /\ \A n \in Rows : NoPass \notin [id : 1..MaxPass, tokens : {n},
                                   sel : [Layers -> {Unrouted} \cup Selections(n)]]

Blank(w, v) == [l \in Layers |-> [t \in Rows |-> [k \in 1..w |-> v]]]
NoScores    == [l \in Layers |-> [t \in Rows |-> 0]]

-----------------------------------------------------------------------------
(* _DetailSinglePassGatherer *)

\* Mutant of ResetTables: the ids of the pass before stay in the table.
MutantResetKeepsIds ==
  logits' = NoScores /\ weights' = NoScores /\ misc' = <<>> /\ UNCHANGED <<ids, width>>

\* Mutant of ResetTables: the router logits of the pass before stay.
MutantResetKeepsLogits ==
  ids' = Blank(width, -1) /\ weights' = NoScores /\ misc' = <<>> /\ UNCHANGED <<logits, width>>

\* Mutant of ResetTables: the misc objects of the pass before stay.
MutantResetKeepsMisc ==
  ids' = Blank(width, -1) /\ logits' = NoScores /\ weights' = NoScores /\ UNCHANGED <<misc, width>>

\* reset: every table is blanked, and the one list of misc objects is emptied
\* in place, which also empties it in the records that refer to it.
ResetTables ==
  /\ ids' = Blank(width, -1)
  /\ logits' = NoScores
  /\ weights' = NoScores
  /\ misc' = <<>>
  /\ UNCHANGED width

GathererReset == ResetTables /\ metadata' = 0

\* The resize of on_select_experts: the new columns are filled with zeros, in
\* every layer and every row.
Widened ==
  IF TopK <= width THEN ids
  ELSE [l \in Layers |-> [t \in Rows |-> [k \in 1..TopK |->
          IF k <= width THEN ids[l][t][k] ELSE 0]]]

\* on_select_experts for the n tokens of the batch.
OnSelectExperts(l, s, n) ==
  LET w == IF TopK <= width THEN width ELSE TopK
      Scored(tbl) == [tbl EXCEPT ![l] =
                        [t \in Rows |-> IF t <= n THEN pass.id ELSE @[t]]]
  IN /\ width' = w
     /\ ids' = [Widened EXCEPT ![l] =
                  [t \in Rows |-> [k \in 1..w |->
                     IF t <= n /\ k <= TopK THEN s[t][k] ELSE @[t][k]]]]
     /\ logits' = Scored(IF TopK <= width THEN logits ELSE NoScores)
     /\ weights' = Scored(weights)

\* on_deepep_dispatch_normal
OnDeepepDispatchNormal(l) == misc' = IF UseDeepEp THEN Append(misc, l) ELSE misc

\* _convert_per_token_to_global_physical_count: ids that are -1 or out of
\* bounds are not counted.
GlobalPhysicalCount(tbl, w, n) ==
  [l \in Layers |-> [e \in Experts |->
     Cardinality({c \in (1..n) \X (1..w) : tbl[l][c[1]][c[2]] = e})]]

\* collect: the first n rows of the tables.  The list of misc objects is
\* handed out by reference, so that a record holds no list of its own.
Collect(n) ==
  [tokens  |-> n,
   ids     |-> [l \in Layers |-> [t \in 1..n |-> ids[l][t]]],
   logits  |-> [l \in Layers |-> [t \in 1..n |-> logits[l][t]]],
   weights |-> [l \in Layers |-> [t \in 1..n |-> weights[l][t]]],
   count   |-> GlobalPhysicalCount(ids, width, n)]

\* _DetailAccumulator.append
RecordOf(id, data) ==
  [id |-> id, tokens |-> data.tokens, ids |-> data.ids, logits |-> data.logits,
   weights |-> data.weights, count |-> data.count]
-----------------------------------------------------------------------------
(* _ExpertDistributionRecorderReal: control requests *)

Init ==
  /\ recording = FALSE
  /\ pass = NoPass
  /\ layer = 0
  /\ forwardPassId = [k \in PassKinds |-> 0]
  /\ width = TopKNum
  /\ ids = Blank(TopKNum, 0)
  /\ logits = NoScores
  /\ weights = NoScores
  /\ misc = <<>>
  /\ metadata = 0
  /\ records = <<>>
  /\ reply = [records |-> <<>>, misc |-> <<>>]

\* Mutant of StartRecord: the records are not cleared.
MutantStartKeepsRecords ==
  /\ pass = NoPass
  /\ GathererReset
  /\ recording' = TRUE
  /\ UNCHANGED <<pass, layer, forwardPassId, records, reply>>

StartRecord ==
  /\ pass = NoPass
  /\ GathererReset
  /\ records' = <<>>
  /\ recording' = TRUE
  /\ UNCHANGED <<pass, layer, forwardPassId, reply>>

StopRecord ==
  /\ pass = NoPass
  /\ recording' = FALSE
  /\ UNCHANGED <<pass, layer, forwardPassId, gatherer, records, reply>>

\* dump_record takes a shallow copy of the records and resets; the answer is
\* serialised when dump_record has returned.
DumpRecord ==
  /\ pass = NoPass
  /\ GathererReset
  /\ records' = <<>>
  /\ reply' = [records |-> records, misc |-> misc']
  /\ UNCHANGED <<recording, pass, layer, forwardPassId>>

GetStatus ==
  /\ pass = NoPass
  /\ reply' = IF recording THEN [records |-> records, misc |-> misc]
                           ELSE [records |-> <<>>, misc |-> <<>>]
  /\ UNCHANGED <<recording, pass, layer, forwardPassId, gatherer, records>>
-----------------------------------------------------------------------------
(* A forward pass: ModelRunner.forward inside with_forward_pass *)

\* Bound: one more pass of this kind makes at most MaxPass of both kinds.
WithinBound(kind) ==
  \A k \in PassKinds :
    forwardPassId[kind] + (IF k = kind THEN 0 ELSE forwardPassId[k]) < MaxPass

\* Mutant of BeginPass: the id is read before it is incremented.
MutantOldPassId(kind, n) ==
  /\ pass = NoPass
  /\ WithinBound(kind)
  /\ forwardPassId' = [forwardPassId EXCEPT ![kind] = @ + 1]
  /\ pass' = [kind |-> kind, id |-> forwardPassId[kind], tokens |-> n]
  /\ layer' = 0
  /\ IF recording THEN ResetTables /\ metadata' = n
                  ELSE UNCHANGED gatherer
  /\ UNCHANGED <<recording, records, reply>>

BeginPass(kind, n) ==
  /\ pass = NoPass
  /\ WithinBound(kind)
  /\ forwardPassId' = [forwardPassId EXCEPT ![kind] = @ + 1]
  /\ pass' = [kind |-> kind, id |-> forwardPassId[kind] + 1, tokens |-> n]
  /\ layer' = 0
  /\ IF recording THEN ResetTables /\ metadata' = n
                  ELSE UNCHANGED gatherer
  /\ UNCHANGED <<recording, records, reply>>

\* _on_hook: the draft model runs inside disable_this_region.
Hooked == recording /\ pass.kind # "draft"

RunDenseLayer ==
  /\ pass # NoPass
  /\ layer \in DenseLayers
  /\ layer' = layer + 1
  /\ UNCHANGED <<recording, pass, forwardPassId, gatherer, records, reply>>

RunMoeLayer ==
  /\ pass # NoPass
  /\ layer \in Layers \ DenseLayers
  /\ \E s \in Selections(pass.tokens) :
       IF Hooked
       THEN /\ OnSelectExperts(layer, s, pass.tokens)
            /\ OnDeepepDispatchNormal(layer)
       ELSE UNCHANGED <<width, ids, logits, weights, misc>>
  /\ layer' = layer + 1
  /\ UNCHANGED <<recording, pass, forwardPassId, metadata, records, reply>>

EndPass ==
  /\ pass # NoPass
  /\ layer = NumLayers
  /\ pass' = NoPass
  /\ records' = IF recording THEN Append(records, RecordOf(pass.id, Collect(metadata)))
                             ELSE records
  /\ UNCHANGED <<recording, layer, forwardPassId, gatherer, reply>>

Next ==
  \/ StartRecord \/ StopRecord \/ DumpRecord \/ GetStatus
  \/ \E kind \in PassKinds, n \in Rows : BeginPass(kind, n)
  \/ RunDenseLayer \/ RunMoeLayer \/ EndPass

Spec == Init /\ [][Next]_vars
-----------------------------------------------------------------------------
(* Properties *)

Row(w)  == [1..w -> -1..(NumExperts - 1)]
Scores  == 0..MaxPass

RecordSet ==
  [id : 1..MaxPass, tokens : Rows, ids : [Layers -> Seq(Seq(-1..(NumExperts - 1)))],
   logits : [Layers -> Seq(Scores)], weights : [Layers -> Seq(Scores)],
   count : [Layers -> [Experts -> Nat]]]

\* The types of the variables.
TypeOK ==
  /\ recording \in BOOLEAN
  /\ pass \in {NoPass} \cup Passes
  /\ layer \in 0..NumLayers
  /\ forwardPassId \in [PassKinds -> 0..MaxPass]
  /\ width \in {TopKNum, TopK}
  /\ ids \in [Layers -> [Rows -> Row(width)]]
  /\ logits \in [Layers -> [Rows -> Scores]]
  /\ weights \in [Layers -> [Rows -> Scores]]
  /\ misc \in Seq(Layers)
  /\ metadata \in 0..MaxTokens
  /\ records \in Seq(RecordSet)
  /\ reply \in [records : Seq(RecordSet), misc : Seq(Layers)]

\* What the rows of a layer say the router selected for n tokens.
Decode(row, n) ==
  IF \A t \in 1..n : \A k \in DOMAIN row[t] : row[t][k] = -1
  THEN Unrouted
  ELSE [t \in 1..n |-> [k \in 1..TopK |-> row[t][k]]]

EntryOfRecord(r) ==
  [id |-> r.id, tokens |-> r.tokens,
   sel |-> [l \in Layers |-> Decode(r.ids[l], r.tokens)], count |-> r.count]

CurrentPass ==
  IF pass = NoPass \/ ~recording THEN NoPass
  ELSE [id |-> pass.id, tokens |-> metadata,
        sel |-> [l \in Layers |->
                   IF l < layer THEN Decode(ids[l], metadata) ELSE Unrouted]]

Entries(rs) == [i \in DOMAIN rs |-> EntryOfRecord(rs[i])]

Log == INSTANCE RecordingLog
         WITH cur <- CurrentPass, log <- Entries(records),
              reply <- Entries(reply.records), Batches <- Rows, PassIds <- 1..MaxPass

\* Whatever the order of requests and passes, the records of the recorder are
\* the log that RecordingLog promises: one record for each pass that ran while
\* recording, with the selections of that pass and of no other, and their
\* counts; start and dump empty it, status does not.
ImplementsLog == Log!Spec

Routed(r) == \E l \in Layers : Decode(r.ids[l], r.tokens) # Unrouted

\* The recorded passes of the target model have consecutive forward pass ids:
\* a recording cannot be paused and resumed with a hole in it, although stop
\* keeps the records and start can be called at any time.
NoGap ==
  \A i, j \in DOMAIN records :
    /\ i < j /\ Routed(records[i]) /\ Routed(records[j])
    /\ \A m \in (i + 1)..(j - 1) : ~Routed(records[m])
    => records[j].id = records[i].id + 1

\* The router logits and weights of a record were written in the pass of that
\* record, in the very layers in which it names experts, and nowhere else.
ScoresOwn ==
  \A i \in DOMAIN records : LET r == records[i] IN
    \A l \in Layers, t \in 1..r.tokens :
      LET own == IF Decode(r.ids[l], r.tokens) = Unrouted THEN 0 ELSE r.id
      IN r.logits[l][t] = own /\ r.weights[l][t] = own

\* A layer without a router is never counted: "Only count valid expert
\* selections for this layer".
DenseLayersEmpty ==
  \A i \in DOMAIN records : \A l \in DenseLayers, e \in Experts :
    records[i].count[l][e] = 0

\* The one list of misc objects that all records refer to holds the DeepEP
\* dispatches of the last record, one for each layer that selected experts.
MiscOfLastRecord ==
  pass = NoPass /\ records # <<>> =>
    LET r == records[Len(records)]
    IN {misc[m] : m \in DOMAIN misc}
         = {l \in Layers : UseDeepEp /\ Decode(r.ids[l], r.tokens) # Unrouted}
=============================================================================
