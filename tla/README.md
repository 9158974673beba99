# Specifications of the expert recording pipeline

This directory holds TLA+ specifications of the parts of the repository that
decide which expert selections end up in which file: the recorder inside the
SGLang server, the load balancer that shares it and moves the experts between
ranks, the event loops that make the passes which are recorded, the control
requests that drive the recorder, the script that collects data with it and the
script that joins the data to the tokens. TLC checks them on small instances,
TLAPS proves the main results for every instance.

Paths below are relative to the repository; `eplb/` stands for
`src/sglang/srt/eplb/`.

## 1. The system

    infer_and_save.py  --HTTP-->  http_server  -->  _Communicator  --zmq-->  Scheduler (per rank)
      chat, start, stop, dump                         one request               between two passes
            |                                         at a time                        |
            v                                                              ExpertDistributionRecorder
    output *.jsonl, expert_logs/dist_*.json                                  gatherer -> accumulator
            |                                                                    ^            |
            v                                                             ModelRunner.forward |
    postprocessing (align records with tokens) -> metrics -> plots          hooks in layers   v
                                                                                       EPLBManager
                                                                        dump, plan, move layers by chunks

| Component | State it keeps | Operations | Talks to |
|---|---|---|---|
| Recorder, `per_token` mode (`eplb/expert_distribution.py`: `_ExpertDistributionRecorderReal`, `_DetailSinglePassGatherer`, `_DetailAccumulator`) | `_recording`, tables of top-k ids, logits and weights shared by all passes, one list of misc objects, the list of records | start, stop, dump, status; start and end of a pass; hooks of the MoE layers; resizing of the tables | schedulers call it between passes, the model calls it within a pass |
| Recorder, `stat` mode (`_StatAccumulator`, `_CircularBuffer`, `_InfiniteBuffer`) | a buffer with the physical counts of the last steps | append, get_all, reset; the dump translates physical to logical experts | `EPLBManager`, other ranks by collectives |
| Balancer (`eplb/eplb_manager.py`, `ExpertLocationMetadata.update`) | a generator with its place in the loop, the plan, the current maps | one generator step after each pass: iterate, rebalance, update a chunk of layers | dumps the recorder, rewrites the maps |
| Control requests (`tokenizer_communicator_mixin.py`: `_Communicator`) | `_result_event`, `_result_values`, `_ready_queue` | call, wait for the turn, send, collect `fan_out` answers, hand over the turn | HTTP handlers on one event loop, one scheduler per rank |
| Collector (`src/preprocess/infer_and_save.py`, `infer_backend.py`) | the output file, the log files, `processed_prompts` | read back, start, chat, append, dump every 20 items, final dump, stop | the server, by HTTP; the files are the only thing that survives a crash |
| Alignment (`src/metric/postprocess/`) | a position in the records and in the tokens | batch and streaming alignment, counting | reads what the collector wrote |
| Metrics, aggregation, plots (`src/metric/utils/`, `src/metric/script/`) | none | statistics over count matrices, n-grams | read files, write files |
| Placement (`eplb/eplb_algorithms/deepseek.py`, `ExpertLocationMetadata`) | for each layer: physical to logical experts, logical to physical ones | a placement from the loads of the experts | every rank computes it for itself |
| Placement update (`eplb/expert_location_updater.py`) | the weights of the local slots, buffers, posted sends and receives | for each layer: local copies, one batch of sends and receives, copies out of the buffers; then the new maps | the other ranks, by point-to-point messages without tags |
| Event loops (`managers/scheduler.py`, `schedule_batch.py`, `schedule_policy.py`, `scheduler_output_processor_mixin.py`) | waiting queue, running batch, last batch, the chunked request, results that are not processed yet | arrival, abort, prefill in chunks, decode, retraction, processing of a result, now or one batch late | make the passes that the recorder records |
| SGLang runtime | the rest of the server | | vendored |

What is hard in this code, and what correctness means there:

* *Shared tables.* One set of tables serves every pass, of the target and of a
  draft model; a record must hold the selections of its own pass only, and a
  recording must be a contiguous run of passes although requests arrive in any
  order between them.
* *Maps that change while counts accumulate.* The balancer moves layers in
  chunks, one chunk after each pass, while passes are recorded; a count is right
  only if it is translated with the map under which it was recorded.
* *An event loop.* Coroutines interleave at every `await`; one request may be in
  flight, everybody must get the answer to his own request, nobody may wait for
  ever.
* *Crashes and lost answers.* The script dies, is run again, loses answers, and
  still must not repeat what is done or forget what is not.
* *Alignment by position.* Nothing ties a record to its token except the order.
  The event loops decide which passes there are; the detokenizer and the tokenizer
  decide which tokens the script finds.
* *Messages nobody announces.* Each rank works out from the two maps what to
  receive and what to send. If two ranks disagree about one expert, or post the
  same messages in another order, weights end up in wrong slots or the server
  waits for ever.
* *Late results.* The overlap loop launches a batch before it knows what the last
  one produced: requests finish, or lose their memory, while a pass of theirs is
  under way.

`PROJECT.json` lists these hazards line by line, with the properties that cover
them and those that nothing covers yet.

## 2. The modules

| Module | What it is |
|---|---|
| `RecordingLog` | abstract: the log the recorder promises to its clients |
| `ExpertDistributionRecorder` | the recorder in the `per_token` mode; implements `RecordingLog` |
| `ExpertDistributionRecorderProofs` | its types, the refinement, and what the records of a recording hold, proved |
| `EplbManager` | the balancer with the `stat` recorder and the expert maps |
| `EplbManagerProofs` | its types, and when counts are never stale, proved |
| `Communicator` | `_Communicator` on its event loop, with the schedulers that answer |
| `CommunicatorProofs` | one request in flight, and answers go to their callers, proved |
| `InferAndSave` | the collector, with a server reduced to what `RecordingLog` promises |
| `InferAndSaveProofs` | what the collector leaves on disk, proved |
| `ChunkUtils` | `_ChunkUtils`: who gives an expert to whom |
| `EplbAlgorithm` | the placement algorithm, as operators |
| `EplbAlgorithmProofs` | that its plans are placements, keep groups together and are optimal, proved |
| `ExpertLocationUpdater` | the exchange of weights, one action per step of a rank |
| `ExpertLocationUpdaterProofs` | that the two directions of `_ChunkUtils` are inverse and the batches of the ranks fit together, proved |
| `EplbRanks` | composes the two with the dump, the decision and the plan of every rank |
| `EplbRanksProofs` | that weights and maps agree through any rebalancing, proved |
| `SchedulerLoop` | the normal and the overlap event loop |
| `Alignment` | composes the loops with the recorder, the collector and the alignment script |
| `AlignmentProofs` | that the loops lose no request and no token and keep their limit; how many records an answer leaves, and when they are joined to the right tokens, proved |
| `MCEplbManager`, `MCInferAndSave`, `MCEplbRanks`, `MCAlignment` | constants that a configuration file cannot write |

Definitions starting with `Mutant` are deliberately wrong variants of the
definition that follows them. They are used by nothing; putting one in the place
of the original must make TLC refute the property named in `PROJECT.json`, which
shows that the property has something to say about that code.

### RecordingLog and ExpertDistributionRecorder

The scheduler is single threaded, so control requests run between passes and
each handler is one action. A pass is `BeginPass`, one `RunDenseLayer` or
`RunMoeLayer` per layer, `EndPass`. A MoE layer whose hook is on
(`Hooked`: recording, and not inside `disable_this_region`, where the draft model
runs) writes its selection to its rows, with the resize of `on_select_experts`
when the router selects more experts than the tables are wide, and appends to the
list of misc objects when DeepEP dispatches in normal mode.

Abstracted: logits and weights become the id of the pass that wrote them, which
is what decides whether they belong to a record; the metadata of a pass become
its number of tokens; the number of rows of `topk_ids` is the number of tokens
(no padding). CUDA graphs are off (`src/preprocess/server_sglang.sh`), so
`is_current_stream_capturing` is false. `with_forward_pass` also appends a record
when the pass raises; an exception in a pass ends the scheduler process, so no
client sees that record, and the model has no such step.

The list of misc objects is one object that all records refer to (line 534) and
`reset` empties it in place. The model keeps it as the one variable `misc`, and
the answer to a dump holds it *after* the reset: `dump_record` copies the list of
records, resets, and only then is the answer serialised, so the misc objects of a
dump are always empty. Nothing in the repository says otherwise or reads them,
so there is no run about it.

`per_token` records are never dropped: `expert_distribution_recorder_buffer_size`
has no effect in this mode, and the list grows until a dump.

The refinement mapping reads tables back (`Decode`): rows that are -1 throughout
are a layer that selected nothing, others are the first `TopK` columns. `cur` of
the log is the pass being recorded, `log` and `reply` are the records.

### EplbManager

A buffered row is abstracted to the map under which it was recorded, a zeroed
row to `Empty`. `on_forward_pass_end` runs the generator from one `yield` to the
next; the actions `Iterate`, `SkipRebalance`, `Rebalance` and `UpdateChunk` are
the four ways to get there. After a rebalancing the generator runs on to the
first `yield` of the `for` loop, so `iter` is 1 then, and exactly
`NumIterations` passes are recorded between the last update and the next dump.
`init_by_eplb` may return any plan, `_check_rebalance_needed` may say yes or no.

### Communicator

The event loop has a queue of tasks that can run and runs the first from one
`await` to the next; setting an event queues its waiter. `Arrive` creates the
task of an HTTP request, `Call`, `Ready` and `Finish` are the three pieces of
`queueing_call` between its awaits, `HandleRecv` is `handle_recv`, which the
tokenizer manager calls for whatever arrives, and `Answer` is the handler of a
scheduler. What the answer contains is left out.

### InferAndSave

`pc` is the place in `process_single_source`. A chat that is served leaves one
record in the server if it is recording. `Faults` says what may go wrong: the
script dies between two steps or in the middle of a line, a request does not
reach the server, an answer is lost or comes after the timeout, a chat is
answered without choices. A dump whose answer is lost has reset the server all
the same. `now` is the second of the clock that names the dump files. A
crash in the middle of a write leaves a line without its last part (`torn`), or
without its end only (`open`): the next run can read that one back, but what it
then appends goes to the same line of the file, and neither can be read again
(`garbled`). The ghost variable `calm` is
true until the first fault; it is read by properties only.

### ChunkUtils, EplbAlgorithm, ExpertLocationUpdater, EplbRanks

`EplbAlgorithm` computes a placement for one layer; the code does the same for
all layers at once. Loads are natural numbers and comparisons of quotients are
cross-multiplied, so they are exact, where the code has 32-bit floats. Equal
loads are taken by index. `Hierarchical` chooses between the policies.

In `ExpertLocationUpdater` the weights of an expert are its logical id, and one
op stands for the ops of all tensors of the expert, which both ends create in the
same order. The lists of ranks are sorted, so they are sets. A rank posts its
whole batch at once (`PostBatch`, with the local copies before it), `Transfer`
matches the next send of one rank with the next receive of another, and a rank
whose ops are all done copies its buffers to the weights and goes on to the next
layer, or takes the new metadata (`FinishLayer`). Two ops between the same ranks
are matched in the order of `SortKey`, the logical expert, because that is how
`_execute_p2p_ops` sorts the batch; ops with the same key go to different peers.
The ranks take these steps in any order.

`EplbRanks` lets the ranks run passes in lockstep and a dump, a status request or
a rebalancing begin between two of them. The steps of a dump are the collectives:
`AllReduce` for all ranks together, `UtilizationRate`, where rank 0 broadcasts
the mean of its history and the others wait for it, and `Decide`. Of the history
only matters whether it is empty: `mean()` divides by its length, rank 0 raises,
and the others wait. `metrics` stands for
`enable_expert_distribution_metrics` with a threshold below 1. `target` holds the
placements for the loads of the round; they depend on nothing else, so that it is
enough to compute them once for all ranks. All layers are updated in one chunk;
the chunks, and the number of passes between two rebalancings, are the subject of
`EplbManager`. The dispatch of a token may take any place that
`logical_to_all_physical_map` lists; the static map takes one of the same.

### SchedulerLoop and Alignment

One iteration of a loop is `Merge`, then a prefill or `NoPrefill` followed by
`RunDecode`, `RetractDecode` or `NoBatch`, then `Process`; messages are looked at
before it. `get_new_batch_prefill` is a loop of its own: `StartPrefill` takes the
request that is being chunked, `AddRequest` is one turn of the loop over the
waiting queue, `StopAdding` its `break`, and `Prefill` makes the batch. They are
steps of one thread, so that this costs states and no behaviour. The two loops
differ in `Process`: the normal loop takes the result of
the batch it has just run, the overlap loop that of the batch before. A result
carries, for each request, how many output tokens its pass had seen (-1 if it
ended inside the prompt), and this number is what `tokens` keeps of a token: a
right answer reads 0, 1, 2, ...

Abstracted: prompts are counted in units of tokens; a prompt longer than what is
left of the chunk is cut. The KV cache is left out: that a decode batch does not
fit is a choice (`RetractDecode`, any number of requests but the last, in the
order of `retract_decode`), no request is refused a prefill for lack of memory or
by `max_prefill_tokens`. The prefix cache is left out too (`init_next_round_input`,
schedule_batch.py:812-832, 849, shortens `extend_input_len` by what it finds):
`PromptLen` is the part of a prompt that the cache does not have, and nothing more is
found for a request that comes back after a retraction. Whether a token ends its
answer is a choice, up to `max_new_tokens`; it stands for a stop token, since the
collector sends neither stop strings nor a grammar.

`Alignment` adds the records: with `client = "collector"` requests come one by one
and each pass leaves one record of the request it ran for. `Dump` cuts the records
into files at any place between two requests.

`StartScript` reads the answers. What the server returns is text: the response has no
`token_ids` (`ChatCompletionResponseChoice`, protocol.py:705-715; only the client
mentions `return_token_ids`), so `load_inference_results` always encodes the text
of the answer. `TextOf` is what the detokenizer makes of the output tokens: the stop
token, if one ended the answer, is trimmed (`trim_matched_stop`), and an answer with
as many tokens as `max_new_tokens` has ended by length, which `Req.check_finished`
looks at first. The tokenizer is external. Most texts encode to the tokens they come
from; up to `MaxRecoded` texts do not, and then any sequence is possible in which the
places in the text do not go back (`Encodes`): tokens that split, merge or vanish. An
answer whose list is empty adds nothing, as the script skips it. A token of
`token_ids` keeps its request and the place in the answer at which it begins, which
the code does not know and the properties need.

The script takes the files in order
(`ProcessFile`) or fails with one (`FailFile`): the exception handler goes on with
the next file, whatever was saved stays, and the index is not advanced. With
`client = "many"` requests and an abort arrive at any time, and no records are
kept: the alignment script is meant for data of the collector only.

## 3. The runs

| Run | Instance | Result |
|---|---|---|
| `recorder` | 3 layers, the first dense, 2 experts, top 1 in tables of width 2, up to 2 tokens, 3 passes of both kinds in any order, DeepEP on | `TypeOK`, `NoGap`, `ScoresOwn`, `MiscOfLastRecord`, `ImplementsLog` hold |
| `recorder_shared_expert` | tables of width 1, top 2 | `DenseLayersEmpty` is violated |
| `eplb` | 3 iterations, a ring of 3, 3 layers in chunks of 2, 2 placements per layer | `TypeOK`, `NoStaleRows`, `PlanApplied`, `RebalanceRecurs` hold |
| `eplb_infinite` | the same with an infinite buffer | `NoStaleRows` is violated |
| `communicator` | 4 callers, 2 schedulers | `TypeOK`, `OneInFlight`, `OwnAnswers`, `CallsEnd` hold |
| `communicator_assert` | 3 callers, 1 scheduler | `AssertionsHold` is violated |
| `collector` | 3 items, a dump every 2, 2 runs, all faults | `TypeOK`, `LogsInServedOrder`, `OutputOnce`, `Completed`, `LogsMatchOutput`, `FilesKept` hold |
| `collector_shared_prompt` | items with the same first message, crashes | `Completed` is violated |
| `collector_overwrite` | 4 items, a dump every 2, nothing goes wrong | `FilesKept` is violated |
| `eplb_ranks` | 2 nodes of 2 GPUs with 2 slots, 4 experts in 4 groups, 2 layers, 3 starting placements, 3 loads, 2 rebalancings, dumps, status requests, starts and stops in between, with and without metrics | `TypeOK`, `WeightsFollowMap`, `RanksAgree`, `DispatchFindsWeights`, `GroupsStayTogether`, `ReplicasOptimal`, `RebalanceHasHistory`, `RoundsEnd` hold |
| `alignment` | 3 requests, one with a prompt of two chunks, up to 3 tokens, 2 places, both loops, both clients, 1 retraction, 1 abort, 2 files, 1 failing file, 1 text that encodes to other tokens, up to 2 of them | `TypeOK`, `NoRequestLost`, `TokensInContext`, `CapacityHeld`, `RecordsPerAnswer`, `StreamingIsBatch`, `NormalLoopFits`, `AnswerIsFinal`, `EveryRequestEnds` hold |
| `alignment_overlap` | the overlap loop, prompts of one chunk, answers of one token, which end by length, no failing file, texts encode to their own tokens | `RowsFitTokens` is violated |

What they show:

* **recorder.** Whatever the order of requests and passes, the clients see the
  log of `RecordingLog`. The bounds are the smallest in which stale data could
  show: a layer that is never written and two that are, a longer pass after a
  shorter one and the reverse, a pass that is recorded, one that is not and one
  that is again (three passes), an unused column (width 2, top 1). `NoGap` is
  about the last of these: `stop` keeps the records and `start` clears them, so a
  recording has no hole. The draft passes of a speculative decoder appear as
  records without selections, with ids of their own counter.
* **recorder_shared_expert.** With more selections than the tables are wide
  (`_TOP_K_NUM` is 8; a fused shared expert makes it 9) the tables are resized and
  the new columns hold 0, which is a valid expert, in all layers until the next
  reset. In the pass that resizes, expert 0 is counted once per token in each
  layer without a router, although the comment at line 684 promises to count valid
  selections only.
* **eplb.** The ring is exactly as large as the number of iterations, the
  tightest case that the assertion of `EPLBManager.__init__` admits, and there is
  more than one chunk, so that rows of three different maps meet in the ring.
  `NoStaleRows` is restricted to a balancer that is recording: a client that
  stops the recording while chunks are moved leaves old rows in the ring, and the
  next dump translates them with the wrong map.
* **eplb_infinite.** The assertion lets an infinite buffer pass (its size is -1),
  and that buffer keeps the rows recorded while the chunks were moved.
* **communicator.** One request in flight, every call gets one answer of each
  scheduler to its own request, every call ends. A call may end in an assertion
  error: that is the next run.
* **communicator_assert.** A finishing call clears `_result_event` and wakes the
  first waiting caller. A caller whose task is already queued in the event loop
  runs first, finds no event and an empty queue, and sends; the waiting caller
  then fails `assert self._result_event is None`. Callers that queue up meanwhile
  are woken by the caller that took the turn, which is why `CallsEnd` holds.
* **collector.** With three items and a dump after the second there is a periodic
  and a final dump in one run; two runs are enough for a resumption of anything.
  No record is saved twice or out of order, no item is answered twice, every item
  is accounted for. When nothing goes wrong the logs match the output item by
  item, and no file is overwritten. Records of answered items that had not been
  dumped when the script died are discarded by the `start` of the next run:
  `LogsMatchOutput` is therefore a property of quiet runs.
* **collector_shared_prompt.** `get_prompt_hash` returns the content of the first
  message; with a system prompt that is the same for all items, and a resumed run
  skips them all.
* **collector_overwrite.** When the number of items is a multiple of the dump
  interval, the final dump follows the last periodic one within the same second;
  its file has the same name and replaces 20 items of records by none.

* **eplb_ranks.** Two nodes are needed for the cross-node case, two GPUs in each
  for the same-node case, two slots in each GPU for the same-gpu and the
  free-rider case; the starting placements have experts with one holder and with
  three, so that senders have slices of different lengths. Two layers let a rank
  be one layer ahead of another, and two rebalancings start from a placement that
  the algorithm has made. In every reachable state a slot holds the expert that
  the map in force names (what the canary of the updater asserts at the end),
  every posted send meets its receive, and a token that is dispatched finds its
  expert. The groups of this run have one expert
  each, so `GroupsStayTogether` is about replicas here; larger groups are left to
  the theorem. `ReplicasOptimal` compares the greedy replication with all other ways to
  share out the slots of a node. `RebalanceHasHistory` says which dumps are safe: a
  rebalancing comes after a recorded pass, so rank 0 has a history as long as the
  server records. A dump or a status request of a client has no such guarantee:
  with metrics on, two dumps without a pass between them leave rank 0 with an
  exception and the others in the broadcast. `RoundsEnd` names this as the only
  way for a round not to end.
* **alignment.** With two places and three requests there is always one that has
  to wait; the chunked prompt, the retraction and the abort meet in every order.
  A retracted request comes back with a result of its last pass still in the
  queue, and with a prompt of four units, which fills its last chunk exactly.
  Each request is sent once, so that `EveryRequestEnds` can say that again and again
  none is left. `RecordsPerAnswer` says how many records an answer leaves: one for
  each token, the stop token included, one for each further chunk, and one more with
  the overlap loop. `StreamingIsBatch` holds for every list of tokens that can be
  read, also one that ends within a file or before it. `NormalLoopFits` says what
  alignment by position can give at best, with the normal loop and prompts of one
  chunk: row i has the record of the i-th token *generated*, so it fits the i-th
  token *read* exactly if the two are the same. **This ends with the first answer
  whose stop token was trimmed or whose text was encoded otherwise**: the pass that
  generates a stop token is recorded and the token is in no text, so that the rows of
  the next answer begin with that record, with the normal loop too. (The script
  filters rows of stop tokens where it counts, line 676, as if it expected them.)
  Two files are enough for a cut at any place and for a file that is empty or fails;
  the two requests with short prompts are what `NormalLoopFits` speaks of, the second
  shifted by what happened to the first; encodings of up to two tokens have one that
  splits, some that merge and some that vanish.
* **alignment_overlap.** `src/preprocess/server_sglang.sh` does not turn the
  overlap loop off. The extra pass is recorded, and the rows of the second request
  begin with the extra record of the first. All answers end by length here, so that
  nothing else shifts the rows: after k requests they are off by k records. In real
  data the trimmed stop tokens come on top.

### Fairness

`EplbManager!FairSpec` assumes that passes keep coming and that
`on_forward_pass_end` runs after each: `ModelRunner.forward` calls it in the same
thread, and a balancer has work only while the server is under load. Nothing is
assumed about control requests. `Communicator!FairSpec` assumes that the event
loop runs what is ready, that schedulers handle what they receive (they poll
their socket before every pass) and that the receive loop of the tokenizer manager
takes what they answer. Nothing is assumed about arrivals. `EplbRanks!FairSpec`
assumes that as long as some rank, or the communication between two, can go on,
something does; it does not assume that anybody asks for a dump or a pass.
`Alignment!FairSpec` assumes that the event loop goes on, a `while True` that stops
only with its process; nothing is assumed about clients. The other modules have no
liveness properties: the collector may simply be killed.

Deadlock is checked in the runs of the recorder, the balancer and the alignment. In
`communicator` and in the runs of the collector the system may stop: all calls
have ended, all runs are done. In `eplb_ranks` it stops when rank 0 has raised.

## 4. The proofs

`EplbManagerProofs` assumes the assertion of `EPLBManager.__init__`, which is part
of `EplbAssumption`, and a circular buffer (`BufferSize` positive), but for the
last theorem.

* `TypeCorrect`: `Spec => []TypeOK`.
* `NeverStale`: `Spec => []NoStaleRows`, for every size of the ring up to the
  number of iterations, every number of layers and every chunk size.
  `NoStaleRows` speaks of the moment of the dump only and is not inductive. The
  strengthening (`YoungRowsFresh`) gives each slot an age, the number of appends
  since it was written, and counts the passes since the maps last changed
  (`SinceUpdate`, which is `iter` or `iter - 1`): while the loop runs, a slot that
  is not older than the last update is fresh. An append makes every slot one
  older and counts one pass more; a change of the maps happens only where the
  count restarts. At the dump the count is `NumIterations`, no slot is older than
  the size of the ring, and the assertion of the code says that this is no more.
* `InfiniteNeverStale`: the same for an infinite buffer (`BufferSize` negative) if
  all layers fit one chunk. Then the maps change only where the buffer is emptied,
  and every row in use is of the current map (`RowsOfMap`); an append never writes
  outside of the capacity, doubled or not (`WithinCapacity`). `eplb_infinite` is
  the counterexample with several chunks.

`ExpertDistributionRecorderProofs`:

* `RecorderTypeCorrect`: `Spec => []TypeOK`, for tables of any width, resized or
  not. It needs that the gatherer's metadata are those of the running pass.
* `RecorderImplementsLog`: if the router selects no more experts than the tables
  are wide, `Spec => Log!Spec`. The invariant (`TableInv`) says that while a pass
  is recorded the rows of every layer are blank, or the layer has run and its rows
  hold a selection of this pass padded with -1. From this, the rows read back as
  the selection (`DecodeSelection`), the padding is not counted
  (`CountSelection`), and each step is a step of the log or none (`LogStep`). The
  condition on the width is needed: `recorder_shared_expert` is the counterexample
  without it. `NullAssumption` says that the two null values are no selections and
  no passes.

Induction over data. The induction theorems of the library take an operator as a
parameter, which none of the provers can instantiate. Two of the modules below need
induction all the same, over the steps of a loop and over the length of a list.
They have it from the theorem that a well-founded relation has minimal elements
(`WFMin`), which is about sets: `Least` says that every non-empty set of natural
numbers has a least one, and `Induct` that a set with the first number and the
successor of each has all. The induction hypothesis is then a set
`{n \in Nat : ...}`. A recursive function is a `CHOOSE`; that it satisfies its
equation is proved first, by building a function that does (`PackUnfolds`,
`ReplicateUnfolds`, `FlattenJoins`).

`EplbAlgorithmProofs` is about the placement algorithm, for every topology that
`TopologyAssumption` admits, which holds the assertions of the algorithm, and every
load.

* `PacksAreFull`: `balanced_packing` puts exactly n/m items into each pack, as its
  docstring says. After each item the items dealt out so far have ranks of their
  own within their packs, below the number in the pack (`Packed`); so as long as
  items are left some pack has room (`RoomLeft`), and the lightest of those exists.
* `Replicates`: `replicate_experts` makes each slot one replica of one expert, with
  the replicas of an expert numbered from 0 without a gap, and it is greedy: an
  expert with a second replica has at least as much load per replica, counted
  without the last, as any other (`Greedy`). That a hottest expert exists
  (`HottestExists`) is an induction over the experts, since loads per replica are
  compared crosswise and equal ones are possible.
* `PolicySound`: of both policies, the result numbers the slots and the replicas one
  to one (`Numbered`, through the three permutations of
  `rebalance_experts_hierarchical`), gives every expert a slot, and keeps the
  replicas of a group within one node (`NodeWise`).
* `GreedyOptimal`: a greedy replication is optimal. In another way to share out the
  slots of a node, either some expert has fewer slots, and then by `Greedy` each of
  its replicas is as loaded as the most loaded one was; or none has fewer, then none
  has more (`SharedOut`), and the most loaded expert is where it was.

`ExpertLocationUpdaterProofs` is about the operators from which the exchange of
weights is made. It assumes `TopologyAssumption` and nothing about the maps but that
they are maps.

* `SlicesAreChunks`: an element is in the slice of a chunk, which a sender
  computes, if and only if the chunk is the one that a receiver computes for the
  element. A quotient is characterised by two inequalities (`Quotient`); the proof
  then goes through the four cases of a long or a short slice and an element
  before or after the last long one.
* `ChunkUtilsAgree`: the same for lists of ranks instead of indices. The index of a
  member of a finite set of integers is a bijection onto `0..(n - 1)`
  (`IndexInjective`, `IndexSurjective`), so the chunk with a given index exists and
  is unique.
* `SourcesAndTargetsAgree`: a rank fetches an expert from a holder exactly if the
  holder counts it among the ranks to serve. A rank with a holder on its own node
  is served there and only there: the two ranks have the same lists since they are
  on the same node. A rank without one is in the list of all nodes, which is the
  same for everybody.
* `BatchesMatch`: a rank posts a receive of an expert from another exactly if that
  one posts a send of it to the rank, and each posts it once. The lowest slot with
  the expert is the one that fetches, or sends (`FetchSlot`, `SendSlot`). It needs
  that the old placement holds the expert somewhere.

`EplbRanksProofs` builds on both, for every topology, number of layers, first
placement and load. That the plan of any load holds every expert, and lists the
slots of each (`PlansSound`), follows from `PolicySound`; it is the lemma
`PlansAreSound`.

* `GroupsAlwaysStayTogether`: `Spec => []GroupsStayTogether`; `ReplicasAlwaysOptimal`:
  `Spec => []ReplicasOptimal`. Both speak of the placements of the round, which are
  plans.
* `WeightsAlwaysFollowMap`: `Spec => []WeightsFollowMap`, the condition that the
  canary of the updater tests at the end. It is not inductive: it says nothing of
  the buffers and of what is posted. The invariant (`Inv`) says that there is a
  placement `m` that all ranks had when the round began (`MetaInv`); the weights of
  a slot are those of the target where the rank is done with the layer and those
  of `m` elsewhere (`WeightsInv`); an expert that is fetched is in the buffer, or
  its receive is pending (`BufferInv`); and of two ranks, a layer and an expert
  that one owes the other, the send and the receive are either both done or both
  not (`MatchInv`). `BatchesMatch` gives the
  last for the batches as they are posted. Since ops between two ranks are done in
  the order of layers and keys at both ends, `MatchInv` forces the next send and
  the next receive of a pair to be of the same layer and expert
  (`TransferMatches`): nothing is mixed although messages carry no tags. A rank
  leaves a layer when its ops are done, by `MatchInv` its peers then have what they
  need of it (`LayerDone`).
* `RanksAlwaysAgree`, `DispatchAlwaysFindsWeights`, `RanksTypeCorrect`: from the
  same invariant.
* `RebalanceAlwaysHasHistory`: `Spec => []RebalanceHasHistory`: a rebalancing is asked for after a recorded pass, which has left an
  entry in the history, and no request of a client comes between the two.

`CommunicatorProofs` holds for any callers, finite or not, and any finite number
of schedulers.

* `OneRequestInFlight`: `Spec => []OneInFlight`; `CallersGetOwnAnswers`:
  `Spec => []OwnAnswers`; `CommunicatorTypeCorrect`. The invariant ties the three
  fields together: the event is that of the only caller whose request is out
  (`EventOfWaiting`), the callers in the queue wait for their turn
  (`QueueOfWaiting`), and with each scheduler the request in flight is on its way
  there, or its answer on its way back, or the answer taken, exactly one of them
  (`AllProgress`). Since `handle_recv` counts the answers and does not look who
  gives them, that `fan_out` answers are one of each is a counting argument
  (`AllRanksAnswered`).

More of `ExpertDistributionRecorderProofs`, under the same condition on the width:

* `RecordingHasNoGap`, `RecordsHaveOwnScores`, `MiscDescribesLastRecord`:
  `NoGap`, `ScoresOwn` and `MiscOfLastRecord` of the run `recorder`;
  `DenseLayersNotCounted`: `DenseLayersEmpty`, which `recorder_shared_expert`
  refutes without the condition. The invariant (`RecordInv`) adds to `TableInv`
  that the scores of a row are of the running pass where the row is routed and
  blank where it is not (`PassOwn`), what the misc list holds in the middle of a
  pass (`MiscInv`), and that while the server records, the last record of the
  target model is that of the last pass (`IdOfPass`, `LastRouted`): this is what
  makes `NoGap` inductive, as `stop` ends it and `start` empties the list.

`InferAndSaveProofs`, for every number of items, dump interval, set of faults and
number of runs:

* `CollectorTypeCorrect`, and `AnsweredOnce`: `Spec => []OutputOnce`, also when
  prompts are shared. An item is asked only if its hash is not among the processed
  ones, and these are what could be read back at the start with what this run has
  answered (`OnceInv`).
* `AllItemsAccounted`: `Spec => []Completed` if the first messages differ
  (`Injective`); `collector_shared_prompt` is the counterexample without it.
  `PassedInv` follows the items that the run has passed.
* `RecordsStayInOrder`: `Spec => []LogsInServedOrder`, whatever goes wrong. No
  record has a later number than the chats served, and what is on disk is older
  than what is in a reply, which is older than what is in the server (`OrderInv`);
  the clock never goes back, so that a new file has the last name.
* `LogsMatchTheOutput`: `Spec => []LogsMatchOutput`, and `DumpsAreKept`:
  `Spec => FilesKept`, if no two dumps of a run fall into one second
  (`OwnSeconds`: the number of items is no multiple of the interval, and a chat
  takes a second at least); `collector_overwrite` is the counterexample without it.
  `CalmInv` says where the record of each chat is at each place of the script
  (`HeldInv`), and that the clock has moved on since the last dump wherever another
  may follow (`SecondInv`).

`AlignmentProofs`, for any requests and prompts, any chunk size and number of
places, both loops, and any number of aborts and retractions:

* `NoRequestIsLost`: `Spec => []NoRequestLost`; `TokensHaveContext`:
  `Spec => []TokensInContext`; `CapacityIsHeld`: `Spec => []CapacityHeld`;
  `AnswersAreFinal`: `Spec => AnswerIsFinal`. All four come from one invariant
  (`LoopInv`, which is `LoopCorrect`), since none is inductive by itself. It begins
  with the queue of results: it is the batch of the iteration before in the overlap
  loop (`Awaited`) followed by the batch just launched (`Launched`), and nothing
  else (`QueueInv`). So what a request is owed can be counted. `is_chunked` is the
  number of these two that end inside the prompt of the request (`CountInv`), which
  decides whether a result is a token; and a pass has seen as many tokens as the
  request has, less one, plus what the two will give (`SeenInv`), which decides
  which token. `PlaceInv` and `BatchInv` say where a request is at each place of an
  iteration: a request of the batch before is back in the waiting queue only if it
  was retracted, so that its late result is skipped; one that is prefilled anew has
  no token to come (but a chunked request may be in both batches, `ChunkInv`).
  `AdderInv` follows the loop of `get_new_batch_prefill`: the requests taken are a
  prefix of the waiting queue, and the loop never ends without one.
  `CapacityInv` counts the requests taken as long as they are in no batch. That
  `retract_decode` leaves a request in the batch, so that no batch is empty, is a
  counting argument (`RetractDecodeStep`).

For `client = "collector"`, which sends one request at a time:

* `AlignmentTypeCorrect`: `Spec => []TypeOK`. `FileInv` has the types of the records,
  files and rows. That what is read, and what was generated, are lists of tokens needs the lemma
  about `FlattenSeq` (`Flattened`): what it makes of no list, and of one list more.
* `RecordsCounted`: `Spec => []RecordsPerAnswer`, in both loops. The invariant
  counts the records of the live request at every place of an iteration
  (`PassInv`): one for each chunk of its prompt that has been launched, except that
  the last of these is counted with its token, one for each token, and one for each
  token that `Awaited` and `Launched` will give (`Passes`). `OneRequest` says why
  this is kept: no second request is there (`OneInv`), so that nothing is ever
  retracted, which would repeat passes; a request decodes only when nothing is left
  of its prompt (`TodoInv`); and in the overlap loop a request whose token is late
  is in the next batch too (`NextInv`), which is the one pass too many when that
  token turns out to be the last. The number of chunks goes down by one with every
  chunk taken (`ChunksFacts`).
* `StreamingEqualsBatch`: `Spec => []StreamingIsBatch`. While the script runs nothing
  changes that it reads (`QuietStep`), and until it has failed its rows are those of
  the records of the files read so far, and the index their number (`ScriptInv`).
  `BatchRows` is the heart of it: aligning two lists of records one after the other
  at once is aligning the first, then the second from there on, also where the
  tokens end within either.
* `NormalLoopAligns`: `Spec => []NormalLoopFits`, for every way to encode the texts.
  With the normal loop and prompts of one chunk the records are those of the tokens
  generated, place by place, and one more while a pass is under way (`Fits`). The
  live request is the last of `inference_results` (`OrderInv`), so that its token is
  the last of all (`TokensOneMore`), as its record is the last of all records. By
  `ScriptInv` row i joins the i-th token read to the i-th record (`RowsByPlace`); a
  record determines the token that it is of (`RecordKnows`), so that the row fits
  exactly if that is the token read. `alignment_overlap` is the counterexample with
  the overlap loop.

Only model-checked: liveness (`PlanApplied`, `RebalanceRecurs`, `CallsEnd`,
`RoundsEnd`, `EveryRequestEnds`), which is outside of what the prover handles. Every
other property of a passing run is proved, some of them under a condition that the
theorem names: `NoStaleRows` and the types of the balancer for a circular buffer (the
run `eplb`, or `InfiniteNeverStale`), the records of the recorder for tables that are
wide enough, and what the collector leaves on disk for prompts and seconds that
differ.

## 5. What is not modelled

* `deepseek_vec.py` and `elasticity_aware.py`, which have to be asked for by name;
  the rounding of loads in 32-bit floats.
* What a server does after rank 0 has raised in a dump: the model stops there.
* `watching_call` of `_Communicator`, which serves the load reports of data
  parallel servers; the other communicators are of the same class.
* Several schedulers with records of their own: `dump_expert_distribution_record`
  resets all of them and returns the answer of the first.
* Dump files cut short by a crash in `json.dump`.
* Of the event loops: the KV cache and the prefix cache (a lack of memory is a
  choice), priorities and preemption, mixed chunks, grammars, sessions,
  speculative decoding, pipeline and data parallelism, disaggregation, pausing.
* How rows should be aligned after a file has failed: the model has the step, but
  nothing in the repository says what is right then.
* The counts and heat maps that the alignment script makes from the aligned rows.
* Metrics and their aggregation: margins, entropies, correlations and PCA are
  floating point, n-gram counts and the selection of expert groups have no state;
  and the plots.
* The rest of the SGLang runtime, a vendored inference server: models, kernels,
  loaders, front ends, quantization. It is most of the lines of the repository and
  has no part in what is recorded.

## 6. Plan

In this order:

1. The watching mode of `_Communicator`, as a module of its own beside
   `Communicator`.
2. n-gram counts and the selection of expert groups as operators against reference
   definitions; `deepseek_vec.py` against `deepseek.py`.
3. Proofs: how far the rows are shifted, as a formula of the number of requests
   before, of the loop and of how their answers ended.
