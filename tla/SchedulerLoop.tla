---------------------------- MODULE SchedulerLoop ----------------------------
(***************************************************************************)
(* The event loops of src/sglang/srt/managers/scheduler.py, which decide   *)
(* what forward passes the server makes and which of their results become  *)
(* output tokens.  The normal loop processes the result of a pass before   *)
(* it picks the next batch.  The overlap loop launches the next batch      *)
(* first: results are one batch late, and a batch may hold requests that   *)
(* have finished, or have been retracted, by the time of its result.       *)
(*                                                                         *)
(* One iteration of a loop is Merge, then a prefill (StartPrefill, a step  *)
(* for each waiting request that is looked at, Prefill) or, if there is    *)
(* none, a decode, then Process.  The loop is one thread that looks for    *)
(* messages only between two iterations.  Prompts are counted in units of  *)
(* tokens, the KV cache is left out: that it is too small for a decode     *)
(* batch is a choice, and no request is refused a prefill for lack of      *)
(* memory or by max_prefill_tokens.                                        *)
(***************************************************************************)
EXTENDS Integers, Sequences, FiniteSets, SequencesExt

CONSTANTS
  Reqs,        \* the requests
  PromptLen,   \* len(origin_input_ids), by request
  MaxNew,      \* max_new_tokens
  ChunkSize,   \* chunked_prefill_size
  MaxRunning,  \* max_running_requests
  Loops,       \* the loops that the server may be started with
  Clients,     \* "collector": one request at a time; "many": at any time
  MaxRetracts, \* bound: retractions
  MaxAborts,   \* bound: AbortReq messages
  None         \* no request, or no batch

\* What a pass had seen when it ended inside the prompt.
Partial == -1

\* A batch of the requests rs; seen is how many of their output tokens its pass took in.
Batch(rs) == [mode : {"extend", "decode"}, reqs : {rs}, chunked : Reqs \cup {None},
              seen : [rs -> Nat \cup {Partial}]]

ASSUME SchedulerAssumption ==
  /\ PromptLen \in [Reqs -> Nat \ {0}]
  /\ {MaxNew, ChunkSize, MaxRunning} \subseteq Nat \ {0}
  /\ Loops \subseteq {"normal", "overlap"} /\ Clients \subseteq {"collector", "many"}
  /\ {MaxRetracts, MaxAborts} \subseteq Nat
  /\ None \notin Reqs /\ \A rs \in SUBSET Reqs : None \notin Batch(rs)

VARIABLES
  loop, client,  \* chosen at the start
  pc,         \* the place in the iteration
  waiting,    \* waiting_queue
  running,    \* the requests of running_batch
  full,       \* running_batch.batch_is_full
  chunked,    \* chunked_req
  last,       \* last_batch, and cur_batch between two iterations
  cur,        \* the batch of this iteration
  results,    \* result_queue
  can_run,    \* can_run_list of the PrefillAdder
  rem,        \* its rem_chunk_tokens
  next,       \* the place of its loop in the waiting queue
  todo,       \* todo[r]: prompt units that no pass has taken yet
  seen,       \* seen[r]: output tokens that the passes of r have taken in
  is_chunked, retracted, to_finish,  \* fields of the requests
  tokens,     \* output_ids: a token is the number of tokens its pass had seen
  status,     \* "new", "live", "finished" (finished_reason is set) or "dropped"
  retracts, aborts  \* how often

config   == <<loop, client>>
batches  == <<waiting, running, full, chunked, last, cur, results>>
adder    == <<can_run, rem, next>>
requests == <<todo, seen, is_chunked, retracted, to_finish, tokens, status>>
bounds   == <<retracts, aborts>>
schedulerVars == <<config, pc, batches, adder, requests, bounds>>

SchedulerInit ==
  /\ loop \in Loops /\ client \in Clients
  /\ pc = "top"
  /\ waiting = <<>> /\ running = {} /\ full = FALSE /\ chunked = None
  /\ last = None /\ cur = None /\ results = <<>>
  /\ can_run = {} /\ rem = 0 /\ next = 0
  /\ todo = PromptLen /\ seen = [r \in Reqs |-> 0]
  /\ is_chunked = [r \in Reqs |-> 0]
  /\ retracted = [r \in Reqs |-> FALSE] /\ to_finish = [r \in Reqs |-> FALSE]
  /\ tokens = [r \in Reqs |-> <<>>]
  /\ status = [r \in Reqs |-> "new"]
  /\ retracts = 0 /\ aborts = 0
-----------------------------------------------------------------------------
(* process_input_requests *)

Live == {r \in Reqs : status[r] = "live"}

Submit(r) ==
  /\ pc = "top"
  /\ status[r] = "new"
  /\ client = "collector" => Live = {}
  /\ status' = [status EXCEPT ![r] = "live"]
  /\ waiting' = Append(waiting, r)
  /\ UNCHANGED <<config, pc, running, full, chunked, last, cur, results, adder, todo, seen, is_chunked,
                 retracted, to_finish, tokens, bounds>>

\* abort_request: a waiting request is dropped; one that a batch holds will
\* finish with its next token.
Abort(r) ==
  /\ pc = "top"
  /\ client = "many" /\ aborts < MaxAborts /\ aborts' = aborts + 1
  /\ r \in Live
  /\ \/ \E i \in DOMAIN waiting : /\ waiting[i] = r
                                  /\ waiting' = RemoveAt(waiting, i)
                                  /\ status' = [status EXCEPT ![r] = "dropped"]
     \/ r \notin Range(waiting) /\ UNCHANGED <<waiting, status>>
  /\ to_finish' = [to_finish EXCEPT ![r] = @ \/ r \in running \/ (last # None /\ r \in last.reqs)]
  /\ UNCHANGED <<config, pc, running, full, chunked, last, cur, results, adder, todo, seen, is_chunked,
                 retracted, tokens, retracts>>
-----------------------------------------------------------------------------
(* get_next_batch_to_run *)

\* Mutant of Unfinished: nothing is filtered.
MutantUnfinished(rs) == rs

\* filter_batch
Unfinished(rs) == {r \in rs : status[r] # "finished"}

\* The requests of a prefill batch move on to the running batch, but for the one
\* whose prompt is not done.
Merge ==
  /\ pc = "top"
  /\ IF last # None /\ last.mode = "extend"
     THEN LET kept == Unfinished(last.reqs) \ {chunked, last.chunked}
          IN /\ running' = running \cup kept
             /\ full' = (full /\ kept = last.reqs /\ (running # {} \/ kept = {}))
     ELSE UNCHANGED <<running, full>>
  /\ pc' = "prefill"
  /\ UNCHANGED <<config, waiting, chunked, last, cur, results, adder, requests, bounds>>

\* run_batch, and the result goes to the queue; batch.seen is what the pass saw.
Launch(batch) ==
  /\ cur' = batch
  /\ results' = Append(results, batch)
  /\ seen' = [r \in Reqs |-> IF r \in batch.reqs THEN batch.seen[r] ELSE seen[r]]
  /\ pc' = "process"

\* Mutant of NoPlace: the running batch takes no place.
MutantNoPlace(reqs) == Cardinality(reqs) >= MaxRunning

\* get_num_allocatable_reqs is used up.
NoPlace(reqs) == Cardinality(reqs) >= MaxRunning - Cardinality(running)

\* Whether get_new_batch_prefill comes to the adder.
MayPrefill == chunked # None \/ (~full /\ waiting # <<>> /\ ~NoPlace({}))

\* add_one_req and add_chunked_req: all that is to do of the prompt, or as much as
\* is left of the chunk.
Take(r, left) ==
  /\ can_run' = can_run \cup {r}
  /\ IF todo[r] <= left
     THEN /\ todo' = [todo EXCEPT ![r] = 0]
          /\ rem' = left - todo[r]
          /\ chunked' = IF r = chunked THEN None ELSE chunked
     ELSE /\ todo' = [todo EXCEPT ![r] = @ - left]
          /\ rem' = 0
          /\ chunked' = r

\* get_new_batch_prefill: the request that is being chunked comes first.
StartPrefill ==
  /\ pc = "prefill"
  /\ MayPrefill
  /\ IF chunked = None THEN rem' = ChunkSize /\ UNCHANGED <<can_run, todo, chunked>>
     ELSE Take(chunked, ChunkSize)
  /\ next' = 1
  /\ pc' = IF waiting = <<>> THEN "launch" ELSE "add"
  /\ UNCHANGED <<config, waiting, running, full, last, cur, results, seen, is_chunked, retracted,
                 to_finish, tokens, status, bounds>>

\* The loop over the waiting queue goes on as long as there is a place and a token
\* of the chunk left.
AddRequest ==
  /\ pc = "add"
  /\ ~full /\ ~NoPlace(can_run) /\ rem > 0
  /\ Take(waiting[next], rem)
  /\ next' = next + 1
  /\ pc' = IF rem' = 0 \/ next = Len(waiting) THEN "launch" ELSE "add"
  /\ UNCHANGED <<config, waiting, running, full, last, cur, results, seen, is_chunked, retracted,
                 to_finish, tokens, status, bounds>>

StopAdding ==
  /\ pc = "add"
  /\ full \/ NoPlace(can_run) \/ rem = 0
  /\ full' = (full \/ NoPlace(can_run))
  /\ pc' = "launch"
  /\ UNCHANGED <<config, waiting, running, chunked, last, cur, results, adder, requests, bounds>>

\* Mutant of CountChunk: the pass of a chunk is not counted.
MutantCountChunk(r) == is_chunked

\* is_chunked counts the passes of r whose results are not tokens.
CountChunk(r) == IF r = None THEN is_chunked ELSE [is_chunked EXCEPT ![r] = @ + 1]

\* The new batch; its requests, the first of the queue, leave the queue.
Prefill ==
  /\ pc = "launch"
  /\ waiting' = SubSeq(waiting, next, Len(waiting))
  /\ is_chunked' = CountChunk(chunked)
  /\ retracted' = [r \in Reqs |-> retracted[r] /\ r \notin can_run]
  /\ Launch([mode |-> "extend", reqs |-> can_run, chunked |-> chunked,
             seen |-> [r \in can_run |-> IF r = chunked THEN Partial ELSE Len(tokens[r])]])
  /\ can_run' = {} /\ rem' = 0 /\ next' = 0
  /\ UNCHANGED <<config, running, full, chunked, last, todo, to_finish, tokens, status, bounds>>

NoPrefill ==
  /\ pc = "prefill"
  /\ ~MayPrefill
  /\ full' = (full \/ (waiting # <<>> /\ NoPlace({})))
  /\ pc' = "decode"
  /\ UNCHANGED <<config, waiting, running, chunked, last, cur, results, adder, requests, bounds>>

\* The order in which retract_decode takes requests: few tokens, then a long prompt.
TakenBefore(r, k) ==
  \/ Len(tokens[r]) < Len(tokens[k])
  \/ Len(tokens[r]) = Len(tokens[k]) /\ PromptLen[r] >= PromptLen[k]

\* What retract_decode may take from a batch, in order; one request always stays.
Retractions(batch) ==
  {q \in UNION {[1..n -> batch] : n \in 1..(Cardinality(batch) - 1)} :
     /\ IsInjective(q)
     /\ \A i, j \in DOMAIN q : i < j => TakenBefore(q[i], q[j])
     /\ \A i \in DOMAIN q, k \in batch \ Range(q) : TakenBefore(q[i], k)}

\* Mutant of StillFull: the flag stays when requests have left the batch.
MutantStillFull(batch) == full

\* update_running_batch resets batch_is_full when the batch got smaller.
StillFull(batch) == full /\ batch = running

\* update_running_batch for a running batch of which these have not finished.
Decode(kept, q) ==
  LET batch == kept \ Range(q)
  IN /\ running' = batch
     /\ full' = StillFull(batch)
     /\ retracted' = [r \in Reqs |-> retracted[r] \/ r \in Range(q)]
     /\ is_chunked' = [r \in Reqs |-> IF r \in Range(q) THEN 0 ELSE is_chunked[r]]
     /\ todo' = [r \in Reqs |-> IF r \in Range(q) THEN PromptLen[r] + Len(tokens[r]) ELSE todo[r]]
     /\ waiting' = waiting \o q
     /\ Launch([mode |-> "decode", reqs |-> batch, chunked |-> None,
                seen |-> [r \in batch |-> seen[r] + 1]])

\* Mutant of RunDecode: it is not looked at whether the filtered batch is empty.
MutantRunDecode ==
  /\ pc = "decode"
  /\ running # {}
  /\ Decode(Unfinished(running), <<>>)
  /\ UNCHANGED <<config, chunked, last, adder, to_finish, tokens, status, bounds>>

RunDecode ==
  /\ pc = "decode"
  /\ Unfinished(running) # {}
  /\ Decode(Unfinished(running), <<>>)
  /\ UNCHANGED <<config, chunked, last, adder, to_finish, tokens, status, bounds>>

\* The decode batch does not fit into the KV cache.
RetractDecode ==
  /\ pc = "decode"
  /\ retracts < MaxRetracts /\ retracts' = retracts + 1
  /\ \E q \in Retractions(Unfinished(running)) : Decode(Unfinished(running), q)
  /\ UNCHANGED <<config, chunked, last, adder, to_finish, tokens, status, aborts>>

NoBatch ==
  /\ pc = "decode"
  /\ Unfinished(running) = {}
  /\ running' = {}
  /\ full' = StillFull({})
  /\ cur' = None
  /\ pc' = "process"
  /\ UNCHANGED <<config, waiting, chunked, last, results, adder, requests, bounds>>
-----------------------------------------------------------------------------
(* process_batch_result *)

\* Mutant of Skipped: a late result of a retracted request is taken.
MutantSkipped(b, r) == status[r] = "finished" /\ (b.mode = "extend" \/ loop = "overlap")

\* Mutant of Skipped: a late result of a finished request is taken.
MutantTokenAfterEnd(b, r) == retracted[r] /\ (b.mode = "extend" \/ loop = "overlap")

\* Results that come too late: with the normal loop no decode batch has any.
Skipped(b, r) == (status[r] = "finished" \/ retracted[r]) /\ (b.mode = "extend" \/ loop = "overlap")

\* process_batch_result_prefill and process_batch_result_decode.
ProcessResult(b) ==
  LET taken == {r \in b.reqs : ~Skipped(b, r)}
      ended == {r \in taken : b.mode = "decode" \/ is_chunked[r] = 0}
      forced == {r \in ended : to_finish[r] \/ Len(tokens[r]) + 1 >= MaxNew}
  IN \E eos \in SUBSET (ended \ forced) :
       /\ tokens' = [r \in Reqs |-> IF r \in ended THEN Append(tokens[r], b.seen[r]) ELSE tokens[r]]
       /\ status' = [r \in Reqs |-> IF r \in forced \cup eos THEN "finished" ELSE status[r]]
       /\ to_finish' = [r \in Reqs |-> to_finish[r] /\ r \notin forced]
       /\ is_chunked' = [r \in Reqs |-> is_chunked[r] - (IF r \in taken \ ended THEN 1 ELSE 0)]

\* The normal loop takes the result of this iteration, the overlap loop that of
\* the last one.
Process ==
  /\ pc = "process"
  /\ IF (loop = "normal" /\ cur # None) \/ (loop = "overlap" /\ last # None)
     THEN ProcessResult(Head(results)) /\ results' = Tail(results)
     ELSE UNCHANGED <<tokens, status, to_finish, is_chunked, results>>
  /\ last' = cur
  /\ pc' = "top"
  /\ UNCHANGED <<config, waiting, running, full, chunked, cur, adder, todo, seen, retracted, bounds>>

Iteration ==
  \/ Merge
  \/ StartPrefill \/ AddRequest \/ StopAdding \/ Prefill
  \/ NoPrefill \/ RunDecode \/ RetractDecode \/ NoBatch
  \/ Process
-----------------------------------------------------------------------------
(* Properties *)

\* The requests of the last batch if it was a prefill, which wait to be merged.
Held == IF last # None /\ last.mode = "extend" THEN last.reqs ELSE {}

\* The types of the variables of the event loops; no batch that runs is empty.
SchedulerTypeOK ==
  /\ loop \in {"normal", "overlap"} /\ client \in {"collector", "many"}
  /\ pc \in {"top", "prefill", "add", "launch", "decode", "process"}
  /\ waiting \in Seq(Reqs) /\ running \subseteq Reqs /\ full \in BOOLEAN
  /\ chunked \in Reqs \cup {None}
  /\ \A b \in ({last, cur} \cup Range(results)) \ {None} :
       b.reqs \in (SUBSET Reqs) \ {{}} /\ b \in Batch(b.reqs)
  /\ can_run \subseteq Reqs /\ {rem, next} \subseteq Nat
  /\ todo \in [Reqs -> Nat] /\ is_chunked \in [Reqs -> Nat]
  /\ seen \in [Reqs -> Nat \cup {Partial}]
  /\ {retracted, to_finish} \subseteq [Reqs -> BOOLEAN]
  /\ tokens \in [Reqs -> Seq(Nat \cup {Partial})]
  /\ status \in [Reqs -> {"new", "live", "finished", "dropped"}]
  /\ {retracts, aborts} \subseteq Nat

\* No request is lost or in two places: between two iterations the requests that
\* are not done are those of the waiting queue and, apart from them, those of the
\* running batch and of a prefill batch that is not merged yet.
NoRequestLost ==
  pc = "top" => /\ Live = Range(waiting) \cup Unfinished(running \cup Held)
                /\ Range(waiting) \cap (running \cup Held) = {}
                /\ IsInjective(waiting)

\* The i-th output token of a request comes from a pass that had seen its whole
\* prompt and its first i-1 tokens, although passes are launched before the tokens
\* are known, prompts are taken in chunks, and retracted requests start again.
TokensInContext == \A r \in Reqs : \A i \in DOMAIN tokens[r] : tokens[r][i] = i - 1

\* max_running_requests holds for the running batch with all that will join it.
CapacityHeld == pc = "top" => Cardinality(running \cup Unfinished(Held)) <= MaxRunning

\* An answer is final: the pass that the overlap loop makes too many adds nothing.
AnswerIsFinal == [][\A r \in Reqs : status[r] # "live" => tokens'[r] = tokens[r]]_schedulerVars

\* Every request comes to its end: again and again there is none left, so batch_is_full
\* is never left set while requests wait, and no result is left in the queue.
EveryRequestEnds == []<>(Live = {})
=============================================================================
