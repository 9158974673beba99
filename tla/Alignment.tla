------------------------------ MODULE Alignment ------------------------------
(***************************************************************************)
(* From forward passes to aligned tokens.  The collector has the server    *)
(* record every pass while it sends its requests one by one, and dumps the *)
(* records to files between them.  Afterwards the script                   *)
(* src/metric/postprocess/postprocessing_for_image_and_count.py joins the  *)
(* records to the tokens of the answers by nothing but their position.     *)
(* The answers are texts: the server returns no token ids, and the script  *)
(* encodes what the detokenizer has made of the output tokens.             *)
(*                                                                         *)
(* A record is the request of its pass and the number of output tokens     *)
(* that the pass had seen; the record of token i should have seen i - 1.   *)
(***************************************************************************)
EXTENDS SchedulerLoop

CONSTANTS MaxFiles,   \* bound: dumps
          MaxFaults,  \* bound: files that the script fails to process
          MaxRecoded, \* bound: texts that are not encoded to the tokens they were decoded from
          MaxEncoded  \* bound: the tokens of such an encoding

ASSUME AlignmentAssumption == {MaxFiles, MaxFaults, MaxRecoded, MaxEncoded} \subseteq Nat

VARIABLES
  log,      \* the records of the server since the last dump
  files,    \* the files of the dumps, in the order of their names
  order,    \* the requests in the order of inference_results
  token_ids, \* all_token_ids: each token with its request and its place in the answer
  script,   \* 0, or the number of the next file
  start,    \* global_token_index
  aligned,  \* the rows of the aligned file
  faults    \* files that the script failed to process

scriptVars == <<token_ids, script, start, aligned, faults>>
vars == <<schedulerVars, log, files, order, scriptVars>>

Init ==
  /\ SchedulerInit
  /\ log = <<>> /\ files = <<>> /\ order = <<>>
  /\ token_ids = <<>> /\ script = 0 /\ start = 0 /\ aligned = <<>> /\ faults = 0
-----------------------------------------------------------------------------
(* The server, and the collector *)

\* The hooks of the recorder in a pass; with the collector a batch is one request.
Recorded ==
  IF client = "collector" /\ pc # "process" /\ pc' = "process" /\ cur' # None
  THEN \E r \in cur'.reqs : log' = Append(log, [req |-> r, seen |-> cur'.seen[r]])
  ELSE UNCHANGED log

Server == Iteration /\ Recorded /\ UNCHANGED <<files, order, scriptVars>>

Send(r) ==
  /\ script = 0
  /\ Submit(r)
  /\ order' = Append(order, r)
  /\ UNCHANGED <<log, files, scriptVars>>

Cancel(r) == Abort(r) /\ UNCHANGED <<log, files, order, scriptVars>>

\* Between two requests; an iteration looks for messages before it does anything.
Dump ==
  /\ script = 0 /\ client = "collector"
  /\ pc = "top" /\ Live = {}
  /\ Len(files) < MaxFiles
  /\ files' = Append(files, log) /\ log' = <<>>
  /\ UNCHANGED <<schedulerVars, order, scriptVars>>
-----------------------------------------------------------------------------
(* The script *)

\* The output tokens that the text of an answer is made of.  trim_matched_stop leaves
\* out a stop token; max_new_tokens is looked at before stop tokens are, so that this
\* is how an answer of fewer tokens has ended.
TextOf(r) ==
  LET n == Len(tokens[r])
  IN [i \in 1..(IF n < MaxNew THEN n - 1 ELSE n) |-> i]

\* tokenizer.encode is not the inverse of decode: a token may come back as several or
\* as a part of another, or have no text at all.  Each token of the encoding stands
\* for the output token in which it begins.
Encodes(e, text) ==
  /\ Range(e) \subseteq Range(text)
  /\ \A i, j \in DOMAIN e : i < j => e[i] <= e[j]

\* load_inference_results: the token ids of each answer, those of the texts in odd
\* being other than the ones generated.  Nothing is left of an answer with no ids.
Loaded(odd, e) == [k \in DOMAIN order |-> IF k \in odd THEN e[k] ELSE TextOf(order[k])]

\* prepare_token_info
Prepared(ids) ==
  FlattenSeq([k \in DOMAIN order |-> [i \in DOMAIN ids[k] |-> [req |-> order[k], pos |-> ids[k][i]]]])

\* Mutant of AlignStreaming: the last token is left out.
MutantAlignStreaming(from, records) ==
  [i \in {j \in DOMAIN records : from + j < Len(token_ids)} |->
     [token |-> token_ids[from + i], record |-> records[i]]]

\* align_tokens_with_experts_streaming: the rows of one file, from the given index
\* up to the last token.
AlignStreaming(from, records) ==
  [i \in {j \in DOMAIN records : from + j <= Len(token_ids)} |->
     [token |-> token_ids[from + i], record |-> records[i]]]

\* align_tokens_with_experts: the rows of all records at once.
AlignBatch(records) ==
  LET matched == IF Len(token_ids) < Len(records) THEN Len(token_ids) ELSE Len(records)
  IN [i \in 1..matched |-> [token |-> token_ids[i], record |-> records[i]]]

StartScript ==
  /\ script = 0 /\ client = "collector"
  /\ pc = "top" /\ Live = {} /\ log = <<>> /\ files # <<>>
  /\ script' = 1
  /\ \E odd \in SUBSET DOMAIN order :
       /\ Cardinality(odd) <= MaxRecoded
       /\ \E e \in [odd -> SeqOf(1..MaxNew, MaxEncoded)] :
            /\ \A k \in odd : Encodes(e[k], TextOf(order[k]))
            /\ token_ids' = Prepared(Loaded(odd, e))
  /\ UNCHANGED <<schedulerVars, log, files, order, start, aligned, faults>>

\* Mutant of Advance: every file is joined to the tokens from the first.
MutantAdvance(records) == start

\* global_token_index += len(records)
Advance(records) == start + Len(records)

\* One turn of the loop over the files in process_files_streaming.
ProcessFile ==
  /\ script \in DOMAIN files
  /\ script' = script + 1
  /\ LET records == files[script]
     IN IF records = <<>> THEN UNCHANGED <<start, aligned>>
        ELSE /\ aligned' = aligned \o AlignStreaming(start, records)
             /\ start' = Advance(records)
  /\ UNCHANGED <<schedulerVars, log, files, order, token_ids, faults>>

\* An exception, such as for a file that is no JSON, leads on to the next file; the
\* rows that were saved before it stay, and the index is not advanced.
FailFile ==
  /\ script \in DOMAIN files
  /\ script' = script + 1
  /\ faults < MaxFaults /\ faults' = faults + 1
  /\ LET rows == AlignStreaming(start, files[script])
     IN \E n \in 0..Len(rows) : aligned' = aligned \o SubSeq(rows, 1, n)
  /\ UNCHANGED <<schedulerVars, log, files, order, token_ids, start>>
-----------------------------------------------------------------------------
Next ==
  \/ Server
  \/ \E r \in Reqs : Send(r) \/ Cancel(r)
  \/ Dump \/ StartScript \/ ProcessFile \/ FailFile

Spec == Init /\ [][Next]_vars

\* The loop never stops.
FairSpec == Spec /\ WF_vars(Server)
-----------------------------------------------------------------------------
(* Properties *)

Token == [req : Reqs, pos : Nat \ {0}]
Record == [req : Reqs, seen : Nat \cup {Partial}]
Row == [token : Token, record : Record]

\* The types of the variables.
TypeOK ==
  /\ SchedulerTypeOK
  /\ \A f \in {log} \cup Range(files) : \A i \in DOMAIN f : f[i] \in Record
  /\ order \in Seq(Reqs) /\ token_ids \in Seq(Token)
  /\ script \in 0..(MaxFiles + 1) /\ start \in Nat /\ faults \in 0..MaxFaults
  /\ aligned \in Seq(Row)

AllRecords == FlattenSeq(files) \o log

\* The places of the records of r.
RecordsOf(r) == {i \in DOMAIN AllRecords : AllRecords[i].req = r}

\* The passes that the prompt of r takes.
NumChunks(r) == (PromptLen[r] + ChunkSize - 1) \div ChunkSize

\* How many records an answer leaves behind: one for each token, one for each chunk
\* of the prompt but the last, and with the overlap loop one more.
RecordsPerAnswer ==
  pc = "top" /\ client = "collector" => \A r \in Reqs : status[r] = "finished" =>
    Cardinality(RecordsOf(r)) = Len(tokens[r]) + NumChunks(r) - 1 + (IF loop = "overlap" THEN 1 ELSE 0)

\* All files are through, and none has failed.
AllDone == script = Len(files) + 1 /\ files # <<>> /\ faults = 0

\* File by file the script finds the rows that it would find for all records at
\* once, however the dumps cut the records into files.
StreamingIsBatch == AllDone => aligned = AlignBatch(AllRecords)

\* The record of the pass that generated a token.
RecordOf(token) == [req |-> token.req, seen |-> token.pos - 1]

\* "Each element corresponds to one token": the record of a row is that of the pass
\* that generated the token of the row.
RowsFitTokens == \A i \in DOMAIN aligned : aligned[i].record = RecordOf(aligned[i].token)

\* All output tokens of the server, stop tokens and all, in the order of the requests.
Generated ==
  FlattenSeq([k \in DOMAIN order |-> [i \in DOMAIN tokens[order[k]] |-> [req |-> order[k], pos |-> i]]])

\* With the normal loop and prompts of one chunk the i-th row has the record of the
\* i-th token generated.  So a row fits as long as the texts have brought back all
\* tokens before its own, and the rows stop where the tokens read or generated do.
NormalLoopFits ==
  loop = "normal" /\ faults = 0 /\ (\A i \in DOMAIN order : NumChunks(order[i]) = 1) =>
    /\ \A i \in DOMAIN aligned : aligned[i].record = RecordOf(aligned[i].token) <=> aligned[i].token = Generated[i]
    /\ AllDone => Len(aligned) = IF Len(token_ids) < Len(Generated) THEN Len(token_ids) ELSE Len(Generated)
=============================================================================
