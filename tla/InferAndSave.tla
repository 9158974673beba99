---------------------------- MODULE InferAndSave ----------------------------
(***************************************************************************)
(* The collector of src/preprocess/infer_and_save.py: one data set is sent *)
(* item by item to the server, answers are appended to the output file,    *)
(* and every DumpEvery items the records of the server are moved to a file *)
(* named after the data set and the second of the clock.  The script can   *)
(* die at any point and be run again; a run reads the output file of the   *)
(* runs before it and skips the items it finds there.                      *)
(*                                                                         *)
(* The server is reduced to what RecordingLog promises, with one record    *)
(* for each chat that it serves.  A record carries the item and the number *)
(* of the chat, so that two records of one item can be told apart.         *)
(***************************************************************************)
EXTENDS Integers, Sequences, FiniteSets, SequencesExt

CONSTANTS
  NumItems,   \* items of the data set
  DumpEvery,  \* items between two dumps (20 in the code)
  Hash,       \* get_prompt_hash: a function on the items
  ChatTimes,  \* the seconds that a successful chat may take
  Faults,     \* a subset of FaultKinds: what may go wrong
  MaxRuns     \* bound: how often the script is run

FaultKinds == {"crash",        \* the script dies between two steps
               "torn",         \* the script dies in the middle of a line
               "unreachable",  \* a request does not reach the server
               "lost",         \* the answer of a request is lost, or late
               "no_choices"}   \* a chat is answered without "choices"

ASSUME CollectorAssumption ==
  /\ NumItems \in Nat \ {0}
  /\ DumpEvery \in Nat \ {0}
  /\ DOMAIN Hash = 1..NumItems
  /\ ChatTimes \subseteq Nat
  /\ Faults \subseteq FaultKinds
  /\ MaxRuns \in Nat \ {0}

Items == 1..NumItems

VARIABLES
  pc,         \* the place of the script in process_single_source
  item,       \* the item of the loop (idx + 1)
  processed,  \* processed_prompts
  output,     \* the output file: lines [item, state]
  files,      \* expert_logs: from the second in the file name to the records
  reply,      \* the records of a dump that is being saved
  failed,     \* the items of this run that raised or were not answered
  now,        \* int(time.time())
  runs,       \* how often the script was started
  recording, records,  \* the server
  served,     \* chats served by the server so far
  calm        \* TRUE until the first fault: states what quiet runs guarantee

script == <<pc, item, processed, output, files, reply, failed, now, runs>>
server == <<recording, records, served>>
vars == <<script, server, calm>>

\* A line is "ok", or "torn": written in part, or "open": written but for its end, or
\* "garbled": it shares a line of the file with another, as a line that is not ended
\* and the next one do.
Line == [item : Items, state : {"ok", "torn", "open", "garbled"}]

\* The lines that json.loads can read.
Whole(line) == line.state \in {"ok", "open"}

\* The items that can be read back from the output file.
Readable == {output[i].item : i \in {j \in DOMAIN output : Whole(output[j])}}

Init ==
  /\ pc = "off"
  /\ item = 1
  /\ processed = {}
  /\ output = <<>>
  /\ files = <<>>
  /\ reply = <<>>
  /\ failed = {}
  /\ now = 0
  /\ runs = 0
  /\ recording = FALSE
  /\ records = <<>>
  /\ served = 0
  /\ calm = TRUE
\* Something of the given kind goes wrong.
Fault(kind) == kind \in Faults /\ calm' = FALSE
-----------------------------------------------------------------------------
(* The start of a run *)

\* Mutant of Run: the output file is not read.
MutantRunFromScratch ==
  /\ pc \in {"off", "done"}
  /\ runs < MaxRuns
  /\ runs' = runs + 1
  /\ processed' = {}
  /\ item' = 1
  /\ failed' = {}
  /\ reply' = <<>>
  /\ pc' = "start"
  /\ now' = now + 1
  /\ UNCHANGED <<output, files, server, calm>>

\* A run reads the output file; lines it cannot parse are skipped.  Two runs
\* do not start in the same second.
Run ==
  /\ pc \in {"off", "done"}
  /\ runs < MaxRuns
  /\ runs' = runs + 1
  /\ processed' = {Hash[i] : i \in Readable}
  /\ item' = 1
  /\ failed' = {}
  /\ reply' = <<>>
  /\ pc' = "start"
  /\ now' = now + 1
  /\ UNCHANGED <<output, files, server, calm>>

\* manage_recording("start").  The text that the server answers is no JSON, so
\* the result is False even if the server has started; it is only printed.
StartRecording ==
  /\ pc = "start"
  /\ \/ recording' = TRUE /\ records' = <<>> /\ UNCHANGED calm
     \/ Fault("unreachable") /\ UNCHANGED <<recording, records>>
  /\ pc' = "loop"
  /\ UNCHANGED <<item, processed, output, files, reply, failed, now, runs, served>>
-----------------------------------------------------------------------------
(* The loop over the items *)

SkipItem ==
  /\ pc = "loop" /\ item <= NumItems
  /\ Hash[item] \in processed
  /\ item' = item + 1
  /\ UNCHANGED <<pc, processed, output, files, reply, failed, now, runs, server, calm>>

Serve ==
  /\ served' = served + 1
  /\ records' = IF recording THEN Append(records, [item |-> item, chat |-> served + 1])
                             ELSE records
  /\ UNCHANGED recording

\* Mutant of ChatRaises: the exception is caught outside of the loop.
MutantLoopAborts ==
  /\ pc' = "loop"
  /\ item' = NumItems + 1
  /\ failed' = failed \cup {item}
  /\ UNCHANGED now

\* An exception of chat skips the write and the dump of this item.
ChatRaises ==
  /\ pc' = "loop"
  /\ item' = item + 1
  /\ failed' = failed \cup {item}
  /\ UNCHANGED now

Chat ==
  /\ pc = "loop" /\ item <= NumItems
  /\ Hash[item] \notin processed
  /\ \/ /\ Serve
        /\ \E d \in ChatTimes : now' = now + d
        /\ \/ pc' = "write" /\ UNCHANGED <<item, failed, calm>>
           \/ /\ Fault("no_choices")
              /\ pc' = "check" /\ failed' = failed \cup {item} /\ UNCHANGED item
     \/ Fault("lost") /\ Serve /\ ChatRaises
     \/ Fault("unreachable") /\ ChatRaises /\ UNCHANGED server
  /\ UNCHANGED <<processed, output, files, reply, runs>>

\* The output file after a line of the current item in the given state.  What is
\* appended to a line that is not ended cannot be read, nor can that line any more.
AppendLine(state) ==
  LET joined == [item |-> item, state |-> IF state = "ok" THEN "garbled" ELSE "torn"]
  IN CASE output # <<>> /\ Last(output).state = "torn" -> Append(Front(output), joined)
       [] output # <<>> /\ Last(output).state = "open" ->
            Append(Append(Front(output), [item |-> Last(output).item, state |-> "garbled"]), joined)
       [] OTHER -> Append(output, [item |-> item, state |-> state])

WriteLine ==
  /\ pc = "write"
  /\ output' = AppendLine("ok")
  /\ pc' = "check"
  /\ UNCHANGED <<item, processed, files, reply, failed, now, runs, server, calm>>

\* Mutant of CheckDump: dump after every item.
MutantDumpEachItem ==
  /\ pc = "check"
  /\ pc' = "dump"
  /\ UNCHANGED <<item, processed, output, files, reply, failed, now, runs, server, calm>>

CheckDump ==
  /\ pc = "check"
  /\ IF item % DumpEvery = 0
     THEN pc' = "dump" /\ UNCHANGED item
     ELSE pc' = "loop" /\ item' = item + 1
  /\ UNCHANGED <<processed, output, files, reply, failed, now, runs, server, calm>>

\* Mutant of EndLoop: the final dump is missing.
MutantNoFinalDump ==
  /\ pc = "loop" /\ item > NumItems
  /\ pc' = "stop"
  /\ UNCHANGED <<item, processed, output, files, reply, failed, now, runs, server, calm>>

EndLoop ==
  /\ pc = "loop" /\ item > NumItems
  /\ pc' = "dump"
  /\ UNCHANGED <<item, processed, output, files, reply, failed, now, runs, server, calm>>
-----------------------------------------------------------------------------
(* dump_records, and the end of a run *)

\* Mutant of AfterDump: the final dump is taken for a periodic one.
MutantAlwaysLoop == pc' = "loop" /\ item' = item + 1

\* The loop goes on after a periodic dump, the run ends after the final one.
AfterDump ==
  IF item > NumItems THEN pc' = "stop" /\ UNCHANGED item
                     ELSE pc' = "loop" /\ item' = item + 1

\* Mutant of DumpRequest: the server keeps the records that it delivers.
MutantDumpKeepsRecords ==
  /\ pc = "dump"
  /\ \/ reply' = records /\ pc' = "save" /\ UNCHANGED <<item, calm>>
     \/ Fault("unreachable") /\ AfterDump /\ UNCHANGED reply
  /\ UNCHANGED <<processed, output, files, failed, now, runs, server>>

DumpRequest ==
  /\ pc = "dump"
  /\ \/ /\ reply' = records
        /\ records' = <<>>
        /\ pc' = "save" /\ UNCHANGED <<item, calm>>
     \/ /\ Fault("lost")
        /\ records' = <<>>
        /\ AfterDump /\ UNCHANGED reply
     \/ /\ Fault("unreachable")
        /\ AfterDump /\ UNCHANGED <<reply, records>>
  /\ UNCHANGED <<processed, output, files, failed, now, runs, recording, served>>

\* open(path, 'w'): a file of the same second is replaced.
SaveDump ==
  /\ pc = "save"
  /\ files' = [t \in DOMAIN files \cup {now} |-> IF t = now THEN reply ELSE files[t]]
  /\ reply' = <<>>
  /\ AfterDump
  /\ UNCHANGED <<processed, output, failed, now, runs, server, calm>>

StopRecording ==
  /\ pc = "stop"
  /\ \/ recording' = FALSE /\ UNCHANGED calm
     \/ Fault("unreachable") /\ UNCHANGED recording
  /\ pc' = "done"
  /\ UNCHANGED <<item, processed, output, files, reply, failed, now, runs, records, served>>
-----------------------------------------------------------------------------
(* The script dies; what it holds in memory is lost *)

Crash ==
  /\ Fault("crash")
  /\ pc \notin {"off", "done"}
  /\ pc' = "off"
  /\ reply' = <<>>
  /\ UNCHANGED <<item, processed, output, files, failed, now, runs, server>>

\* Some of the line is missing, or only its end.
CrashInWrite ==
  /\ Fault("torn")
  /\ pc = "write"
  /\ \E state \in {"torn", "open"} : output' = AppendLine(state)
  /\ pc' = "off"
  /\ UNCHANGED <<item, processed, files, reply, failed, now, runs, server>>

Next ==
  \/ Run \/ StartRecording
  \/ SkipItem \/ Chat \/ WriteLine \/ CheckDump \/ EndLoop
  \/ DumpRequest \/ SaveDump \/ StopRecording
  \/ Crash \/ CrashInWrite

Spec == Init /\ [][Next]_vars
-----------------------------------------------------------------------------
(* Properties *)

Record == [item : Items, chat : Nat]

\* The types of the variables.
TypeOK ==
  /\ pc \in {"off", "start", "loop", "write", "check", "dump", "save", "stop", "done"}
  /\ item \in 1..(NumItems + 1)
  /\ processed \subseteq {Hash[i] : i \in Items}
  /\ output \in Seq(Line)
  /\ DOMAIN files \subseteq 0..now /\ \A t \in DOMAIN files : files[t] \in Seq(Record)
  /\ reply \in Seq(Record)
  /\ failed \subseteq Items
  /\ now \in Nat /\ runs \in 0..MaxRuns
  /\ recording \in BOOLEAN /\ records \in Seq(Record) /\ served \in Nat
  /\ calm \in BOOLEAN

\* The records of a sequence are in the order in which their chats were served;
\* those of s were served before those of r.
Ascending(s) == \A i, j \in DOMAIN s : i < j => s[i].chat < s[j].chat
Before(s, r) == \A i \in DOMAIN s, j \in DOMAIN r : s[i].chat < r[j].chat

\* The dump files, read in the order of their names, then the dump that is
\* being saved, then the server hold the records in the order in which the
\* chats were served, and none of them twice, whatever was lost or repeated.
LogsInServedOrder ==
  /\ \A t \in DOMAIN files : Ascending(files[t]) /\ Before(files[t], reply) /\ Before(files[t], records)
  /\ \A t, u \in DOMAIN files : t < u => Before(files[t], files[u])
  /\ Ascending(reply) /\ Before(reply, records) /\ Ascending(records)

\* An item is answered at most once in the output file: a resumed run repeats
\* no item that an earlier run has finished.
OutputOnce ==
  \A i, j \in DOMAIN output :
    Whole(output[i]) /\ Whole(output[j]) /\ output[i].item = output[j].item => i = j

\* The items whose line is torn, or ran into another.
Garbled == {output[i].item : i \in {j \in DOMAIN output : ~Whole(output[j])}}

\* When a run gets to its end, each item has an answer that can be read back,
\* or its chat failed in this very run, or its line is torn or ran into another.
Completed == pc = "done" => Items \subseteq Readable \cup failed \cup Garbled

\* At the end of a quiet run the logs hold one record for each line of output: the
\* k-th chat is that of the k-th line.  The logs are in the order of the chats, so
\* this is what the alignment of postprocessing relies on.
LogsMatchOutput ==
  pc = "done" /\ calm =>
    /\ \A k \in DOMAIN output : \E t \in DOMAIN files : \E i \in DOMAIN files[t] :
         files[t][i] = [item |-> output[k].item, chat |-> k]
    /\ \A t \in DOMAIN files : \A i \in DOMAIN files[t] :
         files[t][i].chat \in DOMAIN output /\ output[files[t][i].chat].item = files[t][i].item

\* As long as nothing goes wrong, a dump that is on disk stays there.
FilesKept ==
  [][calm' => \A t \in DOMAIN files : t \in DOMAIN files' /\ files'[t] = files[t]]_vars
=============================================================================
