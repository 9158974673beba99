------------------------- MODULE InferAndSaveProofs -------------------------
(***************************************************************************)
(* What the collector leaves on disk, for every number of items, dump      *)
(* interval, set of faults and number of runs.                             *)
(*                                                                         *)
(* The argument goes by the items that a run has passed: each of them can  *)
(* be read back from the output, failed in this run, or shares a line with *)
(* another; and an item that can be read back was either known at the      *)
(* start of the run or is one that the run has passed, so that it is not   *)
(* asked for again.                                                        *)
(***************************************************************************)
EXTENDS InferAndSave, SequenceTheorems, TLAPS

\* A run of the script is under way.
Running == pc \notin {"off", "done"}

\* The run has dealt with item i.
Passed(i) == i < item \/ (i = item /\ pc \in {"check", "dump", "save"})

\* The items that share a line with another.
Merged == {output[i].item : i \in {j \in DOMAIN output : output[j].state = "garbled"}}

\* The script is at an item, or past the last one.
PlaceInv ==
  /\ pc \in {"write", "check"} => item <= NumItems
  /\ pc \in {"stop", "done"} => item = NumItems + 1

\* No item that can be read back will be asked for again.
OnceInv ==
  /\ OutputOnce
  /\ Running => \A i \in Readable : Hash[i] \in processed \/ Passed(i)
  /\ pc = "write" => Hash[item] \notin processed

\* The run knows only what could be read back, and has left out nothing.
PassedInv ==
  /\ Running => \A h \in processed : \E i \in Readable \cup Merged : Hash[i] = h
  /\ Running \/ pc = "done" => \A i \in Items : Passed(i) => i \in Readable \cup failed \cup Merged

\* The server has given all records their numbers.
Known(s)  == \A i \in DOMAIN s : s[i].chat <= served
ServedInv == (\A t \in DOMAIN files : Known(files[t])) /\ Known(reply) /\ Known(records)

\* As long as nothing goes wrong, a run knows nothing and asks for all items, or
\* knows all of them and asks for none.
QuietInv ==
  /\ \A i \in DOMAIN output : output[i].state = "ok"
  /\ pc = "off" => output = <<>>
  /\ pc = "done" => Items \subseteq Readable
  /\ Running => \/ processed = {} /\ \A i \in Items : Passed(i) => i \in Readable
                \/ /\ Items \subseteq Readable /\ \A i \in Items : Hash[i] \in processed
                   /\ pc \notin {"write", "check"}
                   /\ pc \in {"dump", "save"} => item = NumItems + 1

\* A dump file of the current second is there only after a periodic dump, and the
\* next item is asked for before anything is dumped again.
SecondInv ==
  /\ pc \in {"dump", "save"} /\ item <= NumItems => item % DumpEvery = 0
  /\ \/ pc \in {"start", "write", "check", "dump", "save"}
     \/ pc = "loop" /\ (processed # {} \/ item = NumItems + 1)
     => now \notin DOMAIN files

\* Record r is on disk, on its way there, or on the server.
Held(r) ==
  \/ \E t \in DOMAIN files : \E i \in DOMAIN files[t] : files[t][i] = r
  \/ \E i \in DOMAIN reply : reply[i] = r
  \/ \E i \in DOMAIN records : records[i] = r

\* Every chat so far has its record and, once it is written, its line.
HeldInv ==
  /\ \A r \in Record : Held(r) => r.item = r.chat
  /\ \A k \in 1..served : Held([item |-> k, chat |-> k])
  /\ \A k \in DOMAIN output : output[k].item = k
  /\ served = IF pc = "write" THEN Len(output) + 1 ELSE Len(output)
  /\ Running /\ processed = {} =>
       served = IF pc \in {"write", "check", "dump", "save"} /\ item <= NumItems THEN item ELSE item - 1
  /\ pc \in {"loop", "write", "check", "dump", "save", "stop"} => recording
  /\ pc \in {"off", "start", "save", "stop", "done"} => records = <<>>
  /\ pc # "save" => reply = <<>>

CalmInv == calm => QuietInv /\ SecondInv /\ HeldInv
-----------------------------------------------------------------------------
(* Sequences and lines *)

LEMMA AppendFacts ==
  ASSUME NEW S, NEW s \in Seq(S), NEW e \in S
  PROVE  /\ Append(s, e) \in Seq(S) /\ Len(s) \in Nat /\ Len(Append(s, e)) = Len(s) + 1
         /\ DOMAIN s = 1..Len(s) /\ DOMAIN Append(s, e) = 1..(Len(s) + 1)
         /\ \A i \in 1..Len(s) : Append(s, e)[i] = s[i]
         /\ Append(s, e)[Len(s) + 1] = e
OBVIOUS

LEMMA FrontFacts ==
  ASSUME NEW S, NEW s \in Seq(S), s # <<>>
  PROVE  /\ Front(s) \in Seq(S) /\ Len(s) \in Nat \ {0} /\ Len(Front(s)) = Len(s) - 1
         /\ \A i \in 1..(Len(s) - 1) : Front(s)[i] = s[i]
         /\ Last(s) = s[Len(s)]
<1>1. Len(s) \in Nat \ {0} /\ \A i \in 1..Len(s) : s[i] \in S
  OBVIOUS
<1>2. Front(s) = [i \in 1..(Len(s) - 1) |-> s[i]]
  BY <1>1 DEF Front
<1>3. Front(s) \in Seq(S) /\ Len(Front(s)) = Len(s) - 1
  <2>1. \A i \in 1..(Len(s) - 1) : s[i] \in S
    BY <1>1
  <2>2. /\ SubSeq(s, 1, Len(s) - 1) \in Seq(S)
        /\ Len(SubSeq(s, 1, Len(s) - 1)) = IF 1 <= Len(s) - 1 THEN Len(s) - 1 - 1 + 1 ELSE 0
    BY <1>1, <2>1, SubSeqProperties
  <2> DEFINE f == SubSeq(s, 1, Len(s) - 1)
             n == Len(s)
             k == Len(f)
  <2>3. f = Front(s) /\ f \in Seq(S) /\ n \in Nat \ {0} /\ k = IF 1 <= n - 1 THEN n - 1 - 1 + 1 ELSE 0
    BY <1>1, <2>2 DEF Front
  <2> HIDE DEF n, k
  <2>4. k = n - 1
    BY <2>3
  <2> HIDE DEF f
  <2> QED BY <2>3, <2>4 DEF n, k
<1> QED BY <1>1, <1>2, <1>3 DEF Last

\* What an append leaves of a line.
Kept(new, old) == new = old \/ (old.state = "open" /\ new = [item |-> old.item, state |-> "garbled"])

\* An append keeps the lines that are not torn, at their places.
LEMMA LineAppended ==
  ASSUME output \in Seq(Line), item \in Items, NEW state \in {"ok", "torn", "open"}, NEW o, o = AppendLine(state)
  PROVE  /\ o \in Seq(Line) /\ Len(o) \in Nat \ {0} /\ DOMAIN o = 1..Len(o)
         /\ o[Len(o)].item = item
         /\ \/ o[Len(o)].state = state
            \/ o[Len(o)].state = IF state = "ok" THEN "garbled" ELSE "torn"
         /\ \A i \in 1..(Len(o) - 1) : i \in DOMAIN output /\ Kept(o[i], output[i])
         /\ \A i \in DOMAIN output : output[i].state # "torn" => i \in 1..(Len(o) - 1)
         /\ (\A i \in DOMAIN output : output[i].state = "ok") =>
              Len(o) = Len(output) + 1 /\ o[Len(o)].state = state
<1> DEFINE joined == [item |-> item, state |-> IF state = "ok" THEN "garbled" ELSE "torn"]
<1>0. Len(output) \in Nat /\ DOMAIN output = 1..Len(output)
  OBVIOUS
<1>j. joined \in Line /\ joined.item = item /\ joined.state = IF state = "ok" THEN "garbled" ELSE "torn"
  BY DEF Line
<1>1. CASE output # <<>> /\ Last(output).state = "torn"
  <2> DEFINE f == Front(output)
  <2>2. /\ f \in Seq(Line) /\ Len(output) \in Nat \ {0} /\ Len(f) = Len(output) - 1
        /\ \A i \in 1..(Len(output) - 1) : f[i] = output[i]
        /\ output[Len(output)].state = "torn"
    BY <1>1, FrontFacts
  <2>3. o = Append(f, joined)
    BY <1>1 DEF AppendLine
  <2> HIDE DEF f, joined
  <2>4. /\ o \in Seq(Line) /\ Len(o) = Len(output) /\ DOMAIN o = 1..Len(o)
        /\ o[Len(o)] = joined /\ \A i \in 1..(Len(o) - 1) : o[i] = output[i]
    BY <1>j, <2>2, <2>3, AppendFacts
  <2>5. \A i \in DOMAIN output : output[i].state # "torn" => i \in 1..(Len(o) - 1)
    BY <1>0, <2>2, <2>4
  <2>6. Len(output) \in DOMAIN output
    BY <1>0, <2>2
  <2>7. \A i \in 1..(Len(o) - 1) : i \in DOMAIN output
    BY <1>0, <2>2, <2>4
  <2>8. Len(o) \in Nat \ {0} /\ ~\A i \in DOMAIN output : output[i].state = "ok"
    BY <2>2, <2>4, <2>6
  <2> QED BY <1>j, <2>4, <2>5, <2>7, <2>8 DEF Kept
<1>2. CASE output # <<>> /\ Last(output).state = "open"
  <2> DEFINE f == Front(output)
             e == [item |-> Last(output).item, state |-> "garbled"]
             g == Append(f, e)
             n == Len(output)
  <2>1. /\ f \in Seq(Line) /\ n \in Nat \ {0} /\ Len(f) = n - 1
        /\ \A i \in 1..(n - 1) : f[i] = output[i]
        /\ output[n].state = "open" /\ e = [item |-> output[n].item, state |-> "garbled"]
    BY <1>2, FrontFacts
  <2>2. e \in Line
    <3>1. n \in DOMAIN output
      BY <1>0, <2>1
    <3>2. output[n] \in Line
      BY <3>1
    <3> QED BY <2>1, <3>2 DEF Line
  <2>3. o = Append(g, joined)
    BY <1>2 DEF AppendLine
  <2> HIDE DEF f, e, joined
  <2>4. g \in Seq(Line) /\ Len(g) = n /\ g[n] = e /\ \A i \in 1..(n - 1) : g[i] = output[i]
    BY <2>1, <2>2, AppendFacts
  <2> HIDE DEF g
  <2>5. /\ o \in Seq(Line) /\ Len(o) = n + 1 /\ DOMAIN o = 1..Len(o)
        /\ o[Len(o)] = joined /\ \A i \in 1..n : o[i] = g[i]
    BY <1>j, <2>3, <2>4, AppendFacts
  <2>6. n \in DOMAIN output /\ Len(o) - 1 = n /\ Len(o) \in Nat \ {0} /\ DOMAIN output = 1..n
    BY <1>0, <2>1, <2>5
  <2>7. ASSUME NEW i \in 1..n PROVE Kept(o[i], output[i])
    <3>1. CASE i = n
      BY <2>1, <2>4, <2>5, <3>1 DEF Kept
    <3>2. CASE i # n
      <4>1. i \in 1..(n - 1)
        BY <2>1, <3>2
      <4> QED BY <2>4, <2>5, <4>1 DEF Kept
    <3> QED BY <3>1, <3>2
  <2>8. ~\A i \in DOMAIN output : output[i].state = "ok"
    BY <2>1, <2>6
  <2> QED BY <1>j, <2>5, <2>6, <2>7, <2>8
<1>3. CASE ~(output # <<>> /\ Last(output).state \in {"torn", "open"})
  <2> DEFINE e == [item |-> item, state |-> state]
  <2>1. e \in Line /\ e.item = item /\ e.state = state
    BY DEF Line
  <2>2. o = Append(output, e)
    BY <1>3 DEF AppendLine
  <2> HIDE DEF e, joined
  <2>3. /\ o \in Seq(Line) /\ Len(o) = Len(output) + 1 /\ DOMAIN o = 1..Len(o)
        /\ o[Len(o)] = e /\ \A i \in 1..(Len(o) - 1) : o[i] = output[i]
    BY <2>1, <2>2, AppendFacts
  <2> QED BY <1>0, <2>1, <2>3 DEF Kept
<1> QED BY <1>1, <1>2, <1>3

\* Which items can be read back after an append.
LEMMA ReadableAfter ==
  ASSUME output \in Seq(Line), item \in Items, NEW state \in {"ok", "torn", "open"}, output' = AppendLine(state)
  PROVE  /\ Readable \subseteq Readable' \cup Merged' /\ Merged \subseteq Merged'
         /\ \A i \in Readable' : i \in Readable \/ i = item
         /\ state = "ok" => item \in Readable' \cup Merged'
<1> DEFINE o == output'
           n == Len(o)
<1>1. /\ o \in Seq(Line) /\ n \in Nat \ {0} /\ DOMAIN o = 1..n /\ o[n].item = item
      /\ o[n].state = state \/ o[n].state = IF state = "ok" THEN "garbled" ELSE "torn"
      /\ \A i \in 1..(n - 1) : i \in DOMAIN output /\ Kept(o[i], output[i])
      /\ \A i \in DOMAIN output : output[i].state # "torn" => i \in 1..(n - 1)
  BY LineAppended
<1>2. \A x : x \in Readable' <=> \E j \in DOMAIN o : Whole(o[j]) /\ o[j].item = x
  BY DEF Readable, Whole
<1>3. \A x : x \in Merged' <=> \E j \in DOMAIN o : o[j].state = "garbled" /\ o[j].item = x
  BY DEF Merged
<1>a. \A x : x \in Readable <=> \E j \in DOMAIN output : Whole(output[j]) /\ output[j].item = x
  BY DEF Readable
<1>b. \A x : x \in Merged <=> \E j \in DOMAIN output : output[j].state = "garbled" /\ output[j].item = x
  BY DEF Merged
<1> HIDE DEF o, n
<1>4. \A i \in 1..(n - 1) : i \in DOMAIN o
  BY <1>1
<1>5. n \in DOMAIN o /\ \A i \in DOMAIN o : i = n \/ i \in 1..(n - 1)
  BY <1>1
<1>6. ASSUME NEW x \in Readable PROVE x \in Readable' \cup Merged'
  <2>1. PICK j \in DOMAIN output : Whole(output[j]) /\ output[j].item = x
    BY <1>6, <1>a
  <2>2. j \in DOMAIN o /\ Kept(o[j], output[j])
    BY <1>1, <1>4, <2>1 DEF Whole
  <2>3. o[j].item = x /\ (Whole(o[j]) \/ o[j].state = "garbled")
    BY <2>1, <2>2 DEF Kept
  <2> QED BY <1>2, <1>3, <2>2, <2>3
<1>7. ASSUME NEW x \in Merged PROVE x \in Merged'
  <2>1. PICK j \in DOMAIN output : output[j].state = "garbled" /\ output[j].item = x
    BY <1>7, <1>b
  <2>2. j \in DOMAIN o /\ Kept(o[j], output[j])
    BY <1>1, <1>4, <2>1
  <2>3. o[j].item = x /\ o[j].state = "garbled"
    BY <2>1, <2>2 DEF Kept
  <2> QED BY <1>3, <2>2, <2>3
<1>8. ASSUME NEW x \in Readable', x # item PROVE x \in Readable
  <2>1. PICK j \in DOMAIN o : Whole(o[j]) /\ o[j].item = x
    BY <1>8, <1>2
  <2>2. j \in DOMAIN output /\ Kept(o[j], output[j])
    BY <1>1, <1>5, <1>8, <2>1
  <2>3. output[j] = o[j]
    BY <2>1, <2>2 DEF Kept, Whole
  <2> QED BY <1>a, <2>1, <2>2, <2>3
<1>9. state = "ok" => item \in Readable' \cup Merged'
  BY <1>1, <1>2, <1>3, <1>5 DEF Whole
<1> QED BY <1>6, <1>7, <1>8, <1>9
-----------------------------------------------------------------------------
(* The types *)

TypeInv == TypeOK /\ PlaceInv

LEMMA ItemRange ==
  ASSUME TypeOK
  PROVE  /\ item \in Nat /\ NumItems \in Nat /\ NumItems >= 1
         /\ item <= NumItems => item \in Items /\ item + 1 \in 1..(NumItems + 1)
         /\ 1 \in 1..(NumItems + 1)
         /\ item \in Items => item <= NumItems
         /\ item > NumItems => item = NumItems + 1
BY CollectorAssumption DEF TypeOK, Items

\* The places a step leads to.
LEMMA AfterDumpPlace ==
  ASSUME TypeOK, AfterDump
  PROVE  /\ item' \in 1..(NumItems + 1) /\ pc' \in {"loop", "stop"} /\ PlaceInv'
         /\ item <= NumItems => pc' = "loop" /\ item' = item + 1
         /\ item = NumItems + 1 => pc' = "stop" /\ item' = item
<1>1. CASE item > NumItems
  BY <1>1, ItemRange DEF AfterDump, PlaceInv, TypeOK
<1>2. CASE item <= NumItems
  BY <1>2, ItemRange DEF AfterDump, PlaceInv, TypeOK
<1> QED BY <1>1, <1>2, ItemRange

\* The server appends a record of the item.
LEMMA ServeType ==
  ASSUME TypeOK, item <= NumItems, Serve
  PROVE  /\ records' \in Seq(Record) /\ served' \in Nat /\ recording' \in BOOLEAN
         /\ served' = served + 1 /\ recording' = recording
         /\ recording => records' = Append(records, [item |-> item, chat |-> served + 1])
         /\ ~recording => records' = records
         /\ [item |-> item, chat |-> served + 1] \in Record
<1>1. item \in Items /\ served + 1 \in Nat
  BY ItemRange DEF TypeOK
<1>2. [item |-> item, chat |-> served + 1] \in Record
  BY <1>1 DEF Record
<1>3. records' \in Seq(Record)
  BY <1>2, AppendFacts DEF Serve, TypeOK
<1> QED BY <1>1, <1>2, <1>3 DEF Serve, TypeOK

LEMMA NoRecords == <<>> \in Seq(Record)
OBVIOUS

LEMMA ReadableItems == ASSUME TypeOK PROVE \A i \in Readable \cup Merged : i \in Items
<1>1. \A j \in DOMAIN output : output[j] \in Line
  BY DEF TypeOK
<1>2. \A j \in DOMAIN output : output[j].item \in Items
  BY <1>1 DEF Line
<1> QED BY <1>2 DEF Readable, Merged

LEMMA StepType == TypeInv /\ [Next]_vars => TypeInv'
<1> SUFFICES ASSUME TypeOK, PlaceInv, [Next]_vars PROVE TypeOK' /\ PlaceInv'
  BY DEF TypeInv
<1>1. CASE UNCHANGED vars
  BY <1>1 DEF vars, script, server, TypeOK, PlaceInv
<1>2. CASE Run
  <2>1. \A i \in Readable : i \in Items
    BY ReadableItems
  <2>2. processed' \subseteq {Hash[i] : i \in Items}
    BY <1>2, <2>1 DEF Run
  <2>3. now' \in Nat /\ DOMAIN files' \subseteq 0..now' /\ runs' \in 0..MaxRuns
    BY <1>2, CollectorAssumption DEF Run, TypeOK
  <2>4. item' \in 1..(NumItems + 1) /\ reply' \in Seq(Record)
    BY <1>2, ItemRange DEF Run
  <2> QED BY <1>2, <2>2, <2>3, <2>4 DEF Run, server, TypeOK, PlaceInv
<1>3. CASE StartRecording
  <2>1. records' \in Seq(Record) /\ recording' \in BOOLEAN /\ calm' \in BOOLEAN
    <3>1. records' \in Seq(Record)
      BY <1>3, NoRecords DEF StartRecording, TypeOK
    <3>2. recording' \in BOOLEAN
      BY <1>3 DEF StartRecording, TypeOK
    <3>3. calm' \in BOOLEAN
      BY <1>3 DEF StartRecording, Fault, TypeOK
    <3> QED BY <3>1, <3>2, <3>3
  <2> QED BY <1>3, <2>1 DEF StartRecording, TypeOK, PlaceInv
<1>4. CASE SkipItem
  BY <1>4, ItemRange DEF SkipItem, server, TypeOK, PlaceInv
<1>5. CASE Chat
  <2>1. item <= NumItems /\ item \in Items /\ item + 1 \in 1..(NumItems + 1)
    BY <1>5, ItemRange DEF Chat
  <2>2. pc' \in {"loop", "write", "check"} /\ PlaceInv'
    BY <1>5, <2>1 DEF Chat, ChatRaises, PlaceInv
  <2>3. item' \in 1..(NumItems + 1) /\ failed' \subseteq Items
    BY <1>5, <2>1 DEF Chat, ChatRaises, TypeOK
  <2>4. calm' \in BOOLEAN
    BY <1>5 DEF Chat, Fault, TypeOK
  <2>5. records' \in Seq(Record) /\ served' \in Nat /\ recording' \in BOOLEAN
    BY <1>5, <2>1, ServeType DEF Chat, server, TypeOK
  <2>6. now' \in Nat /\ DOMAIN files' \subseteq 0..now'
    <3>1. now' = now \/ \E d \in Nat : now' = now + d
      BY <1>5, CollectorAssumption DEF Chat, ChatRaises
    <3>2. files' = files
      BY <1>5 DEF Chat
    <3> QED BY <3>1, <3>2 DEF TypeOK
  <2> QED BY <1>5, <2>2, <2>3, <2>4, <2>5, <2>6 DEF Chat, TypeOK
<1>6. CASE WriteLine
  <2>1. item \in Items
    BY <1>6, ItemRange DEF WriteLine, PlaceInv
  <2>2. output' \in Seq(Line)
    BY <1>6, <2>1, LineAppended DEF WriteLine, TypeOK
  <2> QED BY <1>6, <2>2 DEF WriteLine, server, TypeOK, PlaceInv
<1>7. CASE CheckDump
  <2>1. item' \in 1..(NumItems + 1) /\ pc' \in {"dump", "loop"}
    BY <1>7, ItemRange DEF CheckDump, PlaceInv, TypeOK
  <2> QED BY <1>7, <2>1 DEF CheckDump, server, TypeOK, PlaceInv
<1>8. CASE EndLoop
  BY <1>8 DEF EndLoop, server, TypeOK, PlaceInv
<1>9. CASE DumpRequest
  <2>1. item' \in 1..(NumItems + 1) /\ pc' \in {"save", "loop", "stop"} /\ PlaceInv'
    BY <1>9, AfterDumpPlace DEF DumpRequest, PlaceInv, TypeOK
  <2>2. reply' \in Seq(Record) /\ records' \in Seq(Record) /\ calm' \in BOOLEAN
    <3>1. reply' \in Seq(Record) /\ records' \in Seq(Record)
      BY <1>9, NoRecords DEF DumpRequest, TypeOK
    <3>2. calm' \in BOOLEAN
      BY <1>9 DEF DumpRequest, Fault, TypeOK
    <3> QED BY <3>1, <3>2
  <2> QED BY <1>9, <2>1, <2>2 DEF DumpRequest, TypeOK
<1>10. CASE SaveDump
  <2>1. item' \in 1..(NumItems + 1) /\ pc' \in {"loop", "stop"} /\ PlaceInv'
    BY <1>10, AfterDumpPlace DEF SaveDump
  <2>2. DOMAIN files' \subseteq 0..now' /\ \A t \in DOMAIN files' : files'[t] \in Seq(Record)
    BY <1>10 DEF SaveDump, TypeOK
  <2>3. reply' \in Seq(Record)
    BY <1>10 DEF SaveDump
  <2> QED BY <1>10, <2>1, <2>2, <2>3 DEF SaveDump, server, TypeOK
<1>11. CASE StopRecording
  <2>1. recording' \in BOOLEAN /\ calm' \in BOOLEAN
    BY <1>11 DEF StopRecording, Fault, TypeOK
  <2> QED BY <1>11, <2>1 DEF StopRecording, TypeOK, PlaceInv
<1>12. CASE Crash
  <2>1. reply' \in Seq(Record) /\ calm' \in BOOLEAN
    <3>1. reply' \in Seq(Record)
      BY <1>12, NoRecords DEF Crash
    <3>2. calm' \in BOOLEAN
      BY <1>12 DEF Crash, Fault
    <3> QED BY <3>1, <3>2
  <2> QED BY <1>12, <2>1 DEF Crash, server, TypeOK, PlaceInv
<1>13. CASE CrashInWrite
  <2>1. item \in Items
    BY <1>13, ItemRange DEF CrashInWrite, PlaceInv
  <2>2. output' \in Seq(Line) /\ calm' \in BOOLEAN
    <3>1. PICK state \in {"torn", "open"} : output' = AppendLine(state)
      BY <1>13 DEF CrashInWrite
    <3>2. output \in Seq(Line) /\ state \in {"ok", "torn", "open"}
      BY DEF TypeOK
    <3> QED BY <1>13, <2>1, <3>1, <3>2, LineAppended DEF CrashInWrite, Fault
  <2> QED BY <1>13, <2>2 DEF CrashInWrite, server, TypeOK, PlaceInv
<1> QED BY <1>1, <1>2, <1>3, <1>4, <1>5, <1>6, <1>7, <1>8, <1>9, <1>10, <1>11, <1>12, <1>13 DEF Next
-----------------------------------------------------------------------------
(* The items that a run has passed *)

\* A run does not go back.
LEMMA PassedKept ==
  ASSUME TypeOK, PlaceInv, Next, Running, pc' # "off", NEW i \in Items, Passed(i)
  PROVE  Passed(i)'
<1>0. i \in Int /\ i <= NumItems /\ item \in Int /\ NumItems \in Int
  BY ItemRange DEF Items
<1> USE DEF Passed
<1>1. CASE Run \/ Crash \/ CrashInWrite
  BY <1>1 DEF Run, Crash, CrashInWrite, Running
<1>2. CASE StartRecording \/ StopRecording
  BY <1>2 DEF StartRecording, StopRecording
<1>3. CASE SkipItem
  BY <1>0, <1>3 DEF SkipItem
<1>4. CASE Chat
  BY <1>0, <1>4 DEF Chat, ChatRaises
<1>5. CASE WriteLine \/ EndLoop
  BY <1>5 DEF WriteLine, EndLoop
<1>6. CASE CheckDump
  BY <1>0, <1>6 DEF CheckDump
<1>7. ASSUME AfterDump PROVE Passed(i)'
  BY <1>0, <1>7 DEF AfterDump
<1>8. CASE DumpRequest \/ SaveDump
  BY <1>7, <1>8 DEF DumpRequest, SaveDump
<1> QED BY <1>1, <1>2, <1>3, <1>4, <1>5, <1>6, <1>8 DEF Next

\* A run passes an item by skipping it, by a chat that fails, or by its line.
LEMMA PassedNew ==
  ASSUME TypeOK, PlaceInv, Next, pc' # "off", NEW i \in Items, Passed(i)'
  PROVE  \/ Running /\ Passed(i)
         \/ i = item /\ SkipItem
         \/ i = item /\ Chat /\ pc' # "write" /\ failed' = failed \cup {item}
         \/ i = item /\ WriteLine
<1>0. i \in Int /\ 1 <= i /\ i <= NumItems /\ item \in Int /\ NumItems \in Int
  BY ItemRange DEF Items
<1> USE DEF Passed, Running
<1>1. CASE Run \/ Crash \/ CrashInWrite
  BY <1>0, <1>1 DEF Run, Crash, CrashInWrite
<1>2. CASE StartRecording \/ StopRecording
  BY <1>2 DEF StartRecording, StopRecording
<1>3. CASE SkipItem
  BY <1>0, <1>3 DEF SkipItem
<1>4. CASE Chat
  BY <1>0, <1>4 DEF Chat, ChatRaises
<1>5. CASE WriteLine
  BY <1>5 DEF WriteLine
<1>6. CASE EndLoop
  BY <1>0, <1>6 DEF EndLoop
<1>7. CASE CheckDump
  BY <1>0, <1>7 DEF CheckDump
<1>8. ASSUME AfterDump, pc \in {"dump", "save"} PROVE Passed(i)
  BY <1>0, <1>8, AfterDumpPlace
<1>9. CASE DumpRequest \/ SaveDump
  <2>1. pc \in {"dump", "save"} /\ (AfterDump \/ (pc' = "save" /\ item' = item))
    BY <1>9 DEF DumpRequest, SaveDump
  <2> QED BY <1>8, <2>1
<1> QED BY <1>1, <1>2, <1>3, <1>4, <1>5, <1>6, <1>7, <1>9 DEF Next

\* What else the steps do to the lines and to what the script knows.
LEMMA StepEffects ==
  ASSUME Next
  PROVE  /\ WriteLine \/ CrashInWrite \/ UNCHANGED output
         /\ Run \/ UNCHANGED processed
         /\ Run \/ failed \subseteq failed'
         /\ Run \/ pc \notin {"off", "done"}
         /\ pc' = "off" <=> Crash \/ CrashInWrite
         /\ pc' = "write" => Chat
BY DEF Next, Run, StartRecording, SkipItem, Chat, ChatRaises, WriteLine, CheckDump, EndLoop, DumpRequest,
       SaveDump, AfterDump, StopRecording, Crash, CrashInWrite

\* What could be read back still can, or shares a line now.
LEMMA LinesKept ==
  ASSUME TypeOK, PlaceInv, Next
  PROVE  /\ Readable \subseteq Readable' \cup Merged' /\ Merged \subseteq Merged'
         /\ \A i \in Readable' : i \in Readable \/ (i = item /\ (WriteLine \/ CrashInWrite))
         /\ WriteLine => item \in Readable' \cup Merged'
<1>1. CASE UNCHANGED output
  <2>1. Readable' = Readable /\ Merged' = Merged
    BY <1>1 DEF Readable, Merged
  <2>2. CASE WriteLine
    BY <2>1, <2>2, ReadableAfter, ItemRange DEF WriteLine, PlaceInv, TypeOK
  <2> QED BY <2>1, <2>2
<1>2. CASE WriteLine
  BY <1>2, ReadableAfter, ItemRange DEF WriteLine, PlaceInv, TypeOK
<1>3. CASE CrashInWrite
  <2>1. ~WriteLine
    BY <1>3 DEF WriteLine, CrashInWrite
  <2>2. PICK state \in {"torn", "open"} : output' = AppendLine(state)
    BY <1>3 DEF CrashInWrite
  <2>3. output \in Seq(Line) /\ item \in Items /\ state \in {"ok", "torn", "open"}
    BY <1>3, ItemRange DEF CrashInWrite, PlaceInv, TypeOK
  <2> QED BY <1>3, <2>1, <2>2, <2>3, ReadableAfter
<1> QED BY <1>1, <1>2, <1>3, StepEffects
-----------------------------------------------------------------------------
(* Each item once, and none left out *)

\* An append of an item that cannot be read back.
LEMMA OnceAfter ==
  ASSUME output \in Seq(Line), item \in Items, OutputOnce, NEW state \in {"ok", "torn", "open"},
         output' = AppendLine(state), item \notin Readable
  PROVE  OutputOnce'
<1> DEFINE o == output'
           n == Len(o)
<1>1. /\ o \in Seq(Line) /\ n \in Nat \ {0} /\ DOMAIN o = 1..n /\ o[n].item = item
      /\ \A i \in 1..(n - 1) : i \in DOMAIN output /\ Kept(o[i], output[i])
  BY LineAppended
<1> HIDE DEF o, n
<1>2. SUFFICES ASSUME NEW i \in DOMAIN o, NEW j \in DOMAIN o,
                      Whole(o[i]), Whole(o[j]), o[i].item = o[j].item
               PROVE  i = j
  BY DEF OutputOnce, Whole, o
<1>3. (i = n \/ i \in 1..(n - 1)) /\ (j = n \/ j \in 1..(n - 1))
  BY <1>1
<1>4. ASSUME NEW k \in 1..(n - 1), Whole(o[k]) PROVE k \in DOMAIN output /\ output[k] = o[k] /\ o[k].item # item
  <2>0. k \in DOMAIN output /\ Kept(o[k], output[k])
    BY <1>1, <1>4
  <2>1. k \in DOMAIN output /\ output[k] = o[k]
    BY <1>4, <2>0 DEF Kept, Whole
  <2>2. output[k].item \in Readable
    BY <1>4, <2>1 DEF Readable
  <2> QED BY <2>1, <2>2
<1>5. CASE i \in 1..(n - 1) /\ j \in 1..(n - 1)
  BY <1>2, <1>4, <1>5 DEF OutputOnce
<1>6. CASE i = n /\ j \in 1..(n - 1)
  BY <1>1, <1>2, <1>4, <1>6
<1>7. CASE j = n /\ i \in 1..(n - 1)
  BY <1>1, <1>2, <1>4, <1>7
<1> QED BY <1>3, <1>5, <1>6, <1>7

LEMMA StepOnce ==
  ASSUME TypeOK, PlaceInv, OnceInv, [Next]_vars
  PROVE  OnceInv'
<1>1. CASE UNCHANGED vars
  BY <1>1 DEF vars, script, server, OnceInv, OutputOnce, Running, Readable, Passed
<1>2. CASE Next
  <2>1. OutputOnce'
    <3>0. ASSUME pc = "write" PROVE item \notin Readable
      BY <3>0, ItemRange DEF OnceInv, Running, Passed
    <3>1. CASE WriteLine
      <4>1. item \notin Readable
        BY <3>0, <3>1 DEF WriteLine
      <4> QED BY <3>1, <4>1, OnceAfter, ItemRange DEF WriteLine, PlaceInv, TypeOK, OnceInv
    <3>2. CASE CrashInWrite
      <4>1. PICK state \in {"torn", "open"} : output' = AppendLine(state)
        BY <3>2 DEF CrashInWrite
      <4>2. output \in Seq(Line) /\ item \in Items /\ state \in {"ok", "torn", "open"} /\ item \notin Readable
        BY <3>0, <3>2, ItemRange DEF CrashInWrite, PlaceInv, TypeOK
      <4> QED BY <4>1, <4>2, OnceAfter DEF OnceInv
    <3>3. CASE UNCHANGED output
      BY <3>3 DEF OnceInv, OutputOnce
    <3> QED BY <1>2, <3>1, <3>2, <3>3, StepEffects
  <2>2. ASSUME Running', NEW i \in Readable' PROVE Hash[i] \in processed' \/ Passed(i)'
    <3>1. CASE Run
      <4>1. i \in Readable
        BY <2>2, <3>1 DEF Run, Readable
      <4> QED BY <3>1, <4>1 DEF Run
    <3>2. CASE ~Run /\ i \in Readable
      <4>1. Running /\ processed' = processed /\ i \in Items /\ pc' # "off"
        BY <1>2, <2>2, <3>2, StepEffects, ReadableItems DEF Running
      <4> QED BY <1>2, <3>2, <4>1, PassedKept DEF OnceInv
    <3>3. CASE i = item /\ WriteLine
      BY <3>3 DEF WriteLine, Passed
    <3>4. ~CrashInWrite
      BY <2>2 DEF CrashInWrite, Running
    <3> QED BY <1>2, <2>2, <3>1, <3>2, <3>3, <3>4, LinesKept
  <2>3. ASSUME pc' = "write" PROVE Hash[item]' \notin processed'
    BY <1>2, <2>3, StepEffects, ItemRange DEF Chat, ChatRaises
  <2> QED BY <2>1, <2>2, <2>3 DEF OnceInv
<1> QED BY <1>1, <1>2

\* The first messages of the items differ.
Injective == \A i, j \in Items : Hash[i] = Hash[j] => i = j

LEMMA StepPassed ==
  ASSUME Injective, TypeOK, PlaceInv, PassedInv, [Next]_vars
  PROVE  PassedInv'
<1>1. CASE UNCHANGED vars
  BY <1>1 DEF vars, script, server, PassedInv, Running, Readable, Merged, Passed
<1>2. CASE Next
  <2>1. ASSUME Running', NEW h \in processed' PROVE \E i \in Readable' \cup Merged' : Hash[i] = h
    <3>1. CASE Run
      BY <1>2, <2>1, <3>1, LinesKept DEF Run
    <3>2. CASE ~Run
      <4>1. Running /\ processed' = processed
        BY <1>2, <3>2, StepEffects DEF Running
      <4> QED BY <1>2, <2>1, <4>1, LinesKept DEF PassedInv
    <3> QED BY <3>1, <3>2
  <2>2. ASSUME pc' # "off", NEW i \in Items, Passed(i)'
        PROVE  i \in Readable' \cup failed' \cup Merged'
    <3>1. CASE Running /\ Passed(i)
      <4>1. ~Run
        BY <3>1 DEF Run, Running
      <4> QED BY <1>2, <3>1, <4>1, LinesKept, StepEffects DEF PassedInv
    <3>2. CASE i = item /\ SkipItem
      <4>1. Running /\ Hash[item] \in processed
        BY <3>2 DEF SkipItem, Running
      <4>2. PICK j \in Readable \cup Merged : Hash[j] = Hash[item]
        BY <4>1 DEF PassedInv
      <4>3. i \in Readable \cup Merged
        BY <3>2, <4>2, ReadableItems DEF Injective
      <4> QED BY <1>2, <4>3, LinesKept
    <3>3. CASE i = item /\ Chat /\ failed' = failed \cup {item}
      BY <3>3
    <3>4. CASE i = item /\ WriteLine
      BY <1>2, <3>4, LinesKept
    <3> QED BY <1>2, <2>2, <3>1, <3>2, <3>3, <3>4, PassedNew
  <2> QED BY <2>1, <2>2 DEF PassedInv, Running
<1> QED BY <1>1, <1>2
-----------------------------------------------------------------------------
(* The order of the records *)

\* All records of a sequence have the number of a chat.
LEMMA ChatNumbers ==
  ASSUME NEW s \in Seq(Record)
  PROVE  /\ \A i \in DOMAIN s : s[i] \in Record /\ s[i].chat \in Nat /\ s[i].item \in Items
         /\ DOMAIN s \in SUBSET Nat
<1>1. \A i \in DOMAIN s : s[i] \in Record
  OBVIOUS
<1> QED BY <1>1 DEF Record

\* Nothing comes before or after an empty sequence.
LEMMA EmptySegment ==
  ASSUME NEW s
  PROVE  Ascending(<<>>) /\ Before(s, <<>>) /\ Before(<<>>, s) /\ Known(<<>>)
<1>1. DOMAIN <<>> = {}
  OBVIOUS
<1> QED BY <1>1 DEF Ascending, Before, Known

\* The record of the next chat comes after all others.
LEMMA NextRecord ==
  ASSUME NEW s \in Seq(Record), NEW r \in Seq(Record), NEW n \in Nat, NEW e \in Record,
         e.chat = n + 1,
         \A i \in DOMAIN s : s[i].chat <= n,
         \A i \in DOMAIN r : r[i].chat <= n
  PROVE  /\ Ascending(r) => Ascending(Append(r, e))
         /\ Before(s, r) => Before(s, Append(r, e))
         /\ \A i \in DOMAIN Append(r, e) : Append(r, e)[i].chat <= n + 1
<1> DEFINE a == Append(r, e)
           k == Len(r)
<1>1. /\ k \in Nat /\ DOMAIN r = 1..k /\ DOMAIN a = 1..(k + 1)
      /\ (\A i \in 1..k : a[i] = r[i]) /\ a[k + 1] = e
  BY AppendFacts
<1> HIDE DEF a, k
<1>2. \A i \in DOMAIN s : s[i].chat \in Nat /\ s[i].chat < e.chat
  BY ChatNumbers
<1>3. \A i \in DOMAIN r : r[i].chat \in Nat /\ r[i].chat < e.chat
  BY ChatNumbers
<1>4. \A i \in DOMAIN a : (i = k + 1 /\ a[i] = e) \/ (i \in DOMAIN r /\ i < k + 1 /\ a[i] = r[i])
  BY <1>1
<1>5. Ascending(r) => Ascending(a)
  <2> SUFFICES ASSUME Ascending(r), NEW i \in DOMAIN a, NEW j \in DOMAIN a, i < j
               PROVE  a[i].chat < a[j].chat
    BY DEF Ascending
  <2>1. i \in DOMAIN r /\ a[i] = r[i]
    BY <1>1, <1>4
  <2> QED BY <1>3, <1>4, <2>1 DEF Ascending
<1>6. Before(s, r) => Before(s, a)
  BY <1>2, <1>4 DEF Before
<1>7. \A i \in DOMAIN a : a[i].chat <= n + 1
  BY <1>3, <1>4
<1> QED BY <1>5, <1>6, <1>7 DEF a

OrderInv == ServedInv /\ LogsInServedOrder

LEMMA StepOrder ==
  ASSUME TypeOK, PlaceInv, OrderInv, [Next]_vars
  PROVE  OrderInv'
<1> USE DEF OrderInv
<1>0. /\ \A t \in DOMAIN files : files[t] \in Seq(Record)
      /\ reply \in Seq(Record) /\ records \in Seq(Record) /\ served \in Nat
      /\ now \in Nat /\ \A t \in DOMAIN files : t \in Nat /\ t <= now
  BY DEF TypeOK
<1>1. ASSUME UNCHANGED <<files, served>>, reply' \in {reply, <<>>}, records' \in {records, <<>>}
      PROVE  OrderInv'
  BY <1>1, EmptySegment DEF ServedInv, LogsInServedOrder, Known
<1>2. CASE Chat
  <2>1. item <= NumItems /\ UNCHANGED <<files, reply>>
    BY <1>2 DEF Chat
  <2>2. CASE Serve
    <3> DEFINE e == [item |-> item, chat |-> served + 1]
    <3>1. /\ served' = served + 1 /\ e \in Record /\ e.chat = served + 1
          /\ (recording /\ records' = Append(records, e)) \/ (~recording /\ records' = records)
      BY <2>1, <2>2, ServeType DEF TypeOK
    <3> HIDE DEF e
    <3>3. /\ \A t \in DOMAIN files : Known(files[t])'
          /\ Known(reply)'
      <4>1. \A t \in DOMAIN files : \A i \in DOMAIN files[t] : files[t][i].chat <= served + 1
        BY <1>0, ChatNumbers DEF ServedInv, Known
      <4>2. \A i \in DOMAIN reply : reply[i].chat <= served + 1
        BY <1>0, ChatNumbers DEF ServedInv, Known
      <4> QED BY <2>1, <3>1, <4>1, <4>2 DEF Known
    <3>4. CASE records' = Append(records, e)
      <4>1. ASSUME NEW s \in Seq(Record), Known(s)
            PROVE  Before(s, records) => Before(s, records')
        BY <1>0, <3>1, <3>4, <4>1, NextRecord DEF ServedInv, Known
      <4>2. Ascending(records') /\ \A i \in DOMAIN records' : records'[i].chat <= served + 1
        BY <1>0, <3>1, <3>4, NextRecord DEF ServedInv, Known, LogsInServedOrder
      <4>3. ServedInv'
        BY <2>1, <3>1, <3>3, <4>2 DEF ServedInv, Known
      <4>4. LogsInServedOrder'
        BY <1>0, <2>1, <4>1, <4>2 DEF ServedInv, LogsInServedOrder
      <4> QED BY <4>3, <4>4
    <3>5. CASE records' = records
      <4>1. \A i \in DOMAIN records : records[i].chat <= served + 1
        BY <1>0, ChatNumbers DEF ServedInv, Known
      <4>2. ServedInv'
        BY <2>1, <3>1, <3>3, <3>5, <4>1 DEF ServedInv, Known
      <4> QED BY <2>1, <3>5, <4>2 DEF LogsInServedOrder
    <3> QED BY <3>1, <3>4, <3>5
  <2>3. CASE UNCHANGED server
    BY <1>1, <2>1, <2>3 DEF server
  <2> QED BY <1>2, <2>2, <2>3 DEF Chat
<1>3. CASE DumpRequest
  <2>1. UNCHANGED <<files, served>>
    BY <1>3 DEF DumpRequest
  <2>2. CASE reply' = records /\ records' = <<>>
    BY <2>1, <2>2, EmptySegment DEF ServedInv, LogsInServedOrder, Known
  <2>3. CASE reply' = reply /\ records' \in {records, <<>>}
    BY <1>1, <2>1, <2>3
  <2> QED BY <1>3, <2>2, <2>3 DEF DumpRequest
<1>4. CASE SaveDump
  <2>1. /\ UNCHANGED <<records, served>> /\ reply' = <<>>
        /\ DOMAIN files' = DOMAIN files \cup {now}
        /\ files'[now] = reply /\ \A t \in DOMAIN files : t # now => files'[t] = files[t]
    BY <1>4 DEF SaveDump, server
  <2>2. \A t \in DOMAIN files' : t = now \/ (t \in DOMAIN files /\ t < now /\ files'[t] = files[t])
    BY <1>0, <2>1
  <2>3. ServedInv'
    BY <2>1, <2>2, EmptySegment DEF ServedInv, Known
  <2>4. \A t \in DOMAIN files' : /\ Ascending(files'[t]) /\ Before(files'[t], reply')
                                 /\ Before(files'[t], records')
    BY <2>1, <2>2, EmptySegment DEF LogsInServedOrder
  <2>5. ASSUME NEW t \in DOMAIN files', NEW u \in DOMAIN files', t < u
        PROVE  Before(files'[t], files'[u])
    <3>1. t \in DOMAIN files /\ files'[t] = files[t]
      BY <1>0, <2>2, <2>5
    <3> QED BY <2>1, <2>2, <2>5, <3>1 DEF LogsInServedOrder
  <2> QED BY <2>1, <2>3, <2>4, <2>5, EmptySegment DEF LogsInServedOrder
<1>5. CASE \/ UNCHANGED vars \/ Run \/ StartRecording \/ SkipItem \/ WriteLine \/ CheckDump \/ EndLoop
           \/ StopRecording \/ Crash \/ CrashInWrite
  BY <1>1, <1>5 DEF vars, script, server, Run, StartRecording, SkipItem, WriteLine, CheckDump, EndLoop,
                    StopRecording, Crash, CrashInWrite
<1> QED BY <1>2, <1>3, <1>4, <1>5 DEF Next
-----------------------------------------------------------------------------
(* As long as nothing goes wrong *)

\* The last item is not one that is followed by a periodic dump, and a chat takes
\* a second at least.
OwnSeconds == NumItems % DumpEvery # 0 /\ 0 \notin ChatTimes

\* The steps that are not faults.
LEMMA CalmSteps ==
  ASSUME Next, calm'
  PROVE  /\ calm \in BOOLEAN => calm
         /\ ~Crash /\ ~CrashInWrite
         /\ StartRecording => recording' = TRUE /\ records' = <<>>
         /\ Chat => /\ Serve /\ (\E d \in ChatTimes : now' = now + d) /\ pc' = "write"
                    /\ UNCHANGED <<item, failed>>
         /\ DumpRequest => reply' = records /\ records' = <<>> /\ pc' = "save" /\ UNCHANGED item
         /\ StopRecording => recording' = FALSE
<1>1. \A kind : ~Fault(kind)
  BY DEF Fault
<1>2. ~Crash /\ ~CrashInWrite
  BY <1>1 DEF Crash, CrashInWrite
<1>3. StartRecording => recording' = TRUE /\ records' = <<>> /\ calm' = calm
  BY <1>1 DEF StartRecording
<1>4. Chat => /\ Serve /\ (\E d \in ChatTimes : now' = now + d) /\ pc' = "write"
              /\ UNCHANGED <<item, failed, calm>>
  BY <1>1 DEF Chat
<1>5. DumpRequest => reply' = records /\ records' = <<>> /\ pc' = "save" /\ UNCHANGED <<item, calm>>
  BY <1>1 DEF DumpRequest
<1>6. StopRecording => recording' = FALSE /\ calm' = calm
  BY <1>1 DEF StopRecording
<1>7. Run \/ SkipItem \/ WriteLine \/ CheckDump \/ EndLoop \/ SaveDump => calm' = calm
  BY DEF Run, SkipItem, WriteLine, CheckDump, EndLoop, SaveDump
<1>8. calm' = calm
  BY <1>2, <1>3, <1>4, <1>5, <1>6, <1>7 DEF Next
<1> QED BY <1>2, <1>3, <1>4, <1>5, <1>6, <1>8

\* In a run that knows nothing, or everything.
KnowsNothing == processed = {} /\ \A i \in Items : Passed(i) => i \in Readable
KnowsAll ==
  /\ Items \subseteq Readable /\ \A i \in Items : Hash[i] \in processed
  /\ pc \notin {"write", "check"}
  /\ pc \in {"dump", "save"} => item = NumItems + 1

LEMMA KnowsEither ==
  QuietInv <=> /\ \A i \in DOMAIN output : output[i].state = "ok"
               /\ pc = "off" => output = <<>>
               /\ pc = "done" => Items \subseteq Readable
               /\ Running => KnowsNothing \/ KnowsAll
BY DEF QuietInv, KnowsNothing, KnowsAll

LEMMA KnowsEitherNext ==
  /\ \A i \in DOMAIN output' : output'[i].state = "ok"
  /\ pc' = "off" => output' = <<>>
  /\ pc' = "done" => Items \subseteq Readable'
  /\ Running' => KnowsNothing' \/ KnowsAll'
  => QuietInv'
BY DEF QuietInv, KnowsNothing, KnowsAll

LEMMA StepQuiet ==
  ASSUME TypeOK, PlaceInv, QuietInv, Next, calm'
  PROVE  QuietInv'
<1>0. /\ 1 \in Items /\ \A i \in Items : i \in Int /\ 1 <= i /\ i <= NumItems
      /\ item \in Int /\ NumItems \in Int
  BY ItemRange, CollectorAssumption DEF Items
<1>1. /\ \A i \in DOMAIN output : output[i].state = "ok"
      /\ pc = "off" => output = <<>>
      /\ pc = "done" => Items \subseteq Readable
      /\ Running => KnowsNothing \/ KnowsAll
  BY KnowsEither
<1>2. \A i \in DOMAIN output' : output'[i].state = "ok"
  <2>1. CASE WriteLine
    <3> DEFINE o == output'
               n == Len(o)
    <3>1. \A i \in DOMAIN output : output[i].state = "ok"
      BY <1>1
    <3>2. item \in Items /\ output \in Seq(Line) /\ o = AppendLine("ok")
      BY <2>1, ItemRange DEF WriteLine, PlaceInv, TypeOK
    <3>3. /\ n \in Nat \ {0} /\ DOMAIN o = 1..n /\ o[n].state = "ok"
          /\ \A i \in 1..(n - 1) : i \in DOMAIN output /\ o[i] = output[i]
      BY <3>1, <3>2, LineAppended DEF Kept
    <3> HIDE DEF o, n
    <3>4. \A i \in DOMAIN o : i = n \/ i \in 1..(n - 1)
      BY <3>3
    <3>5. \A i \in DOMAIN o : o[i].state = "ok"
      BY <1>1, <3>3, <3>4
    <3> QED BY <3>5 DEF o
  <2>2. CASE UNCHANGED output
    BY <1>1, <2>2
  <2> QED BY <2>1, <2>2, CalmSteps, StepEffects
<1>3. Merged' = {}
  BY <1>2 DEF Merged
<1>4. pc' # "off"
  BY CalmSteps, StepEffects
<1>5. ASSUME pc' = "done" PROVE Items \subseteq Readable'
  <2>1. StopRecording
    BY <1>5 DEF Next, Run, StartRecording, SkipItem, Chat, ChatRaises, WriteLine, CheckDump, EndLoop,
                DumpRequest, SaveDump, AfterDump, Crash, CrashInWrite
  <2>2. Running /\ item = NumItems + 1
    BY <2>1 DEF StopRecording, PlaceInv, Running
  <2>3. \A i \in Items : Passed(i)
    BY <1>0, <2>2 DEF Passed
  <2>4. Items \subseteq Readable
    BY <1>1, <2>2, <2>3 DEF KnowsNothing, KnowsAll
  <2> QED BY <1>3, <2>4, LinesKept
<1>6. CASE Run
  <2>1. Readable' = Readable /\ processed' = {Hash[i] : i \in Readable} /\ item' = 1 /\ pc' = "start"
    BY <1>6 DEF Run, Readable
  <2>2. CASE pc = "off"
    <3>1. Readable = {}
      <4>1. DOMAIN output = {}
        BY <1>1, <2>2
      <4> QED BY <4>1 DEF Readable
    <3>2. \A i \in Items : ~Passed(i)'
      BY <1>0, <2>1 DEF Passed
    <3>3. KnowsNothing'
      BY <2>1, <3>1, <3>2 DEF KnowsNothing
    <3> QED BY <1>2, <1>4, <1>5, <3>3, KnowsEitherNext
  <2>3. CASE pc = "done"
    <3>1. KnowsAll'
      BY <1>1, <2>1, <2>3 DEF KnowsAll
    <3> QED BY <1>2, <1>4, <1>5, <3>1, KnowsEitherNext
  <2> QED BY <1>6, <2>2, <2>3 DEF Run
<1>7. CASE ~Run
  <2>1. Running /\ processed' = processed
    BY <1>7, StepEffects DEF Running
  <2>2. CASE KnowsNothing
    <3>1. ASSUME NEW i \in Items, Passed(i)' PROVE i \in Readable'
      <4>1. CASE Running /\ Passed(i)
        BY <1>3, <2>2, <4>1, LinesKept DEF KnowsNothing
      <4>2. CASE i = item /\ WriteLine
        BY <1>3, <4>2, LinesKept
      <4>3. ~SkipItem /\ (Chat => pc' = "write")
        BY <2>2, CalmSteps DEF SkipItem, KnowsNothing
      <4> QED BY <1>4, <3>1, <4>1, <4>2, <4>3, PassedNew
    <3>2. KnowsNothing'
      BY <2>1, <2>2, <3>1 DEF KnowsNothing
    <3> QED BY <1>2, <1>4, <1>5, <3>2, KnowsEitherNext
  <2>3. CASE KnowsAll
    <3>1. ~Chat /\ ~WriteLine /\ ~CheckDump
      BY <2>3, ItemRange DEF KnowsAll, Chat, WriteLine, CheckDump
    <3>2. pc' \notin {"write", "check"}
      BY <1>7, <3>1 DEF Next, StartRecording, SkipItem, EndLoop,
                DumpRequest, SaveDump, AfterDump, StopRecording, Crash, CrashInWrite
    <3>3. pc' \in {"dump", "save"} => item' = NumItems + 1
      <4>1. CASE EndLoop
        BY <4>1, ItemRange DEF EndLoop
      <4>2. CASE DumpRequest
        BY <2>3, <4>2, CalmSteps DEF DumpRequest, KnowsAll
      <4>3. CASE ~EndLoop /\ ~DumpRequest
        BY <1>7, <3>1, <4>3 DEF Next, StartRecording, SkipItem,
                SaveDump, AfterDump, StopRecording, Crash, CrashInWrite
      <4> QED BY <4>1, <4>2, <4>3
    <3>4. KnowsAll'
      BY <1>3, <2>1, <2>3, <3>2, <3>3, LinesKept DEF KnowsAll
    <3> QED BY <1>2, <1>4, <1>5, <3>4, KnowsEitherNext
  <2> QED BY <1>1, <2>1, <2>2, <2>3
<1> QED BY <1>6, <1>7

LEMMA StepSecond ==
  ASSUME OwnSeconds, TypeOK, PlaceInv, QuietInv, SecondInv, Next, calm'
  PROVE  SecondInv'
<1>0. /\ now \in Nat /\ \A t \in DOMAIN files : t \in Nat /\ t <= now
      /\ item \in Int /\ NumItems \in Int
  BY ItemRange DEF TypeOK
<1>1. CASE Run
  <2>1. now' = now + 1 /\ files' = files /\ pc' = "start"
    BY <1>1 DEF Run
  <2>2. now + 1 \notin DOMAIN files
    BY <1>0
  <2> QED BY <2>1, <2>2 DEF SecondInv
<1>2. CASE StartRecording
  BY <1>2 DEF StartRecording, SecondInv
<1>3. CASE SkipItem
  BY <1>3 DEF SkipItem, SecondInv
<1>4. CASE Chat
  <2>1. PICK d \in ChatTimes : now' = now + d
    BY <1>4, CalmSteps
  <2>2. d \in Nat /\ d # 0
    BY CollectorAssumption DEF OwnSeconds
  <2>3. now + d \notin DOMAIN files
    BY <1>0, <2>2
  <2>4. files' = files /\ pc' = "write"
    BY <1>4, CalmSteps DEF Chat
  <2> QED BY <2>1, <2>3, <2>4 DEF SecondInv
<1>5. CASE WriteLine
  BY <1>5 DEF WriteLine, SecondInv
<1>6. CASE CheckDump
  BY <1>6 DEF CheckDump, SecondInv
<1>7. CASE EndLoop
  BY <1>7, ItemRange DEF EndLoop, SecondInv
<1>8. CASE DumpRequest
  <2>1. pc = "dump" /\ pc' = "save" /\ UNCHANGED <<item, now, files, processed>>
    BY <1>8, CalmSteps DEF DumpRequest
  <2> QED BY <2>1 DEF SecondInv
<1>9. CASE SaveDump
  <2>1. pc = "save" /\ AfterDump /\ processed' = processed
    BY <1>9 DEF SaveDump
  <2>2. CASE item > NumItems
    BY <2>1, <2>2 DEF AfterDump, SecondInv
  <2>3. CASE item <= NumItems
    <3>1. item % DumpEvery = 0 /\ item # NumItems
      BY <2>1, <2>3 DEF SecondInv, OwnSeconds
    <3>2. pc' = "loop" /\ item' = item + 1 /\ item' # NumItems + 1
      BY <1>0, <2>1, <2>3, <3>1, AfterDumpPlace
    <3>3. Running /\ ~KnowsAll
      BY <1>0, <2>1, <2>3 DEF Running, KnowsAll
    <3>4. processed = {}
      BY <3>3, KnowsEither DEF KnowsNothing
    <3> QED BY <2>1, <3>2, <3>4 DEF SecondInv
  <2> QED BY <1>0, <2>2, <2>3
<1>10. CASE StopRecording
  BY <1>10 DEF StopRecording, SecondInv
<1> QED BY <1>1, <1>2, <1>3, <1>4, <1>5, <1>6, <1>7, <1>8, <1>9, <1>10, CalmSteps DEF Next

\* A quiet step that is not a chat moves records, and neither adds nor drops one.
LEMMA HeldSame ==
  ASSUME TypeOK, SecondInv, HeldInv, Next, calm', ~Chat, NEW r
  PROVE  (Held(r)' => Held(r)) /\ (Held(r) => Held(r)')
<1>0. DOMAIN <<>> = {}
  OBVIOUS
<1>1. CASE UNCHANGED <<files, reply, records>>
  BY <1>1 DEF Held
<1>2. CASE Run
  <2>1. reply = <<>> /\ reply' = <<>> /\ UNCHANGED <<files, records>>
    BY <1>2 DEF Run, HeldInv, server
  <2> QED BY <1>1, <2>1
<1>3. CASE StartRecording
  <2>1. records = <<>> /\ records' = <<>> /\ UNCHANGED <<files, reply>>
    BY <1>3, CalmSteps DEF StartRecording, HeldInv
  <2> QED BY <1>1, <2>1
<1>4. CASE DumpRequest
  <2>1. reply = <<>> /\ reply' = records /\ records' = <<>> /\ files' = files
    BY <1>4, CalmSteps DEF DumpRequest, HeldInv
  <2> QED BY <1>0, <2>1 DEF Held
<1>5. CASE SaveDump
  <2>1. /\ now \notin DOMAIN files /\ DOMAIN files' = DOMAIN files \cup {now}
        /\ files'[now] = reply /\ (\A t \in DOMAIN files : files'[t] = files[t])
        /\ reply' = <<>> /\ records' = records
    BY <1>5 DEF SaveDump, SecondInv, server
  <2>2. ASSUME Held(r) PROVE Held(r)'
    <3>1. CASE \E t \in DOMAIN files : \E i \in DOMAIN files[t] : files[t][i] = r
      BY <2>1, <3>1 DEF Held
    <3>2. CASE \E i \in DOMAIN reply : reply[i] = r
      BY <2>1, <3>2 DEF Held
    <3>3. CASE \E i \in DOMAIN records : records[i] = r
      BY <2>1, <3>3 DEF Held
    <3> QED BY <2>2, <3>1, <3>2, <3>3 DEF Held
  <2>3. ASSUME Held(r)' PROVE Held(r)
    <3>1. CASE \E t \in DOMAIN files' : \E i \in DOMAIN files'[t] : files'[t][i] = r
      BY <2>1, <3>1 DEF Held
    <3>2. CASE \E i \in DOMAIN records : records[i] = r
      BY <3>2 DEF Held
    <3> QED BY <1>0, <2>1, <2>3, <3>1, <3>2 DEF Held
  <2> QED BY <2>2, <2>3
<1>6. CASE SkipItem \/ WriteLine \/ CheckDump \/ EndLoop \/ StopRecording
  BY <1>1, <1>6 DEF SkipItem, WriteLine, CheckDump, EndLoop, StopRecording, server
<1> QED BY <1>2, <1>3, <1>4, <1>5, <1>6, CalmSteps DEF Next

\* A chat adds its record.
LEMMA HeldChat ==
  ASSUME TypeOK, HeldInv, Chat, Next, calm'
  PROVE  /\ item \in Items /\ served' = served + 1
         /\ \E e \in Record : /\ e = [item |-> item, chat |-> served + 1]
                              /\ Held(e)' /\ \A r : Held(r) => Held(r)'
                              /\ \A r : Held(r)' => Held(r) \/ r = e
<1>1. /\ item <= NumItems /\ item \in Items /\ Serve /\ recording = TRUE /\ UNCHANGED <<files, reply>>
  BY CalmSteps, ItemRange DEF Chat, HeldInv, TypeOK
<1>2. PICK e \in Record : e = [item |-> item, chat |-> served + 1]
  BY <1>1, ServeType DEF TypeOK
<1>3. served' = served + 1 /\ records' = Append(records, e) /\ records \in Seq(Record)
  BY <1>1, <1>2, ServeType DEF TypeOK
<1>4. PICK k \in Nat : k = Len(records)
  BY <1>3
<1>5. /\ DOMAIN records = 1..k /\ DOMAIN records' = 1..(k + 1)
      /\ (\A i \in 1..k : records'[i] = records[i]) /\ records'[k + 1] = e
  BY <1>3, <1>4, AppendFacts
<1>6. /\ k + 1 \in DOMAIN records' /\ \A i \in DOMAIN records : i \in DOMAIN records'
      /\ \A i \in DOMAIN records' : i = k + 1 \/ i \in 1..k
  BY <1>5
<1>7. Held(e)'
  BY <1>5, <1>6 DEF Held
<1>8. \A r : Held(r) => Held(r)'
  BY <1>1, <1>5, <1>6 DEF Held
<1>9. \A r : Held(r)' => Held(r) \/ r = e
  BY <1>1, <1>5, <1>6 DEF Held
<1> QED BY <1>1, <1>2, <1>3, <1>7, <1>8, <1>9

\* Where the script is in a run that knows nothing, as the number of its chats.
ChatsSoFar == IF pc \in {"write", "check", "dump", "save"} /\ item <= NumItems THEN item ELSE item - 1

LEMMA StepHeld ==
  ASSUME TypeOK, PlaceInv, QuietInv, SecondInv, HeldInv, Next, calm'
  PROVE  HeldInv'
<1>0. /\ item \in Int /\ NumItems \in Int /\ served \in Nat /\ 1 \in Items
      /\ Len(output) \in Nat /\ DOMAIN output = 1..Len(output)
  BY ItemRange, CollectorAssumption DEF TypeOK, Items
<1>1. /\ \A r \in Record : Held(r) => r.item = r.chat
      /\ \A k \in 1..served : Held([item |-> k, chat |-> k])
      /\ \A k \in DOMAIN output : output[k].item = k
      /\ pc = "write" => served = Len(output) + 1
      /\ pc # "write" => served = Len(output)
      /\ Running /\ processed = {} => served = ChatsSoFar
      /\ pc \in {"loop", "write", "check", "dump", "save", "stop"} => recording
      /\ pc \in {"off", "start", "save", "stop", "done"} => records = <<>>
      /\ pc # "save" => reply = <<>>
  BY DEF HeldInv, ChatsSoFar
<1>2. pc = "write" => processed = {} /\ served = item /\ item <= NumItems
  <2>1. pc = "write" => Running /\ ~KnowsAll /\ item <= NumItems
    BY DEF Running, KnowsAll, PlaceInv
  <2> QED BY <1>1, <2>1, KnowsEither DEF KnowsNothing, ChatsSoFar
<1>3. /\ \A r \in Record : Held(r)' => r.item = r.chat
      /\ \A k \in 1..served' : Held([item |-> k, chat |-> k])'
  <2>1. CASE Chat
    <3>1. processed = {}
      <4>1. pc = "loop" /\ item \in Items /\ Hash[item] \notin processed
        BY <2>1, HeldChat DEF Chat
      <4> QED BY <4>1, KnowsEither DEF Running, KnowsNothing, KnowsAll
    <3>2. served + 1 = item
      BY <1>0, <1>1, <2>1, <3>1 DEF Chat, Running, ChatsSoFar
    <3>3. PICK e \in Record : /\ e = [item |-> item, chat |-> served + 1] /\ served' = served + 1
                              /\ Held(e)' /\ \A r : Held(r) => Held(r)'
                              /\ \A r : Held(r)' => Held(r) \/ r = e
      BY <2>1, HeldChat
    <3>4. ASSUME NEW r \in Record, Held(r)' PROVE r.item = r.chat
      BY <1>1, <3>2, <3>3, <3>4
    <3>5. ASSUME NEW k \in 1..served' PROVE Held([item |-> k, chat |-> k])'
      <4>1. k \in 1..served \/ k = served + 1
        BY <1>0, <3>3
      <4>2. CASE k \in 1..served
        BY <1>1, <3>3, <4>2
      <4>3. CASE k = served + 1
        <5>1. e = [item |-> k, chat |-> k]
          BY <3>2, <3>3, <4>3
        <5> QED BY <3>3, <5>1
      <4> QED BY <4>1, <4>2, <4>3
    <3> QED BY <3>4, <3>5
  <2>2. CASE ~Chat
    <3>1. served' = served
      BY <2>2 DEF Next, Run, StartRecording, SkipItem, WriteLine, CheckDump, EndLoop,
                DumpRequest, SaveDump, StopRecording, Crash, CrashInWrite, server
    <3> QED BY <1>1, <2>2, <3>1, HeldSame
  <2> QED BY <2>1, <2>2
<1>4. /\ \A k \in DOMAIN output' : output'[k].item = k
      /\ Len(output') = IF WriteLine THEN Len(output) + 1 ELSE Len(output)
  <2>1. CASE WriteLine
    <3> DEFINE o == output'
               n == Len(o)
    <3>1. \A i \in DOMAIN output : output[i].state = "ok"
      BY DEF QuietInv
    <3>2. item \in Items /\ output \in Seq(Line) /\ o = AppendLine("ok")
      BY <2>1, ItemRange DEF WriteLine, PlaceInv, TypeOK
    <3>3. /\ n \in Nat \ {0} /\ DOMAIN o = 1..n /\ o[n].item = item /\ n = Len(output) + 1
          /\ \A i \in 1..(n - 1) : i \in DOMAIN output /\ o[i] = output[i]
      BY <3>1, <3>2, LineAppended DEF Kept
    <3>4. n = item
      BY <1>0, <1>1, <1>2, <2>1, <3>3 DEF WriteLine
    <3> HIDE DEF o, n
    <3>5. \A i \in DOMAIN o : i = n \/ i \in 1..(n - 1)
      BY <3>3
    <3>6. \A i \in DOMAIN o : o[i].item = i
      BY <1>1, <3>3, <3>4, <3>5
    <3> QED BY <2>1, <3>3, <3>6 DEF o, n
  <2>2. CASE ~WriteLine
    BY <1>1, <2>2, CalmSteps, StepEffects
  <2> QED BY <2>1, <2>2
<1> DEFINE Rest == /\ pc' = "write" => served' = Len(output') + 1
                   /\ pc' # "write" => served' = Len(output')
                   /\ Running' /\ processed' = {} => served' = ChatsSoFar'
                   /\ pc' \in {"loop", "write", "check", "dump", "save", "stop"} => recording'
                   /\ pc' \in {"off", "start", "save", "stop", "done"} => records' = <<>>
                   /\ pc' # "save" => reply' = <<>>
<1>5. CASE Run
  <2>1. /\ pc \in {"off", "done"} /\ processed' = {Hash[i] : i \in Readable} /\ pc' = "start" /\ item' = 1
        /\ UNCHANGED <<output, records, served>> /\ reply' = <<>>
    BY <1>5 DEF Run, server
  <2>2. pc = "done" => processed' # {}
    BY <1>0, <2>1 DEF QuietInv
  <2>3. pc = "off" => served = 0
    BY <1>1 DEF QuietInv
  <2>4. ChatsSoFar' = 0
    BY <2>1 DEF ChatsSoFar
  <2>5. Rest
    BY <1>1, <2>1, <2>2, <2>3, <2>4
  <2> QED BY <1>3, <1>4, <2>5 DEF HeldInv, ChatsSoFar
<1>6. CASE StartRecording
  <2>1. /\ pc = "start" /\ pc' = "loop" /\ UNCHANGED <<item, processed, output, served, reply>>
        /\ recording' = TRUE /\ records' = <<>>
    BY <1>6, CalmSteps DEF StartRecording
  <2>2. Rest
    BY <1>1, <2>1 DEF ChatsSoFar, Running
  <2> QED BY <1>3, <1>4, <2>2 DEF HeldInv, ChatsSoFar
<1>7. CASE SkipItem
  <2>1. /\ pc = "loop" /\ pc' = "loop" /\ processed' # {} /\ UNCHANGED <<output, served, reply, recording>>
    BY <1>7 DEF SkipItem, server
  <2>2. Rest
    BY <1>1, <2>1
  <2> QED BY <1>3, <1>4, <2>2 DEF HeldInv, ChatsSoFar
<1>8. CASE Chat
  <2>1. /\ pc = "loop" /\ pc' = "write" /\ UNCHANGED <<item, processed, output, reply, recording>>
        /\ served' = served + 1 /\ item <= NumItems
    BY <1>8, CalmSteps DEF Chat, Serve
  <2>2. Rest
    BY <1>0, <1>1, <2>1 DEF ChatsSoFar, Running
  <2> QED BY <1>3, <1>4, <2>2 DEF HeldInv, ChatsSoFar
<1>9. CASE WriteLine
  <2>1. /\ pc = "write" /\ pc' = "check" /\ UNCHANGED <<item, processed, reply, recording, served>>
    BY <1>9 DEF WriteLine, server
  <2>2. Rest
    BY <1>0, <1>1, <1>2, <1>4, <1>9, <2>1 DEF ChatsSoFar, Running
  <2> QED BY <1>3, <1>4, <2>2 DEF HeldInv, ChatsSoFar
<1>10. CASE CheckDump
  <2>1. /\ pc = "check" /\ UNCHANGED <<output, processed, reply, recording, served>> /\ item <= NumItems
        /\ (pc' = "dump" /\ item' = item) \/ (pc' = "loop" /\ item' = item + 1)
    BY <1>10 DEF CheckDump, server, PlaceInv
  <2>2. ChatsSoFar = item /\ ChatsSoFar' = item /\ Running
    BY <1>0, <2>1 DEF ChatsSoFar, Running
  <2>3. Rest
    BY <1>1, <2>1, <2>2
  <2> QED BY <1>3, <1>4, <2>3 DEF HeldInv, ChatsSoFar
<1>11. CASE EndLoop
  <2>1. /\ pc = "loop" /\ pc' = "dump" /\ UNCHANGED <<item, output, processed, reply, recording, served>>
        /\ ~(item <= NumItems)
    BY <1>0, <1>11 DEF EndLoop, server
  <2>2. Rest
    BY <1>0, <1>1, <2>1 DEF ChatsSoFar, Running
  <2> QED BY <1>3, <1>4, <2>2 DEF HeldInv, ChatsSoFar
<1>12. CASE DumpRequest
  <2>1. /\ pc = "dump" /\ pc' = "save" /\ UNCHANGED <<item, output, processed, recording, served>>
        /\ records' = <<>>
    BY <1>12, CalmSteps DEF DumpRequest
  <2>2. Rest
    BY <1>0, <1>1, <2>1 DEF ChatsSoFar, Running
  <2> QED BY <1>3, <1>4, <2>2 DEF HeldInv, ChatsSoFar
<1>13. CASE SaveDump
  <2>1. /\ pc = "save" /\ UNCHANGED <<output, processed, recording, served, records>> /\ reply' = <<>>
        /\ AfterDump
    BY <1>13 DEF SaveDump, server
  <2>2. /\ item <= NumItems => pc' = "loop" /\ item' = item + 1
        /\ ~(item <= NumItems) => pc' = "stop" /\ item' = item
    BY <1>0, <2>1 DEF AfterDump
  <2>3. Running /\ ChatsSoFar' = ChatsSoFar
    BY <1>0, <2>1, <2>2 DEF ChatsSoFar, Running
  <2>4. Rest
    BY <1>1, <2>1, <2>2, <2>3
  <2> QED BY <1>3, <1>4, <2>4 DEF HeldInv, ChatsSoFar
<1>14. CASE StopRecording
  <2>1. /\ pc = "stop" /\ pc' = "done" /\ UNCHANGED <<output, served, records, reply>>
    BY <1>14 DEF StopRecording
  <2>2. Rest
    BY <1>1, <2>1 DEF Running
  <2> QED BY <1>3, <1>4, <2>2 DEF HeldInv, ChatsSoFar
<1> QED BY <1>5, <1>6, <1>7, <1>8, <1>9, <1>10, <1>11, <1>12, <1>13, <1>14, CalmSteps DEF Next

LEMMA StepCalm ==
  ASSUME OwnSeconds, TypeOK, PlaceInv, CalmInv, [Next]_vars
  PROVE  CalmInv'
<1>1. CASE UNCHANGED vars
  BY <1>1 DEF vars, script, server, CalmInv, QuietInv, SecondInv, HeldInv, Running, Readable, Passed, Held
<1>2. CASE Next /\ calm'
  <2>1. QuietInv /\ SecondInv /\ HeldInv
    BY <1>2, CalmSteps DEF CalmInv, TypeOK
  <2>2. QuietInv' /\ SecondInv' /\ HeldInv'
    BY <1>2, <2>1, StepQuiet, StepSecond, StepHeld
  <2> QED BY <2>2 DEF CalmInv
<1>3. CASE ~calm'
  BY <1>3 DEF CalmInv
<1> QED BY <1>1, <1>2, <1>3
-----------------------------------------------------------------------------
(* The theorems *)

LEMMA InitAll == Init => TypeInv /\ OnceInv /\ PassedInv /\ OrderInv /\ CalmInv
<1> SUFFICES ASSUME Init PROVE TypeInv /\ OnceInv /\ PassedInv /\ OrderInv /\ CalmInv
  OBVIOUS
<1> USE DEF Init
<1>0. DOMAIN <<>> = {} /\ <<>> \in Seq(Record) /\ <<>> \in Seq(Line) /\ Len(<<>>) = 0
  OBVIOUS
<1>1. Readable = {} /\ \A i \in Items : ~Passed(i)
  BY <1>0 DEF Readable, Passed, Items
<1>2. TypeInv
  <2>1. 1 \in 1..(NumItems + 1) /\ 0 \in 0..MaxRuns
    BY CollectorAssumption
  <2> QED BY <1>0, <2>1 DEF TypeInv, TypeOK, PlaceInv
<1>3. OnceInv
  BY <1>0 DEF OnceInv, OutputOnce, Running
<1>4. PassedInv
  BY <1>1 DEF PassedInv, Running
<1>5. OrderInv
  BY <1>0 DEF OrderInv, ServedInv, Known, LogsInServedOrder, Ascending, Before
<1>6. QuietInv /\ SecondInv
  BY <1>0 DEF QuietInv, SecondInv, Running
<1>7. HeldInv
  <2>1. \A r : ~Held(r)
    BY <1>0 DEF Held
  <2>2. \A k \in 1..served : FALSE
    OBVIOUS
  <2>3. \A k \in DOMAIN output : FALSE
    BY <1>0
  <2>4. served = IF pc = "write" THEN Len(output) + 1 ELSE Len(output)
    BY <1>0
  <2> QED BY <2>1, <2>2, <2>3, <2>4 DEF HeldInv, Running
<1> QED BY <1>2, <1>3, <1>4, <1>5, <1>6, <1>7 DEF CalmInv

\* The variables have their types, whatever goes wrong: the loop never runs past
\* the end of the data set, and no dump file is of a second to come.
THEOREM CollectorTypeCorrect == Spec => []TypeOK
<1>1. Init => TypeInv
  BY InitAll
<1>2. TypeInv /\ [Next]_vars => TypeInv'
  BY StepType
<1>3. TypeInv => TypeOK
  BY DEF TypeInv
<1> QED BY <1>1, <1>2, <1>3, PTL DEF Spec

\* Whatever crashes, tears lines or loses requests, and however often the script is
\* run: no item is answered twice in the output.  This needs nothing of the hash.
THEOREM AnsweredOnce == Spec => []OutputOnce
<1>1. Init => TypeInv /\ OnceInv
  BY InitAll
<1>2. TypeInv /\ OnceInv /\ [Next]_vars => (TypeInv /\ OnceInv)'
  BY StepType, StepOnce DEF TypeInv
<1>3. OnceInv => OutputOnce
  BY DEF OnceInv
<1> QED BY <1>1, <1>2, <1>3, PTL DEF Spec

\* If the first messages of the items differ, a run that gets to its end has left
\* out no item without a trace.
THEOREM AllItemsAccounted == ASSUME Injective PROVE Spec => []Completed
<1>1. Init => TypeInv /\ PassedInv
  BY InitAll
<1>2. TypeInv /\ PassedInv /\ [Next]_vars => (TypeInv /\ PassedInv)'
  BY StepType, StepPassed DEF TypeInv
<1>3. TypeInv /\ PassedInv => Completed
  <2> SUFFICES ASSUME TypeInv, PassedInv, pc = "done", NEW i \in Items
               PROVE  i \in Readable \cup failed \cup Garbled
    BY DEF Completed
  <2>1. Passed(i)
    BY CollectorAssumption DEF TypeInv, PlaceInv, Passed, Items
  <2>2. Merged \subseteq Garbled
    BY DEF Merged, Garbled, Whole
  <2> QED BY <2>1, <2>2 DEF PassedInv
<1> QED BY <1>1, <1>2, <1>3, PTL DEF Spec

\* The dump files, the dump under way and the server hold the records in the order
\* of the chats, and none twice, whatever was lost, repeated or overwritten.
THEOREM RecordsStayInOrder == Spec => []LogsInServedOrder
<1>1. Init => TypeInv /\ OrderInv
  BY InitAll
<1>2. TypeInv /\ OrderInv /\ [Next]_vars => (TypeInv /\ OrderInv)'
  BY StepType, StepOrder DEF TypeInv
<1>3. OrderInv => LogsInServedOrder
  BY DEF OrderInv
<1> QED BY <1>1, <1>2, <1>3, PTL DEF Spec

\* If the last item is not one that is followed by a periodic dump, and a chat takes
\* a second at least, then at the end of a quiet run the k-th chat has its record
\* on disk and is that of the k-th line.
THEOREM LogsMatchTheOutput == ASSUME OwnSeconds PROVE Spec => []LogsMatchOutput
<1>1. Init => TypeInv /\ OrderInv /\ CalmInv
  BY InitAll
<1>2. TypeInv /\ OrderInv /\ CalmInv /\ [Next]_vars => (TypeInv /\ OrderInv /\ CalmInv)'
  BY StepType, StepOrder, StepCalm DEF TypeInv
<1>3. TypeInv /\ OrderInv /\ CalmInv => LogsMatchOutput
  <2> SUFFICES ASSUME TypeOK, ServedInv, HeldInv, pc = "done"
               PROVE  /\ \A k \in DOMAIN output : \E t \in DOMAIN files : \E i \in DOMAIN files[t] :
                           files[t][i] = [item |-> output[k].item, chat |-> k]
                      /\ \A t \in DOMAIN files : \A i \in DOMAIN files[t] :
                           /\ files[t][i].chat \in DOMAIN output
                           /\ output[files[t][i].chat].item = files[t][i].item
    BY DEF TypeInv, OrderInv, CalmInv, LogsMatchOutput
  <2>1. /\ served = Len(output) /\ DOMAIN output = 1..served /\ served \in Nat
        /\ records = <<>> /\ reply = <<>> /\ DOMAIN <<>> = {}
    BY DEF HeldInv, TypeOK
  <2>2. ASSUME NEW k \in DOMAIN output
        PROVE  \E t \in DOMAIN files : \E i \in DOMAIN files[t] :
                 files[t][i] = [item |-> output[k].item, chat |-> k]
    <3>1. Held([item |-> k, chat |-> k]) /\ output[k].item = k
      BY <2>1 DEF HeldInv
    <3> QED BY <2>1, <3>1 DEF Held
  <2>3. ASSUME NEW t \in DOMAIN files, NEW i \in DOMAIN files[t]
        PROVE  /\ files[t][i].chat \in DOMAIN output
               /\ output[files[t][i].chat].item = files[t][i].item
    <3>1. PICK r \in Record : r = files[t][i]
      BY ChatNumbers DEF TypeOK
    <3>2. Held(r) /\ r.chat <= served
      BY <3>1 DEF Held, ServedInv, Known
    <3>3. r.item = r.chat /\ r.item \in Items
      BY <3>2 DEF HeldInv, Record
    <3>4. r.chat \in 1..served
      BY <2>1, <3>2, <3>3, CollectorAssumption DEF Items
    <3> QED BY <2>1, <3>1, <3>3, <3>4 DEF HeldInv
  <2> QED BY <2>2, <2>3
<1> QED BY <1>1, <1>2, <1>3, PTL DEF Spec

\* Under the same conditions no step overwrites a dump that is on disk.
THEOREM DumpsAreKept == ASSUME OwnSeconds PROVE Spec => FilesKept
<1> DEFINE J == TypeInv /\ CalmInv
           A == calm' => \A t \in DOMAIN files : t \in DOMAIN files' /\ files'[t] = files[t]
<1>1. Init => J
  BY InitAll
<1>2. J /\ [Next]_vars => J'
  BY StepType, StepCalm DEF TypeInv
<1>3. J /\ [Next]_vars => [A]_vars
  <2> SUFFICES ASSUME J, Next, calm' PROVE A
    OBVIOUS
  <2>1. CASE SaveDump
    <3>1. now \notin DOMAIN files
      BY <2>1, CalmSteps DEF SaveDump, CalmInv, SecondInv, TypeInv, TypeOK
    <3> QED BY <2>1, <3>1 DEF SaveDump
  <2>2. CASE UNCHANGED files
    BY <2>2
  <2>3. SaveDump \/ UNCHANGED files
    BY DEF Next, Run, StartRecording, SkipItem, Chat, WriteLine, CheckDump, EndLoop,
           DumpRequest, StopRecording, Crash, CrashInWrite
  <2> QED BY <2>1, <2>2, <2>3
<1> QED BY <1>1, <1>2, <1>3, PTL DEF Spec, FilesKept
=============================================================================
