-------------------------- MODULE AlignmentProofs --------------------------
(***************************************************************************)
(* The event loops lose no request, keep to max_running_requests, give     *)
(* every token its own context and add nothing to an answer that is        *)
(* final, for any requests, chunk size and number of places, whatever      *)
(* clients send and abort and whenever memory runs out, in both loops.     *)
(* For the collector the records are counted, and joined to the tokens.    *)
(*                                                                         *)
(* The argument goes by the queue of results.  It never holds more than    *)
(* the batch before (Awaited) and the batch just launched (Launched), so   *)
(* that what a request is owed can be counted: is_chunked is the number of *)
(* these that end inside its prompt, and its last pass has seen as many    *)
(* tokens as it has, but one, and those that the two will still give.      *)
(*                                                                         *)
(* With one request at a time the same two batches count its records: it   *)
(* has one for each pass of its prompt that is behind it, one for each     *)
(* token, and those that the two will still give (PassInv).  In the normal *)
(* loop this is an order as well, record by record (FitInv).  The script is *)
(* followed with the records of the files that it has read (ScriptInv).    *)
(***************************************************************************)
EXTENDS Alignment, FiniteSetTheorems, SequenceTheorems, NaturalsInduction, WellFoundedInduction, TLAPS

\* The batch whose result is one iteration late.
Awaited == IF loop = "overlap" THEN last ELSE None

\* The batch of this iteration, once it runs.
Launched == IF pc = "process" THEN cur ELSE None

\* The batch that was launched last.
Recent == IF pc = "process" THEN cur ELSE last

\* The requests that batch b has brought from the waiting queue.
HeldOf(b) == IF b # None /\ b.mode = "extend" THEN b.reqs ELSE {}

\* The requests that are neither waiting nor in the running batch.
Joining ==
  IF pc \in {"top", "process"} THEN HeldOf(Recent)
  ELSE IF pc \in {"add", "launch"} THEN can_run \ Range(waiting)
  ELSE {chunked} \ {None}

\* How many tokens the result of b has for request r.
Gives(b, r) == IF b # None /\ r \in b.reqs /\ r # b.chunked THEN 1 ELSE 0

\* How many passes of r that end inside the prompt are in b.
Cuts(b, r) == IF b # None /\ r = b.chunked THEN 1 ELSE 0

\* The queue of one result, or of none.
InQueue(b) == IF b = None THEN <<>> ELSE <<b>>

\* The queue holds the result that is late, and that of this iteration.
QueueInv == results = InQueue(Awaited) \o InQueue(Launched)

\* The adder has taken the first requests of the queue, and the one that is being
\* chunked if there is one; it comes to the end of its loop with a request.
AdderInv ==
  /\ pc \notin {"add", "launch"} => can_run = {}
  /\ pc = "add" => next \in 1..Len(waiting)
  /\ pc = "launch" => next \in 1..(Len(waiting) + 1) /\ can_run # {}
  /\ pc = "add" /\ can_run = {} => ~full /\ ~NoPlace({}) /\ rem > 0
  /\ pc \in {"add", "launch"} =>
       /\ \A i \in DOMAIN waiting : waiting[i] \in can_run <=> i < next
       /\ chunked # None => chunked \in can_run /\ rem = 0
       /\ \A r \in can_run : status[r] = "live" /\ r \notin running
       /\ last # None => can_run \cap last.reqs \subseteq {last.chunked}

\* A request is waiting, or in the running batch, or about to join it.
PlaceInv ==
  /\ IsInjective(waiting)
  /\ Range(waiting) \cap (running \cup Joining) = {}
  /\ \A r \in Range(waiting) : status[r] = "live"
  /\ \A r \in running \cup Joining : status[r] \in {"live", "finished"}
  /\ Live \subseteq Range(waiting) \cup running \cup Joining
  /\ running \cap Joining = {}

\* The requests of the batches are not in the waiting queue, but for those that have
\* just been retracted; the batch just launched has none that is finished.
BatchInv ==
  /\ \A r \in running : ~retracted[r]
  /\ last # None => \A r \in last.reqs :
       /\ status[r] \in {"live", "finished"}
       /\ pc # "process" => r \notin Range(waiting) /\ ~retracted[r]
       /\ r \in Range(waiting) => retracted[r]
  /\ Launched # None => \A r \in Launched.reqs :
       r \notin Range(waiting) /\ status[r] = "live" /\ ~retracted[r]
  /\ Launched # None /\ last # None /\ Launched.mode = "extend" =>
       Launched.reqs \cap last.reqs \subseteq {last.chunked}

\* The request that is being chunked is that of the batch launched last, and stays
\* out of the running batch until its prompt is done.
ChunkInv ==
  /\ chunked # None => status[chunked] = "live"
  /\ pc \notin {"add", "launch"} =>
       /\ Recent # None => Recent.chunked = chunked
       /\ chunked # None => chunked \in HeldOf(Recent)
  /\ pc = "decode" => chunked = None
  /\ last # None => /\ last.chunked \notin running
                    /\ last.chunked # None => /\ last.chunked \in HeldOf(last)
                                              /\ loop = "overlap" => status[last.chunked] = "live" /\ ~retracted[last.chunked]

\* is_chunked counts the results in the queue that are no tokens.
CountInv == \A r \in Reqs : is_chunked[r] = Cuts(Awaited, r) + Cuts(Launched, r)

\* The requests that are through with their prompts.
Decoding == running \cup (IF pc \in {"top", "process"} THEN HeldOf(Recent) \ {chunked} ELSE {})

\* What the passes of a request have seen, and what its results will say.
SeenInv ==
  /\ \A r \in Decoding : status[r] = "live" =>
       seen[r] = Len(tokens[r]) - 1 + Gives(Awaited, r) + Gives(Launched, r)
  /\ Awaited # None => \A r \in Awaited.reqs :
       status[r] = "live" /\ ~retracted[r] /\ r # Awaited.chunked => Awaited.seen[r] = Len(tokens[r])
  /\ Launched # None => \A r \in Launched.reqs :
       r # Launched.chunked => Launched.seen[r] = Len(tokens[r]) + Gives(Awaited, r)

\* The places that are taken.
Placed == running \cup (IF pc \in {"add", "launch"} THEN can_run ELSE Joining)

\* No more places are taken than there are.
CapacityInv == IsFiniteSet(Placed) /\ Cardinality(Placed) <= MaxRunning

\* The inductive invariant.
LoopInv ==
  /\ SchedulerTypeOK /\ QueueInv /\ AdderInv /\ PlaceInv /\ BatchInv /\ ChunkInv /\ CountInv
  /\ SeenInv /\ TokensInContext /\ CapacityInv
-----------------------------------------------------------------------------
(* Sequences and batches *)

\* The first result of the queue, the rest of it, and one more.
LEMMA QueueFacts ==
  ASSUME NEW b, NEW c
  PROVE  /\ b # None => /\ Head(InQueue(b) \o InQueue(c)) = b
                        /\ Tail(InQueue(b) \o InQueue(c)) = InQueue(c)
         /\ b = None => InQueue(b) \o InQueue(c) = InQueue(c)
         /\ c = None => InQueue(b) \o InQueue(c) = InQueue(b)
         /\ c # None => Append(InQueue(b), c) = InQueue(b) \o InQueue(c)
         /\ Range(InQueue(b) \o InQueue(c)) \subseteq {b, c} \ {None}
<1> DEFINE S == {b, c}
<1>0. b \in S /\ c \in S
  OBVIOUS
<1> HIDE DEF S
<1>a. <<b>> \in Seq(S) /\ <<c>> \in Seq(S) /\ <<>> \in Seq(S)
  BY <1>0
<1>1. InQueue(b) \in Seq(S) /\ InQueue(c) \in Seq(S)
  BY <1>a DEF InQueue
<1>2. CASE b # None
  <2>1. InQueue(b) = <<b>>
    BY <1>2 DEF InQueue
  <2>2. Head(<<b>> \o InQueue(c)) = b /\ Tail(<<b>> \o InQueue(c)) = InQueue(c)
    <3>1. CASE c = None
      BY <3>1 DEF InQueue
    <3>2. CASE c # None
      <4>a. Append(<<b>>, c) = <<b>> \o <<c>>
        BY <1>0, <1>a, AppendIsConcat
      <4>b. Head(<<b>>) = b /\ Tail(<<b>>) = <<>> /\ Append(<<>>, c) = <<c>> /\ <<b>> # <<>>
        OBVIOUS
      <4>1. Head(Append(<<b>>, c)) = b /\ Tail(Append(<<b>>, c)) = <<c>>
        BY <1>0, <1>a, <4>b, HeadTailAppend
      <4> QED BY <3>2, <4>a, <4>1 DEF InQueue
    <3> QED BY <3>1, <3>2
  <2>3. c = None => <<b>> \o InQueue(c) = <<b>>
    BY DEF InQueue
  <2>4. c # None => Append(<<b>>, c) = <<b>> \o InQueue(c)
    BY DEF InQueue
  <2>5. Range(InQueue(c)) \subseteq {c} \ {None} /\ Range(<<b>>) = {b}
    BY DEF InQueue, Range
  <2>6. Range(<<b>> \o InQueue(c)) = Range(<<b>>) \cup Range(InQueue(c))
    BY <1>1, <1>a, RangeConcatenation
  <2>7. Range(<<b>> \o InQueue(c)) \subseteq {b, c} \ {None}
    BY <1>2, <2>5, <2>6
  <2> QED BY <1>2, <2>1, <2>2, <2>3, <2>4, <2>7
<1>3. CASE b = None
  <2>1. InQueue(b) = <<>>
    BY <1>3 DEF InQueue
  <2>2. <<>> \o InQueue(c) = InQueue(c)
    BY <1>1, ConcatEmptySeq
  <2>3. c # None => Append(<<>>, c) = <<c>> /\ InQueue(c) = <<c>>
    BY DEF InQueue
  <2>4. c = None => InQueue(c) = <<>>
    BY DEF InQueue
  <2>5. Range(InQueue(c)) \subseteq {c} \ {None}
    BY DEF InQueue, Range
  <2> QED BY <1>3, <2>1, <2>2, <2>3, <2>4, <2>5
<1> QED BY <1>2, <1>3

\* The parts of a batch.
LEMMA BatchFacts ==
  ASSUME SchedulerTypeOK, NEW b \in {last, cur}, b # None
  PROVE  /\ b.reqs \subseteq Reqs /\ b.reqs # {}
         /\ b.mode \in {"extend", "decode"} /\ b.chunked \in Reqs \cup {None}
         /\ b.seen \in [b.reqs -> Nat \cup {Partial}]
<1>1. b.reqs \in (SUBSET Reqs) \ {{}} /\ b \in Batch(b.reqs)
  BY DEF SchedulerTypeOK
<1> QED BY <1>1 DEF Batch

\* waiting_queue.append: a new request.
LEMMA AppendOne ==
  ASSUME NEW S, NEW s \in Seq(S), NEW e \in S, IsInjective(s), e \notin Range(s)
  PROVE  /\ Append(s, e) \in Seq(S) /\ IsInjective(Append(s, e))
         /\ Range(Append(s, e)) = Range(s) \cup {e}
<1>1. /\ Append(s, e) \in Seq(S) /\ Len(s) \in Nat
      /\ DOMAIN Append(s, e) = 1..(Len(s) + 1) /\ DOMAIN s = 1..Len(s)
      /\ \A i \in 1..Len(s) : Append(s, e)[i] = s[i]
      /\ Append(s, e)[Len(s) + 1] = e
  OBVIOUS
<1>2. \A i \in 1..(Len(s) + 1) : i \in 1..Len(s) \/ i = Len(s) + 1
  BY <1>1
<1>3. IsInjective(Append(s, e))
  BY <1>1, <1>2 DEF IsInjective, Range
<1>4. Range(Append(s, e)) = Range(s) \cup {e}
  BY <1>1, <1>2 DEF Range
<1> QED BY <1>1, <1>3, <1>4

\* The retracted requests behind the waiting ones.
LEMMA ConcatDisjoint ==
  ASSUME NEW S, NEW s \in Seq(S), NEW t \in Seq(S), IsInjective(s), IsInjective(t),
         Range(s) \cap Range(t) = {}
  PROVE  /\ s \o t \in Seq(S) /\ IsInjective(s \o t)
         /\ Range(s \o t) = Range(s) \cup Range(t)
<1>1. /\ s \o t \in Seq(S) /\ Len(s) \in Nat /\ Len(t) \in Nat
      /\ DOMAIN (s \o t) = 1..(Len(s) + Len(t)) /\ DOMAIN s = 1..Len(s) /\ DOMAIN t = 1..Len(t)
      /\ \A i \in 1..Len(s) : (s \o t)[i] = s[i]
      /\ \A i \in (Len(s) + 1)..(Len(s) + Len(t)) : (s \o t)[i] = t[i - Len(s)]
  OBVIOUS
<1>2. \A i \in 1..(Len(s) + Len(t)) :
        i \in 1..Len(s) \/ (i \in (Len(s) + 1)..(Len(s) + Len(t)) /\ i - Len(s) \in 1..Len(t))
  BY <1>1
<1>a. \A i \in 1..Len(s), k \in 1..Len(t) : s[i] # t[k]
  BY <1>1 DEF Range
<1>3. IsInjective(s \o t)
  <2>1. SUFFICES ASSUME NEW i \in 1..(Len(s) + Len(t)), NEW k \in 1..(Len(s) + Len(t)), (s \o t)[i] = (s \o t)[k]
                 PROVE  i = k
    BY <1>1 DEF IsInjective
  <2>2. CASE i \in 1..Len(s) /\ k \in 1..Len(s)
    BY <1>1, <2>1, <2>2 DEF IsInjective
  <2>3. CASE i \notin 1..Len(s) /\ k \notin 1..Len(s)
    BY <1>1, <1>2, <2>1, <2>3 DEF IsInjective
  <2>4. CASE i \in 1..Len(s) /\ k \notin 1..Len(s)
    BY <1>1, <1>2, <1>a, <2>1, <2>4
  <2>5. CASE i \notin 1..Len(s) /\ k \in 1..Len(s)
    BY <1>1, <1>2, <1>a, <2>1, <2>5
  <2> QED BY <2>2, <2>3, <2>4, <2>5
<1> QED BY <1>1, <1>3, RangeConcatenation

\* waiting_queue.pop: an aborted request.
LEMMA RemoveOne ==
  ASSUME NEW S, NEW s \in Seq(S), NEW i \in DOMAIN s, IsInjective(s)
  PROVE  /\ RemoveAt(s, i) \in Seq(S) /\ IsInjective(RemoveAt(s, i))
         /\ Range(RemoveAt(s, i)) = Range(s) \ {s[i]}
<1> DEFINE t == SubSeq(s, 1, i - 1)
           u == SubSeq(s, i + 1, Len(s))
<1>1. Len(s) \in Nat /\ DOMAIN s = 1..Len(s) /\ i \in 1..Len(s)
  OBVIOUS
<1>2. /\ t \in Seq(S) /\ Len(t) = i - 1 /\ DOMAIN t = 1..(i - 1)
      /\ \A k \in 1..(i - 1) : t[k] = s[k]
  BY <1>1
<1>3. /\ u \in Seq(S) /\ Len(u) = Len(s) - i /\ DOMAIN u = 1..(Len(s) - i)
      /\ \A k \in 1..(Len(s) - i) : u[k] = s[i + k]
  BY <1>1
<1> HIDE DEF t, u
<1>a. \A k, m \in 1..Len(s) : s[k] = s[m] => k = m
  BY <1>1 DEF IsInjective
<1>b. /\ \A k \in 1..(i - 1) : k \in 1..Len(s) /\ k # i
      /\ \A k \in 1..(Len(s) - i) : i + k \in 1..Len(s) /\ i + k # i
      /\ \A k \in 1..(i - 1), m \in 1..(Len(s) - i) : k # i + m
  BY <1>1
<1>4. IsInjective(t)
  BY <1>2, <1>a, <1>b DEF IsInjective
<1>c. IsInjective(u)
  <2>1. SUFFICES ASSUME NEW k \in 1..(Len(s) - i), NEW m \in 1..(Len(s) - i), u[k] = u[m]
                 PROVE  k = m
    BY <1>3 DEF IsInjective
  <2>2. i + k = i + m
    BY <1>3, <1>a, <1>b, <2>1
  <2> QED BY <1>1, <2>2
<1>d. \A k \in 1..(i - 1), m \in 1..(Len(s) - i) : t[k] # u[m]
  BY <1>2, <1>3, <1>a, <1>b
<1>e. Range(t) \cap Range(u) = {}
  BY <1>2, <1>3, <1>d DEF Range
<1>5. Range(t) \cup Range(u) \subseteq Range(s) \ {s[i]}
  <2>1. \A k \in 1..(i - 1) : t[k] \in Range(s) /\ t[k] # s[i]
    BY <1>1, <1>2, <1>a, <1>b DEF Range
  <2>2. \A k \in 1..(Len(s) - i) : u[k] \in Range(s) /\ u[k] # s[i]
    BY <1>1, <1>3, <1>a, <1>b DEF Range
  <2> QED BY <1>2, <1>3, <2>1, <2>2 DEF Range
<1>6. \A k \in 1..Len(s) : k \in 1..(i - 1) \/ k = i \/ (k - i \in 1..(Len(s) - i) /\ i + (k - i) = k)
  BY <1>1
<1>7. Range(s) \ {s[i]} \subseteq Range(t) \cup Range(u)
  BY <1>1, <1>2, <1>3, <1>6 DEF Range
<1>8. RemoveAt(s, i) = t \o u
  BY DEF RemoveAt, t, u
<1> QED BY <1>2, <1>3, <1>4, <1>5, <1>7, <1>8, <1>c, <1>e, ConcatDisjoint

\* The waiting queue without its first requests.
LEMMA SuffixOf ==
  ASSUME NEW S, NEW s \in Seq(S), NEW i \in 1..(Len(s) + 1), IsInjective(s)
  PROVE  /\ SubSeq(s, i, Len(s)) \in Seq(S) /\ IsInjective(SubSeq(s, i, Len(s)))
         /\ Range(SubSeq(s, i, Len(s))) = {s[k] : k \in {x \in DOMAIN s : x >= i}}
<1> DEFINE u == SubSeq(s, i, Len(s))
<1>1. Len(s) \in Nat /\ DOMAIN s = 1..Len(s)
  OBVIOUS
<1>2. /\ u \in Seq(S) /\ DOMAIN u = 1..(Len(s) - i + 1)
      /\ \A k \in 1..(Len(s) - i + 1) : u[k] = s[i + k - 1]
  BY <1>1
<1> HIDE DEF u
<1>3. \A k \in 1..(Len(s) - i + 1) : i + k - 1 \in DOMAIN s /\ i + k - 1 >= i
  BY <1>1
<1>4. \A k \in DOMAIN s : k >= i => k - i + 1 \in 1..(Len(s) - i + 1) /\ i + (k - i + 1) - 1 = k
  BY <1>1
<1>5. IsInjective(u)
  <2>1. SUFFICES ASSUME NEW k \in 1..(Len(s) - i + 1), NEW m \in 1..(Len(s) - i + 1), u[k] = u[m]
                 PROVE  k = m
    BY <1>2 DEF IsInjective
  <2>2. i + k - 1 = i + m - 1
    BY <1>2, <1>3, <2>1 DEF IsInjective
  <2> QED BY <1>1, <2>2
<1>6. Range(u) = {s[k] : k \in {x \in DOMAIN s : x >= i}}
  <2>1. ASSUME NEW e \in Range(u) PROVE e \in {s[k] : k \in {x \in DOMAIN s : x >= i}}
    <3>1. PICK k \in 1..(Len(s) - i + 1) : e = u[k]
      BY <1>2 DEF Range
    <3> QED BY <1>2, <1>3, <3>1
  <2>2. ASSUME NEW k \in DOMAIN s, k >= i PROVE s[k] \in Range(u)
    BY <1>2, <1>4, <2>2 DEF Range
  <2> QED BY <2>1, <2>2
<1> QED BY <1>2, <1>5, <1>6 DEF u
-----------------------------------------------------------------------------
(* Messages *)

\* handle_generate_request: the new request is in no batch.
LEMMA SubmitStep ==
  ASSUME LoopInv, NEW r \in Reqs, Submit(r)
  PROVE  LoopInv'
<1> USE DEF LoopInv
<1>1. /\ pc = "top" /\ pc' = "top" /\ status[r] = "new"
      /\ status' = [status EXCEPT ![r] = "live"] /\ waiting' = Append(waiting, r)
      /\ UNCHANGED <<loop, client, running, full, chunked, last, cur, results, can_run, rem, next,
                     todo, seen, is_chunked, retracted, to_finish, tokens, retracts, aborts>>
  BY DEF Submit, config, adder, bounds
<1>2. \A x \in Reqs : status'[x] = IF x = r THEN "live" ELSE status[x]
  BY <1>1 DEF SchedulerTypeOK
<1>3. r \notin Range(waiting) /\ r \notin running \cup Joining /\ Range(waiting) \subseteq Reqs
  BY <1>1, RangeOfSeq DEF PlaceInv, SchedulerTypeOK
<1>4. /\ waiting' \in Seq(Reqs) /\ IsInjective(waiting') /\ Range(waiting)' = Range(waiting) \cup {r}
  BY <1>1, <1>3, AppendOne DEF SchedulerTypeOK, PlaceInv
<1>5. UNCHANGED <<Awaited, Launched, Recent, HeldOf(Recent), HeldOf(last), Joining, Decoding, Placed>>
  BY <1>1 DEF Awaited, Launched, Recent, HeldOf, Joining, Decoding, Placed
<1>6. SchedulerTypeOK'
  BY <1>1, <1>2, <1>4 DEF SchedulerTypeOK
<1>7. QueueInv' /\ AdderInv'
  BY <1>1, <1>5 DEF QueueInv, AdderInv, InQueue
<1>8. Joining \subseteq Reqs /\ running \subseteq Reqs
  BY <1>1, BatchFacts DEF SchedulerTypeOK, Joining, HeldOf, Recent
<1>9. PlaceInv'
  BY <1>2, <1>3, <1>4, <1>5, <1>8, <1>1 DEF PlaceInv, Live
<1>10. last # None => last.reqs \subseteq Reqs /\ r \notin last.reqs
  BY <1>1, BatchFacts DEF BatchInv
<1>11. BatchInv'
  BY <1>1, <1>2, <1>4, <1>5, <1>10 DEF BatchInv, Launched
<1>12. ChunkInv'
  BY <1>1, <1>2, <1>5 DEF ChunkInv, SchedulerTypeOK
<1>13. CountInv' /\ TokensInContext' /\ CapacityInv'
  BY <1>1, <1>5 DEF CountInv, TokensInContext, CapacityInv, Cuts
<1>14. r \notin Decoding /\ Decoding \subseteq Reqs
  BY <1>1, <1>3, <1>8 DEF Decoding, Joining
<1>15. SeenInv'
  BY <1>1, <1>2, <1>5, <1>10, <1>14 DEF SeenInv, Gives, Awaited, Launched
<1> QED BY <1>6, <1>7, <1>9, <1>11, <1>12, <1>13, <1>15

\* abort_request: a waiting request is in no batch.
LEMMA AbortStep ==
  ASSUME LoopInv, NEW r \in Reqs, Abort(r)
  PROVE  LoopInv'
<1> USE DEF LoopInv
<1>1. /\ pc = "top" /\ pc' = "top" /\ r \in Live
      /\ aborts' = aborts + 1 /\ to_finish' \in [Reqs -> BOOLEAN]
      /\ UNCHANGED <<loop, client, running, full, chunked, last, cur, results, can_run, rem, next,
                     todo, seen, is_chunked, retracted, tokens, retracts>>
  <2>1. to_finish \in [Reqs -> BOOLEAN]
    BY DEF SchedulerTypeOK
  <2>2. to_finish' = [to_finish EXCEPT ![r] = @ \/ r \in running \/ (last # None /\ r \in last.reqs)]
    BY DEF Abort
  <2>3. to_finish' \in [Reqs -> BOOLEAN]
    BY <2>1, <2>2
  <2> QED BY <2>3 DEF Abort, config, adder
<1>2. CASE UNCHANGED <<waiting, status>>
  <2>1. UNCHANGED <<Awaited, Launched, Recent, HeldOf(Recent), HeldOf(last), Joining, Decoding, Placed>>
    BY <1>1, <1>2 DEF Awaited, Launched, Recent, HeldOf, Joining, Decoding, Placed
  <2>2. SchedulerTypeOK'
    BY <1>1, <1>2 DEF SchedulerTypeOK
  <2>3. QueueInv' /\ AdderInv' /\ PlaceInv'
    BY <1>1, <1>2, <2>1 DEF QueueInv, AdderInv, PlaceInv, InQueue, Live
  <2>4. BatchInv' /\ ChunkInv' /\ CountInv' /\ TokensInContext' /\ CapacityInv'
    BY <1>1, <1>2, <2>1 DEF BatchInv, ChunkInv, CountInv, TokensInContext, CapacityInv, Cuts
  <2>5. SeenInv'
    BY <1>1, <1>2, <2>1 DEF SeenInv, Gives
  <2> QED BY <2>2, <2>3, <2>4, <2>5
<1>3. CASE \E i \in DOMAIN waiting : /\ waiting[i] = r /\ waiting' = RemoveAt(waiting, i)
                                     /\ status' = [status EXCEPT ![r] = "dropped"]
  <2>1. PICK i \in DOMAIN waiting : /\ waiting[i] = r /\ waiting' = RemoveAt(waiting, i)
                                    /\ status' = [status EXCEPT ![r] = "dropped"]
    BY <1>3
  <2>2. waiting' \in Seq(Reqs) /\ IsInjective(waiting') /\ Range(waiting)' = Range(waiting) \ {r}
    BY <2>1, RemoveOne DEF SchedulerTypeOK, PlaceInv
  <2>3. r \in Range(waiting)
    BY <2>1 DEF Range
  <2>4. \A x \in Reqs : status'[x] = IF x = r THEN "dropped" ELSE status[x]
    BY <2>1 DEF SchedulerTypeOK
  <2>5. UNCHANGED <<Awaited, Launched, Recent, HeldOf(Recent), HeldOf(last), Joining, Decoding, Placed>>
    BY <1>1 DEF Awaited, Launched, Recent, HeldOf, Joining, Decoding, Placed
  <2>a. status' \in [Reqs -> {"new", "live", "finished", "dropped"}] /\ aborts' \in Nat
    <3>1. status \in [Reqs -> {"new", "live", "finished", "dropped"}] /\ aborts \in Nat
      BY DEF SchedulerTypeOK
    <3> QED BY <1>1, <2>1, <3>1
  <2>6. SchedulerTypeOK'
    BY <1>1, <2>2, <2>a DEF SchedulerTypeOK
  <2>7. QueueInv' /\ AdderInv'
    BY <1>1, <2>5 DEF QueueInv, AdderInv, InQueue
  <2>8. Joining \subseteq Reqs /\ running \subseteq Reqs /\ Range(waiting) \subseteq Reqs
    BY <1>1, BatchFacts, RangeOfSeq DEF SchedulerTypeOK, Joining, HeldOf, Recent
  <2>9. PlaceInv'
    BY <2>2, <2>3, <2>4, <2>5, <2>8, <1>1 DEF PlaceInv, Live
  <2>10. last # None => last.reqs \subseteq Reqs /\ r \notin last.reqs
    BY <1>1, <2>3, BatchFacts DEF BatchInv
  <2>11. BatchInv'
    BY <1>1, <2>2, <2>4, <2>5, <2>10 DEF BatchInv, Launched
  <2>12. r # chunked
    BY <1>1, <2>3, SchedulerAssumption DEF ChunkInv, PlaceInv, Joining
  <2>13. ChunkInv'
    BY <1>1, <2>4, <2>5, <2>10, <2>12 DEF ChunkInv, SchedulerTypeOK, HeldOf
  <2>14. CountInv' /\ TokensInContext' /\ CapacityInv'
    BY <1>1, <2>5 DEF CountInv, TokensInContext, CapacityInv, Cuts
  <2>15. r \notin Decoding /\ Decoding \subseteq Reqs
    BY <1>1, <2>3, <2>8 DEF Decoding, Joining, PlaceInv
  <2>16. SeenInv'
    BY <1>1, <2>4, <2>5, <2>10, <2>15 DEF SeenInv, Gives, Awaited, Launched
  <2> QED BY <2>6, <2>7, <2>9, <2>11, <2>13, <2>14, <2>16
<1> QED BY <1>2, <1>3 DEF Abort
-----------------------------------------------------------------------------
(* The prefill batch *)

\* The last prefill batch joins the running one.
LEMMA MergeStep ==
  ASSUME LoopInv, Merge
  PROVE  LoopInv'
<1> USE DEF LoopInv
<1>1. /\ pc = "top" /\ pc' = "prefill"
      /\ UNCHANGED <<loop, client, waiting, chunked, last, cur, results, can_run, rem, next, todo,
                     seen, is_chunked, retracted, to_finish, tokens, status, retracts, aborts>>
  BY DEF Merge, config, adder, requests, bounds
<1>2. running' = running \cup (Unfinished(HeldOf(last)) \ {chunked}) /\ full' \in BOOLEAN
  <2>1. CASE last # None /\ last.mode = "extend"
    <3>1. last.chunked = chunked
      BY <1>1, <2>1 DEF ChunkInv, Recent
    <3> QED BY <2>1, <3>1 DEF Merge, HeldOf, SchedulerTypeOK
  <2>2. CASE ~(last # None /\ last.mode = "extend")
    BY <2>2 DEF Merge, HeldOf, Unfinished, SchedulerTypeOK
  <2> QED BY <2>1, <2>2
<1>3. /\ Joining = HeldOf(last) /\ Joining' = {chunked} \ {None}
      /\ UNCHANGED <<Awaited, HeldOf(last)>> /\ Launched = None /\ Launched' = None
      /\ Recent = last /\ Recent' = last
      /\ Decoding = running \cup (HeldOf(last) \ {chunked}) /\ Decoding' = running'
      /\ Placed = running \cup HeldOf(last) /\ Placed' = running' \cup ({chunked} \ {None})
  BY <1>1 DEF Awaited, Launched, Recent, HeldOf, Joining, Decoding, Placed
<1>4. HeldOf(last) \subseteq Reqs /\ Unfinished(HeldOf(last)) \subseteq HeldOf(last)
  BY BatchFacts DEF HeldOf, Unfinished
<1>5. chunked # None => chunked \in HeldOf(last)
  BY <1>1, <1>3 DEF ChunkInv
<1>6. SchedulerTypeOK'
  BY <1>1, <1>2, <1>4 DEF SchedulerTypeOK
<1>7. QueueInv' /\ AdderInv' /\ CountInv' /\ TokensInContext'
  BY <1>1, <1>3 DEF QueueInv, AdderInv, InQueue, CountInv, TokensInContext, Cuts
<1>8. PlaceInv'
  <2>1. running' \cup Joining' \subseteq running \cup Joining
    BY <1>2, <1>3, <1>4, <1>5
  <2>2. \A x \in Live : x \in Joining => x \in running' \cup Joining'
    <3>1. SUFFICES ASSUME NEW x \in Live, x \in HeldOf(last) PROVE x \in running' \cup Joining'
      BY <1>3
    <3>2. x \in Reqs /\ x # None /\ status[x] # "finished"
      BY SchedulerAssumption DEF Live
    <3>3. x \in Unfinished(HeldOf(last))
      BY <3>1, <3>2 DEF Unfinished
    <3> QED BY <1>2, <1>3, <3>2, <3>3
  <2>3. running' \cap Joining' = {}
    BY <1>2, <1>3, <1>5 DEF PlaceInv
  <2>4. Live' = Live /\ Range(waiting)' = Range(waiting)
    BY <1>1 DEF Live
  <2> QED BY <1>1, <1>2, <2>1, <2>2, <2>3, <2>4 DEF PlaceInv
<1>9. BatchInv'
  <2>1. \A r \in running' : ~retracted'[r]
    BY <1>1, <1>2, <1>4 DEF BatchInv, HeldOf
  <2> QED BY <1>1, <1>3, <2>1 DEF BatchInv
<1>10. ChunkInv'
  BY <1>1, <1>2, <1>3, <1>4, SchedulerAssumption DEF ChunkInv
<1>11. SeenInv'
  BY <1>1, <1>2, <1>3, <1>4 DEF SeenInv, Gives
<1>12. CapacityInv'
  BY <1>2, <1>3, <1>4, <1>5, FS_Subset, FS_CardinalityType, SchedulerAssumption DEF CapacityInv
<1> QED BY <1>6, <1>7, <1>8, <1>9, <1>10, <1>11, <1>12

\* Either the chunk has room for the prompt, or the chunk is used up.
LEMMA TakeFacts ==
  ASSUME NEW r \in Reqs, NEW left \in Nat, todo \in [Reqs -> Nat], chunked \in {r, None}, Take(r, left)
  PROVE  /\ can_run' = can_run \cup {r} /\ todo' \in [Reqs -> Nat] /\ rem' \in Nat
         /\ chunked' \in {r, None}
         /\ chunked' # None => rem' = 0
<1>1. todo[r] \in Nat /\ can_run' = can_run \cup {r} /\ r # None
  BY SchedulerAssumption DEF Take
<1>2. CASE todo[r] <= left
  <2>1. todo' = [todo EXCEPT ![r] = 0] /\ rem' = left - todo[r] /\ chunked' = None
    BY <1>1, <1>2 DEF Take
  <2>2. left - todo[r] \in Nat
    BY <1>1, <1>2
  <2>3. todo' \in [Reqs -> Nat]
    BY <2>1
  <2> QED BY <1>1, <2>1, <2>2, <2>3
<1>3. CASE ~(todo[r] <= left)
  <2>1. todo' = [todo EXCEPT ![r] = todo[r] - left] /\ rem' = 0 /\ chunked' = r
    BY <1>1, <1>3 DEF Take
  <2>2. todo[r] - left \in Nat
    BY <1>1, <1>3
  <2>3. todo' \in [Reqs -> Nat]
    BY <2>1, <2>2
  <2> QED BY <1>1, <2>1, <2>3
<1> QED BY <1>2, <1>3

\* The request that is being chunked is the first of the new batch.
LEMMA StartPrefillStep ==
  ASSUME LoopInv, StartPrefill
  PROVE  LoopInv'
<1> USE DEF LoopInv
<1>1. /\ pc = "prefill" /\ pc' = (IF waiting = <<>> THEN "launch" ELSE "add") /\ next' = 1
      /\ UNCHANGED <<loop, client, waiting, running, full, last, cur, results, seen, is_chunked,
                     retracted, to_finish, tokens, status, retracts, aborts>>
  BY DEF StartPrefill, config, bounds
<1>2. can_run = {}
  BY <1>1 DEF AdderInv
<1>3. /\ can_run' = {chunked} \ {None} /\ todo' \in [Reqs -> Nat] /\ rem' \in Nat
      /\ chunked' \in {chunked, None}
      /\ chunked' # None => rem' = 0
      /\ chunked = None => rem' > 0 /\ ~full /\ ~NoPlace({}) /\ waiting # <<>>
  <2>1. CASE chunked = None
    BY <1>1, <1>2, <2>1, SchedulerAssumption DEF StartPrefill, MayPrefill, SchedulerTypeOK
  <2>2. CASE chunked # None
    <3>1. chunked \in Reqs /\ todo[chunked] \in Nat /\ ChunkSize \in Nat /\ Take(chunked, ChunkSize)
      BY <2>2, SchedulerAssumption DEF StartPrefill, SchedulerTypeOK
    <3> QED BY <1>2, <2>2, <3>1, TakeFacts DEF SchedulerTypeOK
  <2> QED BY <2>1, <2>2
<1>4. Joining = {chunked} \ {None} /\ Range(waiting) \cap Joining = {} /\ Range(waiting)' = Range(waiting)
  BY <1>1 DEF Joining, PlaceInv
<1>5. /\ UNCHANGED <<Awaited, HeldOf(last), Joining, Decoding, Placed>>
      /\ Launched = None /\ Launched' = None /\ Recent = last /\ Recent' = last
  <2>1. Joining' = Joining /\ Placed' = Placed
    BY <1>1, <1>3, <1>4 DEF Joining, Placed
  <2> QED BY <1>1, <2>1 DEF Awaited, Launched, Recent, HeldOf, Decoding
<1>6. SchedulerTypeOK'
  BY <1>1, <1>3 DEF SchedulerTypeOK
<1>7. QueueInv' /\ CountInv' /\ TokensInContext' /\ CapacityInv' /\ PlaceInv' /\ BatchInv'
  BY <1>1, <1>4, <1>5 DEF QueueInv, InQueue, CountInv, TokensInContext, Cuts, CapacityInv, PlaceInv, Live, BatchInv
<1>8. ChunkInv'
  BY <1>1, <1>3, <1>5 DEF ChunkInv
<1>9. SeenInv'
  BY <1>1, <1>5 DEF SeenInv, Gives
<1>10. AdderInv'
  <2>1. Len(waiting) \in Nat /\ DOMAIN waiting = 1..Len(waiting) /\ (waiting # <<>> => Len(waiting) >= 1)
    BY DEF SchedulerTypeOK
  <2>2. /\ pc' \in {"add", "launch"}
        /\ pc' = "add" => next' \in 1..Len(waiting')
        /\ pc' = "launch" => next' \in 1..(Len(waiting') + 1) /\ can_run' # {}
    BY <1>1, <1>3, <2>1
  <2>3. pc' = "add" /\ can_run' = {} => ~full' /\ ~NoPlace({})' /\ rem' > 0
    BY <1>1, <1>3 DEF NoPlace
  <2>4. \A i \in DOMAIN waiting' : waiting'[i] \in can_run' <=> i < next'
    BY <1>1, <1>3, <1>4, <2>1 DEF Range
  <2>5. chunked' # None => chunked' \in can_run' /\ rem' = 0
    BY <1>3
  <2>6. \A r \in can_run' : status'[r] = "live" /\ r \notin running'
    BY <1>1, <1>3, <1>4 DEF ChunkInv, PlaceInv
  <2>7. last' # None => can_run' \cap last'.reqs \subseteq {last'.chunked}
    BY <1>1, <1>3, <1>5 DEF ChunkInv
  <2> QED BY <2>2, <2>3, <2>4, <2>5, <2>6, <2>7 DEF AdderInv
<1> QED BY <1>6, <1>7, <1>8, <1>9, <1>10

\* One request more, for which there is a place.
LEMMA AddRequestStep ==
  ASSUME LoopInv, AddRequest
  PROVE  LoopInv'
<1> USE DEF LoopInv
<1> DEFINE r == waiting[next]
<1>1. /\ pc = "add" /\ pc' = (IF rem' = 0 \/ next = Len(waiting) THEN "launch" ELSE "add")
      /\ next' = next + 1 /\ ~NoPlace(can_run) /\ rem > 0 /\ Take(r, rem)
      /\ UNCHANGED <<loop, client, waiting, running, full, last, cur, results, seen, is_chunked,
                     retracted, to_finish, tokens, status, retracts, aborts>>
  BY DEF AddRequest, config, bounds
<1>2. /\ next \in 1..Len(waiting) /\ DOMAIN waiting = 1..Len(waiting) /\ Len(waiting) \in Nat
      /\ r \in Reqs /\ r \in Range(waiting) /\ chunked = None
  <2>1. waiting \in Seq(Reqs) /\ rem \in Nat
    BY DEF SchedulerTypeOK
  <2>2. next \in 1..Len(waiting) /\ chunked = None
    BY <1>1, <2>1 DEF AdderInv
  <2>3. DOMAIN waiting = 1..Len(waiting) /\ Len(waiting) \in Nat /\ r \in Reqs
    BY <2>1, <2>2
  <2>4. r \in Range(waiting)
    BY <2>2, <2>3 DEF Range
  <2> QED BY <2>2, <2>3, <2>4
<1>3. /\ can_run' = can_run \cup {r} /\ todo' \in [Reqs -> Nat] /\ rem' \in Nat
      /\ chunked' \in {r, None}
      /\ chunked' # None => rem' = 0
  <2>1. rem \in Nat /\ todo \in [Reqs -> Nat]
    BY DEF SchedulerTypeOK
  <2> QED BY <1>1, <1>2, <2>1, TakeFacts
<1>4. status[r] = "live" /\ r \notin running /\ (last # None => r \notin last.reqs)
  BY <1>1, <1>2 DEF PlaceInv, BatchInv
<1> HIDE DEF r
<1>5. /\ UNCHANGED <<Awaited, HeldOf(last), Joining, Decoding>> /\ Range(waiting)' = Range(waiting)
      /\ Launched = None /\ Launched' = None /\ Recent = last /\ Recent' = last
  <2>1. Joining' = Joining
    BY <1>1, <1>2, <1>3 DEF Joining
  <2> QED BY <1>1, <2>1 DEF Awaited, Launched, Recent, HeldOf, Decoding
<1>6. SchedulerTypeOK'
  <2>1. chunked' \in Reqs \cup {None} /\ can_run' \subseteq Reqs /\ next' \in Nat
    <3>1. r \in Reqs /\ can_run \subseteq Reqs /\ next \in Nat
      BY <1>2 DEF SchedulerTypeOK, r
    <3> QED BY <1>1, <1>3, <3>1
  <2> QED BY <1>1, <1>3, <2>1 DEF SchedulerTypeOK
<1>7. QueueInv' /\ CountInv' /\ TokensInContext' /\ PlaceInv' /\ BatchInv'
  BY <1>1, <1>5 DEF QueueInv, InQueue, CountInv, TokensInContext, Cuts, PlaceInv, Live, BatchInv
<1>8. ChunkInv'
  BY <1>1, <1>3, <1>4, <1>5 DEF ChunkInv
<1>9. SeenInv'
  BY <1>1, <1>5 DEF SeenInv, Gives
<1>10. AdderInv'
  <2>1. \A i \in 1..Len(waiting) : waiting[i] = r => i = next
    BY <1>2 DEF PlaceInv, IsInjective, r
  <2>2. \A i \in 1..Len(waiting) : waiting[i] \in can_run <=> i < next
    BY <1>1, <1>2 DEF AdderInv
  <2>3. \A i \in 1..Len(waiting) : waiting[i] \in can_run' <=> i < next'
    <3>1. SUFFICES ASSUME NEW i \in 1..Len(waiting) PROVE (waiting[i] \in can_run \/ waiting[i] = r) <=> i < next + 1
      BY <1>1, <1>3
    <3>2. (waiting[i] = r <=> i = next) /\ (waiting[i] \in can_run <=> i < next)
      BY <2>1, <2>2 DEF r
    <3> QED BY <1>2, <3>2
  <2>4. \A x \in can_run' : status'[x] = "live" /\ x \notin running'
    BY <1>1, <1>3, <1>4 DEF AdderInv
  <2>5. last' # None => can_run' \cap last'.reqs \subseteq {last'.chunked}
    BY <1>1, <1>3, <1>4 DEF AdderInv
  <2> QED BY <1>1, <1>2, <1>3, <2>3, <2>4, <2>5 DEF AdderInv
<1>11. CapacityInv'
  <2>1. Placed = running \cup can_run /\ Placed' = running \cup can_run \cup {r}
    BY <1>1, <1>3 DEF Placed
  <2>2. IsFiniteSet(running) /\ IsFiniteSet(can_run)
    BY <2>1, FS_Subset DEF CapacityInv
  <2>3. Cardinality(running) \in Nat /\ Cardinality(can_run) \in Nat
    BY <2>2, FS_CardinalityType
  <2>4. Cardinality(can_run) + Cardinality(running) < MaxRunning
    BY <1>1, <2>3, SchedulerAssumption DEF NoPlace
  <2>5. /\ IsFiniteSet(running \cup can_run)
        /\ Cardinality(running \cup can_run) <= Cardinality(can_run) + Cardinality(running)
    <3>1. IsFiniteSet(running \cap can_run) /\ Cardinality(running \cap can_run) \in Nat
      BY <2>2, FS_Subset, FS_CardinalityType
    <3>2. /\ IsFiniteSet(running \cup can_run)
          /\ Cardinality(running \cup can_run)
               = Cardinality(running) + Cardinality(can_run) - Cardinality(running \cap can_run)
      BY <2>2, FS_Union
    <3> QED BY <2>3, <3>1, <3>2
  <2>6. /\ IsFiniteSet(running \cup can_run \cup {r})
        /\ Cardinality(running \cup can_run \cup {r}) <= Cardinality(running \cup can_run) + 1
    BY <2>5, FS_AddElement, FS_CardinalityType
  <2>7. Cardinality(running \cup can_run) \in Nat /\ Cardinality(running \cup can_run \cup {r}) \in Nat
    BY <2>5, <2>6, FS_CardinalityType
  <2> QED BY <2>1, <2>3, <2>4, <2>5, <2>6, <2>7, SchedulerAssumption DEF CapacityInv
<1> QED BY <1>6, <1>7, <1>8, <1>9, <1>10, <1>11

\* The adder does not stop without a request.
LEMMA StopAddingStep ==
  ASSUME LoopInv, StopAdding
  PROVE  LoopInv'
<1> USE DEF LoopInv
<1>1. /\ pc = "add" /\ pc' = "launch" /\ (full \/ NoPlace(can_run) \/ rem = 0)
      /\ full' \in BOOLEAN
      /\ UNCHANGED <<loop, client, waiting, running, chunked, last, cur, results, can_run, rem, next,
                     todo, seen, is_chunked, retracted, to_finish, tokens, status, retracts, aborts>>
  BY DEF StopAdding, config, adder, requests, bounds, SchedulerTypeOK, NoPlace
<1>2. /\ UNCHANGED <<Awaited, HeldOf(last), Joining, Decoding, Placed>> /\ Range(waiting)' = Range(waiting)
      /\ Launched = None /\ Launched' = None /\ Recent = last /\ Recent' = last
  BY <1>1 DEF Awaited, Launched, Recent, HeldOf, Joining, Decoding, Placed
<1>3. SchedulerTypeOK'
  BY <1>1 DEF SchedulerTypeOK
<1>4. QueueInv' /\ CountInv' /\ TokensInContext' /\ CapacityInv' /\ PlaceInv' /\ BatchInv'
  BY <1>1, <1>2 DEF QueueInv, InQueue, CountInv, TokensInContext, Cuts, CapacityInv, PlaceInv, Live, BatchInv
<1>5. ChunkInv' /\ SeenInv'
  BY <1>1, <1>2 DEF ChunkInv, SeenInv, Gives
<1>6. can_run # {}
  <2>1. SUFFICES ASSUME can_run = {} PROVE FALSE
    OBVIOUS
  <2>2. ~full /\ ~NoPlace({}) /\ rem > 0
    BY <1>1, <2>1 DEF AdderInv
  <2> QED BY <1>1, <2>1, <2>2
<1>7. AdderInv'
  <2>1. next \in 1..(Len(waiting) + 1)
    BY <1>1 DEF AdderInv, SchedulerTypeOK
  <2>2. AdderInv!5
    BY DEF AdderInv
  <2> QED BY <1>1, <1>6, <2>1, <2>2 DEF AdderInv
<1> QED BY <1>3, <1>4, <1>5, <1>7

\* No prefill: no request is being chunked.
LEMMA NoPrefillStep ==
  ASSUME LoopInv, NoPrefill
  PROVE  LoopInv'
<1> USE DEF LoopInv
<1>1. /\ pc = "prefill" /\ pc' = "decode" /\ chunked = None
      /\ full' \in BOOLEAN
      /\ UNCHANGED <<loop, client, waiting, running, chunked, last, cur, results, can_run, rem, next,
                     todo, seen, is_chunked, retracted, to_finish, tokens, status, retracts, aborts>>
  BY DEF NoPrefill, MayPrefill, config, adder, requests, bounds, SchedulerTypeOK, NoPlace
<1>2. /\ UNCHANGED <<Awaited, HeldOf(last), Joining, Decoding, Placed>> /\ Range(waiting)' = Range(waiting)
      /\ Launched = None /\ Launched' = None /\ Recent = last /\ Recent' = last
  BY <1>1 DEF Awaited, Launched, Recent, HeldOf, Joining, Decoding, Placed
<1>3. SchedulerTypeOK'
  BY <1>1 DEF SchedulerTypeOK
<1>4. QueueInv' /\ CountInv' /\ TokensInContext' /\ CapacityInv' /\ PlaceInv' /\ BatchInv'
  BY <1>1, <1>2 DEF QueueInv, InQueue, CountInv, TokensInContext, Cuts, CapacityInv, PlaceInv, Live, BatchInv
<1>5. ChunkInv' /\ SeenInv' /\ AdderInv'
  BY <1>1, <1>2 DEF ChunkInv, SeenInv, Gives, AdderInv
<1> QED BY <1>3, <1>4, <1>5

\* The requests leave the queue for the new batch, and none of them has a token to
\* come from the batch before.
LEMMA PrefillStep ==
  ASSUME LoopInv, Prefill
  PROVE  LoopInv'
<1> USE DEF LoopInv
<1> DEFINE B == [mode |-> "extend", reqs |-> can_run, chunked |-> chunked,
                 seen |-> [r \in can_run |-> IF r = chunked THEN Partial ELSE Len(tokens[r])]]
<1>1. /\ pc = "launch" /\ pc' = "process" /\ waiting' = SubSeq(waiting, next, Len(waiting))
      /\ is_chunked' = CountChunk(chunked)
      /\ retracted' = [r \in Reqs |-> retracted[r] /\ r \notin can_run]
      /\ cur' = B /\ results' = Append(results, B)
      /\ seen' = [r \in Reqs |-> IF r \in B.reqs THEN B.seen[r] ELSE seen[r]]
      /\ can_run' = {} /\ rem' = 0 /\ next' = 0
      /\ UNCHANGED <<loop, client, running, full, chunked, last, todo, to_finish, tokens, status,
                     retracts, aborts>>
  BY DEF Prefill, Launch, config, bounds
<1>2. /\ B.mode = "extend" /\ B.reqs = can_run /\ B.chunked = chunked
      /\ \A r \in can_run : B.seen[r] = IF r = chunked THEN Partial ELSE Len(tokens[r])
  OBVIOUS
<1>3. /\ can_run # {} /\ can_run \subseteq Reqs /\ next \in 1..(Len(waiting) + 1)
      /\ \A i \in DOMAIN waiting : waiting[i] \in can_run <=> i < next
      /\ chunked # None => chunked \in can_run
      /\ \A r \in can_run : status[r] = "live" /\ r \notin running
      /\ last # None => can_run \cap last.reqs \subseteq {last.chunked}
  BY <1>1 DEF AdderInv, SchedulerTypeOK
<1>4. \A r \in Reqs : Len(tokens[r]) \in Nat
  BY DEF SchedulerTypeOK
<1>5. B \in Batch(can_run) /\ B # None
  <2>1. B.seen \in [can_run -> Nat \cup {Partial}]
    BY <1>3, <1>4
  <2>2. B \in Batch(can_run)
    BY <2>1 DEF Batch, SchedulerTypeOK
  <2> QED BY <1>3, <2>2, SchedulerAssumption
<1> HIDE DEF B
<1>6. /\ waiting' \in Seq(Reqs) /\ IsInjective(waiting') /\ Range(waiting)' = Range(waiting) \ can_run
  <2>1. waiting \in Seq(Reqs) /\ IsInjective(waiting) /\ Len(waiting) \in Nat /\ DOMAIN waiting = 1..Len(waiting)
    BY DEF SchedulerTypeOK, PlaceInv
  <2>2. /\ waiting' \in Seq(Reqs) /\ IsInjective(waiting')
        /\ Range(waiting)' = {waiting[k] : k \in {x \in DOMAIN waiting : x >= next}}
    BY <1>1, <1>3, <2>1, SuffixOf
  <2>3. \A i \in DOMAIN waiting : waiting[i] \notin can_run <=> i >= next
    BY <1>3, <2>1
  <2> QED BY <2>2, <2>3 DEF Range
<1>7. /\ UNCHANGED <<Awaited, HeldOf(last)>>
      /\ Launched = None /\ Launched' = B /\ Recent = last /\ Recent' = B
      /\ HeldOf(B) = can_run /\ HeldOf(Recent)' = can_run
      /\ Joining = can_run \ Range(waiting) /\ Joining' = can_run
      /\ Decoding = running /\ Decoding' = running \cup (can_run \ {chunked})
      /\ Placed = running \cup can_run /\ Placed' = Placed
  BY <1>1, <1>2, <1>5 DEF Awaited, Launched, Recent, HeldOf, Joining, Decoding, Placed
<1>8. QueueInv'
  <2>1. results = InQueue(Awaited) \o InQueue(None)
    BY <1>7 DEF QueueInv
  <2>2. results = InQueue(Awaited)
    BY <2>1, QueueFacts
  <2>3. results' = InQueue(Awaited) \o InQueue(B)
    BY <1>1, <1>5, <2>2, QueueFacts
  <2> QED BY <1>7, <2>3 DEF QueueInv, InQueue
<1>9. SchedulerTypeOK'
  <2>1. Range(results') \subseteq {last, B}
    <3>1. results' = InQueue(Awaited) \o InQueue(B)
      BY <1>7, <1>8 DEF QueueInv, InQueue
    <3> QED BY <3>1, QueueFacts DEF Awaited
  <2>2. ASSUME NEW b \in ({last', cur'} \cup Range(results')) \ {None}
        PROVE  b.reqs \in (SUBSET Reqs) \ {{}} /\ b \in Batch(b.reqs)
    <3>1. CASE b = B
      BY <1>2, <1>3, <1>5, <3>1
    <3>2. CASE b = last
      BY <3>2, <2>2 DEF SchedulerTypeOK
    <3> QED BY <1>1, <2>1, <3>1, <3>2
  <2>3. is_chunked' \in [Reqs -> Nat]
    <3>1. is_chunked \in [Reqs -> Nat] /\ chunked \in Reqs \cup {None}
      BY DEF SchedulerTypeOK
    <3>2. is_chunked' = CountChunk(chunked)
      BY <1>1
    <3> QED BY <3>1, <3>2 DEF CountChunk
  <2>4. seen' \in [Reqs -> Nat \cup {Partial}]
    <3>1. \A r \in Reqs : seen[r] \in Nat \cup {Partial}
      BY DEF SchedulerTypeOK
    <3>2. \A r \in B.reqs : B.seen[r] \in Nat \cup {Partial}
      BY <1>2, <1>3, <1>4
    <3> QED BY <1>1, <3>1, <3>2
  <2>5. retracted' \in [Reqs -> BOOLEAN]
    BY <1>1 DEF SchedulerTypeOK
  <2>6. can_run' \subseteq Reqs /\ {rem', next'} \subseteq Nat /\ pc' \in {"top", "prefill", "add", "launch", "decode", "process"}
    BY <1>1
  <2> QED BY <1>1, <1>6, <2>2, <2>3, <2>4, <2>5, <2>6 DEF SchedulerTypeOK
<1>10. AdderInv' /\ TokensInContext' /\ CapacityInv'
  BY <1>1, <1>7 DEF AdderInv, TokensInContext, CapacityInv
<1>11. PlaceInv'
  <2>1. Live' = Live
    BY <1>1 DEF Live
  <2> QED BY <1>1, <1>3, <1>6, <1>7, <2>1 DEF PlaceInv
<1>12. \A r \in Reqs : ~retracted'[r] <=> ~retracted[r] \/ r \in can_run
  BY <1>1
<1>13. last # None => last.reqs \subseteq Reqs
  BY BatchFacts
<1>14. BatchInv'
  <2>1. \A r \in running' : ~retracted'[r]
    BY <1>1, <1>12 DEF BatchInv, SchedulerTypeOK
  <2>2. last # None => \A r \in last.reqs : r \notin Range(waiting)'
    BY <1>1, <1>6 DEF BatchInv
  <2>3. \A r \in can_run : r \notin Range(waiting)' /\ status'[r] = "live" /\ ~retracted'[r]
    BY <1>1, <1>3, <1>6, <1>12
  <2> QED BY <1>1, <1>2, <1>3, <1>5, <1>7, <2>1, <2>2, <2>3 DEF BatchInv
<1>15. ChunkInv'
  BY <1>1, <1>2, <1>3, <1>5, <1>7, <1>12, <1>13 DEF ChunkInv, HeldOf
<1>16. CountInv'
  <2>1. SUFFICES ASSUME NEW r \in Reqs
                 PROVE  is_chunked'[r] = Cuts(Awaited, r) + Cuts(B, r)
    BY <1>7 DEF CountInv, Cuts
  <2>2. is_chunked[r] = Cuts(Awaited, r) /\ is_chunked[r] \in Nat
    BY <1>7 DEF CountInv, Cuts, SchedulerTypeOK
  <2>3. Cuts(B, r) = IF r = chunked THEN 1 ELSE 0
    BY <1>2, <1>5 DEF Cuts
  <2>4. is_chunked'[r] = is_chunked[r] + (IF r = chunked THEN 1 ELSE 0)
    <3>1. is_chunked \in [Reqs -> Nat] /\ r # None
      BY SchedulerAssumption DEF SchedulerTypeOK
    <3>2. CASE chunked = None
      BY <1>1, <2>2, <3>1, <3>2 DEF CountChunk
    <3>3. CASE chunked # None
      BY <1>1, <2>2, <3>1, <3>3 DEF CountChunk
    <3> QED BY <3>2, <3>3
  <2> QED BY <2>2, <2>3, <2>4
<1>17. \A r \in can_run : (Awaited # None /\ r \in Awaited.reqs => r = Awaited.chunked) /\ Gives(Awaited, r) = 0
  BY <1>3 DEF Awaited, Gives
<1>18. SeenInv'
  <2>1. ASSUME NEW r \in running, status[r] = "live"
        PROVE  seen'[r] = Len(tokens[r]) - 1 + Gives(Awaited, r) + Gives(B, r)
    <3>1. Gives(B, r) = 0 /\ Gives(None, r) = 0 /\ r \in Reqs /\ r \notin can_run
      BY <1>2, <1>3 DEF Gives, SchedulerTypeOK
    <3>2. seen'[r] = seen[r]
      BY <1>1, <1>2, <3>1
    <3> QED BY <1>7, <2>1, <3>1, <3>2 DEF SeenInv
  <2>2. ASSUME NEW r \in can_run, r # chunked
        PROVE  /\ B.seen[r] = Len(tokens[r]) + Gives(Awaited, r)
               /\ seen'[r] = Len(tokens[r]) - 1 + Gives(Awaited, r) + Gives(B, r)
    <3>1. Gives(B, r) = 1 /\ r \in Reqs /\ Len(tokens[r]) \in Nat /\ B.seen[r] = Len(tokens[r])
      BY <1>2, <1>3, <1>4, <1>5, <2>2 DEF Gives
    <3> QED BY <1>1, <1>2, <1>17, <3>1
  <2>3. Awaited # None => \A r \in Awaited.reqs :
          status[r] = "live" /\ ~retracted'[r] /\ r # Awaited.chunked => Awaited.seen[r] = Len(tokens[r])
    BY <1>12, <1>13, <1>17 DEF SeenInv, Awaited
  <2>5. \A r \in Decoding' : status'[r] = "live" =>
          seen'[r] = Len(tokens'[r]) - 1 + Gives(Awaited', r) + Gives(Launched', r)
    BY <1>1, <1>7, <2>1, <2>2
  <2>6. \A r \in B.reqs : r # B.chunked => B.seen[r] = Len(tokens'[r]) + Gives(Awaited', r)
    BY <1>1, <1>2, <1>7, <2>2
  <2>7. SeenInv!1'
    BY <2>5 DEF Gives
  <2>8. SeenInv!2'
    BY <1>1, <1>7, <2>3
  <2>9. SeenInv!3'
    BY <1>7, <2>6 DEF Gives
  <2> QED BY <2>7, <2>8, <2>9 DEF SeenInv
<1> QED BY <1>8, <1>9, <1>10, <1>11, <1>14, <1>15, <1>16, <1>18
-----------------------------------------------------------------------------
(* The decode batch *)

\* A pass for the running batch but the retracted requests, which go back to the
\* queue.
LEMMA DecodeStep ==
  ASSUME LoopInv, pc = "decode", NEW q \in Seq(Reqs), IsInjective(q),
         Range(q) \subseteq Unfinished(running), Unfinished(running) \ Range(q) # {},
         Decode(Unfinished(running), q), retracts' \in Nat,
         UNCHANGED <<config, chunked, last, adder, to_finish, tokens, status, aborts>>
  PROVE  LoopInv'
<1> USE DEF LoopInv
<1> DEFINE D == Unfinished(running) \ Range(q)
           B == [mode |-> "decode", reqs |-> D, chunked |-> None, seen |-> [r \in D |-> seen[r] + 1]]
<1>1. /\ pc' = "process" /\ running' = D /\ full' = StillFull(D)
      /\ retracted' = [r \in Reqs |-> retracted[r] \/ r \in Range(q)]
      /\ is_chunked' = [r \in Reqs |-> IF r \in Range(q) THEN 0 ELSE is_chunked[r]]
      /\ todo' = [r \in Reqs |-> IF r \in Range(q) THEN PromptLen[r] + Len(tokens[r]) ELSE todo[r]]
      /\ waiting' = waiting \o q /\ cur' = B /\ results' = Append(results, B)
      /\ seen' = [r \in Reqs |-> IF r \in B.reqs THEN B.seen[r] ELSE seen[r]]
      /\ UNCHANGED <<loop, client, chunked, last, can_run, rem, next, to_finish, tokens, status, aborts>>
  BY DEF Decode, Launch, config, adder
<1>2. /\ B.mode = "decode" /\ B.reqs = D /\ B.chunked = None
      /\ \A r \in D : B.seen[r] = seen[r] + 1
  OBVIOUS
<1>3. /\ D # {} /\ D \subseteq running /\ running \subseteq Reqs /\ D \cap Range(q) = {}
      /\ Range(q) \subseteq running
      /\ \A r \in D \cup Range(q) : status[r] = "live"
      /\ \A r \in running : status[r] = "live" => r \in D \cup Range(q)
  BY DEF Unfinished, SchedulerTypeOK, PlaceInv
<1>4. chunked = None /\ (last # None => last.chunked = None) /\ None \notin Reqs
  BY SchedulerAssumption DEF ChunkInv, Recent
<1>5. \A r \in Reqs : seen[r] \in Nat \cup {Partial} /\ seen[r] + 1 \in Nat /\ Len(tokens[r]) \in Nat
  BY DEF SchedulerTypeOK, Partial
<1>6. B \in Batch(D) /\ B # None
  <2>1. B.seen \in [D -> Nat \cup {Partial}]
    BY <1>3, <1>5
  <2>2. B \in Batch(D)
    BY <2>1 DEF Batch
  <2> QED BY <1>3, <2>2, SchedulerAssumption
<1> HIDE DEF D, B
<1>7. /\ waiting' \in Seq(Reqs) /\ IsInjective(waiting') /\ Range(waiting)' = Range(waiting) \cup Range(q)
  <2>1. Range(waiting) \cap Range(q) = {}
    BY <1>3 DEF PlaceInv
  <2> QED BY <1>1, <2>1, ConcatDisjoint DEF SchedulerTypeOK, PlaceInv
<1>8. /\ UNCHANGED <<Awaited, HeldOf(last)>>
      /\ Launched = None /\ Launched' = B /\ Recent = last /\ Recent' = B
      /\ HeldOf(B) = {} /\ HeldOf(Recent)' = {}
      /\ Joining = {} /\ Joining' = {} /\ Decoding = running /\ Decoding' = D
      /\ Placed = running /\ Placed' = D
  BY <1>1, <1>2, <1>4, <1>6 DEF Awaited, Launched, Recent, HeldOf, Joining, Decoding, Placed
<1>9. QueueInv'
  <2>1. results = InQueue(Awaited) \o InQueue(None)
    BY <1>8 DEF QueueInv
  <2>2. results = InQueue(Awaited)
    BY <2>1, QueueFacts
  <2>3. results' = InQueue(Awaited) \o InQueue(B)
    BY <1>1, <1>6, <2>2, QueueFacts
  <2> QED BY <1>8, <2>3 DEF QueueInv, InQueue
<1>10. SchedulerTypeOK'
  <2>1. Range(results') \subseteq {last, B}
    <3>1. results' = InQueue(Awaited) \o InQueue(B)
      BY <1>8, <1>9 DEF QueueInv, InQueue
    <3> QED BY <3>1, QueueFacts DEF Awaited
  <2>2. ASSUME NEW b \in ({last', cur'} \cup Range(results')) \ {None}
        PROVE  b.reqs \in (SUBSET Reqs) \ {{}} /\ b \in Batch(b.reqs)
    <3>1. CASE b = B
      BY <1>2, <1>3, <1>6, <3>1
    <3>2. CASE b = last
      BY <3>2, <2>2 DEF SchedulerTypeOK
    <3> QED BY <1>1, <2>1, <3>1, <3>2
  <2>3. is_chunked' \in [Reqs -> Nat]
    BY <1>1 DEF SchedulerTypeOK
  <2>4. seen' \in [Reqs -> Nat \cup {Partial}]
    BY <1>1, <1>2, <1>5
  <2>5. retracted' \in [Reqs -> BOOLEAN]
    BY <1>1 DEF SchedulerTypeOK
  <2>6. todo' \in [Reqs -> Nat]
    <3>1. todo \in [Reqs -> Nat] /\ PromptLen \in [Reqs -> Nat]
      BY SchedulerAssumption DEF SchedulerTypeOK
    <3> QED BY <1>1, <1>5, <3>1
  <2>7. full' \in BOOLEAN /\ running' \subseteq Reqs
    BY <1>1, <1>3 DEF StillFull, SchedulerTypeOK
  <2> QED BY <1>1, <1>7, <2>2, <2>3, <2>4, <2>5, <2>6, <2>7 DEF SchedulerTypeOK
<1>11. AdderInv' /\ TokensInContext'
  BY <1>1 DEF AdderInv, TokensInContext
<1>12. CapacityInv'
  BY <1>3, <1>8, FS_Subset, FS_CardinalityType, SchedulerAssumption DEF CapacityInv
<1>13. PlaceInv'
  <2>1. Live' = Live
    BY <1>1 DEF Live
  <2>2. Live \subseteq Range(waiting) \cup D \cup Range(q)
    BY <1>3, <1>8 DEF PlaceInv, Live
  <2> QED BY <1>1, <1>3, <1>7, <1>8, <2>1, <2>2 DEF PlaceInv
<1>14. \A r \in Reqs : retracted'[r] <=> retracted[r] \/ r \in Range(q)
  BY <1>1
<1>15. last # None => last.reqs \subseteq Reqs
  BY BatchFacts
<1>16. BatchInv'
  <2>1. \A r \in D : r \in Reqs /\ ~retracted'[r] /\ r \notin Range(waiting)'
    BY <1>3, <1>7, <1>14 DEF BatchInv, PlaceInv
  <2>2. last # None => \A r \in last.reqs : r \in Range(waiting)' => retracted'[r]
    BY <1>7, <1>14, <1>15 DEF BatchInv
  <2> QED BY <1>1, <1>2, <1>3, <1>8, <2>1, <2>2 DEF BatchInv
<1>17. ChunkInv'
  BY <1>1, <1>2, <1>3, <1>4, <1>8 DEF ChunkInv
<1>18. CountInv'
  <2>1. SUFFICES ASSUME NEW r \in Reqs
                 PROVE  is_chunked'[r] = Cuts(Awaited, r) + Cuts(B, r)
    BY <1>8 DEF CountInv, Cuts
  <2>2. Cuts(Awaited, r) = 0 /\ Cuts(B, r) = 0 /\ Cuts(None, r) = 0
    BY <1>2, <1>4 DEF Cuts, Awaited
  <2>3. is_chunked[r] = 0
    BY <1>8, <2>2 DEF CountInv
  <2> QED BY <1>1, <2>2, <2>3
<1>19. SeenInv'
  <2>1. ASSUME NEW r \in D
        PROVE  /\ B.seen[r] = Len(tokens[r]) + Gives(Awaited, r)
               /\ seen'[r] = Len(tokens[r]) - 1 + Gives(Awaited, r) + Gives(B, r)
    <3>1. r \in Reqs /\ r \in running /\ status[r] = "live" /\ r # None
      BY <1>3, <1>4
    <3>2. Gives(B, r) = 1 /\ Gives(None, r) = 0 /\ Gives(Awaited, r) \in Nat
      BY <1>2, <1>6, <3>1 DEF Gives
    <3>3. seen[r] = Len(tokens[r]) - 1 + Gives(Awaited, r)
      BY <1>5, <1>8, <3>1, <3>2 DEF SeenInv
    <3> QED BY <1>1, <1>2, <1>5, <3>1, <3>2, <3>3
  <2>2. Awaited # None => \A r \in Awaited.reqs :
          status[r] = "live" /\ ~retracted'[r] /\ r # Awaited.chunked => Awaited.seen[r] = Len(tokens[r])
    BY <1>14, <1>15 DEF SeenInv, Awaited
  <2>3. \A r \in Decoding' : status'[r] = "live" =>
          seen'[r] = Len(tokens'[r]) - 1 + Gives(Awaited', r) + Gives(Launched', r)
    BY <1>1, <1>8, <2>1
  <2>4. \A r \in B.reqs : r # B.chunked => B.seen[r] = Len(tokens'[r]) + Gives(Awaited', r)
    BY <1>1, <1>2, <1>8, <2>1
  <2>5. SeenInv!1'
    BY <2>3 DEF Gives
  <2>6. SeenInv!2'
    BY <1>1, <1>8, <2>2
  <2>7. SeenInv!3'
    BY <1>8, <2>4 DEF Gives
  <2> QED BY <2>5, <2>6, <2>7 DEF SeenInv
<1> QED BY <1>9, <1>10, <1>11, <1>12, <1>13, <1>16, <1>17, <1>18, <1>19

\* A decode without retraction.
LEMMA RunDecodeStep ==
  ASSUME LoopInv, RunDecode
  PROVE  LoopInv'
<1>1. <<>> \in Seq(Reqs) /\ IsInjective(<<>>) /\ Range(<<>>) = {}
  BY DEF IsInjective, Range
<1>2. /\ pc = "decode" /\ Unfinished(running) # {} /\ Decode(Unfinished(running), <<>>) /\ retracts' \in Nat
      /\ UNCHANGED <<config, chunked, last, adder, to_finish, tokens, status, aborts>>
  BY DEF RunDecode, bounds, LoopInv, SchedulerTypeOK
<1> QED BY <1>1, <1>2, DecodeStep

\* retract_decode leaves a request, as it takes fewer than there are.
LEMMA RetractDecodeStep ==
  ASSUME LoopInv, RetractDecode
  PROVE  LoopInv'
<1> DEFINE U == Unfinished(running)
<1>1. PICK q \in Retractions(U) : Decode(U, q)
  BY DEF RetractDecode
<1>2. /\ pc = "decode" /\ retracts' \in Nat
      /\ UNCHANGED <<config, chunked, last, adder, to_finish, tokens, status, aborts>>
  BY DEF RetractDecode, LoopInv, SchedulerTypeOK
<1>3. PICK n \in 1..(Cardinality(U) - 1) : q \in [1..n -> U] /\ IsInjective(q)
  BY <1>1 DEF Retractions
<1>4. U \subseteq Reqs /\ IsFiniteSet(U) /\ Cardinality(U) \in Nat
  <2>1. U \subseteq running /\ running \subseteq Placed /\ IsFiniteSet(Placed) /\ running \subseteq Reqs
    BY DEF Unfinished, Placed, LoopInv, CapacityInv, SchedulerTypeOK
  <2> QED BY <2>1, FS_Subset, FS_CardinalityType
<1> HIDE DEF U
<1>5. n \in Nat /\ q \in Seq(Reqs) /\ Range(q) \subseteq U
  <2>1. n \in Nat /\ q \in [1..n -> Reqs]
    BY <1>3, <1>4
  <2> QED BY <1>3, <2>1 DEF Range
<1>6. U \ Range(q) # {}
  <2>1. SUFFICES ASSUME U \subseteq Range(q) PROVE FALSE
    OBVIOUS
  <2>2. IsFiniteSet(1..n) /\ Cardinality(1..n) = n
    BY <1>5, FS_Interval
  <2>3. q \in Surjection(1..n, U)
    BY <1>3, <1>5, <2>1 DEF Range, Surjection
  <2>4. Cardinality(U) <= n
    BY <2>2, <2>3, FS_Surjection
  <2> QED BY <1>3, <1>4, <2>4
<1> QED BY <1>1, <1>2, <1>3, <1>5, <1>6, DecodeStep DEF U

\* Nothing runs.
LEMMA NoBatchStep ==
  ASSUME LoopInv, NoBatch
  PROVE  LoopInv'
<1> USE DEF LoopInv
<1>1. /\ pc = "decode" /\ pc' = "process" /\ running' = {} /\ cur' = None /\ full' \in BOOLEAN
      /\ UNCHANGED <<loop, client, waiting, chunked, last, results, can_run, rem, next, todo, seen,
                     is_chunked, retracted, to_finish, tokens, status, retracts, aborts>>
  BY DEF NoBatch, StillFull, config, adder, requests, bounds, SchedulerTypeOK
<1>2. chunked = None /\ (last # None => last.chunked = None) /\ None \notin Reqs
  BY <1>1, SchedulerAssumption DEF ChunkInv, Recent
<1>3. /\ UNCHANGED <<Awaited, HeldOf(last), Launched>> /\ Range(waiting)' = Range(waiting)
      /\ Launched = None /\ Recent' = None /\ HeldOf(Recent)' = {}
      /\ Joining = {} /\ Joining' = {} /\ Decoding' = {} /\ Placed' = {}
  BY <1>1, <1>2 DEF Awaited, Launched, Recent, HeldOf, Joining, Decoding, Placed
<1>4. SchedulerTypeOK'
  BY <1>1 DEF SchedulerTypeOK
<1>5. QueueInv' /\ CountInv' /\ TokensInContext' /\ AdderInv'
  BY <1>1, <1>3 DEF QueueInv, InQueue, CountInv, TokensInContext, Cuts, AdderInv
<1>6. CapacityInv'
  BY <1>3, FS_EmptySet, SchedulerAssumption DEF CapacityInv
<1>7. PlaceInv'
  <2>1. Live' = Live /\ Live \cap running = {}
    BY <1>1 DEF Live, NoBatch, Unfinished
  <2> QED BY <1>1, <1>3, <2>1 DEF PlaceInv
<1>8. BatchInv'
  BY <1>1, <1>3 DEF BatchInv
<1>9. ChunkInv'
  BY <1>1, <1>2, <1>3 DEF ChunkInv
<1>10. SeenInv'
  BY <1>1, <1>3 DEF SeenInv, Gives
<1> QED BY <1>4, <1>5, <1>6, <1>7, <1>8, <1>9, <1>10
-----------------------------------------------------------------------------
(* The results *)

\* The batch whose result this iteration takes.
Due == IF loop = "overlap" THEN last ELSE cur

\* The requests that get a token of it.
Answered ==
  IF Due = None THEN {}
  ELSE {r \in Due.reqs : r # Due.chunked /\ status[r] = "live" /\ ~retracted[r]}

\* What a result says of its requests: which are answered, with the next token of
\* theirs, and which are still in their prompt.
LEMMA DueFacts ==
  ASSUME LoopInv, pc = "process", Due # None, NEW r \in Due.reqs
  PROVE  /\ r \in Reqs /\ is_chunked[r] \in Nat
         /\ Skipped(Due, r) <=> ~(status[r] = "live" /\ ~retracted[r])
         /\ r = Due.chunked => Due.mode = "extend" /\ is_chunked[r] > 0 /\ ~Skipped(Due, r)
         /\ r # Due.chunked /\ ~Skipped(Due, r) => Due.mode = "decode" \/ is_chunked[r] = 0
         /\ r \in Answered => Due.seen[r] = Len(tokens[r]) /\ r \notin Range(waiting)
<1> USE DEF LoopInv
<1>1. /\ Due \in {last, cur} /\ Due.reqs \subseteq Reqs /\ Due.mode \in {"extend", "decode"}
      /\ Launched = cur /\ Recent = cur /\ loop \in {"normal", "overlap"}
      /\ r \in Reqs /\ None \notin Reqs /\ is_chunked[r] \in Nat
  <2>1. Due \in {last, cur}
    BY DEF Due
  <2>2. Due.reqs \subseteq Reqs /\ Due.mode \in {"extend", "decode"}
    BY <2>1, BatchFacts
  <2> QED BY <2>1, <2>2, SchedulerAssumption DEF Launched, Recent, SchedulerTypeOK
<1>2. CASE loop = "overlap"
  <2>1. Due = last /\ Awaited = last /\ last # None
    BY <1>2 DEF Due, Awaited
  <2>2. status[r] \in {"live", "finished"} /\ (r \in Range(waiting) => retracted[r])
    BY <2>1 DEF BatchInv
  <2>3. Skipped(Due, r) <=> ~(status[r] = "live" /\ ~retracted[r])
    BY <1>2, <2>2 DEF Skipped
  <2>4. is_chunked[r] = Cuts(last, r) + Cuts(cur, r)
    BY <1>1, <2>1 DEF CountInv
  <2>5. ASSUME r = Due.chunked
        PROVE  Due.mode = "extend" /\ is_chunked[r] > 0 /\ ~Skipped(Due, r)
    <3>1. r \in HeldOf(last) /\ status[r] = "live" /\ ~retracted[r]
      BY <1>1, <1>2, <2>1, <2>5 DEF ChunkInv
    <3>2. Due.mode = "extend"
      BY <2>1, <3>1 DEF HeldOf
    <3>3. Cuts(last, r) = 1 /\ Cuts(cur, r) \in Nat
      BY <2>1, <2>5 DEF Cuts
    <3> QED BY <2>3, <2>4, <3>1, <3>2, <3>3
  <2>6. ASSUME r # Due.chunked
        PROVE  is_chunked[r] = 0
    <3>1. Cuts(last, r) = 0
      BY <2>1, <2>6 DEF Cuts
    <3>2. SUFFICES ASSUME cur # None, r = cur.chunked PROVE FALSE
      BY <2>4, <3>1 DEF Cuts
    <3>3. cur.mode = "extend" /\ r \in cur.reqs
      <4>1. chunked = r
        BY <1>1, <3>2 DEF ChunkInv
      <4>2. r \in HeldOf(cur)
        BY <1>1, <4>1 DEF ChunkInv
      <4> QED BY <3>2, <4>2 DEF HeldOf
    <3>4. cur.reqs \cap last.reqs \subseteq {last.chunked}
      BY <1>1, <2>1, <3>2, <3>3 DEF BatchInv
    <3> QED BY <2>1, <2>6, <3>3, <3>4
  <2>7. r \in Answered => Due.seen[r] = Len(tokens[r]) /\ r \notin Range(waiting)
    BY <2>1, <2>2 DEF SeenInv, Answered
  <2> QED BY <1>1, <2>3, <2>5, <2>6, <2>7
<1>3. CASE loop = "normal"
  <2>1. Due = cur /\ Awaited = None /\ cur # None
    BY <1>3 DEF Due, Awaited
  <2>2. r \notin Range(waiting) /\ status[r] = "live" /\ ~retracted[r]
    BY <1>1, <2>1 DEF BatchInv
  <2>3. ~Skipped(Due, r)
    BY <2>2 DEF Skipped
  <2>4. is_chunked[r] = Cuts(None, r) + Cuts(cur, r)
    BY <1>1, <2>1 DEF CountInv
  <2>5. Cuts(None, r) = 0 /\ Cuts(cur, r) = IF r = cur.chunked THEN 1 ELSE 0
    BY <2>1 DEF Cuts
  <2>6. r = Due.chunked => Due.mode = "extend"
    BY <1>1, <2>1 DEF ChunkInv, HeldOf
  <2>7. r # Due.chunked => Due.seen[r] = Len(tokens[r]) + Gives(None, r)
    BY <1>1, <2>1 DEF SeenInv
  <2>8. Gives(None, r) = 0 /\ Len(tokens[r]) \in Nat
    BY <1>1 DEF Gives, SchedulerTypeOK
  <2> QED BY <1>1, <2>1, <2>2, <2>3, <2>4, <2>5, <2>6, <2>7, <2>8 DEF Answered
<1> QED BY <1>1, <1>2, <1>3

\* What Process does.
LEMMA ProcessFacts ==
  ASSUME LoopInv, Process
  PROVE  /\ pc = "process" /\ pc' = "top" /\ last' = cur
         /\ UNCHANGED <<loop, client, waiting, running, full, chunked, cur, can_run, rem, next, todo,
                        seen, retracted, retracts, aborts>>
         /\ results' = InQueue(Awaited')
         /\ Answered \subseteq Reqs \ Range(waiting)
         /\ tokens' \in [Reqs -> Seq(Nat \cup {Partial})] /\ to_finish' \in [Reqs -> BOOLEAN]
         /\ status' \in [Reqs -> {"new", "live", "finished", "dropped"}]
         /\ is_chunked' \in [Reqs -> Int]
         /\ \A r \in Answered : /\ tokens'[r] = Append(tokens[r], Len(tokens[r]))
                                /\ status[r] = "live" /\ status'[r] \in {"live", "finished"}
         /\ \A r \in Reqs \ Answered : tokens'[r] = tokens[r] /\ status'[r] = status[r]
         /\ \A r \in Reqs : is_chunked'[r] = is_chunked[r] - Cuts(Due, r)
<1> USE DEF LoopInv
<1>1. /\ pc = "process" /\ pc' = "top" /\ last' = cur
      /\ UNCHANGED <<loop, client, waiting, running, full, chunked, cur, can_run, rem, next, todo,
                     seen, retracted, retracts, aborts>>
  BY DEF Process, config, adder, bounds
<1>2. /\ Launched = cur /\ results = InQueue(Awaited) \o InQueue(cur)
      /\ Awaited' = (IF loop = "overlap" THEN cur ELSE None)
      /\ loop \in {"normal", "overlap"}
  BY <1>1 DEF Launched, Awaited, QueueInv, SchedulerTypeOK
<1>3. /\ tokens \in [Reqs -> Seq(Nat \cup {Partial})] /\ to_finish \in [Reqs -> BOOLEAN]
      /\ status \in [Reqs -> {"new", "live", "finished", "dropped"}] /\ is_chunked \in [Reqs -> Nat]
      /\ \A r \in Reqs : Len(tokens[r]) \in Nat
  BY DEF SchedulerTypeOK
<1>4. CASE Due = None
  <2>1. ~((loop = "normal" /\ cur # None) \/ (loop = "overlap" /\ last # None))
    BY <1>4 DEF Due
  <2>2. UNCHANGED <<tokens, status, to_finish, is_chunked, results>>
    BY <2>1 DEF Process
  <2>3. results = InQueue(Awaited')
    <3>1. CASE loop = "overlap"
      BY <1>2, <1>4, <3>1, QueueFacts DEF Awaited, Due
    <3>2. CASE loop = "normal"
      <4>1. results = InQueue(None) \o InQueue(None) /\ Awaited' = None
        BY <1>2, <1>4, <3>2 DEF Awaited, Due
      <4> QED BY <4>1, QueueFacts
    <3> QED BY <1>2, <3>1, <3>2
  <2>4. Answered = {} /\ \A r \in Reqs : Cuts(Due, r) = 0
    BY <1>4 DEF Answered, Cuts
  <2> QED BY <1>1, <1>3, <2>2, <2>3, <2>4
<1>5. CASE Due # None
  <2>1. (loop = "normal" /\ cur # None) \/ (loop = "overlap" /\ last # None)
    BY <1>2, <1>5 DEF Due
  <2>2. ProcessResult(Head(results)) /\ results' = Tail(results)
    BY <2>1 DEF Process
  <2>3. Head(results) = Due /\ Tail(results) = InQueue(Awaited')
    <3>1. CASE loop = "overlap"
      <4>1. results = InQueue(Due) \o InQueue(cur) /\ Awaited' = cur
        BY <1>2, <3>1 DEF Awaited, Due
      <4> QED BY <1>5, <4>1, QueueFacts
    <3>2. CASE loop = "normal"
      <4>1. results = InQueue(None) \o InQueue(Due) /\ Awaited' = None
        BY <1>2, <3>2 DEF Awaited, Due
      <4>2. results = InQueue(Due) \o InQueue(None)
        BY <4>1, QueueFacts
      <4> QED BY <1>5, <4>1, <4>2, QueueFacts
    <3> QED BY <1>2, <3>1, <3>2
  <2> DEFINE taken == {r \in Due.reqs : ~Skipped(Due, r)}
             ended == {r \in taken : Due.mode = "decode" \/ is_chunked[r] = 0}
             forced == {r \in ended : to_finish[r] \/ Len(tokens[r]) + 1 >= MaxNew}
  <2>4. PICK eos \in SUBSET (ended \ forced) :
          /\ tokens' = [r \in Reqs |-> IF r \in ended THEN Append(tokens[r], Due.seen[r]) ELSE tokens[r]]
          /\ status' = [r \in Reqs |-> IF r \in forced \cup eos THEN "finished" ELSE status[r]]
          /\ to_finish' = [r \in Reqs |-> to_finish[r] /\ r \notin forced]
          /\ is_chunked' = [r \in Reqs |-> is_chunked[r] - (IF r \in taken \ ended THEN 1 ELSE 0)]
    <3>1. ProcessResult(Due)
      BY <2>2, <2>3
    <3> QED BY <3>1, Zenon DEF ProcessResult
  <2>5. forced \cup eos \subseteq ended
    OBVIOUS
  <2>6. ended = Answered
    BY <1>1, <1>5, DueFacts DEF Answered
  <2>7. \A r \in Reqs : r \in taken \ ended <=> r \in Due.reqs /\ r = Due.chunked
    BY <1>1, <1>5, DueFacts
  <2>8. \A r \in Reqs : Cuts(Due, r) = IF r \in taken \ ended THEN 1 ELSE 0
    <3>1. \A r \in Reqs : r = Due.chunked => r \in Due.reqs
      <4>1. CASE loop = "overlap"
        BY <1>5, <4>1, SchedulerAssumption DEF Due, ChunkInv, HeldOf
      <4>2. CASE loop = "normal"
        BY <1>1, <1>5, <4>2, SchedulerAssumption DEF Due, ChunkInv, HeldOf, Recent
      <4> QED BY <1>2, <4>1, <4>2
    <3> QED BY <1>5, <2>7, <3>1 DEF Cuts
  <2> HIDE DEF taken, ended, forced
  <2>9. Answered \subseteq Reqs \ Range(waiting) /\ \A r \in Answered : Due.seen[r] = Len(tokens[r]) /\ status[r] = "live"
    BY <1>1, <1>5, DueFacts DEF Answered
  <2>10. tokens' \in [Reqs -> Seq(Nat \cup {Partial})]
    <3>1. \A r \in Answered : Append(tokens[r], Due.seen[r]) \in Seq(Nat \cup {Partial})
      BY <1>3, <2>9
    <3> QED BY <1>3, <2>4, <2>6, <3>1
  <2>11. to_finish' \in [Reqs -> BOOLEAN]
    BY <1>3, <2>4
  <2>12. status' \in [Reqs -> {"new", "live", "finished", "dropped"}] /\ is_chunked' \in [Reqs -> Int]
    BY <1>3, <2>4
  <2>13. \A r \in Answered : /\ tokens'[r] = Append(tokens[r], Len(tokens[r]))
                             /\ status[r] = "live" /\ status'[r] \in {"live", "finished"}
    BY <2>4, <2>6, <2>9
  <2>14. \A r \in Reqs \ Answered : tokens'[r] = tokens[r] /\ status'[r] = status[r]
    BY <2>4, <2>5, <2>6
  <2>15. \A r \in Reqs : is_chunked'[r] = is_chunked[r] - Cuts(Due, r)
    BY <2>4, <2>8
  <2> QED BY <1>1, <2>2, <2>3, <2>9, <2>10, <2>11, <2>12, <2>13, <2>14, <2>15
<1> QED BY <1>4, <1>5

\* The result that is due is taken, and the other one becomes due.
LEMMA ProcessStep ==
  ASSUME LoopInv, Process
  PROVE  LoopInv'
<1> USE DEF LoopInv
<1>1. /\ pc = "process" /\ pc' = "top" /\ last' = cur
      /\ UNCHANGED <<loop, client, waiting, running, full, chunked, cur, can_run, rem, next, todo,
                     seen, retracted, retracts, aborts>>
      /\ results' = InQueue(Awaited')
      /\ Answered \subseteq Reqs \ Range(waiting)
      /\ tokens' \in [Reqs -> Seq(Nat \cup {Partial})] /\ to_finish' \in [Reqs -> BOOLEAN]
      /\ status' \in [Reqs -> {"new", "live", "finished", "dropped"}]
      /\ is_chunked' \in [Reqs -> Int]
  BY ProcessFacts
<1>2. \A r \in Reqs : r \in Answered => /\ tokens'[r] = Append(tokens[r], Len(tokens[r]))
                                        /\ status[r] = "live" /\ status'[r] \in {"live", "finished"}
  BY ProcessFacts
<1>3. \A r \in Reqs : r \notin Answered => tokens'[r] = tokens[r] /\ status'[r] = status[r]
  BY ProcessFacts
<1>4. \A r \in Reqs : is_chunked'[r] = is_chunked[r] - Cuts(Due, r)
  BY ProcessFacts
<1>5. /\ Launched = cur /\ Launched' = None /\ Recent = cur /\ Recent' = cur
      /\ Awaited' = (IF loop = "overlap" THEN cur ELSE None)
      /\ Range(waiting)' = Range(waiting) /\ loop \in {"normal", "overlap"} /\ None \notin Reqs
      /\ Joining = HeldOf(cur) /\ Joining' = HeldOf(cur) /\ HeldOf(Recent)' = HeldOf(cur)
      /\ HeldOf(last)' = HeldOf(cur)
      /\ Decoding = running \cup (HeldOf(cur) \ {chunked}) /\ Decoding' = Decoding /\ Placed' = Placed
  BY <1>1, SchedulerAssumption
     DEF Launched, Recent, Awaited, HeldOf, Joining, Decoding, Placed, SchedulerTypeOK
<1>6. /\ running \subseteq Reqs /\ HeldOf(cur) \subseteq Reqs /\ Range(waiting) \subseteq Reqs
      /\ cur # None => cur.reqs \subseteq Reqs /\ HeldOf(cur) \subseteq cur.reqs
  BY BatchFacts, RangeOfSeq DEF HeldOf, SchedulerTypeOK
<1>7. cur # None => \A r \in cur.reqs : r \notin Range(waiting) /\ status[r] = "live" /\ ~retracted[r]
  BY <1>5 DEF BatchInv
<1>8. QueueInv'
  <2>1. results' = InQueue(Awaited') \o InQueue(None)
    BY <1>1, QueueFacts
  <2> QED BY <1>5, <2>1 DEF QueueInv, InQueue
<1>9. CountInv'
  <2>1. SUFFICES ASSUME NEW r \in Reqs PROVE is_chunked'[r] = Cuts(Awaited', r)
    BY <1>5 DEF CountInv, Cuts
  <2>2. is_chunked[r] = Cuts(Awaited, r) + Cuts(cur, r) /\ Cuts(None, r) = 0
    BY <1>5 DEF CountInv, Cuts
  <2>3. Cuts(last, r) \in Nat /\ Cuts(cur, r) \in Nat
    BY DEF Cuts
  <2> QED BY <1>4, <1>5, <2>2, <2>3 DEF Due, Awaited
<1>10. SchedulerTypeOK'
  <2>1. is_chunked' \in [Reqs -> Nat]
    <3>1. \A r \in Reqs : is_chunked'[r] \in Nat
      BY <1>9 DEF CountInv, Cuts
    <3> QED BY <1>1, <3>1
  <2>2. Range(results') \subseteq {cur} \ {None}
    BY <1>1, <1>5 DEF InQueue, Range
  <2>3. \A b \in ({last', cur'} \cup Range(results')) \ {None} :
          b.reqs \in (SUBSET Reqs) \ {{}} /\ b \in Batch(b.reqs)
    BY <1>1, <2>2 DEF SchedulerTypeOK
  <2> QED BY <1>1, <2>1, <2>3 DEF SchedulerTypeOK
<1>11. AdderInv' /\ CapacityInv'
  BY <1>1, <1>5 DEF AdderInv, CapacityInv
<1>12. PlaceInv'
  <2>1. \A r \in Range(waiting) : status'[r] = "live"
    BY <1>1, <1>3, <1>6 DEF PlaceInv
  <2>2. \A r \in running \cup HeldOf(cur) : status'[r] \in {"live", "finished"}
    BY <1>2, <1>3, <1>5, <1>6 DEF PlaceInv
  <2>3. Live' \subseteq Live
    BY <1>2, <1>3 DEF Live
  <2> QED BY <1>1, <1>5, <2>1, <2>2, <2>3 DEF PlaceInv
<1>13. BatchInv'
  <2>1. cur # None => \A r \in cur.reqs : status'[r] \in {"live", "finished"}
    BY <1>2, <1>3, <1>6, <1>7
  <2> QED BY <1>1, <1>5, <1>7, <2>1 DEF BatchInv
<1>14. chunked # None => /\ status'[chunked] = "live" /\ ~retracted[chunked] /\ chunked \in HeldOf(cur)
                         /\ chunked \notin running
  <2>1. SUFFICES ASSUME chunked # None
                 PROVE  /\ status'[chunked] = "live" /\ ~retracted[chunked] /\ chunked \in HeldOf(cur)
                        /\ chunked \notin running
    OBVIOUS
  <2>2. chunked \in HeldOf(cur) /\ status[chunked] = "live"
    BY <1>1, <1>5, <2>1 DEF ChunkInv
  <2>3. cur # None /\ cur.mode = "extend" /\ chunked \in cur.reqs /\ cur.chunked = chunked /\ chunked \in Reqs
    BY <1>1, <1>5, <1>6, <2>2 DEF HeldOf, ChunkInv
  <2>4. chunked \notin Answered
    <3>1. CASE loop = "overlap"
      <4>1. last # None /\ chunked \in last.reqs => chunked = last.chunked
        BY <1>5, <2>3 DEF BatchInv
      <4> QED BY <3>1, <4>1 DEF Answered, Due
    <3>2. CASE loop = "normal"
      BY <2>3, <3>2 DEF Answered, Due
    <3> QED BY <1>5, <3>1, <3>2
  <2> QED BY <1>3, <1>5, <1>7, <2>2, <2>3, <2>4 DEF PlaceInv
<1>15. ChunkInv'
  <2>1. cur # None => cur.chunked = chunked
    BY <1>1, <1>5 DEF ChunkInv
  <2> QED BY <1>1, <1>5, <1>6, <1>14, <2>1 DEF ChunkInv
<1>16. \A r \in Reqs : /\ Len(tokens[r]) \in Nat
                       /\ Len(tokens'[r]) = Len(tokens[r]) + (IF r \in Answered THEN 1 ELSE 0)
  <2>1. \A r \in Reqs : Len(tokens[r]) \in Nat /\ Len(Append(tokens[r], Len(tokens[r]))) = Len(tokens[r]) + 1
    BY DEF SchedulerTypeOK
  <2>2. \A r \in Reqs : r \in Answered => Len(tokens'[r]) = Len(tokens[r]) + 1
    BY <1>2, <2>1
  <2>3. \A r \in Reqs : r \notin Answered => Len(tokens'[r]) = Len(tokens[r]) + 0
    BY <1>3, <2>1
  <2> QED BY <2>1, <2>2, <2>3
<1>17. SeenInv'
  <2>1. ASSUME NEW r \in Reqs, status[r] = "live", ~retracted[r]
        PROVE  r \in Answered <=> Gives(Due, r) = 1
    BY <2>1 DEF Answered, Gives
  <2>2. ASSUME NEW r \in Reqs, status[r] = "live", ~retracted[r]
        PROVE  Len(tokens'[r]) = Len(tokens[r]) + Gives(Due, r)
    <3>1. Gives(Due, r) \in {0, 1}
      BY DEF Gives
    <3> QED BY <1>16, <2>1, <2>2, <3>1
  <2>3. \A r \in Decoding : status'[r] = "live" => seen[r] = Len(tokens'[r]) - 1 + Gives(Awaited', r)
    <3>1. SUFFICES ASSUME NEW r \in Decoding, status'[r] = "live"
                   PROVE  seen[r] = Len(tokens'[r]) - 1 + Gives(Awaited', r)
      OBVIOUS
    <3>2. r \in Reqs /\ ~retracted[r]
      BY <1>5, <1>6, <1>7, <3>1 DEF BatchInv, HeldOf
    <3>3. status[r] = "live"
      BY <1>2, <1>3, <3>1, <3>2
    <3>4. seen[r] = Len(tokens[r]) - 1 + Gives(Awaited, r) + Gives(cur, r) /\ Gives(None, r) = 0
      BY <1>5, <3>3 DEF SeenInv, Gives
    <3>5. Gives(last, r) \in Nat /\ Gives(cur, r) \in Nat /\ Len(tokens[r]) \in Nat
      BY <1>16, <3>2 DEF Gives
    <3> QED BY <1>5, <2>2, <3>2, <3>3, <3>4, <3>5 DEF Awaited, Due
  <2>4. loop = "overlap" /\ cur # None => \A r \in cur.reqs : r # cur.chunked => cur.seen[r] = Len(tokens'[r])
    <3>1. SUFFICES ASSUME loop = "overlap", cur # None, NEW r \in cur.reqs, r # cur.chunked
                   PROVE  cur.seen[r] = Len(tokens'[r])
      OBVIOUS
    <3>2. r \in Reqs /\ status[r] = "live" /\ ~retracted[r]
      BY <1>6, <1>7, <3>1
    <3>3. cur.seen[r] = Len(tokens[r]) + Gives(Awaited, r)
      BY <1>5, <3>1 DEF SeenInv
    <3> QED BY <2>2, <3>1, <3>2, <3>3 DEF Awaited, Due
  <2>5. \A r \in Decoding' : status'[r] = "live" =>
          seen'[r] = Len(tokens'[r]) - 1 + Gives(Awaited', r) + Gives(Launched', r)
    <3>1. SUFFICES ASSUME NEW r \in Decoding, status'[r] = "live"
                   PROVE  seen[r] = Len(tokens'[r]) - 1 + Gives(Awaited', r) + Gives(None, r)
      BY <1>1, <1>5
    <3>2. r \in Reqs /\ Gives(None, r) = 0 /\ Gives(Awaited', r) \in Nat
      BY <1>5, <1>6 DEF Gives
    <3>3. Len(tokens'[r]) \in Nat
      BY <1>1, <3>2
    <3> QED BY <2>3, <3>1, <3>2, <3>3
  <2>6. SeenInv!1'
    BY <2>5 DEF Gives
  <2>7. SeenInv!2'
    BY <1>5, <2>4
  <2>8. SeenInv!3'
    BY <1>5
  <2> QED BY <2>6, <2>7, <2>8 DEF SeenInv
<1>18. TokensInContext'
  <2>1. SUFFICES ASSUME NEW r \in Reqs, NEW i \in DOMAIN tokens'[r] PROVE tokens'[r][i] = i - 1
    BY DEF TokensInContext
  <2>2. tokens[r] \in Seq(Nat \cup {Partial}) /\ \A k \in DOMAIN tokens[r] : tokens[r][k] = k - 1
    BY DEF SchedulerTypeOK, TokensInContext
  <2>3. CASE r \in Answered
    <3>1. tokens'[r] = Append(tokens[r], Len(tokens[r])) /\ Len(tokens[r]) \in Nat
      BY <1>2, <1>16, <2>3
    <3>2. /\ DOMAIN tokens'[r] = 1..(Len(tokens[r]) + 1) /\ DOMAIN tokens[r] = 1..Len(tokens[r])
          /\ \A k \in 1..Len(tokens[r]) : tokens'[r][k] = tokens[r][k]
          /\ tokens'[r][Len(tokens[r]) + 1] = Len(tokens[r])
      BY <2>2, <3>1
    <3> QED BY <2>1, <2>2, <3>1, <3>2
  <2>4. CASE r \notin Answered
    BY <1>3, <2>1, <2>2, <2>4
  <2> QED BY <2>3, <2>4
<1> QED BY <1>8, <1>9, <1>10, <1>11, <1>12, <1>13, <1>15, <1>17, <1>18
-----------------------------------------------------------------------------
(* The specification *)

\* The server starts with nothing.
LEMMA InitLoop ==
  ASSUME Init
  PROVE  LoopInv
<1>1. /\ loop \in Loops /\ client \in Clients /\ pc = "top"
      /\ waiting = <<>> /\ running = {} /\ full = FALSE /\ chunked = None
      /\ last = None /\ cur = None /\ results = <<>>
      /\ can_run = {} /\ rem = 0 /\ next = 0 /\ todo = PromptLen
      /\ seen = [r \in Reqs |-> 0] /\ is_chunked = [r \in Reqs |-> 0]
      /\ retracted = [r \in Reqs |-> FALSE] /\ to_finish = [r \in Reqs |-> FALSE]
      /\ tokens = [r \in Reqs |-> <<>>] /\ status = [r \in Reqs |-> "new"]
      /\ retracts = 0 /\ aborts = 0
  BY DEF Init, SchedulerInit
<1>2. /\ Awaited = None /\ Launched = None /\ Recent = None /\ HeldOf(None) = {} /\ Joining = {}
      /\ Decoding = {} /\ Placed = {} /\ InQueue(None) = <<>> /\ Range(waiting) = {} /\ Live = {}
  BY <1>1 DEF Awaited, Launched, Recent, HeldOf, Joining, Decoding, Placed, InQueue, Range, Live
<1>3. SchedulerTypeOK
  <2>1. /\ todo \in [Reqs -> Nat] /\ loop \in {"normal", "overlap"} /\ client \in {"collector", "many"}
    BY <1>1, SchedulerAssumption
  <2>2. /\ seen \in [Reqs -> Nat \cup {Partial}] /\ is_chunked \in [Reqs -> Nat]
        /\ {retracted, to_finish} \subseteq [Reqs -> BOOLEAN]
    BY <1>1
  <2>3. tokens \in [Reqs -> Seq(Nat \cup {Partial})]
    BY <1>1
  <2>4. status \in [Reqs -> {"new", "live", "finished", "dropped"}]
    BY <1>1
  <2>5. Range(results) = {}
    BY <1>1 DEF Range
  <2>6. waiting \in Seq(Reqs) /\ {rem, next} \subseteq Nat /\ {retracts, aborts} \subseteq Nat
    BY <1>1
  <2>a. full \in BOOLEAN
    BY <1>1
  <2>7. ({last, cur} \cup Range(results)) \ {None} = {}
    BY <1>1, <2>5
  <2>8. pc = "top" /\ running \subseteq Reqs /\ can_run \subseteq Reqs /\ chunked \in Reqs \cup {None}
    BY <1>1
  <2> QED BY <2>1, <2>2, <2>3, <2>4, <2>6, <2>7, <2>8, <2>a DEF SchedulerTypeOK
<1>4. QueueInv
  BY <1>1, <1>2 DEF QueueInv
<1>5. AdderInv /\ BatchInv /\ ChunkInv
  BY <1>1, <1>2 DEF AdderInv, BatchInv, ChunkInv
<1>6. PlaceInv
  BY <1>1, <1>2 DEF PlaceInv, IsInjective
<1>7. CountInv /\ SeenInv /\ TokensInContext
  BY <1>1, <1>2 DEF CountInv, SeenInv, TokensInContext, Cuts
<1>8. CapacityInv
  BY <1>2, FS_EmptySet, SchedulerAssumption DEF CapacityInv
<1> QED BY <1>3, <1>4, <1>5, <1>6, <1>7, <1>8 DEF LoopInv

\* What the collector and the script do besides is nothing to the scheduler.
LEMMA ServerSteps ==
  ASSUME [Next]_vars
  PROVE  Iteration \/ (\E r \in Reqs : Submit(r) \/ Abort(r)) \/ UNCHANGED schedulerVars
BY DEF Next, Server, Send, Cancel, Dump, StartScript, ProcessFile, FailFile, vars

\* Every step keeps the invariant.
LEMMA LoopStep ==
  ASSUME LoopInv, [Next]_vars
  PROVE  LoopInv'
<1>1. CASE Iteration
  BY <1>1, MergeStep, StartPrefillStep, AddRequestStep, StopAddingStep, PrefillStep, NoPrefillStep,
     RunDecodeStep, RetractDecodeStep, NoBatchStep, ProcessStep DEF Iteration
<1>2. CASE \E r \in Reqs : Submit(r) \/ Abort(r)
  BY <1>2, SubmitStep, AbortStep
<1>3. CASE UNCHANGED schedulerVars
  <2>1. UNCHANGED <<loop, client, pc, waiting, running, full, chunked, last, cur, results, can_run, rem,
                    next, todo, seen, is_chunked, retracted, to_finish, tokens, status, retracts, aborts>>
    BY <1>3 DEF schedulerVars, config, batches, adder, requests, bounds
  <2>2. UNCHANGED <<Awaited, Launched, Recent, HeldOf(Recent), HeldOf(last), Joining, Decoding, Placed, Live>>
    BY <2>1 DEF Awaited, Launched, Recent, HeldOf, Joining, Decoding, Placed, Live
  <2>3. SchedulerTypeOK'
    BY <2>1 DEF LoopInv, SchedulerTypeOK
  <2>4. QueueInv' /\ AdderInv' /\ PlaceInv'
    BY <2>1, <2>2 DEF LoopInv, QueueInv, AdderInv, NoPlace, PlaceInv, InQueue
  <2>5. BatchInv' /\ ChunkInv' /\ CountInv' /\ TokensInContext' /\ CapacityInv'
    BY <2>1, <2>2 DEF LoopInv, BatchInv, ChunkInv, CountInv, TokensInContext, CapacityInv, Cuts
  <2>6. SeenInv'
    BY <2>1, <2>2 DEF LoopInv, SeenInv, Gives
  <2> QED BY <2>3, <2>4, <2>5, <2>6 DEF LoopInv
<1> QED BY <1>1, <1>2, <1>3, ServerSteps

\* The invariant holds of the server with the collector and the script.
THEOREM LoopCorrect == Spec => []LoopInv
<1>1. Init => LoopInv
  BY InitLoop
<1>2. LoopInv /\ [Next]_vars => LoopInv'
  BY LoopStep
<1> QED BY <1>1, <1>2, PTL DEF Spec

\* scheduler.py: between two iterations every request that was sent and is not done is in
\* exactly one place, the waiting queue, the running batch or a prefill batch that is to
\* be merged, whatever is aborted, chunked or retracted.
THEOREM NoRequestIsLost == Spec => []NoRequestLost
<1>1. LoopInv => NoRequestLost
  <2>1. SUFFICES ASSUME LoopInv, pc = "top" PROVE NoRequestLost
    BY DEF NoRequestLost
  <2>2. Held = HeldOf(last) /\ Joining = Held
    BY <2>1 DEF Held, HeldOf, Joining, Recent
  <2>3. running \cup Held \subseteq Reqs /\ Range(waiting) \subseteq Reqs
    BY <2>1, <2>2, BatchFacts, RangeOfSeq DEF LoopInv, SchedulerTypeOK, HeldOf
  <2>4. Live = Range(waiting) \cup Unfinished(running \cup Held)
    BY <2>1, <2>2, <2>3 DEF LoopInv, PlaceInv, Live, Unfinished
  <2> QED BY <2>1, <2>2, <2>4 DEF LoopInv, PlaceInv, NoRequestLost
<1> QED BY <1>1, LoopCorrect, PTL

\* process_batch_result: token i of an answer is the result of a pass that had seen the
\* prompt and the i-1 tokens before it, in the overlap loop as well.
THEOREM TokensHaveContext == Spec => []TokensInContext
<1>1. LoopInv => TokensInContext
  BY DEF LoopInv
<1> QED BY <1>1, LoopCorrect, PTL

\* get_new_batch_prefill: max_running_requests is kept by the requests that run and those
\* that are about to join them.
THEOREM CapacityIsHeld == Spec => []CapacityHeld
<1>1. LoopInv => CapacityHeld
  <2>1. SUFFICES ASSUME LoopInv, pc = "top" PROVE Cardinality(running \cup Unfinished(Held)) <= MaxRunning
    BY DEF CapacityHeld
  <2>2. running \cup Unfinished(Held) \subseteq Placed
    BY <2>1 DEF Held, HeldOf, Joining, Recent, Placed, Unfinished
  <2> QED BY <2>1, <2>2, FS_Subset, FS_CardinalityType, SchedulerAssumption DEF LoopInv, CapacityInv
<1> QED BY <1>1, LoopCorrect, PTL

\* Only a live request gets a token.
LEMMA FinalStep ==
  ASSUME LoopInv, [Next]_vars
  PROVE  \A r \in Reqs : status[r] # "live" => tokens'[r] = tokens[r]
<1>1. CASE Process
  BY <1>1, ProcessFacts
<1>2. CASE Iteration /\ ~Process
  <2>1. tokens' = tokens
    BY <1>2 DEF Iteration, Merge, StartPrefill, AddRequest, StopAdding, Prefill, NoPrefill, RunDecode,
                RetractDecode, NoBatch, requests
  <2> QED BY <2>1
<1>3. CASE \E r \in Reqs : Submit(r) \/ Abort(r)
  <2>1. tokens' = tokens
    BY <1>3 DEF Submit, Abort
  <2> QED BY <2>1
<1>4. CASE UNCHANGED schedulerVars
  BY <1>4 DEF schedulerVars, requests
<1> QED BY <1>1, <1>2, <1>3, <1>4, ServerSteps

\* process_batch_result: no step adds a token to a request that has finished, although the
\* overlap loop launches one more pass for it, nor to one that was dropped.
THEOREM AnswersAreFinal == Spec => AnswerIsFinal
<1> DEFINE Final == \A r \in Reqs : status[r] # "live" => tokens'[r] = tokens[r]
<1>1. LoopInv /\ [Next]_vars => [Final]_schedulerVars
  BY FinalStep
<1> QED BY <1>1, LoopCorrect, PTL DEF Spec, AnswerIsFinal
-----------------------------------------------------------------------------
(* Sequences of sequences *)

\* Every set of natural numbers that is not empty has a least one.
LEMMA Least ==
  ASSUME NEW T \in SUBSET Nat, T # {}
  PROVE  \E x \in T : \A y \in T : x <= y
<1>1. PICK x \in T : \A y \in T : ~(<<y, x>> \in OpToRel(<, Nat))
  BY NatLessThanWellFounded, WFMin
<1>2. ASSUME NEW y \in T PROVE x <= y
  <2>1. ~(<<y, x>> \in OpToRel(<, Nat))
    BY <1>1
  <2>2. ~(y < x)
    BY <2>1, x \in Nat, y \in Nat DEF OpToRel
  <2> QED BY <2>2
<1> QED BY <1>2

\* Induction: a set with 1 that has the successors of its numbers has all from 1 on.
LEMMA Induct ==
  ASSUME NEW S, 1 \in S, \A n \in Nat \ {0} : n \in S => n + 1 \in S
  PROVE  Nat \ {0} \subseteq S
<1>1. SUFFICES ASSUME (Nat \ {0}) \ S # {} PROVE FALSE
  OBVIOUS
<1>2. PICK x \in (Nat \ {0}) \ S : \A y \in (Nat \ {0}) \ S : x <= y
  BY <1>1, Least
<1>3. x # 1 /\ x - 1 \in Nat \ {0} /\ ~(x <= x - 1) /\ x - 1 + 1 = x
  BY <1>2
<1>4. x - 1 \in S
  BY <1>2, <1>3
<1> QED BY <1>2, <1>3, <1>4

\* F[i] is the first i of the sequences ss, joined.
Joins(F, n, ss) == F = [i \in 1..n |-> IF i = 1 THEN ss[i] ELSE F[i - 1] \o ss[i]]

\* The same, step by step.
Grows(F, n, ss) == F[1] = ss[1] /\ \A j \in Nat \ {0} : j + 1 <= n => F[j + 1] = F[j] \o ss[j + 1]

\* Unfolding it.
LEMMA JoinsStep ==
  ASSUME NEW ss, NEW n \in Nat \ {0}, NEW F, Joins(F, n, ss)
  PROVE  Grows(F, n, ss)
<1>1. F = [i \in 1..n |-> IF i = 1 THEN ss[i] ELSE F[i - 1] \o ss[i]]
  BY DEF Joins
<1>2. ASSUME NEW i \in 1..n PROVE (i = 1 => F[i] = ss[i]) /\ (i # 1 => F[i] = F[i - 1] \o ss[i])
  BY <1>1
<1>3. F[1] = ss[1]
  <2>1. 1 \in 1..n
    OBVIOUS
  <2> QED BY <1>2, <2>1, Zenon
<1>4. ASSUME NEW j \in Nat \ {0}, j + 1 <= n PROVE F[j + 1] = F[j] \o ss[j + 1]
  <2>1. PICK i \in 1..n : i = j + 1
    BY <1>4
  <2>2. i - 1 = j /\ i # 1
    BY <2>1
  <2>3. F[i] = F[i - 1] \o ss[i]
    BY <1>2, <2>2, Zenon
  <2>4. F[i] = F[j] \o ss[i]
    BY <2>2, <2>3, Zenon
  <2> QED BY <2>1, <2>4, Zenon
<1> QED BY <1>3, <1>4 DEF Grows

\* There is such an F for any number of sequences.
LEMMA JoinsExist ==
  ASSUME NEW ss, NEW N \in Nat \ {0}
  PROVE  \E F : Joins(F, N, ss)
<1> DEFINE S == {n \in Nat \ {0} : \E F : Joins(F, n, ss)}
<1>1. 1 \in S
  <2> DEFINE F == [i \in 1..1 |-> ss[i]]
  <2>1. F = [i \in 1..1 |-> IF i = 1 THEN ss[i] ELSE F[i - 1] \o ss[i]]
    OBVIOUS
  <2>2. Joins(F, 1, ss)
    BY <2>1, Zenon DEF Joins
  <2> QED BY <2>2
<1>2. ASSUME NEW n \in Nat \ {0}, n \in S PROVE n + 1 \in S
  <2>1. PICK F : Joins(F, n, ss)
    BY <1>2
  <2>a. F = [i \in 1..n |-> IF i = 1 THEN ss[i] ELSE F[i - 1] \o ss[i]]
    BY <2>1 DEF Joins
  <2> DEFINE x == F[n] \o ss[n + 1]
             G == [i \in 1..(n + 1) |-> IF i = n + 1 THEN x ELSE F[i]]
  <2>2. ASSUME NEW i \in 1..(n + 1)
        PROVE  G[i] = IF i = 1 THEN ss[i] ELSE G[i - 1] \o ss[i]
    <3>1. CASE i = n + 1
      <4>1. i - 1 = n /\ n \in 1..(n + 1) /\ n # n + 1 /\ i # 1
        BY <3>1
      <4>2. G[n] = F[n]
        BY <4>1
      <4>3. G[i] = x
        BY <3>1
      <4> QED BY <3>1, <4>1, <4>2, <4>3
    <3>2. CASE i = 1
      <4>1. i \in 1..n /\ i # n + 1
        BY <3>2
      <4>2. F[i] = ss[i]
        BY <2>a, <3>2, <4>1
      <4> QED BY <3>2, <4>1, <4>2
    <3>3. CASE i # n + 1 /\ i # 1
      <4>1. i \in 1..n /\ i - 1 \in 1..(n + 1) /\ i - 1 # n + 1
        BY <3>3
      <4>2. G[i] = F[i] /\ G[i - 1] = F[i - 1]
        BY <3>3, <4>1
      <4>3. F[i] = F[i - 1] \o ss[i]
        BY <2>a, <3>3, <4>1
      <4> QED BY <3>3, <4>2, <4>3
    <3> QED BY <3>1, <3>2, <3>3
  <2>3. G = [i \in 1..(n + 1) |-> G[i]]
    OBVIOUS
  <2> HIDE DEF G
  <2>4. G = [i \in 1..(n + 1) |-> IF i = 1 THEN ss[i] ELSE G[i - 1] \o ss[i]]
    BY <2>2, <2>3
  <2>5. Joins(G, n + 1, ss)
    BY <2>4, Zenon DEF Joins
  <2> QED BY <2>5
<1>3. Nat \ {0} \subseteq S
  <2> HIDE DEF S
  <2> QED BY <1>1, <1>2, Induct
<1> QED BY <1>3

\* FlattenSeq takes the last of F.
LEMMA FlattenJoins ==
  ASSUME NEW ss, Len(ss) \in Nat \ {0}
  PROVE  \E F : Grows(F, Len(ss), ss) /\ FlattenSeq(ss) = F[Len(ss)]
<1> DEFINE F == CHOOSE f : f = [i \in 1..Len(ss) |-> IF i = 1 THEN ss[i] ELSE f[i - 1] \o ss[i]]
<1>1. FlattenSeq(ss) = F[Len(ss)]
  BY DEF FlattenSeq
<1>2. F = [i \in 1..Len(ss) |-> IF i = 1 THEN ss[i] ELSE F[i - 1] \o ss[i]]
  <2>1. \E f : f = [i \in 1..Len(ss) |-> IF i = 1 THEN ss[i] ELSE f[i - 1] \o ss[i]]
    BY JoinsExist DEF Joins
  <2> QED BY <2>1, Zenon
<1> HIDE DEF F
<1>3. Joins(F, Len(ss), ss)
  BY <1>2, Zenon DEF Joins
<1>4. Grows(F, Len(ss), ss)
  BY <1>3, JoinsStep
<1> QED BY <1>1, <1>4

\* The first k of both are the same sequences over S.
SameUpto(k, ss, tt, S) == \A i \in 1..k : ss[i] = tt[i] /\ ss[i] \in Seq(S)

\* Two such functions agree as far as their sequences do.
LEMMA JoinsAgree ==
  ASSUME NEW S, NEW ss, NEW tt, NEW n \in Nat \ {0}, NEW m \in Nat \ {0}, NEW F, NEW G, Grows(F, n, ss), Grows(G, m, tt),
         NEW k \in Nat \ {0}, k <= n, k <= m, SameUpto(k, ss, tt, S)
  PROVE  F[k] = G[k] /\ F[k] \in Seq(S)
<1> DEFINE T == {i \in Nat \ {0} : i <= k => F[i] = G[i] /\ F[i] \in Seq(S)}
<1>a. F[1] = ss[1] /\ \A j \in Nat \ {0} : j + 1 <= n => F[j + 1] = F[j] \o ss[j + 1]
  BY DEF Grows
<1>b. G[1] = tt[1] /\ \A j \in Nat \ {0} : j + 1 <= m => G[j + 1] = G[j] \o tt[j + 1]
  BY DEF Grows
<1>1. 1 \in T
  <2>1. 1 \in 1..k
    OBVIOUS
  <2>2. ss[1] = tt[1] /\ ss[1] \in Seq(S)
    BY <2>1, Zenon DEF SameUpto
  <2> QED BY <1>a, <1>b, <2>2
<1>2. ASSUME NEW i \in Nat \ {0}, i \in T PROVE i + 1 \in T
  <2>1. SUFFICES ASSUME i + 1 <= k PROVE F[i + 1] = G[i + 1] /\ F[i + 1] \in Seq(S)
    OBVIOUS
  <2>2. F[i] = G[i] /\ F[i] \in Seq(S)
    BY <1>2, <2>1
  <2>3. i + 1 <= n /\ i + 1 <= m /\ i + 1 \in 1..k
    BY <2>1
  <2>4. F[i + 1] = F[i] \o ss[i + 1]
    BY <1>a, <2>3, Zenon
  <2>5. G[i + 1] = G[i] \o tt[i + 1]
    BY <1>b, <2>3, Zenon
  <2>6. ss[i + 1] = tt[i + 1] /\ ss[i + 1] \in Seq(S)
    BY <2>3, Zenon DEF SameUpto
  <2> QED BY <2>2, <2>4, <2>5, <2>6
<1>3. Nat \ {0} \subseteq T
  <2> HIDE DEF T
  <2> QED BY <1>1, <1>2, Induct
<1> QED BY <1>3

\* What FlattenSeq does with no sequence, and with one more.
LEMMA Flattened ==
  ASSUME NEW S, NEW ss \in Seq(Seq(S))
  PROVE  /\ FlattenSeq(ss) \in Seq(S)
         /\ ss = <<>> => FlattenSeq(ss) = <<>>
         /\ \A s \in Seq(S) : FlattenSeq(Append(ss, s)) = FlattenSeq(ss) \o s
<1>0. Len(ss) \in Nat /\ \A i \in 1..Len(ss) : ss[i] \in Seq(S)
  OBVIOUS
<1>1. CASE ss = <<>>
  <2>1. FlattenSeq(ss) = <<>>
    BY <1>1 DEF FlattenSeq
  <2>2. ASSUME NEW s \in Seq(S) PROVE FlattenSeq(Append(ss, s)) = s
    <3> DEFINE tt == Append(ss, s)
    <3>1. Len(tt) = 1 /\ tt[1] = s /\ Len(tt) \in Nat \ {0}
      BY <1>1
    <3> HIDE DEF tt
    <3>2. PICK F : Grows(F, Len(tt), tt) /\ FlattenSeq(tt) = F[Len(tt)]
      BY <3>1, FlattenJoins
    <3>4. F[1] = tt[1]
      BY <3>1, <3>2 DEF Grows
    <3> QED BY <3>1, <3>2, <3>4 DEF tt
  <2>3. ASSUME NEW s \in Seq(S) PROVE <<>> \o s = s
    BY ConcatEmptySeq
  <2> QED BY <2>1, <2>2, <2>3
<1>2. CASE ss # <<>>
  <2>1. Len(ss) \in Nat \ {0}
    BY <1>2
  <2>2. PICK F : Grows(F, Len(ss), ss) /\ FlattenSeq(ss) = F[Len(ss)]
    BY <2>1, FlattenJoins
  <2>3. F[Len(ss)] \in Seq(S)
    <3>1. SameUpto(Len(ss), ss, ss, S)
      BY <1>0 DEF SameUpto
    <3> QED BY <2>1, <2>2, <3>1, JoinsAgree
  <2>4. ASSUME NEW s \in Seq(S) PROVE FlattenSeq(Append(ss, s)) = FlattenSeq(ss) \o s
    <3> DEFINE tt == Append(ss, s)
               n == Len(ss)
    <3>1. Len(tt) = n + 1 /\ tt[n + 1] = s /\ \A i \in 1..n : ss[i] = tt[i] /\ ss[i] \in Seq(S)
      BY <1>0
    <3>2. n \in Nat \ {0} /\ n + 1 \in Nat \ {0} /\ n <= n + 1 /\ n <= n /\ n + 1 <= n + 1
      BY <2>1
    <3> HIDE DEF tt
    <3>3. PICK G : Grows(G, Len(tt), tt) /\ FlattenSeq(tt) = G[Len(tt)]
      BY <3>1, <3>2, FlattenJoins
    <3> HIDE DEF n
    <3>4. Grows(F, n, ss) /\ Grows(G, n + 1, tt)
      BY <2>2, <3>1, <3>3 DEF n
    <3>a. SameUpto(n, ss, tt, S)
      BY <3>1 DEF SameUpto
    <3>5. F[n] = G[n]
      <4> DEFINE q == n + 1
      <4>1. q \in Nat \ {0} /\ n <= q
        BY <3>2
      <4>2. Grows(G, q, tt)
        BY <3>4
      <4> HIDE DEF q
      <4> QED BY <3>2, <3>4, <3>a, <4>1, <4>2, JoinsAgree
    <3>7. G[n + 1] = G[n] \o tt[n + 1]
      BY <3>2, <3>4 DEF Grows
    <3> QED BY <2>2, <3>1, <3>3, <3>5, <3>7 DEF tt, n
  <2> QED BY <1>2, <2>2, <2>3, <2>4
<1> QED BY <1>1, <1>2
-----------------------------------------------------------------------------
(* The invariant of the records *)

\* The records of a request, the files and the script have their types.
FileInv ==
  /\ log \in Seq(Record) /\ files \in Seq(Seq(Record)) /\ Len(files) <= MaxFiles
  /\ order \in Seq(Reqs) /\ token_ids \in Seq(Token)
  /\ script \in 0..(Len(files) + 1) /\ start \in Nat /\ faults \in 0..MaxFaults
  /\ aligned \in Seq(Row)

\* The collector has one request at a time, and so nothing is ever retracted.
OneInv ==
  /\ \A q, r \in Live : q = r
  /\ \A r \in Reqs : ~retracted[r]

\* What is left of the prompts of requests that are new, or live.
TodoInv ==
  /\ \A r \in Reqs : todo[r] <= PromptLen[r]
  /\ \A r \in Reqs : status[r] = "new" => todo[r] = PromptLen[r] /\ tokens[r] = <<>>
  /\ \A r \in Live :
       /\ r \in running \/ Gives(last, r) = 1 \/ Gives(Launched, r) = 1 => todo[r] = 0
       /\ r \in Range(waiting) \ can_run => todo[r] > 0
       /\ pc \notin {"add", "launch"} /\ r = chunked => todo[r] > 0
       /\ pc \in {"add", "launch"} /\ r \in can_run => (r = chunked <=> todo[r] > 0)
  /\ pc = "add" /\ can_run = {} => rem = ChunkSize
  /\ chunked # None => PromptLen[chunked] > ChunkSize

\* With the overlap loop a request that is to get a token is in the next batch too.
NextInv ==
  pc = "process" /\ loop = "overlap" => \A r \in Live : Gives(last, r) = 1 => Gives(cur, r) = 1

\* What the server keeps for the collector, but for its records.
OneRequest == OneInv /\ TodoInv /\ NextInv

\* The passes that the prompt of r still takes.
Left(r) == (todo[r] + ChunkSize - 1) \div ChunkSize

\* The pass of r that is left out: its last, which gives a token, or one that is not launched.
Open(r) == IF todo[r] = 0 \/ (pc \in {"add", "launch"} /\ r \in can_run) THEN 1 ELSE 0

\* The passes of r that have been launched: those of the prompt but the last, and one for
\* each token that r has or will get.
Passes(r) ==
  NumChunks(r) - Left(r) - Open(r) + Len(tokens[r]) + Gives(Awaited, r) + Gives(Launched, r)

\* The records of r are its passes.
PassInvOf(r) ==
  /\ IsFiniteSet(RecordsOf(r))
  /\ status[r] = "new" => RecordsOf(r) = {}
  /\ status[r] = "live" => Cardinality(RecordsOf(r)) = Passes(r)
  /\ status[r] = "finished" => Cardinality(RecordsOf(r)) =
       Len(tokens[r]) + NumChunks(r) - 1 + (IF loop = "overlap" THEN 1 ELSE 0)

PassInv == \A r \in Reqs : PassInvOf(r)

\* The invariant of the records.
RecordInv == client = "collector" => OneRequest /\ PassInv

\* inference_results: the requests in the order of their submission.
OrderInv ==
  /\ IsInjective(order)
  /\ \A i \in DOMAIN order : status[order[i]] # "new"
  /\ Live # {} => order # <<>> /\ order[Len(order)] \in Live

\* All prompts so far are of one chunk.
Short == \A i \in DOMAIN order : NumChunks(order[i]) = 1

\* There is a record for each token, in the same order, and one for the pass under way.
Fits ==
  /\ Len(AllRecords) = Len(Generated) + (IF Launched = None THEN 0 ELSE 1)
  /\ \A j \in DOMAIN Generated : AllRecords[j] = [req |-> Generated[j].req, seen |-> Generated[j].pos - 1]
  /\ Launched # None => \A r \in Launched.reqs : AllRecords[Len(AllRecords)] = [req |-> r, seen |-> Len(tokens[r])]

\* This holds with the normal loop and prompts of one chunk.
FitInv == loop = "normal" /\ Short => Fits

\* The records of the first k files.
FirstFiles(k) == FlattenSeq(SubSeq(files, 1, k))

\* The records of the files that the script has read.
ReadSoFar == FirstFiles(script - 1)

\* Until it has failed at a file the script has the rows of the records so far.
ScriptInv ==
  /\ script = 0 => start = 0 /\ aligned = <<>> /\ faults = 0
  /\ script > 0 => /\ client = "collector" /\ Live = {} /\ log = <<>>
                   /\ faults = 0 => start = Len(ReadSoFar) /\ aligned = AlignBatch(ReadSoFar)
-----------------------------------------------------------------------------
(* The files and the rows *)

\* The output tokens of one request.
TokenRows(r, toks) == [i \in DOMAIN toks[r] |-> [req |-> r, pos |-> i]]

\* The same for requests in an order.
RowsOf(ord, toks) == [k \in DOMAIN ord |-> TokenRows(ord[k], toks)]

\* One for each token.
LEMMA TokenRowsType ==
  ASSUME NEW r \in Reqs, NEW toks \in [Reqs -> Seq(Nat \cup {Partial})]
  PROVE  TokenRows(r, toks) \in Seq(Token) /\ Len(TokenRows(r, toks)) = Len(toks[r])
<1>1. toks[r] \in Seq(Nat \cup {Partial})
  OBVIOUS
<1>2. DOMAIN toks[r] = 1..Len(toks[r]) /\ Len(toks[r]) \in Nat
  BY <1>1
<1>3. TokenRows(r, toks) = [i \in 1..Len(toks[r]) |-> [req |-> r, pos |-> i]]
  BY <1>2 DEF TokenRows
<1>4. ASSUME NEW i \in 1..Len(toks[r]) PROVE [req |-> r, pos |-> i] \in Token
  BY <1>2 DEF Token
<1> QED BY <1>2, <1>3, <1>4

\* One list for each request.
LEMMA RowsOfType ==
  ASSUME NEW ord \in Seq(Reqs), NEW toks \in [Reqs -> Seq(Nat \cup {Partial})]
  PROVE  RowsOf(ord, toks) \in Seq(Seq(Token)) /\ Len(RowsOf(ord, toks)) = Len(ord)
<1>1. DOMAIN ord = 1..Len(ord) /\ Len(ord) \in Nat
  OBVIOUS
<1>2. ASSUME NEW k \in 1..Len(ord) PROVE TokenRows(ord[k], toks) \in Seq(Token)
  <2>1. ord[k] \in Reqs
    BY <1>2
  <2> QED BY <2>1, TokenRowsType
<1> QED BY <1>1, <1>2 DEF RowsOf

\* The output tokens.
LEMMA GeneratedType ==
  ASSUME order \in Seq(Reqs), SchedulerTypeOK
  PROVE  Generated = FlattenSeq(RowsOf(order, tokens)) /\ Generated \in Seq(Token)
<1>1. Generated = FlattenSeq(RowsOf(order, tokens))
  BY DEF Generated, RowsOf, TokenRows
<1>2. tokens \in [Reqs -> Seq(Nat \cup {Partial})]
  BY DEF SchedulerTypeOK
<1>3. RowsOf(order, tokens) \in Seq(Seq(Token))
  BY <1>2, RowsOfType
<1> QED BY <1>1, <1>3, Flattened

\* The output tokens that a text is made of.
LEMMA TextType ==
  ASSUME NEW r \in Reqs, SchedulerTypeOK
  PROVE  TextOf(r) \in Seq(Nat \ {0})
<1> DEFINE n == Len(tokens[r])
           m == IF n < MaxNew THEN n - 1 ELSE n
<1>1. n \in Nat /\ MaxNew \in Nat
  <2>1. tokens[r] \in Seq(Nat \cup {Partial})
    BY DEF SchedulerTypeOK
  <2> QED BY <2>1, SchedulerAssumption
<1>2. TextOf(r) = [i \in 1..m |-> i]
  BY DEF TextOf
<1> HIDE DEF n
<1>3. CASE m \in Nat
  <2> HIDE DEF m
  <2>1. \A i \in 1..m : i \in Nat \ {0}
    BY <1>3
  <2> QED BY <1>2, <1>3, <2>1
<1>4. CASE m \notin Nat
  <2>1. m = -1
    BY <1>1, <1>4
  <2> HIDE DEF m
  <2>2. 1..m = 1..0
    BY <2>1
  <2>3. TextOf(r) = [i \in 1..0 |-> i] /\ \A i \in 1..0 : i \in Nat \ {0}
    BY <1>2, <2>2
  <2> QED BY <2>3
<1> QED BY <1>3, <1>4

\* all_token_ids, whatever the texts are encoded to.
LEMMA LoadedType ==
  ASSUME order \in Seq(Reqs), SchedulerTypeOK, NEW odd \in SUBSET DOMAIN order,
         NEW e \in [odd -> SeqOf(1..MaxNew, MaxEncoded)]
  PROVE  Prepared(Loaded(odd, e)) \in Seq(Token)
<1> DEFINE ids == Loaded(odd, e)
           rows(k) == [i \in DOMAIN ids[k] |-> [req |-> order[k], pos |-> ids[k][i]]]
           all == [k \in DOMAIN order |-> rows(k)]
<1>1. DOMAIN order = 1..Len(order) /\ Len(order) \in Nat
  OBVIOUS
<1>2. MaxNew \in Nat
  BY SchedulerAssumption
<1>3. ASSUME NEW k \in DOMAIN order PROVE ids[k] \in Seq(Nat \ {0}) /\ order[k] \in Reqs
  <2>1. order[k] \in Reqs
    BY <1>1
  <2>2. CASE k \in odd
    <3>1. ids[k] = e[k] /\ e[k] \in SeqOf(1..MaxNew, MaxEncoded)
      BY <2>2 DEF Loaded
    <3>2. PICK m \in 0..MaxEncoded : e[k] \in [1..m -> 1..MaxNew]
      BY <3>1 DEF SeqOf
    <3>3. m \in Nat /\ \A i \in 1..m : e[k][i] \in Nat \ {0}
      BY <1>2, <3>2
    <3>4. e[k] = [i \in 1..m |-> e[k][i]]
      BY <3>2
    <3>5. e[k] \in Seq(Nat \ {0})
      BY <3>3, <3>4
    <3> QED BY <2>1, <3>1, <3>5
  <2>3. CASE k \notin odd
    <3>1. ids[k] = TextOf(order[k])
      BY <2>3 DEF Loaded
    <3> QED BY <2>1, <3>1, TextType
  <2> QED BY <2>2, <2>3
<1> HIDE DEF ids
<1>4. ASSUME NEW k \in DOMAIN order PROVE rows(k) \in Seq(Token)
  <2>1. ids[k] \in Seq(Nat \ {0}) /\ order[k] \in Reqs
    BY <1>3
  <2>2. DOMAIN ids[k] = 1..Len(ids[k]) /\ Len(ids[k]) \in Nat
    BY <2>1
  <2>3. ASSUME NEW i \in 1..Len(ids[k]) PROVE [req |-> order[k], pos |-> ids[k][i]] \in Token
    <3>1. ids[k][i] \in Nat \ {0}
      BY <2>1
    <3> QED BY <2>1, <3>1 DEF Token
  <2> QED BY <2>2, <2>3
<1>5. Prepared(ids) = FlattenSeq(all)
  BY DEF Prepared
<1> HIDE DEF rows
<1>6. all \in Seq(Seq(Token))
  BY <1>1, <1>4
<1> HIDE DEF all
<1>7. FlattenSeq(all) \in Seq(Token)
  BY <1>6, Flattened
<1> QED BY <1>5, <1>7 DEF ids

\* How many rows a file gives.
NumRows(from, records) ==
  IF Len(token_ids) <= from THEN 0
  ELSE IF from + Len(records) <= Len(token_ids) THEN Len(records)
  ELSE Len(token_ids) - from

\* The rows of a file.
LEMMA StreamingRows ==
  ASSUME NEW from \in Nat, NEW records \in Seq(Record), token_ids \in Seq(Token)
  PROVE  /\ NumRows(from, records) \in Nat
         /\ AlignStreaming(from, records) =
              [i \in 1..NumRows(from, records) |-> [token |-> token_ids[from + i], record |-> records[i]]]
         /\ AlignStreaming(from, records) \in Seq(Row)
         /\ Len(AlignStreaming(from, records)) = NumRows(from, records)
<1> DEFINE n == NumRows(from, records)
           A == token_ids
<1>1. Len(A) \in Nat /\ Len(records) \in Nat /\ DOMAIN records = 1..Len(records)
  OBVIOUS
<1>2. n \in Nat /\ \A j \in Nat : (j \in 1..Len(records) /\ from + j <= Len(A)) <=> j \in 1..n
  BY <1>1 DEF NumRows
<1>3. {j \in DOMAIN records : from + j <= Len(A)} = 1..n
  <2> HIDE DEF n, A
  <2> QED BY <1>1, <1>2
<1>4. AlignStreaming(from, records) = [i \in 1..n |-> [token |-> A[from + i], record |-> records[i]]]
  BY <1>3 DEF AlignStreaming
<1>5. ASSUME NEW i \in 1..n
      PROVE  [token |-> A[from + i], record |-> records[i]] \in Row
  <2>1. i \in 1..Len(records) /\ from + i \in 1..Len(A)
    BY <1>1, <1>2
  <2>2. A[from + i] \in Token
    BY <2>1
  <2>3. records[i] \in Record
    BY <2>1
  <2> QED BY <2>2, <2>3 DEF Row, Token, Record
<1> HIDE DEF n
<1>6. AlignStreaming(from, records) \in Seq(Row) /\ Len(AlignStreaming(from, records)) = n
  BY <1>2, <1>4, <1>5
<1> QED BY <1>2, <1>4, <1>6 DEF n

\* What the recorder writes.
LEMMA RecordedFacts ==
  ASSUME LoopInv, LoopInv', Recorded, log \in Seq(Record)
  PROVE  \/ UNCHANGED log
         \/ /\ client = "collector" /\ pc # "process" /\ pc' = "process" /\ cur' # None
            /\ \E r \in cur'.reqs : /\ r \in Reqs
                                    /\ [req |-> r, seen |-> cur'.seen[r]] \in Record
                                    /\ log' = Append(log, [req |-> r, seen |-> cur'.seen[r]])
<1>1. SUFFICES ASSUME client = "collector", pc # "process", pc' = "process", cur' # None,
                      NEW r \in cur'.reqs, log' = Append(log, [req |-> r, seen |-> cur'.seen[r]])
               PROVE  r \in Reqs /\ [req |-> r, seen |-> cur'.seen[r]] \in Record
  BY DEF Recorded
<1>2. cur'.reqs \subseteq Reqs /\ cur' \in Batch(cur'.reqs)
  BY <1>1 DEF LoopInv, SchedulerTypeOK
<1>3. cur'.seen \in [cur'.reqs -> Nat \cup {Partial}]
  BY <1>2 DEF Batch
<1> QED BY <1>1, <1>2, <1>3 DEF Record

\* Every step keeps the types of the files.
LEMMA FileStep ==
  ASSUME LoopInv, LoopInv', FileInv, [Next]_vars
  PROVE  FileInv'
<1>0. MaxFiles \in Nat /\ MaxFaults \in Nat
  BY AlignmentAssumption
<1>1. token_ids \in Seq(Token)
  BY DEF FileInv
<1>2. CASE Server
  <2>1. UNCHANGED <<files, order, token_ids, script, start, aligned, faults>>
    BY <1>2 DEF Server, scriptVars
  <2>2. log' \in Seq(Record)
    <3>1. log \in Seq(Record) /\ Recorded
      BY <1>2 DEF Server, FileInv
    <3>2. CASE UNCHANGED log
      BY <3>1, <3>2
    <3>3. CASE \E r \in cur'.reqs : /\ [req |-> r, seen |-> cur'.seen[r]] \in Record
                                     /\ log' = Append(log, [req |-> r, seen |-> cur'.seen[r]])
      BY <3>1, <3>3
    <3> QED BY <3>1, <3>2, <3>3, RecordedFacts
  <2> QED BY <2>1, <2>2 DEF FileInv
<1>3. CASE \E r \in Reqs : Send(r)
  BY <1>3 DEF Send, scriptVars, FileInv
<1>4. CASE \E r \in Reqs : Cancel(r)
  BY <1>4 DEF Cancel, scriptVars, FileInv
<1>5. CASE Dump
  <2>1. /\ script = 0 /\ Len(files) < MaxFiles /\ files' = Append(files, log) /\ log' = <<>>
        /\ UNCHANGED <<order, token_ids, script, start, aligned, faults>>
    BY <1>5 DEF Dump, scriptVars
  <2>2. files' \in Seq(Seq(Record)) /\ Len(files') = Len(files) + 1
    BY <2>1 DEF FileInv
  <2>3. Len(files) \in Nat
    BY DEF FileInv
  <2> QED BY <1>0, <2>1, <2>2, <2>3 DEF FileInv
<1>6. CASE StartScript
  <2>1. script' = 1 /\ UNCHANGED <<log, files, order, start, aligned, faults>>
    BY <1>6 DEF StartScript
  <2>2. token_ids' \in Seq(Token)
    <3>1. PICK odd \in SUBSET DOMAIN order :
            \E e \in [odd -> SeqOf(1..MaxNew, MaxEncoded)] : token_ids' = Prepared(Loaded(odd, e))
      BY <1>6 DEF StartScript
    <3>2. PICK e \in [odd -> SeqOf(1..MaxNew, MaxEncoded)] : token_ids' = Prepared(Loaded(odd, e))
      BY <3>1
    <3> QED BY <3>2, LoadedType DEF FileInv, LoopInv
  <2>3. Len(files) \in Nat
    BY DEF FileInv
  <2> QED BY <2>1, <2>2, <2>3 DEF FileInv
<1>7. CASE ProcessFile
  <2>1. /\ script \in DOMAIN files /\ script' = script + 1
        /\ UNCHANGED <<log, files, order, token_ids, faults>>
    BY <1>7 DEF ProcessFile
  <2>2. files[script] \in Seq(Record) /\ script \in 1..Len(files) /\ Len(files) \in Nat
    BY <2>1 DEF FileInv
  <2>3. AlignStreaming(start, files[script]) \in Seq(Row)
    BY <1>1, <2>2, StreamingRows DEF FileInv
  <2>a. aligned \in Seq(Row) /\ start \in Nat /\ Len(files[script]) \in Nat
    BY <2>2 DEF FileInv
  <2>b. \/ UNCHANGED <<start, aligned>>
        \/ /\ aligned' = aligned \o AlignStreaming(start, files[script])
           /\ start' = start + Len(files[script])
    BY <1>7, Zenon DEF ProcessFile, Advance
  <2>c. aligned \o AlignStreaming(start, files[script]) \in Seq(Row)
    BY <2>3, <2>a
  <2>4. aligned' \in Seq(Row) /\ start' \in Nat
    <3>1. CASE start' = start /\ aligned' = aligned
      BY <3>1, <2>a
    <3>2. CASE /\ aligned' = aligned \o AlignStreaming(start, files[script])
               /\ start' = start + Len(files[script])
      <4>1. aligned' \in Seq(Row)
        BY <3>2, <2>c
      <4> DEFINE k == Len(files[script])
      <4> HIDE DEF k
      <4>2. start' = start + k /\ start \in Nat /\ k \in Nat
        BY <3>2, <2>a DEF k
      <4> QED BY <4>1, <4>2
    <3> QED BY <2>b, <3>1, <3>2
  <2> QED BY <2>1, <2>2, <2>4 DEF FileInv
<1>8. CASE FailFile
  <2> DEFINE rows == AlignStreaming(start, files[script])
  <2>1. /\ script \in DOMAIN files /\ script' = script + 1 /\ faults < MaxFaults /\ faults' = faults + 1
        /\ UNCHANGED <<log, files, order, token_ids, start>>
    BY <1>8 DEF FailFile
  <2>2. files[script] \in Seq(Record) /\ script \in 1..Len(files) /\ Len(files) \in Nat
    BY <2>1 DEF FileInv
  <2>3. rows \in Seq(Row)
    BY <1>1, <2>2, StreamingRows DEF FileInv
  <2>4. PICK n \in 0..Len(rows) : aligned' = aligned \o SubSeq(rows, 1, n)
    BY <1>8 DEF FailFile
  <2> HIDE DEF rows
  <2>5. SubSeq(rows, 1, n) \in Seq(Row)
    BY <2>3, <2>4
  <2>6. aligned' \in Seq(Row)
    BY <2>4, <2>5 DEF FileInv
  <2> QED BY <1>0, <2>1, <2>2, <2>6 DEF FileInv
<1>9. CASE UNCHANGED vars
  BY <1>9 DEF vars, scriptVars, FileInv
<1> QED BY <1>2, <1>3, <1>4, <1>5, <1>6, <1>7, <1>8, <1>9 DEF Next

\* The script and the recorder start with nothing.
LEMMA InitFile == Init => FileInv
<1>1. MaxFiles \in Nat /\ MaxFaults \in Nat
  BY AlignmentAssumption
<1> QED BY <1>1 DEF Init, FileInv

\* TypeOK follows.
LEMMA TypesFollow == LoopInv /\ FileInv => TypeOK
<1> SUFFICES ASSUME LoopInv, FileInv PROVE TypeOK
  OBVIOUS
<1>2. MaxFiles \in Nat /\ MaxFaults \in Nat /\ Len(files) \in Nat
  BY AlignmentAssumption DEF FileInv
<1>3. Range(files) \subseteq Seq(Record)
  BY RangeOfSeq DEF FileInv
<1>4. ASSUME NEW f \in {log} \cup Range(files), NEW i \in DOMAIN f
      PROVE  f[i] \in Record
  <2>1. f \in Seq(Record)
    BY <1>3 DEF FileInv
  <2> QED BY <2>1
<1>5. script \in 0..(MaxFiles + 1)
  BY <1>2 DEF FileInv
<1> QED BY <1>4, <1>5 DEF TypeOK, FileInv, LoopInv

\* The records, the files and the rows of the aligned file are what the scripts expect
\* of them, and the script never reads past the last file.
THEOREM AlignmentTypeCorrect == Spec => []TypeOK
<1>1. Init => LoopInv /\ FileInv
  BY InitLoop, InitFile
<1>2. LoopInv /\ FileInv /\ [Next]_vars => LoopInv' /\ FileInv'
  BY LoopStep, FileStep
<1> QED BY <1>1, <1>2, TypesFollow, PTL DEF Spec
-----------------------------------------------------------------------------
(* What the script does *)

\* Without a live request the server answers nothing and launches nothing.
LEMMA QuietServer ==
  ASSUME LoopInv, LoopInv', Live = {}, Iteration, log \in Seq(Record), Recorded
  PROVE  Live' = {} /\ log' = log
<1>1. Live' = {}
  <2>1. CASE Process
    <3>1. \A r \in Reqs : r \notin Answered
      BY DEF Answered, Live
    <3>2. \A r \in Reqs : status'[r] = status[r]
      BY <2>1, <3>1, ProcessFacts
    <3> QED BY <3>2 DEF Live
  <2>2. CASE ~Process
    <3>1. status' = status
      BY <2>2 DEF Iteration, Merge, StartPrefill, AddRequest, StopAdding, Prefill, NoPrefill, RunDecode,
                  RetractDecode, NoBatch, requests
    <3> QED BY <3>1 DEF Live
  <2> QED BY <2>1, <2>2
<1>2. ASSUME pc' = "process", cur' # None, NEW r \in cur'.reqs, r \in Reqs PROVE FALSE
  <2>1. Launched' = cur'
    BY <1>2 DEF Launched
  <2>2. status'[r] = "live"
    BY <1>2, <2>1 DEF LoopInv, BatchInv
  <2> QED BY <1>1, <1>2, <2>2 DEF Live
<1> QED BY <1>1, <1>2, RecordedFacts

\* While the script runs, nothing of what it reads changes.
LEMMA QuietStep ==
  ASSUME LoopInv, LoopInv', FileInv, ScriptInv, [Next]_vars, script # 0
  PROVE  /\ UNCHANGED <<client, log, files, order, token_ids>>
         /\ Live' = {} /\ script' # 0
<1>1. script \in Nat /\ script > 0 /\ log \in Seq(Record)
  BY DEF FileInv
<1>2. client = "collector" /\ Live = {} /\ log = <<>>
  BY <1>1 DEF ScriptInv
<1>3. /\ UNCHANGED <<client, log, files, order, token_ids>>
      /\ Live' = {} /\ script' # 0
  <2>1. CASE Server
    <3>1. UNCHANGED <<files, order, token_ids, script>> /\ Iteration /\ Recorded
      BY <2>1 DEF Server, scriptVars
    <3>2. client' = client
      BY <3>1 DEF Iteration, Merge, StartPrefill, AddRequest, StopAdding, Prefill, NoPrefill, RunDecode,
                  RetractDecode, NoBatch, Process, config
    <3>3. Live' = {} /\ log' = log
      BY <1>1, <1>2, <3>1, QuietServer
    <3> QED BY <3>1, <3>2, <3>3
  <2>2. CASE \E r \in Reqs : Send(r) \/ Cancel(r)
    BY <1>2, <2>2 DEF Send, Cancel, Abort
  <2>3. CASE Dump \/ StartScript
    BY <2>3 DEF Dump, StartScript
  <2>4. CASE ProcessFile \/ FailFile
    BY <1>1, <1>2, <2>4 DEF ProcessFile, FailFile, schedulerVars, config, requests, Live
  <2>5. CASE UNCHANGED vars
    BY <1>2, <2>5 DEF vars, scriptVars, schedulerVars, config, requests, Live
  <2> QED BY <2>1, <2>2, <2>3, <2>4, <2>5 DEF Next
<1> QED BY <1>3

\* W begins with V.
Begins(W, V) == \A i \in 1..Len(V) : W[i] = V[i]

\* W goes on with U from n on.
GoesOn(W, n, U) == \A i \in 1..Len(U) : W[n + i] = U[i]

\* When a sequence is made of two.
LEMMA ConcatIs ==
  ASSUME NEW S, NEW V \in Seq(S), NEW U \in Seq(S), NEW W \in Seq(S), Len(W) = Len(V) + Len(U),
         Begins(W, V), GoesOn(W, Len(V), U)
  PROVE  W = V \o U
<1>1. V \o U \in Seq(S) /\ Len(V \o U) = Len(V) + Len(U)
  OBVIOUS
<1>2. ASSUME NEW i \in 1..Len(W) PROVE W[i] = (V \o U)[i]
  <2>1. CASE i <= Len(V)
    BY <2>1 DEF Begins
  <2>2. CASE ~(i <= Len(V))
    <3>1. PICK j \in 1..Len(U) : i = Len(V) + j
      <4>1. i - Len(V) \in 1..Len(U) /\ i = Len(V) + (i - Len(V))
        BY <1>2, <2>2
      <4> QED BY <4>1
    <3> QED BY <3>1 DEF GoesOn
  <2> QED BY <2>1, <2>2
<1> QED BY <1>1, <1>2, SeqEqual

\* The rows of more records are those of the first, and those of the rest from there on.
LEMMA BatchRows ==
  ASSUME token_ids \in Seq(Token), NEW R \in Seq(Record), NEW T \in Seq(Record)
  PROVE  AlignBatch(R \o T) = AlignBatch(R) \o AlignStreaming(Len(R), T)
<1> DEFINE A == token_ids
           n == Len(A)
           a == Len(R)
           b == Len(T)
           min(x) == IF n < x THEN n ELSE x
           m == NumRows(a, T)
           U == AlignStreaming(a, T)
           V == AlignBatch(R)
           W == AlignBatch(R \o T)
           row(i, s) == [token |-> A[i], record |-> s[i]]
<1>1. n \in Nat /\ a \in Nat /\ b \in Nat /\ Len(R \o T) = a + b /\ R \o T \in Seq(Record)
  OBVIOUS
<1>2. m \in Nat /\ Len(U) = m /\ U = [i \in 1..m |-> [token |-> A[a + i], record |-> T[i]]] /\ U \in Seq(Row)
  BY <1>1, StreamingRows
<1>3. m = IF n <= a THEN 0 ELSE IF a + b <= n THEN b ELSE n - a
  BY DEF NumRows
<1>4. V = [i \in 1..min(a) |-> row(i, R)] /\ W = [i \in 1..min(a + b) |-> row(i, R \o T)]
  BY <1>1 DEF AlignBatch
<1>a. \A i \in 1..a : (R \o T)[i] = R[i]
  OBVIOUS
<1>b. \A i \in 1..b : (R \o T)[a + i] = T[i]
  OBVIOUS
<1> DEFINE p == min(a)
           q == min(a + b)
<1> HIDE DEF n, a, b, m, U, V, W, A
<1>5. /\ p \in Nat /\ q \in Nat /\ q = p + m
      /\ p <= a /\ p <= n /\ q <= a + b /\ q <= n /\ (m > 0 => p = a) /\ m <= b
  BY <1>1, <1>2, <1>3
<1>c. V = [i \in 1..p |-> row(i, R)] /\ W = [i \in 1..q |-> row(i, R \o T)]
  BY <1>4
<1> HIDE DEF p, q
<1>7. V \in Seq(Row) /\ Len(V) = p
  <2>1. ASSUME NEW i \in 1..p PROVE row(i, R) \in Row
    <3>1. i \in 1..n /\ i \in 1..a
      BY <1>1, <1>5
    <3>2. A[i] \in Token /\ R[i] \in Record
      BY <3>1 DEF A, n, a
    <3> QED BY <3>2 DEF Row, Token, Record
  <2>2. p \in Nat
    BY <1>5
  <2> DEFINE f(i) == row(i, R)
  <2>3. V = [i \in 1..p |-> f(i)] /\ \A i \in 1..p : f(i) \in Row
    BY <1>c, <2>1
  <2> HIDE DEF f, row
  <2> QED BY <2>2, <2>3
<1>8. W \in Seq(Row) /\ Len(W) = q
  <2>1. ASSUME NEW i \in 1..q PROVE row(i, R \o T) \in Row
    <3>1. i \in 1..n /\ i \in 1..(a + b)
      BY <1>1, <1>5
    <3>2. A[i] \in Token /\ (R \o T)[i] \in Record
      BY <1>1, <3>1 DEF A, n
    <3> QED BY <3>2 DEF Row, Token, Record
  <2>2. q \in Nat
    BY <1>5
  <2> DEFINE f(i) == row(i, R \o T)
  <2>3. W = [i \in 1..q |-> f(i)] /\ \A i \in 1..q : f(i) \in Row
    BY <1>c, <2>1
  <2> HIDE DEF f, row
  <2> QED BY <2>2, <2>3
<1>9. ASSUME NEW i \in 1..p PROVE W[i] = V[i]
  <2>1. i \in 1..q /\ i \in 1..a
    BY <1>1, <1>2, <1>5
  <2>2. W[i] = row(i, R \o T) /\ V[i] = row(i, R)
    BY <1>c, <2>1
  <2> QED BY <1>a, <2>1, <2>2
<1>10. ASSUME NEW i \in 1..m PROVE W[p + i] = U[i]
  <2>1. p + i \in 1..q /\ i \in 1..b /\ p = a
    BY <1>1, <1>2, <1>5
  <2>2. W[p + i] = row(p + i, R \o T) /\ U[i] = [token |-> A[a + i], record |-> T[i]]
    BY <1>2, <1>c, <2>1
  <2> QED BY <1>b, <2>1, <2>2
<1>11. W = V \o U
  <2>1. Begins(W, V) /\ GoesOn(W, Len(V), U) /\ Len(W) = Len(V) + Len(U)
    BY <1>2, <1>5, <1>7, <1>8, <1>9, <1>10 DEF Begins, GoesOn
  <2> QED BY <1>2, <1>7, <1>8, <2>1, ConcatIs
<1> QED BY <1>11 DEF W, V, U, a

\* The records of one file more.
LEMMA OneMoreFile ==
  ASSUME files \in Seq(Seq(Record)), NEW k \in 1..Len(files)
  PROVE  /\ FirstFiles(k - 1) \in Seq(Record) /\ files[k] \in Seq(Record)
         /\ FirstFiles(k) = FirstFiles(k - 1) \o files[k]
<1> DEFINE p == SubSeq(files, 1, k - 1)
           q == SubSeq(files, 1, k)
<1>1. p \in Seq(Seq(Record)) /\ q \in Seq(Seq(Record)) /\ files[k] \in Seq(Record) /\ Len(p) = k - 1 /\ Len(q) = k
  OBVIOUS
<1>2. q = Append(p, files[k])
  <2>1. Append(p, files[k]) \in Seq(Seq(Record)) /\ Len(Append(p, files[k])) = k
    BY <1>1
  <2>2. ASSUME NEW i \in 1..k PROVE q[i] = Append(p, files[k])[i]
    <3>1. q[i] = files[i]
      OBVIOUS
    <3>2. CASE i = k
      BY <1>1, <3>1, <3>2
    <3>3. CASE i # k
      <4>1. i \in 1..(k - 1)
        BY <3>3
      <4>2. p[i] = files[i]
        BY <4>1
      <4> QED BY <1>1, <3>1, <4>1, <4>2
    <3> QED BY <3>2, <3>3
  <2> HIDE DEF p, q
  <2> QED BY <1>1, <2>1, <2>2, SeqEqual
<1> HIDE DEF p, q
<1>3. FlattenSeq(p) \in Seq(Record) /\ FlattenSeq(q) = FlattenSeq(p) \o files[k]
  BY <1>1, <1>2, Flattened
<1> QED BY <1>1, <1>3 DEF FirstFiles, p, q

\* All files are the first ones, and there may be none.
LEMMA AllFiles ==
  ASSUME files \in Seq(Seq(Record))
  PROVE  /\ FirstFiles(Len(files)) = FlattenSeq(files)
         /\ FirstFiles(0) = <<>>
         /\ FlattenSeq(files) \in Seq(Record)
<1>1. SubSeq(files, 1, Len(files)) = files
  OBVIOUS
<1>2. SubSeq(files, 1, 0) = <<>> /\ <<>> \in Seq(Seq(Record))
  OBVIOUS
<1>3. FlattenSeq(<<>>) = <<>>
  BY <1>2, Flattened
<1>4. FlattenSeq(files) \in Seq(Record)
  BY Flattened
<1> QED BY <1>1, <1>2, <1>3, <1>4 DEF FirstFiles

\* Every step keeps the rows so far those of the records so far.
LEMMA ScriptStep ==
  ASSUME LoopInv, LoopInv', FileInv, FileInv', ScriptInv, [Next]_vars
  PROVE  ScriptInv'
<1>0. files \in Seq(Seq(Record)) /\ script \in Nat /\ token_ids \in Seq(Token) /\ start \in Nat /\ faults \in Nat
  <2>1. MaxFaults \in Nat
    BY AlignmentAssumption
  <2> QED BY <2>1 DEF FileInv
<1>1. CASE script = 0 /\ ~StartScript
  <2>1. start = 0 /\ aligned = <<>> /\ faults = 0
    BY <1>1 DEF ScriptInv
  <2>2. script \notin DOMAIN files
    BY <1>0, <1>1
  <2>3. UNCHANGED <<script, start, aligned, faults>>
    BY <1>1, <2>2 DEF Next, vars, scriptVars, Server, Send, Cancel, Dump, ProcessFile, FailFile
  <2> QED BY <1>1, <2>1, <2>3 DEF ScriptInv
<1>2. CASE StartScript
  <2>1. /\ script = 0 /\ script' = 1 /\ client = "collector" /\ Live = {} /\ log = <<>>
        /\ UNCHANGED <<client, status, log, files, start, aligned, faults>>
    BY <1>2 DEF StartScript, schedulerVars, config, requests
  <2>2. start = 0 /\ aligned = <<>>
    BY <2>1 DEF ScriptInv
  <2>3. ReadSoFar' = <<>>
    <3>1. ReadSoFar' = FlattenSeq(SubSeq(files, 1, 0))
      BY <2>1 DEF ReadSoFar, FirstFiles
    <3> QED BY <1>0, <3>1, AllFiles DEF FirstFiles
  <2>4. AlignBatch(ReadSoFar)' = <<>>
    <3>1. Len(<<>>) = 0 /\ Len(token_ids') \in Nat
      BY DEF FileInv
    <3>2. ReadSoFar' = <<>> => AlignBatch(ReadSoFar)' = [i \in 1..0 |-> [token |-> token_ids'[i], record |-> <<>>[i]]]
      BY <3>1 DEF AlignBatch
    <3>3. 1..0 = {}
      OBVIOUS
    <3> QED BY <2>3, <3>2, <3>3
  <2>6. Live' = {} /\ client' = "collector" /\ log' = <<>>
    BY <2>1 DEF Live
  <2>7. Len(<<>>) = 0 /\ script' # 0
    BY <2>1
  <2> QED BY <2>1, <2>2, <2>3, <2>4, <2>6, <2>7 DEF ScriptInv
<1>3. CASE script # 0
  <2>0. script > 0 /\ client = "collector" /\ Live = {} /\ log = <<>>
    BY <1>0, <1>3 DEF ScriptInv
  <2>1. /\ UNCHANGED <<client, log, files, order, token_ids>>
        /\ Live' = {} /\ script' # 0
    BY <1>3, QuietStep
  <2>2. SUFFICES ASSUME faults' = 0 PROVE start' = Len(ReadSoFar') /\ aligned' = AlignBatch(ReadSoFar)'
    BY <2>0, <2>1 DEF ScriptInv
  <2>3. CASE ProcessFile
    <3>1. /\ script \in DOMAIN files /\ script' = script + 1 /\ faults' = faults
      BY <2>3 DEF ProcessFile
    <3> DEFINE R == ReadSoFar
               T == files[script]
    <3>2. R \in Seq(Record) /\ T \in Seq(Record) /\ FirstFiles(script) = R \o T
      <4>1. script \in 1..Len(files)
        BY <1>0, <3>1
      <4> QED BY <1>0, <4>1, OneMoreFile DEF ReadSoFar
    <3>3. start = Len(R) /\ aligned = AlignBatch(R)
      BY <2>0, <2>2, <3>1 DEF ScriptInv
    <3>4. ReadSoFar' = R \o T
      <4>1. script' - 1 = script
        BY <1>0, <3>1
      <4>2. ReadSoFar' = FirstFiles(script)
        BY <2>1, <4>1 DEF ReadSoFar, FirstFiles
      <4> QED BY <3>2, <4>2
    <3>5. AlignBatch(ReadSoFar)' = AlignBatch(R \o T)
      BY <2>1, <3>4 DEF AlignBatch
    <3> HIDE DEF R, T
    <3>6. AlignBatch(R \o T) = AlignBatch(R) \o AlignStreaming(Len(R), T)
      BY <1>0, <3>2, BatchRows
    <3>7. CASE T = <<>>
      <4>1. UNCHANGED <<start, aligned>>
        BY <2>3, <3>7 DEF ProcessFile, T
      <4>2. R \o T = R
        BY <3>2, <3>7
      <4> QED BY <3>3, <3>4, <3>5, <4>1, <4>2
    <3>8. CASE T # <<>>
      <4>1. aligned' = aligned \o AlignStreaming(start, T) /\ start' = start + Len(T)
        BY <2>3, <3>8 DEF ProcessFile, Advance, T
      <4>2. Len(R \o T) = Len(R) + Len(T)
        BY <3>2
      <4> QED BY <3>3, <3>4, <3>5, <3>6, <4>1, <4>2
    <3> QED BY <3>7, <3>8
  <2>4. CASE ~ProcessFile
    <3>1. ~FailFile
      BY <1>0, <2>2 DEF FailFile
    <3>2. UNCHANGED <<script, start, aligned, faults>>
      BY <1>3, <2>4, <3>1 DEF Next, vars, scriptVars, Server, Send, Cancel, Dump, StartScript
    <3>3. start = Len(ReadSoFar) /\ aligned = AlignBatch(ReadSoFar)
      BY <2>0, <2>2, <3>2 DEF ScriptInv
    <3>4. ReadSoFar' = ReadSoFar
      BY <2>1, <3>2 DEF ReadSoFar, FirstFiles
    <3>5. AlignBatch(ReadSoFar)' = AlignBatch(ReadSoFar)
      BY <2>1, <3>4 DEF AlignBatch
    <3> QED BY <3>2, <3>3, <3>4, <3>5
  <2> QED BY <2>3, <2>4
<1> QED BY <1>1, <1>2, <1>3 DEF StartScript

\* process_files_streaming: however the dumps have cut the records into files, the rows
\* that it writes file by file, passing the index on from one to the next, are those of
\* align_tokens_with_experts for all records at once, unless it failed at a file.
THEOREM StreamingEqualsBatch == Spec => []StreamingIsBatch
<1> DEFINE I == LoopInv /\ FileInv /\ ScriptInv
<1>1. Init => I
  <2>1. Init => ScriptInv
    BY DEF Init, ScriptInv
  <2> QED BY <2>1, InitLoop, InitFile
<1>2. I /\ [Next]_vars => I'
  BY LoopStep, FileStep, ScriptStep
<1>3. I => StreamingIsBatch
  <2> SUFFICES ASSUME LoopInv, FileInv, ScriptInv, AllDone PROVE aligned = AlignBatch(AllRecords)
    BY DEF StreamingIsBatch
  <2>1. script = Len(files) + 1 /\ faults = 0 /\ files \in Seq(Seq(Record)) /\ Len(files) \in Nat
    BY DEF AllDone, FileInv
  <2>2. log = <<>> /\ aligned = AlignBatch(ReadSoFar)
    BY <2>1 DEF ScriptInv
  <2>3. script - 1 = Len(files)
    BY <2>1
  <2>4. ReadSoFar = FlattenSeq(files) /\ FlattenSeq(files) \in Seq(Record)
    BY <2>1, <2>3, AllFiles DEF ReadSoFar
  <2>5. AllRecords = FlattenSeq(files)
    BY <2>2, <2>4 DEF AllRecords
  <2> QED BY <2>2, <2>4, <2>5
<1> QED BY <1>1, <1>2, <1>3, PTL DEF Spec
-----------------------------------------------------------------------------
(* The passes of a prompt *)

\* The quotient is the one number whose multiple is below a by less than b.
LEMMA Quotient ==
  ASSUME NEW a \in Nat, NEW b \in Nat \ {0}, NEW q \in Nat, q * b <= a, a < q * b + b
  PROVE  a \div b = q
<1> DEFINE d == a \div b
<1>1. d \in Nat /\ b * d <= a /\ a < b * d + b
  OBVIOUS
<1>2. b * d = d * b
  BY <1>1
<1> HIDE DEF d
<1>3. q * b \in Nat /\ d * b \in Nat
  BY <1>1
<1>4. ASSUME NEW x \in Nat, NEW y \in Nat, x < y PROVE x * b + b <= y * b
  <2>1. (x + 1) * b = x * b + b
    OBVIOUS
  <2>2. x + 1 <= y
    BY <1>4
  <2>3. (x + 1) * b <= y * b
    BY <2>2
  <2> QED BY <2>1, <2>3
<1>5. ~(d < q)
  BY <1>1, <1>2, <1>3, <1>4
<1>6. ~(q < d)
  BY <1>1, <1>2, <1>3, <1>4
<1> QED BY <1>1, <1>5, <1>6 DEF d

\* The passes that a prompt of t units takes.
Chunks(t) == (t + ChunkSize - 1) \div ChunkSize

\* One pass takes a chunk of it.
LEMMA ChunksFacts ==
  ASSUME NEW t \in Nat
  PROVE  /\ Chunks(t) \in Nat
         /\ t = 0 => Chunks(t) = 0
         /\ t > 0 /\ t <= ChunkSize => Chunks(t) = 1
         /\ t > ChunkSize => Chunks(t - ChunkSize) = Chunks(t) - 1 /\ Chunks(t) > 1
<1> DEFINE c == ChunkSize
<1>1. c \in Nat \ {0}
  BY SchedulerAssumption
<1> HIDE DEF c
<1>2. ASSUME NEW u \in Nat PROVE (u + c - 1) \div c \in Nat
  <2>1. u + c - 1 \in Nat
    BY <1>1
  <2> QED BY <1>1, <2>1
<1>3. ASSUME t = 0 PROVE (t + c - 1) \div c = 0
  <2>1. t + c - 1 \in Nat /\ 0 * c <= t + c - 1 /\ t + c - 1 < 0 * c + c
    BY <1>1, <1>3
  <2> QED BY <1>1, <2>1, Quotient
<1>4. ASSUME t > 0, t <= c PROVE (t + c - 1) \div c = 1
  <2>1. t + c - 1 \in Nat /\ 1 * c <= t + c - 1 /\ t + c - 1 < 1 * c + c
    BY <1>1, <1>4
  <2> QED BY <1>1, <2>1, Quotient
<1>5. ASSUME t > c PROVE (t - c + c - 1) \div c = (t + c - 1) \div c - 1 /\ (t + c - 1) \div c > 1
  <2> DEFINE a == t - c + c - 1
             q == a \div c
             p == c * q
  <2>1. a \in Nat /\ t + c - 1 = a + c /\ a + c \in Nat /\ a >= c
    BY <1>1, <1>5
  <2>2. q \in Nat
    BY <1>1, <2>1
  <2>3. p \in Nat /\ p <= a /\ a < p + c
    <3> HIDE DEF a
    <3> QED BY <1>1, <2>1, <2>2
  <2>4. (q + 1) * c = p + c
    <3> HIDE DEF q
    <3> QED BY <1>1, <2>2
  <2>5. q # 0
    <3>1. ASSUME q = 0 PROVE p = 0
      <4> HIDE DEF q
      <4> QED BY <1>1, <3>1
    <3> HIDE DEF q, p, a
    <3> QED BY <1>1, <2>1, <2>3, <3>1
  <2> HIDE DEF a, q, p
  <2>6. (q + 1) * c <= a + c /\ a + c < (q + 1) * c + c /\ q + 1 \in Nat
    BY <1>1, <2>1, <2>2, <2>3, <2>4
  <2>7. (a + c) \div c = q + 1
    BY <1>1, <2>1, <2>6, Quotient
  <2> QED BY <2>1, <2>2, <2>5, <2>7 DEF q, a
<1>6. t > c => t - c \in Nat
  BY <1>1
<1> QED BY <1>2, <1>3, <1>4, <1>5, <1>6 DEF Chunks, c
-----------------------------------------------------------------------------
(* The records *)

\* The places of the records of r among R.
Places(R, r) == {i \in DOMAIN R : R[i].req = r}

\* One record more.
LEMMA MorePlaces ==
  ASSUME NEW R \in Seq(Record), NEW x \in Record, NEW r, IsFiniteSet(Places(R, r))
  PROVE  /\ IsFiniteSet(Places(Append(R, x), r))
         /\ x.req = r => Cardinality(Places(Append(R, x), r)) = Cardinality(Places(R, r)) + 1
         /\ x.req # r => Places(Append(R, x), r) = Places(R, r)
<1> DEFINE n == Len(R)
           P == Places(R, r)
           Q == Places(Append(R, x), r)
<1>1. n \in Nat /\ DOMAIN R = 1..n /\ DOMAIN Append(R, x) = 1..(n + 1)
  OBVIOUS
<1>2. Append(R, x)[n + 1] = x /\ \A i \in 1..n : Append(R, x)[i] = R[i]
  OBVIOUS
<1>3. n + 1 \notin P
  BY <1>1 DEF Places
<1>4. Q = IF x.req = r THEN P \cup {n + 1} ELSE P
  <2>1. \A i \in 1..(n + 1) : i \in 1..n \/ i = n + 1
    BY <1>1
  <2>2. n + 1 \in 1..(n + 1) /\ 1..n \subseteq 1..(n + 1)
    BY <1>1
  <2> HIDE DEF n
  <2> QED BY <1>1, <1>2, <2>1, <2>2 DEF Places
<1> HIDE DEF P, Q, n
<1>5. IsFiniteSet(P)
  BY DEF P
<1>6. IsFiniteSet(Q) /\ (x.req = r => Cardinality(Q) = Cardinality(P) + 1)
  BY <1>3, <1>4, <1>5, FS_AddElement
<1> QED BY <1>4, <1>6 DEF P, Q

\* A batch is launched.
Launching == pc # "process" /\ pc' = "process" /\ cur' # None

\* The records of all files and of the log, whatever is dumped when.
LEMMA RecordsStep ==
  ASSUME LoopInv, LoopInv', FileInv, [Next]_vars, client = "collector"
  PROVE  /\ AllRecords \in Seq(Record)
         /\ Launching => \E r \in cur'.reqs :
              /\ r \in Reqs /\ [req |-> r, seen |-> cur'.seen[r]] \in Record
              /\ AllRecords' = Append(AllRecords, [req |-> r, seen |-> cur'.seen[r]])
         /\ ~Launching => AllRecords' = AllRecords
<1>1. log \in Seq(Record) /\ files \in Seq(Seq(Record)) /\ FlattenSeq(files) \in Seq(Record)
  BY Flattened DEF FileInv
<1>2. AllRecords \in Seq(Record)
  BY <1>1 DEF AllRecords
<1>3. CASE Server
  <2>1. files' = files /\ Recorded
    BY <1>3 DEF Server
  <2>2. CASE Launching
    <3>1. PICK r \in cur'.reqs : log' = Append(log, [req |-> r, seen |-> cur'.seen[r]])
      BY <2>1, <2>2 DEF Recorded, Launching
    <3> DEFINE x == [req |-> r, seen |-> cur'.seen[r]]
    <3>2. r \in Reqs /\ x \in Record
      <4>1. cur'.reqs \subseteq Reqs /\ cur' \in Batch(cur'.reqs)
        BY <2>2 DEF LoopInv, SchedulerTypeOK, Launching
      <4>2. cur'.seen \in [cur'.reqs -> Nat \cup {Partial}]
        BY <4>1 DEF Batch
      <4> QED BY <4>1, <4>2 DEF Record
    <3> HIDE DEF x
    <3>3. FlattenSeq(files) \o Append(log, x) = Append(FlattenSeq(files) \o log, x)
      BY <1>1, <3>2
    <3>4. AllRecords' = Append(AllRecords, x)
      BY <2>1, <3>1, <3>3 DEF AllRecords, x
    <3> QED BY <1>2, <2>2, <3>2, <3>4 DEF x
  <2>3. CASE ~Launching
    <3>1. log' = log
      BY <2>1, <2>3 DEF Recorded, Launching
    <3> QED BY <1>2, <2>1, <2>3, <3>1 DEF AllRecords
  <2> QED BY <2>2, <2>3
<1>4. CASE ~Server
  <2>1. pc' = pc
    BY <1>4 DEF Next, Send, Cancel, Submit, Abort, Dump, StartScript, ProcessFile, FailFile, vars, schedulerVars
  <2>2. ~Launching
    BY <2>1 DEF Launching
  <2>3. CASE Dump
    <3>1. files' = Append(files, log) /\ log' = <<>>
      BY <2>3 DEF Dump
    <3>2. FlattenSeq(Append(files, log)) = FlattenSeq(files) \o log
      BY <1>1, Flattened
    <3>3. (FlattenSeq(files) \o log) \o <<>> = FlattenSeq(files) \o log
      BY <1>1
    <3>4. AllRecords' = AllRecords
      BY <3>1, <3>2, <3>3 DEF AllRecords
    <3> QED BY <1>2, <2>2, <3>4
  <2>4. CASE ~Dump
    <3>1. UNCHANGED <<files, log>>
      BY <1>4, <2>4 DEF Next, Send, Cancel, StartScript, ProcessFile, FailFile, vars
    <3> QED BY <1>2, <2>2, <3>1 DEF AllRecords
  <2> QED BY <2>3, <2>4
<1> QED BY <1>3, <1>4
-----------------------------------------------------------------------------
(* The steps of the server for the collector *)

\* A step counts the passes of the live request.
Counts == \A r \in Live : Passes(r)' = Passes(r) + (IF Launching /\ r \in cur'.reqs THEN 1 ELSE 0)

\* The types of what is counted.
LEMMA CountTypes ==
  ASSUME LoopInv, NEW r \in Reqs
  PROVE  /\ todo[r] \in Nat /\ Len(tokens[r]) \in Nat /\ PromptLen[r] \in Nat \ {0} /\ r # None
         /\ Left(r) = Chunks(todo[r]) /\ NumChunks(r) = Chunks(PromptLen[r])
         /\ Left(r) \in Nat /\ NumChunks(r) \in Nat /\ Open(r) \in {0, 1}
         /\ \A b : Gives(b, r) \in {0, 1}
<1>1. todo[r] \in Nat /\ Len(tokens[r]) \in Nat
  <2>1. tokens[r] \in Seq(Nat \cup {Partial})
    BY DEF LoopInv, SchedulerTypeOK
  <2> QED BY <2>1 DEF LoopInv, SchedulerTypeOK
<1>2. PromptLen[r] \in Nat \ {0} /\ r # None
  BY SchedulerAssumption
<1>3. Left(r) = Chunks(todo[r]) /\ NumChunks(r) = Chunks(PromptLen[r])
  BY DEF Left, NumChunks, Chunks
<1>4. Chunks(todo[r]) \in Nat /\ Chunks(PromptLen[r]) \in Nat
  BY <1>1, <1>2, ChunksFacts
<1> QED BY <1>1, <1>2, <1>3, <1>4 DEF Open, Gives

\* A step that launches nothing and takes nothing of a prompt.
LEMMA CountsSame ==
  ASSUME LoopInv, UNCHANGED <<todo, tokens, Awaited, Launched>>, ~Launching,
         \A r \in Live : Open(r)' = Open(r)
  PROVE  Counts
<1> SUFFICES ASSUME NEW r \in Live PROVE Passes(r)' = Passes(r)
  <2>1. ASSUME NEW r \in Live PROVE Passes(r) \in Int
    <3>1. r \in Reqs
      BY DEF Live
    <3> QED BY <3>1, CountTypes DEF Passes
  <2> QED BY <2>1 DEF Counts
<1>1. Left(r)' = Left(r) /\ NumChunks(r)' = NumChunks(r) /\ Gives(Awaited, r)' = Gives(Awaited, r)
      /\ Gives(Launched, r)' = Gives(Launched, r)
  BY DEF Left, NumChunks, Gives
<1> QED BY <1>1 DEF Passes

\* A request that is sent has no pass behind it.
LEMMA OneSubmit ==
  ASSUME LoopInv, OneRequest, client = "collector", NEW r \in Reqs, Submit(r)
  PROVE  OneRequest' /\ Passes(r)' = 0 /\ Live' = {r}
<1> USE DEF OneRequest, LoopInv
<1>1. /\ pc = "top" /\ status[r] = "new" /\ Live = {} /\ status' = [status EXCEPT ![r] = "live"]
      /\ waiting' = Append(waiting, r)
      /\ UNCHANGED <<loop, client, pc, running, full, chunked, last, cur, can_run, rem, todo, retracted, tokens>>
  BY DEF Submit, config, adder
<1>2. Live' = {r}
  BY <1>1 DEF Live, SchedulerTypeOK
<1>3. status \in [Reqs -> {"new", "live", "finished", "dropped"}] /\ todo[r] = PromptLen[r] /\ tokens[r] = <<>>
  BY <1>1 DEF SchedulerTypeOK, TodoInv
<1>4. r \notin running /\ (last # None => r \notin last.reqs) /\ r # chunked /\ can_run = {}
      /\ Launched = None /\ Launched' = None /\ Awaited' = Awaited
  BY <1>1, SchedulerAssumption DEF PlaceInv, BatchInv, ChunkInv, AdderInv, Launched, Awaited
<1>5. Gives(last, r) = 0 /\ Gives(None, r) = 0 /\ Gives(Awaited, r) = 0
  BY <1>4 DEF Gives, Awaited
<1>6. TodoInv'
  <2>1. \A q \in Reqs : status'[q] = "new" => status[q] = "new"
    BY <1>1, <1>3
  <2>2. todo[r] > 0
    BY <1>3, CountTypes
  <2>3. (Gives(last, r) = 1)' <=> Gives(last, r) = 1
    BY <1>1 DEF Gives
  <2>4. ~(Gives(Launched, r) = 1)'
    BY <1>4 DEF Gives
  <2>5. /\ \A q \in Reqs : todo'[q] <= PromptLen[q]
        /\ \A q \in Reqs : status'[q] = "new" => todo'[q] = PromptLen[q] /\ tokens'[q] = <<>>
    BY <1>1, <2>1 DEF TodoInv
  <2>6. /\ r \notin running' /\ todo'[r] > 0 /\ pc' = "top" /\ r # chunked'
        /\ (chunked # None => PromptLen[chunked] > ChunkSize)'
    BY <1>1, <1>4, <2>2 DEF TodoInv
  <2> QED BY <1>2, <1>5, <2>3, <2>4, <2>5, <2>6 DEF TodoInv
<1>7. OneInv' /\ NextInv'
  BY <1>1, <1>2 DEF OneInv, NextInv
<1>8. Passes(r)' = 0
  <2>1. Left(r)' = NumChunks(r) /\ NumChunks(r)' = NumChunks(r)
    BY <1>1, <1>3 DEF Left, NumChunks
  <2>2. Open(r)' = 0
    BY <1>1, <1>3, CountTypes DEF Open
  <2>3. Gives(Awaited, r)' = 0 /\ Gives(Launched, r)' = 0
    BY <1>1, <1>4, <1>5 DEF Gives
  <2>4. Len(tokens[r])' = 0
    BY <1>1, <1>3
  <2> QED BY <2>1, <2>2, <2>3, <2>4, CountTypes DEF Passes
<1> QED BY <1>2, <1>6, <1>7, <1>8

\* The last batch is merged into the running one.
LEMMA OneMerge ==
  ASSUME LoopInv, OneRequest, client = "collector", Merge
  PROVE  OneRequest' /\ Counts /\ ~Launching /\ status' = status
<1> USE DEF OneRequest, LoopInv
<1>1. /\ pc = "top" /\ pc' = "prefill"
      /\ UNCHANGED <<loop, client, waiting, chunked, last, cur, can_run, rem, todo, retracted, tokens, status>>
  BY DEF Merge, config, adder, requests
<1>2. Launched = None /\ Launched' = None /\ Awaited' = Awaited /\ Live' = Live /\ ~Launching
  BY <1>1 DEF Launched, Awaited, Live, Launching
<1>3. \A r \in Live : r \in running' => r \in running \/ Gives(last, r) = 1
  BY DEF Merge, Unfinished, Gives
<1>4. \A r \in Live : Open(r)' = Open(r)
  BY <1>1 DEF Open
<1>5. Counts
  BY <1>1, <1>2, <1>4, CountsSame
<1>6. TodoInv'
  BY <1>1, <1>2, <1>3 DEF TodoInv, Gives
<1>7. OneInv' /\ NextInv'
  BY <1>1, <1>2 DEF OneInv, NextInv
<1> QED BY <1>1, <1>2, <1>5, <1>6, <1>7

\* A chunk of the prompt of the live request.
LEMMA OneTake ==
  ASSUME LoopInv, OneRequest, NEW w \in Live, pc \in {"prefill", "add"}, pc' \in {"add", "launch"},
         can_run = {}, chunked \in {w, None}, todo[w] > 0, Take(w, ChunkSize),
         UNCHANGED <<loop, client, waiting, running, last, cur, retracted, tokens, status>>
  PROVE  OneRequest' /\ Counts /\ ~Launching
<1> USE DEF OneRequest, LoopInv
<1>1. w \in Reqs /\ w # None /\ todo[w] \in Nat /\ todo \in [Reqs -> Nat] /\ ChunkSize \in Nat \ {0} /\ None \notin Reqs
  BY SchedulerAssumption DEF Live, SchedulerTypeOK
<1>2. Launched = None /\ Launched' = None /\ Awaited' = Awaited /\ Live' = Live /\ ~Launching
  BY DEF Launched, Awaited, Live, Launching
<1>3. \A r \in Live : r = w
  BY DEF OneInv
<1>4. /\ can_run' = {w} /\ todo' \in [Reqs -> Nat] /\ \A r \in Reqs : r # w => todo'[r] = todo[r]
      /\ todo'[w] <= todo[w]
      /\ chunked' \in {w, None} /\ (chunked' = w <=> todo'[w] > 0)
      /\ Chunks(todo'[w]) = Chunks(todo[w]) - 1
      /\ chunked' = w => todo[w] > ChunkSize
  <2>1. CASE todo[w] <= ChunkSize
    <3>1. todo' = [todo EXCEPT ![w] = 0] /\ chunked' = None /\ can_run' = {w}
      BY <1>1, <2>1 DEF Take
    <3>2. Chunks(todo[w]) = 1 /\ Chunks(0) = 0
      BY <1>1, <2>1, ChunksFacts
    <3> QED BY <1>1, <3>1, <3>2
  <2>2. CASE ~(todo[w] <= ChunkSize)
    <3>1. todo' = [todo EXCEPT ![w] = todo[w] - ChunkSize] /\ chunked' = w /\ can_run' = {w}
      BY <1>1, <2>2 DEF Take
    <3>2. todo[w] > ChunkSize /\ todo[w] - ChunkSize \in Nat /\ todo[w] - ChunkSize > 0 /\ todo[w] - ChunkSize <= todo[w]
      BY <1>1, <2>2
    <3>3. Chunks(todo[w] - ChunkSize) = Chunks(todo[w]) - 1
      BY <1>1, <3>2, ChunksFacts
    <3>4. todo'[w] = todo[w] - ChunkSize /\ todo' \in [Reqs -> Nat] /\ \A r \in Reqs : r # w => todo'[r] = todo[r]
      BY <1>1, <3>1, <3>2
    <3> QED BY <1>1, <3>1, <3>2, <3>3, <3>4
  <2> QED BY <2>1, <2>2
<1>5. w \notin running /\ Gives(last, w) # 1
  BY <1>1 DEF TodoInv
<1>6. TodoInv'
  <2>1. PromptLen[w] \in Nat
    BY <1>1, SchedulerAssumption
  <2>2. todo[w] <= PromptLen[w]
    BY <1>1 DEF TodoInv
  <2>3. \A r \in Reqs : todo'[r] <= PromptLen[r]
    <3>1. todo'[w] \in Nat /\ todo'[w] <= PromptLen[w]
      BY <1>1, <1>4, <2>1, <2>2
    <3> QED BY <1>4, <3>1 DEF TodoInv
  <2>4. \A r \in Reqs : status'[r] = "new" => todo'[r] = PromptLen[r] /\ tokens'[r] = <<>>
    BY <1>4 DEF TodoInv, Live
  <2>5. chunked' # None => PromptLen[chunked'] > ChunkSize
    BY <1>1, <1>4, <2>1, <2>2
  <2>6. (Gives(last, w) = 1)' <=> Gives(last, w) = 1
    BY DEF Gives
  <2>7. ~(Gives(Launched, w) = 1)'
    BY <1>2 DEF Gives
  <2> QED BY <1>2, <1>3, <1>4, <1>5, <2>3, <2>4, <2>5, <2>6, <2>7 DEF TodoInv
<1>7. OneInv' /\ NextInv'
  BY <1>2 DEF OneInv, NextInv
<1>8. Counts
  <2>1. Passes(w)' = Passes(w)
    <3>1. Left(w)' = Left(w) - 1
      BY <1>4 DEF Left, Chunks
    <3>2. Open(w) = 0 /\ Open(w)' = 1
      BY <1>4 DEF Open
    <3>3. /\ NumChunks(w)' = NumChunks(w) /\ Gives(Awaited, w)' = Gives(Awaited, w)
          /\ Gives(Launched, w)' = Gives(Launched, w) /\ Len(tokens[w])' = Len(tokens[w])
      BY <1>2 DEF NumChunks, Gives
    <3> QED BY <1>1, <3>1, <3>2, <3>3, CountTypes DEF Passes
  <2>2. Passes(w) \in Int
    BY <1>1, CountTypes DEF Passes
  <2> QED BY <1>2, <1>3, <2>1, <2>2 DEF Counts
<1> QED BY <1>2, <1>6, <1>7, <1>8

\* The adder starts, with what is left of a chunked prompt.
LEMMA OneStartPrefill ==
  ASSUME LoopInv, OneRequest, StartPrefill
  PROVE  OneRequest' /\ Counts /\ ~Launching /\ status' = status
<1> USE DEF OneRequest, LoopInv
<1>1. /\ pc = "prefill" /\ pc' = (IF waiting = <<>> THEN "launch" ELSE "add") /\ MayPrefill
      /\ UNCHANGED <<loop, client, waiting, running, last, cur, retracted, tokens, status>>
  BY DEF StartPrefill, config
<1>2. can_run = {}
  BY <1>1 DEF AdderInv
<1>3. CASE chunked = None
  <2>1. rem' = ChunkSize /\ UNCHANGED <<can_run, todo, chunked>> /\ pc' = "add"
    BY <1>1, <1>3 DEF StartPrefill, MayPrefill
  <2>2. Launched = None /\ Launched' = None /\ Awaited' = Awaited /\ Live' = Live /\ ~Launching
    BY <1>1, <2>1 DEF Launched, Awaited, Live, Launching
  <2>3. \A r \in Live : Open(r)' = Open(r)
    BY <1>1, <1>2, <2>1 DEF Open
  <2>4. Counts
    BY <1>1, <2>1, <2>2, <2>3, CountsSame
  <2>5. TodoInv'
    BY <1>1, <1>2, <1>3, <2>1, <2>2 DEF TodoInv, Gives
  <2>6. OneInv' /\ NextInv'
    BY <1>1, <2>1, <2>2 DEF OneInv, NextInv
  <2> QED BY <1>1, <2>2, <2>4, <2>5, <2>6
<1>4. CASE chunked # None
  <2>1. Take(chunked, ChunkSize)
    BY <1>4 DEF StartPrefill
  <2>2. chunked \in Live
    BY <1>4 DEF ChunkInv, Live, SchedulerTypeOK
  <2>3. todo[chunked] > 0
    BY <1>1, <2>2 DEF TodoInv
  <2>4. pc' \in {"add", "launch"}
    BY <1>1
  <2> QED BY <1>1, <1>2, <2>1, <2>2, <2>3, <2>4, OneTake
<1> QED BY <1>3, <1>4

\* The adder takes the request from the queue.
LEMMA OneAddRequest ==
  ASSUME LoopInv, OneRequest, AddRequest
  PROVE  OneRequest' /\ Counts /\ ~Launching /\ status' = status
<1> USE DEF OneRequest, LoopInv
<1>1. /\ pc = "add" /\ pc' \in {"add", "launch"} /\ Take(waiting[next], rem)
      /\ UNCHANGED <<loop, client, waiting, running, last, cur, retracted, tokens, status>>
  BY DEF AddRequest, config
<1> DEFINE w == waiting[next]
<1>2. next \in DOMAIN waiting /\ w \in Reqs /\ w \in Range(waiting) /\ waiting \in Seq(Reqs)
  BY <1>1 DEF AdderInv, SchedulerTypeOK, Range
<1>3. w \in Live /\ w \notin can_run
  BY <1>1, <1>2 DEF PlaceInv, AdderInv, Live
<1>4. can_run = {}
  <2>1. \A r \in can_run : r \in Live
    BY <1>1 DEF AdderInv, Live, SchedulerTypeOK
  <2> QED BY <1>3, <2>1 DEF OneInv
<1>5. chunked = None /\ rem = ChunkSize
  BY <1>1, <1>4 DEF AdderInv, TodoInv
<1>6. todo[w] > 0
  BY <1>2, <1>3 DEF TodoInv
<1>7. Take(w, ChunkSize)
  BY <1>1, <1>5
<1> HIDE DEF w
<1> QED BY <1>1, <1>3, <1>4, <1>5, <1>6, <1>7, OneTake

\* The adder stops, or there is no prefill.
LEMMA OneStopAdding ==
  ASSUME LoopInv, OneRequest, StopAdding \/ NoPrefill
  PROVE  OneRequest' /\ Counts /\ ~Launching /\ status' = status
<1> USE DEF OneRequest, LoopInv
<1>1. /\ (pc = "add" /\ pc' = "launch") \/ (pc = "prefill" /\ pc' = "decode")
      /\ UNCHANGED <<loop, client, waiting, running, chunked, last, cur, can_run, rem, todo, retracted, tokens, status>>
  BY DEF StopAdding, NoPrefill, config, adder, requests
<1>2. Launched = None /\ Launched' = None /\ Awaited' = Awaited /\ Live' = Live /\ ~Launching
  BY <1>1 DEF Launched, Awaited, Live, Launching
<1>3. \A r \in Live : Open(r)' = Open(r)
  BY <1>1 DEF Open
<1>4. Counts
  BY <1>1, <1>2, <1>3, CountsSame
<1>5. TodoInv'
  BY <1>1, <1>2 DEF TodoInv, Gives
<1>6. OneInv' /\ NextInv'
  BY <1>1, <1>2 DEF OneInv, NextInv
<1> QED BY <1>1, <1>2, <1>4, <1>5, <1>6

\* A prefill is launched, for the one request.
LEMMA OnePrefill ==
  ASSUME LoopInv, OneRequest, Prefill
  PROVE  OneRequest' /\ Counts /\ Launching /\ cur'.reqs = Live /\ status' = status
<1> USE DEF OneRequest, LoopInv
<1> DEFINE B == [mode |-> "extend", reqs |-> can_run, chunked |-> chunked,
                 seen |-> [r \in can_run |-> IF r = chunked THEN Partial ELSE Len(tokens[r])]]
<1>1. /\ pc = "launch" /\ pc' = "process" /\ waiting' = SubSeq(waiting, next, Len(waiting))
      /\ retracted' = [r \in Reqs |-> retracted[r] /\ r \notin can_run]
      /\ cur' = B /\ can_run' = {}
      /\ UNCHANGED <<loop, client, running, chunked, last, todo, tokens, status>>
  BY DEF Prefill, Launch, config
<1>2. B.reqs = can_run /\ B.chunked = chunked
  OBVIOUS
<1> HIDE DEF B
<1>3. PICK w \in Reqs : can_run = {w} /\ Live = {w}
  <2>1. can_run # {} /\ \A r \in can_run : r \in Live
    BY <1>1 DEF AdderInv, Live, SchedulerTypeOK
  <2> QED BY <2>1 DEF OneInv, Live
<1>4. cur' # None
  <2>3. can_run \in SUBSET Reqs /\ chunked \in Reqs \cup {None} /\ \A r \in can_run : Len(tokens[r]) \in Nat
    BY <1>3, CountTypes DEF SchedulerTypeOK
  <2>4. B \in Batch(can_run)
    BY <2>3 DEF B, Batch
  <2> QED BY <1>1, <2>3, <2>4, SchedulerAssumption
<1>5. /\ Launched = None /\ Launched' = B /\ Awaited' = Awaited /\ Live' = Live /\ Launching
  BY <1>1, <1>4 DEF Launched, Awaited, Live, Launching
<1>6. /\ chunked # None => chunked = w
      /\ w = chunked <=> todo[w] > 0
      /\ todo[w] \in Nat
  BY <1>1, <1>3, CountTypes DEF AdderInv, TodoInv
<1>7. Range(waiting') \subseteq Range(waiting) \ can_run
  <2>1. next \in 1..(Len(waiting) + 1) /\ waiting \in Seq(Reqs) /\ IsInjective(waiting)
    BY <1>1 DEF AdderInv, SchedulerTypeOK, PlaceInv
  <2>2. Range(waiting') = {waiting[k] : k \in {x \in DOMAIN waiting : x >= next}}
    BY <1>1, <2>1, SuffixOf
  <2>3. \A k \in DOMAIN waiting : k >= next => ~(k < next)
    BY <2>1
  <2> QED BY <1>1, <2>2, <2>3 DEF AdderInv, Range
<1>8. Gives(B, w) = (IF todo[w] = 0 THEN 1 ELSE 0) /\ Gives(None, w) = 0
  BY <1>2, <1>3, <1>4, <1>1, <1>6 DEF Gives
<1>9. TodoInv'
  <2>1. (Gives(last, w) = 1)' <=> Gives(last, w) = 1
    BY <1>1 DEF Gives
  <2>2. Gives(Launched, w)' = Gives(B, w)
    BY <1>5 DEF Gives
  <2>3. (w \in running \/ Gives(last, w) = 1 \/ Gives(Launched, w) = 1 => todo[w] = 0)'
    BY <1>1, <1>3, <1>8, <2>1, <2>2 DEF TodoInv
  <2>4. w \notin Range(waiting')
    BY <1>3, <1>7
  <2> QED BY <1>1, <1>3, <1>5, <1>6, <2>3, <2>4 DEF TodoInv
<1>10. OneInv'
  BY <1>1, <1>5 DEF OneInv
<1>11. NextInv'
  <2>1. last # None /\ w \in last.reqs => w = last.chunked
    BY <1>1, <1>3 DEF AdderInv
  <2>2. Gives(last', w) # 1
    BY <1>1, <2>1 DEF Gives
  <2> QED BY <1>3, <1>5, <2>2 DEF NextInv
<1>12. Counts
  <2>1. Open(w) = 1 /\ Open(w)' = IF todo[w] = 0 THEN 1 ELSE 0
    BY <1>1, <1>3 DEF Open
  <2>2. /\ Left(w)' = Left(w) /\ NumChunks(w)' = NumChunks(w) /\ Len(tokens[w])' = Len(tokens[w])
        /\ Gives(Awaited, w)' = Gives(Awaited, w) /\ Gives(Launched, w)' = Gives(B, w) /\ Gives(Launched, w) = 0
    BY <1>1, <1>5, <1>8 DEF Left, NumChunks, Gives
  <2>3. Passes(w)' = Passes(w) + 1
    BY <1>6, <1>8, <2>1, <2>2, CountTypes DEF Passes
  <2>4. Launching /\ w \in cur'.reqs
    BY <1>1, <1>2, <1>3, <1>5
  <2> QED BY <1>3, <2>3, <2>4 DEF Counts
<1> QED BY <1>1, <1>2, <1>3, <1>5, <1>9, <1>10, <1>11, <1>12

\* At a decode, a live request that the last batch has a token for is running.
LEMMA StillRunning ==
  ASSUME LoopInv, pc = "decode", NEW r \in Live, Gives(last, r) = 1
  PROVE  r \in Unfinished(running)
<1>1. last # None /\ r \in last.reqs /\ status[r] = "live" /\ r \in Reqs
  BY DEF Gives, Live
<1>2. chunked = None /\ Joining = {}
  BY DEF LoopInv, ChunkInv, Joining
<1>3. r \notin Range(waiting)
  BY <1>1 DEF LoopInv, BatchInv
<1>4. r \in running
  BY <1>2, <1>3 DEF LoopInv, PlaceInv
<1> QED BY <1>1, <1>4 DEF Unfinished

\* A decode is launched, for the one request.
LEMMA OneRunDecode ==
  ASSUME LoopInv, OneRequest, RunDecode
  PROVE  OneRequest' /\ Counts /\ Launching /\ cur'.reqs = Live /\ status' = status
<1> USE DEF OneRequest, LoopInv
<1> DEFINE D == Unfinished(running)
           B == [mode |-> "decode", reqs |-> D, chunked |-> None, seen |-> [r \in D |-> seen[r] + 1]]
<1>0. Range(<<>>) = {} /\ D \ {} = D
  BY DEF Range
<1>1. /\ pc = "decode" /\ pc' = "process" /\ running' = D /\ D # {}
      /\ retracted' = [r \in Reqs |-> retracted[r] \/ r \in Range(<<>>)]
      /\ todo' = [r \in Reqs |-> IF r \in Range(<<>>) THEN PromptLen[r] + Len(tokens[r]) ELSE todo[r]]
      /\ waiting' = waiting \o <<>> /\ cur' = B
      /\ UNCHANGED <<loop, client, chunked, last, can_run, rem, tokens, status>>
  BY <1>0 DEF RunDecode, Decode, Launch, config, adder
<1>2. B.reqs = D /\ B.chunked = None
  OBVIOUS
<1>3. PICK w \in Reqs : D = {w} /\ Live = {w}
  <2>1. D \subseteq Live
    BY DEF Unfinished, PlaceInv, Live, SchedulerTypeOK
  <2> QED BY <1>1, <2>1 DEF OneInv, Live
<1>4. cur' # None
  <2>1. \A r \in D : r \in running /\ status[r] = "live" /\ r \in Reqs
    BY <1>3 DEF Unfinished, Live
  <2>2. \A r \in D : seen[r] + 1 \in Nat \cup {Partial}
    <3>1. ASSUME NEW r \in D PROVE seen[r] + 1 \in Nat
      <4>1. r \in running /\ status[r] = "live" /\ r \in Reqs /\ seen[r] \in Nat \cup {Partial}
        BY <2>1, <3>1 DEF SchedulerTypeOK
      <4> QED BY <4>1 DEF Partial
    <3> QED BY <3>1
  <2>3. B \in Batch(D) /\ D \in SUBSET Reqs
    BY <1>3, <2>2 DEF Batch
  <2> QED BY <1>1, <2>3, SchedulerAssumption
<1> HIDE DEF B
<1>5. /\ Launched = None /\ Launched' = B /\ Awaited' = Awaited /\ Live' = Live /\ Launching
  BY <1>1, <1>4 DEF Launched, Awaited, Live, Launching
<1>6. todo' = todo /\ waiting' = waiting /\ retracted' = retracted
  <2>1. todo \in [Reqs -> Nat] /\ retracted \in [Reqs -> BOOLEAN] /\ waiting \in Seq(Reqs)
    BY DEF SchedulerTypeOK
  <2>2. todo' = [r \in Reqs |-> todo[r]]
    BY <1>0, <1>1
  <2>3. retracted' = [r \in Reqs |-> retracted[r]]
    <3>1. \A r \in Reqs : (retracted[r] \/ r \in Range(<<>>)) = retracted[r]
      BY <1>0, <2>1
    <3> QED BY <1>1, <3>1
  <2>4. waiting \o <<>> = waiting
    BY <2>1
  <2> QED BY <1>1, <2>1, <2>2, <2>3, <2>4
<1>7. w \in running /\ w # None
  BY <1>3, SchedulerAssumption DEF Unfinished
<1>8. Gives(B, w) = 1 /\ Gives(None, w) = 0
  BY <1>1, <1>2, <1>3, <1>4, <1>7 DEF Gives
<1>9. todo[w] = 0 /\ chunked = None /\ can_run = {} /\ (w \in Range(waiting) \ can_run => todo[w] > 0)
  BY <1>1, <1>3, <1>7 DEF TodoInv, ChunkInv, AdderInv
<1>a. todo'[w] = 0 /\ chunked' = None /\ can_run' = {} /\ pc' = "process" /\ w # chunked'
      /\ (w \in Range(waiting') \ can_run' => todo'[w] > 0)
  BY <1>1, <1>6, <1>7, <1>9
<1>10. TodoInv'
  <2>1. /\ \A r \in Reqs : todo'[r] <= PromptLen[r]
        /\ \A r \in Reqs : status'[r] = "new" => todo'[r] = PromptLen[r] /\ tokens'[r] = <<>>
    BY <1>1, <1>6 DEF TodoInv
  <2> QED BY <1>3, <1>5, <1>a, <2>1 DEF TodoInv
<1>11. OneInv'
  BY <1>5, <1>6 DEF OneInv
<1>12. NextInv'
  <2>1. Gives(cur', w) = 1
    BY <1>1, <1>8
  <2> QED BY <1>3, <1>5, <2>1 DEF NextInv
<1>13. Counts
  <2>1. Open(w)' = Open(w)
    BY <1>1, <1>6 DEF Open
  <2>2. /\ Left(w)' = Left(w) /\ NumChunks(w)' = NumChunks(w) /\ Len(tokens[w])' = Len(tokens[w])
        /\ Gives(Awaited, w)' = Gives(Awaited, w) /\ Gives(Launched, w)' = 1 /\ Gives(Launched, w) = 0
    BY <1>1, <1>5, <1>6, <1>8 DEF Left, NumChunks, Gives
  <2>3. Passes(w)' = Passes(w) + 1
    BY <2>1, <2>2, CountTypes DEF Passes
  <2>4. Launching /\ w \in cur'.reqs
    BY <1>1, <1>2, <1>3, <1>5
  <2> QED BY <1>3, <2>3, <2>4 DEF Counts
<1> QED BY <1>1, <1>2, <1>3, <1>5, <1>10, <1>11, <1>12, <1>13

\* Nothing is to run.
LEMMA OneNoBatch ==
  ASSUME LoopInv, OneRequest, NoBatch
  PROVE  OneRequest' /\ Counts /\ ~Launching /\ status' = status
<1> USE DEF OneRequest, LoopInv
<1>1. /\ pc = "decode" /\ pc' = "process" /\ Unfinished(running) = {} /\ running' = {} /\ cur' = None
      /\ UNCHANGED <<loop, client, waiting, chunked, last, can_run, rem, todo, retracted, tokens, status>>
  BY DEF NoBatch, config, adder, requests
<1>2. Launched = None /\ Launched' = None /\ Awaited' = Awaited /\ Live' = Live /\ ~Launching
  BY <1>1 DEF Launched, Awaited, Live, Launching
<1>3. \A r \in Live : Open(r)' = Open(r)
  BY <1>1 DEF Open
<1>4. Counts
  BY <1>1, <1>2, <1>3, CountsSame
<1>5. TodoInv'
  BY <1>1, <1>2 DEF TodoInv, Gives
<1>6. OneInv'
  BY <1>1, <1>2 DEF OneInv
<1>7. NextInv'
  <2>1. \A r \in Live : Gives(last, r) # 1
    BY <1>1, StillRunning
  <2>2. \A r \in Live : Gives(last', r) # 1
    BY <1>1, <2>1
  <2> QED BY <1>2, <2>2 DEF NextInv
<1> QED BY <1>1, <1>2, <1>4, <1>5, <1>6, <1>7

\* One request always stays, so that a single one is not retracted.
LEMMA OneNoRetract ==
  ASSUME LoopInv, OneRequest, RetractDecode
  PROVE  FALSE
<1> DEFINE D == Unfinished(running)
<1>1. D \subseteq Live
  BY DEF Unfinished, LoopInv, PlaceInv, Live, SchedulerTypeOK
<1>2. Cardinality(D) \in {0, 1}
  <2>1. CASE D = {}
    BY <2>1, FS_EmptySet
  <2>2. CASE D # {}
    <3>1. PICK w \in D : TRUE
      BY <2>2
    <3>2. D = {w}
      BY <1>1, <3>1 DEF OneRequest, OneInv
    <3> QED BY <3>2, FS_Singleton
  <2> QED BY <2>1, <2>2
<1> HIDE DEF D
<1>3. Retractions(D) = {}
  <2>1. 1..(Cardinality(D) - 1) = {}
    BY <1>2
  <2>2. UNION {[1..n -> D] : n \in 1..(Cardinality(D) - 1)} = {}
    BY <2>1
  <2> QED BY <2>2 DEF Retractions
<1> QED BY <1>3 DEF RetractDecode, D

\* The result of a batch: passes are counted as tokens that the request now has.
LEMMA OneProcess ==
  ASSUME LoopInv, OneRequest, Process
  PROVE  /\ OneRequest' /\ Counts /\ ~Launching
         /\ \A r \in Reqs : r \notin Live => status'[r] = status[r] /\ tokens'[r] = tokens[r]
         /\ \A r \in Live : \/ status'[r] = "live"
                            \/ /\ status'[r] = "finished" /\ todo'[r] = 0 /\ pc' = "top"
                               /\ Gives(Awaited, r)' = IF loop = "overlap" THEN 1 ELSE 0
                               /\ Gives(Launched, r)' = 0
<1> USE DEF OneRequest
<1>1. /\ pc = "process" /\ pc' = "top" /\ last' = cur
      /\ UNCHANGED <<loop, client, waiting, running, chunked, cur, can_run, rem, todo, retracted>>
      /\ Answered \subseteq Reqs
      /\ \A r \in Answered : /\ tokens'[r] = Append(tokens[r], Len(tokens[r]))
                             /\ status[r] = "live" /\ status'[r] \in {"live", "finished"}
      /\ \A r \in Reqs \ Answered : tokens'[r] = tokens[r] /\ status'[r] = status[r]
  BY ProcessFacts
<1>2. /\ Launched = cur /\ Launched' = None /\ loop \in {"normal", "overlap"}
      /\ Awaited' = (IF loop = "overlap" THEN cur ELSE None) /\ ~Launching
  BY <1>1 DEF Launched, Awaited, LoopInv, SchedulerTypeOK, Launching
<1>3. Live' \subseteq Live
  BY <1>1 DEF Live
<1>4. ASSUME NEW r \in Live
      PROVE  /\ r \in Reqs /\ (r \in Answered <=> Gives(Due, r) = 1)
             /\ Gives(Due, r) = 1 => todo[r] = 0
  <2>1. r \in Reqs /\ status[r] = "live" /\ ~retracted[r]
    BY DEF Live, OneInv
  <2>2. r \in Answered <=> Gives(Due, r) = 1
    BY <2>1 DEF Answered, Gives
  <2>3. Gives(Due, r) = 1 => todo[r] = 0
    BY <1>2 DEF Due, TodoInv
  <2> QED BY <2>1, <2>2, <2>3
<1>5. ASSUME NEW r \in Live
      PROVE  Gives(Awaited, r)' + Gives(Launched, r)' + Gives(Due, r) = Gives(Awaited, r) + Gives(Launched, r)
  <2>1. Gives(None, r) = 0 /\ Gives(last, r) \in Nat /\ Gives(cur, r) \in Nat
    BY DEF Gives
  <2>2. Gives(Launched, r)' = 0 /\ Gives(Launched, r) = Gives(cur, r)
    BY <1>2 DEF Gives
  <2>3. Gives(Awaited, r)' = IF loop = "overlap" THEN Gives(cur, r) ELSE 0
    BY <1>2 DEF Gives
  <2>4. Gives(Awaited, r) = IF loop = "overlap" THEN Gives(last, r) ELSE 0
    BY <2>1 DEF Awaited
  <2>5. Gives(Due, r) = IF loop = "overlap" THEN Gives(last, r) ELSE Gives(cur, r)
    BY DEF Due
  <2> QED BY <2>1, <2>2, <2>3, <2>4, <2>5
<1>6. Counts
  <2> SUFFICES ASSUME NEW r \in Live PROVE Passes(r)' = Passes(r)
    <3>1. ASSUME NEW r \in Live PROVE Passes(r) \in Int
      BY <1>4, CountTypes DEF Passes
    <3> QED BY <1>2, <3>1 DEF Counts
  <2>1. Left(r)' = Left(r) /\ NumChunks(r)' = NumChunks(r) /\ Open(r)' = Open(r)
    <3>1. pc \notin {"add", "launch"} /\ pc' \notin {"add", "launch"}
      BY <1>1
    <3> QED BY <1>1, <3>1 DEF Left, NumChunks, Open
  <2>2. Len(tokens[r])' = Len(tokens[r]) + Gives(Due, r)
    <3>1. tokens[r] \in Seq(Nat \cup {Partial}) /\ Gives(Due, r) \in {0, 1} /\ Len(tokens[r]) \in Nat
      BY <1>4, CountTypes DEF LoopInv, SchedulerTypeOK
    <3>2. CASE Gives(Due, r) = 1
      <4>1. tokens'[r] = Append(tokens[r], Len(tokens[r]))
        BY <1>1, <1>4, <3>2
      <4> QED BY <3>1, <3>2, <4>1
    <3>3. CASE Gives(Due, r) = 0
      <4>1. tokens'[r] = tokens[r]
        BY <1>1, <1>4, <3>3
      <4> QED BY <3>1, <3>3, <4>1
    <3> QED BY <3>1, <3>2, <3>3
  <2>3. Gives(Awaited, r)' \in {0, 1} /\ Gives(Launched, r)' \in {0, 1} /\ Gives(Due, r) \in {0, 1}
    BY DEF Gives
  <2>4. /\ NumChunks(r) \in Nat /\ Left(r) \in Nat /\ Open(r) \in {0, 1} /\ Len(tokens[r]) \in Nat
        /\ Gives(Awaited, r) \in {0, 1} /\ Gives(Launched, r) \in {0, 1}
    BY <1>4, CountTypes
  <2>5. Gives(Awaited, r)' + Gives(Launched, r)' + Gives(Due, r) = Gives(Awaited, r) + Gives(Launched, r)
    BY <1>5
  <2> HIDE DEF OneRequest
  <2> DEFINE n == NumChunks(r) - Left(r) - Open(r)
             t == Len(tokens[r])
             a == Gives(Awaited, r)
             b == Gives(Launched, r)
             c == Gives(Awaited, r)'
             d == Gives(Launched, r)'
             g == Gives(Due, r)
  <2>6. n \in Int /\ t \in Int /\ a \in Int /\ b \in Int /\ c \in Int /\ d \in Int /\ g \in Int
    BY <2>3, <2>4
  <2>7. Passes(r) = n + t + a + b
    BY DEF Passes
  <2>8. Passes(r)' = n + (t + g) + c + d
    BY <2>1, <2>2 DEF Passes
  <2>9. c + d + g = a + b
    BY <2>5
  <2> HIDE DEF n, t, a, b, c, d, g
  <2> QED BY <2>6, <2>7, <2>8, <2>9
<1>7. TodoInv'
  <2>1. ASSUME NEW r \in Live'
        PROVE  (r \in running \/ Gives(last, r) = 1 \/ Gives(Launched, r) = 1 => todo[r] = 0)'
    <3>1. r \in Live /\ Gives(None, r) # 1
      BY <1>3 DEF Gives
    <3>2. (Gives(last, r) = 1)' <=> Gives(Launched, r) = 1
      BY <1>1, <1>2 DEF Gives
    <3>3. ~(Gives(Launched, r) = 1)'
      BY <1>2 DEF Gives
    <3> QED BY <1>1, <3>1, <3>2, <3>3 DEF TodoInv
  <2>2. \A r \in Reqs : status'[r] = "new" => status[r] = "new" /\ tokens'[r] = tokens[r]
    BY <1>1
  <2> QED BY <1>1, <1>3, <2>1, <2>2 DEF TodoInv
<1>8. OneInv' /\ NextInv'
  BY <1>1, <1>3 DEF OneInv, NextInv
<1>9. ASSUME NEW r \in Live, status'[r] # "live"
      PROVE  /\ status'[r] = "finished" /\ todo'[r] = 0 /\ pc' = "top"
             /\ Gives(Awaited, r)' = IF loop = "overlap" THEN 1 ELSE 0
             /\ Gives(Launched, r)' = 0
  <2>1. r \in Reqs /\ status[r] = "live"
    BY DEF Live
  <2>2. r \in Answered /\ status'[r] = "finished"
    BY <1>1, <1>9, <2>1
  <2>3. Gives(Due, r) = 1 /\ todo'[r] = 0
    BY <1>1, <1>4, <2>2
  <2>4. loop = "overlap" => Gives(cur, r) = 1
    BY <1>1, <2>3 DEF NextInv, Due
  <2>5. Gives(Launched, r)' = 0 /\ Gives(Awaited, r)' = IF loop = "overlap" THEN Gives(cur, r) ELSE 0
    BY <1>2 DEF Gives
  <2> QED BY <1>1, <2>2, <2>3, <2>4, <2>5
<1>10. \A r \in Reqs : r \notin Live => status'[r] = status[r] /\ tokens'[r] = tokens[r]
  BY <1>1 DEF Live, Answered
<1> QED BY <1>2, <1>6, <1>7, <1>8, <1>9, <1>10

\* The steps of an iteration before its result.
LEMMA OneIteration ==
  ASSUME LoopInv, OneRequest, client = "collector", Iteration, ~Process
  PROVE  /\ OneRequest' /\ Counts /\ UNCHANGED <<loop, client, status, tokens>>
         /\ Launching => cur'.reqs = Live
<1>1. UNCHANGED <<loop, client, tokens>>
  BY DEF Iteration, Merge, StartPrefill, AddRequest, StopAdding, Prefill, NoPrefill, RunDecode,
         RetractDecode, NoBatch, requests, config
<1> QED BY <1>1, OneMerge, OneStartPrefill, OneAddRequest, OneStopAdding, OnePrefill, OneRunDecode,
           OneNoRetract, OneNoBatch DEF Iteration

\* Steps that are not the server's leave it alone.
LEMMA OneUnchanged ==
  ASSUME LoopInv, OneRequest, UNCHANGED schedulerVars
  PROVE  /\ OneRequest' /\ Counts /\ ~Launching /\ UNCHANGED <<loop, client, status, tokens>>
<1>1. UNCHANGED <<loop, client, pc, waiting, running, chunked, last, cur, can_run, rem, todo, retracted,
                  tokens, status>>
  BY DEF schedulerVars, config, batches, adder, requests
<1>2. Launched' = Launched /\ Awaited' = Awaited /\ Live' = Live /\ ~Launching
  BY <1>1 DEF Launched, Awaited, Live, Launching
<1>3. \A r \in Live : Open(r)' = Open(r)
  BY <1>1 DEF Open
<1>4. Counts
  BY <1>1, <1>2, <1>3, CountsSame
<1>5. TodoInv'
  BY <1>1, <1>2 DEF OneRequest, TodoInv, Gives
<1>6. OneInv' /\ NextInv'
  BY <1>1, <1>2 DEF OneRequest, OneInv, NextInv, Gives
<1> QED BY <1>1, <1>2, <1>4, <1>5, <1>6 DEF OneRequest

\* Every step keeps the records the passes.
LEMMA CollectorStep ==
  ASSUME LoopInv, LoopInv', FileInv, client = "collector", OneRequest, PassInv, [Next]_vars
  PROVE  OneRequest' /\ PassInv'
<1>1. /\ AllRecords \in Seq(Record)
      /\ Launching => \E r \in cur'.reqs :
           /\ r \in Reqs /\ [req |-> r, seen |-> cur'.seen[r]] \in Record
           /\ AllRecords' = Append(AllRecords, [req |-> r, seen |-> cur'.seen[r]])
      /\ ~Launching => AllRecords' = AllRecords
  BY RecordsStep
<1>2. \A r : RecordsOf(r) = Places(AllRecords, r) /\ RecordsOf(r)' = Places(AllRecords', r)
  BY DEF RecordsOf, Places
<1>3. ~Launching => \A r : RecordsOf(r)' = RecordsOf(r)
  BY <1>1, <1>2
<1>4. PassInv <=> \A r \in Reqs : PassInvOf(r)
  BY DEF PassInv
<1>5. PassInv' <=> \A r \in Reqs : PassInvOf(r)'
  BY DEF PassInv
<1>6. \A r \in Reqs : PassInvOf(r) /\ NumChunks(r)' = NumChunks(r)
  BY <1>4 DEF NumChunks
<1>7. \A r \in Reqs : r \in Live <=> status[r] = "live"
  BY DEF Live
<1>8. CASE Iteration /\ ~Process
  <2>1. /\ OneRequest' /\ Counts /\ UNCHANGED <<loop, client, status, tokens>>
        /\ Launching => cur'.reqs = Live
    BY <1>8, OneIteration
  <2>2. CASE ~Launching
    <3>1. ASSUME NEW r \in Reqs PROVE PassInvOf(r)'
      <4>1. RecordsOf(r)' = RecordsOf(r) /\ PassInvOf(r) /\ NumChunks(r)' = NumChunks(r)
        BY <1>3, <1>6, <2>2
      <4>2. status[r] = "live" => Passes(r)' = Passes(r) + 0 /\ Passes(r) \in Int
        BY <1>7, <2>1, <2>2, CountTypes DEF Counts, Passes
      <4>3. status[r] = "live" => Passes(r)' = Passes(r)
        BY <4>2
      <4> QED BY <2>1, <4>1, <4>3 DEF PassInvOf
    <3> QED BY <1>5, <2>1, <3>1
  <2>3. CASE Launching
    <3>1. PICK w \in cur'.reqs :
           /\ w \in Reqs /\ [req |-> w, seen |-> cur'.seen[w]] \in Record
           /\ AllRecords' = Append(AllRecords, [req |-> w, seen |-> cur'.seen[w]])
      BY <1>1, <2>3
    <3> DEFINE x == [req |-> w, seen |-> cur'.seen[w]]
    <3>2. x.req = w /\ x \in Record /\ AllRecords' = Append(AllRecords, x)
      BY <3>1
    <3>3. w \in Live /\ \A r \in Live : r = w
      BY <2>1, <2>3, <3>1 DEF OneRequest, OneInv
    <3> HIDE DEF x
    <3>4. ASSUME NEW r \in Reqs PROVE PassInvOf(r)'
      <4>1. PassInvOf(r) /\ NumChunks(r)' = NumChunks(r) /\ IsFiniteSet(Places(AllRecords, r))
        BY <1>2, <1>6 DEF PassInvOf
      <4>2. /\ IsFiniteSet(Places(Append(AllRecords, x), r))
            /\ x.req = r => Cardinality(Places(Append(AllRecords, x), r)) = Cardinality(Places(AllRecords, r)) + 1
            /\ x.req # r => Places(Append(AllRecords, x), r) = Places(AllRecords, r)
        BY <1>1, <3>2, <4>1, MorePlaces
      <4>3. /\ IsFiniteSet(RecordsOf(r)') /\ (w = r => Cardinality(RecordsOf(r)') = Cardinality(RecordsOf(r)) + 1)
            /\ w # r => RecordsOf(r)' = RecordsOf(r)
        BY <1>2, <3>2, <4>2
      <4>4. CASE r = w
        <5>1. status[r] = "live" /\ Passes(r)' = Passes(r) + 1
          BY <1>7, <2>1, <2>3, <3>1, <3>3, <4>4 DEF Counts
        <5>2. Cardinality(RecordsOf(r)) = Passes(r)
          BY <4>1, <5>1 DEF PassInvOf
        <5>3. Cardinality(RecordsOf(r))' = Passes(r)'
          BY <4>3, <4>4, <5>1, <5>2
        <5> QED BY <2>1, <4>3, <5>1, <5>3 DEF PassInvOf
      <4>5. CASE r # w
        <5>1. status[r] # "live"
          BY <1>7, <3>3, <4>5
        <5> QED BY <2>1, <4>1, <4>3, <4>5, <5>1 DEF PassInvOf
      <4> QED BY <4>4, <4>5
    <3> QED BY <1>5, <2>1, <3>4
  <2> QED BY <2>2, <2>3
<1>9. CASE Process
  <2>1. /\ OneRequest' /\ Counts /\ ~Launching /\ loop' = loop
        /\ \A r \in Reqs : r \notin Live => status'[r] = status[r] /\ tokens'[r] = tokens[r]
        /\ \A r \in Live : \/ status'[r] = "live"
                           \/ /\ status'[r] = "finished" /\ todo'[r] = 0 /\ pc' = "top"
                              /\ Gives(Awaited, r)' = IF loop = "overlap" THEN 1 ELSE 0
                              /\ Gives(Launched, r)' = 0
    BY <1>9, OneProcess, ProcessFacts
  <2>2. ASSUME NEW r \in Reqs PROVE PassInvOf(r)'
    <3>1. RecordsOf(r)' = RecordsOf(r) /\ PassInvOf(r) /\ NumChunks(r)' = NumChunks(r)
      BY <1>3, <1>6, <2>1
    <3>2. CASE r \notin Live
      BY <1>7, <2>1, <3>1, <3>2 DEF PassInvOf
    <3>3. CASE r \in Live
      <4>1. Passes(r) \in Int
        BY CountTypes DEF Passes
      <4>2. Cardinality(RecordsOf(r))' = Passes(r)'
        BY <1>7, <2>1, <3>1, <3>3, <4>1 DEF PassInvOf, Counts
      <4>3. IsFiniteSet(RecordsOf(r))'
        BY <3>1 DEF PassInvOf
      <4>4. CASE status'[r] = "live"
        BY <4>2, <4>3, <4>4 DEF PassInvOf
      <4>5. CASE status'[r] # "live"
        <5>1. /\ status'[r] = "finished" /\ todo'[r] = 0 /\ pc' = "top"
              /\ Gives(Awaited, r)' = IF loop = "overlap" THEN 1 ELSE 0
              /\ Gives(Launched, r)' = 0
          BY <2>1, <3>3, <4>5
        <5>2. Left(r)' = 0 /\ Open(r)' = 1
          <6>1. Left(r)' = Chunks(0)
            BY <5>1 DEF Left, Chunks
          <6>2. Chunks(0) = 0
            BY ChunksFacts
          <6>3. Open(r)' = 1
            BY <5>1 DEF Open
          <6> QED BY <6>1, <6>2, <6>3
        <5>3. NumChunks(r) \in Nat /\ Len(tokens'[r]) \in Nat
          <6>1. tokens'[r] \in Seq(Nat \cup {Partial})
            BY DEF LoopInv, SchedulerTypeOK
          <6> QED BY <6>1, CountTypes
        <5>4. Passes(r)' = NumChunks(r) - 0 - 1 + Len(tokens'[r]) + (IF loop = "overlap" THEN 1 ELSE 0) + 0
          BY <3>1, <5>1, <5>2 DEF Passes
        <5>5. Passes(r)' = Len(tokens'[r]) + NumChunks(r) - 1 + (IF loop = "overlap" THEN 1 ELSE 0)
          BY <5>3, <5>4
        <5> QED BY <2>1, <3>1, <4>2, <4>3, <5>1, <5>5 DEF PassInvOf
      <4> QED BY <4>4, <4>5
    <3> QED BY <3>2, <3>3
  <2> QED BY <1>5, <2>1, <2>2
<1>10. CASE \E q \in Reqs : Submit(q)
  <2>1. PICK q \in Reqs : Submit(q)
    BY <1>10
  <2>2. OneRequest' /\ Passes(q)' = 0 /\ Live' = {q}
    BY <2>1, OneSubmit
  <2>3. /\ Live = {} /\ pc' = pc /\ status[q] = "new" /\ status' = [status EXCEPT ![q] = "live"]
        /\ UNCHANGED <<loop, tokens>>
    BY <2>1 DEF Submit, config
  <2>4. ~Launching /\ status \in [Reqs -> {"new", "live", "finished", "dropped"}]
    BY <2>3 DEF Launching, LoopInv, SchedulerTypeOK
  <2>5. ASSUME NEW r \in Reqs PROVE PassInvOf(r)'
    <3>1. RecordsOf(r)' = RecordsOf(r) /\ PassInvOf(r) /\ NumChunks(r)' = NumChunks(r)
      BY <1>3, <1>6, <2>4
    <3>2. CASE r = q
      <4>1. RecordsOf(r)' = {} /\ status'[r] = "live"
        BY <2>3, <2>4, <3>1, <3>2 DEF PassInvOf
      <4>2. IsFiniteSet({}) /\ Cardinality({}) = 0
        BY FS_EmptySet
      <4> QED BY <2>2, <3>2, <4>1, <4>2 DEF PassInvOf
    <3>3. CASE r # q
      <4>1. status'[r] = status[r] /\ status[r] # "live"
        BY <1>7, <2>3, <2>4, <3>3
      <4> QED BY <2>3, <3>1, <4>1 DEF PassInvOf
    <3> QED BY <3>2, <3>3
  <2> QED BY <1>5, <2>2, <2>5
<1>11. CASE UNCHANGED schedulerVars
  <2>1. /\ OneRequest' /\ Counts /\ ~Launching /\ UNCHANGED <<loop, client, status, tokens>>
    BY <1>11, OneUnchanged
  <2>2. ASSUME NEW r \in Reqs PROVE PassInvOf(r)'
    <3>1. RecordsOf(r)' = RecordsOf(r) /\ PassInvOf(r) /\ NumChunks(r)' = NumChunks(r)
      BY <1>3, <1>6, <2>1
    <3>2. status[r] = "live" => Passes(r)' = Passes(r) + 0 /\ Passes(r) \in Int
      BY <1>7, <2>1, CountTypes DEF Counts, Passes
    <3>3. status[r] = "live" => Passes(r)' = Passes(r)
      BY <3>2
    <3> QED BY <2>1, <3>1, <3>3 DEF PassInvOf
  <2> QED BY <1>5, <2>1, <2>2
<1>12. \A r \in Reqs : ~Abort(r)
  BY DEF Abort
<1> QED BY <1>8, <1>9, <1>10, <1>11, <1>12, ServerSteps

\* Loop and client are chosen once.
LEMMA ConfigStep ==
  ASSUME [Next]_vars
  PROVE  UNCHANGED <<loop, client>>
<1>1. CASE Iteration
  BY <1>1 DEF Iteration, Merge, StartPrefill, AddRequest, StopAdding, Prefill, NoPrefill, RunDecode,
         RetractDecode, NoBatch, Process, config
<1>2. CASE \E r \in Reqs : Submit(r) \/ Abort(r)
  BY <1>2 DEF Submit, Abort, config
<1>3. CASE UNCHANGED schedulerVars
  BY <1>3 DEF schedulerVars, config
<1> QED BY <1>1, <1>2, <1>3, ServerSteps

\* The server starts without a record.
LEMMA InitRecords ==
  ASSUME Init
  PROVE  OneRequest /\ PassInv /\ AllRecords = <<>>
<1>1. /\ pc = "top" /\ status = [r \in Reqs |-> "new"] /\ todo = PromptLen /\ tokens = [r \in Reqs |-> <<>>]
      /\ retracted = [r \in Reqs |-> FALSE] /\ chunked = None /\ log = <<>> /\ files = <<>>
  BY DEF Init, SchedulerInit
<1>2. Live = {}
  BY <1>1 DEF Live
<1>3. \A r \in Reqs : PromptLen[r] \in Nat
  BY SchedulerAssumption
<1>4. OneRequest
  BY <1>1, <1>2, <1>3 DEF OneRequest, OneInv, TodoInv, NextInv
<1>5. AllRecords = <<>>
  <2>1. <<>> \in Seq(Seq(Record)) /\ <<>> \o <<>> = <<>>
    OBVIOUS
  <2>2. FlattenSeq(<<>>) = <<>>
    BY <2>1, Flattened
  <2> QED BY <1>1, <2>1, <2>2 DEF AllRecords
<1>6. PassInv
  <2>1. \A r \in Reqs : RecordsOf(r) = {}
    BY <1>5 DEF RecordsOf
  <2> QED BY <1>1, <2>1, FS_EmptySet DEF PassInv, PassInvOf
<1> QED BY <1>4, <1>5, <1>6

\* The recorder and the event loops: when a request of the collector has its answer, the
\* records hold exactly one pass for each token, one for each chunk of the prompt but the
\* last, and in the overlap loop the one pass that was launched before the end was known.
THEOREM RecordsCounted == Spec => []RecordsPerAnswer
<1> DEFINE I == LoopInv /\ FileInv /\ RecordInv
<1>1. Init => I
  BY InitLoop, InitFile, InitRecords DEF RecordInv
<1>2. I /\ [Next]_vars => I'
  <2> SUFFICES ASSUME LoopInv, FileInv, RecordInv, [Next]_vars PROVE I'
    OBVIOUS
  <2>1. LoopInv' /\ FileInv' /\ client' = client
    BY LoopStep, FileStep, ConfigStep
  <2>2. RecordInv'
    BY <2>1, CollectorStep DEF RecordInv
  <2> QED BY <2>1, <2>2
<1>3. I => RecordsPerAnswer
  BY DEF RecordInv, PassInv, PassInvOf, RecordsPerAnswer
<1> QED BY <1>1, <1>2, <1>3, PTL DEF Spec
-----------------------------------------------------------------------------
(* The order of the answers *)

\* The places of a longer sequence.
LEMMA AppendAt ==
  ASSUME NEW S, NEW s \in Seq(S), NEW e \in S
  PROVE  /\ Append(s, e) \in Seq(S) /\ Len(Append(s, e)) = Len(s) + 1
         /\ \A k \in 1..Len(s) : Append(s, e)[k] = s[k]
         /\ Append(s, e)[Len(s) + 1] = e
OBVIOUS

\* Appending to the second of two.
LEMMA ConcatAppend ==
  ASSUME NEW S, NEW s \in Seq(S), NEW t \in Seq(S), NEW e \in S
  PROVE  s \o Append(t, e) = Append(s \o t, e)
OBVIOUS

\* A request that is sent adds no token.
LEMMA TokensOfSent ==
  ASSUME NEW ord \in Seq(Reqs), NEW toks \in [Reqs -> Seq(Nat \cup {Partial})], NEW r \in Reqs, toks[r] = <<>>
  PROVE  FlattenSeq(RowsOf(Append(ord, r), toks)) = FlattenSeq(RowsOf(ord, toks))
<1> DEFINE R == RowsOf(ord, toks)
           Q == RowsOf(Append(ord, r), toks)
           n == Len(ord)
<1>1. R \in Seq(Seq(Token)) /\ Len(R) = n /\ Append(ord, r) \in Seq(Reqs) /\ Len(Append(ord, r)) = n + 1 /\ n \in Nat
  BY RowsOfType
<1>2. Q \in Seq(Seq(Token)) /\ Len(Q) = n + 1
  BY <1>1, RowsOfType
<1>3. TokenRows(r, toks) = <<>>
  <2>1. TokenRows(r, toks) \in Seq(Token) /\ Len(TokenRows(r, toks)) = 0
    BY TokenRowsType
  <2> QED BY <2>1
<1>4. Q = Append(R, <<>>)
  <2>1. \A k \in 1..n : Append(ord, r)[k] = ord[k]
    OBVIOUS
  <2>2. Append(ord, r)[n + 1] = r /\ DOMAIN Append(ord, r) = 1..(n + 1) /\ DOMAIN ord = 1..n
    OBVIOUS
  <2>3. ASSUME NEW k \in 1..(n + 1) PROVE Q[k] = Append(R, <<>>)[k]
    <3>1. Q[k] = TokenRows(Append(ord, r)[k], toks)
      BY <2>2 DEF RowsOf
    <3>2. CASE k = n + 1
      BY <1>1, <1>3, <2>2, <3>1, <3>2
    <3>3. CASE k # n + 1
      <4>1. k \in 1..n
        BY <1>1, <3>3
      <4>2. R[k] = TokenRows(ord[k], toks)
        BY <2>2, <4>1 DEF RowsOf
      <4>3. Append(R, <<>>)[k] = R[k]
        BY <1>1, <4>1
      <4> QED BY <2>1, <3>1, <4>1, <4>2, <4>3
    <3> QED BY <3>2, <3>3
  <2>4. Append(R, <<>>) \in Seq(Seq(Token)) /\ Len(Append(R, <<>>)) = n + 1
    BY <1>1
  <2> HIDE DEF R, Q, n
  <2> QED BY <1>2, <2>3, <2>4, SeqEqual
<1> HIDE DEF R, Q
<1>5. <<>> \in Seq(Token) /\ FlattenSeq(R) \in Seq(Token)
  BY <1>1, Flattened
<1>6. FlattenSeq(Q) = FlattenSeq(R) \o <<>>
  BY <1>1, <1>4, <1>5, Flattened
<1>7. FlattenSeq(R) \o <<>> = FlattenSeq(R)
  BY <1>5
<1> QED BY <1>6, <1>7 DEF Q, R

\* A token of the last request is the last of all.
LEMMA TokensOneMore ==
  ASSUME NEW ord \in Seq(Reqs), ord # <<>>, IsInjective(ord),
         NEW t \in [Reqs -> Seq(Nat \cup {Partial})], NEW u \in [Reqs -> Seq(Nat \cup {Partial})],
         NEW w, w = ord[Len(ord)], Len(u[w]) = Len(t[w]) + 1,
         \A r \in Reqs : r # w => u[r] = t[r]
  PROVE  FlattenSeq(RowsOf(ord, u)) = Append(FlattenSeq(RowsOf(ord, t)), [req |-> w, pos |-> Len(t[w]) + 1])
<1> DEFINE n == Len(ord)
           P == SubSeq(RowsOf(ord, t), 1, n - 1)
           A == TokenRows(w, t)
           B == TokenRows(w, u)
           x == [req |-> w, pos |-> Len(t[w]) + 1]
<1>1. n \in Nat \ {0} /\ w \in Reqs /\ w = ord[n] /\ DOMAIN ord = 1..n /\ n \in DOMAIN ord
  OBVIOUS
<1>2. /\ RowsOf(ord, t) \in Seq(Seq(Token)) /\ Len(RowsOf(ord, t)) = n
      /\ RowsOf(ord, u) \in Seq(Seq(Token)) /\ Len(RowsOf(ord, u)) = n
  BY RowsOfType
<1>3. A \in Seq(Token) /\ Len(A) = Len(t[w]) /\ B \in Seq(Token) /\ Len(B) = Len(t[w]) + 1
  BY <1>1, TokenRowsType
<1>4. P \in Seq(Seq(Token)) /\ Len(P) = n - 1 /\ \A k \in 1..(n - 1) : P[k] = RowsOf(ord, t)[k]
  BY <1>1, <1>2
<1>5. \A k \in 1..n : RowsOf(ord, t)[k] = TokenRows(ord[k], t) /\ RowsOf(ord, u)[k] = TokenRows(ord[k], u)
  BY <1>1 DEF RowsOf
<1>6. \A k \in 1..(n - 1) : k \in 1..n /\ ord[k] \in Reqs /\ ord[k] # w
  <2>1. ASSUME NEW k \in 1..(n - 1) PROVE k \in 1..n /\ ord[k] \in Reqs /\ ord[k] # w
    <3> HIDE DEF n
    <3>1. k \in 1..n /\ k # n
      BY <1>1
    <3>2. ord[k] \in Reqs
      BY <3>1 DEF n
    <3>3. k \in DOMAIN ord /\ n \in DOMAIN ord
      BY <1>1, <3>1
    <3>4. ord[k] # ord[n]
      BY <3>1, <3>3 DEF IsInjective
    <3> QED BY <1>1, <3>1, <3>2, <3>4
  <2> QED BY <2>1
<1>7. \A k \in 1..(n - 1) : TokenRows(ord[k], u) = TokenRows(ord[k], t)
  BY <1>6 DEF TokenRows
<1>8. B = Append(A, x)
  <2>1. t[w] \in Seq(Nat \cup {Partial}) /\ u[w] \in Seq(Nat \cup {Partial})
    BY <1>1
  <2>2. DOMAIN t[w] = 1..Len(t[w]) /\ DOMAIN u[w] = 1..(Len(t[w]) + 1) /\ Len(t[w]) \in Nat
    BY <2>1
  <2>3. x \in Token
    BY <1>1, <2>2 DEF Token
  <2>4. Append(A, x) \in Seq(Token) /\ Len(Append(A, x)) = Len(t[w]) + 1
    BY <1>3, <2>3
  <2>5. ASSUME NEW i \in 1..(Len(t[w]) + 1) PROVE B[i] = Append(A, x)[i]
    <3>1. B[i] = [req |-> w, pos |-> i]
      BY <2>2 DEF TokenRows
    <3>2. CASE i = Len(t[w]) + 1
      BY <1>3, <3>1, <3>2
    <3>3. CASE i # Len(t[w]) + 1
      <4>1. i \in 1..Len(t[w])
        BY <2>2, <3>3
      <4>2. A[i] = [req |-> w, pos |-> i]
        BY <2>2, <4>1 DEF TokenRows
      <4>3. Append(A, x)[i] = A[i]
        BY <1>3, <4>1
      <4> QED BY <3>1, <4>2, <4>3
    <3> QED BY <3>2, <3>3
  <2> HIDE DEF A, B, x
  <2> QED BY <1>3, <2>4, <2>5, SeqEqual
<1> HIDE DEF P, A, B, x, n
<1>9. RowsOf(ord, t) = Append(P, A)
  <2>1. Append(P, A) \in Seq(Seq(Token)) /\ Len(Append(P, A)) = n
    BY <1>1, <1>3, <1>4
  <2>2. ASSUME NEW k \in 1..n PROVE RowsOf(ord, t)[k] = Append(P, A)[k]
    <3>1. CASE k = n
      BY <1>1, <1>3, <1>4, <1>5, <3>1 DEF A, n
    <3>2. CASE k # n
      <4>1. k \in 1..(n - 1)
        BY <1>1, <3>2
      <4>2. Append(P, A)[k] = P[k]
        BY <1>3, <1>4, <4>1, AppendAt
      <4> QED BY <1>4, <4>1, <4>2
    <3> QED BY <3>1, <3>2
  <2> QED BY <1>2, <2>1, <2>2, SeqEqual
<1>10. RowsOf(ord, u) = Append(P, B)
  <2>1. Append(P, B) \in Seq(Seq(Token)) /\ Len(Append(P, B)) = n
    BY <1>1, <1>3, <1>4
  <2>2. ASSUME NEW k \in 1..n PROVE RowsOf(ord, u)[k] = Append(P, B)[k]
    <3>1. CASE k = n
      BY <1>1, <1>3, <1>4, <1>5, <3>1 DEF B, n
    <3>2. CASE k # n
      <4>1. k \in 1..(n - 1)
        BY <1>1, <3>2
      <4>2. RowsOf(ord, u)[k] = RowsOf(ord, t)[k]
        BY <1>5, <1>7, <4>1
      <4>3. Append(P, B)[k] = P[k]
        BY <1>3, <1>4, <4>1, AppendAt
      <4> QED BY <1>4, <4>1, <4>2, <4>3
    <3> QED BY <3>1, <3>2
  <2> QED BY <1>2, <2>1, <2>2, SeqEqual
<1>11. FlattenSeq(P) \in Seq(Token) /\ FlattenSeq(Append(P, A)) = FlattenSeq(P) \o A
       /\ FlattenSeq(Append(P, B)) = FlattenSeq(P) \o B
  BY <1>3, <1>4, Flattened
<1>12. FlattenSeq(P) \o Append(A, x) = Append(FlattenSeq(P) \o A, x)
  <2>1. x \in Token
    BY <1>1 DEF x, Token
  <2> QED BY <1>3, <1>11, <2>1, ConcatAppend
<1> QED BY <1>8, <1>9, <1>10, <1>11, <1>12 DEF x

\* What a step does to the status of the requests, but for one that is sent.
LEMMA StatusStep ==
  ASSUME LoopInv, [Next]_vars, ~\E r \in Reqs : Send(r)
  PROVE  order' = order /\ Live' \subseteq Live /\ \A r \in Reqs : status[r] # "new" => status'[r] # "new"
<1>1. order' = order
  BY DEF Next, Server, Cancel, Dump, StartScript, ProcessFile, FailFile, vars
<1>2. CASE Process
  <2>1. /\ \A r \in Answered : status[r] = "live" /\ status'[r] \in {"live", "finished"}
        /\ \A r \in Reqs \ Answered : status'[r] = status[r]
    BY <1>2, ProcessFacts
  <2> QED BY <1>1, <2>1 DEF Live
<1>3. CASE Iteration /\ ~Process
  <2>1. status' = status
    BY <1>3 DEF Iteration, Merge, StartPrefill, AddRequest, StopAdding, Prefill, NoPrefill, RunDecode,
                RetractDecode, NoBatch, requests
  <2> QED BY <1>1, <2>1 DEF Live
<1>4. CASE \E q \in Reqs : Cancel(q)
  <2>1. PICK q \in Reqs : Abort(q)
    BY <1>4 DEF Cancel
  <2>2. status' = status \/ status' = [status EXCEPT ![q] = "dropped"]
    BY <2>1 DEF Abort
  <2>3. status \in [Reqs -> {"new", "live", "finished", "dropped"}]
    BY DEF LoopInv, SchedulerTypeOK
  <2>4. \A r \in Reqs : status'[r] = status[r] \/ status'[r] = "dropped"
    BY <2>2, <2>3
  <2> QED BY <1>1, <2>4 DEF Live
<1>5. CASE UNCHANGED schedulerVars
  <2>1. status' = status
    BY <1>5 DEF schedulerVars, requests
  <2> QED BY <1>1, <2>1 DEF Live
<1>6. Server \/ (\E q \in Reqs : Cancel(q)) \/ UNCHANGED schedulerVars
  BY DEF Next, Dump, StartScript, ProcessFile, FailFile, vars
<1> QED BY <1>2, <1>3, <1>4, <1>5, <1>6 DEF Server

\* Every step keeps the order that of the answers.
LEMMA OrderStep ==
  ASSUME LoopInv, FileInv, OneInv, OrderInv, client = "collector", [Next]_vars
  PROVE  OrderInv'
<1>0. order \in Seq(Reqs) /\ Len(order) \in Nat /\ DOMAIN order = 1..Len(order)
  BY DEF FileInv
<1>1. CASE \E r \in Reqs : Send(r)
  <2>1. PICK r \in Reqs : Send(r)
    BY <1>1
  <2>2. /\ status[r] = "new" /\ Live = {} /\ status' = [status EXCEPT ![r] = "live"] /\ order' = Append(order, r)
    BY <2>1 DEF Send, Submit
  <2>3. status \in [Reqs -> {"new", "live", "finished", "dropped"}]
    BY DEF LoopInv, SchedulerTypeOK
  <2>4. r \notin Range(order)
    BY <2>2 DEF OrderInv, Range
  <2>5. IsInjective(order')
    BY <1>0, <2>2, <2>4, AppendOne DEF OrderInv
  <2>6. /\ order' \in Seq(Reqs) /\ Len(order') = Len(order) + 1 /\ order'[Len(order) + 1] = r
        /\ \A k \in 1..Len(order) : order'[k] = order[k]
    BY <1>0, <2>2, AppendAt
  <2>7. ASSUME NEW i \in DOMAIN order' PROVE status'[order'[i]] # "new"
    <3>1. i \in 1..Len(order) \/ i = Len(order) + 1
      BY <1>0, <2>6
    <3>2. CASE i = Len(order) + 1
      BY <2>2, <2>3, <2>6, <3>2
    <3>3. CASE i \in 1..Len(order)
      <4>1. order'[i] = order[i] /\ order[i] \in Reqs /\ status[order[i]] # "new"
        BY <1>0, <2>6, <3>3 DEF OrderInv
      <4> QED BY <2>2, <2>3, <4>1
    <3> QED BY <3>1, <3>2, <3>3
  <2>8. order' # <<>> /\ order'[Len(order')] \in Live'
    <3>1. order'[Len(order')] = r /\ order' # <<>>
      BY <1>0, <2>6
    <3> QED BY <2>2, <2>3, <3>1 DEF Live
  <2> QED BY <2>5, <2>7, <2>8 DEF OrderInv
<1>2. CASE ~\E r \in Reqs : Send(r)
  <2>1. order' = order /\ Live' \subseteq Live /\ \A r \in Reqs : status[r] # "new" => status'[r] # "new"
    BY <1>2, StatusStep
  <2>2. \A i \in DOMAIN order : order[i] \in Reqs
    BY <1>0
  <2>3. Live' # {} => Live' = Live
    BY <2>1 DEF OneInv
  <2> QED BY <2>1, <2>2, <2>3 DEF OrderInv
<1> QED BY <1>1, <1>2

\* With prompts of one chunk nothing is chunked.
LEMMA NothingChunked ==
  ASSUME LoopInv, FileInv, OneRequest, OrderInv, Short
  PROVE  chunked = None
<1> SUFFICES ASSUME chunked # None PROVE FALSE
  OBVIOUS
<1>1. chunked \in Live /\ PromptLen[chunked] > ChunkSize /\ chunked \in Reqs
  BY DEF LoopInv, SchedulerTypeOK, ChunkInv, Live, OneRequest, TodoInv
<1>2. order # <<>> /\ order[Len(order)] = chunked
  BY <1>1 DEF OrderInv, OneRequest, OneInv
<1>3. Len(order) \in DOMAIN order
  BY <1>2 DEF FileInv
<1>4. NumChunks(chunked) = 1
  BY <1>2, <1>3 DEF Short
<1>5. NumChunks(chunked) > 1
  BY <1>1, CountTypes, ChunksFacts
<1> QED BY <1>4, <1>5

\* A pass adds the record of the token that it will give.
LEMMA FitLaunch ==
  ASSUME LoopInv, LoopInv', FileInv, FileInv', OneRequest, OrderInv, Short, Fits, loop = "normal",
         client = "collector", [Next]_vars, Launching
  PROVE  Fits'
<1>1. Generated \in Seq(Token) /\ AllRecords \in Seq(Record) /\ chunked = None /\ Launched = None
  BY GeneratedType, RecordsStep, NothingChunked DEF LoopInv, FileInv, Launching, Launched
<1>2. Len(AllRecords) = Len(Generated) /\ Len(Generated) \in Nat
  <2>1. Len(Generated) \in Nat
    BY <1>1
  <2> QED BY <1>1, <2>1 DEF Fits
<1>3. Server
  <2>1. ASSUME ~Server PROVE pc' = pc
    BY <2>1 DEF Next, Send, Cancel, Submit, Abort, Dump, StartScript, ProcessFile, FailFile, vars, schedulerVars
  <2> QED BY <2>1 DEF Launching
<1>4. Iteration /\ ~Process /\ order' = order
  BY <1>3 DEF Server, Process, Launching
<1>5. /\ cur'.reqs = Live /\ UNCHANGED <<loop, status, tokens>>
  BY <1>4, OneIteration DEF Launching
<1>6. chunked' = chunked
  BY <1>4 DEF Launching, Iteration, Merge, StartPrefill, AddRequest, StopAdding, Prefill, NoPrefill, RunDecode,
              RetractDecode, NoBatch
<1>7. Generated' = Generated
  BY <1>4, <1>5 DEF Generated
<1>8. PICK w \in cur'.reqs :
        /\ w \in Reqs /\ [req |-> w, seen |-> cur'.seen[w]] \in Record
        /\ AllRecords' = Append(AllRecords, [req |-> w, seen |-> cur'.seen[w]])
  BY RecordsStep
<1>9. cur'.seen[w] = Len(tokens[w])
  <2>1. Launched' = cur' /\ Awaited' = None /\ Recent' = cur' /\ cur' # None /\ pc' = "process"
    BY <1>5 DEF Launched, Awaited, Recent, Launching
  <2>2. cur'.chunked = None
    BY <1>1, <1>6, <2>1 DEF LoopInv, ChunkInv
  <2>3. w # Launched'.chunked
    BY <1>8, <2>1, <2>2, SchedulerAssumption
  <2>4. Launched'.seen[w] = Len(tokens'[w]) + Gives(Awaited, w)'
    BY <1>8, <2>1, <2>3 DEF LoopInv, SeenInv
  <2>5. Gives(Awaited, w)' = 0
    BY <2>1 DEF Gives
  <2> QED BY <1>5, <1>8, <2>1, <2>4, <2>5, CountTypes
<1> DEFINE x == [req |-> w, seen |-> cur'.seen[w]]
<1>10. /\ x \in Record /\ x = [req |-> w, seen |-> Len(tokens[w])] /\ AllRecords' = Append(AllRecords, x)
  BY <1>8, <1>9
<1> HIDE DEF x
<1>11. /\ Len(AllRecords') = Len(AllRecords) + 1 /\ AllRecords'[Len(AllRecords) + 1] = x
       /\ \A k \in 1..Len(AllRecords) : AllRecords'[k] = AllRecords[k]
  BY <1>1, <1>10, AppendAt
<1>12. DOMAIN Generated = 1..Len(AllRecords)
  BY <1>1, <1>2
<1>13. \A r \in cur'.reqs : r = w
  BY <1>5, <1>8 DEF OneRequest, OneInv
<1>14. Launched' = cur' /\ cur' # None
  BY DEF Launched, Launching
<1>a. Len(AllRecords') = Len(Generated') + 1
  BY <1>2, <1>7, <1>11
<1>b. \A j \in DOMAIN Generated' : AllRecords'[j] = [req |-> Generated'[j].req, seen |-> Generated'[j].pos - 1]
  BY <1>7, <1>11, <1>12 DEF Fits
<1>c. \A r \in cur'.reqs : AllRecords'[Len(AllRecords')] = [req |-> r, seen |-> Len(tokens'[r])]
  BY <1>5, <1>10, <1>11, <1>13
<1> QED BY <1>14, <1>a, <1>b, <1>c DEF Fits

\* The result of the pass adds the token.
LEMMA FitProcess ==
  ASSUME LoopInv, FileInv, OneRequest, OrderInv, Short, Fits, loop = "normal",
         client = "collector", [Next]_vars, Server, Process
  PROVE  Fits'
<1>1. /\ pc = "process" /\ pc' = "top" /\ order' = order
      /\ Answered \subseteq Reqs
      /\ tokens' \in [Reqs -> Seq(Nat \cup {Partial})]
      /\ \A r \in Answered : tokens'[r] = Append(tokens[r], Len(tokens[r]))
      /\ \A r \in Reqs \ Answered : tokens'[r] = tokens[r]
  BY ProcessFacts DEF Server
<1>2. /\ Generated \in Seq(Token) /\ Generated = FlattenSeq(RowsOf(order, tokens))
      /\ order \in Seq(Reqs) /\ tokens \in [Reqs -> Seq(Nat \cup {Partial})]
  BY GeneratedType DEF LoopInv, FileInv, SchedulerTypeOK
<1>3. Generated' = FlattenSeq(RowsOf(order, tokens'))
  BY <1>1 DEF Generated, RowsOf, TokenRows
<1>4. Launched = cur /\ Launched' = None /\ Due = cur /\ Recent = cur
  BY <1>1 DEF Launched, Due, Recent
<1>5. AllRecords' = AllRecords /\ AllRecords \in Seq(Record)
  <2>1. files' = files /\ log' = log
    BY <1>1 DEF Server, Recorded
  <2>2. AllRecords \in Seq(Record)
    <3>1. files \in Seq(Seq(Record)) /\ log \in Seq(Record)
      BY DEF FileInv
    <3>2. FlattenSeq(files) \in Seq(Record)
      BY <3>1, Flattened
    <3> QED BY <3>1, <3>2 DEF AllRecords
  <2> QED BY <2>1, <2>2 DEF AllRecords
<1>6. CASE cur = None
  <2>1. \A r \in Reqs : tokens'[r] = tokens[r]
    BY <1>1, <1>4, <1>6 DEF Answered
  <2>2. tokens' = tokens
    BY <1>1, <1>2, <2>1
  <2>3. Generated' = Generated
    BY <1>2, <1>3, <2>2
  <2> QED BY <1>4, <1>5, <1>6, <2>3 DEF Fits
<1>7. CASE cur # None
  <2>1. cur.reqs # {} /\ cur.reqs \subseteq Live
    <3>1. cur.reqs # {} /\ cur.reqs \subseteq Reqs
      BY <1>7, BatchFacts DEF LoopInv
    <3>2. \A r \in cur.reqs : status[r] = "live"
      BY <1>4, <1>7 DEF LoopInv, BatchInv
    <3> QED BY <3>1, <3>2 DEF Live
  <2>2. PICK w \in cur.reqs : TRUE
    BY <2>1
  <2>3. cur.reqs = {w} /\ Live = {w} /\ w \in Reqs /\ status[w] = "live" /\ ~retracted[w]
    BY <2>1, <2>2 DEF OneRequest, OneInv, Live
  <2>4. cur.chunked = None /\ w # None
    <3>1. chunked = None
      BY NothingChunked
    <3> QED BY <1>1, <1>4, <1>7, <2>3, <3>1, SchedulerAssumption DEF LoopInv, ChunkInv
  <2>5. Answered = {w}
    BY <1>4, <1>7, <2>3, <2>4 DEF Answered
  <2>6. order # <<>> /\ w = order[Len(order)] /\ IsInjective(order)
    BY <2>3 DEF OrderInv
  <2>7. tokens'[w] = Append(tokens[w], Len(tokens[w])) /\ \A r \in Reqs : r # w => tokens'[r] = tokens[r]
    BY <1>1, <2>5
  <2>8. Len(tokens'[w]) = Len(tokens[w]) + 1 /\ Len(tokens[w]) \in Nat
    <3>1. tokens[w] \in Seq(Nat \cup {Partial})
      BY <1>2, <2>3
    <3> QED BY <2>7, <3>1
  <2> DEFINE y == [req |-> w, pos |-> Len(tokens[w]) + 1]
  <2>9. Generated' = Append(Generated, y)
    BY <1>1, <1>2, <1>3, <2>6, <2>7, <2>8, TokensOneMore
  <2>10. y \in Token /\ y.req = w /\ y.pos - 1 = Len(tokens[w])
    BY <2>3, <2>8 DEF Token
  <2> HIDE DEF y
  <2>11. /\ Len(Generated') = Len(Generated) + 1 /\ Generated'[Len(Generated) + 1] = y
         /\ \A k \in 1..Len(Generated) : Generated'[k] = Generated[k]
         /\ Generated' \in Seq(Token)
    BY <1>2, <2>9, <2>10, AppendAt
  <2>12. /\ Len(AllRecords) = Len(Generated) + 1 /\ Len(Generated) \in Nat
         /\ AllRecords[Len(AllRecords)] = [req |-> w, seen |-> Len(tokens[w])]
    BY <1>2, <1>4, <1>7, <2>2 DEF Fits
  <2>13. ASSUME NEW j \in DOMAIN Generated'
         PROVE  AllRecords'[j] = [req |-> Generated'[j].req, seen |-> Generated'[j].pos - 1]
    <3>1. j \in 1..Len(Generated) \/ j = Len(Generated) + 1
      BY <2>11, <2>12
    <3>2. CASE j = Len(Generated) + 1
      BY <1>5, <2>10, <2>11, <2>12, <3>2
    <3>3. CASE j \in 1..Len(Generated)
      <4>1. j \in DOMAIN Generated /\ Generated'[j] = Generated[j]
        BY <1>2, <2>11, <3>3
      <4> QED BY <1>5, <4>1 DEF Fits
    <3> QED BY <3>1, <3>2, <3>3
  <2>14. Len(AllRecords') = Len(Generated')
    BY <1>5, <2>11, <2>12
  <2>15. Len(Generated') \in Nat
    BY <2>11
  <2> QED BY <1>4, <2>13, <2>14, <2>15 DEF Fits
<1> QED BY <1>6, <1>7

\* Every other step leaves the records and the tokens alone.
LEMMA FitOther ==
  ASSUME LoopInv, LoopInv', FileInv, FileInv', OneRequest, Fits, loop = "normal",
         client = "collector", [Next]_vars, ~Launching, ~Process
  PROVE  Fits'
<1>1. AllRecords' = AllRecords
  BY RecordsStep
<1>2. tokens' = tokens /\ Launched' = Launched
  <2>1. CASE Iteration
    <3>1. tokens' = tokens
      BY <2>1, OneIteration
    <3>2. pc # "process"
      BY <2>1 DEF Iteration, Merge, StartPrefill, AddRequest, StopAdding, Prefill, NoPrefill, RunDecode,
                  RetractDecode, NoBatch
    <3> QED BY <3>1, <3>2 DEF Launched, Launching
  <2>2. CASE \E r \in Reqs : Submit(r) \/ Abort(r)
    BY <2>2 DEF Submit, Abort, Launched
  <2>3. CASE UNCHANGED schedulerVars
    BY <2>3 DEF schedulerVars, requests, batches, Launched
  <2> QED BY <2>1, <2>2, <2>3, ServerSteps
<1>3. Generated' = Generated
  <2>1. CASE \E r \in Reqs : Send(r)
    <3>1. PICK r \in Reqs : Send(r)
      BY <2>1
    <3>2. order' = Append(order, r) /\ status[r] = "new"
      BY <3>1 DEF Send, Submit
    <3>3. tokens[r] = <<>> /\ tokens \in [Reqs -> Seq(Nat \cup {Partial})] /\ order \in Seq(Reqs)
      BY <3>2 DEF OneRequest, TodoInv, LoopInv, SchedulerTypeOK, FileInv
    <3>4. Generated = FlattenSeq(RowsOf(order, tokens))
      BY GeneratedType DEF LoopInv, FileInv
    <3>5. Generated' = FlattenSeq(RowsOf(order', tokens'))
      BY DEF Generated, RowsOf, TokenRows
    <3> QED BY <1>2, <3>2, <3>3, <3>4, <3>5, TokensOfSent
  <2>2. CASE ~\E r \in Reqs : Send(r)
    <3>1. order' = order
      BY <2>2, StatusStep
    <3> QED BY <1>2, <3>1 DEF Generated
  <2> QED BY <2>1, <2>2
<1> QED BY <1>1, <1>2, <1>3 DEF Fits

\* Every step keeps the records fitting the tokens.
LEMMA FitStep ==
  ASSUME LoopInv, LoopInv', FileInv, FileInv', OneRequest, OrderInv, FitInv, client = "collector", [Next]_vars
  PROVE  FitInv'
<1> SUFFICES ASSUME loop' = "normal", Short' PROVE Fits'
  BY DEF FitInv
<1>1. loop = "normal"
  BY ConfigStep
<1>2. Short
  <2>1. CASE \E r \in Reqs : Send(r)
    <3>1. PICK r \in Reqs : order' = Append(order, r)
      BY <2>1 DEF Send
    <3>2. /\ order \in Seq(Reqs) /\ Len(order') = Len(order) + 1 /\ order' \in Seq(Reqs)
          /\ \A k \in 1..Len(order) : order'[k] = order[k]
      BY <3>1, AppendAt DEF FileInv
    <3>3. \A k \in DOMAIN order : k \in DOMAIN order' /\ order'[k] = order[k]
      BY <3>2
    <3> QED BY <3>3 DEF Short, NumChunks
  <2>2. CASE ~\E r \in Reqs : Send(r)
    <3>1. order' = order
      BY <2>2, StatusStep
    <3> QED BY <3>1 DEF Short, NumChunks
  <2> QED BY <2>1, <2>2
<1>3. Fits
  BY <1>1, <1>2 DEF FitInv
<1>4. CASE Launching
  BY <1>1, <1>2, <1>3, <1>4, FitLaunch
<1>5. CASE Process
  <2>1. Server
    <3>1. ASSUME ~Server PROVE pc' = pc
      BY <3>1 DEF Next, Send, Cancel, Submit, Abort, Dump, StartScript, ProcessFile, FailFile, vars, schedulerVars
    <3>2. pc = "process" /\ pc' = "top"
      BY <1>5, ProcessFacts
    <3> QED BY <3>1, <3>2
  <2> QED BY <1>1, <1>2, <1>3, <1>5, <2>1, FitProcess
<1>6. CASE ~Launching /\ ~Process
  BY <1>1, <1>3, <1>6, FitOther
<1> QED BY <1>4, <1>5, <1>6

\* At the start there is nothing to fit.
LEMMA InitFit ==
  ASSUME Init
  PROVE  OrderInv /\ FitInv
<1>1. /\ order = <<>> /\ pc = "top" /\ status = [r \in Reqs |-> "new"] /\ AllRecords = <<>>
  BY InitRecords DEF Init, SchedulerInit
<1>2. Live = {} /\ Launched = None
  BY <1>1 DEF Live, Launched
<1>3. OrderInv
  BY <1>1, <1>2 DEF OrderInv, IsInjective
<1>4. Generated = <<>>
  <2>1. order \in Seq(Reqs) /\ tokens \in [Reqs -> Seq(Nat \cup {Partial})]
    BY <1>1, InitLoop DEF LoopInv, SchedulerTypeOK
  <2>2. RowsOf(order, tokens) \in Seq(Seq(Token)) /\ Len(RowsOf(order, tokens)) = 0
    BY <1>1, <2>1, RowsOfType
  <2>3. RowsOf(order, tokens) = <<>>
    BY <2>2
  <2>4. Generated = FlattenSeq(RowsOf(order, tokens))
    BY <2>1, InitLoop, GeneratedType DEF LoopInv
  <2> QED BY <2>2, <2>3, <2>4, Flattened
<1> QED BY <1>1, <1>2, <1>3, <1>4 DEF FitInv, Fits

\* The first files have the first of all records.
LEMMA FirstOfAll ==
  ASSUME files \in Seq(Seq(Record)), NEW k \in 0..Len(files)
  PROVE  /\ FirstFiles(k) \in Seq(Record) /\ Len(FirstFiles(k)) <= Len(FlattenSeq(files))
         /\ Begins(FlattenSeq(files), FirstFiles(k))
<1> DEFINE L == Len(files)
           G(n) == /\ FirstFiles(n) \in Seq(Record) /\ Len(FirstFiles(n)) <= Len(FlattenSeq(files))
                   /\ Begins(FlattenSeq(files), FirstFiles(n))
           T == {n \in Nat \ {0} : n <= L + 1 => G(L + 1 - n)}
<1>0. L \in Nat
  OBVIOUS
<1>1. 1 \in T
  <2>1. G(L)
    <3>1. FirstFiles(L) = FlattenSeq(files) /\ FlattenSeq(files) \in Seq(Record)
      BY AllFiles
    <3>2. Len(FlattenSeq(files)) \in Nat
      BY <3>1
    <3> QED BY <3>1, <3>2 DEF Begins
  <2> HIDE DEF G, L
  <2>2. L + 1 - 1 = L
    BY <1>0
  <2> QED BY <2>1, <2>2
<1>2. ASSUME NEW n \in Nat \ {0}, n \in T PROVE n + 1 \in T
  <2> SUFFICES ASSUME n + 1 <= L + 1 PROVE G(L + 1 - (n + 1))
    OBVIOUS
  <2> DEFINE i == L + 1 - n
  <2>1. i \in 1..Len(files) /\ L + 1 - (n + 1) = i - 1 /\ n <= L + 1
    BY <1>0
  <2>2. G(i)
    <3> HIDE DEF G
    <3> QED BY <1>2, <2>1
  <2> HIDE DEF i
  <2> DEFINE A == FirstFiles(i)
             B == FirstFiles(i - 1)
             c == files[i]
  <2>3. B \in Seq(Record) /\ c \in Seq(Record) /\ A = B \o c
    BY <2>1, OneMoreFile
  <2>4. FlattenSeq(files) \in Seq(Record)
    BY AllFiles
  <2> HIDE DEF A, B, c
  <2>5. Len(A) = Len(B) + Len(c) /\ Len(B) \in Nat /\ Len(c) \in Nat /\ \A j \in 1..Len(B) : A[j] = B[j]
    BY <2>3
  <2>6. Len(FlattenSeq(files)) \in Nat
    BY <2>4
  <2>7. Len(A) <= Len(FlattenSeq(files)) /\ \A j \in 1..Len(A) : FlattenSeq(files)[j] = A[j]
    BY <2>2 DEF A, Begins
  <2>8. Len(B) <= Len(FlattenSeq(files)) /\ 1..Len(B) \subseteq 1..Len(A)
    BY <2>5, <2>6, <2>7
  <2>9. Begins(FlattenSeq(files), B)
    BY <2>5, <2>7, <2>8 DEF Begins
  <2> QED BY <2>1, <2>3, <2>8, <2>9 DEF B
<1>3. Nat \ {0} \subseteq T
  <2> HIDE DEF T
  <2> QED BY <1>1, <1>2, Induct
<1> HIDE DEF G, L
<1>4. L + 1 - k \in Nat \ {0} /\ L + 1 - (L + 1 - k) = k /\ L + 1 - k <= L + 1
  BY <1>0 DEF L
<1>5. G(k)
  BY <1>3, <1>4
<1> QED BY <1>5 DEF G

\* Without a live request no pass is under way.
LEMMA NothingLaunched ==
  ASSUME LoopInv, Live = {}
  PROVE  Launched = None
<1> SUFFICES ASSUME Launched # None PROVE FALSE
  OBVIOUS
<1>1. Launched = cur /\ cur # None
  BY DEF Launched
<1>2. cur.reqs # {} /\ cur.reqs \subseteq Reqs
  BY <1>1, BatchFacts DEF LoopInv
<1>3. \A r \in cur.reqs : status[r] = "live"
  BY <1>1 DEF LoopInv, BatchInv
<1> QED BY <1>2, <1>3 DEF Live

\* A token is known by its record.
LEMMA RecordKnows ==
  ASSUME NEW t \in Token, NEW u \in Token
  PROVE  RecordOf(t) = RecordOf(u) <=> t = u
<1>1. t = [req |-> t.req, pos |-> t.pos] /\ u = [req |-> u.req, pos |-> u.pos] /\ t.pos \in Nat /\ u.pos \in Nat
  BY DEF Token
<1>2. ASSUME RecordOf(t) = RecordOf(u) PROVE t = u
  <2>1. t.req = u.req /\ t.pos - 1 = u.pos - 1
    BY <1>2 DEF RecordOf
  <2>2. t.pos = u.pos
    BY <1>1, <2>1
  <2> QED BY <1>1, <2>1, <2>2
<1> QED BY <1>2

\* What NormalLoopFits says of the rows.
RowsByPlace ==
  \A i \in DOMAIN aligned : aligned[i].record = RecordOf(aligned[i].token) <=> aligned[i].token = Generated[i]

\* How many tokens can have a row.
Matched == IF Len(token_ids) < Len(Generated) THEN Len(token_ids) ELSE Len(Generated)

\* The rows of the records that the script has read are those of the tokens generated.
LEMMA RowsFit ==
  ASSUME LoopInv, FileInv, ScriptInv, Fits, script > 0, faults = 0
  PROVE  RowsByPlace /\ (AllDone => Len(aligned) = Matched)
<1> DEFINE F == FlattenSeq(files)
           R == ReadSoFar
           n == Len(token_ids)
           m == IF n < Len(R) THEN n ELSE Len(R)
<1>1. /\ files \in Seq(Seq(Record)) /\ script - 1 \in 0..Len(files) /\ log = <<>> /\ Live = {}
      /\ aligned = AlignBatch(R) /\ Generated \in Seq(Token) /\ token_ids \in Seq(Token)
  BY GeneratedType DEF FileInv, LoopInv, ScriptInv
<1>2. R \in Seq(Record) /\ F \in Seq(Record) /\ Len(R) <= Len(F) /\ Begins(F, R)
  BY <1>1, FirstOfAll, AllFiles DEF ReadSoFar
<1>3. AllRecords = F
  BY <1>1, <1>2 DEF AllRecords
<1>4. Launched = None
  BY <1>1, NothingLaunched
<1>5. Len(F) = Len(Generated) /\ Len(Generated) \in Nat /\ Len(R) \in Nat /\ DOMAIN Generated = 1..Len(Generated)
  <2>1. Len(Generated) \in Nat /\ Len(R) \in Nat /\ DOMAIN Generated = 1..Len(Generated)
    BY <1>1, <1>2
  <2> QED BY <1>3, <1>4, <2>1 DEF Fits
<1>6. aligned = [i \in 1..m |-> [token |-> token_ids[i], record |-> R[i]]] /\ n \in Nat
  BY <1>1, <1>2, <1>5 DEF AlignBatch
<1> HIDE DEF R, F
<1>7. m \in Nat /\ m <= n /\ m <= Len(R)
  <2> HIDE DEF n
  <2> QED BY <1>5, <1>6
<1>8. RowsByPlace
  <2> HIDE DEF m
  <2>1. ASSUME NEW i \in 1..m
        PROVE  aligned[i].record = RecordOf(aligned[i].token) <=> aligned[i].token = Generated[i]
    <3>1. aligned[i].token = token_ids[i] /\ aligned[i].record = R[i]
      BY <1>6
    <3>a. i \in 1..Len(R) /\ i \in 1..n /\ i \in 1..Len(Generated)
      BY <1>2, <1>5, <1>6, <1>7
    <3>2. F[i] = R[i] /\ i \in DOMAIN Generated
      BY <1>2, <1>5, <3>a DEF Begins
    <3>3. AllRecords[i] = RecordOf(Generated[i])
      BY <3>2 DEF Fits, RecordOf
    <3>4. token_ids[i] \in Token /\ Generated[i] \in Token
      BY <1>1, <3>a
    <3>5. aligned[i].record = RecordOf(Generated[i])
      BY <1>3, <3>1, <3>2, <3>3
    <3> QED BY <3>1, <3>4, <3>5, RecordKnows
  <2>2. DOMAIN aligned = 1..m
    BY <1>6
  <2> QED BY <2>1, <2>2 DEF RowsByPlace
<1>9. ASSUME AllDone PROVE Len(aligned) = Matched
  <2>1. script - 1 = Len(files)
    BY <1>1, <1>9 DEF AllDone
  <2>2. R = F
    BY <1>1, <2>1, AllFiles DEF ReadSoFar, R, F
  <2>3. m = Matched
    BY <1>5, <2>2 DEF Matched
  <2> HIDE DEF m
  <2>4. Len(aligned) = m
    BY <1>6, <1>7
  <2> QED BY <2>3, <2>4
<1> QED BY <1>8, <1>9

\* postprocessing_for_image_and_count.py, which joins records and tokens by nothing but
\* their position: with the normal loop and prompts of one chunk the i-th row has the
\* record of the i-th token generated, whatever tokens the script got out of the texts.
\* So a row fits if and only if its token is that one, and there are as many rows as
\* there are tokens both generated and read.
THEOREM NormalLoopAligns == Spec => []NormalLoopFits
<1> DEFINE J == client = "collector" => OneRequest /\ PassInv /\ OrderInv /\ FitInv
           I == LoopInv /\ FileInv /\ ScriptInv /\ J
<1>1. Init => I
  <2>1. Init => ScriptInv
    BY DEF Init, ScriptInv
  <2> QED BY <2>1, InitLoop, InitFile, InitRecords, InitFit
<1>2. I /\ [Next]_vars => I'
  <2> SUFFICES ASSUME LoopInv, FileInv, ScriptInv, J, [Next]_vars PROVE I'
    OBVIOUS
  <2>1. LoopInv' /\ FileInv' /\ client' = client
    BY LoopStep, FileStep, ConfigStep
  <2>2. ScriptInv'
    BY <2>1, ScriptStep
  <2>3. ASSUME client = "collector" PROVE OneRequest' /\ PassInv' /\ OrderInv' /\ FitInv'
    BY <2>1, <2>3, CollectorStep, OrderStep, FitStep DEF OneRequest
  <2> QED BY <2>1, <2>2, <2>3
<1>3. I => NormalLoopFits
  <2> SUFFICES ASSUME LoopInv, FileInv, ScriptInv, J, loop = "normal", faults = 0, Short
               PROVE  RowsByPlace /\ (AllDone => Len(aligned) = Matched)
    BY DEF NormalLoopFits, Short, RowsByPlace, Matched
  <2>1. CASE script = 0
    <3>1. aligned = <<>>
      BY <2>1 DEF ScriptInv
    <3>2. ~AllDone
      BY <2>1 DEF AllDone, FileInv
    <3> QED BY <3>1, <3>2 DEF RowsByPlace
  <2>2. CASE script # 0
    <3>1. script > 0 /\ client = "collector"
      BY <2>2 DEF ScriptInv, FileInv
    <3>2. Fits
      BY <3>1 DEF FitInv
    <3> QED BY <3>1, <3>2, RowsFit
  <2> QED BY <2>1, <2>2
<1> QED BY <1>1, <1>2, <1>3, PTL DEF Spec
=============================================================================
