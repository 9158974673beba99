------------------------- MODULE CommunicatorProofs -------------------------
(***************************************************************************)
(* _Communicator has one request in flight, and hands every caller the     *)
(* answers to its own request, one of each scheduler, for any number of    *)
(* callers and schedulers and any order of the tasks of the event loop.    *)
(***************************************************************************)
EXTENDS Communicator, FiniteSetTheorems, SequenceTheorems, TLAPS

\* The positions of a coroutine whose request has been sent and whose call has
\* not returned.
Sent == {"await_result", "finish"}

\* At most one caller has a request out, and the event is that of this caller.
EventOfWaiting ==
  /\ result_event = None => result_values = None
  /\ result_event # None => result_values # None /\ pc[result_event] \in Sent
  /\ \A c \in Callers : pc[c] \in Sent => result_event = c

\* Each caller in the queue waits for its turn, and is there once.
QueueOfWaiting ==
  /\ \A i \in 1..Len(ready_queue) : pc[ready_queue[i]] = "await_ready"
  /\ \A i, j \in 1..Len(ready_queue) : ready_queue[i] = ready_queue[j] => i = j

\* Scheduler r has answered the request in flight.
Answered(r) == \E i \in 1..Len(result_values) : result_values[i].rank = r

\* The request in flight is, with each scheduler, on its way there, or its answer
\* is on its way back, or its answer has been taken.
Progress(r) ==
  IF result_event = None THEN requests[r] = <<>> /\ answers[r] = <<>>
  ELSE \/ requests[r] = <<result_event>> /\ answers[r] = <<>> /\ ~Answered(r)
       \/ requests[r] = <<>> /\ answers[r] = <<result_event>> /\ ~Answered(r)
       \/ requests[r] = <<>> /\ answers[r] = <<>> /\ Answered(r)

AllProgress == \A r \in Ranks : Progress(r)

\* The answers so far are to the request in flight, and of different schedulers;
\* the call goes on when all have answered.
OwnValues ==
  result_event # None =>
    /\ \A i \in 1..Len(result_values) : result_values[i].to = result_event
    /\ \A i, j \in 1..Len(result_values) : result_values[i].rank = result_values[j].rank => i = j
    /\ pc[result_event] = "finish" => Len(result_values) = Cardinality(Ranks)

\* The strengthening of OneInFlight and OwnAnswers that every step preserves.
Inv ==
  /\ TypeOK
  /\ EventOfWaiting
  /\ QueueOfWaiting
  /\ AllProgress
  /\ OwnValues
  /\ OwnAnswers
-----------------------------------------------------------------------------
(* Lemmas on sequences and answers *)

\* A list of as many answers as there are schedulers, of different schedulers,
\* holds one of each: what handle_recv relies on when it counts the answers.
LEMMA AllRanksAnswered ==
  ASSUME NEW s \in Seq(Answers), Len(s) = Cardinality(Ranks),
         \A i, j \in 1..Len(s) : s[i].rank = s[j].rank => i = j
  PROVE  {a.rank : a \in Range(s)} = Ranks
<1> DEFINE n == Len(s)
           f == [i \in 1..n |-> s[i].rank]
<1>1. n \in Nat /\ DOMAIN s = 1..n /\ \A i \in 1..n : s[i] \in Answers
  BY LenProperties
<1>2. f \in [1..n -> Ranks]
  BY <1>1 DEF Answers
<1>3. f \in Injection(1..n, Ranks)
  BY <1>2 DEF Injection, IsInjective
<1>4. Cardinality(1..n) = n
  BY <1>1, FS_Interval
<1>5. f \in Surjection(1..n, Ranks)
  BY <1>3, <1>4, FS_Injection, CommunicatorAssumption
<1>6. \A r \in Ranks : \E i \in 1..n : s[i].rank = r
  BY <1>5 DEF Surjection
<1>7. Range(s) = {s[i] : i \in 1..n}
  BY <1>1 DEF Range
<1> QED
  BY <1>1, <1>6, <1>7 DEF Answers

\* Appending to a sequence keeps its elements and adds one.
LEMMA AppendFacts ==
  ASSUME NEW S, NEW s \in Seq(S), NEW e \in S
  PROVE  /\ Append(s, e) \in Seq(S)
         /\ Len(s) \in Nat
         /\ Len(Append(s, e)) = Len(s) + 1
         /\ \A i \in 1..(Len(s) + 1) : Append(s, e)[i] = IF i = Len(s) + 1 THEN e ELSE s[i]
BY AppendProperties, LenProperties

\* The tail of a sequence is the sequence without its first element.
LEMMA TailFacts ==
  ASSUME NEW S, NEW s \in Seq(S), s # <<>>
  PROVE  /\ Head(s) \in S /\ Head(s) = s[1]
         /\ Tail(s) \in Seq(S)
         /\ Len(s) \in Nat /\ Len(s) > 0
         /\ Len(Tail(s)) = Len(s) - 1
         /\ \A i \in 1..(Len(s) - 1) : Tail(s)[i] = s[i + 1]
BY HeadTailProperties, LenProperties, EmptySeq

\* The only element of a list of one: what popping it leaves.
LEMMA SingletonFacts ==
  ASSUME NEW S, NEW e \in S
  PROVE  /\ <<e>> \in Seq(S) /\ <<e>> # <<>>
         /\ Head(<<e>>) = e /\ Tail(<<e>>) = <<>>
         /\ Append(<<>>, e) = <<e>>
OBVIOUS
-----------------------------------------------------------------------------
(* The invariant *)

\* Initially nobody waits and nothing is on its way.
LEMMA CommunicatorInit == Init => Inv
<1> SUFFICES ASSUME Init PROVE Inv
  OBVIOUS
<1>1. TypeOK
  BY EmptySeq DEF Init, TypeOK
<1>2. EventOfWaiting /\ OwnValues /\ AllProgress /\ OwnAnswers
  BY DEF Init, EventOfWaiting, OwnValues, AllProgress, Progress, OwnAnswers, Sent
<1>3. QueueOfWaiting
  BY EmptySeq DEF Init, QueueOfWaiting
<1> QED
  BY <1>1, <1>2, <1>3 DEF Inv

\* A new task of the event loop sends nothing.
LEMMA ArriveInv == ASSUME Inv, NEW c \in Callers, Arrive(c) PROVE Inv'
<1> USE DEF Inv
<1>1. TypeOK'
  BY AppendFacts DEF Arrive, TypeOK
<1>2. EventOfWaiting'
  BY CommunicatorAssumption DEF Arrive, TypeOK, EventOfWaiting, Sent
<1>3. QueueOfWaiting'
  BY LenProperties DEF Arrive, TypeOK, QueueOfWaiting
<1>4. AllProgress' 
  BY DEF Arrive, AllProgress, Progress, Answered
<1>5. OwnValues'
  BY DEF Arrive, TypeOK, OwnValues
<1>6. OwnAnswers'
  BY DEF Arrive, TypeOK, OwnAnswers
<1> QED
  BY <1>1, <1>2, <1>3, <1>4, <1>5, <1>6

\* A request is sent only while none is out: then every scheduler has exactly it.
LEMMA SendInv ==
  ASSUME Inv, NEW c \in Callers, pc[c] \in {"call", "ready"}, result_event = None,
         Send(c), runq' \in Seq(Callers), UNCHANGED <<answers, result>>
  PROVE  Inv'
<1> USE DEF Inv
<1>0. Len(<<>>) = 0 /\ <<>> \in Seq(Answers) /\ c # None /\ <<>> # None
  BY EmptySeq, CommunicatorAssumption
<1>1. TypeOK'
  BY <1>0, AppendFacts DEF Send, TypeOK
<1>2. EventOfWaiting'
  BY <1>0, CommunicatorAssumption DEF Send, TypeOK, EventOfWaiting, Sent
<1>3. QueueOfWaiting'
  BY LenProperties DEF Send, TypeOK, QueueOfWaiting
<1>4. AllProgress' 
  <2> SUFFICES ASSUME NEW r \in Ranks PROVE Progress(r)'
    BY DEF AllProgress
  <2>1. requests[r] = <<>> /\ answers[r] = <<>>
    BY DEF AllProgress, Progress
  <2>2. requests'[r] = <<c>> /\ answers'[r] = <<>> 
    BY <2>1, SingletonFacts DEF Send
  <2>3. ~Answered(r)'
    BY <1>0 DEF Send, Answered
  <2> QED
    BY <2>2, <2>3, <1>0 DEF Send, Progress
<1>5. OwnValues'
  BY <1>0 DEF Send, TypeOK, OwnValues
<1>6. OwnAnswers'
  BY DEF Send, TypeOK, OwnAnswers
<1> QED
  BY <1>1, <1>2, <1>3, <1>4, <1>5, <1>6

\* A call waits for its turn behind others, or sends its request.
LEMMA CallInv == ASSUME Inv, NEW c \in Callers, Call(c) PROVE Inv'
<1>0. runq' \in Seq(Callers)
  BY TailFacts DEF Inv, TypeOK, Call, Runs
<1>1. CASE result_event # None \/ ready_queue # <<>>
  <2> USE <1>1 DEF Inv
  <2>0. pc[c] = "call" /\ pc' = [pc EXCEPT ![c] = "await_ready"]
        /\ ready_queue' = Append(ready_queue, c) /\ ready_queue \in Seq(Callers)
        /\ UNCHANGED <<requests, result_event, result_values, answers, result>>
    BY DEF Call, TypeOK
  <2>1. TypeOK'
    <3>1. ready_queue' \in Seq(Callers)
      BY <2>0, AppendFacts
    <3> QED
      BY <1>0, <2>0, <3>1 DEF TypeOK
  <2>2. EventOfWaiting'
    BY CommunicatorAssumption DEF Call, TypeOK, EventOfWaiting, Sent
  <2>3. QueueOfWaiting'
    <3>1. \A i \in 1..Len(ready_queue) : ready_queue[i] \in Callers /\ ready_queue[i] # c
      BY <2>0, LenProperties DEF QueueOfWaiting
    <3> QED
      BY <2>0, <3>1, AppendFacts DEF QueueOfWaiting, TypeOK
  <2>4. AllProgress'
    BY DEF Call, AllProgress, Progress, Answered
  <2>5. OwnValues'
    BY DEF Call, TypeOK, OwnValues
  <2>6. OwnAnswers'
    BY DEF Call, TypeOK, OwnAnswers
  <2> QED
    BY <2>1, <2>2, <2>3, <2>4, <2>5, <2>6
<1>2. CASE result_event = None /\ ready_queue = <<>>
  BY <1>0, <1>2, SendInv DEF Call
<1> QED
  BY <1>1, <1>2

\* After the wait for its turn a call sends its request, or its assertions fail
\* and it ends; in neither case is a second request out.
LEMMA ReadyInv == ASSUME Inv, NEW c \in Callers, Ready(c) PROVE Inv'
<1>0. runq' \in Seq(Callers)
  BY TailFacts DEF Inv, TypeOK, Ready, Runs
<1>1. CASE ~(result_event = None /\ result_values = None)
  <2> USE <1>1 DEF Inv
  <2>1. TypeOK'
    BY <1>0 DEF Ready, TypeOK
  <2>2. EventOfWaiting'
    BY CommunicatorAssumption DEF Ready, TypeOK, EventOfWaiting, Sent
  <2>3. QueueOfWaiting'
    BY LenProperties DEF Ready, TypeOK, QueueOfWaiting
  <2>4. AllProgress'
    BY DEF Ready, AllProgress, Progress, Answered
  <2>5. OwnValues'
    BY DEF Ready, TypeOK, OwnValues
  <2>6. OwnAnswers'
    BY DEF Ready, TypeOK, OwnAnswers
  <2> QED
    BY <2>1, <2>2, <2>3, <2>4, <2>5, <2>6
<1>2. CASE result_event = None /\ result_values = None
  BY <1>0, <1>2, SendInv DEF Ready
<1> QED
  BY <1>1, <1>2

\* A call returns when all have answered: nothing of its request is left on its way.
LEMMA FinishInv == ASSUME Inv, NEW c \in Callers, Finish(c) PROVE Inv'
<1> USE DEF Inv
<1>1. pc[c] = "finish" /\ result_event = c /\ c # None /\ result_values \in Seq(Answers)
      /\ Len(result_values) = Cardinality(Ranks)
  BY CommunicatorAssumption DEF Finish, EventOfWaiting, OwnValues, TypeOK, Sent
<1>2. {a.rank : a \in Range(result_values)} = Ranks
  BY <1>1, AllRanksAnswered DEF OwnValues
<1>3. \A a \in Range(result_values) : a.to = c
  BY <1>1, LenProperties DEF OwnValues, Range
<1>4. \A r \in Ranks : requests[r] = <<>> /\ answers[r] = <<>>
  <2> SUFFICES ASSUME NEW r \in Ranks PROVE requests[r] = <<>> /\ answers[r] = <<>>
    OBVIOUS
  <2>1. PICK a \in Range(result_values) : a.rank = r
    BY <1>2
  <2>2. Answered(r)
    BY <1>1, <2>1, LenProperties DEF Answered, Range
  <2> QED
    BY <1>1, <2>2 DEF AllProgress, Progress
<1>5. AllProgress'
  BY <1>4 DEF Finish, AllProgress, Progress
<1>6. OwnValues'
  BY DEF Finish, OwnValues
<1>7. /\ runq \in Seq(Callers) /\ Tail(runq) \in Seq(Callers)
      /\ ready_queue \in Seq(Callers) /\ result' = [result EXCEPT ![c] = result_values]
      /\ result_event' = None /\ result_values' = None
  BY TailFacts DEF Finish, Runs, TypeOK
<1>8. CASE ready_queue = <<>>
  <2>1. pc' = [pc EXCEPT ![c] = "done"] /\ ready_queue' = ready_queue /\ runq' = Tail(runq)
    BY <1>8 DEF Finish
  <2>2. TypeOK'
    BY <1>1, <1>7, <2>1 DEF Finish, TypeOK
  <2>3. EventOfWaiting'
    BY <1>1, <1>7, <2>1 DEF EventOfWaiting, Sent, TypeOK
  <2>4. QueueOfWaiting'
    BY <1>8, <2>1, EmptySeq DEF QueueOfWaiting
  <2>5. OwnAnswers'
    BY <1>1, <1>2, <1>3, <1>7, <2>1 DEF OwnAnswers, TypeOK
  <2> QED
    BY <1>5, <1>6, <2>2, <2>3, <2>4, <2>5
<1>9. CASE ready_queue # <<>>
  <2> DEFINE w == Head(ready_queue)
  <2>1. pc' = [pc EXCEPT ![c] = "done", ![w] = "ready"] /\ ready_queue' = Tail(ready_queue)
        /\ runq' = Append(Tail(runq), w)
    BY <1>9 DEF Finish
  <2>2. w \in Callers /\ w = ready_queue[1] /\ pc[w] = "await_ready" /\ w # c
    BY <1>1, <1>7, <1>9, TailFacts DEF QueueOfWaiting
  <2>3. TypeOK'
    <3>1. runq' \in Seq(Callers)
      BY <1>7, <2>1, <2>2, AppendFacts
    <3>2. ready_queue' \in Seq(Callers)
      BY <1>7, <1>9, <2>1, TailFacts
    <3> QED
      BY <1>1, <1>7, <2>1, <2>2, <3>1, <3>2 DEF Finish, TypeOK
  <2>4. EventOfWaiting'
    BY <1>1, <1>7, <2>1, <2>2 DEF EventOfWaiting, Sent, TypeOK
  <2>5. QueueOfWaiting'
    <3>1. \A i \in 1..(Len(ready_queue) - 1) :
            /\ i + 1 \in 1..Len(ready_queue)
            /\ Tail(ready_queue)[i] = ready_queue[i + 1]
            /\ ready_queue[i + 1] \in Callers
            /\ ready_queue[i + 1] # w /\ pc[ready_queue[i + 1]] = "await_ready"
      BY <1>7, <1>9, <2>2, TailFacts, LenProperties DEF QueueOfWaiting
    <3>2. \A i \in 1..(Len(ready_queue) - 1) : pc'[Tail(ready_queue)[i]] = "await_ready"
      BY <3>1, <2>1, <2>2, <1>1, <1>7 DEF TypeOK
    <3>3. Len(ready_queue') = Len(ready_queue) - 1
      BY <1>7, <1>9, <2>1, TailFacts
    <3>4. Len(ready_queue) \in Nat
      BY <1>7, LenProperties
    <3>5. \A i, j \in 1..(Len(ready_queue) - 1) :
            Tail(ready_queue)[i] = Tail(ready_queue)[j] => i + 1 = j + 1
      BY <3>1 DEF QueueOfWaiting
    <3>6. \A i, j \in 1..(Len(ready_queue) - 1) :
            Tail(ready_queue)[i] = Tail(ready_queue)[j] => i = j
      BY <3>4, <3>5
    <3> HIDE DEF w
    <3> QED
      BY <2>1, <3>2, <3>3, <3>6 DEF QueueOfWaiting
  <2>6. OwnAnswers'
    BY <1>1, <1>2, <1>3, <1>7, <2>1, <2>2 DEF OwnAnswers, TypeOK
  <2> QED
    BY <1>5, <1>6, <2>3, <2>4, <2>5, <2>6
<1> QED
  BY <1>8, <1>9

\* A request a scheduler has is the one in flight, and its answer is to it.
LEMMA AnswerInv == ASSUME Inv, NEW r \in Ranks, Answer(r) PROVE Inv'
<1> USE DEF Inv
<1>1. result_event # None /\ requests[r] = <<result_event>> /\ answers[r] = <<>> /\ ~Answered(r)
  BY DEF Answer, AllProgress, Progress
<1>2. result_event \in Callers
  BY <1>1 DEF TypeOK
<1>3. /\ requests' = [requests EXCEPT ![r] = <<>>]
      /\ answers' = [answers EXCEPT ![r] = <<result_event>>]
  BY <1>1, <1>2, SingletonFacts DEF Answer
<1>4. TypeOK'
  BY <1>2, <1>3, SingletonFacts, EmptySeq DEF Answer, TypeOK
<1>5. EventOfWaiting' /\ QueueOfWaiting' /\ OwnValues' /\ OwnAnswers'
  BY DEF Answer, EventOfWaiting, QueueOfWaiting, OwnValues, OwnAnswers
<1>6. AllProgress'
  BY <1>1, <1>3 DEF Answer, AllProgress, Progress, Answered, TypeOK
<1> QED
  BY <1>4, <1>5, <1>6

\* An answer that arrives is to the request in flight, of a scheduler that had
\* not answered it, and the last one, and no other, sets the event.
LEMMA HandleRecvInv == ASSUME Inv, NEW r \in Ranks, HandleRecv(r) PROVE Inv'
<1> USE DEF Inv
<1> DEFINE a == [rank |-> r, to |-> result_event]
<1>1. result_event # None /\ requests[r] = <<>> /\ answers[r] = <<result_event>> /\ ~Answered(r)
  BY DEF HandleRecv, AllProgress, Progress
<1>2. result_event \in Callers /\ a \in Answers /\ result_values \in Seq(Answers)
  BY <1>1 DEF TypeOK, Answers, EventOfWaiting
<1>3. /\ answers' = [answers EXCEPT ![r] = <<>>]
      /\ result_values' = Append(result_values, a)
  BY <1>1, <1>2, SingletonFacts DEF HandleRecv
<1>4. /\ Len(result_values) \in Nat /\ Len(result_values') = Len(result_values) + 1
      /\ result_values' \in Seq(Answers)
      /\ \A i \in 1..(Len(result_values) + 1) :
           result_values'[i] = IF i = Len(result_values) + 1 THEN a ELSE result_values[i]
  BY <1>2, <1>3, AppendFacts
<1>5. result_values' # None
  BY <1>4, CommunicatorAssumption
<1>8. AllProgress'
  <2> SUFFICES ASSUME NEW q \in Ranks PROVE Progress(q)'
    BY DEF AllProgress
  <2>1. CASE q = r
    <3>1. Answered(r)'
      BY <1>4 DEF Answered
    <3> QED
      BY <1>1, <1>3, <2>1, <3>1 DEF HandleRecv, Progress, TypeOK
  <2>2. CASE q # r
    <3>1. Answered(q)' => Answered(q)
      BY <1>4, <2>2 DEF Answered
    <3>2. Answered(q) => Answered(q)'
      BY <1>4 DEF Answered
    <3>3. UNCHANGED <<result_event, requests[q], answers[q]>>
      BY <1>3, <2>2 DEF HandleRecv, TypeOK
    <3> QED
      BY <1>1, <3>1, <3>2, <3>3 DEF Progress, AllProgress
  <2> QED
    BY <2>1, <2>2
<1>9. /\ \A i \in 1..Len(result_values') : result_values'[i].to = result_event'
      /\ \A i, j \in 1..Len(result_values') :
           result_values'[i].rank = result_values'[j].rank => i = j
  BY <1>1, <1>4 DEF HandleRecv, OwnValues, Answered
<1>6. CASE Len(result_values') = Cardinality(Ranks)
  <2>1. runq' = Append(runq, result_event) /\ pc' = [pc EXCEPT ![result_event] = "finish"]
    BY <1>6 DEF HandleRecv
  <2>2. TypeOK'
    BY <1>2, <1>3, <1>4, <2>1, AppendFacts, EmptySeq DEF HandleRecv, TypeOK
  <2>3. EventOfWaiting' /\ pc[result_event] \in Sent
    BY <1>1, <1>2, <1>5, <2>1 DEF HandleRecv, EventOfWaiting, Sent, TypeOK
  <2>4. QueueOfWaiting'
    BY <1>1, <2>1, <2>3, LenProperties DEF HandleRecv, QueueOfWaiting, TypeOK, Sent
  <2>5. OwnAnswers'
    BY <1>2, <2>1 DEF HandleRecv, OwnAnswers, TypeOK
  <2>6. pc'[result_event'] = "finish" => Len(result_values') = Cardinality(Ranks)
    BY <1>6
  <2> QED
    BY <1>8, <1>9, <2>2, <2>3, <2>4, <2>5, <2>6 DEF OwnValues
<1>7. CASE Len(result_values') # Cardinality(Ranks)
  <2>1. UNCHANGED <<pc, runq>>
    BY <1>7 DEF HandleRecv
  <2>2. TypeOK'
    BY <1>3, <1>4, <2>1, EmptySeq DEF HandleRecv, TypeOK
  <2>3. EventOfWaiting'
    BY <1>1, <1>5, <2>1 DEF HandleRecv, EventOfWaiting
  <2>4. QueueOfWaiting' /\ OwnAnswers'
    BY <2>1 DEF HandleRecv, QueueOfWaiting, OwnAnswers
  <2>5. pc[result_event] # "finish"
    <3> SUFFICES ASSUME pc[result_event] = "finish" PROVE FALSE
      OBVIOUS
    <3>1. Len(result_values) = Cardinality(Ranks)
      BY <1>1 DEF OwnValues
    <3>2. PICK v \in Range(result_values) : v.rank = r
      BY <1>1, <1>2, <3>1, AllRanksAnswered DEF OwnValues
    <3> QED
      BY <1>1, <1>2, <3>2, LenProperties DEF Answered, Range
  <2>6. pc'[result_event'] = "finish" => Len(result_values') = Cardinality(Ranks)
    BY <2>1, <2>5 DEF HandleRecv
  <2> QED
    BY <1>8, <1>9, <2>2, <2>3, <2>4, <2>6 DEF OwnValues
<1> QED
  BY <1>6, <1>7

\* Every step preserves the invariant.
LEMMA CommunicatorStep == Inv /\ [Next]_vars => Inv'
<1> SUFFICES ASSUME Inv, [Next]_vars PROVE Inv'
  OBVIOUS
<1>1. ASSUME NEW c \in Callers, Arrive(c) \/ Call(c) \/ Ready(c) \/ Finish(c) PROVE Inv'
  BY <1>1, ArriveInv, CallInv, ReadyInv, FinishInv
<1>2. ASSUME NEW r \in Ranks, Answer(r) \/ HandleRecv(r) PROVE Inv'
  BY <1>2, AnswerInv, HandleRecvInv
<1>3. CASE UNCHANGED vars
  BY <1>3 DEF vars, Inv, TypeOK, EventOfWaiting, QueueOfWaiting, AllProgress, Progress,
              Answered, OwnValues, OwnAnswers
<1> QED
  BY <1>1, <1>2, <1>3 DEF Next

\* What is on its way is the request of the caller that waits, or an answer to it.
LEMMA InvOneInFlight == Inv => OneInFlight
<1> SUFFICES ASSUME Inv, NEW c \in InFlight PROVE result_event = c /\ result_values # None
  BY DEF OneInFlight
<1>1. PICK r \in Ranks : c \in Range(requests[r] \o answers[r])
  BY DEF InFlight
<1>2. c \in Range(<<>> \o <<>>) => FALSE
  BY DEF Range
<1>3. result_event # None => Range(<<result_event>> \o <<>>) = {result_event}
                             /\ Range(<<>> \o <<result_event>>) = {result_event}
  BY DEF Range
<1>4. result_event # None /\ c = result_event
  <2>1. Progress(r)
    BY DEF Inv, AllProgress
  <2>2. CASE requests[r] = <<>> /\ answers[r] = <<>>
    BY <1>1, <1>2, <2>2
  <2>3. CASE result_event # None /\ requests[r] = <<result_event>> /\ answers[r] = <<>>
    BY <1>1, <1>3, <2>3
  <2>4. CASE result_event # None /\ requests[r] = <<>> /\ answers[r] = <<result_event>>
    BY <1>1, <1>3, <2>4
  <2> QED
    BY <2>1, <2>2, <2>3, <2>4 DEF Progress
<1> QED
  BY <1>4 DEF Inv, EventOfWaiting

LEMMA CommunicatorInvariant == Spec => []Inv
BY CommunicatorInit, CommunicatorStep, PTL DEF Spec
-----------------------------------------------------------------------------
\* The variables of the communicator keep their types: result_values and the
\* result of a call are lists of answers, or None.
THEOREM CommunicatorTypeCorrect == Spec => []TypeOK
<1>1. Inv => TypeOK
  BY DEF Inv
<1> QED
  BY CommunicatorInvariant, <1>1, PTL

\* "The communicator now only run up to 1 in-flight request at any time": for any
\* number of callers and schedulers, what is on its way to or from the schedulers
\* belongs to the caller that waits for the result.
THEOREM OneRequestInFlight == Spec => []OneInFlight
BY CommunicatorInvariant, InvOneInFlight, PTL

\* queueing_call returns one answer of each scheduler, each to the request of the
\* caller itself, although the answers carry no request id.
THEOREM CallersGetOwnAnswers == Spec => []OwnAnswers
<1>1. Inv => OwnAnswers
  BY DEF Inv
<1> QED
  BY CommunicatorInvariant, <1>1, PTL
=============================================================================
