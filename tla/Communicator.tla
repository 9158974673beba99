---------------------------- MODULE Communicator ----------------------------
(***************************************************************************)
(* _Communicator in its queueing mode,                                     *)
(* src/sglang/srt/managers/tokenizer_communicator_mixin.py: how the        *)
(* start, stop, dump and status requests of several HTTP clients reach the *)
(* schedulers, one at a time, and how the answers of the FanOut schedulers *)
(* find their way back.                                                    *)
(*                                                                         *)
(* The coroutines run on one asyncio event loop: a task that can run is    *)
(* queued in runq, the loop runs the task at the head from one await to    *)
(* the next, and setting an event queues the task that waits for it.       *)
(***************************************************************************)
EXTENDS Integers, Sequences, FiniteSets, SequencesExt

CONSTANTS
  Callers,  \* the HTTP requests, each of which makes one call
  Ranks,    \* the schedulers that answer a request (fan_out of them)
  None

\* An answer: the scheduler that gives it, and the caller whose request it answers.
Answers == [rank : Ranks, to : Callers]

ASSUME CommunicatorAssumption ==
  IsFiniteSet(Ranks) /\ Ranks # {} /\ None \notin Callers \cup Seq(Answers)

VARIABLES
  pc,            \* where the coroutine of each caller stands
  runq,          \* the ready queue of the event loop
  result_event,  \* _result_event: None, or the caller that waits for it
  result_values, \* _result_values: the answers so far, None if there are none
  ready_queue,   \* _ready_queue: the callers whose ready_event is not set
  requests,      \* requests on their way to each scheduler
  answers,       \* answers on their way back from each scheduler
  result         \* what the call of each caller has returned

vars == <<pc, runq, result_event, result_values, ready_queue, requests, answers, result>>

Init ==
  /\ pc = [c \in Callers |-> "idle"]
  /\ runq = <<>>
  /\ result_event = None
  /\ result_values = None
  /\ ready_queue = <<>>
  /\ requests = [r \in Ranks |-> <<>>]
  /\ answers = [r \in Ranks |-> <<>>]
  /\ result = [c \in Callers |-> None]

\* An HTTP request arrives, and a task for its handler is created.
Arrive(c) ==
  /\ pc[c] = "idle"
  /\ pc' = [pc EXCEPT ![c] = "call"]
  /\ runq' = Append(runq, c)
  /\ UNCHANGED <<result_event, result_values, ready_queue, requests, answers, result>>

\* The event loop runs the task of c.
Runs(c) == runq # <<>> /\ Head(runq) = c

\* send_pyobj, and then a new result event to wait for.
Send(c) ==
  /\ requests' = [r \in Ranks |-> Append(requests[r], c)]
  /\ result_event' = c
  /\ result_values' = <<>>
  /\ pc' = [pc EXCEPT ![c] = "await_result"]
  /\ UNCHANGED ready_queue

\* queueing_call up to its first await.
Call(c) ==
  /\ Runs(c) /\ pc[c] = "call"
  /\ IF result_event # None \/ ready_queue # <<>>
     THEN /\ ready_queue' = Append(ready_queue, c)
          /\ pc' = [pc EXCEPT ![c] = "await_ready"]
          /\ UNCHANGED <<requests, result_event, result_values>>
     ELSE Send(c)
  /\ runq' = Tail(runq)
  /\ UNCHANGED <<answers, result>>

\* Mutant of Ready: the assertions are compiled away.
MutantNoAssertions(c) ==
  /\ Runs(c) /\ pc[c] = "ready"
  /\ Send(c)
  /\ runq' = Tail(runq)
  /\ UNCHANGED <<answers, result>>

\* queueing_call after ready_event.wait(): the two assertions, then the send.
Ready(c) ==
  /\ Runs(c) /\ pc[c] = "ready"
  /\ IF result_event = None /\ result_values = None
     THEN Send(c)
     ELSE /\ pc' = [pc EXCEPT ![c] = "assertion_error"]
          /\ UNCHANGED <<requests, result_event, result_values, ready_queue>>
  /\ runq' = Tail(runq)
  /\ UNCHANGED <<answers, result>>

\* Mutant of Finish: the next caller is not woken up.
MutantNoHandOver(c) ==
  /\ Runs(c) /\ pc[c] = "finish"
  /\ result' = [result EXCEPT ![c] = result_values]
  /\ result_event' = None
  /\ result_values' = None
  /\ runq' = Tail(runq)
  /\ pc' = [pc EXCEPT ![c] = "done"]
  /\ UNCHANGED <<requests, answers, ready_queue>>

\* queueing_call after _result_event.wait(): hand the turn to the next caller.
Finish(c) ==
  /\ Runs(c) /\ pc[c] = "finish"
  /\ result' = [result EXCEPT ![c] = result_values]
  /\ result_event' = None
  /\ result_values' = None
  /\ IF ready_queue # <<>>
     THEN LET w == Head(ready_queue)
          IN /\ ready_queue' = Tail(ready_queue)
             /\ runq' = Append(Tail(runq), w)
             /\ pc' = [pc EXCEPT ![c] = "done", ![w] = "ready"]
     ELSE /\ runq' = Tail(runq)
          /\ pc' = [pc EXCEPT ![c] = "done"]
          /\ UNCHANGED ready_queue
  /\ UNCHANGED <<requests, answers>>

\* Mutant of Answer: the answer is addressed to the scheduler itself.
MutantMisaddressed(r) ==
  /\ requests[r] # <<>>
  /\ requests' = [requests EXCEPT ![r] = Tail(@)]
  /\ answers' = [answers EXCEPT ![r] = Append(@, r)]
  /\ UNCHANGED <<pc, runq, result_event, result_values, ready_queue, result>>

\* A scheduler handles a request between two passes and answers it.
Answer(r) ==
  /\ requests[r] # <<>>
  /\ requests' = [requests EXCEPT ![r] = Tail(@)]
  /\ answers' = [answers EXCEPT ![r] = Append(@, Head(requests[r]))]
  /\ UNCHANGED <<pc, runq, result_event, result_values, ready_queue, result>>

\* Mutant of HandleRecv: the first answer sets the event.
MutantFirstAnswerWins(r) ==
  /\ answers[r] # <<>>
  /\ answers' = [answers EXCEPT ![r] = Tail(@)]
  /\ result_values' = Append(result_values, [rank |-> r, to |-> Head(answers[r])])
  /\ IF Len(result_values') = 1
     THEN /\ runq' = Append(runq, result_event)
          /\ pc' = [pc EXCEPT ![result_event] = "finish"]
     ELSE UNCHANGED <<runq, pc>>
  /\ UNCHANGED <<result_event, ready_queue, requests, result>>

\* handle_recv: the last of the fan_out answers sets the event.
HandleRecv(r) ==
  /\ answers[r] # <<>>
  /\ answers' = [answers EXCEPT ![r] = Tail(@)]
  /\ result_values' = Append(result_values, [rank |-> r, to |-> Head(answers[r])])
  /\ IF Len(result_values') = Cardinality(Ranks)
     THEN /\ runq' = Append(runq, result_event)
          /\ pc' = [pc EXCEPT ![result_event] = "finish"]
     ELSE UNCHANGED <<runq, pc>>
  /\ UNCHANGED <<result_event, ready_queue, requests, result>>

Step(c) == Call(c) \/ Ready(c) \/ Finish(c)

Next ==
  \/ \E c \in Callers : Arrive(c) \/ Call(c) \/ Ready(c) \/ Finish(c)
  \/ \E r \in Ranks : Answer(r) \/ HandleRecv(r)

Spec == Init /\ [][Next]_vars

\* The event loop runs what is ready, the schedulers handle what they receive,
\* and the loop of the tokenizer manager receives what they answer.
FairSpec ==
  /\ Spec
  /\ \A c \in Callers : WF_vars(Step(c))
  /\ \A r \in Ranks : WF_vars(Answer(r)) /\ WF_vars(HandleRecv(r))
-----------------------------------------------------------------------------
(* Properties *)

\* The types of the variables.
TypeOK ==
  /\ pc \in [Callers -> {"idle", "call", "await_ready", "ready", "await_result",
                         "finish", "done", "assertion_error"}]
  /\ runq \in Seq(Callers)
  /\ result_event \in Callers \cup {None}
  /\ result_values = None \/ result_values \in Seq(Answers)
  /\ ready_queue \in Seq(Callers)
  /\ requests \in [Ranks -> Seq(Callers)] /\ answers \in [Ranks -> Seq(Callers)]
  /\ result \in [Callers -> Seq(Answers) \cup {None}]

\* The callers with a request or an answer on its way.
InFlight == {c \in Callers : \E r \in Ranks : c \in Range(requests[r] \o answers[r])}

\* "The communicator now only run up to 1 in-flight request at any time": what
\* is on its way belongs to the caller that waits for the result, and nothing
\* is on its way while nobody waits.
OneInFlight == \A c \in InFlight : result_event = c /\ result_values # None

\* A call returns the answers to its own request, one from each scheduler.
OwnAnswers ==
  \A c \in Callers : pc[c] = "done" =>
    /\ Len(result[c]) = Cardinality(Ranks)
    /\ {a.rank : a \in Range(result[c])} = Ranks
    /\ \A a \in Range(result[c]) : a.to = c

\* A caller never waits for ever: its call returns, or raises.
CallsEnd == \A c \in Callers : pc[c] = "call" ~> pc[c] \in {"done", "assertion_error"}

\* The assertions of queueing_call after the wait for the turn never fail.
AssertionsHold == \A c \in Callers : pc[c] # "assertion_error"
=============================================================================
