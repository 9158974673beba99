---------------------------- MODULE RecordingLog ----------------------------
(***************************************************************************)
(* What the expert distribution recorder promises to the clients of        *)
(* /start, /stop, /dump_expert_distribution_record and                     *)
(* /expert_distribution_status: a log with one entry for every forward     *)
(* pass that ran while recording was on, in the order in which the passes  *)
(* ended.  An entry holds exactly what the router selected in the layers   *)
(* that selected anything, and how often every expert was selected.        *)
(* Starting empties the log, dumping delivers the log and empties it,      *)
(* asking for the status delivers the log and leaves it alone.             *)
(*                                                                         *)
(* How tables are kept, cleared, resized and copied is the business of     *)
(* ExpertDistributionRecorder, which implements this specification.        *)
(***************************************************************************)
EXTENDS Integers, Sequences, FiniteSets

CONSTANTS
  Layers,        \* the layers of the model
  Experts,       \* the physical experts that are counted
  TopK,          \* the number of experts the router selects for a token
  Batches,       \* the numbers of tokens a pass may have
  PassIds,       \* the forward pass ids
  Unrouted,      \* stands for "this layer selected no expert in this pass"
  NoPass         \* stands for "no recorded pass is running"

VARIABLES
  recording,  \* TRUE between a start and the next stop
  cur,        \* the recorded pass that is running, or NoPass
  log,        \* the entries not yet delivered by a dump
  reply       \* what the last dump or status request delivered

vars == <<recording, cur, log, reply>>

\* What a router may select for n tokens: TopK different experts for each.
Selections(n) ==
  [1..n -> {s \in [1..TopK -> Experts] : \A i, j \in 1..TopK : i # j => s[i] # s[j]}]

\* How many times the selection s of n tokens names the expert e.
CountOf(s, n, e) ==
  IF s = Unrouted THEN 0
  ELSE Cardinality({c \in (1..n) \X (1..TopK) : s[c[1]][c[2]] = e})

\* The entry of the log that a finished pass leaves.
EntryOf(p) ==
  [id     |-> p.id,
   tokens |-> p.tokens,
   sel    |-> p.sel,
   count  |-> [l \in Layers |-> [e \in Experts |-> CountOf(p.sel[l], p.tokens, e)]]]

Init ==
  /\ recording = FALSE
  /\ cur = NoPass
  /\ log = <<>>
  /\ reply = <<>>

StartRecord ==
  /\ cur = NoPass
  /\ recording' = TRUE
  /\ log' = <<>>
  /\ UNCHANGED <<cur, reply>>

StopRecord ==
  /\ cur = NoPass
  /\ recording' = FALSE
  /\ UNCHANGED <<cur, log, reply>>

DumpRecord ==
  /\ cur = NoPass
  /\ reply' = log
  /\ log' = <<>>
  /\ UNCHANGED <<recording, cur>>

GetStatus ==
  /\ cur = NoPass
  /\ reply' = IF recording THEN log ELSE <<>>
  /\ UNCHANGED <<recording, cur, log>>

BeginPass ==
  /\ recording
  /\ cur = NoPass
  /\ \E i \in PassIds, n \in Batches :
       cur' = [id |-> i, tokens |-> n, sel |-> [l \in Layers |-> Unrouted]]
  /\ UNCHANGED <<recording, log, reply>>

SelectExperts(l) ==
  /\ cur # NoPass
  /\ cur.sel[l] = Unrouted
  /\ \E s \in Selections(cur.tokens) : cur' = [cur EXCEPT !.sel[l] = s]
  /\ UNCHANGED <<recording, log, reply>>

EndPass ==
  /\ cur # NoPass
  /\ log' = Append(log, EntryOf(cur))
  /\ cur' = NoPass
  /\ UNCHANGED <<recording, reply>>

Next ==
  \/ StartRecord \/ StopRecord \/ DumpRecord \/ GetStatus
  \/ BeginPass \/ EndPass
  \/ \E l \in Layers : SelectExperts(l)

Spec == Init /\ [][Next]_vars
=============================================================================
