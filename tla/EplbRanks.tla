------------------------------ MODULE EplbRanks ------------------------------
(***************************************************************************)
(* A rebalancing as all ranks of the server go through it together: the    *)
(* dump of the _StatAccumulator with its collectives (all_reduce of the    *)
(* counts, broadcast of the utilization rate), the decision and the plan   *)
(* of EPLBManager.rebalance on every rank, and the exchange of weights of  *)
(* ExpertLocationUpdater.                                                  *)
(*                                                                         *)
(* The ranks run forward passes in lockstep, and a control request reaches *)
(* all of them between the same two passes.  Only the utilization history  *)
(* of rank 0 matters, and of it only whether it is empty.  How many passes *)
(* lie between two rebalancings is the subject of EplbManager.             *)
(***************************************************************************)
EXTENDS ExpertLocationUpdater

CONSTANTS
  InitMaps,   \* the placements of the layers the server may start with
  LoadChoices,\* the loads of the layers that the passes may have led to
  MaxRounds   \* bound: rebalancings

ASSUME RanksAssumption ==
  /\ InitMaps \subseteq [Layers -> Maps]
  /\ \A m \in InitMaps, l \in Layers : Range(m[l]) = Logical
  /\ LoadChoices \subseteq [Layers -> [Logical -> Nat]]
  /\ MaxRounds \in Nat

VARIABLES
  metrics,    \* enable_expert_distribution_metrics, with a threshold below 1
  recording,  \* _recording
  history,    \* whether the _history of rank 0 holds a rate
  cause,      \* why a dump is made: "client", "status" or "rebalance"
  load,       \* the counts that the ranks have recorded, summed over the ranks
  target,     \* the placements that init_by_eplb computes from load, on every rank
  rate,       \* the rate that rank 0 has broadcast, or "none"
  rounds      \* the rebalancings so far

control == <<metrics, recording, history, cause, load, target, rate, rounds>>
vars == <<pc, updater, control>>

\* _compute_logical_to_all_physical_map of init_by_mapping, as a set of places;
\* a rank that has a replica on its GPU, else on its node, keeps only that one.
AllPhysical(m, g, l) ==
  LET all  == {p \in Physical : m[p] = l}
      mine == all \cap LocalOf(g)
      near == {p \in all : GpuOf(p) \in SameNode(g)}
  IN IF mine # {} THEN {Min(mine)} ELSE IF near # {} THEN {Min(near)} ELSE all

Placement(m, g) == [phy2log |-> m, dispatch |-> [l \in Logical |-> AllPhysical(m, g, l)]]

\* _init_raw counts the entries of log2phy that are not -1; the dispatch takes any
\* of as many entries from the left.
InitRaw(r) ==
  LET Valid(l) == Cardinality({k \in DOMAIN r.log2phy[l] : r.log2phy[l][k] # -1})
  IN [phy2log |-> r.phy2log, dispatch |-> [l \in Logical |-> {r.log2phy[l][k] : k \in Upto(Valid(l))}]]

\* init_by_eplb for the loads of a layer.
NewPlacement(w) == InitRaw(rebalance_experts(w))

\* The placements for all loads of a layer.
Plans == [w \in UNION {Range(c) : c \in LoadChoices} |-> NewPlacement(w)]

AllIdle == \A g \in Gpus : pc[g] = "idle"

Init ==
  /\ pc = [g \in Gpus |-> "idle"]
  /\ \E m \in InitMaps :
       /\ meta = [g \in Gpus |-> [l \in Layers |-> Placement(m[l], g)]]
       /\ weights = [g \in Gpus |-> [l \in Layers |-> [p \in LocalOf(g) |-> m[l][p]]]]
  /\ plan = meta
  /\ temp = [g \in Gpus |-> [p \in LocalOf(g) |-> Undef]]
  /\ layer = [g \in Gpus |-> 0]
  /\ ops = [g \in Gpus |-> {}]
  /\ copies = [g \in Gpus |-> <<>>]
  /\ metrics \in BOOLEAN
  /\ recording = TRUE
  /\ history = FALSE
  /\ cause = "client"
  /\ load = <<>>
  /\ target = <<>>
  /\ rate = "none"
  /\ rounds = 0
-----------------------------------------------------------------------------
(* Between two passes *)

StartRecord ==
  /\ AllIdle
  /\ recording' = TRUE
  /\ history' = FALSE
  /\ UNCHANGED <<pc, updater, metrics, cause, load, target, rate, rounds>>

StopRecord ==
  /\ AllIdle
  /\ recording' = FALSE
  /\ UNCHANGED <<pc, updater, metrics, history, cause, load, target, rate, rounds>>

BeginDump(why) ==
  /\ pc' = [g \in Gpus |-> "all_reduce"]
  /\ cause' = why
  /\ rate' = "none"

DumpRecord ==
  /\ AllIdle
  /\ BeginDump("client")
  /\ UNCHANGED <<updater, metrics, recording, history, load, target, rounds>>

\* get_status dumps as well, and resets nothing.
GetStatus ==
  /\ AllIdle
  /\ recording
  /\ BeginDump("status")
  /\ UNCHANGED <<updater, metrics, recording, history, load, target, rounds>>

\* The generator of the manager comes to rebalance().
StartRebalance ==
  /\ rounds < MaxRounds /\ rounds' = rounds + 1
  /\ \E w \in LoadChoices : load' = w /\ target' = [l \in Layers |-> Plans[w[l]]]
  /\ BeginDump("rebalance")

\* Mutant of ForwardPass: the manager is called before the pass is recorded.
MutantForwardPass ==
  /\ AllIdle
  /\ \/ history' = (history \/ (recording /\ metrics)) /\ UNCHANGED <<pc, cause, load, target, rate, rounds>>
     \/ UNCHANGED history /\ StartRebalance
  /\ UNCHANGED <<updater, metrics, recording>>

\* A recorded pass appends its utilization rate; on_forward_pass_end comes after it.
ForwardPass ==
  /\ AllIdle
  /\ history' = (history \/ (recording /\ metrics))
  /\ \/ UNCHANGED <<pc, cause, load, target, rate, rounds>>
     \/ StartRebalance
  /\ UNCHANGED <<updater, metrics, recording>>
-----------------------------------------------------------------------------
(* dump of the _StatAccumulator *)

\* The all_reduce ends when all ranks have come to it, with the same sum for all.
AllReduce ==
  /\ \A g \in Gpus : pc[g] = "all_reduce"
  /\ pc' = [g \in Gpus |-> "rate"]
  /\ UNCHANGED <<updater, control>>

\* _get_global_average_utilization_rate.  mean() divides by the length of the
\* history: with an empty one rank 0 raises, and the broadcast has no sender.
\* (get_status catches the exception: rank 0 goes on alone, out of step with the
\* ranks that wait, which is where the model ends as well.)
UtilizationRate(g) ==
  /\ pc[g] = "rate"
  /\ \/ ~metrics /\ pc' = [pc EXCEPT ![g] = "decide"] /\ UNCHANGED rate
     \/ metrics /\ g = 0 /\ history /\ rate' \in {"low", "high"} /\ pc' = [pc EXCEPT ![g] = "decide"]
     \/ metrics /\ g = 0 /\ ~history /\ pc' = [pc EXCEPT ![g] = "raised"] /\ UNCHANGED rate
     \/ metrics /\ g # 0 /\ rate # "none" /\ pc' = [pc EXCEPT ![g] = "decide"] /\ UNCHANGED rate
  /\ UNCHANGED <<updater, metrics, recording, history, cause, load, target, rounds>>

\* Mutant of Rebalances: a rank judges by its own history, which only rank 0 has.
MutantOwnRate(g) == cause = "rebalance" /\ (g # 0 \/ rate # "high")

\* _check_rebalance_needed on rank g
Rebalances(g) == cause = "rebalance" /\ rate # "high"

\* dump_record resets the recorder; then rank g ends, or plans and starts to move.
Decide(g) ==
  /\ pc[g] = "decide"
  /\ history' = (history /\ (g # 0 \/ cause = "status"))
  /\ IF Rebalances(g)
     THEN /\ plan' = [plan EXCEPT ![g] = target]
          /\ temp' = [temp EXCEPT ![g] = [p \in LocalOf(g) |-> Undef]]
          /\ layer' = [layer EXCEPT ![g] = 0]
          /\ pc' = [pc EXCEPT ![g] = "stage"]
     ELSE pc' = [pc EXCEPT ![g] = "idle"] /\ UNCHANGED <<plan, temp, layer>>
  /\ UNCHANGED <<meta, weights, ops, copies, metrics, recording, cause, load, target, rate, rounds>>
-----------------------------------------------------------------------------
Update ==
  /\ \/ \E g \in Gpus : PostBatch(g)
     \/ \E g, h \in Gpus : Transfer(g, h)
     \/ \E g \in Gpus : FinishLayer(g)
  /\ UNCHANGED control

\* What the ranks do by themselves once a dump has begun.
RankStep ==
  \/ AllReduce
  \/ \E g \in Gpus : UtilizationRate(g)
  \/ \E g \in Gpus : Decide(g)
  \/ Update

Next == StartRecord \/ StopRecord \/ DumpRecord \/ GetStatus \/ ForwardPass \/ RankStep

Spec == Init /\ [][Next]_vars

\* As long as some rank can go on, one of them does.
FairSpec == Spec /\ WF_vars(RankStep)
-----------------------------------------------------------------------------
(* Properties *)

Op == [kind : {"isend", "irecv"}, expert : Logical, slot : Physical, peer : Gpus]
PlacementType == [phy2log : Maps, dispatch : [Logical -> SUBSET (Physical \cup {-1})]]

\* A placement that holds every expert, and dispatches each to places that hold it.
SoundPlacement(x) ==
  /\ x \in PlacementType
  /\ \A e \in Logical : \E p \in Physical : x.phy2log[p] = e
  /\ \A e \in Logical : x.dispatch[e] # {}
  /\ \A e \in Logical : \A p \in x.dispatch[e] : p \in Physical /\ x.phy2log[p] = e

\* The algorithm makes such a placement of every load.
PlansSound == \A w \in LoadChoices, l \in Layers : SoundPlacement(Plans[w[l]])

\* The types of the variables.
TypeOK ==
  /\ pc \in [Gpus -> {"idle", "all_reduce", "rate", "raised", "decide", "stage", "wait"}]
  /\ \A g \in Gpus, l \in Layers : {meta[g][l], plan[g][l]} \subseteq PlacementType
  /\ \A g \in Gpus : /\ \A l \in Layers : weights[g][l] \in [LocalOf(g) -> Logical \cup {Undef}]
                     /\ temp[g] \in [LocalOf(g) -> Logical \cup {Undef}]
                     /\ layer[g] \in Layers
                     /\ ops[g] \subseteq Op
                     /\ DOMAIN copies[g] \subseteq LocalOf(g) /\ Range(copies[g]) \subseteq LocalOf(g)
  /\ metrics \in BOOLEAN /\ recording \in BOOLEAN /\ history \in BOOLEAN
  /\ cause \in {"client", "status", "rebalance"} /\ load \in LoadChoices \cup {<<>>}
  /\ target \in [Layers -> PlacementType] \cup {<<>>}
  /\ rate \in {"none", "low", "high"} /\ rounds \in 0..MaxRounds

\* The ranks that move weights to a plan.
Updating == {g \in Gpus : pc[g] \in {"stage", "wait"}}

\* Rank g has moved the weights of layer l, and its metadata does not say so yet.
Moved(g, l) == g \in Updating /\ l < layer[g]

\* What the canary of the updater asserts, at any time: the weights of a slot
\* are those of the expert that the map names there - the map of the plan for a
\* layer that is done, the old map for any other - whatever order the ranks run in.
WeightsFollowMap ==
  \A g \in Gpus, l \in Layers, p \in Physical :
    p \in LocalOf(g) =>
      weights[g][l][p] = (IF Moved(g, l) THEN plan[g][l] ELSE meta[g][l]).phy2log[p]

\* Every rank decides for itself whether to rebalance and computes its own plan.
\* Yet the ranks that move weights move them to the same placement, a rank that is
\* through with it has that placement, and between rebalancings all have the same.
RanksAgree ==
  \A g, h \in Gpus, l \in Layers :
    /\ AllIdle => meta[g][l].phy2log = meta[h][l].phy2log
    /\ g \in Updating /\ h \in Updating => plan[g] = plan[h]
    /\ g \in Updating /\ pc[h] = "idle" => meta[h] = plan[g]

\* Tokens find their experts: when passes may run, each place that a rank may
\* dispatch a logical expert to holds the weights of that expert, and there is one.
DispatchFindsWeights ==
  AllIdle => \A g \in Gpus, l \in Layers, e \in Logical :
    /\ meta[g][l].dispatch[e] # {}
    /\ \A p \in meta[g][l].dispatch[e] : p \in Physical /\ weights[GpuOf(p)][l][p] = e

\* The ranks that have made a plan and not yet moved anything.
Planned == {g \in Gpus : pc[g] = "stage" /\ layer[g] = 0}

\* Under the hierarchical policy the plan has all replicas of the experts of one
\* group on one node.
GroupsStayTogether ==
  Hierarchical => \A g \in Planned, l \in Layers, p, q \in Physical :
    LET GroupAt(i) == plan[g][l].phy2log[i] \div (NumLogical \div NumGroups)
    IN GroupAt(p) = GroupAt(q) => NodeOf(GpuOf(p)) = NodeOf(GpuOf(q))

\* "The maximum load of all replicas is minimized": no other way to share the
\* slots of a node out to the experts that the plan has there makes the most
\* loaded replica lighter.  (The global policy has one node.)
ReplicasOptimal ==
  \A g \in Planned, l \in Layers, n \in Upto(IF Hierarchical THEN NumNodes ELSE 1) :
    LET new     == plan[g][l].phy2log
        slots   == {p \in Physical : Hierarchical => NodeOf(GpuOf(p)) = n}
        experts == {new[p] : p \in slots}
        cnt     == [e \in experts |-> Cardinality({p \in slots : new[p] = e})]
        w       == load[l]
    IN \A other \in [slots -> experts] :
         \E e \in experts : \A i \in experts :
           w[e] * cnt[i] >= w[i] * Cardinality({p \in slots : other[p] = e})

\* A rebalancing of a recording server never raises on an empty history, whatever
\* clients start, stop and dump between the passes.
RebalanceHasHistory == pc[0] = "raised" /\ cause = "rebalance" => ~recording

\* Every dump and every rebalancing comes to an end on all ranks: the collectives
\* are reached by all, and every posted send meets its receive.  The exception is
\* a dump in which rank 0 raises, where the others wait for ever.
RoundsEnd == (~AllIdle) ~> (AllIdle \/ pc[0] = "raised")
=============================================================================
