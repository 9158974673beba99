---------------------------- MODULE MCEplbRanks ----------------------------
(* Two nodes of two GPUs with two slots each, four experts in four groups. *)
EXTENDS EplbRanks, Sequences

\* A function on 0..7 or 0..3 from a tuple.
At(t) == [i \in Upto(Len(t)) |-> t[i + 1]]

\* The trivial placement, one with an expert that three GPUs hold, and one with
\* two experts that a single GPU holds.
StartMaps == {At(<<0, 1, 2, 3, 0, 1, 2, 3>>), At(<<2, 1, 2, 0, 3, 2, 3, 0>>), At(<<3, 3, 1, 0, 2, 2, 1, 0>>)}

MCInitMaps == {[l \in Layers |-> IF l = 0 THEN m ELSE At(<<0, 1, 2, 3, 0, 1, 2, 3>>)] : m \in StartMaps}

\* Loads with ties, with idle experts, and with groups that change their nodes.
Loads == {At(<<9, 0, 0, 1>>), At(<<1, 3, 2, 8>>), At(<<0, 0, 0, 0>>)}

MCLoadChoices == {[l \in Layers |-> IF l = 0 THEN w ELSE At(<<0, 5, 5, 0>>)] : w \in Loads}
=============================================================================
