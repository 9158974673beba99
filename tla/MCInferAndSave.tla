--------------------------- MODULE MCInferAndSave ---------------------------
(* Constants for the runs of InferAndSave. *)
EXTENDS InferAndSave

\* messages[0] differs from item to item.
OwnPrompts == [i \in 1..NumItems |-> i]

\* messages[0] is a system prompt that all items share.
SharedPrompts == [i \in 1..NumItems |-> 0]
=============================================================================
