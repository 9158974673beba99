--------------------------- MODULE MCEplbManager ---------------------------
(* Constants for the runs of EplbManager. *)
EXTENDS EplbManager

\* --expert-distribution-recorder-buffer-size -1: an infinite buffer.
Unlimited == -1
=============================================================================
