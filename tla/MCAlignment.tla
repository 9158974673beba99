---------------------------- MODULE MCAlignment ----------------------------
(* Three requests, of which one has a prompt of two chunks. *)
EXTENDS Alignment

CONSTANTS r1, r2, r3

MCPromptLen == (r1 :> 1) @@ (r2 :> 3) @@ (r3 :> 1)
=============================================================================
