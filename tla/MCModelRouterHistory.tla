------------------------ MODULE MCModelRouterHistory ------------------------
(* The instances of MCModelRouter, with the history variables. *)
EXTENDS MCModelRouter, ModelRouterHistory

=============================================================================
