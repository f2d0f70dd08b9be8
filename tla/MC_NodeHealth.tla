---------------------------- MODULE MC_NodeHealth ----------------------------
(***************************************************************************)
(* Times scaled down: three periods make the age of disconnection, a       *)
(* delivery may take a whole period, and the run is long enough for two    *)
(* losses in a row, a restart of the node and evidence that runs out.      *)
(***************************************************************************)
EXTENDS NodeHealth
=============================================================================
