------------------------ MODULE MC_ReconcileDelivery ------------------------
(***************************************************************************)
(* One node with one file: what a report says does not matter here.  Two   *)
(* epochs let a stale delivery meet a task that is over and one that       *)
(* replaced it.                                                            *)
(***************************************************************************)
EXTENDS ReconcileDelivery, TLC

CONSTANTS n1, r1, f1

MCRepoOf == f1 :> r1
=============================================================================
