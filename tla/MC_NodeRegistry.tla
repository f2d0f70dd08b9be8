-------------------------- MODULE MC_NodeRegistry --------------------------
(***************************************************************************)
(* Three processes, so that the instance can change its mode and change it *)
(* back, and two rows: one per mode, or two of a mode when registrations   *)
(* overlap.  Two requests at a time; one is enough for the counterexample  *)
(* about MAX(id).  The second process is of a version without endpoints.   *)
(***************************************************************************)
EXTENDS NodeRegistry, TLC

CONSTANTS h1, h2

HandlerSymmetry == Permutations(Handlers)
=============================================================================
