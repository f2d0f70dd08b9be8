----------------------------- MODULE MC_CacheJob -----------------------------
(***************************************************************************)
(* Two jobs of one repository, an older and a newer one, and two requests  *)
(* at a time: enough for a late completion, a resume or a stop to meet any *)
(* other handler between its statements.  Liveness is checked for one job. *)
(***************************************************************************)
EXTENDS CacheJob, TLC

CONSTANTS h1, h2

HandlerSymmetry == Permutations(Handlers)
=============================================================================
