-------------------------- MODULE MC_FileScheduler --------------------------
(***************************************************************************)
(* Two nodes, two files of a repository with the same content (a deletion  *)
(* by it selects both, one by a path selects one), each of two blocks, two *)
(* RPCs at a time and up to two process rows, so that there are several    *)
(* rows of a node, rows of several nodes, and a deleted row can be         *)
(* inserted again.                                                         *)
(***************************************************************************)
EXTENDS FileScheduler

CONSTANTS a, b, c1, c2, r, x, y, e

MCFiles == {[repo |-> r, name |-> x, etag |-> e], [repo |-> r, name |-> y, etag |-> e]}
=============================================================================
