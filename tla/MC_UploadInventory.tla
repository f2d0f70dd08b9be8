------------------------- MODULE MC_UploadInventory -------------------------
(***************************************************************************)
(* Small instance of UploadInventory: the files of MCRepoOf, and the node  *)
(* symmetry (nodes are only ever compared for equality).                   *)
(***************************************************************************)
EXTENDS UploadInventory, TLC

CONSTANTS n1, n2, r1, r2, f1, f2

MCRepoOf == (f1 :> r1) @@ (f2 :> r2)

NodeSymmetry == Permutations(Nodes)
=============================================================================
