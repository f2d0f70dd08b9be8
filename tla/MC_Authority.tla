---------------------------- MODULE MC_Authority ----------------------------
(***************************************************************************)
(* Two handlers and requests that set or delete one path each, drawn up    *)
(* against version 0, 1 or 2; q lies below p.  Three ids and four requests *)
(* per base and id let a request meet itself, its id reused and a rival.   *)
(***************************************************************************)
EXTENDS Authority, TLC

CONSTANTS p, q, x, h1, h2, i1, i2, i3

MCInside == {<<q, p>>}

MCRequests ==
  {[id |-> i, base |-> b, changes |-> [t \in Paths |-> IF t = a THEN c ELSE Keep]] :
     i \in Ids, b \in 0..2, a \in Paths, c \in Contents \cup {NoFile}}

Symmetry == Permutations(Handlers) \cup Permutations(Ids)
=============================================================================
