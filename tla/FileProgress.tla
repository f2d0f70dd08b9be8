----------------------------- MODULE FileProgress -----------------------------
(***************************************************************************)
(* What the file scheduler promises about downloads, with no rows, records *)
(* or locks: one register for every file and node, on which each RPC takes *)
(* effect in one step or not at all.                                       *)
(*                                                                         *)
(*   - an assignment starts a download, or takes one back to a place that  *)
(*     is not beyond where it stands;                                      *)
(*   - a report never takes a download back, a break leaves it where it    *)
(*     is, and only a whole file is called downloaded;                     *)
(*   - these touch the download of one file on one node;                   *)
(*   - a deletion forgets, in one step, the downloads that one node has of *)
(*     all the files of a repository with some path, some content or both, *)
(*     and touches no other.                                               *)
(***************************************************************************)
EXTENDS Naturals

CONSTANTS Nodes,   \* instance ids
          Files,   \* [repo, name, etag]: identities of a file
          Size     \* length of every file, in blocks

VARIABLE progress  \* file -> node -> how far the download is, and its status

\* The node has no download of the file.
None == [offset |-> 0, status |-> "none"]

Init == progress = [f \in Files |-> [n \in Nodes |-> None]]

(* How a download d may become e. *)

Assign(d, e) == e \in [offset : 0..d.offset, status : {"new"}]

Advance(d, e) ==
  \/ e \in [offset : d.offset..Size, status : {"downloading"}]
  \/ e = [offset |-> Size, status |-> "downloaded"]

\* The first report of a download may be that it broke.
Break(d, e) ==
  /\ e \in [offset : 0..Size, status : {"break"}]
  /\ d # None => e.offset = d.offset

Write(d, e) == Assign(d, e) \/ Advance(d, e) \/ Break(d, e)

(* How the table of downloads `was` may become `now`. *)

Only(f, n, was, now) == now = [was EXCEPT ![f][n] = now[f][n]]

\* The files of the repository of f that agree with f in what is given of name and etag.
Alike(f, given) == {g \in Files : g.repo = f.repo /\ \A x \in given : g[x] = f[x]}

Forget(f, given, n, was, now) ==
  now = [g \in Files |->
           IF g \in Alike(f, given) THEN [was[g] EXCEPT ![n] = None] ELSE was[g]]

\* A step changes the download of some f at n.
Step(was, now) ==
  \E f \in Files, n \in Nodes :
     /\ now[f][n] # was[f][n]
     /\ \/ Write(was[f][n], now[f][n]) /\ Only(f, n, was, now)
        \/ /\ now[f][n] = None
           /\ \E given \in {{"name"}, {"etag"}, {"name", "etag"}} :
                 Forget(f, given, n, was, now)

Next == Step(progress, progress')

Spec == Init /\ [][Next]_progress
=============================================================================
