--------------------------- MODULE OfficialHistory ---------------------------
(***************************************************************************)
(* What the authority promises of one official revision: a sequence of     *)
(* versions, each made from the one before by exactly one request that was *)
(* drawn up against that version, and answers that repeat what was done.   *)
(***************************************************************************)
EXTENDS Naturals

CONSTANTS Paths,     \* file paths of the repository
          Contents,  \* checksums and sizes a file may have
          NoFile,    \* no file at a path; in a change: delete it
          Keep,      \* in a change: the path is not mentioned
          Inside,    \* pairs <<p, q>>: p is a path below q, so not both can be files
          Ids,       \* receipt ids: what names a request of one actor for one revision
          Requests   \* the commit requests that clients may send

Definitions == [Paths -> Contents \cup {NoFile}]
Changes     == [Paths -> Contents \cup {NoFile, Keep}]
Empty       == [p \in Paths |-> NoFile]

\* Only what is in a definition can be deleted.
Applicable(files, changes) == \A p \in Paths : changes[p] = NoFile => files[p] # NoFile

Applied(files, changes) == [p \in Paths |-> IF changes[p] = Keep THEN files[p] ELSE changes[p]]

\* No path is both a file and a folder.
Valid(files) == \A pq \in Inside : files[pq[1]] = NoFile \/ files[pq[2]] = NoFile
-----------------------------------------------------------------------------
VARIABLES version,  \* the current version, 0 before the first
          files,    \* the files of the current version
          done,     \* the requests carried out, each with its result
          answers   \* the successes clients were told

vars == <<version, files, done, answers>>

Init == version = 0 /\ files = Empty /\ done = {} /\ answers = {}

Accept(r) ==
  /\ r.base = version
  /\ \A d \in done : d.req.id # r.id
  /\ Applicable(files, r.changes)
  /\ Valid(Applied(files, r.changes))
  /\ version' = version + 1
  /\ files' = Applied(files, r.changes)
  /\ done' = done \cup {[req |-> r, version |-> version', files |-> files']}
  /\ answers' \in {answers, answers \cup (done' \ done)}

Answer(d) == answers' = answers \cup {d} /\ UNCHANGED <<version, files, done>>

Next == (\E r \in Requests : Accept(r)) \/ (\E d \in done : Answer(d))

Spec == Init /\ [][Next]_vars
=============================================================================
