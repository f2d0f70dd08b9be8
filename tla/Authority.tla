------------------------------ MODULE Authority ------------------------------
(***************************************************************************)
(* The commit operation of internal/authority/service.go on one official   *)
(* revision: the receipt is looked up, the definition read, the changes    *)
(* applied to it and checked against their sources, and then one           *)
(* transaction writes the definition under its version and the receipt.    *)
(* Clients send a request again when they have no answer, and use an id    *)
(* twice; handlers of any requests overlap; a process may stop anywhere.   *)
(***************************************************************************)
EXTENDS Naturals

CONSTANTS Paths, Contents, NoFile, Keep, Inside, Ids, Requests,  \* see OfficialHistory
          Handlers  \* goroutines

VARIABLES definition,  \* official_revision: the revision's row, version 0 for none
          receipts,    \* official_revision_receipt
          handler,     \* what each goroutine does
          answers      \* the successes clients were told

vars == <<definition, receipts, handler, answers>>

\* The definition's row as its abstract state; operators on files come with it.
History == INSTANCE OfficialHistory WITH
             version <- definition.version, files <- definition.files, done <- receipts

\* No file and no change are not contents, and requests are requests.
ASSUME AuthorityAssumption ==
  /\ NoFile \notin Contents /\ Keep \notin Contents /\ Keep # NoFile
  /\ Inside \subseteq Paths \X Paths
  /\ Requests \subseteq [id : Ids, base : Nat, changes : History!Changes]

NoDefinition == [version |-> 0, files |-> History!Empty]
Idle         == [step |-> "idle"]

Init ==
  /\ definition = NoDefinition
  /\ receipts = {}
  /\ handler = [h \in Handlers |-> Idle]
  /\ answers = {}
-----------------------------------------------------------------------------
Return(h) == handler' = [handler EXCEPT ![h] = Idle]

\* `lookup`: the receipt of the request; the same id with another content is a conflict.
Receipt(r) == {d \in receipts : d.req = r}
IdUsed(r)  == \E d \in receipts : d.req.id = r.id

Tell(h, ds) == Return(h) /\ answers' = answers \cup ds

\* A request that was carried out before is answered from its receipt.
Start(h, r) ==
  /\ handler[h] = Idle
  /\ IF IdUsed(r)
     THEN Receipt(r) # {} /\ answers' = answers \cup Receipt(r) /\ UNCHANGED handler
     ELSE handler' = [handler EXCEPT ![h] = [step |-> "read", req |-> r]] /\ UNCHANGED answers
  /\ UNCHANGED <<definition, receipts>>

\* `get`: a version other than the request's base is a conflict.
Read(h) ==
  /\ handler[h].step = "read"
  /\ IF definition.version = handler[h].req.base
     THEN handler' = [handler EXCEPT ![h] = [step |-> "check", req |-> handler[h].req,
                                             files |-> definition.files]]
     ELSE Return(h)
  /\ UNCHANGED <<definition, receipts, answers>>

\* Goroutine h goes on with files that are all right.
ToWrite(h, ok, files) ==
  handler' = [handler EXCEPT ![h] =
                IF ok THEN [step |-> "write", req |-> handler[h].req, files |-> files] ELSE Idle]

\* Fault: the files are not checked again once they are put together.
Check_NoValidation(h) ==
  /\ handler[h].step = "check"
  /\ LET changes == handler[h].req.changes
     IN  ToWrite(h, History!Applicable(handler[h].files, changes),
                 History!Applied(handler[h].files, changes))
  /\ UNCHANGED <<definition, receipts, answers>>

\* The changes are applied to the files that were read, their sources hold them, and the
\* result is validated.
Check(h) ==
  /\ handler[h].step = "check"
  /\ LET changes == handler[h].req.changes
         final   == History!Applied(handler[h].files, changes)
     IN  ToWrite(h, History!Applicable(handler[h].files, changes) /\ History!Valid(final), final)
  /\ UNCHANGED <<definition, receipts, answers>>

\* A file to be set has a source, which is offline or unreadable, answers incompletely, or
\* has another content there by now.
SourceFails(h) ==
  /\ handler[h].step = "check"
  /\ \E p \in Paths : handler[h].req.changes[p] \in Contents
  /\ Return(h)
  /\ UNCHANGED <<definition, receipts, answers>>

\* Fault: the definition is written whatever its version is now.
VersionHolds_Unchecked(r) == r.base = 0 => definition.version = 0

\* The row is created for base 0, else updated WHERE version = base.
VersionHolds(r) == definition.version = r.base

\* Fault: the receipt is not stored.
Carried_NoReceipt(r, files) == {}

\* Fault: the receipt keeps the row and not the files.
Carried_NoFiles(r, files) == {[req |-> r, version |-> r.base + 1]}

\* The receipt of request r, whose id must be new (primary key).
Carried(r, files) == {[req |-> r, version |-> r.base + 1, files |-> files]}

\* The transaction.  It is answered at once, or its answer is lost on the way from the
\* database and looked up.
Write(h) ==
  /\ handler[h].step = "write"
  /\ LET r == handler[h].req
         d == Carried(r, handler[h].files)
     IN  /\ VersionHolds(r) /\ ~IdUsed(r)
         /\ definition' = [version |-> r.base + 1, files |-> handler[h].files]
         /\ receipts' = receipts \cup d
         /\ \/ Tell(h, d)
            \/ /\ handler' = [handler EXCEPT ![h] = [step |-> "lookup", req |-> r]]
               /\ UNCHANGED answers

\* The transaction is rolled back: the version or the receipt is taken, or the database failed.
WriteFails(h) ==
  /\ handler[h].step = "write"
  /\ handler' = [handler EXCEPT ![h] = [step |-> "lookup", req |-> handler[h].req]]
  /\ UNCHANGED <<definition, receipts, answers>>

\* After any error the receipt decides: another handler may have carried out the request.
Lookup(h) ==
  /\ handler[h].step = "lookup"
  /\ Tell(h, Receipt(handler[h].req))
  /\ UNCHANGED <<definition, receipts>>

\* A goroutine ends early: an error of the database, or the process stops.
Stop(h) ==
  /\ handler[h] # Idle
  /\ Return(h)
  /\ UNCHANGED <<definition, receipts, answers>>

Next ==
  \E h \in Handlers :
     \/ \E r \in Requests : Start(h, r)
     \/ Read(h) \/ Check(h) \/ SourceFails(h)
     \/ Write(h) \/ WriteFails(h) \/ Lookup(h) \/ Stop(h)

Spec == Init /\ [][Next]_vars
-----------------------------------------------------------------------------
Carrieds == [req : Requests, version : Nat, files : History!Definitions]

HandlerStates ==
  {Idle} \cup [step : {"read", "lookup"}, req : Requests]
         \cup [step : {"check", "write"}, req : Requests, files : History!Definitions]

\* The tables and the handlers hold values of their kind.
TypeOK ==
  /\ definition \in [version : Nat, files : History!Definitions]
  /\ receipts \subseteq Carrieds
  /\ answers \subseteq Carrieds
  /\ handler \in [Handlers -> HandlerStates]

\* No official version ever holds a path that is a file and a folder, although each handler
\* validates only what it read itself.
NoPathConflict == History!Valid(definition.files)

\* Every version was made by exactly one request, and the receipts tell which: as
\* many receipts as versions, their versions and their ids all different.
OneRequestPerVersion ==
  /\ \A v \in 1..definition.version : \E d \in receipts : d.version = v
  /\ \A c, d \in receipts : c # d => c.version # d.version /\ c.req.id # d.req.id
  /\ \A d \in receipts : d.version <= definition.version

\* Commits are atomic: each takes effect at once on the version it was drawn up against,
\* however reads, checks and writes of handlers mix; and a client is told only what was done.
ImplementsHistory == History!Spec
=============================================================================
