---------------------------- MODULE FileScheduler ----------------------------
(***************************************************************************)
(* Who downloads which file from whom: SchedulerFile, SingleFileProcess    *)
(* (also the loop of SyncFileProcess), ReportFileProcess and               *)
(* DeleteByEtagsAndFields of internal/service/scheduler_service.go, with   *)
(* the tables model_file_record and model_file_process they read and write *)
(* and the cancellable lock of internal/service/ctx_mutex.go they share    *)
(* with IngestRepository, which pulls a node's snapshot while it holds it  *)
(* (what the snapshot changes is in UploadInventory).                      *)
(*                                                                         *)
(* A handler under the lock reads in one step and writes in a later one.   *)
(* ReportFileProcess takes no lock, so its UPDATE can come between them.   *)
(* The per-path lock nested in writeMu excludes nothing more.  A deletion  *)
(* reads the ids of the records and deletes their processes in one step:   *)
(* records are inserted under the lock only and never deleted.             *)
(***************************************************************************)
EXTENDS Naturals, Sequences

CONSTANTS Nodes,       \* instance ids
          Files,       \* [repo, name, etag]: identities of a file, repo being (data type, org, repo)
          Callers,     \* RPC goroutines that take writeMu
          Size,        \* length of every file, in blocks
          MaxRows      \* bound: rows ever inserted into model_file_process

ASSUME FileSchedulerAssumption == Size \in Nat \ {0} /\ MaxRows \in Nat

VARIABLES queue,     \* writeMu: its holder, then the blocked senders of its channel
          gone,      \* callers whose context is done
          job,       \* what each caller is doing with the lock
          records,   \* model_file_record: its rows by id; none is ever deleted
          procs      \* model_file_process: its rows by id

tables == <<records, procs>>
vars   == <<queue, gone, job, tables>>

Offsets  == 0..Size
Statuses == {"new", "downloading", "break", "downloaded"}
Rows     == [record : Nat \ {0}, node : Nodes, offset : Offsets, status : Statuses]
Deleted  == [record |-> 0]

\* What a node reports of a download: it went from sta to end and is now in
\* `status`.  Only a file that is there to its last block is "downloaded", and
\* nothing depends on where a download began that broke.
Reports ==
  {r \in [sta : Offsets, end : Offsets, status : Statuses \ {"new"}] :
      /\ IF r.status = "break" THEN r.sta = r.end ELSE r.sta <= r.end
      /\ r.status = "downloaded" => r.end = Size}

Idle == [step |-> "idle"]

Init == queue = <<>> /\ gone = {} /\ job = [c \in Callers |-> Idle]
  /\ records = <<>> /\ procs = <<>>
-----------------------------------------------------------------------------
(* ctxMutex *)

Waiting(c) == \E i \in DOMAIN queue : queue[i] = c
Holds(c)   == queue # <<>> /\ Head(queue) = c

\* c leaves and the others keep their order.
Without(c) ==
  LET place == CHOOSE i \in DOMAIN queue : queue[i] = c
  IN  [i \in 1..(Len(queue) - 1) |-> queue[IF i < place THEN i ELSE i + 1]]

\* An RPC arrives and blocks on the channel or gets the lock at once.
Call(c) ==
  /\ ~Waiting(c)
  /\ queue' = Append(queue, c)
  /\ UNCHANGED <<gone, job, tables>>

\* Its client times out or goes away.
Cancel(c) ==
  /\ Waiting(c) /\ c \notin gone
  /\ gone' = gone \cup {c}
  /\ UNCHANGED <<queue, job, tables>>

\* Fault: the record query does not take the context.
Abandon_Waiting(c) ==
  /\ c \in gone /\ job[c] = Idle
  /\ queue' = Without(c) /\ gone' = gone \ {c}
  /\ UNCHANGED <<job, tables>>

\* A cancelled caller gives up: while it waits, when it has just got the lock, in
\* the record query, the only query that takes its context, or in a pull.
Abandon(c) ==
  /\ c \in gone
  /\ Waiting(c)
  /\ job[c].step \in {"idle", "query", "pull"}
  /\ queue' = Without(c) /\ gone' = gone \ {c}
  /\ job' = [job EXCEPT ![c] = Idle]
  /\ UNCHANGED tables

\* Fault: the lock is not taken.
Enter_Unlocked(c) == Waiting(c) /\ job[c] = Idle /\ c \notin gone

\* Handlers enter here with the lock.
Enter(c) == Holds(c) /\ job[c] = Idle /\ c \notin gone

\* The handler returns, with or without an error, and releases the lock.
Return(c) ==
  /\ queue' = Without(c) /\ gone' = gone \ {c} /\ job' = [job EXCEPT ![c] = Idle]
-----------------------------------------------------------------------------
(* The tables. *)

Live == {i \in DOMAIN procs : procs[i] # Deleted}

RecordsOf(f) == {k \in DOMAIN records : records[k] = f}
RowsOf(f)    == {i \in Live : records[procs[i].record] = f}
OwnRows(f, n) ==
  {i \in DOMAIN procs :
     procs[i] # Deleted /\ procs[i].node = n /\ records[procs[i].record] = f}

\* The records of the repository that have the etag, the name, or both, as they are given.
GetIDsByEtagsOrFields(f, given) ==
  {k \in DOMAIN records : records[k].repo = f.repo /\ \A x \in given : records[k][x] = f[x]}

\* Fault: the first row does not get the id of the new record.
Insert_NoRecordId(f, row) ==
  /\ Len(procs) < MaxRows
  /\ procs' = Append(procs, row)
  /\ records' = IF row.record = 0 THEN Append(records, f) ELSE records

\* SaveSchedulerRecord inserts the record with its first row in one transaction;
\* Save inserts a row only.
Insert(f, row) ==
  /\ Len(procs) < MaxRows
  /\ IF row.record = 0
     THEN /\ records' = Append(records, f)
          /\ procs' = Append(procs, [row EXCEPT !.record = Len(records) + 1])
     ELSE /\ procs' = Append(procs, row)
          /\ UNCHANGED records

\* Fault: a report is applied wherever the row stands.
Reported_Anywhere(i, r) ==
  [procs EXCEPT ![i] = IF r.status = "break" THEN [@ EXCEPT !.status = "break"]
                       ELSE [@ EXCEPT !.offset = r.end, !.status = r.status]]

\* ReportFileProcess: a break keeps the offset; other reports apply to a row
\* that is no further than where the report starts.
Reported(i, r) ==
  IF i \notin Live THEN procs
  ELSE IF r.status = "break" THEN [procs EXCEPT ![i].status = "break"]
  ELSE IF procs[i].offset <= r.sta
       THEN [procs EXCEPT ![i].offset = r.end, ![i].status = r.status]
       ELSE procs

\* Fault: the status of the row survives.
ResetProcess_KeepStatus(i, offset) == [procs EXCEPT ![i].offset = offset]

ResetProcess(i, offset) == [procs EXCEPT ![i].offset = offset, ![i].status = "new"]
-----------------------------------------------------------------------------
(* Handlers. *)

\* Both handlers that look a file up first query its record with the caller's context.  Which
\* file and node the request names shows when the query is answered.
StartQuery(c) ==
  /\ Enter(c)
  /\ \E op \in {"SchedulerFile", "SingleFileProcess"} :
        job' = [job EXCEPT ![c] = [op |-> op, step |-> "query"]]
  /\ UNCHANGED <<queue, gone, tables>>

\* The record and the node's row that were found, 0 for none.
Found(ids) == IF ids = {} THEN {0} ELSE ids

\* The master is the row furthest ahead among those of other nodes that are beyond the start
\* and have a recent heartbeat.
Masters(f, n, start, alive) ==
  LET ahead == {i \in RowsOf(f) : /\ procs[i].node \in alive \ {n}
                                  /\ procs[i].offset > start}
  IN  {i \in ahead : \A j \in ahead : procs[j].offset <= procs[i].offset}

Lesser(x, y) == IF x < y THEN x ELSE y

\* The node's own row with the largest offset.
Furthest(ids) == {i \in ids : \A j \in ids : procs[j].offset <= procs[i].offset}

\* SchedulerFile has read the record and its processes and chosen the master.
Decide(c) ==
  /\ job[c].step = "query" /\ job[c].op = "SchedulerFile"
  /\ \E n \in Nodes, f \in Files, start \in Offsets, alive \in SUBSET Nodes :
     \E record \in Found(RecordsOf(f)), own \in Found(Furthest(OwnRows(f, n))),
        master \in Found(Masters(f, n, start, alive)) :
        job' = [job EXCEPT ![c] =
                  [op |-> "SchedulerFile", step |-> "write", node |-> n, file |-> f,
                   record |-> record, own |-> own, master |-> master,
                   maxOffset |-> IF master = 0 THEN 0 ELSE procs[master].offset,
                   offset |-> IF own = 0 THEN 0 ELSE Lesser(procs[own].offset, start)]]
  /\ UNCHANGED <<queue, gone, tables>>

\* SchedulerFile stores the process and answers with its id, the master and maxOffset.
Assign(c) == LET j == job[c] IN
  /\ j.step = "write" /\ j.op = "SchedulerFile"
  /\ IF j.own # 0
     THEN procs' = ResetProcess(j.own, j.offset) /\ UNCHANGED records
     ELSE Insert(j.file, [record |-> j.record, node |-> j.node, offset |-> 0, status |-> "new"])
  /\ Return(c)

\* SingleFileProcess without a process id has looked for the record and the node's row.
FindProcess(c) ==
  /\ job[c].step = "query" /\ job[c].op = "SingleFileProcess"
  /\ \E n \in Nodes, f \in Files :
     \E record \in Found(RecordsOf(f)), own \in Found(OwnRows(f, n)) :
        job' = [job EXCEPT ![c] = [op |-> "SingleFileProcess", step |-> "write", node |-> n,
                                   file |-> f, record |-> record, own |-> own]]
  /\ UNCHANGED <<queue, gone, tables>>

StoreReport(c) == LET j == job[c] IN
  /\ j.step = "write" /\ j.op = "SingleFileProcess"
  /\ \E r \in Reports :
        IF j.own # 0
        THEN procs' = Reported(j.own, r) /\ UNCHANGED records
        ELSE Insert(j.file, [record |-> j.record, node |-> j.node,
                             offset |-> r.end, status |-> r.status])
  /\ Return(c)

\* SingleFileProcess with a process id: ValidateProcessIdentity, then the report.
ReportById(c) ==
  /\ Enter(c)
  /\ \E n \in Nodes, f \in Files, r \in Reports :
        \E i \in OwnRows(f, n) : procs' = Reported(i, r)
  /\ Return(c)
  /\ UNCHANGED records

\* Fault: the node is asked for, not required.
DeleteByRecordID_AnyNode(ids, n) ==
  [i \in DOMAIN procs |-> IF i \in Live /\ procs[i].record \in ids THEN Deleted ELSE procs[i]]

\* The node's processes of these records.
DeleteByRecordID(ids, n) ==
  [i \in DOMAIN procs |->
     IF i \in Live /\ procs[i].record \in ids /\ procs[i].node = n THEN Deleted ELSE procs[i]]

\* A request names the repository and the etag, the name, or both: all the records that match
\* lose their processes of the node.
DeleteByEtagsAndFields(c) ==
  /\ Enter(c)
  /\ \E n \in Nodes, f \in Files, given \in {{"name"}, {"etag"}, {"name", "etag"}} :
        procs' = DeleteByRecordID(GetIDsByEtagsOrFields(f, given), n)
  /\ Return(c)
  /\ UNCHANGED records

\* IngestRepository asks a node for its snapshot.
IngestRepository(c) ==
  /\ Enter(c)
  /\ job' = [job EXCEPT ![c] = [op |-> "IngestRepository", step |-> "pull"]]
  /\ UNCHANGED <<queue, gone, tables>>

\* The snapshot has come and is valid; no table of this module has a part in it.
IngestPublished(c) ==
  /\ job[c].step = "pull"
  /\ Return(c)
  /\ UNCHANGED tables

\* A request is refused by validation, or the database returns an error.
Fail(c) ==
  /\ Holds(c) /\ (job[c] = Idle => c \notin gone)
  /\ Return(c)
  /\ UNCHANGED tables

\* The ReportFileProcess RPC: no lock and no identity check.
ReportFileProcess ==
  /\ \E i \in DOMAIN procs, r \in Reports : procs' = Reported(i, r)
  /\ UNCHANGED <<queue, gone, job, records>>

\* The process stops and starts.
Restart ==
  /\ queue' = <<>> /\ gone' = {} /\ job' = [c \in Callers |-> Idle]
  /\ UNCHANGED tables

Locked(c) ==
  StartQuery(c) \/ ReportById(c) \/ DeleteByEtagsAndFields(c) \/ IngestRepository(c)
Answered(c) == Decide(c) \/ FindProcess(c) \/ IngestPublished(c)
Written(c) == Assign(c) \/ StoreReport(c)

Next ==
  \/ ReportFileProcess
  \/ Restart
  \/ \E c \in Callers :
        Call(c) \/ Cancel(c) \/ Abandon(c) \/ Locked(c) \/ Answered(c) \/ Written(c) \/ Fail(c)

\* Clients have deadlines and a handler's statements come back, but the record query may hang
\* for ever, and so may a node that is asked for its snapshot: no fairness for Answered.
Fairness ==
  \A c \in Callers :
     /\ WF_vars(Cancel(c)) /\ WF_vars(Abandon(c))
     /\ WF_vars(Written(c) \/ (job[c].step = "write" /\ Fail(c)))

Spec == Init /\ [][Next]_vars /\ Fairness
-----------------------------------------------------------------------------
JobStates ==
  {Idle}
  \cup [op : {"SchedulerFile", "SingleFileProcess"}, step : {"query"}]
  \cup [op : {"IngestRepository"}, step : {"pull"}]
  \cup [op : {"SchedulerFile"}, step : {"write"}, node : Nodes, file : Files,
        record : Nat, own : Nat, master : Nat, maxOffset : Offsets, offset : Offsets]
  \cup [op : {"SingleFileProcess"}, step : {"write"}, node : Nodes, file : Files,
        record : Nat, own : Nat]

\* Tables and lock hold values of their kind, and every row belongs to a record.
TypeOK ==
  /\ queue \in Seq(Callers)
  /\ gone \subseteq {c \in Callers : Waiting(c)}
  /\ records \in Seq(Files)
  /\ procs \in Seq(Rows \cup {Deleted})
  /\ \A i \in Live : procs[i].record \in DOMAIN records
  /\ job \in [Callers -> JobStates]

\* A file has one record and a node one process for it, although no unique
\* key protects the tables.
NoDuplicates ==
  /\ \A j, k \in DOMAIN records : records[j] = records[k] => j = k
  /\ \A i, j \in Live :
        procs[i].record = procs[j].record /\ procs[i].node = procs[j].node => i = j

\* What a handler read is still so when it writes and answers: the record, the node's row and
\* the missing ones, a master that is no less far than the answer will say, and a row that is
\* not reset beyond where it stands.  Unlocked reports in between may only move rows forward.
ReadStaysValid ==
  \A c \in Callers : LET j == job[c] IN j.step = "write" =>
     /\ RecordsOf(j.file) = {j.record} \ {0}
     /\ OwnRows(j.file, j.node) = {j.own} \ {0}
     /\ j.op = "SchedulerFile" /\ j.master # 0 =>
           j.master \in RowsOf(j.file) /\ procs[j.master].offset >= j.maxOffset
     /\ j.op = "SchedulerFile" /\ j.own # 0 => j.offset <= procs[j.own].offset

\* A row whose status is "downloaded" covers the whole file, whatever reports, breaks and
\* resets met in which order.
DownloadedIsWhole ==
  \A i \in Live : procs[i].status = "downloaded" => procs[i].offset = Size

\* How far a node is with a file: the place and the status of its row.
ProgressOf(f, n) ==
  LET own == OwnRows(f, n)
      row == procs[CHOOSE i \in own : TRUE]
  IN  IF own = {} THEN [offset |-> 0, status |-> "none"]
                  ELSE [offset |-> row.offset, status |-> row.status]

Downloads == [f \in Files |-> [n \in Nodes |-> ProgressOf(f, n)]]

Progress == INSTANCE FileProgress WITH progress <- Downloads

\* Reading under the lock and writing later, with unlocked reports and abandoned calls in
\* between, is as good as doing each RPC at once: an assignment or a report on one download of
\* one node, a deletion on all the downloads of one node that it selects and on no other.
ImplementsProgress == Progress!Spec

\* An RPC always comes to its end, even if the record query or the pull of a
\* caller ahead of it never returns.
EveryCallReturns == \A c \in Callers : Waiting(c) ~> ~Waiting(c)
=============================================================================
