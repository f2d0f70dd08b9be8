---------------------------- MODULE ImportScripts ----------------------------
(***************************************************************************)
(* The programs that fill the catalogue from what a node has on disk:      *)
(* model_import, process_import, repair/data_import and data_import/       *)
(* avatar_import.  An operator runs them beside the scheduler.  They read  *)
(* the tables statement by statement and in batches, ask the node for      *)
(* offsets, and write CSV files that the operator loads later with LOAD    *)
(* DATA; only avatar_import inserts rows itself.                           *)
(***************************************************************************)
EXTENDS FileCatalogue

CONSTANTS Disk,      \* the node's cache in the order of a walk: a sequence of
                     \* [path, oid, lfs, readable, large]; each has an oid
          Node,      \* the instance the scripts are run for
          BatchSize, \* of the queries (1000 and 100 in the code)
          MaxRuns    \* bound: runs of scripts

ASSUME ImportAssumption ==
  /\ Node \in Instances /\ BatchSize \in Nat \ {0} /\ MaxRuns \in Nat
  /\ \A k \in DOMAIN Disk : LET c == Disk[k].path
                          IN Len(c) \in {5, 6} => c[5] # <<"paths", "info">>

VARIABLES script,   \* the script that runs; `seen`: the files with a record when it began (history)
          csv,      \* model_file_record.csv: its rows, and what the script found (history)
          csvProcesses, \* model_file_process.csv
          covered,  \* files of which model_import has said that they are, or will be, recorded (history)
          runs      \* runs of scripts

scripts == <<script, csv, csvProcesses, covered, runs>>
vars    == <<catalogue, scripts>>

NoScript == [op |-> "none", step |-> "idle", list |-> <<>>, at |-> 0, seen |-> {}, known |-> {},
             results |-> {}, rows |-> <<>>]
NoCsv    == [rows |-> <<>>, found |-> {}]

Init ==
  /\ CatalogueInit
  /\ script = NoScript /\ csv = NoCsv /\ csvProcesses = {} /\ covered = {} /\ runs = 0
-----------------------------------------------------------------------------
(* What the walk over the cache of the node finds.  A directory entry has   *)
(* the components of its path and the first item of its path-info file.  A  *)
(* component is the sequence of its parts between dashes.                   *)

\* Local publications are skipped, and so is what cannot be read or is no path-info file.
Listed(c) ==
  /\ Len(c) >= 5
  /\ c[1] = <<"api">> /\ c[2] \in {<<"models">>, <<"datasets">>, <<"spaces">>}
  /\ c[5] = <<"paths", "info">>
  /\ c[3] # <<"dingo", "local">>

\* What of a sequence is in S, in its order: the k-th one has k - 1 of them before it.
Only(s, S) ==
  LET at     == {i \in DOMAIN s : s[i] \in S}
      nth(k) == CHOOSE i \in at : Cardinality(at \cap 1..i) = k
  IN  [k \in 1..Cardinality(at) |-> s[nth(k)]]

\* processDirectory of model_import
Found == Only(Disk, {d \in ToSet(Disk) : Listed(d.path) /\ d.readable})

\* processJsonFile: the LFS object wins over the git object.  The sixth component, the
\* revision, is no part of the name: a file of two revisions is found twice.
FileInfo(d) ==
  [repo |-> [type |-> d.path[2], name |-> SubSeq(d.path, 3, 4)],
   name |-> SubSeq(d.path, 7, Len(d.path)),
   etag |-> IF d.lfs = NoLfs THEN d.oid ELSE d.lfs]

\* What the walk takes up is of a file.
ASSUME DiskAssumption ==
  /\ Disk \in Seq(ToSet(Disk))
  /\ \A d \in ToSet(Disk) : Listed(d.path) /\ d.readable /\ d.large => FileInfo(d) \in Files

\* The files not smaller than the threshold.
LargeFiles(ds) ==
  LET large == Only(ds, {d \in ToSet(ds) : d.large}) IN [k \in DOMAIN large |-> FileInfo(large[k])]

Candidates == LargeFiles(Found)

\* Repair and process_import have copies of the walk of their own.
RepairFound  == Only(Disk, {d \in ToSet(Disk) : Listed(d.path) /\ d.readable})
ProcessFound == Only(Disk, {d \in ToSet(Disk) : Listed(d.path) /\ d.readable})

RepairCandidates == LargeFiles(RepairFound)

\* Each etag once, in the order of a Go map.
ProcessEtags == SetToSeq({f.etag : f \in ToSet(LargeFiles(ProcessFound))})

-----------------------------------------------------------------------------
At(op, step) == script.op = op /\ script.step = step
Run(op, step, list, seen) ==
  /\ script = NoScript
  /\ runs < MaxRuns /\ runs' = runs + 1
  /\ script' = [NoScript EXCEPT !.op = op, !.step = step, !.list = list, !.seen = seen]
Exit == script' = NoScript

\* The rows of model_file_record.csv are buffered until main returns.
FlushRows == csv' = IF script.rows = <<>> THEN csv ELSE [rows |-> script.rows, found |-> {}]

\* What is in the file after an exit without a flush: as many bytes as the buffer was written
\* with when it was full, and so the first rows, of which the last may lack its end.
Flushed(rows) ==
  UNION {{SubSeq(rows, 1, n)} \cup {Append(SubSeq(rows, 1, n - 1), x) : x \in CutRows(rows[n])} :
           n \in 1..Len(rows)}

\* A query fails: the program exits without flushing.  An offset or avatar that cannot be had
\* is no failure.
ScriptFails ==
  /\ \/ script.step \in {"query", "ids", "exists"}
     \/ At("repair", "offsets") /\ script.at = Len(script.list)
  /\ Exit
  /\ csv' \in {csv} \cup {[rows |-> rows, found |-> {}] : rows \in Flushed(script.rows)}
  /\ UNCHANGED <<catalogue, csvProcesses, covered, runs>>

\* The part of the list that the next query asks for.
Batch  == SubSeq(script.list, script.at + 1, Min({script.at + BatchSize, Len(script.list)}))

\* Fault: the number of batches is rounded down.
IsLast_RoundedDown == script.at + 2 * BatchSize > Len(script.list)

\* No further batch.
IsLast == script.at + BatchSize >= Len(script.list)

\* A query about the batch adds to what is known; after the last one the script goes on.
Query(answer, next) ==
  script' = [script EXCEPT !.known = @ \cup answer,
                           !.at = IF IsLast THEN 0 ELSE @ + BatchSize,
                           !.step = IF IsLast THEN next ELSE @]

\* The file is written anew when there is something to write, and left alone otherwise.
WriteCsv(rows, found) ==
  IF rows = <<>> THEN csv ELSE [rows |-> rows, found |-> found]
-----------------------------------------------------------------------------
(* model_import *)

\* The files that have a record, of whatever size.
WithRecord(files) == {f \in files : IdsOf(f) # {}}

StartModelImport ==
  /\ Candidates # <<>>
  /\ Run("model_import", "query", Candidates, WithRecord(Files))
  /\ UNCHANGED <<catalogue, csv, csvProcesses, covered>>

\* ExistRecords: the records that are of a file of the batch.
ExistRecords ==
  /\ At("model_import", "query")
  /\ Query(WithRecord(ToSet(Batch)), "write")
  /\ UNCHANGED <<catalogue, csv, csvProcesses, covered, runs>>

\* name-org-repo, where only the name has slashes: which dash separates two of them is lost.
Dashed(f) == <<Front(f.name), Last(f.name) \o f.repo.name[1] \o f.repo.name[2]>>

\* Fault: files are told apart by their content alone.
ImportKey_EtagOnly(f) == f.etag

\* By this key a candidate is looked up among the records that exist.  The data type is missing.
ImportKey(f) == <<f.etag, Dashed(f)>>

WriteNewRecords ==
  /\ At("model_import", "write")
  /\ LET keys == {ImportKey(f) : f \in script.known}
         rows == Only(script.list, {f \in ToSet(script.list) : ImportKey(f) \notin keys})
     IN /\ csv' = WriteCsv(rows, ToSet(script.list))
        /\ covered' = IF rows = <<>> THEN covered \cup ToSet(script.list) ELSE covered
  /\ Exit
  /\ UNCHANGED <<catalogue, csvProcesses, runs>>
-----------------------------------------------------------------------------
(* repair/data_import: records by etag alone, and processes of those that exist. *)

StartRepair ==
  /\ RepairCandidates # <<>>
  /\ Run("repair", "query", RepairCandidates, {})
  /\ UNCHANGED <<catalogue, csv, csvProcesses, covered>>

Etags(s) == {f.etag : f \in ToSet(s)}

\* ExistEtags, of any repository; a candidate whose etag is new becomes a row of a new file.
\* It has no id yet, so that only the others get a process.
WriteNewEtags ==
  /\ At("repair", "query")
  /\ LET old == Etags(records) \cap Etags(script.list)
         new == Only(script.list, {f \in ToSet(script.list) : f.etag \notin old})
     IN /\ csv' = IF new = <<>> THEN csv ELSE NoCsv
        /\ script' = [script EXCEPT !.step = "ids", !.known = old, !.rows = new]
  /\ UNCHANGED <<catalogue, csvProcesses, covered, runs>>

\* GetIDsByEtags and GetByIDs: the records with these etags, whatever their repository.
RecordsOfEtags(etags) == {k \in RecordIds : records[k].etag \in etags}

SelectRecords ==
  /\ At("repair", "ids")
  /\ IF script.known = {} THEN Exit /\ FlushRows
     ELSE /\ script' = [script EXCEPT !.step = "offsets", !.known = {},
                                      !.list = SetToSeq(RecordsOfEtags(script.known))]
          /\ UNCHANGED csv
  /\ UNCHANGED <<catalogue, csvProcesses, covered, runs>>

\* What a script takes for the offset of record k on the node, that is, whether it is the
\* whole file: 0 after any error.
Offset(k, error) == ~error /\ ContentOf(records[k]) \in held[Node]

\* The node is asked for one record after the other.
RepairOffset ==
  /\ At("repair", "offsets")
  /\ script.at < Len(script.list)
  /\ \E error \in BOOLEAN :
        LET k == script.list[script.at + 1]
        IN  script' = [script EXCEPT !.at = @ + 1,
                                     !.results = @ \cup {Process(k, Node, Offset(k, error))}]
  /\ UNCHANGED <<catalogue, csv, csvProcesses, covered, runs>>

\* ExistRecordIDs: the records that have a process on the node already.
WithProcess(ids) == {k \in ids : \E p \in ProcessesOf(Node) : p.record = k}

\* Fault: the new rows, which have no id yet, are not left out.
WriteRepairProcesses_NewToo ==
  /\ At("repair", "offsets") /\ script.at = Len(script.list)
  /\ csvProcesses' = script.results \cup {Process(0, Node, FALSE)}
  /\ Exit /\ FlushRows
  /\ UNCHANGED <<catalogue, covered, runs>>

WriteRepairProcesses ==
  /\ At("repair", "offsets") /\ script.at = Len(script.list)
  /\ LET old == WithProcess(ToSet(script.list))
         new == {p \in script.results : p.record \notin old}
     IN csvProcesses' = IF new = {} THEN csvProcesses ELSE new
  /\ Exit /\ FlushRows
  /\ UNCHANGED <<catalogue, covered, runs>>
-----------------------------------------------------------------------------
(* process_import: processes for the records with the etags on disk. *)

StartProcessImport ==
  /\ ProcessEtags # <<>>
  /\ Run("process_import", "query", ProcessEtags, {})
  /\ UNCHANGED <<catalogue, csv, csvProcesses, covered>>

\* BatchQueryByEtags
QueryEtags ==
  /\ At("process_import", "query")
  /\ LET ids == script.known \cup RecordsOfEtags(ToSet(Batch))
     IN IF IsLast /\ ids = {} THEN Exit
        ELSE script' = [script EXCEPT !.known = IF IsLast THEN {} ELSE ids,
                                      !.at = IF IsLast THEN 0 ELSE @ + BatchSize,
                                      !.list = IF IsLast THEN SetToSeq(ids) ELSE @,
                                      !.step = IF IsLast THEN "offsets" ELSE @]
  /\ UNCHANGED <<catalogue, csv, csvProcesses, covered, runs>>

\* The goroutines ask for the offsets in any order.
FetchOffset(k) ==
  /\ At("process_import", "offsets")
  /\ k \in ToSet(script.list) /\ \A p \in script.results : p.record # k
  /\ \E error \in BOOLEAN :
        script' = [script EXCEPT !.results = @ \cup {Process(k, Node, Offset(k, error))}]
  /\ UNCHANGED <<catalogue, csv, csvProcesses, covered, runs>>

\* The channel of results is closed after the last of them.
OffsetsDone ==
  /\ At("process_import", "offsets")
  /\ Cardinality(script.results) = Len(script.list)
  /\ script' = [script EXCEPT !.step = "exists"]
  /\ UNCHANGED <<catalogue, csv, csvProcesses, covered, runs>>

ExistProcesses ==
  /\ At("process_import", "exists")
  /\ Query(WithProcess(ToSet(Batch)), "write")
  /\ UNCHANGED <<catalogue, csv, csvProcesses, covered, runs>>

WriteProcesses ==
  /\ At("process_import", "write")
  /\ LET new == {p \in script.results : p.record \notin script.known}
     IN csvProcesses' = IF new = {} THEN csvProcesses ELSE new
  /\ Exit
  /\ UNCHANGED <<catalogue, csv, covered, runs>>
-----------------------------------------------------------------------------
(* avatar_import: the organizations of the records that have no row yet. *)

StartAvatarImport ==
  /\ records # <<>>
  /\ ~KnownLogo
  /\ Run("avatar_import", "insert", <<>>, {})
  /\ UNCHANGED <<catalogue, csv, csvProcesses, covered>>

\* The row is inserted whatever was inserted since; a failure skips the organization.
InsertAvatar ==
  /\ At("avatar_import", "insert")
  /\ SaveLogo("script") \/ UNCHANGED logo
  /\ Exit
  /\ UNCHANGED <<tables, repository, registrar, csv, csvProcesses, covered, runs>>
-----------------------------------------------------------------------------
(* LOAD DATA, by hand and at any time.  Nothing on the tables refuses a second row. *)

LoadRecords ==
  /\ csv # NoCsv
  /\ Len(records) + Len(csv.rows) <= MaxRecords
  /\ records' = records \o csv.rows
  /\ covered' = covered \cup csv.found
  /\ csv' = NoCsv
  /\ UNCHANGED <<processes, held, repository, registrar, logo,
                 script, csvProcesses, runs>>

LoadProcesses ==
  /\ csvProcesses # {}
  /\ processes' = processes \cup csvProcesses
  /\ csvProcesses' = {}
  /\ UNCHANGED <<records, held, repository, registrar, logo,
                 script, csv, covered, runs>>

ScriptNext ==
  \/ ScriptFails
  \/ StartModelImport \/ ExistRecords \/ WriteNewRecords
  \/ StartRepair \/ WriteNewEtags \/ SelectRecords \/ RepairOffset \/ WriteRepairProcesses
  \/ StartProcessImport \/ QueryEtags \/ OffsetsDone \/ ExistProcesses \/ WriteProcesses
  \/ \E k \in RecordIds : FetchOffset(k)
  \/ StartAvatarImport \/ InsertAvatar
  \/ LoadRecords \/ LoadProcesses

Next == (CatalogueNext /\ UNCHANGED scripts) \/ ScriptNext

Spec == Init /\ [][Next]_vars /\ WF_registrar(RegistrarStep /\ UNCHANGED scripts)
-----------------------------------------------------------------------------
\* Tables and rows hold values of their kind; a process belongs to a record, and a script
\* that runs is at one of its steps.
TypeOK ==
  /\ records \in Seq(Rows) /\ Len(records) <= MaxRecords
  /\ processes \subseteq [record : RecordIds, instance : Instances, whole : BOOLEAN]
  /\ csvProcesses \subseteq [record : RecordIds, instance : {Node}, whole : BOOLEAN]
  /\ held \in [Instances -> SUBSET Contents]
  /\ repository \in [Places -> BOOLEAN]
  /\ registrar.step \in {"idle", "page", "person", "download", "insert", "save"}
  /\ script = NoScript <=> script.step = "idle"

\* A repository registered through verification was cached: each file of its snapshot that
\* is not empty was once on the node's disk to its last byte, whoever wrote the rows that
\* say so, scheduler or scripts, for this node or another, and whatever their sizes have lost.
VerifiedWasHeld ==
  \A i \in Persisted, r \in Repositories :
     repository[<<i, r>>] =>
        \A s \in Snapshot[r] :
           s.empty \/ [repo |-> r, etag |-> IF s.lfs = NoLfs THEN s.oid ELSE s.lfs] \in held[i]

\* model_import gives no second row to a record that was there when it began, in whichever
\* batch it asked for it.
ImportAddsOnlyNew ==
  [][At("model_import", "write") /\ csv' # csv => ToSet(csv'.rows) \cap script.seen = {}]_vars

\* After its CSV is loaded, each file that model_import found has a record with its content,
\* and with its path, organization and repository as far as dashes tell them apart.  (The
\* data type may be another: see ImportKey; and so may the size: see CutRow.)
ImportLosesNoFile ==
  \A f \in covered : \E k \in RecordIds :
     records[k].etag = f.etag /\ Dashed(records[k]) = Dashed(f)

\* However often repositories of it are registered, the scheduler inserts an organization
\* once at most, with avatar_import beside it; and so does the script.
LogoOncePerWriter == \A w \in Writers : logo[w] <= 1

\* Every registration ends and gives persistSync back, however many optional columns the
\* schema cannot take.
RegistrationReturns == registrar.step # "idle" ~> registrar.step = "idle"
=============================================================================
