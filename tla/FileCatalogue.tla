---------------------------- MODULE FileCatalogue ----------------------------
(***************************************************************************)
(* What the tables model_file_record and model_file_process say of the     *)
(* files of a node, and the registration of a repository whose snapshot    *)
(* they say is complete: PersistRepo of internal/dao, with the identity of *)
(* the snapshot's files, their verification, the logo of the organization  *)
(* and the transaction that writes the row.                                *)
(*                                                                         *)
(* FileScheduler has the concurrency of the writers of the two tables, and *)
(* CacheJob which commit is registered; here the offset of a process is    *)
(* abstracted to whether it is the size of its file, upstream has one      *)
(* snapshot of a repository, and verification is not switched off.         *)
(***************************************************************************)
EXTENDS Naturals, Sequences, SequencesExt, FiniteSetsExt

CONSTANTS Instances,   \* instance ids
          Persisted,   \* those whose repositories are registered (InstanceIds of a request)
          Files,       \* [repo : [type, name], name, etag]: the files there are
          CutEtag,     \* an etag of which the end, or all, is missing
          Snapshot,    \* upstream: a function from repositories to the files of their snapshot
          NoLfs,       \* the file is not stored by LFS
          Narrow,      \* columns of the schema that are too small for the metadata
          MaxRecords   \* bound: rows of model_file_record

\* A file of a snapshot has a git object and, when LFS holds it, the object of its content.
ASSUME CatalogueAssumption ==
  /\ MaxRecords \in Nat /\ Persisted \subseteq Instances
  /\ Narrow \subseteq {"pipeline_tag_id", "tags"}
  /\ \A f \in Files : f.etag # CutEtag
  /\ \A r \in DOMAIN Snapshot : \A s \in Snapshot[r] : DOMAIN s = {"name", "oid", "lfs", "empty"}

\* A file that LFS holds is downloaded, and recorded, by the object of its content: no record
\* is of the pointer to it.
ASSUME ContentAssumption ==
  \A r \in DOMAIN Snapshot : \A s \in Snapshot[r] :
     s.lfs # NoLfs => [repo |-> r, name |-> s.name, etag |-> s.oid] \notin Files

VARIABLES records,     \* model_file_record: its rows by id, of any writer
          processes,   \* model_file_process: [record, instance, whole], equal rows are one;
                       \* whole: the offset is the size of the file
          held,        \* external: the contents each node has, or once had, completely on disk
          repository,  \* whether there is a row of the node and repository
          registrar,   \* the registration that holds persistSync
          logo         \* organization: rows of the organization, by who inserted them

tables    == <<records, processes, held>>
catalogue == <<tables, repository, registrar, logo>>

RecordIds    == DOMAIN records
Repositories == DOMAIN Snapshot
Contents     == {[repo |-> f.repo, etag |-> f.etag] : f \in Files}
ContentOf(f) == [repo |-> f.repo, etag |-> f.etag]
Places       == Persisted \X Repositories
Waiting      == [step |-> "idle"]
Writers      == {"scheduler", "script"}
Optional     == {"pipeline_tag_id", "tags"}

CatalogueInit ==
  /\ records = <<>> /\ processes = {}
  /\ held = [i \in Instances |-> {}]
  /\ repository = [q \in Places |-> FALSE]
  /\ registrar = Waiting
  /\ logo = [w \in Writers |-> 0]
-----------------------------------------------------------------------------
(* The tables. *)

\* Rows of model_file_record: a file stands for a row that describes it, with its size.  Of
\* others a script has lost the end: of the size, which is then no file's, or of more.
CutRow(f, etag) == [repo |-> f.repo, name |-> f.name, etag |-> etag, size |-> "cut"]
CutRows(f)      == {CutRow(f, f.etag), CutRow(f, CutEtag)}
Rows            == Files \cup UNION {CutRows(f) : f \in Files}

\* What queries for a file compare; they leave the size out.
SameFile(x, f) == x.repo = f.repo /\ x.name = f.name /\ x.etag = f.etag

IdsOf(f)        == {k \in RecordIds : SameFile(records[k], f)}
ProcessesOf(i)  == {p \in processes : p.instance = i}
Process(k, i, w) == [record |-> k, instance |-> i, whole |-> w]

\* A node starts to download a file: the scheduler finds or makes its record and process.
Transfer(i, f) ==
  /\ records' = IF IdsOf(f) # {} THEN records ELSE Append(records, f)
  /\ Len(records') <= MaxRecords
  /\ LET k == Min({j \in DOMAIN records' : SameFile(records'[j], f)})
     IN  /\ ~\E p \in ProcessesOf(i) : p.record = k
         /\ processes' = processes \cup {Process(k, i, FALSE)}
  /\ UNCHANGED <<held, repository, registrar, logo>>

\* External: a content is on the node's disk to its last byte.
Fetch(i, c) ==
  /\ c \notin held[i]
  /\ held' = [held EXCEPT ![i] = @ \cup {c}]
  /\ UNCHANGED <<records, processes, repository, registrar, logo>>

\* The node reports the last block of a file it has.
ReportWhole(p) ==
  /\ ContentOf(records[p.record]) \in held[p.instance]
  /\ processes' = (processes \ {p}) \cup {[p EXCEPT !.whole = TRUE]}
  /\ UNCHANGED <<records, held, repository, registrar, logo>>

\* The records of the repository that have the etag, the name, or both, as they are given.
GetIDsByEtagsOrFields(f, given) ==
  {k \in RecordIds : records[k].repo = f.repo /\ \A x \in given : records[k][x] = f[x]}

\* The processes of these records on the node, and the row of the repository.
DeleteByEtagsAndFields(i, f) ==
  /\ \E ids \in {GetIDsByEtagsOrFields(f, given) : given \in {{"etag"}, {"name"}, {"etag", "name"}}} :
        processes' = {p \in processes : p.instance # i \/ p.record \notin ids}
  /\ repository' = [q \in Places |-> repository[q] /\ q # <<i, f.repo>>]
  /\ UNCHANGED <<records, held, registrar, logo>>
-----------------------------------------------------------------------------
(* The identity of the files of a snapshot: resolveFileIdentities.           *)

File(r, s, oid) == [repo |-> r, name |-> s.name, etag |-> oid]

\* The metadata give a git object with its size and perhaps the LFS object, or neither; then
\* the tree at the commit gives both.  Where an LFS object is shown it is the content.
Identities(r, s) ==
  {File(r, s, s.oid)} \cup (IF s.lfs = NoLfs THEN {} ELSE {File(r, s, s.lfs)})

\* The rows of verifyRepoComplete's query: records whose process on the node is at their size,
\* which of one that was cut is an offset that any process of it may have come to.
Cached(i) ==
  {records[p.record] : p \in {q \in ProcessesOf(i) : q.whole \/ records[q.record] \notin Files}}

\* Fault: the size of a record is not compared with that of the snapshot's file.
VerifyRepoComplete_AnySize(i, r) ==
  \A s \in Snapshot[r] :
     s.empty \/ \E f \in Identities(r, s), x \in Cached(i) : SameFile(x, f)

\* Empty files are never scheduled and need no row.  A file that neither the metadata nor the
\* tree identify, or one that is not cached with its name, etag and size, fails the registration.
VerifyRepoComplete(i, r) ==
  \A s \in Snapshot[r] : s.empty \/ Identities(r, s) \cap Cached(i) # {}
-----------------------------------------------------------------------------
(* PersistRepo: registrations exclude each other (persistSync). *)

\* Fault: what the cache does not have is not looked up in the table.
KnownLogo_CacheOnly == FALSE

\* GetOrganization: a row exists.  The cache is filled from the table, which loses no row.
KnownLogo == \E w \in Writers : logo[w] > 0

\* GetFreeRepository: some process on the node, and no row yet.
Free(i, r) ==
  /\ ~repository[<<i, r>>]
  /\ \E p \in ProcessesOf(i) : records[p.record].repo = r

\* The repository is free, or named with a commit, and its snapshot is cached; then
\* PersistOrgLogo looks for the logo of its organization.
PersistRepo(i, r) ==
  /\ registrar = Waiting
  /\ \E pinned \in BOOLEAN : pinned \/ Free(i, r)
  /\ VerifyRepoComplete(i, r)
  /\ registrar' = [step |-> IF KnownLogo THEN "save" ELSE "page",
                   instance |-> i, repo |-> r, columns |-> Optional]
  /\ UNCHANGED <<tables, repository, logo>>

\* SaveOrgBySql
SaveLogo(w) == logo' = [logo EXCEPT ![w] = @ + 1]

\* One step of PersistOrgLogo, with persistSync held; an error ends it and is only logged.
LogoStep(from, to) ==
  /\ registrar.step = from
  /\ registrar' = [registrar EXCEPT !.step = to]
  /\ UNCHANGED <<tables, repository>>

\* The picture of the organization's page, or else of a person's page of that name.
FetchAvatarURL ==
  /\ \E to \in {"download", "person"} : LogoStep("page", to)
  /\ UNCHANGED logo

FetchPersonAvatarURL ==
  /\ \E to \in {"download", "save"} : LogoStep("person", to)
  /\ UNCHANGED logo

\* It is fetched into a file of that name, which is uploaded and removed.
DownloadAvatar ==
  /\ \E to \in {"insert", "save"} : LogoStep("download", to)
  /\ UNCHANGED logo

\* The row is inserted, whether or not another writer did so since the lookup.
InsertLogo ==
  /\ LogoStep("insert", "save")
  /\ SaveLogo("scheduler") \/ UNCHANGED logo

\* The first optional column that cannot hold its value: the row comes before its tags.
TooSmall ==
  CASE "pipeline_tag_id" \in registrar.columns \cap Narrow -> {"pipeline_tag_id"}
    [] "tags" \in registrar.columns \cap Narrow            -> {"tags"}
    [] OTHER                                               -> {}

\* Fault: the value that the column cannot hold is not given up.
SaveWithout_Keep ==
  /\ registrar.step = "save"
  /\ TooSmall # {}
  /\ UNCHANGED catalogue

\* saveRemoteRepositoryMetadata: an optional column is too small for its value; the
\* transaction was rolled back and is tried again without the value.
SaveWithout ==
  /\ registrar.step = "save"
  /\ TooSmall # {}
  /\ registrar' = [registrar EXCEPT !.columns = @ \ TooSmall]
  /\ UNCHANGED <<tables, repository, logo>>

\* RepoAndTagSave writes or updates the row and its tags in one transaction, or fails.
Save ==
  /\ registrar.step = "save"
  /\ TooSmall = {}
  /\ repository' \in
        {repository, [repository EXCEPT ![<<registrar.instance, registrar.repo>>] = TRUE]}
  /\ registrar' = Waiting
  /\ UNCHANGED <<tables, logo>>

RegistrarStep ==
  FetchAvatarURL \/ FetchPersonAvatarURL \/ DownloadAvatar \/ InsertLogo \/ SaveWithout \/ Save

CatalogueNext ==
  \/ \E i \in Instances, f \in Files : Transfer(i, f) \/ DeleteByEtagsAndFields(i, f)
  \/ \E i \in Instances, c \in Contents : Fetch(i, c)
  \/ \E p \in processes : ReportWhole(p)
  \/ \E i \in Persisted, r \in Repositories : PersistRepo(i, r)
  \/ RegistrarStep
=============================================================================
