# TLA+ models of dingoscheduler

dingoscheduler is the central scheduler of a fleet of *Speed* cache nodes. It knows
which nodes live, which files and repositories they hold, tells a node from which other
node to download a file, follows cache jobs, registers finished repositories, keeps the
inventory that nodes upload, and versions the official revisions of repositories. It is one
Go process over a relational database (DingoDB, MySQL in tests); what it keeps in memory
is an id cache, a health map, a few locks and retry goroutines, and all of it is lost at a
restart.

This directory holds models of the parts of the scheduler in which actors meet: TLA+
modules, TLC runs of small instances, and proofs that TLAPS checks. `PROJECT.json`
lists components, runs, the lines of code each definition models, the hazards, the
mutations that show that each property can fail, findings and theorems.

    tlc -config MC_CacheJob.cfg MC_CacheJob      # a run
    tlapm FileScheduler_proofs.tla               # the proofs of a module

## 1. Inventory

| Component (code) | State | Operations | What is hard, and what makes it correct |
|---|---|---|---|
| Uploaded inventory: `internal/dao/upload_report.go`, `ingest_dao.go`, `internal/service/upload_report.go` | Tables `upload_report_nodes` (epoch, pending epoch, baseline digest, status), `upload_report_repos` (sequence and digest per repository), `upload_inventory_file`, `upload_inventory_holding`, `upload_inventory_state` | `UploadReportSession`, `ApplyUploadReport` (baseline or repository), `UploadReconcileProgress`, `ApplyUploadedInventory` (v1), readers | Reports repeated, late, reordered, from older epochs; file rows shared by nodes and swept; v1 snapshots after v2. Readers must see what the reports in force say. |
| Delivery of reconciliation tasks: `internal/service/upload_report.go`, `internal/handler/upload_report.go` | `inventoryDeliveries`: retry goroutines by (node, epoch) | `ReconcileUploadInventory`, `retryInventoryDelivery`, `resumeInventoryReconciles` | Lost POSTs and answers, restarts. A committed task must reach its node. |
| File scheduler: `internal/service/scheduler_service.go`, `ctx_mutex.go`, `ingest_service.go`, `model_file_process_dao.go`, `model_file_record_dao.go` | Tables `model_file_record`, `model_file_process`; the lock `writeMu` | gRPC `SchedulerFile`, `SingleFileProcess`, `SyncFileProcess`, `ReportFileProcess`, `DeleteByEtagsAndFields`, `IngestRepository` | No unique key on the tables; one RPC takes no lock; callers are cancelled, and one holds the lock while it waits for a node. One record per file, one row per node, no partial file called downloaded, no caller stuck. |
| Cache jobs and registration: `cache_job_service.go`, `cache_job_dao.go`, `scheduler_service.go`, `repository_dao.go`, `mamager_service.go`, `sys_service.go` | Tables `cache_job`, `repository`; mutex `persistSync`; per-job lock with a time to live | Operators: stop, resume, delete; Speed: create, report; cron and API: persist | No transaction over the statements of a handler, late reports, retries. A finished job is not reopened, an older commit does not replace a newer one, a completion is not forgotten. |
| Official revisions: `internal/authority/service.go` | Tables `official_revision`, `official_revision_receipt` | `commit`; readers | Optimistic versions, idempotent requests, ambiguous commits. Each version has one request; answers are true. |
| Node registration: `scheduler_service.go`, `dingospeed_dao.go`, `node_health_dao.go`, `node_endpoint.go`, `sync_sources.go` | Tables `dingospeed`, `node_endpoints`; id cache per mode; `health` map | `Register`, `Heartbeat`, endpoint choice | Overlapping registrations, process replacement, mode switches. Health is not inherited, requests go to the running process. |
| Repository mounting: `repository_service.go`, `repository_dao.go`, `mamager_service.go` | Mount status of a `repository` row | `MountRepository`, `UpdateRepositoryMountStatus`, `ExecWaitTask` | A guard on a column the query does not select, late reports, rows deleted and registered again meanwhile. What is shown as mounted was mounted. |
| Health presentation: `pkg/nodehealth`, `node_health_dao.go` | `dingospeed.updated_at`, the `health` map | `Heartbeat`, `ListNodeHealth` (`Encode`, `Present`) | Two clocks, delayed and abandoned requests, an UPDATE whose answer is lost. What is shown healthy is recent; a node in touch is not shown as disconnected. |
| Repository identity: `pkg/repository/key.go` | none | `FromWire`, `Storage`, `Validate`, `OperationURI` | Three namespaces in coordinates made for one. The conversion loses nothing. |
| Completeness and registration: `repository_dao.go`, `remote_file_identity.go`, `remote_repository_metadata.go`, `organization_dao.go`, `pkg/util/avatar_util.go` | reads the record and process tables, writes `repository`, its tags and `organization` | `verifyRepoComplete`, `PersistOrgLogo`, `RepoAndTagSave` | Identities of two kinds, rows of many writers, a narrow schema. A registered repository was on disk. |
| Import scripts: `model_import`, `process_import`, `repair`, `data_import` | CSV files that are loaded by hand | one-shot programs beside the scheduler | Batches, tables that change before a file is loaded, lookups by etag alone. Nothing is recorded twice or lost. |
| Process: `cmd/main.go`, `wire_gen.go`, `pkg/app`, `internal/server`, `sys_service.go` | servers, signal goroutine | start, repair, stop, crash | What a dead process left behind; a shutdown that meets a server that has not begun. |
| HTTP/gRPC front ends, Speed and upstream clients, catalogue data, database adapter, unused utilities, `tag_import` | | | Not modelled, or in part; `PROJECT.json` gives the reason of each. |

Interactions. Speed calls the scheduler by gRPC (registration, heartbeat, scheduling,
processes, cache jobs) and by HTTP (inventory reports); the scheduler calls Speed by HTTP
(stop, resume, reconcile, metadata, official files). Operators use HTTP. Components meet
in tables: registration picks the ids and endpoints that delivery, mounts and cache jobs
use; the rows of the file scheduler and of the import scripts are what completeness compares;
deleting a file's processes also drops the repository row that cache jobs registered and
operators mount.

Every hazard is listed at its line in `PROJECT.json` with the properties that cover it, or
why none does.

## 2. Modules

### UploadLedger, UploadInventory, ReconcileDelivery

`UploadLedger` is what the inventory promises: for each node an epoch, for each of its
repositories a sequence and the content last reported. A baseline of a newer epoch sets all
of it, a repository report with a higher sequence sets its repository, a v1 snapshot counts
only before the first baseline.

`UploadInventory` is the code. A transaction is one action, because `lockReportNode` takes
the node's row `FOR UPDATE` until the commit; transactions of two nodes meet only in the
shared file rows, which `INSERT ... ON DUPLICATE KEY` locks. A failed transaction leaves
nothing behind and is a stuttering step. The network is the set of all reports that
pass `validateReport`: any may come, at any time, any number of times.

| TLA+ | Code |
|---|---|
| `reportNode[n]` | row of `upload_report_nodes`; `NoEpoch` is the empty string |
| `reportRepo[n][r]` | row of `upload_report_repos`; `NoWatermark` is no row |
| `fileSize[f]`, `holding[n]`, `state[n]` | `upload_inventory_file`, `_holding`, `_state` |
| `UploadReportSession(n, explicit)` | a node's session request, or an operator's reconciliation |
| `ApplyBaseline`, `ApplyRepoReport`, `RepeatReport` | `ApplyUploadReport`: accepted, and answered `confirmed`/`obsolete` |
| `ApplyCompleteSnapshot`, `ApplyIncompleteSnapshot` | `ApplyUploadedInventory` |

A digest is modelled by the content it stands for (no collision), an epoch (a UUID) by the
order in which it was issued, a v1 epoch by its start time.

`ReconcileDelivery` EXTENDS it with the handler, the goroutines, startup and the node. The
node is external: it keeps tasks it was told, may lose them, and answers any of them at any
time. That a POST goes to the right endpoint is assumed here and examined in
`NodeRegistry`.

### FileProgress, FileScheduler

`FileProgress` is what the scheduler promises of downloads: a register for each file and node
with how far the download is and its status. An assignment starts it or takes it back, a report
moves it on, a break keeps its place; each of these happens at once, on one register. A deletion
forgets, at once too, all registers of one node whose files have the etag, the name or both
that it gives. `FileScheduler` is the code; `Downloads` reads the registers off its rows.

`queue` is `writeMu`: a channel with one slot, whose blocked senders Go serves in order.
`SchedulerFile` and `SingleFileProcess` read in `Decide` / `FindProcess` and write in
`Assign` / `StoreReport`; `ReportFileProcess` is one UPDATE that needs no lock, so it falls
between. `Abandon` says where a cancelled caller leaves: in the queue, right after it got
the lock, or in the record query, the only one that takes its context. The queries and writes
after it (`scheduler_service.go:239`, `:279`, and those of the other RPCs) take none and are
assumed to return, with or without an error. `IngestRepository`
holds the lock while it pulls a node's snapshot, which takes the context too; what the snapshot
changes is in `UploadInventory`. `SyncFileProcess`
calls `SingleFileProcess` in a loop and needs no action of its own. Offsets are counted in
blocks. Which nodes are alive is chosen freely at each decision (`getOptimumSpeed`); a host
that fails validation is a `Fail`. The records' uniqueness is the locks' work, the tables
have no unique key for it. Speed reports "downloaded" only with the last block; that is the
one thing assumed of a report.

### CacheJob

Each statement of a handler is an action, since no handler runs in a transaction. The
per-job lock lives 60 seconds in a cache, less than a request to Speed may take, so the
model lets handlers of one job overlap. `persistSync` is a real mutex. Fetching and
comparing metadata is the choice between `SaveRepo` and `SaveFails`. `owed` is the
completion Speed keeps until it is acknowledged, `settled` records that an acknowledged job
has stayed complete; both are history and no action of the scheduler reads them.
`PersistFreeRepo` is the cron job and an API call without a commit, for a repository without a
row. `PersistNamedCommit` is `POST /api/persistRepo` with a commit
(`docs/modelscope-parity.md:41`): it is registered over a row there may be, and no newer job is
looked for, since `CompletedJobID` is not set. `NoStaleRegistration` excepts what it saves. A job
without a commit (`pinned` false) cannot be registered by its completion. What verification
looks at is in `FileCatalogue`. `NoRepo`, `Unpinned` (that of no job) or a job id is the commit
`repository` has.

### OfficialHistory, Authority

`OfficialHistory` is a sequence of versions: a request is accepted at once or not at all.
`Authority` takes the steps of `commit`: look the receipt up, read the definition,
apply and validate, write definition and receipt in one transaction, and, after an error,
look the receipt up again, because a commit whose answer was lost may have happened. The
write checks the version (the primary key when there is no row yet) and the receipt's
primary key. A change maps each path to a content, `NoFile` (delete) or `Keep`. A source
is a node that is read over HTTP and may refuse the commit: `SourceFails`.

### NodeRegistry

One instance and the processes it runs one after another. The number of a process stands
for its URL and for its health reports. `recency` is the order of ids by `updated_at`, a set of
pairs (`Touched` puts an id last); `cache` is
`GetEntity`'s cache entry of each mode. `standing` is history: whether the running process
registered when no request of an earlier one was under way, and has sent a heartbeat since.
Without it no property of "the running process" could hold, since a request that hangs for
long is applied late in any design.

Assumed: a process takes longer to start than `updated_at` resolves (ties are not
modelled); the INSERT leaves `updated_at` to a default that is now or null, the DDL is not
in the repository. `Fail` is an error, with or without the UPDATE's effect. Host and port
are left out.

### NodeHealth

Where `NodeRegistry` tells processes apart, `NodeHealth` has time. `Present` is split into
`MaxAge`, `Communication`, `Fresh` and `CapabilityStatus`; `received` is `updated_at`,
`report` the map's entry of the node, `stored` the time at which the two were last written
together (history). The node observes a capability, sends one request at a time every
`Period`, and gives it up after `MaxDelay` at most; a handler that has begun then may still
write, with the time it took before it waited for `healthMu`. `UpdateFails` is an error of
the UPDATE, with or without its effect. A report carries the node's times, `Skew` ahead.
`missed` counts requests that failed in a row (history). Timestamps of a snapshot are whole
seconds in the code; the unit of the model is that or coarser.

### FileCatalogue, ImportScripts

`FileCatalogue` is the two tables as their readers see them, without the lock of
`FileScheduler`: a process either covers its file (`whole`) or not. `held` is the truth about
the node's disk and external. `PersistRepo` holds `persistSync` from the verification to the
transaction: `Identities` are what `resolveFileIdentities` finds for a file of the snapshot,
the git object and, for LFS files, the content; `VerifyRepoComplete` compares them with
`Cached`. Then the logo is looked for (`FetchAvatarURL`, `FetchPersonAvatarURL`,
`DownloadAvatar`, `InsertLogo`; every error goes on to the transaction) and the row is saved,
without one optional column more at each attempt (`SaveWithout`).

`ImportScripts` adds the programs an operator runs beside the scheduler, one at a time. They
walk `Disk`, a sequence of directory entries whose paths are split at slashes and dashes,
because the key by which `model_import` compares (`%s-%s-%s-%s`) is ambiguous there
(`Dashed`). They query in batches, ask the node for offsets (0 after an error), and write CSV
files; loading one is an action of its own, at any later time. `Only` keeps of a sequence what
is in a set, in its order: the filters of the code's loops. Two assumptions on the constants say
what files are: `DiskAssumption`, that what the walk takes up is of a file, and
`ContentAssumption`, that no record has the identity of an LFS pointer (the OID of the LFS object
"identifies the downloadable content used by Scheduler's file records",
`remote_file_identity.go:87`). `script.seen`, `csv.found` and
`covered` are history.

A failing query ends a program where it is, without a flush (`ScriptFails`). Repair's rows have
gone through a buffer of 4096 bytes, so that the file has as many bytes as the buffer was
written with and may end within a row (`Flushed`). LOAD DATA then takes a row that has lost the end
of its size, or its size and the end or all of its etag (`CutRow`); one that has
lost more, of its name or repository, differs from the second for no reader but
`avatar_import`, which could see one more organization. That a strict `sql_mode` refuses such a row
is the case in which `LoadRecords` never happens. A cut size is no file's: it is shorter than that
of the file with this etag. What offset a process of a cut row may have come to is left open, so it may
equal the cut size (`Cached`); the comparison with the snapshot's size is what keeps such a row out.
A row with a whole etag keeps `repair` from ever adding the right one.

### RepositoryMount, SchedulerProcess

`RepositoryMount` extends `CacheJob`: the row of `repository` gets an id (`row`; a new row has
the next) and a mount status. `MountRepository` lets every request pass, as its query does not
select the status that the guard reads. Speed's reports about a mount name the row's id, and
come also when the row is gone. `mounted` is history.

`SchedulerProcess` puts the process around it. `Boot` and `RepairJobs` are `wireApp` (the cron
job of registration runs already), `RepairMounts` its end; then both servers and the signal
goroutine run in an errgroup. Requests need their server; a handler that has begun
(`HandlersRun`) goes on until the process is gone. `App.Stop` cancels the context and then
hands that context to the shutdown, which therefore does not wait. `excused` is history.

### RepositoryKey

Paths are sequences of segments. `Storage` and `FromWire` convert between keys and the
coordinates of SQL and RPC; the theorems say that the first is undone by the second.
`OperationURI` is a text: a sequence of symbols in which separators, fixed words and escaped
parts follow one another, so that where one part ends is to be proved and not given. `PathEscape`
and `QueryEscape` are any functions that satisfy `Escaping`: of `net/url` it is assumed that different
texts are escaped differently, that no slash is left in a path segment, and no `&` in a parameter.
(`PathEscape` does leave `&`, `=` and `+`.) The module has no state and no run. (Coordinates that were never stored may read alike: org
`dingo-local/huggingface` with repository `a/b` reads as the key of `a`, `b`.)

### Order and composition

`UploadInventory` implements `UploadLedger` (INSTANCE with a refinement mapping),
`Authority` implements `OfficialHistory`, and `FileScheduler` implements
`FileProgress`. `ReconcileDelivery` extends `UploadInventory`,
`RepositoryMount` `CacheJob`, `SchedulerProcess` `RepositoryMount`, `ImportScripts`
`FileCatalogue`, and they reuse its actions. The `MC_*` modules give the constants their values.

## 3. Runs

| Run | Shows | Bounds, and why they are enough |
|---|---|---|
| `upload_inventory` (280,826 states) | `TypeOK`, `HoldingsMatchReports`, `NoDanglingHolding`, `StatusMatchesPending`, `ReconcileNotPreempted`, `ImplementsLedger` | 2 nodes, 2 repositories with a file each, 2 sizes, 2 epochs, 2 sequences, 1 v1 snapshot number. Two of each is what reordering, a stale epoch, a size conflict, a file shared by nodes, and a report that must leave the other repository alone need. The theorems cover the rest. |
| `reconcile_delivery` (7,275) | `TypeOKDelivery`, `PendingIsPursued`, `TaskReachesNode` | One node, two epochs: a stale delivery meets a task that is over or one that replaced it. What reports contain does not matter, so one file. |
| `file_scheduler` (272,223) | `TypeOK`, `NoDuplicates`, `ReadStaysValid`, `DownloadedIsWhole`, `ImplementsProgress`, `EveryCallReturns` | Two nodes, two files of a repository with the same content and two blocks, two callers, two rows ever. Two callers race, a third adds no step that two and the unlocked report do not; a deletion by etag takes rows of both files, one by name those of one, at one node of two; two rows let one be deleted and inserted again. Elsewhere files meet only in the lock. |
| `cache_job` (2,477,308) | `TypeOK`, `FinishedNotReopened`, `NoStaleRegistration` | An older and a newer job, two handlers at a time; an operator may name the commit of either, or of none. |
| `cache_job_retry` (23,144) | `CompletionAcknowledged` | One job, two handlers, no symmetry since the property is liveness. |
| `cache_job_message` | `RetryClearsPending` fails | See findings. |
| `authority` (50,341) | `TypeOK`, `NoPathConflict`, `OneRequestPerVersion`, `ImplementsHistory` | Two handlers, two paths of which one lies below the other, three request ids on bases 0 to 2: a request meets itself, its id reused and a rival. |
| `node_registry` (1,088,155) | `TypeOK`, `ModesKeepApart`, `NoInheritedHealth`, `SourceFollowsNode` | Three processes (leave a mode and come back), two handlers, two rows, the second process without an endpoint. |
| `node_registry_delivery` | `DeliveryFollowsNode` fails | One handler is enough. See findings. |
| `node_health` (1,775,432) | `TypeOK`, `HealthyIsRecent`, `NoFalseDisconnect` | Period and delay 1, window 2, disconnection at 3, skew 2, time up to 5: every age reaches its boundary, and one passes it. The theorems cover all other values. |
| `import_scripts` (1,402,464) | `TypeOK`, `VerifiedWasHeld`, `ImportLosesNoFile`, `LogoOncePerWriter`, `ImportAddsOnlyNew`, `RegistrationReturns` | One node, two models with a file of the same name and content, one of them stored by LFS with two revisions on disk; entries to be skipped; three candidates in batches of two; two runs of scripts and three records. A repair that meets a record of the other model, a batch that is not full, a CSV loaded after a second run, and one that ends within a row, all happen. The names do not collide under `Dashed`; if they did, one candidate would be taken for the other. Verification is on. |
| `scheduler_process` (2,773,907) | `MountedByReport`, `StoppingIsOfThisProcess`, `SignalEnds` | One job, one handler, one mounter, a row that is deleted and registered again once. |

No run turns the deadlock check off. The bounds are in the guards: `MaxEpoch`,
`MaxLegacyEpoch`, `MaxLegacySeq`, `MaxSeq`, `MaxRows`, `MaxJobs`, `MaxProcesses`,
`MaxRequests`, `MaxTime`, `MaxRecords`, `MaxRuns`; in
`Authority` the request set itself bounds the versions.

Each property of a passing run has a mutation of a modelled definition, in the module right
before the definition it replaces (comment "Fault:"), for which TLC finds it violated.

### Fairness

- `ReconcileDelivery`: goroutines and handlers run on (weak fairness). A node without a
  session asks again until it is answered, and a POST that is repeated for ever succeeds once
  (strong fairness of `Connect`, `RetrySucceeds`): the code retries without limit, and only
  an unreachable node makes that vain. Operators, restarts and what the node does with a
  task are not fair. `TaskReachesNode` allows for a process that restarts for ever.
- `FileScheduler`: RPC clients have deadlines (`Cancel`), a cancelled caller goes on
  (`Abandon`), and a handler's statements come back with or without an error (`Written` or
  `Fail`). The record query has no fairness: it may hang, and `EveryCallReturns` holds
  because it takes the caller's context.
- `CacheJob`: a handler's steps go on; Speed repeats a completion until it is acknowledged
  (it keeps its error as a reason to retry), and not every one of endlessly many attempts
  to register fails.
- `ImportScripts`: a registration goes on (`RegistrarStep`); HTTP clients have timeouts. What
  the catalogue's other writers and the operator do is open.
- `SchedulerProcess`: the goroutines of the process run on (`AppStep`); starts, signals,
  crashes and requests are open.
- The other specifications have no fairness and no liveness property.

## 4. Findings

1. `RetryClearsPending` (`cache_job_dao.go:160`). `docs/modelscope-parity.md:10` says that a
   successful retry clears the error. When Speed repeats a completion while the first handler
   still runs, the retry can succeed first; the first, failing later, writes "repository
   registration pending" over a job that is registered and acknowledged, and no retry follows
   that could clear it.
2. `DeliveryFollowsNode` (`service/upload_report.go:99`). `dao/sync_sources.go:125-126` and
   `docs/upload-inventory.md:51` say that heartbeat recency and not `MAX(id)` identifies the
   current endpoint, because ids are reused when a node switches its mode. Delivery of
   reconciliation tasks takes `MAX(id)`. After a switch and a switch back they are posted to
   an endpoint the node has left, while sync sources are right (`SourceFollowsNode`).
   `GetUploadedNodeInventoryState` (`ingest_dao.go:245`) picks by `MAX(id)` too. The node
   still gets the task at its next session request.

A remark that no run states: `dao/node_health_dao.go:14` says that report and communication
time are updated atomically. They are, against each other, under `healthMu`; but when the UPDATE
takes effect and returns an error (line 22; the request's context ended, the answer was lost),
the time is new and the report is the earlier one (`UpdateFails` in `NodeHealth`). `Present`
then ages the old evidence from the new time.

## 5. Proofs

### ReconcileDelivery_proofs

For every set of nodes, repositories, files and sizes and all bounds, from
`ConstantsAssumption` alone (files belong to repositories, an absent file is not a size, bounds
are numbers). Of the tables:

| Theorem | States |
|---|---|
| `TypeCorrect` | `Spec => []TypeOK` |
| `ReadersSeeReports` | `Spec => []HoldingsMatchReports` |
| `NoDangling` | `Spec => []NoDanglingHolding` |
| `StatusCorrect` | `Spec => []StatusMatchesPending` |
| `NotPreempted` | `Spec => ReconcileNotPreempted` |
| `Refinement` | `Spec => ImplementsLedger` |

They rest on the inductive invariant `IInv`, the conjunction of the four state invariants,
`Invariance: Spec => []IInv`. None but the first is inductive alone.
`HoldingsMatchReports` needs `NoDanglingHolding`: that a report of one node leaves what
readers see of another alone is true only if the other's files have rows already, which
`Interned` then keeps (`InternKeeps`) and the sweep does not touch (`SweepKeeps`). It also
needs the epochs ordered: a baseline that is applied must be the pending one, newer than
that in force. The refinement theorem uses `IInv` to show that each step of the tables is a
step of the ledger or a stutter; `RepoAccepted` and `Conflict` decide which.

All conjuncts of `IInv` are invariants of the run `upload_inventory`.

Of the tables with the handlers, retries, losses and restarts around them:

| Theorem | States |
|---|---|
| `DeliveryTypeCorrect` | `SpecDelivery => []TypeOKDelivery` |
| `Pursuit` | `SpecDelivery => []PendingIsPursued` |
| `TablesAsBefore` | `SpecDelivery => Spec`, the specification of `UploadInventory` |

By the last, whatever is proved of the tables holds with delivery too. The invariant
`IInvDelivery` adds to the properties that the status is about the pending epoch
(`StatusMatchesPending`) and that no epoch is above its bound, so that every pending one is
among the tasks that startup looks up.

### NodeHealth_proofs

| Theorem | States |
|---|---|
| `TypeCorrect` | `Spec => []TypeOK` |
| `ShownHealthIsRecent` | `Spec => []HealthyIsRecent` |
| `InTouchIsConnected` | `Spec => []NoFalseDisconnect` |

They hold for every window, age, period and skew, and every delay up to a period
(`NodeHealthAssumption`; a longer delay would overlap the next request). The invariant
`IInv` adds to `TypeOK`: a request was received at most `MaxDelay` after it was sent
(`RequestsInTime`), a snapshot was collected when it was sent and after what it tells of
(`SnapshotsInOrder`), so the report in the map was stored at most `MaxDelay` after it was
collected (`ReportInTime`); with `Fresh` that bounds the age of the evidence, and the skew
cancels. For the second theorem, `Scheduled` says that the node has one request outstanding
at most, and `RowInTime` how many periods old the stored time may be, by the requests
missed and outstanding: at most two and a delivery, which three periods cover. Every part
was checked as an invariant of the small instance before it was proved.

### RepositoryKey

| Theorem | States |
|---|---|
| `RoundTrip` | a storable key is read back from its coordinates |
| `StorageInjective` | keys with equal type and coordinates are equal |
| `RequestsDiffer` | two allowed requests with one URI are about the same key, operation, revision and path |

The first two by cases on the namespace; the length of a repository's path is any. Which segments
are valid and how long coordinates may be are parameters without assumptions, and only
what `Storage` accepts is claimed to come back. The third assumes `Escaping`. It cuts two equal texts
at the first slash after the type, which an escaped namespace does not have (`SamePrefix`,
`SameParts`), and the queries at each `&`, which an escaped parameter does not have; a query with a
path begins otherwise than one without (`QueriesDiffer`). If a repository or path
were written into the query as it is, with the `&` it may have, it would not hold.

### Authority_proofs

| Theorem | States |
|---|---|
| `TypeCorrect` | `Spec => []TypeOK` |
| `PathsAgree` | `Spec => []NoPathConflict` |
| `ExactlyOnce` | `Spec => []OneRequestPerVersion` |
| `Refinement` | `Spec => ImplementsHistory` |

`HandlersCurrent` is what makes it inductive: what a handler carries from its read to its write
belongs to the version that its request names, as long as that version is the current one; the
write compares versions, so what it writes follows from the definition in force. `AnswersTrue`
(clients are told what receipts say) and `ReceiptIsOne` make the second look-up after an
ambiguous commit an answer of the history.

### SchedulerProcess_proofs

Of cache jobs alone:

| Theorem | States |
|---|---|
| `TypeCorrect` | `Spec => []TypeOK` |
| `NeverStale` | `Spec => NoStaleRegistration` |
| `StaysFinished` | `Spec => FinishedNotReopened` |

The second needs `SavesNewest`: while a handler holds `persistSync` and is about to save a
commit that no operator named, no newer job is settled: a job becomes settled only through the
holder of the mutex, or through a completion that finds it free. The third is by cases over the statements that
store a status.

Of the process, with mounts, the repair at its start and crashes at any time:

| Theorem | States |
|---|---|
| `MountsAreReported` | `SystemSpec => []MountedByReport` |
| `RepairsBeforeServing` | `SystemSpec => []StoppingIsOfThisProcess` |
| `RowsStayNew` | `SystemSpec => []RowsAreNew`: the id of a repository row is never given again |
| `SystemNeverStale`, `SystemStaysFinished` | the properties of cache jobs, in the process |

To the cache jobs every step of the process is one of their own, the repair, or the end of the
process, which leaves no handler behind (`StepsOfJobs`); the latter two keep `IInv` and show no job as running
(`RepairStep`). `StepsOfMounts` says the same of the mounts. `MountedByReport` is not inductive alone: a late
report, or a mounter that has read the row, may name a row that is gone. `RowsAreNew` says that
all the ids anybody has heard of (mounters, Speed, the history of reports) are of rows there
were, and that the next row to be registered has an id none of them has. `NothingInherited` adds to
`StoppingIsOfThisProcess` where the repair stands: between its two queries the jobs are done
and the mounts are not.

### FileScheduler_proofs

| Theorem | States |
|---|---|
| `TypeCorrect` | `Spec => []TypeOK` |
| `NeverDuplicated` | `Spec => []NoDuplicates` |
| `ReadsStayValid` | `Spec => []ReadStaysValid` |
| `DownloadsWhole` | `Spec => []DownloadedIsWhole` |
| `Refinement` | `Spec => ImplementsProgress` |
| `NoOvertaking` | those before a caller in the line for the lock can only become fewer |

`LockOK` (a caller waits once; only the head of the queue is at work) gives mutual exclusion,
also when callers leave from the middle of the queue (`Leaving`). The other three are inductive
together: no duplicates because the holder's read still says that there is no row when it
inserts one; the read stays valid because only `ReportFileProcess` gets by the lock, and it
moves no row back and inserts none.

The refinement says that reading and writing in two steps, with unlocked reports between them,
is as good as one step. `OneRow` (no duplicates) lets the only row of a file at a node stand
for its register, `RowMoves` turns a change in place into a step of that register and of no other,
and `ReadStaysValid` says that what a handler writes for its file and node is still right when
it writes: the row is there or still missing, and a reset goes to a place the row has not
fallen behind, since only a reset or a deletion takes a row back and both need the lock. A deletion selects
records and the promise is about files; `OneRow` makes the rows of the records it selects
the registers of the files that are alike in what it was given.

`NoOvertaking` is the half of `EveryCallReturns` that needs no fairness; what is left to TLC is
that the holder goes on or is cancelled.

### NodeRegistry_proofs

| Theorem | States |
|---|---|
| `TypeCorrect` | `Spec => []TypeOK` |
| `ModesApart` | `Spec => []ModesKeepApart` |
| `OwnHealth` | `Spec => []NoInheritedHealth` |
| `SourceIsCurrent` | `Spec => []SourceFollowsNode` |

`HandlersKeepApart` says that a request is about a row of its process' mode (`GetEntity` and
its cache look rows up by mode, and the insert stores it). `NothingOlderReturns`: once no
request of an earlier process is under way none comes back, and a registration that began then
has an id whose health is its own or none from the moment it wrote. For the last theorem,
`EndpointIsOwn` says the same of the endpoint, and `SettledIsLatest` that once such a process has
sent a heartbeat its row is the last that was updated (`Latest`) and only its own heartbeats are
under way; then the one row that `SyncSource` can choose is this one.

### ImportScripts_proofs

| Theorem | States |
|---|---|
| `TypeCorrect` | `Spec => []TypeOK` |
| `VerifiedSnapshotsWereHeld` | `Spec => []VerifiedWasHeld` |
| `NoFileIsLost` | `Spec => []ImportLosesNoFile` |
| `NoSecondRow` | `Spec => ImportAddsOnlyNew` |
| `OneLogoEach` | `Spec => []LogoOncePerWriter` |
| `RegistrationShortens` | a registration is never more than seven steps from its end, and every step of it brings it nearer |

They hold for every disk, snapshot, batch size, schema, number of nodes and of runs. The invariant has
four parts. `StateOK` gives every step of every script the kinds of what it carries.
`HeldInv` says that each row that calls a file whole, in the table, in a CSV file that is not
loaded yet or among the results of a script, speaks of a content that the node had (`Honest`):
records keep their ids and nodes what they once had (`held` is a history), so that what
a script asked remains true until its file is loaded; and what the registrar
verified stays true to its transaction. A row that has lost its end may
count as cached whatever its process says, and is still the identity of no file of a snapshot.
With `ContentAssumption` a cached row of an LFS file is of the content, not of the pointer.
`ImportInv` says that what `model_import` knows are files with a record, of whatever size, and that of the records there were
when it began it knows those among the candidates it has asked for; after the last batch
those are all (`BatchElements`: the batches cover the list). `LogoInv` says that who is about to
insert an organization has not inserted it. Loops are functions here and not recursion, so that
what they return can be proved: `OnlyThose` (by counting, a filter returns exactly the elements
of the sequence that are in the set) and `SetAsSequence`.

`RegistrationShortens` is the half of `RegistrationReturns` that needs no fairness: `Remaining`
counts the steps to the transaction and the optional columns that may have to be given up.

### What the proofs assume, and what is only model-checked

Proved from assumptions on constants only, which runs evaluate: `ConstantsAssumption`,
`NodeHealthAssumption`, `AuthorityAssumption`, `CacheJobAssumption`, `MountAssumption`,
`FileSchedulerAssumption`, `NodeRegistryAssumption`, `CatalogueAssumption`,
`ContentAssumption`, `ImportAssumption` and `DiskAssumption`. They say that bounds are numbers, that a
file has a block at least, that markers such as `Free` are not members of the sets they stand
beside, and what files are (section 2). What the models assume of externals (section 2) holds
for the proofs too. The inductive invariants were checked by TLC on the small instances before
they were proved.

Every invariant, action property and refinement that a passing run checks is proved.
Only model-checked are the five liveness properties, `TaskReachesNode`, `EveryCallReturns`,
`CompletionAcknowledged`, `RegistrationReturns` and `SignalEnds`, as fairness and `ENABLED`
are out of the prover's reach. No module declares a `RECURSIVE` operator.

## 6. Not modelled

Times other than those of `NodeHealth` (heartbeat freshness in scheduling and sync sources,
lock expiry except as "may be lost"), hosts and
ports, the wording of errors, list queries (tags, tokens, jobs, repositories, pages of nodes),
validation of formats, decoding, clients' I/O, `tag_import`, the picture of a logo itself (its
file in a shared directory and its upload), and the components the inventory marks so.
Generated code (`*.pb.go`, `wire_gen.go` but for what it calls), configuration, logging and
metrics change no state of the system. The unsynchronised write of the cached
`UpdatedAt` (`scheduler_service.go:163`) concerns a time and is listed as a hazard only.

## 7. Plan

Done, in this order: the uploaded inventory with its proofs, delivery, file scheduler, cache
jobs, authority, node registry, node health with its proofs; then mounting and the process
around it, the catalogue with its registrations and import scripts, repository keys with their
proofs, ingest under the scheduler's lock; then the proofs about delivery, authority, cache jobs,
file scheduler and node registry; then those about the process with its mounts, about sync
sources and about the import scripts, and `FileProgress` with the proof that the file scheduler
implements it.

Left, in this order:

1. An abstract specification of cache jobs and mounts as clients see them (a completion is
   acknowledged once and stays), and `SchedulerProcess` shown to implement it.
2. `NodeRegistry`: host and port of the cached row, which heartbeats renew after a move (listed
   as a hazard without a property), with the freshness rule of the scheduling queries.
3. The halves of the other liveness properties that need no fairness, as `RegistrationShortens`
   and `NoOvertaking` are.
