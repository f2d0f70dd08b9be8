------------------------------ MODULE CacheJob ------------------------------
(***************************************************************************)
(* The cache jobs of one repository on one node and the registration of    *)
(* the downloaded repository: StopCacheJob, ResumeCacheJob and             *)
(* DeleteCacheJob of internal/service/cache_job_service.go, the RPCs       *)
(* CreateCacheJob and UpdateCacheJobStatus with which Speed reports, and   *)
(* PersistRepo of internal/dao/repository_dao.go, which Speed's completion *)
(* report, the cron job and the API call, the last with a commit or none.  *)
(*                                                                         *)
(* Every statement is a step of its own: none of the handlers runs in a    *)
(* transaction.  The per-job lock of the operators' handlers lives in a    *)
(* cache for 60 seconds and is lost under a holder that waits longer for   *)
(* Speed, so handlers of one job may overlap.                              *)
(***************************************************************************)
EXTENDS Naturals

CONSTANTS Handlers,  \* goroutines that serve a request
          MaxJobs,   \* bound: cache jobs ever created
          NoRepo,    \* the node has no row for the repository
          Unpinned,  \* the row has a commit that no job pinned: upstream's, or an operator's
          Free       \* nobody holds persistSync

ASSUME CacheJobAssumption ==
  /\ MaxJobs \in Nat
  /\ {NoRepo, Unpinned} \cap Nat = {} /\ NoRepo # Unpinned
  /\ Free \notin Handlers

VARIABLES jobs,        \* cache_job: the rows by id
          repo,        \* repository: the job whose commit is registered, NoRepo or Unpinned
          handler,     \* what each goroutine does
          persistSync, \* the holder of the mutex of PersistRepo
          owed,        \* completions reported and not acknowledged, which Speed keeps
          settled      \* jobs whose completion was acknowledged, and complete ever since

vars == <<jobs, repo, handler, persistSync, owed, settled>>

Ids        == 1..MaxJobs
Statuses   == {"ing", "break", "complete", "stopping", "stop", "wait"}
Resumable  == {"break", "stop", "wait"}
Deleted    == [status |-> "deleted"]
Unborn     == [status |-> "unborn"]
JobRows    == [status : Statuses, pinned : BOOLEAN, pending : BOOLEAN] \cup {Deleted, Unborn}
Idle       == [op |-> "idle"]

Exists(j)   == jobs[j].status \in Statuses
Complete    == {j \in Ids : jobs[j].status = "complete"}

Init ==
  /\ jobs = [j \in Ids |-> Unborn]
  /\ repo = NoRepo
  /\ handler = [h \in Handlers |-> Idle]
  /\ persistSync = Free
  /\ owed = {} /\ settled = {}
-----------------------------------------------------------------------------
Doing(h, op, step) == handler[h].op = op /\ handler[h].step = step
Go(h, step)        == handler' = [handler EXCEPT ![h].step = step]
Start(h, op, j, step) ==
  handler[h] = Idle /\ handler' = [handler EXCEPT ![h] = [op |-> op, job |-> j, step |-> step]]
Return(h)          == handler' = [handler EXCEPT ![h] = Idle]

\* UpdateCacheStatus: one UPDATE.  "Running" is stored over running, broken and waiting only.
StatusUpdate(j, s) ==
  IF Exists(j) /\ (s = "ing" => jobs[j].status \in {"ing", "break", "wait"})
  THEN [jobs EXCEPT ![j].status = s, ![j].pending = FALSE]
  ELSE jobs

\* Every change of a status takes the job out of those that stayed complete.
SetJobs(new) ==
  /\ jobs' = new
  /\ settled' = {j \in settled : new[j].status = "complete"}

\* Fault: the mark does not look at the current status.
MarkedResumed_NoGuard(j) ==
  IF Exists(j) THEN [jobs EXCEPT ![j].status = "ing", ![j].pending = FALSE] ELSE jobs

MarkedResumed(j) ==
  IF jobs[j].status \in Resumable THEN [jobs EXCEPT ![j].status = "ing", ![j].pending = FALSE] ELSE jobs
-----------------------------------------------------------------------------
(* Speed creates jobs and reports their status, in any order and repeatedly. *)

CreateCacheJob(j) ==
  /\ jobs[j] = Unborn /\ \A k \in Ids : k < j => jobs[k] # Unborn
  /\ \E s \in {"ing", "wait"}, p \in BOOLEAN :
        jobs' = [jobs EXCEPT ![j] = [status |-> s, pinned |-> p, pending |-> FALSE]]
  /\ UNCHANGED <<repo, handler, persistSync, owed, settled>>

\* UpdateCacheJobStatus finds the job and checks its identity; s is the status reported.
Report(h, j, s) ==
  /\ Exists(j)
  /\ handler[h] = Idle
  /\ handler' = [handler EXCEPT ![h] =
                   [op |-> "report", job |-> j, step |-> "update", status |-> s,
                    pinned |-> jobs[j].pinned]]
  /\ owed' = IF s = "complete" THEN owed \cup {j} ELSE owed
  /\ UNCHANGED <<jobs, repo, persistSync, settled>>

\* The status is stored and the message cleared; a completion goes on to register the
\* repository, and fails if the job has no commit.
ReportUpdate(h) ==
  /\ Doing(h, "report", "update")
  /\ SetJobs(StatusUpdate(handler[h].job, handler[h].status))
  /\ IF handler[h].status # "complete" THEN Return(h)
     ELSE Go(h, IF handler[h].pinned THEN "lock" ELSE "failed")
  /\ UNCHANGED <<repo, persistSync, owed>>

\* The answer that ends Speed's retries.
Acknowledge(h) ==
  /\ Return(h)
  /\ owed' = owed \ {handler[h].job}
  /\ settled' = settled \cup ({handler[h].job} \cap Complete)

\* Fault: the completion is registered whatever completed since.
PersistRepo_NoSkip(h) ==
  /\ Doing(h, "report", "lock")
  /\ persistSync = Free
  /\ persistSync' = h /\ Go(h, "save") /\ UNCHANGED <<owed, settled>>
  /\ UNCHANGED <<jobs, repo>>

\* PersistRepo with the job's commit: a newer complete job makes it a success without effect.
PersistRepo(h) ==
  /\ Doing(h, "report", "lock")
  /\ persistSync = Free
  /\ IF \E k \in Complete : k > handler[h].job
     THEN Acknowledge(h) /\ UNCHANGED persistSync
     ELSE persistSync' = h /\ Go(h, "save") /\ UNCHANGED <<owed, settled>>
  /\ UNCHANGED <<jobs, repo>>

\* Metadata were fetched from Speed, the cached files verified, the row written.
SaveRepo(h) ==
  /\ Doing(h, "report", "save")
  /\ repo' = handler[h].job
  /\ persistSync' = Free
  /\ Acknowledge(h)
  /\ UNCHANGED jobs

\* Fault: the failing path leaves persistSync locked.
SaveFails_KeepLock(h) ==
  /\ Doing(h, "report", "save")
  /\ Go(h, "failed")
  /\ UNCHANGED <<jobs, repo, persistSync, owed, settled>>

\* Speed, upstream or the database failed, or a file is not cached completely.
SaveFails(h) ==
  /\ Doing(h, "report", "save")
  /\ persistSync' = Free
  /\ Go(h, "failed")
  /\ UNCHANGED <<jobs, repo, owed, settled>>

\* The error message says that the registration is pending, and the error makes Speed retry.
ShowPending(h) ==
  /\ Doing(h, "report", "failed")
  /\ LET j == handler[h].job
     IN  jobs' = IF Exists(j) THEN [jobs EXCEPT ![j].pending = TRUE] ELSE jobs
  /\ Return(h)
  /\ UNCHANGED <<repo, persistSync, owed, settled>>

-----------------------------------------------------------------------------
(* PersistRepo for the cron job and the API.                                 *)

\* The commit of the newest complete job; without one, what upstream has now.
NewestCommit ==
  IF \E j \in Complete : jobs[j].pinned /\ \A k \in Complete : k <= j
  THEN CHOOSE j \in Complete : \A k \in Complete : k <= j
  ELSE Unpinned

\* Without a commit, only a repository without a row is registered.
PersistFreeRepo(h) ==
  /\ persistSync = Free
  /\ repo = NoRepo
  /\ Start(h, "persist", NewestCommit, "save")
  /\ persistSync' = h
  /\ UNCHANGED <<jobs, repo, owed, settled>>

\* The API names a commit: of any job, however old and in whatever status, or of none.  It is
\* registered over a row there may be, and no newer complete job is looked for.
PersistNamedCommit(h) ==
  /\ persistSync = Free
  /\ \E commit \in Ids \cup {Unpinned} : Start(h, "commit", commit, "save")
  /\ persistSync' = h
  /\ UNCHANGED <<jobs, repo, owed, settled>>

\* The row is written, or a request or verification failed.
SaveRequested(h) ==
  /\ Doing(h, "persist", "save") \/ Doing(h, "commit", "save")
  /\ repo' \in {handler[h].job, repo}
  /\ persistSync' = Free
  /\ Return(h)
  /\ UNCHANGED <<jobs, owed, settled>>

\* DeleteByEtagsAndFields drops the row.
DeleteRepository ==
  /\ repo' = NoRepo
  /\ UNCHANGED <<jobs, handler, persistSync, owed, settled>>
-----------------------------------------------------------------------------
(* Operators. *)

StopCacheJob(h, j) ==
  /\ jobs[j].status = "ing"
  /\ Start(h, "stop", j, "stopping")
  /\ UNCHANGED <<jobs, repo, persistSync, owed, settled>>

StopMarks(h) ==
  /\ Doing(h, "stop", "stopping")
  /\ SetJobs(StatusUpdate(handler[h].job, "stopping"))
  /\ Go(h, "post")
  /\ UNCHANGED <<repo, persistSync, owed>>

\* Speed is asked to stop; any answer, an HTTP error included, counts as delivered.
StopPosts(h) ==
  /\ Doing(h, "stop", "post")
  /\ Return(h) \/ Go(h, "unreachable")
  /\ UNCHANGED <<jobs, repo, persistSync, owed, settled>>

StopUnreachable(h) ==
  /\ Doing(h, "stop", "unreachable")
  /\ SetJobs(StatusUpdate(handler[h].job, "stop"))
  /\ Return(h)
  /\ UNCHANGED <<repo, persistSync, owed>>

\* ResumeCacheJob, also for each job of ExecWaitTask.
ResumeCacheJob(h, j) ==
  /\ jobs[j].status \in Resumable
  /\ Start(h, "resume", j, "post")
  /\ UNCHANGED <<jobs, repo, persistSync, owed, settled>>

ResumePosts(h) ==
  /\ Doing(h, "resume", "post")
  /\ Return(h) \/ Go(h, "mark")
  /\ UNCHANGED <<jobs, repo, persistSync, owed, settled>>

MarkCacheJobResumed(h) ==
  /\ Doing(h, "resume", "mark")
  /\ SetJobs(MarkedResumed(handler[h].job))
  /\ Return(h)
  /\ UNCHANGED <<repo, persistSync, owed>>

DeleteCacheJob(h, j) ==
  /\ Exists(j) /\ jobs[j].status \notin {"ing", "complete"}
  /\ Start(h, "delete", j, "delete")
  /\ UNCHANGED <<jobs, repo, persistSync, owed, settled>>

DeleteRow(h) ==
  /\ Doing(h, "delete", "delete")
  /\ SetJobs([jobs EXCEPT ![handler[h].job] = Deleted])
  /\ Return(h)
  /\ UNCHANGED <<repo, persistSync, owed>>

\* A restart loses the handlers; repairJobRunStatus ends what was stopping before serving.
Restart ==
  /\ handler' = [h \in Handlers |-> Idle]
  /\ persistSync' = Free
  /\ SetJobs([j \in Ids |-> IF jobs[j].status = "stopping"
                            THEN [jobs[j] EXCEPT !.status = "stop", !.pending = FALSE] ELSE jobs[j]])
  /\ UNCHANGED <<repo, owed>>
-----------------------------------------------------------------------------
Requests(h, j) ==
  \/ \E s \in Statuses \ {"stopping"} : Report(h, j, s)
  \/ StopCacheJob(h, j) \/ ResumeCacheJob(h, j) \/ DeleteCacheJob(h, j)

Steps(h) ==
  \/ ReportUpdate(h) \/ PersistRepo(h) \/ SaveRepo(h) \/ SaveFails(h) \/ ShowPending(h)
  \/ SaveRequested(h)
  \/ StopMarks(h) \/ StopPosts(h) \/ StopUnreachable(h)
  \/ ResumePosts(h) \/ MarkCacheJobResumed(h) \/ DeleteRow(h)

Next ==
  \/ \E j \in Ids : CreateCacheJob(j) \/ \E h \in Handlers : Requests(h, j)
  \/ \E h \in Handlers : PersistFreeRepo(h) \/ PersistNamedCommit(h) \/ Steps(h)
  \/ DeleteRepository
  \/ Restart

\* Handlers run on; Speed repeats a completion until it is acknowledged, and one of any
\* endless series of attempts to register succeeds.
Fairness ==
  \A h \in Handlers :
     /\ WF_vars(Steps(h))
     /\ \A j \in Ids : /\ SF_vars(j \in owed /\ Report(h, j, "complete"))
                      /\ SF_vars(SaveRepo(h) /\ repo' = j)

Spec == Init /\ [][Next]_vars /\ Fairness
-----------------------------------------------------------------------------
HandlerStates ==
  {Idle}
  \cup [op : {"report"}, job : Ids, step : {"update", "lock", "save", "failed"},
        status : Statuses, pinned : BOOLEAN]
  \cup [op : {"persist", "commit"}, job : Ids \cup {Unpinned}, step : {"save"}]
  \cup [op : {"stop"}, job : Ids, step : {"stopping", "post", "unreachable"}]
  \cup [op : {"resume"}, job : Ids, step : {"post", "mark"}]
  \cup [op : {"delete"}, job : Ids, step : {"delete"}]

\* Rows and registration hold values of their kind; persistSync is held by a handler that is
\* about to save.
TypeOK ==
  /\ jobs \in [Ids -> JobRows]
  /\ repo \in Ids \cup {NoRepo, Unpinned}
  /\ handler \in [Handlers -> HandlerStates]
  /\ persistSync \in Handlers \cup {Free}
  /\ \A h \in Handlers : persistSync = h <=> handler[h] # Idle /\ handler[h].step = "save"
  /\ owed \subseteq Ids /\ settled \subseteq Complete

\* A job that finished or is being stopped is never shown as running again by a late report
\* or by a resume that raced with its completion; a stopped one only by its resume.
FinishedNotReopened ==
  [][\A j \in Ids : jobs'[j].status = "ing" =>
        /\ jobs[j].status \notin {"complete", "stopping"}
        /\ jobs[j].status = "stop" =>
              \E h \in Handlers : Doing(h, "resume", "mark") /\ handler[h].job = j]_vars

\* The commit of a job that is older than a settled one is not registered, however late its
\* completion is reported or its handler gets on, and whatever was registered or deleted in
\* between, unless an operator has named that commit.
NoStaleRegistration ==
  [][\A j \in settled : repo' # repo /\ repo' \in 1..(j - 1) =>
        \E h \in Handlers : Doing(h, "commit", "save") /\ handler[h].job = repo']_vars

\* A completion is not forgotten: it is acknowledged in the end, that is, its commit or that
\* of a newer complete job was registered, unless the job is deleted or has no commit, or the
\* process is restarted for ever.
CompletionAcknowledged ==
  \/ \A j \in Ids : j \in owed ~> j \notin owed \/ ~Exists(j) \/ ~jobs[j].pinned
  \/ []<><<Restart>>_vars

\* "A successful retry clears the error": a job whose completion is acknowledged, with no
\* report of it outstanding, does not say that its registration is pending.
RetryClearsPending ==
  \A j \in settled \ owed : ~jobs[j].pending
=============================================================================
