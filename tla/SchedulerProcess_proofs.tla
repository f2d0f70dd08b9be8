------------------------ MODULE SchedulerProcess_proofs ------------------------
(***************************************************************************)
(* Theorems about CacheJob and about SchedulerProcess, which puts it and   *)
(* the mounts of RepositoryMount into a process that starts, repairs,      *)
(* serves and ends: what is finished stays so, no registration goes back   *)
(* to an older job unless an operator names its commit, a repository shown *)
(* as mounted was mounted, and what is shown as being stopped is being     *)
(* stopped by the process that runs.  They hold for every number of jobs,  *)
(* handlers, rows and mounters.                                            *)
(***************************************************************************)
EXTENDS SchedulerProcess, TLAPS

-----------------------------------------------------------------------------
(* The cache jobs by themselves *)

\* While a handler is about to save a commit that no operator named, nothing newer than that
\* is settled: only the holder of persistSync, or a registration that finds it free, settles a
\* job.
SavesNewest ==
  \A h \in Handlers :
     handler[h] # Idle /\ handler[h].step = "save" /\ handler[h].op # "commit"
       /\ handler[h].job \in Ids =>
     \A k \in settled : k <= handler[h].job

IInv == TypeOK /\ SavesNewest
-----------------------------------------------------------------------------
LiveRows == [status : Statuses, pinned : BOOLEAN, pending : BOOLEAN]

\* The kinds of rows.
LEMMA JobKinds ==
  ASSUME TypeOK, NEW j \in Ids
  PROVE  /\ Exists(j) => jobs[j] \in LiveRows
         /\ jobs[j].status \in Statuses \cup {"deleted", "unborn"}
         /\ jobs[j].status \in Resumable => Exists(j)
BY DEF TypeOK, JobRows, Exists, Deleted, Unborn, Statuses, LiveRows, Resumable

\* A stored status, a mark and a deletion leave rows of their kind.
LEMMA UpdatesRows ==
  ASSUME TypeOK, NEW j \in Ids
  PROVE  /\ \A s \in Statuses : StatusUpdate(j, s) \in [Ids -> JobRows]
         /\ MarkedResumed(j) \in [Ids -> JobRows]
         /\ [jobs EXCEPT ![j] = Deleted] \in [Ids -> JobRows]
         /\ Exists(j) => [jobs EXCEPT ![j].pending = TRUE] \in [Ids -> JobRows]
<1>1. jobs \in [Ids -> JobRows] /\ LiveRows \subseteq JobRows
  BY DEF TypeOK, LiveRows, JobRows
<1>2. ASSUME NEW s \in Statuses, Exists(j)
      PROVE  [jobs EXCEPT ![j].status = s, ![j].pending = FALSE] \in [Ids -> JobRows]
  BY <1>1, <1>2, JobKinds DEF LiveRows
<1>3. Exists(j) => [jobs EXCEPT ![j].pending = TRUE] \in [Ids -> JobRows]
  BY <1>1, JobKinds DEF LiveRows
<1>4. \A s \in Statuses : StatusUpdate(j, s) \in [Ids -> JobRows]
  BY <1>1, <1>2 DEF StatusUpdate
<1>5. MarkedResumed(j) \in [Ids -> JobRows]
  BY <1>1, <1>2, JobKinds DEF MarkedResumed, Statuses
<1>6. [jobs EXCEPT ![j] = Deleted] \in [Ids -> JobRows]
  BY <1>1 DEF JobRows
<1> QED
  BY <1>3, <1>4, <1>5, <1>6

Ops == {"report", "persist", "commit", "stop", "resume", "delete"}

\* What a busy handler carries.
LEMMA Carries ==
  ASSUME TypeOK, NEW h \in Handlers, NEW op \in Ops, NEW step, Doing(h, op, step)
  PROVE  /\ handler[h] \in HandlerStates /\ handler[h] # Idle
         /\ handler[h].op = op /\ handler[h].step = step
         /\ op \notin {"persist", "commit"} => handler[h].job \in Ids
         /\ handler[h].job \in Ids \cup {Unpinned}
         /\ op = "report" => handler[h].status \in Statuses
<1>1. handler[h] \in HandlerStates
  BY DEF TypeOK
<1>2. handler[h].op = op /\ handler[h].step = step
  BY DEF Doing
<1> QED
  BY <1>1, <1>2 DEF HandlerStates, Idle, Ops

\* A busy handler that goes on within its operation stays one of its kind.
LEMMA Goes ==
  ASSUME TypeOK, NEW h \in Handlers, NEW step,
         \/ handler[h].op = "report" /\ handler[h] # Idle /\ step \in {"lock", "save", "failed"}
         \/ handler[h].op = "stop" /\ handler[h] # Idle /\ step \in {"post", "unreachable"}
         \/ handler[h].op = "resume" /\ handler[h] # Idle /\ step = "mark"
  PROVE  [handler EXCEPT ![h].step = step] \in [Handlers -> HandlerStates]
<1>1. handler[h] \in HandlerStates /\ handler \in [Handlers -> HandlerStates]
  BY DEF TypeOK
<1>2. [handler[h] EXCEPT !.step = step] \in HandlerStates
  <2>1. CASE handler[h].op = "report"
    <3>1. handler[h] \in [op : {"report"}, job : Ids, step : {"update", "lock", "save", "failed"},
                          status : Statuses, pinned : BOOLEAN]
      BY <1>1, <2>1 DEF HandlerStates, Idle
    <3> QED BY <2>1, <3>1 DEF HandlerStates
  <2>2. CASE handler[h].op = "stop"
    <3>1. handler[h] \in [op : {"stop"}, job : Ids, step : {"stopping", "post", "unreachable"}]
      BY <1>1, <2>2 DEF HandlerStates, Idle
    <3> QED BY <2>2, <3>1 DEF HandlerStates
  <2>3. CASE handler[h].op = "resume"
    <3>1. handler[h] \in [op : {"resume"}, job : Ids, step : {"post", "mark"}]
      BY <1>1, <2>3 DEF HandlerStates, Idle
    <3> QED BY <2>3, <3>1 DEF HandlerStates
  <2> QED BY <2>1, <2>2, <2>3
<1> QED
  BY <1>1, <1>2

\* The newest commit is that of a job no complete job is newer than.
LEMMA Newest ==
  ASSUME TypeOK
  PROVE  /\ NewestCommit \in Ids \cup {Unpinned}
         /\ NewestCommit \in Ids => \A k \in Complete : k <= NewestCommit
<1>1. CASE \E j \in Complete : jobs[j].pinned /\ \A k \in Complete : k <= j
  <2> DEFINE n == CHOOSE j \in Complete : \A k \in Complete : k <= j
  <2>1. n \in Complete /\ \A k \in Complete : k <= n
    BY <1>1
  <2>2. NewestCommit = n
    BY <1>1 DEF NewestCommit
  <2> QED BY <2>1, <2>2 DEF Complete
<1>2. CASE ~\E j \in Complete : jobs[j].pinned /\ \A k \in Complete : k <= j
  <2>1. NewestCommit = Unpinned
    BY <1>2 DEF NewestCommit
  <2>2. Unpinned \notin Ids
    BY CacheJobAssumption DEF Ids
  <2> QED BY <2>1, <2>2
<1> QED BY <1>1, <1>2
-----------------------------------------------------------------------------
\* The conjuncts of TypeOK, preserved by every step.

\* New rows, with those that are not complete any more taken out of the settled ones.
LEMMA SetJobsStep ==
  ASSUME TypeOK, NEW new \in [Ids -> JobRows], SetJobs(new)
  PROVE  jobs' \in [Ids -> JobRows] /\ settled' \subseteq Complete'
BY DEF SetJobs, TypeOK, Complete

LEMMA RowsStep ==
  TypeOK /\ [Next]_vars => jobs' \in [Ids -> JobRows] /\ settled' \subseteq Complete'
<1> DEFINE Goal == jobs' \in [Ids -> JobRows] /\ settled' \subseteq Complete'
<1> SUFFICES ASSUME TypeOK, [Next]_vars PROVE Goal
  OBVIOUS
<1>0. jobs \in [Ids -> JobRows] /\ settled \subseteq Complete /\ Complete \subseteq Ids
  BY DEF TypeOK, Complete
<1>1. ASSUME UNCHANGED <<jobs, settled>> PROVE Goal
  BY <1>0, <1>1 DEF Complete
<1>2. ASSUME NEW j \in Ids, CreateCacheJob(j) PROVE Goal
  <2>1. jobs' \in [Ids -> JobRows]
    BY <1>0, <1>2 DEF CreateCacheJob, JobRows, Statuses
  <2>2. j \notin Complete /\ settled' = settled /\ \A k \in Ids \ {j} : jobs'[k] = jobs[k]
    BY <1>0, <1>2 DEF CreateCacheJob, Complete, Unborn
  <2> QED BY <1>0, <2>1, <2>2 DEF Complete
<1>3. ASSUME NEW h \in Handlers, Acknowledge(h), UNCHANGED jobs PROVE Goal
  BY <1>0, <1>3 DEF Acknowledge, Complete
<1>4. ASSUME NEW h \in Handlers, ReportUpdate(h) PROVE Goal
  <2>1. handler[h].job \in Ids /\ handler[h].status \in Statuses
    BY <1>4, Carries DEF ReportUpdate, Ops
  <2> QED BY <1>4, <2>1, UpdatesRows, SetJobsStep DEF ReportUpdate
<1>5. ASSUME NEW h \in Handlers, StopMarks(h) \/ StopUnreachable(h) PROVE Goal
  <2>1. handler[h].job \in Ids /\ "stopping" \in Statuses /\ "stop" \in Statuses
    BY <1>5, Carries DEF StopMarks, StopUnreachable, Ops, Statuses
  <2> QED BY <1>5, <2>1, UpdatesRows, SetJobsStep DEF StopMarks, StopUnreachable
<1>6. ASSUME NEW h \in Handlers, MarkCacheJobResumed(h) PROVE Goal
  <2>1. handler[h].job \in Ids
    BY <1>6, Carries DEF MarkCacheJobResumed, Ops
  <2> QED BY <1>6, <2>1, UpdatesRows, SetJobsStep DEF MarkCacheJobResumed
<1>7. ASSUME NEW h \in Handlers, DeleteRow(h) PROVE Goal
  <2>1. handler[h].job \in Ids
    BY <1>7, Carries DEF DeleteRow, Ops
  <2> QED BY <1>7, <2>1, UpdatesRows, SetJobsStep DEF DeleteRow
<1>8. ASSUME NEW h \in Handlers, ShowPending(h) PROVE Goal
  <2>1. handler[h].job \in Ids
    BY <1>8, Carries DEF ShowPending, Ops
  <2>2. jobs' \in [Ids -> JobRows]
    BY <1>0, <1>8, <2>1, UpdatesRows DEF ShowPending
  <2>3. settled' = settled /\ \A k \in Ids : jobs'[k].status = jobs[k].status
    BY <1>0, <1>8, <2>1, JobKinds DEF ShowPending, LiveRows
  <2> QED BY <1>0, <2>2, <2>3 DEF Complete
<1>9. ASSUME Restart PROVE Goal
  <2> DEFINE new == [j \in Ids |-> IF jobs[j].status = "stopping"
                       THEN [jobs[j] EXCEPT !.status = "stop", !.pending = FALSE] ELSE jobs[j]]
  <2>1. ASSUME NEW j \in Ids, jobs[j].status = "stopping"
        PROVE  [jobs[j] EXCEPT !.status = "stop", !.pending = FALSE] \in JobRows
    BY <2>1, JobKinds DEF JobRows, LiveRows, Exists, Statuses
  <2>2. new \in [Ids -> JobRows]
    BY <1>0, <2>1
  <2> QED BY <1>9, <2>2, SetJobsStep DEF Restart
<1>10. ASSUME NEW h \in Handlers, PersistRepo(h) \/ SaveRepo(h) PROVE Goal
  BY <1>1, <1>3, <1>10 DEF PersistRepo, SaveRepo
<1> HIDE DEF Goal
<1>11. ASSUME NEW h \in Handlers, NEW j \in Ids, Requests(h, j) PROVE Goal
  BY <1>1, <1>11 DEF Requests, Report, StopCacheJob, ResumeCacheJob, DeleteCacheJob
<1>12. ASSUME NEW h \in Handlers,
              SaveFails(h) \/ SaveRequested(h) \/ StopPosts(h) \/ ResumePosts(h) \/ PersistFreeRepo(h)
                \/ PersistNamedCommit(h)
       PROVE  Goal
  BY <1>1, <1>12
     DEF SaveFails, SaveRequested, StopPosts, ResumePosts, PersistFreeRepo, PersistNamedCommit
<1>13. ASSUME DeleteRepository \/ UNCHANGED vars PROVE Goal
  BY <1>1, <1>13 DEF DeleteRepository, vars
<1> QED
  BY <1>2, <1>4, <1>5, <1>6, <1>7, <1>8, <1>9, <1>10, <1>11, <1>12, <1>13 DEF Next, Steps

\* Handlers stay of their kind, and persistSync is held by the one that is about to save.
HandlersOK ==
  /\ handler \in [Handlers -> HandlerStates]
  /\ persistSync \in Handlers \cup {Free}
  /\ \A h \in Handlers : persistSync = h <=> handler[h] # Idle /\ handler[h].step = "save"

LEMMA HandlersStep == TypeOK /\ [Next]_vars => HandlersOK'
<1> SUFFICES ASSUME TypeOK, [Next]_vars PROVE HandlersOK'
  OBVIOUS
<1>0. HandlersOK /\ Free \notin Handlers
  BY CacheJobAssumption DEF TypeOK, HandlersOK
<1>1. ASSUME UNCHANGED <<handler, persistSync>> PROVE HandlersOK'
  BY <1>0, <1>1 DEF HandlersOK
\* A handler that was not saving, and does not begin to, leaves persistSync alone.
<1>2. ASSUME NEW h \in Handlers, NEW new \in HandlerStates, persistSync # h,
             new = Idle \/ new.step # "save",
             handler' = [handler EXCEPT ![h] = new], persistSync' = persistSync
      PROVE  HandlersOK'
  BY <1>0, <1>2 DEF HandlersOK
\* One that finds it free and begins to save takes it.
<1>3. ASSUME NEW h \in Handlers, NEW new \in HandlerStates, persistSync = Free,
             new # Idle, new.step = "save",
             handler' = [handler EXCEPT ![h] = new], persistSync' = h
      PROVE  HandlersOK'
  BY <1>0, <1>3 DEF HandlersOK
\* The one that was saving and is not any more sets it free.
<1>4. ASSUME NEW h \in Handlers, NEW new \in HandlerStates, persistSync = h,
             new = Idle \/ new.step # "save",
             handler' = [handler EXCEPT ![h] = new], persistSync' = Free
      PROVE  HandlersOK'
  BY <1>0, <1>4 DEF HandlersOK
<1>5. Idle \in HandlerStates
  BY DEF HandlerStates
<1>6. ASSUME NEW h \in Handlers, NEW op \in Ops, NEW step, Doing(h, op, step)
      PROVE  persistSync = h <=> step = "save"
  BY <1>0, <1>6, Carries DEF HandlersOK
<1>7. ASSUME NEW h \in Handlers, NEW j \in Ids, Requests(h, j) PROVE HandlersOK'
  <2>1. handler[h] = Idle /\ UNCHANGED persistSync
    BY <1>7 DEF Requests, Report, StopCacheJob, ResumeCacheJob, DeleteCacheJob, Start
  <2>2. persistSync # h
    BY <1>0, <2>1 DEF HandlersOK
  <2>3. CASE \E s \in Statuses \ {"stopping"} : Report(h, j, s)
    <3>1. PICK s \in Statuses \ {"stopping"} : Report(h, j, s)
      BY <2>3
    <3>2. [op |-> "report", job |-> j, step |-> "update", status |-> s,
           pinned |-> jobs[j].pinned] \in HandlerStates
      BY <3>1, JobKinds DEF Report, HandlerStates, LiveRows
    <3> QED BY <1>2, <2>1, <2>2, <3>1, <3>2 DEF Report
  <2>4. ASSUME NEW op, NEW step, Start(h, op, j, step),
               [op |-> op, job |-> j, step |-> step] \in HandlerStates, step # "save"
        PROVE  HandlersOK'
    BY <1>2, <2>1, <2>2, <2>4 DEF Start
  <2>5. /\ [op |-> "stop", job |-> j, step |-> "stopping"] \in HandlerStates
        /\ [op |-> "resume", job |-> j, step |-> "post"] \in HandlerStates
        /\ [op |-> "delete", job |-> j, step |-> "delete"] \in HandlerStates
    BY DEF HandlerStates
  <2> QED
    BY <1>7, <2>3, <2>4, <2>5 DEF Requests, StopCacheJob, ResumeCacheJob, DeleteCacheJob
<1>8. ASSUME NEW h \in Handlers, Return(h), UNCHANGED persistSync, persistSync # h
      PROVE  HandlersOK'
  BY <1>2, <1>5, <1>8 DEF Return
<1>9. ASSUME NEW h \in Handlers, NEW step, Go(h, step), UNCHANGED persistSync, persistSync # h,
             [handler EXCEPT ![h].step = step] \in [Handlers -> HandlerStates], step # "save"
      PROVE  HandlersOK'
  BY <1>0, <1>9 DEF Go, HandlersOK
<1>10. ASSUME NEW h \in Handlers, ReportUpdate(h) PROVE HandlersOK'
  <2>1. handler[h] # Idle /\ handler[h].op = "report" /\ persistSync # h
    BY <1>6, <1>10, Carries DEF ReportUpdate, Ops
  <2> QED BY <1>8, <1>9, <1>10, <2>1, Goes DEF ReportUpdate
<1>11. ASSUME NEW h \in Handlers, PersistRepo(h) PROVE HandlersOK'
  <2>1. handler[h] # Idle /\ handler[h].op = "report" /\ persistSync # h
    BY <1>6, <1>11, Carries DEF PersistRepo, Ops
  <2>2. CASE Acknowledge(h) /\ UNCHANGED persistSync
    BY <1>8, <2>1, <2>2 DEF Acknowledge
  <2>3. CASE persistSync' = h /\ Go(h, "save")
    <3>1. [handler EXCEPT ![h].step = "save"] \in [Handlers -> HandlerStates]
      BY <2>1, Goes
    <3>2. handler'[h] # Idle /\ handler'[h].step = "save"
      <4>1. handler[h] \in [op : {"report"}, job : Ids, step : {"update", "lock", "save", "failed"},
                            status : Statuses, pinned : BOOLEAN]
        BY <1>0, <2>1 DEF HandlersOK, HandlerStates
      <4> QED BY <1>0, <2>3, <4>1 DEF Go, Idle, HandlersOK
    <3> QED BY <1>0, <1>11, <2>3, <3>1, <3>2 DEF Go, HandlersOK, PersistRepo
  <2> QED BY <1>11, <2>2, <2>3 DEF PersistRepo
<1>12. ASSUME NEW h \in Handlers, SaveRepo(h) \/ SaveRequested(h) PROVE HandlersOK'
  <2>1. persistSync = h
    BY <1>6, <1>12 DEF SaveRepo, SaveRequested, Ops
  <2> QED BY <1>4, <1>5, <1>12, <2>1 DEF SaveRepo, SaveRequested, Acknowledge, Return
<1>13. ASSUME NEW h \in Handlers, SaveFails(h) PROVE HandlersOK'
  <2>1. handler[h] # Idle /\ handler[h].op = "report" /\ persistSync = h
    BY <1>6, <1>13, Carries DEF SaveFails, Ops
  <2>2. [handler EXCEPT ![h].step = "failed"] \in [Handlers -> HandlerStates]
    BY <2>1, Goes
  <2>3. handler'[h].step = "failed"
    <3>1. handler[h] \in [op : {"report"}, job : Ids, step : {"update", "lock", "save", "failed"},
                          status : Statuses, pinned : BOOLEAN]
      BY <1>0, <2>1 DEF HandlersOK, HandlerStates
    <3> QED BY <1>0, <1>13, <3>1 DEF SaveFails, Go, HandlersOK
  <2> QED BY <1>0, <1>13, <2>1, <2>2, <2>3 DEF SaveFails, Go, HandlersOK
<1>14. ASSUME NEW h \in Handlers,
              ShowPending(h) \/ StopUnreachable(h) \/ MarkCacheJobResumed(h) \/ DeleteRow(h)
       PROVE  HandlersOK'
  <2>1. persistSync # h
    BY <1>6, <1>14 DEF ShowPending, StopUnreachable, MarkCacheJobResumed, DeleteRow, Ops
  <2> QED
    BY <1>8, <1>14, <2>1 DEF ShowPending, StopUnreachable, MarkCacheJobResumed, DeleteRow
<1>15. ASSUME NEW h \in Handlers, StopMarks(h) \/ StopPosts(h) \/ ResumePosts(h) PROVE HandlersOK'
  <2>1. /\ handler[h] # Idle /\ persistSync # h
        /\ StopMarks(h) \/ StopPosts(h) => handler[h].op = "stop"
        /\ ResumePosts(h) => handler[h].op = "resume"
    BY <1>6, <1>15, Carries DEF StopMarks, StopPosts, ResumePosts, Ops
  <2> QED
    BY <1>8, <1>9, <1>15, <2>1, Goes DEF StopMarks, StopPosts, ResumePosts
<1>16. ASSUME NEW h \in Handlers, PersistFreeRepo(h) \/ PersistNamedCommit(h) PROVE HandlersOK'
  <2>1. /\ persistSync = Free /\ persistSync' = h
        /\ \E op \in {"persist", "commit"}, j \in Ids \cup {Unpinned} : Start(h, op, j, "save")
    BY <1>16, Newest DEF PersistFreeRepo, PersistNamedCommit
  <2>2. PICK op \in {"persist", "commit"}, j \in Ids \cup {Unpinned} : Start(h, op, j, "save")
    BY <2>1
  <2> DEFINE new == [op |-> op, job |-> j, step |-> "save"]
  <2>3. new \in HandlerStates /\ new # Idle
    BY DEF HandlerStates, Idle
  <2> QED BY <1>3, <2>1, <2>2, <2>3 DEF Start
<1>17. ASSUME Restart PROVE HandlersOK'
  BY <1>0, <1>5, <1>17 DEF Restart, HandlersOK
<1>18. ASSUME NEW j \in Ids, CreateCacheJob(j) PROVE HandlersOK'
  BY <1>1, <1>18 DEF CreateCacheJob
<1>19. ASSUME DeleteRepository \/ UNCHANGED vars PROVE HandlersOK'
  BY <1>1, <1>19 DEF DeleteRepository, vars
<1> QED
  BY <1>7, <1>10, <1>11, <1>12, <1>13, <1>14, <1>15, <1>16, <1>17, <1>18, <1>19
     DEF Next, Steps

LEMMA TypeStep == TypeOK /\ [Next]_vars => TypeOK'
<1> SUFFICES ASSUME TypeOK, [Next]_vars PROVE TypeOK'
  OBVIOUS
<1>1. repo' \in Ids \cup {NoRepo, Unpinned}
  <2>1. ASSUME NEW h \in Handlers, SaveRepo(h) \/ SaveRequested(h)
        PROVE  repo' \in Ids \cup {NoRepo, Unpinned}
    BY <2>1, Carries DEF SaveRepo, SaveRequested, Ops, TypeOK
  <2>2. ASSUME NEW h \in Handlers, Steps(h), ~SaveRepo(h), ~SaveRequested(h)
        PROVE  repo' = repo
    BY <2>2 DEF Steps, ReportUpdate, PersistRepo, SaveFails, ShowPending, StopMarks, StopPosts,
                StopUnreachable, ResumePosts, MarkCacheJobResumed, DeleteRow
  <2>3. ASSUME NEW h \in Handlers, NEW j \in Ids, Requests(h, j) PROVE repo' = repo
    BY <2>3 DEF Requests, Report, StopCacheJob, ResumeCacheJob, DeleteCacheJob
  <2>4. repo \in Ids \cup {NoRepo, Unpinned}
    BY DEF TypeOK
  <2> QED
    BY <2>1, <2>2, <2>3, <2>4
       DEF Next, CreateCacheJob, PersistFreeRepo, PersistNamedCommit, DeleteRepository, Restart,
           vars
<1>2. owed' \subseteq Ids
  <2>1. ASSUME NEW h \in Handlers, Steps(h) PROVE owed' \subseteq owed
    BY <2>1 DEF Steps, ReportUpdate, PersistRepo, SaveRepo, SaveFails, ShowPending, StopMarks,
                StopPosts, StopUnreachable, ResumePosts, MarkCacheJobResumed, DeleteRow,
                SaveRequested, Acknowledge
  <2>2. ASSUME NEW h \in Handlers, NEW j \in Ids, Requests(h, j) PROVE owed' \subseteq owed \cup {j}
    BY <2>2 DEF Requests, Report, StopCacheJob, ResumeCacheJob, DeleteCacheJob
  <2>3. owed \subseteq Ids
    BY DEF TypeOK
  <2> QED
    BY <2>1, <2>2, <2>3
       DEF Next, CreateCacheJob, PersistFreeRepo, PersistNamedCommit, DeleteRepository, Restart,
           vars
<1> QED
  BY <1>1, <1>2, RowsStep, HandlersStep DEF TypeOK, HandlersOK
-----------------------------------------------------------------------------
\* A job is settled only by a handler that found persistSync free or has it.
LEMMA SettledGrows ==
  TypeOK /\ [Next]_vars =>
    \/ settled' \subseteq settled
    \/ persistSync = Free
    \/ persistSync \in Handlers /\ persistSync' = Free
<1> DEFINE Goal == \/ settled' \subseteq settled
                   \/ persistSync = Free
                   \/ persistSync \in Handlers /\ persistSync' = Free
<1> SUFFICES ASSUME TypeOK, [Next]_vars PROVE Goal
  OBVIOUS
<1>1. ASSUME NEW new, SetJobs(new) PROVE settled' \subseteq settled
  BY <1>1 DEF SetJobs
<1>2. ASSUME NEW h \in Handlers, PersistRepo(h) PROVE Goal
  BY <1>2 DEF PersistRepo
<1>3. ASSUME NEW h \in Handlers, SaveRepo(h) PROVE Goal
  <2>1. persistSync = h
    BY <1>3, Carries DEF SaveRepo, Ops, TypeOK
  <2> QED BY <1>3, <2>1 DEF SaveRepo
<1>4. ASSUME NEW h \in Handlers,
             ReportUpdate(h) \/ StopMarks(h) \/ StopUnreachable(h) \/ MarkCacheJobResumed(h)
               \/ DeleteRow(h)
      PROVE  Goal
  BY <1>1, <1>4 DEF ReportUpdate, StopMarks, StopUnreachable, MarkCacheJobResumed, DeleteRow
<1>5. ASSUME NEW h \in Handlers,
             SaveFails(h) \/ ShowPending(h) \/ SaveRequested(h) \/ StopPosts(h) \/ ResumePosts(h)
               \/ PersistFreeRepo(h) \/ PersistNamedCommit(h)
      PROVE  Goal
  BY <1>5 DEF SaveFails, ShowPending, SaveRequested, StopPosts, ResumePosts, PersistFreeRepo,
              PersistNamedCommit
<1>6. ASSUME NEW h \in Handlers, NEW j \in Ids, Requests(h, j) PROVE Goal
  BY <1>6 DEF Requests, Report, StopCacheJob, ResumeCacheJob, DeleteCacheJob
<1>7. ASSUME NEW j \in Ids, CreateCacheJob(j) PROVE Goal
  BY <1>7 DEF CreateCacheJob
<1>8. ASSUME Restart PROVE Goal
  BY <1>1, <1>8 DEF Restart
<1>9. ASSUME DeleteRepository \/ UNCHANGED vars PROVE Goal
  BY <1>9 DEF DeleteRepository, vars
<1> QED
  BY <1>2, <1>3, <1>4, <1>5, <1>6, <1>7, <1>8, <1>9 DEF Next, Steps

\* A handler comes to save by taking a job that is the newest complete one, or without one,
\* or because an operator named a commit.
LEMMA BeginsToSave ==
  ASSUME TypeOK, [Next]_vars, NEW h \in Handlers, persistSync # h, persistSync' = h
  PROVE  /\ settled' = settled
         /\ handler'[h].op # "commit" /\ handler'[h].job \in Ids =>
              \A k \in Complete : k <= handler'[h].job
<1> DEFINE Goal == /\ settled' = settled
                   /\ handler'[h].op # "commit" /\ handler'[h].job \in Ids =>
                         \A k \in Complete : k <= handler'[h].job
<1>1. Free \notin Handlers /\ handler \in [Handlers -> HandlerStates] /\ Complete \subseteq Ids
  BY CacheJobAssumption DEF TypeOK, Complete
<1>2. PersistRepo(h) \/ PersistFreeRepo(h) \/ PersistNamedCommit(h)
  <2>1. ASSUME NEW g \in Handlers, PersistRepo(g) \/ PersistFreeRepo(g) \/ PersistNamedCommit(g)
        PROVE  g = h
    BY <1>1, <2>1 DEF PersistRepo, PersistFreeRepo, PersistNamedCommit
  <2>2. ASSUME NEW g \in Handlers, Steps(g), ~PersistRepo(g)
        PROVE  FALSE
    BY <1>1, <2>2 DEF Steps, ReportUpdate, SaveRepo, SaveFails, ShowPending, SaveRequested,
         StopMarks, StopPosts, StopUnreachable, ResumePosts, MarkCacheJobResumed, DeleteRow
  <2>3. ASSUME NEW g \in Handlers, NEW j \in Ids, Requests(g, j) PROVE FALSE
    BY <2>3 DEF Requests, Report, StopCacheJob, ResumeCacheJob, DeleteCacheJob
  <2>4. ~Restart /\ ~DeleteRepository /\ ~UNCHANGED vars /\ \A j \in Ids : ~CreateCacheJob(j)
    BY <1>1 DEF Restart, DeleteRepository, vars, CreateCacheJob
  <2> QED BY <2>1, <2>2, <2>3, <2>4 DEF Next
<1>3. CASE PersistRepo(h)
  <2>1. handler[h].job \in Ids /\ handler[h].op = "report" /\ handler[h] # Idle
    BY <1>3, Carries DEF PersistRepo, Ops
  <2>2. Go(h, "save") /\ settled' = settled /\ ~\E k \in Complete : k > handler[h].job
    BY <1>3 DEF PersistRepo
  <2>3. handler'[h].job = handler[h].job
    <3>1. handler[h] \in [op : {"report"}, job : Ids, step : {"update", "lock", "save", "failed"},
                          status : Statuses, pinned : BOOLEAN]
      BY <1>1, <2>1 DEF HandlerStates
    <3> QED BY <1>1, <2>2, <3>1 DEF Go
  <2> QED BY <1>1, <2>1, <2>2, <2>3 DEF Ids
<1>4. CASE PersistFreeRepo(h)
  <2>1. handler'[h].job = NewestCommit /\ settled' = settled
    BY <1>1, <1>4 DEF PersistFreeRepo, Start
  <2> QED BY <2>1, Newest
<1>5. CASE PersistNamedCommit(h)
  BY <1>1, <1>5 DEF PersistNamedCommit, Start
<1> QED BY <1>2, <1>3, <1>4, <1>5

LEMMA SavesNewestStep == IInv /\ [Next]_vars => SavesNewest'
<1> SUFFICES ASSUME IInv, [Next]_vars,
                    NEW h \in Handlers, handler'[h] # Idle, handler'[h].step = "save",
                    handler'[h].op # "commit", handler'[h].job \in Ids, NEW k \in settled'
             PROVE  k <= handler'[h].job
  BY DEF SavesNewest
<1>1. TypeOK /\ TypeOK' /\ SavesNewest /\ settled \subseteq Complete /\ Free \notin Handlers
  BY TypeStep, CacheJobAssumption DEF IInv, TypeOK
<1>2. persistSync' = h
  BY <1>1 DEF TypeOK
<1>3. CASE persistSync # h
  BY <1>1, <1>2, <1>3, BeginsToSave
<1>4. CASE persistSync = h
  <2>1. handler[h] # Idle /\ handler[h].step = "save"
    BY <1>1, <1>4 DEF TypeOK
  <2>2. settled' \subseteq settled
    BY <1>1, <1>2, <1>4, SettledGrows
  <2>3. handler'[h] = handler[h]
    <3>1. handler[h] \in HandlerStates /\ handler \in [Handlers -> HandlerStates]
      BY <1>1 DEF TypeOK
    <3>2. ASSUME NEW g \in Handlers, g # h,
                 Steps(g) \/ PersistFreeRepo(g) \/ PersistNamedCommit(g)
          PROVE  handler'[h] = handler[h]
      BY <3>1, <3>2 DEF Steps, ReportUpdate, PersistRepo, SaveRepo, SaveFails, ShowPending,
           StopMarks, StopPosts, StopUnreachable, ResumePosts, MarkCacheJobResumed, DeleteRow,
           SaveRequested, PersistFreeRepo, PersistNamedCommit, Acknowledge, Return, Go, Start
    <3>3. ASSUME NEW g \in Handlers, NEW j \in Ids, Requests(g, j) PROVE handler'[h] = handler[h]
      BY <2>1, <3>1, <3>3
         DEF Requests, Report, StopCacheJob, ResumeCacheJob, DeleteCacheJob, Start
    <3>4. ASSUME Steps(h) \/ PersistFreeRepo(h) \/ PersistNamedCommit(h) PROVE FALSE
      BY <1>1, <1>2, <1>4, <2>1, <3>4
         DEF Steps, ReportUpdate, PersistRepo, SaveRepo, SaveFails, ShowPending, StopMarks,
             StopPosts, StopUnreachable, ResumePosts, MarkCacheJobResumed, DeleteRow,
             SaveRequested, PersistFreeRepo, PersistNamedCommit, Doing
    <3>5. CASE Restart \/ DeleteRepository \/ UNCHANGED vars \/ \E j \in Ids : CreateCacheJob(j)
      BY <1>1, <1>2, <3>5 DEF Restart, DeleteRepository, vars, CreateCacheJob
    <3> QED BY <3>2, <3>3, <3>4, <3>5 DEF Next
  <2> QED BY <1>1, <2>1, <2>2, <2>3 DEF SavesNewest
<1> QED BY <1>3, <1>4
-----------------------------------------------------------------------------
LEMMA InitialInv == Init => IInv
BY CacheJobAssumption
   DEF Init, IInv, TypeOK, SavesNewest, JobRows, Unborn, HandlerStates, Complete

\* The inductive invariant holds in every reachable state.
THEOREM Invariance == Spec => []IInv
<1>1. Init => IInv
  BY InitialInv
<1>2. IInv /\ [Next]_vars => IInv'
  BY TypeStep, SavesNewestStep DEF IInv
<1> QED
  BY <1>1, <1>2, PTL DEF Spec

\* TypeOK, for every number of jobs and handlers.
THEOREM TypeCorrect == Spec => []TypeOK
BY Invariance, PTL DEF IInv

\* What a step may register.
RegistersNewest ==
  \A j \in settled : repo' # repo /\ repo' \in 1..(j - 1) =>
     \E h \in Handlers : Doing(h, "commit", "save") /\ handler[h].job = repo'

LEMMA RegistersNewestStep == IInv /\ [Next]_vars => RegistersNewest
<1> SUFFICES ASSUME IInv, [Next]_vars, NEW j \in settled, repo' # repo, repo' \in 1..(j - 1),
                    ~\E h \in Handlers : Doing(h, "commit", "save") /\ handler[h].job = repo'
             PROVE  FALSE
  BY DEF RegistersNewest
<1>1. TypeOK /\ SavesNewest /\ j \in Ids /\ NoRepo \notin Nat
  BY CacheJobAssumption DEF IInv, TypeOK, Complete
<1>2. repo' \in Ids /\ repo' < j
  BY <1>1, CacheJobAssumption DEF Ids
<1>3. ASSUME NEW h \in Handlers, SaveRepo(h) \/ SaveRequested(h) PROVE FALSE
  <2>1. repo' = handler[h].job /\ ~Doing(h, "commit", "save")
    BY <1>3 DEF SaveRepo, SaveRequested, Doing
  <2>2. Doing(h, "report", "save") \/ Doing(h, "persist", "save")
    BY <1>3, <2>1 DEF SaveRepo, SaveRequested
  <2>3. handler[h] # Idle /\ handler[h].step = "save" /\ handler[h].op # "commit"
    BY <1>1, <2>2, Carries DEF Ops
  <2> QED BY <1>1, <1>2, <2>1, <2>3 DEF SavesNewest, Ids
<1>4. ASSUME NEW h \in Handlers, Steps(h), ~SaveRepo(h), ~SaveRequested(h) PROVE FALSE
  BY <1>4 DEF Steps, ReportUpdate, PersistRepo, SaveFails, ShowPending, StopMarks, StopPosts,
              StopUnreachable, ResumePosts, MarkCacheJobResumed, DeleteRow
<1>5. ASSUME NEW h \in Handlers, NEW k \in Ids, Requests(h, k) PROVE FALSE
  BY <1>5 DEF Requests, Report, StopCacheJob, ResumeCacheJob, DeleteCacheJob
<1>6. ~DeleteRepository
  BY <1>1, <1>2 DEF DeleteRepository, Ids
<1> QED
  BY <1>3, <1>4, <1>5, <1>6
     DEF Next, CreateCacheJob, PersistFreeRepo, PersistNamedCommit, Restart, vars

\* The commit of a job older than a settled one is registered only if an operator named it.
THEOREM NeverStale == Spec => NoStaleRegistration
<1>1. RegistersNewest => [RegistersNewest]_vars
  OBVIOUS
<1> QED
  BY <1>1, RegistersNewestStep, Invariance, PTL DEF Spec, NoStaleRegistration, RegistersNewest

\* Which rows a step may show as running.
MayRun(j) ==
  jobs'[j].status = "ing" =>
    /\ jobs[j].status \notin {"complete", "stopping"}
    /\ jobs[j].status = "stop" =>
          \E h \in Handlers : Doing(h, "resume", "mark") /\ handler[h].job = j

LEMMA MayRunStep ==
  ASSUME TypeOK, [Next]_vars, NEW j \in Ids
  PROVE  MayRun(j)
<1> USE DEF MayRun
<1>0. jobs \in [Ids -> JobRows] /\ "ing" # "stop" /\ "ing" # "complete" /\ "ing" # "stopping"
  BY DEF TypeOK
<1>1. ASSUME jobs'[j].status \in {jobs[j].status, "stopping", "stop", "deleted"} PROVE MayRun(j)
  BY <1>1
<1>2. ASSUME NEW k \in Ids, NEW s \in Statuses, jobs' = StatusUpdate(k, s) PROVE MayRun(j)
  <2>1. CASE j = k /\ Exists(j) /\ (s = "ing" => jobs[j].status \in {"ing", "break", "wait"})
    <3>1. jobs'[j].status = s
      BY <1>0, <1>2, <2>1, JobKinds DEF StatusUpdate, LiveRows
    <3> QED BY <2>1, <3>1
  <2>2. CASE ~(j = k /\ Exists(j) /\ (s = "ing" => jobs[j].status \in {"ing", "break", "wait"}))
    <3>1. jobs'[j] = jobs[j]
      BY <1>0, <1>2, <2>2 DEF StatusUpdate
    <3> QED BY <1>1, <3>1
  <2> QED BY <2>1, <2>2
<1>3. ASSUME NEW h \in Handlers,
             ReportUpdate(h) \/ StopMarks(h) \/ StopUnreachable(h)
      PROVE  MayRun(j)
  <2>1. /\ handler[h].job \in Ids /\ {"stopping", "stop"} \subseteq Statuses
        /\ ReportUpdate(h) => handler[h].status \in Statuses
    BY <1>3, Carries DEF ReportUpdate, StopMarks, StopUnreachable, Ops, Statuses
  <2> QED BY <1>2, <1>3, <2>1 DEF ReportUpdate, StopMarks, StopUnreachable, SetJobs
<1>4. ASSUME NEW h \in Handlers, MarkCacheJobResumed(h) PROVE MayRun(j)
  <2>1. handler[h].job \in Ids /\ jobs' = MarkedResumed(handler[h].job)
    BY <1>4, Carries DEF MarkCacheJobResumed, SetJobs, Ops
  <2>2. CASE j = handler[h].job /\ jobs[j].status \in Resumable
    BY <1>4, <2>2 DEF MarkCacheJobResumed, Resumable
  <2>3. CASE ~(j = handler[h].job /\ jobs[j].status \in Resumable)
    BY <1>0, <1>1, <2>1, <2>3 DEF MarkedResumed
  <2> QED BY <2>2, <2>3
<1>5. ASSUME NEW h \in Handlers, DeleteRow(h) PROVE MayRun(j)
  <2>1. handler[h].job \in Ids
    BY <1>5, Carries DEF DeleteRow, Ops
  <2> QED BY <1>0, <1>1, <1>5, <2>1 DEF DeleteRow, SetJobs, Deleted
<1>6. ASSUME NEW h \in Handlers, ShowPending(h) PROVE MayRun(j)
  <2>1. handler[h].job \in Ids
    BY <1>6, Carries DEF ShowPending, Ops
  <2>2. jobs'[j].status = jobs[j].status
    BY <1>0, <1>6, <2>1, JobKinds DEF ShowPending, LiveRows
  <2> QED BY <1>1, <2>2
<1>7. ASSUME NEW k \in Ids, CreateCacheJob(k) PROVE MayRun(j)
  BY <1>0, <1>1, <1>7 DEF CreateCacheJob, Unborn
<1>8. ASSUME Restart PROVE MayRun(j)
  <2>1. jobs[j].status = "stopping" => jobs[j] \in LiveRows
    BY JobKinds DEF Exists, Statuses
  <2> QED BY <1>0, <1>1, <1>8, <2>1 DEF Restart, SetJobs, LiveRows
<1>9. ASSUME UNCHANGED jobs PROVE MayRun(j)
  BY <1>1, <1>9
<1> HIDE DEF MayRun
<1>10. ASSUME NEW h \in Handlers, NEW k \in Ids, Requests(h, k) PROVE MayRun(j)
  BY <1>9, <1>10 DEF Requests, Report, StopCacheJob, ResumeCacheJob, DeleteCacheJob
<1>11. ASSUME NEW h \in Handlers,
              PersistRepo(h) \/ SaveRepo(h) \/ SaveFails(h) \/ SaveRequested(h) \/ StopPosts(h)
                \/ ResumePosts(h) \/ PersistFreeRepo(h) \/ PersistNamedCommit(h)
       PROVE  MayRun(j)
  BY <1>9, <1>11 DEF PersistRepo, SaveRepo, SaveFails, SaveRequested, StopPosts, ResumePosts,
                     PersistFreeRepo, PersistNamedCommit
<1> QED
  BY <1>3, <1>4, <1>5, <1>6, <1>7, <1>8, <1>9, <1>10, <1>11
     DEF Next, Steps, DeleteRepository, vars

\* What is complete or being stopped is never shown as running again; what is stopped only by
\* its resume.
THEOREM StaysFinished == Spec => FinishedNotReopened
<1> DEFINE Kept == \A j \in Ids : MayRun(j)
<1>1. TypeOK /\ [Next]_vars => Kept
  BY MayRunStep
<1>2. Kept => [Kept]_vars
  OBVIOUS
<1> QED
  BY <1>1, <1>2, TypeCorrect, PTL DEF Spec, FinishedNotReopened, MayRun
-----------------------------------------------------------------------------
(* The process around them *)

\* A step of the process is one of the cache jobs, or repairs them, or ends all handlers.
LEMMA StepsOfJobs ==
  ASSUME [SystemNext]_systemVars
  PROVE  [Next]_vars \/ RepairJobs \/ Down
<1>1. ASSUME OfRow(RpcRequest) PROVE Next
  BY <1>1 DEF OfRow, RpcRequest, Next, Requests
<1>2. ASSUME OfRow(HttpRequest) PROVE Next
  BY <1>2 DEF OfRow, HttpRequest, Next, Requests
<1>3. ASSUME OfRow(\E h \in Handlers : PersistFreeRepo(h)) PROVE Next
  BY <1>3 DEF OfRow, Next
<1>4. ASSUME OfRow(\E h \in Handlers : Steps(h)) PROVE Next
  BY <1>4 DEF OfRow, Next
<1>5. ASSUME \/ \E r \in Rows : SpeedReports(r)
             \/ \E m \in Mounters : MountRepository(m) \/ ExecMountTask(m) \/ MountPosts(m)
                                    \/ MountMarks(m)
      PROVE  UNCHANGED vars
  BY <1>5 DEF SpeedReports, MountRepository, ExecMountTask, MountPosts, MountMarks
<1>6. ServeRpc \/ ServeHttp \/ Persist \/ HandlersRun => [Next]_vars
  BY <1>1, <1>2, <1>3, <1>4, <1>5 DEF ServeRpc, ServeHttp, Persist, HandlersRun, Serve
<1>7. ASSUME \/ Boot \/ Signal \/ RepairMounts \/ StartHttp \/ StartGrpc
             \/ WatcherLeaves \/ StopHttp \/ StopGrpc \/ UNCHANGED systemVars
      PROVE  UNCHANGED vars
  BY <1>7 DEF Boot, Signal, RepairMounts, StartHttp, StartGrpc, WatcherLeaves, StopHttp, StopGrpc,
              systemVars, allVars
<1> QED
  BY <1>6, <1>7 DEF SystemNext, AppStep, Crash, Exit

\* What is stopping is stopped by the repair.
LEMMA Repaired ==
  ASSUME TypeOK
  PROVE  /\ JobsRepaired \in [Ids -> JobRows]
         /\ \A j \in Ids : /\ JobsRepaired[j].status # "stopping"
                           /\ JobsRepaired[j].status \in {jobs[j].status, "stop"}
<1>1. ASSUME NEW j \in Ids, jobs[j].status = "stopping"
      PROVE  /\ [jobs[j] EXCEPT !.status = "stop", !.pending = FALSE] \in JobRows
             /\ [jobs[j] EXCEPT !.status = "stop", !.pending = FALSE].status = "stop"
  BY <1>1, JobKinds DEF JobRows, LiveRows, Exists, Statuses
<1> QED BY <1>1 DEF JobsRepaired, TypeOK

\* The repair and the end of the process keep the invariant of the cache jobs, and neither
\* registers anything or shows a job as running.
LEMMA RepairStep ==
  ASSUME IInv, RepairJobs \/ Down
  PROVE  IInv' /\ RegistersNewest /\ \A j \in Ids : MayRun(j)
<1>1. TypeOK /\ SavesNewest /\ Free \notin Handlers
  BY CacheJobAssumption DEF IInv
<1>2. CASE RepairJobs
  <2>1. UNCHANGED <<repo, handler, persistSync, owed>>
    BY <1>2 DEF RepairJobs
  <2>2. /\ jobs' \in [Ids -> JobRows] /\ settled' \subseteq Complete' /\ settled' \subseteq settled
        /\ \A j \in Ids : jobs'[j].status \in {jobs[j].status, "stop"}
    <3>1. CASE SetJobs(JobsRepaired)
      BY <1>1, <3>1, Repaired, SetJobsStep DEF SetJobs
    <3>2. CASE UNCHANGED <<jobs, settled>>
      BY <1>1, <3>2 DEF TypeOK, Complete
    <3> QED BY <1>2, <3>1, <3>2 DEF RepairJobs
  <2>3. TypeOK'
    BY <1>1, <2>1, <2>2 DEF TypeOK
  <2>4. SavesNewest'
    BY <1>1, <2>1, <2>2 DEF SavesNewest
  <2> QED BY <2>1, <2>2, <2>3, <2>4 DEF IInv, RegistersNewest, MayRun
<1>3. CASE Down
  <2>1. UNCHANGED <<jobs, repo, owed, settled>>
    BY <1>3 DEF Down
  <2>2. handler' = [h \in Handlers |-> Idle] /\ persistSync' = Free
    BY <1>3 DEF Down
  <2>3. TypeOK'
    BY <1>1, <2>1, <2>2 DEF TypeOK, HandlerStates, Complete
  <2>4. SavesNewest'
    BY <2>2 DEF SavesNewest
  <2> QED BY <2>1, <2>3, <2>4 DEF IInv, RegistersNewest, MayRun
<1> QED BY <1>2, <1>3

\* The same for every step of the process.
LEMMA JobsStep ==
  ASSUME IInv, [SystemNext]_systemVars
  PROVE  IInv' /\ RegistersNewest /\ \A j \in Ids : MayRun(j)
BY StepsOfJobs, RepairStep, TypeStep, SavesNewestStep, RegistersNewestStep, MayRunStep DEF IInv
-----------------------------------------------------------------------------
(* Mounts *)

MounterStates ==
  {Unemployed} \cup [step : {"post", "accepted", "refused", "lost"}, row : Nat]

MountTypeOK ==
  /\ row \in Nat \ {0}
  /\ mounter \in [Mounters -> MounterStates]

\* Rows by whose id somebody asks, or has asked, for a mount.
KnownRows ==
  speed \cup mounted \cup {mounter[m].row : m \in {n \in Mounters : mounter[n] # Unemployed}}

\* An id is never given again: the row that is there may have been mounted, the next one has
\* not, and nobody holds its id.
RowsAreNew == KnownRows \subseteq 1..row /\ (repo = NoRepo => row \notin KnownRows)

MountInv == MountTypeOK /\ RowsAreNew /\ MountedByReport

\* A step of the process registers or deletes the row, or works on its mount, or neither.
LEMMA StepsOfMounts ==
  ASSUME [SystemNext]_systemVars
  PROVE  \/ OfRow(TRUE)
         \/ \E r \in Rows : SpeedReports(r)
         \/ \E m \in Mounters : MountRepository(m) \/ MountPosts(m) \/ MountMarks(m)
         \/ RepairMounts
         \/ Down
         \/ UNCHANGED <<repo, mountVars>>
<1>1. ASSUME OfRow(RpcRequest) \/ OfRow(HttpRequest) \/ OfRow(\E h \in Handlers : PersistFreeRepo(h))
               \/ OfRow(\E h \in Handlers : Steps(h))
      PROVE  OfRow(TRUE)
  BY <1>1 DEF OfRow
<1>2. ASSUME NEW m \in Mounters, ExecMountTask(m) PROVE MountRepository(m)
  BY <1>2 DEF ExecMountTask
<1>3. ASSUME \/ Boot \/ Signal \/ RepairJobs \/ StartHttp \/ StartGrpc
             \/ WatcherLeaves \/ StopHttp \/ StopGrpc \/ UNCHANGED systemVars
      PROVE  UNCHANGED <<repo, mountVars>>
  BY <1>3 DEF Boot, Signal, RepairJobs, StartHttp, StartGrpc, WatcherLeaves, StopHttp, StopGrpc,
              systemVars, allVars, vars
<1> QED
  BY <1>1, <1>2, <1>3
     DEF SystemNext, AppStep, Crash, Exit, ServeRpc, ServeHttp, Persist, HandlersRun, Serve

LEMMA MountInvStep ==
  ASSUME MountInv, [SystemNext]_systemVars
  PROVE  MountInv'
<1>0. /\ row \in Nat /\ row # 0 /\ mounter \in [Mounters -> MounterStates]
      /\ KnownRows \subseteq 1..row /\ (repo = NoRepo => row \notin KnownRows)
      /\ mount = "complete" => row \in mounted
  BY DEF MountInv, MountTypeOK, RowsAreNew, MountedByReport
\* Who only hears of known rows, and leaves the row alone, keeps the ids new.
<1>1. ASSUME UNCHANGED <<row, repo>>, KnownRows' \subseteq KnownRows PROVE RowsAreNew'
  BY <1>0, <1>1 DEF RowsAreNew
<1>2. ASSUME UNCHANGED <<mounter, speed, mounted>> PROVE KnownRows' = KnownRows
  BY <1>2 DEF KnownRows
<1>3. CASE OfRow(TRUE)
  <2>1. MountTypeOK'
    BY <1>0, <1>3 DEF OfRow, MountTypeOK
  <2>2. RowsAreNew'
    <3>1. KnownRows' = KnownRows
      BY <1>2, <1>3 DEF OfRow
    <3>2. row' = IF repo # NoRepo /\ repo' = NoRepo THEN row + 1 ELSE row
      BY <1>3 DEF OfRow
    <3>3. CASE repo # NoRepo /\ repo' = NoRepo
      BY <1>0, <3>1, <3>2, <3>3 DEF RowsAreNew
    <3>4. CASE ~(repo # NoRepo /\ repo' = NoRepo)
      BY <1>0, <3>1, <3>2, <3>4 DEF RowsAreNew
    <3> QED BY <3>3, <3>4
  <2>3. MountedByReport'
    BY <1>0, <1>3 DEF OfRow, MountedByReport
  <2> QED BY <2>1, <2>2, <2>3 DEF MountInv
<1>4. ASSUME NEW r \in Rows, SpeedReports(r) PROVE MountInv'
  <2>1. UNCHANGED <<repo, row, mounter>> /\ r \in speed
    BY <1>4 DEF SpeedReports, vars
  <2>2. speed' \subseteq speed /\ mounted \subseteq mounted' /\ mounted' \subseteq mounted \cup {r}
    BY <1>4 DEF SpeedReports
  <2>3. KnownRows' \subseteq KnownRows
    BY <2>1, <2>2 DEF KnownRows
  <2>4. MountedByReport'
    <3>1. PICK s \in MountStates \ {"none"} :
             /\ UpdateRepositoryMountStatus(r, s)
             /\ mounted' = IF s = "complete" THEN mounted \cup {r} ELSE mounted
      BY <1>4 DEF SpeedReports
    <3> QED BY <1>0, <2>1, <3>1 DEF UpdateRepositoryMountStatus, MountedByReport
  <2> QED BY <1>0, <1>1, <2>1, <2>3, <2>4 DEF MountInv, MountTypeOK
<1>5. ASSUME NEW m \in Mounters, MountRepository(m) PROVE MountInv'
  <2>1. UNCHANGED <<repo, row, mount, speed, mounted>> /\ repo # NoRepo
        /\ mounter' = [mounter EXCEPT ![m] = [step |-> "post", row |-> row]]
    BY <1>5 DEF MountRepository, vars
  <2>2. MountTypeOK'
    BY <1>0, <2>1 DEF MountTypeOK, MounterStates
  <2>3. KnownRows' \subseteq KnownRows \cup {row}
    BY <1>0, <2>1 DEF KnownRows
  <2>4. RowsAreNew' /\ MountedByReport'
    BY <1>0, <2>1, <2>3 DEF RowsAreNew, MountedByReport
  <2> QED BY <2>2, <2>4 DEF MountInv
<1>6. ASSUME NEW m \in Mounters, MountPosts(m) PROVE MountInv'
  <2>1. mounter[m].step = "post" /\ UNCHANGED <<repo, row, mount, mounted>>
        /\ speed' \subseteq speed \cup {mounter[m].row}
        /\ \E s \in {"accepted", "lost", "refused"} : mounter' = [mounter EXCEPT ![m].step = s]
    BY <1>6 DEF MountPosts, MountStep, vars
  <2>2. mounter[m] # Unemployed /\ mounter[m] \in [step : {"post", "accepted", "refused", "lost"}, row : Nat]
    BY <1>0, <2>1 DEF MounterStates, Unemployed
  <2>3. /\ mounter' \in [Mounters -> MounterStates]
        /\ \A n \in Mounters : /\ mounter'[n] # Unemployed => mounter[n] # Unemployed
                               /\ mounter'[n] # Unemployed => mounter'[n].row = mounter[n].row
    BY <1>0, <2>1, <2>2 DEF MounterStates
  <2>4. KnownRows' \subseteq KnownRows
    BY <2>1, <2>2, <2>3 DEF KnownRows
  <2> QED BY <1>0, <1>1, <2>1, <2>3, <2>4 DEF MountInv, MountTypeOK, MountedByReport
<1>7. ASSUME NEW m \in Mounters, MountMarks(m) PROVE MountInv'
  <2>1. UNCHANGED <<repo, row, speed, mounted>> /\ mounter' = [mounter EXCEPT ![m] = Unemployed]
        /\ mount' \in {mount, "stop", "ing"}
    BY <1>7 DEF MountMarks, MountReturn, UpdateRepositoryMountStatus, vars
  <2>2. MountTypeOK' /\ KnownRows' \subseteq KnownRows
    BY <1>0, <2>1 DEF MountTypeOK, MounterStates, KnownRows
  <2> QED BY <1>0, <1>1, <2>1, <2>2 DEF MountInv, MountedByReport
<1>8. CASE RepairMounts
  <2>1. UNCHANGED <<repo, row, mounter, speed, mounted>> /\ mount' \in {mount, "stop"}
    BY <1>8 DEF RepairMounts, vars
  <2> QED BY <1>0, <1>1, <1>2, <2>1 DEF MountInv, MountTypeOK, MountedByReport
<1>9. CASE Down
  <2>1. UNCHANGED <<repo, row, mount, speed, mounted>> /\ mounter' = [m \in Mounters |-> Unemployed]
    BY <1>9 DEF Down
  <2>2. MountTypeOK' /\ KnownRows' \subseteq KnownRows
    BY <1>0, <2>1 DEF MountTypeOK, MounterStates, KnownRows
  <2> QED BY <1>0, <1>1, <2>1, <2>2 DEF MountInv, MountedByReport
<1>10. CASE UNCHANGED <<repo, mountVars>>
  <2>1. UNCHANGED <<repo, row, mount, mounter, speed, mounted>>
    BY <1>10 DEF mountVars
  <2> QED BY <1>0, <1>1, <1>2, <2>1 DEF MountInv, MountTypeOK, MountedByReport
<1> QED BY <1>3, <1>4, <1>5, <1>6, <1>7, <1>8, <1>9, <1>10, StepsOfMounts
-----------------------------------------------------------------------------
(* The repair at startup *)

StoppingJobs == {j \in Ids : jobs[j].status = "stopping"}

\* Nothing is left over for a process that runs; while it still repairs the mounts, no job is.
NothingInherited ==
  /\ StoppingIsOfThisProcess
  /\ process = "repair" => StoppingJobs \subseteq excused

LEMMA NothingInheritedStep ==
  ASSUME TypeOK, NothingInherited, [SystemNext]_systemVars
  PROVE  NothingInherited'
<1>0. Mount \notin Ids /\ StoppingJobs \subseteq Ids
      /\ Stopping = StoppingJobs \cup (IF mount = "stopping" THEN {Mount} ELSE {})
      /\ Stopping' = StoppingJobs' \cup (IF mount' = "stopping" THEN {Mount} ELSE {})
      /\ StoppingJobs' \subseteq Ids
  BY CacheJobAssumption DEF Mount, Ids, Stopping, StoppingJobs
<1>1. ASSUME UNCHANGED process, excused' = (excused \cap Stopping') \cup (Stopping' \ Stopping)
      PROVE  NothingInherited'
  <2>1. ASSUME process = "running" PROVE Stopping' \subseteq excused'
    BY <1>1, <2>1 DEF NothingInherited, StoppingIsOfThisProcess
  <2>2. ASSUME process = "repair" PROVE StoppingJobs' \subseteq excused'
    BY <1>0, <1>1, <2>2 DEF NothingInherited
  <2> QED BY <1>1, <2>1, <2>2 DEF NothingInherited, StoppingIsOfThisProcess
<1>2. CASE RepairJobs
  <2>1. process' = "repair"
    BY <1>2 DEF RepairJobs
  <2>2. CASE SetJobs(JobsRepaired)
    BY <2>1, <2>2, Repaired DEF SetJobs, StoppingJobs, NothingInherited, StoppingIsOfThisProcess
  <2>3. CASE UNCHANGED <<jobs, settled>> /\ excused' = StoppingJobs
    BY <2>1, <2>3 DEF StoppingJobs, NothingInherited, StoppingIsOfThisProcess
  <2> QED BY <1>2, <2>2, <2>3 DEF RepairJobs, StoppingJobs
<1>3. CASE RepairMounts
  <2>1. process = "repair" /\ process' = "running" /\ StoppingJobs' = StoppingJobs
    BY <1>3 DEF RepairMounts, vars, StoppingJobs
  <2>2. CASE mount' = (IF mount = "stopping" THEN "stop" ELSE mount) /\ UNCHANGED excused
    BY <1>0, <2>1, <2>2 DEF NothingInherited, StoppingIsOfThisProcess
  <2>3. CASE UNCHANGED mount /\ excused' = Stopping
    BY <1>0, <2>1, <2>3 DEF NothingInherited, StoppingIsOfThisProcess
  <2> QED BY <1>3, <2>2, <2>3 DEF RepairMounts
<1>4. CASE Boot \/ Down
  <2>1. process' \in {"wiring", "down"}
    BY <1>4 DEF Boot, Down
  <2> QED BY <2>1 DEF NothingInherited, StoppingIsOfThisProcess
<1>5. CASE \/ Signal \/ StartHttp \/ StartGrpc \/ WatcherLeaves \/ StopHttp \/ StopGrpc
           \/ UNCHANGED systemVars
  <2>1. UNCHANGED <<jobs, mount, process, excused>>
    BY <1>5 DEF Signal, StartHttp, StartGrpc, WatcherLeaves, StopHttp, StopGrpc, systemVars,
                processVars, allVars, vars, mountVars
  <2>2. StoppingJobs' = StoppingJobs /\ Stopping' = Stopping
    BY <2>1 DEF StoppingJobs, Stopping
  <2> QED BY <2>1, <2>2 DEF NothingInherited, StoppingIsOfThisProcess
<1>6. CASE ServeRpc \/ ServeHttp \/ Persist \/ HandlersRun
  BY <1>1, <1>6 DEF ServeRpc, ServeHttp, Persist, HandlersRun, Serve
<1> QED BY <1>2, <1>3, <1>4, <1>5, <1>6 DEF SystemNext, AppStep, Crash, Exit
-----------------------------------------------------------------------------
SystemInv == IInv /\ MountInv /\ NothingInherited

\* The inductive invariant of the process holds in every reachable state.
THEOREM SystemInvariance == SystemSpec => []SystemInv
<1>1. SystemInit => SystemInv
  <2> SUFFICES ASSUME SystemInit PROVE SystemInv
    OBVIOUS
  <2>1. Init
    BY DEF SystemInit, MountInit
  <2>2. IInv
    BY <2>1, InitialInv
  <2>3. MountInv
    BY DEF SystemInit, MountInit, MountInv, MountTypeOK, MounterStates, RowsAreNew, KnownRows,
           MountedByReport
  <2>4. NothingInherited
    BY DEF SystemInit, NothingInherited, StoppingIsOfThisProcess
  <2> QED BY <2>2, <2>3, <2>4 DEF SystemInv
<1>2. SystemInv /\ [SystemNext]_systemVars => SystemInv'
  BY JobsStep, MountInvStep, NothingInheritedStep DEF SystemInv, IInv
<1> QED
  BY <1>1, <1>2, PTL DEF SystemSpec

\* A repository that is shown as mounted was mounted, through any deletions, registrations,
\* late reports and lost answers, repairs and crashes of the process.
THEOREM MountsAreReported == SystemSpec => []MountedByReport
<1>1. SystemInv => MountedByReport
  BY DEF SystemInv, MountInv
<1> QED BY <1>1, SystemInvariance, PTL

\* The id of a row is never given again: when a repository has no row, nobody asks for the
\* mount of the row it gets next, and it was never mounted.
THEOREM RowsStayNew == SystemSpec => []RowsAreNew
<1>1. SystemInv => RowsAreNew
  BY DEF SystemInv, MountInv
<1> QED BY <1>1, SystemInvariance, PTL

\* What a process that serves shows as being stopped it has seen begin, or could not read.
THEOREM RepairsBeforeServing == SystemSpec => []StoppingIsOfThisProcess
<1>1. SystemInv => StoppingIsOfThisProcess
  BY DEF SystemInv, NothingInherited
<1> QED BY <1>1, SystemInvariance, PTL

\* Rows, registration and handlers hold values of their kind in the process too, ...
THEOREM SystemTypeCorrect == SystemSpec => []TypeOK
<1>1. SystemInv => TypeOK
  BY DEF SystemInv, IInv
<1> QED BY <1>1, SystemInvariance, PTL

\* ... the commit of a job older than a settled one is registered only if an operator named
\* it, ...
THEOREM SystemNeverStale == SystemSpec => NoStaleRegistration
<1>1. SystemInv /\ [SystemNext]_systemVars => [RegistersNewest]_vars
  BY JobsStep DEF SystemInv
<1> QED
  BY <1>1, SystemInvariance, PTL DEF SystemSpec, NoStaleRegistration, RegistersNewest

\* ... and what is finished stays so, whenever the process is started, ended or crashes.
THEOREM SystemStaysFinished == SystemSpec => FinishedNotReopened
<1> DEFINE Kept == \A j \in Ids : MayRun(j)
<1>1. SystemInv /\ [SystemNext]_systemVars => Kept
  BY JobsStep DEF SystemInv
<1>2. Kept => [Kept]_vars
  OBVIOUS
<1> QED
  BY <1>1, <1>2, SystemInvariance, PTL DEF SystemSpec, FinishedNotReopened, MayRun
=============================================================================
