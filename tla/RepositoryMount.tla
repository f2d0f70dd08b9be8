--------------------------- MODULE RepositoryMount ---------------------------
(***************************************************************************)
(* Mounting a repository into the public directory of its node, together   *)
(* with the registration that writes the row the mount status is kept in:  *)
(* MountRepository of internal/service/repository_service.go, which an     *)
(* operator asks for or ExecWaitTask, UpdateRepositoryMountStatus, with    *)
(* which every status is stored, also what Speed reports.                  *)
(*                                                                         *)
(* CacheJob supplies registration and deletion.  A row that is deleted and *)
(* registered anew has a new id and no mount; one that is registered again *)
(* keeps both.  SchedulerProcess has the next-state relation.              *)
(***************************************************************************)
EXTENDS CacheJob

CONSTANTS MaxRows,  \* bound: repository rows ever written
          Mounters  \* goroutines that serve MountRepository

ASSUME MountAssumption == MaxRows \in Nat \ {0}

VARIABLES row,      \* id of the repository row, or of the next one while there is none
          mount,    \* its status column; "none" is 0, the default
          mounter,  \* what each goroutine does
          speed,    \* external: rows whose mount Speed accepted and has not ended
          mounted   \* rows whose mount Speed completed (history)

mountVars == <<row, mount, mounter, speed, mounted>>
allVars   == <<vars, mountVars>>

Rows        == 1..MaxRows
MountStates == {"none", "ing", "break", "complete", "stopping", "stop", "wait"}
Unemployed  == [step |-> "idle"]

MountInit ==
  /\ Init
  /\ row = 1 /\ mount = "none"
  /\ mounter = [m \in Mounters |-> Unemployed]
  /\ speed = {} /\ mounted = {}
-----------------------------------------------------------------------------
MountStep(m, step) == mounter' = [mounter EXCEPT ![m].step = step]
MountReturn(m)     == mounter' = [mounter EXCEPT ![m] = Unemployed]

\* Fault: the row is found by its coordinates, not by its id.
UpdateRepositoryMountStatus_ByCoordinates(r, s) == mount' = IF repo # NoRepo THEN s ELSE mount

\* One UPDATE of the row with this id, whatever its status is now.
UpdateRepositoryMountStatus(r, s) == mount' = IF repo # NoRepo /\ r = row THEN s ELSE mount

\* The row is read by id.  Get does not select the status, so that the guard sees 0, the
\* default, and lets every mount pass.
MountRepository(m) ==
  /\ mounter[m] = Unemployed
  /\ repo # NoRepo
  /\ mounter' = [mounter EXCEPT ![m] = [step |-> "post", row |-> row]]
  /\ UNCHANGED <<vars, row, mount, speed, mounted>>

\* Speed is asked; what it refuses with an HTTP status looks accepted, and a request whose
\* answer is lost may have been accepted.
MountPosts(m) ==
  /\ mounter[m].step = "post"
  /\ \/ speed' = speed \cup {mounter[m].row} /\ (MountStep(m, "accepted") \/ MountStep(m, "lost"))
     \/ UNCHANGED speed /\ (MountStep(m, "refused") \/ MountStep(m, "lost"))
  /\ UNCHANGED <<vars, row, mount, mounted>>

\* An error of the request stops the mount, as far as the row is concerned; "ing" may be
\* written after Speed has reported the end.
MountMarks(m) ==
  /\ mounter[m].step \in {"accepted", "refused", "lost"}
  /\ UpdateRepositoryMountStatus(mounter[m].row, IF mounter[m].step = "lost" THEN "stop" ELSE "ing")
  /\ MountReturn(m)
  /\ UNCHANGED <<vars, row, speed, mounted>>

\* Speed's reports about a mount it accepted, and about the end of it.
SpeedReports(r) ==
  /\ r \in speed
  /\ \E s \in MountStates \ {"none"} :
        /\ UpdateRepositoryMountStatus(r, s)
        /\ speed' = IF s \in {"break", "complete", "stop"} THEN speed \ {r} ELSE speed
        /\ mounted' = IF s = "complete" THEN mounted \cup {r} ELSE mounted
  /\ UNCHANGED <<vars, row, mounter>>

\* ExecWaitTask asks for what broke or waits, with a row it has read before.
ExecMountTask(m) == mount \in {"break", "wait"} /\ MountRepository(m)
-----------------------------------------------------------------------------
(* What the steps of CacheJob do to the row. *)

\* An update of the row leaves its id and mount alone; a new row has the next id.
OfRow(CacheJobStep) ==
  /\ CacheJobStep
  /\ row' = IF repo # NoRepo /\ repo' = NoRepo THEN row + 1 ELSE row
  /\ mount' = IF repo' = NoRepo THEN "none" ELSE mount
  /\ UNCHANGED <<mounter, speed, mounted>>

\* What Speed asks of the scheduler, and what its operators ask.
RpcRequest ==
  \/ \E j \in Ids : \/ CreateCacheJob(j)
                    \/ \E h \in Handlers, s \in Statuses \ {"stopping"} : Report(h, j, s)
  \/ row < MaxRows /\ DeleteRepository

HttpRequest ==
  \E h \in Handlers :
     \/ \E j \in Ids : StopCacheJob(h, j) \/ ResumeCacheJob(h, j) \/ DeleteCacheJob(h, j)
     \/ PersistNamedCommit(h)
-----------------------------------------------------------------------------
\* A repository that is shown as mounted was mounted: Speed completed the mount of this row,
\* not of one that had its name before it was deleted and registered again.
MountedByReport == mount = "complete" => row \in mounted
=============================================================================
