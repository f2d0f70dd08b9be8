-------------------------- MODULE SchedulerProcess --------------------------
(***************************************************************************)
(* The process of the scheduler: main and wireApp with the repair of jobs  *)
(* that were being stopped, App.Run of pkg/app/app.go with its HTTP and    *)
(* gRPC servers in an errgroup, App.Stop on a signal, and a crash at any   *)
(* moment.  The process serves the cache jobs and mounts of                *)
(* RepositoryMount: a request needs its server, a handler that has begun   *)
(* goes on until the process is gone, and the cron job of registration     *)
(* runs from before the repair.                                            *)
(***************************************************************************)
EXTENDS RepositoryMount

VARIABLES process, \* "down", "wiring" (wireApp), "repair" (of the mounts) or "running" (App.Run)
          http,    \* the HTTP server
          grpc,    \* the gRPC server
          watcher, \* the goroutine that waits for a signal
          excused  \* jobs, or Mount, being stopped that this process has seen begin, or failed
                   \* to read when it repaired them (history)

servers     == <<http, grpc, watcher>>
processVars == <<process, servers, excused>>
systemVars  == <<allVars, processVars>>

Mount    == 0   \* stands for the mount among the ids of jobs
Stopping == {j \in Ids : jobs[j].status = "stopping"} \cup
            (IF mount = "stopping" THEN {Mount} ELSE {})

SystemInit ==
  /\ MountInit
  /\ process = "down"
  /\ http = "off" /\ grpc = "off" /\ watcher = "off"
  /\ excused = {}
-----------------------------------------------------------------------------
(* Start *)

\* The process is gone, and with it its goroutines.
Down ==
  /\ process' = "down"
  /\ handler' = [h \in Handlers |-> Idle] /\ persistSync' = Free
  /\ mounter' = [m \in Mounters |-> Unemployed]
  /\ http' = "off" /\ grpc' = "off" /\ watcher' = "off"
  /\ excused' = {}
  /\ UNCHANGED <<jobs, repo, owed, settled, row, mount, speed, mounted>>

\* A crash, or a panic: an update of the repair failed, or the database was not there.
Crash == process # "down" /\ Down

Boot ==
  /\ process = "down"
  /\ process' = "wiring"
  /\ UNCHANGED <<allVars, servers, excused>>

\* Fault: the repair overlooks what is being stopped.
JobsRepaired_Nothing == jobs

JobsRepaired ==
  [j \in Ids |-> IF jobs[j].status = "stopping"
                 THEN [jobs[j] EXCEPT !.status = "stop", !.pending = FALSE] ELSE jobs[j]]

\* repairJobRunStatus: jobs first, then mounts.  A query that fails is only logged.
RepairJobs ==
  /\ process = "wiring"
  /\ process' = "repair"
  /\ \/ SetJobs(JobsRepaired) /\ UNCHANGED excused
     \/ UNCHANGED <<jobs, settled>> /\ excused' = {j \in Ids : jobs[j].status = "stopping"}
  /\ UNCHANGED <<repo, handler, persistSync, owed, mountVars, servers>>

RepairMounts ==
  /\ process = "repair"
  /\ process' = "running"
  /\ http' = "starting" /\ grpc' = "starting" /\ watcher' = "waiting"
  /\ \/ mount' = (IF mount = "stopping" THEN "stop" ELSE mount) /\ UNCHANGED excused
     \/ UNCHANGED mount /\ excused' = Stopping
  /\ UNCHANGED <<vars, row, mounter, speed, mounted>>
-----------------------------------------------------------------------------
(* App.Run *)

\* A server listens and serves, or fails and cancels the context of the group.  Shutdown may
\* have come before: then HTTP serves nothing, but gRPC has not heard of it.
StartHttp ==
  /\ process = "running" /\ http \in {"starting", "shutdown"}
  /\ http' \in {IF http = "starting" THEN "serving" ELSE "ended", "ended"}
  /\ UNCHANGED <<allVars, process, grpc, watcher, excused>>

StartGrpc ==
  /\ process = "running" /\ grpc = "starting"
  /\ grpc' \in {"serving", "ended"}
  /\ UNCHANGED <<allVars, process, http, watcher, excused>>

\* The goroutine of App.Run returns when the group is cancelled: nobody waits for a signal.
WatcherLeaves ==
  /\ process = "running" /\ watcher = "waiting"
  /\ http = "ended" \/ grpc = "ended"
  /\ watcher' = "returned"
  /\ UNCHANGED <<allVars, process, http, grpc, excused>>

\* App.Stop cancels the context, which is that of the shutdown too, and sleeps.
Signal ==
  /\ process = "running" /\ watcher = "waiting"
  /\ watcher' = "http"
  /\ UNCHANGED <<allVars, process, http, grpc, excused>>

\* Fault: App.Stop returns the first error.
StopHttp_ReturnsError ==
  /\ process = "running" /\ watcher = "http"
  /\ http' = CASE http = "starting" -> "shutdown" [] OTHER -> "ended"
  /\ watcher' \in {"grpc", "returned"}
  /\ UNCHANGED <<allVars, process, grpc, excused>>

\* Shutdown ends Serve at once.  Its context is cancelled: it does not wait for requests, and
\* the error it returns then is only logged.
StopHttp ==
  /\ process = "running" /\ watcher = "http"
  /\ http' = CASE http = "starting" -> "shutdown" [] OTHER -> "ended"
  /\ watcher' = "grpc"
  /\ UNCHANGED <<allVars, process, grpc, excused>>

\* There is no gRPC server to be stopped until it has been made.
StopGrpc ==
  /\ process = "running" /\ watcher = "grpc"
  /\ grpc' = IF grpc = "serving" THEN "ended" ELSE grpc
  /\ watcher' = "returned"
  /\ UNCHANGED <<allVars, process, http, excused>>

\* The group is through: Run returns, and main with it.
Exit ==
  /\ process = "running"
  /\ http = "ended" /\ grpc = "ended" /\ watcher = "returned"
  /\ Down

AppStep ==
  \/ RepairJobs \/ RepairMounts
  \/ StartHttp \/ StartGrpc
  \/ WatcherLeaves \/ StopHttp \/ StopGrpc \/ Exit
-----------------------------------------------------------------------------
(* What the process does for its clients *)

Serve(step) ==
  /\ step
  /\ excused' = (excused \cap Stopping') \cup (Stopping' \ Stopping)
  /\ UNCHANGED <<process, servers>>

ServeRpc ==
  /\ process = "running" /\ grpc = "serving"
  /\ Serve(OfRow(RpcRequest) \/ \E r \in Rows : SpeedReports(r))

ServeHttp ==
  /\ process = "running" /\ http = "serving"
  /\ Serve(OfRow(HttpRequest) \/ \E m \in Mounters : MountRepository(m) \/ ExecMountTask(m))

\* The cron job, and an API call without a commit.
Persist ==
  /\ process # "down"
  /\ Serve(OfRow(\E h \in Handlers : PersistFreeRepo(h)))

HandlersRun ==
  /\ process # "down"
  /\ Serve(\/ OfRow(\E h \in Handlers : Steps(h))
           \/ \E m \in Mounters : MountPosts(m) \/ MountMarks(m))

SystemNext ==
  \/ Boot \/ Crash \/ Signal
  \/ AppStep
  \/ ServeRpc \/ ServeHttp \/ Persist \/ HandlersRun

\* The goroutines of the process run on; whether it is started, signalled or crashes is open.
SystemSpec == SystemInit /\ [][SystemNext]_systemVars /\ WF_systemVars(AppStep)
-----------------------------------------------------------------------------
\* A job or mount that is shown as being stopped was seen so by the process that runs, so that
\* an answer of Speed or a handler is still to come: what the process before left behind was
\* repaired before the first request, unless a query of the repair failed.
StoppingIsOfThisProcess == process = "running" => Stopping \subseteq excused

\* A process that takes a signal ends, also when requests are on the way, when the HTTP
\* server has not begun to listen or has failed.  (Not so when the gRPC server is yet to be
\* made, and not when no signal is taken because one server has failed.)
SignalEnds == process = "running" /\ watcher = "http" /\ grpc # "starting" ~> process = "down"
=============================================================================
