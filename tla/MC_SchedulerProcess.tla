------------------------ MODULE MC_SchedulerProcess ------------------------
(* One job, one handler and one mounter; a repository registered twice.     *)
EXTENDS SchedulerProcess

CONSTANTS h1, m1
=============================================================================
