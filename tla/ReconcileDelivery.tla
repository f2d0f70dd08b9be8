-------------------------- MODULE ReconcileDelivery --------------------------
(***************************************************************************)
(* How a committed reconciliation task reaches its node:                   *)
(* internal/service/upload_report.go.  The operator's handler commits the  *)
(* task and then tries to deliver it; a failure starts a retry goroutine,  *)
(* one per (node, epoch); both die with the process, and the goroutine     *)
(* that runs at startup looks the unfinished tasks up.  "Delivery is only  *)
(* a wake-up": the node also learns its pending epoch when it connects.    *)
(*                                                                         *)
(* The tables are those of UploadInventory.  The node is external: it      *)
(* keeps the tasks it was told, may lose them, and sends a baseline or     *)
(* progress for any of them at any time.                                   *)
(***************************************************************************)
EXTENDS UploadInventory

VARIABLES calls,       \* ReconcileUploadInventory handlers between commit and their POST
          deliveries,  \* inventoryDeliveries: retry goroutines and what they do next
          resuming,    \* resumeInventoryReconciles has not read the tasks yet
          connected,   \* nodes that got the answer to their session request
          told         \* the tasks each node knows of

procVars     == <<calls, deliveries, resuming>>
nodeVars     == <<connected, told>>
deliveryVars == <<vars, procVars, nodeVars>>

Tasks == Nodes \X Epochs

InitDelivery ==
  /\ Init
  /\ calls = {} /\ deliveries = {} /\ resuming = TRUE
  /\ connected = {} /\ told = [n \in Nodes |-> {}]

Tell(n, e) == told' = [told EXCEPT ![n] = @ \cup {e}]

\* retryInventoryDelivery: LoadOrStore keeps a goroutine that runs already.
WithRetries(tasks) ==
  deliveries \cup {<<t[1], t[2], "check">> : t \in
                     {u \in tasks : <<u[1], u[2], "post">> \notin deliveries}}
-----------------------------------------------------------------------------
\* UploadReportSession, whether or not it allocates an epoch.
Session(n, explicit) ==
  \/ UploadReportSession(n, explicit)
  \/ n \in registered /\ ~NeedsNewEpoch(reportNode[n], explicit) /\ UNCHANGED vars

\* An operator's request: the task is committed before its delivery is tried.
ReconcileUploadInventory(n) ==
  /\ Session(n, TRUE)
  /\ calls' = calls \cup {<<n, reportNode'[n].pending>>}
  /\ UNCHANGED <<deliveries, resuming, nodeVars>>

\* Fault: the handler only reports the error.
HandlerDelivers_NoRetry(n, e) ==
  /\ <<n, e>> \in calls
  /\ calls' = calls \ {<<n, e>>}
  /\ UNCHANGED deliveries
  /\ Tell(n, e) \/ UNCHANGED told
  /\ UNCHANGED <<vars, resuming, connected>>

\* The handler's POST.  An error starts the retries; the node may have taken
\* the task even when its answer was lost.
HandlerDelivers(n, e) ==
  /\ <<n, e>> \in calls
  /\ calls' = calls \ {<<n, e>>}
  /\ \/ Tell(n, e) /\ UNCHANGED deliveries
     \/ (Tell(n, e) \/ UNCHANGED told) /\ deliveries' = WithRetries({<<n, e>>})
  /\ UNCHANGED <<vars, resuming, connected>>

\* The goroutine wakes up and reads the node's row: a task that is over ends it.
RetryChecks(n, e) ==
  /\ <<n, e, "check">> \in deliveries
  /\ deliveries' = (deliveries \ {<<n, e, "check">>}) \cup
                     (IF reportNode[n].pending = e THEN {<<n, e, "post">>} ELSE {})
  /\ UNCHANGED <<vars, calls, resuming, nodeVars>>

RetrySucceeds(n, e) ==
  /\ <<n, e, "post">> \in deliveries
  /\ deliveries' = deliveries \ {<<n, e, "post">>}
  /\ Tell(n, e)
  /\ UNCHANGED <<vars, calls, resuming, connected>>

\* Fault: the goroutine ends at its first error.
RetryFails_Once(n, e) ==
  /\ <<n, e, "post">> \in deliveries
  /\ deliveries' = deliveries \ {<<n, e, "post">>}
  /\ Tell(n, e) \/ UNCHANGED told
  /\ UNCHANGED <<vars, calls, resuming, connected>>

RetryFails(n, e) ==
  /\ <<n, e, "post">> \in deliveries
  /\ deliveries' = (deliveries \ {<<n, e, "post">>}) \cup {<<n, e, "check">>}
  /\ Tell(n, e) \/ UNCHANGED told
  /\ UNCHANGED <<vars, calls, resuming, connected>>

\* The process stops and starts: its goroutines are gone, the tables are not.
Restart ==
  /\ calls' = {} /\ deliveries' = {} /\ resuming' = TRUE
  /\ UNCHANGED <<vars, nodeVars>>

\* Fault: nodes without a pending task are not filtered out.
ResumeInventoryReconciles_All ==
  /\ resuming /\ resuming' = FALSE
  /\ deliveries' = WithRetries({<<n, reportNode[n].pending>> : n \in Nodes})
  /\ UNCHANGED <<vars, calls, nodeVars>>

ResumeInventoryReconciles ==
  /\ resuming /\ resuming' = FALSE
  /\ deliveries' = WithRetries({t \in Tasks : reportNode[t[1]].pending = t[2]})
  /\ UNCHANGED <<vars, calls, nodeVars>>

SchedulerStep ==
  \/ Restart
  \/ ResumeInventoryReconciles
  \/ \E n \in Nodes :
        \/ Register(n) /\ UNCHANGED <<procVars, nodeVars>>
        \/ ReconcileUploadInventory(n)
  \/ \E n \in Nodes, e \in Epochs :
        \/ HandlerDelivers(n, e)
        \/ RetryChecks(n, e) \/ RetrySucceeds(n, e) \/ RetryFails(n, e)
-----------------------------------------------------------------------------
\* A node connects and takes the pending task from the answer.
Connect(n) ==
  /\ n \notin connected
  /\ Session(n, FALSE)
  /\ connected' = connected \cup {n}
  /\ told' = [told EXCEPT ![n] = @ \cup ({reportNode'[n].pending} \cap Epochs)]
  /\ UNCHANGED procVars

\* The answer is lost: the session may have been allocated, the node does not know.
ConnectLost(n) ==
  /\ n \notin connected
  /\ UploadReportSession(n, FALSE)
  /\ UNCHANGED <<procVars, nodeVars>>

\* The node loses its tasks and will connect again.
Forget(n) ==
  /\ n \in connected
  /\ connected' = connected \ {n}
  /\ told' = [told EXCEPT ![n] = {}]
  /\ UNCHANGED <<vars, procVars>>

\* The node's baseline for a task it knows.
SendBaseline(n, e) ==
  /\ e \in told[n]
  /\ \E files \in Contents : ApplyBaseline([node |-> n, epoch |-> e, files |-> files])
  /\ UNCHANGED <<procVars, nodeVars>>

SendProgress(n, e) ==
  /\ e \in told[n]
  /\ \E s \in Progress : UploadReconcileProgress(n, e, s)
  /\ UNCHANGED <<procVars, nodeVars>>

NodeStep ==
  \/ \E n \in Nodes : Connect(n) \/ ConnectLost(n) \/ Forget(n)
  \/ \E n \in Nodes, e \in Epochs : SendBaseline(n, e) \/ SendProgress(n, e)

NextDelivery == SchedulerStep \/ NodeStep

\* Goroutines run on.  A node that has no session asks again until it is
\* answered, and its management port answers one of any endless series of
\* POSTs.  Operators, restarts and what a node does with a task are not fair.
Fairness ==
  /\ WF_deliveryVars(ResumeInventoryReconciles)
  /\ \A n \in Nodes : SF_deliveryVars(Connect(n))
  /\ \A n \in Nodes, e \in Epochs :
        /\ WF_deliveryVars(HandlerDelivers(n, e))
        /\ WF_deliveryVars(RetryChecks(n, e))
        /\ SF_deliveryVars(RetrySucceeds(n, e))
        /\ WF_deliveryVars(RetrySucceeds(n, e) \/ RetryFails(n, e))

SpecDelivery == InitDelivery /\ [][NextDelivery]_deliveryVars /\ Fairness
-----------------------------------------------------------------------------
\* The tables and the delivery state hold values of their kind, and every
\* goroutine is about a task that was issued.
TypeOKDelivery ==
  /\ TypeOK
  /\ calls \subseteq Nodes \X (1..issued)
  /\ deliveries \subseteq Nodes \X (1..issued) \X {"check", "post"}
  /\ resuming \in BOOLEAN
  /\ connected \subseteq registered
  /\ told \in [Nodes -> SUBSET (1..issued)]

\* A committed task is never left alone: at every moment its node knows of it, or a handler or
\* a retry goroutine is on its way, or startup has yet to look for it, or the
\* node has yet to connect and will be told then.
PendingIsPursued ==
  \A n \in Nodes : LET e == reportNode[n].pending IN
     e # NoEpoch =>
        \/ e \in told[n]
        \/ n \notin connected
        \/ <<n, e>> \in calls
        \/ \E step \in {"check", "post"} : <<n, e, step>> \in deliveries
        \/ resuming

\* Every task reaches its node or is over, whatever is lost on the way, unless the process
\* is restarted for ever.
TaskReachesNode ==
  \/ \A n \in Nodes, e \in Epochs :
        reportNode[n].pending = e ~> reportNode[n].pending # e \/ e \in told[n]
  \/ []<><<Restart>>_deliveryVars
=============================================================================
