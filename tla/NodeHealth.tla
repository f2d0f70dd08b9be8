------------------------------ MODULE NodeHealth ------------------------------
(***************************************************************************)
(* What the scheduler shows of a node's health: pkg/nodehealth/health.go   *)
(* over the time and the report that internal/dao/node_health_dao.go       *)
(* stores.  Time is discrete.  The node's clock is off by Skew; the node   *)
(* (external) observes one capability, sends one request at a time, every  *)
(* Period, and gives a request up after MaxDelay; a handler that has begun *)
(* may go on with it.  healthMu makes each handler's step atomic.          *)
(***************************************************************************)
EXTENDS Naturals, FiniteSets

CONSTANTS EvidenceWindow,  \* 120 s: how long an observation counts
          MinMaxAge,       \* 30 s: the least age at which a reporting node is disconnected
          SilentMaxAge,    \* 5 min: that age for a node without a report
          Period,          \* heartbeat_period_seconds
          MaxDelay,        \* a request is not delivered later than this
          Skew,            \* the node's clock is ahead of the scheduler's by this
          MaxRequests,     \* bound: requests under way, those given up included
          MaxTime,         \* bound: the time at which the model ends
          None             \* no report, no observation

ASSUME NodeHealthAssumption ==
  /\ {EvidenceWindow, MinMaxAge, SilentMaxAge, Skew, MaxRequests} \subseteq Nat
  /\ {Period, MaxTime} \subseteq Nat \ {0}
  /\ MaxDelay \in 0..Period

VARIABLES now,       \* the scheduler's clock
          node,      \* the node: whether it runs, its last sending, its observation
          requests,  \* heartbeats and registrations that were sent and not answered
          received,  \* dingospeed.updated_at
          report,    \* the entry of the map under healthMu
          stored,    \* the time that was stored together with the report
          missed     \* requests in a row that failed, 2 if more or if one came too late

tables == <<received, report, stored>>
vars   == <<now, node, requests, tables, missed>>

States       == {"healthy", "unresolved", "other"}
Observations == [at : 1..MaxTime, state : States]

\* Snapshots that Encode lets through, with the time of the observation for reference.
Snapshot(obs) ==
  [collected |-> now + Skew, last |-> IF obs = None THEN 0 ELSE obs.at + Skew,
   state |-> IF obs = None THEN "other" ELSE obs.state]

Init ==
  /\ now = 1
  /\ node = [up |-> FALSE, known |-> FALSE, sent |-> 0, observation |-> None]
  /\ requests = {}
  /\ received = 0 /\ report = None /\ stored = 0
  /\ missed = 2
-----------------------------------------------------------------------------
Larger(x, y) == IF x > y THEN x ELSE y

\* The age at which Present calls a node disconnected.
MaxAge == IF report = None THEN SilentMaxAge ELSE Larger(MinMaxAge, 3 * Period)

\* Fault: three periods are too many.
Communication_AtThree ==
  IF received = 0 \/ now - received >= MaxAge THEN "disconnected" ELSE "connected"

Communication ==
  IF received = 0 \/ now - received > MaxAge THEN "disconnected" ELSE "connected"

\* Fault: the age of the observation is taken between the two clocks.
Fresh_TwoClocks == report.last + EvidenceWindow >= now

\* The age of the observation when it was collected, by the node's clock, and the time
\* since it was received, by the scheduler's, are within the window together.
Fresh ==
  LET evidenceAge == report.collected - report.last
  IN  evidenceAge <= EvidenceWindow /\ now - received <= EvidenceWindow - evidenceAge

CapabilityStatus ==
  IF report = None THEN "unreported"
  ELSE IF report.state = "unresolved" THEN "unresolved"
  ELSE IF report.last > 0 /\ Fresh /\ report.state = "healthy" THEN "observed_healthy"
  ELSE "unknown"
-----------------------------------------------------------------------------
(* The node. *)

Outstanding == {q \in requests : ~q.late}

\* Time passes while the node, if it runs, owes no heartbeat and no request is overdue.
Tick ==
  /\ now < MaxTime
  /\ node.up => node.sent + Period > now
  /\ \A q \in Outstanding : q.sent + MaxDelay > now
  /\ now' = now + 1
  /\ UNCHANGED <<node, requests, tables, missed>>

Observe ==
  /\ node.up
  /\ \E s \in States : node' = [node EXCEPT !.observation = [at |-> now, state |-> s]]
  /\ UNCHANGED <<now, requests, tables, missed>>

Sent(op, snapshot) ==
  requests \cup {[op |-> op, sent |-> now, at |-> 0, late |-> FALSE, report |-> snapshot]}

\* A process starts and registers.
StartNode ==
  /\ ~node.up /\ now > node.sent /\ Cardinality(requests) < MaxRequests
  /\ node' = [up |-> TRUE, known |-> FALSE, sent |-> now, observation |-> None]
  /\ requests' = Sent("register", None)
  /\ UNCHANGED <<now, tables, missed>>

\* Its next request: a heartbeat, by older clients without a report, or the registration
\* again if the node was not told its id.
SendHeartbeat ==
  /\ node.up /\ Outstanding = {} /\ now = node.sent + Period
  /\ Cardinality(requests) < MaxRequests
  /\ node' = [node EXCEPT !.sent = now]
  /\ IF node.known
     THEN requests' \in {Sent("heartbeat", s) : s \in {None, Snapshot(node.observation)}}
     ELSE requests' = Sent("register", None)
  /\ UNCHANGED <<now, tables, missed>>

StopNode ==
  /\ node.up
  /\ node' = [node EXCEPT !.up = FALSE, !.observation = None]
  /\ requests' = {[q EXCEPT !.late = TRUE] : q \in {r \in requests : r.at # 0}}
  /\ missed' = 2
  /\ UNCHANGED <<now, tables>>

Missed == IF missed = 0 THEN 1 ELSE 2

\* The node's deadline passes; a handler that has begun does not stop at once.
GiveUp(q) ==
  /\ q \in Outstanding /\ now = q.sent + MaxDelay /\ q.at # 0
  /\ requests' = (requests \ {q}) \cup {[q EXCEPT !.late = TRUE]}
  /\ missed' = Missed
  /\ UNCHANGED <<now, node, tables>>
-----------------------------------------------------------------------------
(* The scheduler. *)

\* The Heartbeat handler takes the time before it waits for healthMu.
Receive(q) ==
  /\ q \in Outstanding /\ q.at = 0
  /\ requests' = (requests \ {q}) \cup {[q EXCEPT !.at = now]}
  /\ UNCHANGED <<now, node, tables, missed>>

Begun(q)    == q \in requests /\ q.at # 0
Done(q)     == requests' = requests \ {q}
Answered(q) == missed' = IF q.late THEN 2 ELSE 0

\* Fault: the report is stored although the UPDATE was not made.
HeartbeatHealth_NoTime(q) ==
  /\ Begun(q) /\ q.op = "heartbeat"
  /\ report' = q.report /\ stored' = received
  /\ Done(q) /\ Answered(q)
  /\ UNCHANGED <<now, node, received>>

\* HeartbeatHealth: the time, then the report or its absence.
HeartbeatHealth(q) ==
  /\ Begun(q) /\ q.op = "heartbeat"
  /\ received' = q.at /\ report' = q.report /\ stored' = q.at
  /\ Done(q) /\ Answered(q)
  /\ UNCHANGED <<now, node>>

\* RegisterUpdate takes the time under healthMu and deletes the report.
RegisterUpdate(q) ==
  /\ Begun(q) /\ q.op = "register"
  /\ received' = now /\ report' = None /\ stored' = now
  /\ Done(q) /\ Answered(q)
  /\ node' \in {node, [node EXCEPT !.known = ~q.late]}
  /\ UNCHANGED now

\* The UPDATE fails, or it takes effect and its answer is lost; the report is not touched.
UpdateFails(q) ==
  /\ Begun(q)
  /\ received' \in {received, IF q.op = "register" THEN now ELSE q.at}
  /\ Done(q)
  /\ missed' = IF q.late THEN 2 ELSE Missed
  /\ UNCHANGED <<now, node, report, stored>>

\* The request does not get there.
Lose(q) ==
  /\ q \in requests /\ q.at = 0
  /\ Done(q)
  /\ missed' = IF q.late THEN missed ELSE Missed
  /\ UNCHANGED <<now, node, tables>>

\* The scheduler restarts: the map is empty, the row stays.
Restart ==
  /\ report' = None /\ stored' = 0
  /\ requests' = {} /\ missed' = IF Outstanding = {} THEN missed ELSE Missed
  /\ UNCHANGED <<now, node, received>>

Next ==
  \/ Tick \/ Observe \/ StartNode \/ SendHeartbeat \/ StopNode \/ Restart
  \/ \E q \in requests :
        \/ GiveUp(q) \/ Receive(q) \/ Lose(q)
        \/ HeartbeatHealth(q) \/ RegisterUpdate(q) \/ UpdateFails(q)

Spec == Init /\ [][Next]_vars
-----------------------------------------------------------------------------
Snapshots ==
  [collected : Nat, last : Nat, state : States]
NodeStates ==
  [up : BOOLEAN, known : BOOLEAN, sent : 0..MaxTime, observation : Observations \cup {None}]
Requests ==
  [op : {"register", "heartbeat"}, sent : 1..MaxTime, at : 0..MaxTime, late : BOOLEAN,
   report : Snapshots \cup {None}]

\* Tables and requests hold values of their kind; no report is from the future.
TypeOK ==
  /\ now \in 1..MaxTime
  /\ node \in NodeStates
  /\ requests \subseteq Requests
  /\ received \in 0..MaxTime /\ stored \in 0..MaxTime
  /\ report \in Snapshots \cup {None}
  /\ report # None => report.last <= report.collected /\ report.collected <= stored + Skew
  /\ missed \in 0..2

\* What is shown as observed healthy was a success of the node no longer ago than the evidence
\* window and one delivery, whatever its clock says, if time and report are of one heartbeat.
HealthyIsRecent ==
  received = stored /\ CapabilityStatus = "observed_healthy" =>
     /\ report.state = "healthy"
     /\ now <= (report.last - Skew) + EvidenceWindow + MaxDelay

\* A node that keeps its period and loses no two requests in a row is never shown as
\* disconnected, deliveries and restarts of the scheduler included; without a report only if
\* its period is short enough for the fixed age.
NoFalseDisconnect ==
  node.up /\ missed <= 1 /\ (report # None \/ 3 * Period <= SilentMaxAge) =>
     Communication = "connected"
=============================================================================
