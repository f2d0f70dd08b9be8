-------------------------- MODULE NodeHealth_proofs --------------------------
(***************************************************************************)
(* Theorems about NodeHealth for every window, period, delay and skew:     *)
(* what is shown healthy is recent, and a node in touch is not called      *)
(* disconnected.                                                           *)
(***************************************************************************)
EXTENDS NodeHealth, TLAPS

\* A request was received no later than MaxDelay after it was sent, and one that was not
\* received yet still can be.
RequestsInTime ==
  \A q \in requests :
     /\ q.sent <= now
     /\ q.at = 0 => ~q.late /\ now <= q.sent + MaxDelay
     /\ q.at # 0 => q.sent <= q.at /\ q.at <= q.sent + MaxDelay

\* A snapshot was collected when it was sent, after what it tells of.
SnapshotsInOrder ==
  /\ node.observation # None => node.observation.at <= now
  /\ \A q \in requests : q.report # None =>
        q.report.collected = q.sent + Skew /\ q.report.last <= q.report.collected

\* The report in the map was stored no later than MaxDelay after it was collected.
ReportInTime == report # None => stored + Skew <= report.collected + MaxDelay

\* The node is on schedule and has at most one request outstanding, its last.
Scheduled ==
  /\ ~node.up => Outstanding = {} /\ missed = 2
  /\ node.up => now <= node.sent + Period
  /\ \A q \in Outstanding : q.sent = node.sent /\ now <= q.sent + MaxDelay
  /\ \A q, r \in Outstanding : q = r

\* How old the stored time may be: a period for the request that is outstanding and another
\* for the one that was missed.
RowInTime ==
  /\ missed <= 1 => received > 0
  /\ missed = 0 /\ Outstanding = {}  => node.sent <= received
  /\ missed = 0 /\ Outstanding # {}  => node.sent <= received + Period
  /\ missed = 1 /\ Outstanding = {}  => node.sent <= received + Period
  /\ missed = 1 /\ Outstanding # {}  => node.sent <= received + 2 * Period
-----------------------------------------------------------------------------
\* A request that is sent is one, and keeps its kind when it is received or given up.
LEMMA SentIsRequest ==
  ASSUME TypeOK, NEW op \in {"register", "heartbeat"}, NEW s \in Snapshots \cup {None}
  PROVE  Sent(op, s) \subseteq Requests
<1>1. now \in 1..MaxTime /\ 0 \in 0..MaxTime /\ requests \subseteq Requests
  BY NodeHealthAssumption DEF TypeOK
<1>2. [op |-> op, sent |-> now, at |-> 0, late |-> FALSE, report |-> s] \in Requests
  BY <1>1 DEF Requests
<1> QED
  BY <1>1, <1>2 DEF Sent

LEMMA KeptIsRequest ==
  ASSUME NEW q \in Requests, NEW t \in 0..MaxTime
  PROVE  [q EXCEPT !.at = t] \in Requests /\ [q EXCEPT !.late = TRUE] \in Requests
BY DEF Requests

\* What a node sends of its observation is a snapshot.
LEMMA SnapshotIsOne ==
  ASSUME TypeOK
  PROVE  Snapshot(node.observation) \in Snapshots
<1>1. now + Skew \in Nat /\ node.observation \in Observations \cup {None}
  BY NodeHealthAssumption DEF TypeOK, NodeStates
<1>2. CASE node.observation = None
  BY <1>1, <1>2 DEF Snapshot, Snapshots, States
<1>3. CASE node.observation # None
  <2>1. node.observation.at + Skew \in Nat /\ node.observation.state \in States
    BY <1>1, <1>3, NodeHealthAssumption DEF Observations
  <2> QED
    BY <1>1, <1>3, <2>1 DEF Snapshot, Snapshots
<1> QED
  BY <1>2, <1>3

\* Type correctness is preserved by every step.
LEMMA TypeStep ==
  ASSUME TypeOK, RequestsInTime, SnapshotsInOrder, [Next]_vars
  PROVE  TypeOK'
<1> USE NodeHealthAssumption
<1>1. CASE Tick
  BY <1>1 DEF Tick, TypeOK, tables
<1>2. CASE Observe
  <2>1. PICK s \in States :
           node' = [node EXCEPT !.observation = [at |-> now, state |-> s]]
    BY <1>2 DEF Observe
  <2>2. [at |-> now, state |-> s] \in Observations
    BY DEF TypeOK, Observations
  <2>3. node' \in NodeStates
    BY <2>1, <2>2 DEF TypeOK, NodeStates
  <2> QED
    BY <1>2, <2>3 DEF Observe, TypeOK, tables
<1>3. CASE StartNode
  <2>1. node' \in NodeStates
    BY <1>3 DEF StartNode, TypeOK, NodeStates
  <2>2. requests' \subseteq Requests
    BY <1>3, SentIsRequest DEF StartNode
  <2> QED
    BY <1>3, <2>1, <2>2 DEF StartNode, TypeOK, tables
<1>4. CASE SendHeartbeat
  <2>1. node' \in NodeStates
    BY <1>4 DEF SendHeartbeat, TypeOK, NodeStates
  <2>2. requests' \subseteq Requests
    BY <1>4, SentIsRequest, SnapshotIsOne DEF SendHeartbeat
  <2> QED
    BY <1>4, <2>1, <2>2 DEF SendHeartbeat, TypeOK, tables
<1>5. CASE StopNode
  <2>1. node' \in NodeStates
    BY <1>5 DEF StopNode, TypeOK, NodeStates
  <2>2. \A q \in requests : [q EXCEPT !.late = TRUE] \in Requests
    BY KeptIsRequest DEF TypeOK
  <2> QED
    BY <1>5, <2>1, <2>2 DEF StopNode, TypeOK, tables
<1>6. CASE Restart
  BY <1>6 DEF Restart, Missed, TypeOK
<1>7. ASSUME NEW q \in requests, GiveUp(q) PROVE TypeOK'
  <2>1. [q EXCEPT !.late = TRUE] \in Requests
    BY KeptIsRequest DEF TypeOK
  <2>2. requests' \subseteq Requests
    BY <1>7, <2>1 DEF GiveUp, TypeOK
  <2> QED
    BY <1>7, <2>2 DEF GiveUp, Missed, TypeOK, tables
<1>8. ASSUME NEW q \in requests, Receive(q) PROVE TypeOK'
  <2>1. [q EXCEPT !.at = now] \in Requests
    <3>1. now \in 0..MaxTime /\ q \in Requests
      BY DEF TypeOK
    <3> QED
      BY <3>1, KeptIsRequest
  <2>2. requests' \subseteq Requests
    BY <1>8, <2>1 DEF Receive, TypeOK
  <2> QED
    <3>1. UNCHANGED <<now, node, tables, missed>>
      BY <1>8 DEF Receive
    <3> QED
      BY <2>2, <3>1 DEF TypeOK, tables
<1>9. ASSUME NEW q \in requests, Lose(q) PROVE TypeOK'
  BY <1>9 DEF Lose, Done, Missed, TypeOK, tables
<1>10. ASSUME NEW q \in requests, HeartbeatHealth(q) PROVE TypeOK'
  <2>1. q.at \in 0..MaxTime /\ q.report \in Snapshots \cup {None} /\ q.sent \in Nat
    BY DEF TypeOK, Requests
  <2>2. q.report # None => q.report.last <= q.report.collected /\ q.report.collected <= q.at + Skew
    BY <1>10, <2>1 DEF RequestsInTime, SnapshotsInOrder, HeartbeatHealth, Begun
  <2> QED
    BY <1>10, <2>1, <2>2 DEF HeartbeatHealth, Done, Answered, Begun, TypeOK
<1>11. ASSUME NEW q \in requests, RegisterUpdate(q) PROVE TypeOK'
  <2>1. node' \in NodeStates
    <3>1. q.late \in BOOLEAN
      BY DEF TypeOK, Requests
    <3> QED
      BY <1>11, <3>1 DEF RegisterUpdate, TypeOK, NodeStates
  <2> QED
    BY <1>11, <2>1 DEF RegisterUpdate, Done, Answered, Begun, TypeOK
<1>12. ASSUME NEW q \in requests, UpdateFails(q) PROVE TypeOK'
  <2>1. q.at \in 0..MaxTime
    BY DEF TypeOK, Requests
  <2> QED
    BY <1>12, <2>1 DEF UpdateFails, Done, Missed, TypeOK
<1>13. CASE UNCHANGED vars
  BY <1>13 DEF vars, tables, TypeOK
<1> QED
  BY <1>1, <1>2, <1>3, <1>4, <1>5, <1>6, <1>7, <1>8, <1>9, <1>10, <1>11, <1>12, <1>13 DEF Next

\* Deliveries stay in time: the clock waits for an overdue request.
LEMMA RequestsStep ==
  ASSUME TypeOK, RequestsInTime, [Next]_vars
  PROVE  RequestsInTime'
<1> USE NodeHealthAssumption DEF TypeOK, RequestsInTime, tables, Outstanding, Requests, NodeStates
<1>1. CASE Tick
  BY <1>1 DEF Tick
<1>2. CASE Observe
  BY <1>2 DEF Observe
<1>3. CASE StartNode
  BY <1>3 DEF StartNode, Sent
<1>4. CASE SendHeartbeat
  BY <1>4 DEF SendHeartbeat, Sent
<1>5. CASE StopNode
  BY <1>5 DEF StopNode
<1>6. CASE Restart
  BY <1>6 DEF Restart
<1>7. ASSUME NEW q \in requests, GiveUp(q) PROVE RequestsInTime'
  BY <1>7 DEF GiveUp
<1>8. ASSUME NEW q \in requests, Receive(q) PROVE RequestsInTime'
  BY <1>8 DEF Receive
<1>9. ASSUME NEW q \in requests, Lose(q) PROVE RequestsInTime'
  BY <1>9 DEF Lose, Done
<1>10. ASSUME NEW q \in requests, HeartbeatHealth(q) PROVE RequestsInTime'
  BY <1>10 DEF HeartbeatHealth, Done
<1>11. ASSUME NEW q \in requests, RegisterUpdate(q) PROVE RequestsInTime'
  BY <1>11 DEF RegisterUpdate, Done
<1>12. ASSUME NEW q \in requests, UpdateFails(q) PROVE RequestsInTime'
  BY <1>12 DEF UpdateFails, Done
<1>13. CASE UNCHANGED vars
  BY <1>13 DEF vars, tables
<1> QED
  BY <1>1, <1>2, <1>3, <1>4, <1>5, <1>6, <1>7, <1>8, <1>9, <1>10, <1>11, <1>12, <1>13 DEF Next

\* Snapshots stay in order.
LEMMA SnapshotsStep ==
  ASSUME TypeOK, SnapshotsInOrder, [Next]_vars
  PROVE  SnapshotsInOrder'
<1> USE NodeHealthAssumption DEF TypeOK, SnapshotsInOrder, tables, Snapshots, Requests, NodeStates, Observations
<1>1. CASE Tick
  BY <1>1 DEF Tick
<1>2. CASE Observe
  BY <1>2 DEF Observe
<1>3. CASE StartNode
  BY <1>3 DEF StartNode, Sent
<1>4. CASE SendHeartbeat
  BY <1>4 DEF SendHeartbeat, Sent, Snapshot
<1>5. CASE StopNode
  BY <1>5 DEF StopNode
<1>6. CASE Restart
  BY <1>6 DEF Restart
<1>7. ASSUME NEW q \in requests, GiveUp(q) PROVE SnapshotsInOrder'
  BY <1>7 DEF GiveUp
<1>8. ASSUME NEW q \in requests, Receive(q) PROVE SnapshotsInOrder'
  BY <1>8 DEF Receive
<1>9. ASSUME NEW q \in requests, Lose(q) PROVE SnapshotsInOrder'
  BY <1>9 DEF Lose, Done
<1>10. ASSUME NEW q \in requests, HeartbeatHealth(q) PROVE SnapshotsInOrder'
  BY <1>10 DEF HeartbeatHealth, Done
<1>11. ASSUME NEW q \in requests, RegisterUpdate(q) PROVE SnapshotsInOrder'
  BY <1>11 DEF RegisterUpdate, Done
<1>12. ASSUME NEW q \in requests, UpdateFails(q) PROVE SnapshotsInOrder'
  BY <1>12 DEF UpdateFails, Done
<1>13. CASE UNCHANGED vars
  BY <1>13 DEF vars, tables
<1> QED
  BY <1>1, <1>2, <1>3, <1>4, <1>5, <1>6, <1>7, <1>8, <1>9, <1>10, <1>11, <1>12, <1>13 DEF Next

\* The stored report stays in time.
LEMMA ReportStep ==
  ASSUME TypeOK, RequestsInTime, SnapshotsInOrder, ReportInTime, [Next]_vars
  PROVE  ReportInTime'
<1> USE NodeHealthAssumption DEF TypeOK, RequestsInTime, SnapshotsInOrder, ReportInTime, tables, Snapshots, Requests, NodeStates
<1>1. CASE Tick
  BY <1>1 DEF Tick
<1>2. CASE Observe
  BY <1>2 DEF Observe
<1>3. CASE StartNode
  BY <1>3 DEF StartNode
<1>4. CASE SendHeartbeat
  BY <1>4 DEF SendHeartbeat
<1>5. CASE StopNode
  BY <1>5 DEF StopNode
<1>6. CASE Restart
  BY <1>6 DEF Restart
<1>7. ASSUME NEW q \in requests, GiveUp(q) PROVE ReportInTime'
  BY <1>7 DEF GiveUp
<1>8. ASSUME NEW q \in requests, Receive(q) PROVE ReportInTime'
  BY <1>8 DEF Receive
<1>9. ASSUME NEW q \in requests, Lose(q) PROVE ReportInTime'
  BY <1>9 DEF Lose
<1>10. ASSUME NEW q \in requests, HeartbeatHealth(q) PROVE ReportInTime'
  BY <1>10 DEF HeartbeatHealth, Done, Begun
<1>11. ASSUME NEW q \in requests, RegisterUpdate(q) PROVE ReportInTime'
  BY <1>11 DEF RegisterUpdate
<1>12. ASSUME NEW q \in requests, UpdateFails(q) PROVE ReportInTime'
  BY <1>12 DEF UpdateFails
<1>13. CASE UNCHANGED vars
  BY <1>13 DEF vars, tables
<1> QED
  BY <1>1, <1>2, <1>3, <1>4, <1>5, <1>6, <1>7, <1>8, <1>9, <1>10, <1>11, <1>12, <1>13 DEF Next

-----------------------------------------------------------------------------
\* The node stays on schedule: it has one request outstanding, for less than a period.
LEMMA ScheduledStep ==
  ASSUME TypeOK, RequestsInTime, Scheduled, [Next]_vars
  PROVE  Scheduled'
<1> USE NodeHealthAssumption DEF RequestsInTime, Scheduled, Outstanding
<1>0. /\ now \in Nat /\ Period \in Nat \ {0} /\ MaxDelay \in Nat /\ MaxDelay <= Period
      /\ node \in [up : BOOLEAN, known : BOOLEAN, sent : Nat, observation : Observations \cup {None}]
      /\ requests \subseteq [op : {"register", "heartbeat"}, sent : Nat, at : Nat, late : BOOLEAN,
                             report : Snapshots \cup {None}]
  BY DEF TypeOK, NodeStates, Requests
<1>1. CASE Tick
  BY <1>0, <1>1 DEF Tick
<1>2. CASE Observe
  BY <1>0, <1>2 DEF Observe
<1>3. CASE StartNode
  <2>1. PICK r : r.sent = now /\ ~r.late /\ requests' = requests \cup {r}
    BY <1>3 DEF StartNode, Sent
  <2>2. Outstanding = {}
    BY <1>3 DEF StartNode
  <2>3. \A x \in Outstanding' : x = r
    BY <2>1, <2>2
  <2>4. node'.up /\ node'.sent = now /\ now' = now
    BY <1>0, <1>3 DEF StartNode
  <2> QED
    BY <1>0, <2>1, <2>3, <2>4
<1>4. CASE SendHeartbeat
  <2>1. PICK r : r.sent = now /\ ~r.late /\ requests' = requests \cup {r}
    BY <1>4 DEF SendHeartbeat, Sent
  <2>2. Outstanding = {}
    BY <1>4 DEF SendHeartbeat
  <2>3. \A x \in Outstanding' : x = r
    BY <2>1, <2>2
  <2>4. node'.up /\ node'.sent = now /\ now' = now
    BY <1>0, <1>4 DEF SendHeartbeat
  <2> QED
    BY <1>0, <2>1, <2>3, <2>4
<1>5. CASE StopNode
  BY <1>0, <1>5 DEF StopNode
<1>6. CASE Restart
  BY <1>0, <1>6 DEF Restart, Missed
<1>7. ASSUME NEW q \in requests, GiveUp(q) PROVE Scheduled'
  BY <1>0, <1>7 DEF GiveUp, Missed
<1>8. ASSUME NEW q \in requests, Receive(q) PROVE Scheduled'
  BY <1>0, <1>8 DEF Receive
<1>9. ASSUME NEW q \in requests, Lose(q) PROVE Scheduled'
  BY <1>0, <1>9 DEF Lose, Done, Missed
<1>10. ASSUME NEW q \in requests, HeartbeatHealth(q) PROVE Scheduled'
  BY <1>0, <1>10 DEF HeartbeatHealth, Done, Answered
<1>11. ASSUME NEW q \in requests, RegisterUpdate(q) PROVE Scheduled'
  BY <1>0, <1>11 DEF RegisterUpdate, Done, Answered
<1>12. ASSUME NEW q \in requests, UpdateFails(q) PROVE Scheduled'
  BY <1>0, <1>12 DEF UpdateFails, Done, Missed
<1>13. CASE UNCHANGED vars
  BY <1>13 DEF vars
<1> QED
  BY <1>1, <1>2, <1>3, <1>4, <1>5, <1>6, <1>7, <1>8, <1>9, <1>10, <1>11, <1>12, <1>13 DEF Next

\* The stored time is no older than the requests that were missed allow.
LEMMA RowStep ==
  ASSUME TypeOK, RequestsInTime, Scheduled, RowInTime, [Next]_vars
  PROVE  RowInTime'
<1> USE NodeHealthAssumption DEF RequestsInTime, Scheduled, RowInTime, Outstanding
<1>0. /\ now \in Nat \ {0} /\ Period \in Nat \ {0} /\ received \in Nat /\ missed \in {0, 1, 2}
      /\ node \in [up : BOOLEAN, known : BOOLEAN, sent : Nat, observation : Observations \cup {None}]
      /\ requests \subseteq [op : {"register", "heartbeat"}, sent : Nat, at : Nat, late : BOOLEAN,
                             report : Snapshots \cup {None}]
  BY DEF TypeOK, NodeStates, Requests
<1>1. CASE Tick
  BY <1>0, <1>1 DEF Tick, tables
<1>2. CASE Observe
  BY <1>0, <1>2 DEF Observe, tables
<1>3. CASE StartNode
  BY <1>0, <1>3 DEF StartNode, tables
<1>4. CASE SendHeartbeat
  <2>1. PICK r : ~r.late /\ requests' = requests \cup {r}
    BY <1>4 DEF SendHeartbeat, Sent
  <2>2. Outstanding = {} /\ Outstanding' # {}
    BY <1>4, <2>1 DEF SendHeartbeat
  <2>3. node'.sent = node.sent + Period /\ UNCHANGED <<received, missed>>
    BY <1>0, <1>4 DEF SendHeartbeat, tables
  <2> QED
    BY <1>0, <2>2, <2>3 DEF RowInTime
<1>5. CASE StopNode
  BY <1>0, <1>5 DEF StopNode
<1>6. CASE Restart
  BY <1>0, <1>6 DEF Restart, Missed
<1>7. ASSUME NEW q \in requests, GiveUp(q) PROVE RowInTime'
  BY <1>0, <1>7 DEF GiveUp, Missed, tables
<1>8. ASSUME NEW q \in requests, Receive(q) PROVE RowInTime'
  <2>1. Outstanding' # {} /\ Outstanding # {}
    <3>1. ~q.late /\ [q EXCEPT !.at = now] \in requests'
      BY <1>8 DEF Receive
    <3>2. ~[q EXCEPT !.at = now].late
      BY <1>0, <3>1
    <3> QED
      BY <3>1, <3>2
  <2>2. UNCHANGED <<node, received, missed>>
    BY <1>8 DEF Receive, tables
  <2> QED
    BY <1>0, <2>1, <2>2 DEF RowInTime
<1>9. ASSUME NEW q \in requests, Lose(q) PROVE RowInTime'
  BY <1>0, <1>9 DEF Lose, Done, Missed, tables
<1>10. ASSUME NEW q \in requests, HeartbeatHealth(q) PROVE RowInTime'
  BY <1>0, <1>10 DEF HeartbeatHealth, Done, Answered, Begun
<1>11. ASSUME NEW q \in requests, RegisterUpdate(q) PROVE RowInTime'
  BY <1>0, <1>11 DEF RegisterUpdate, Done, Answered, Begun
<1>12. ASSUME NEW q \in requests, UpdateFails(q) PROVE RowInTime'
  BY <1>0, <1>12 DEF UpdateFails, Done, Missed, Begun
<1>13. CASE UNCHANGED vars
  BY <1>13 DEF vars, tables
<1> QED
  BY <1>1, <1>2, <1>3, <1>4, <1>5, <1>6, <1>7, <1>8, <1>9, <1>10, <1>11, <1>12, <1>13 DEF Next
-----------------------------------------------------------------------------
IInv ==
  /\ TypeOK /\ RequestsInTime /\ SnapshotsInOrder /\ ReportInTime
  /\ Scheduled /\ RowInTime

\* The inductive invariant of the stored time, the report and what is under way.
THEOREM Invariance == Spec => []IInv
<1>1. Init => IInv
  BY NodeHealthAssumption
     DEF Init, IInv, TypeOK, NodeStates, RequestsInTime, SnapshotsInOrder, ReportInTime,
         Scheduled, RowInTime, Outstanding
<1>2. IInv /\ [Next]_vars => IInv'
  BY TypeStep, RequestsStep, SnapshotsStep, ReportStep, ScheduledStep, RowStep DEF IInv
<1> QED
  BY <1>1, <1>2, PTL DEF Spec

\* Tables, requests and times are always of their kind.
THEOREM TypeCorrect == Spec => []TypeOK
BY Invariance, PTL DEF IInv

\* What is shown as observed healthy was so within the window and one delivery, whatever the
\* difference of the clocks.
THEOREM ShownHealthIsRecent == Spec => []HealthyIsRecent
<1>1. IInv => HealthyIsRecent
  <2> SUFFICES ASSUME IInv, received = stored, CapabilityStatus = "observed_healthy"
               PROVE  report.state = "healthy" /\
                      now <= (report.last - Skew) + EvidenceWindow + MaxDelay
    BY DEF HealthyIsRecent
  <2>1. report # None /\ report.state = "healthy" /\ Fresh
    BY DEF CapabilityStatus
  <2>2. /\ now \in Nat /\ received \in Nat /\ stored \in Nat /\ Skew \in Nat
        /\ MaxDelay \in Nat /\ EvidenceWindow \in Nat
        /\ report.collected \in Nat /\ report.last \in Nat
    BY <2>1, NodeHealthAssumption DEF IInv, TypeOK, Snapshots
  <2>3. now - received <= EvidenceWindow - (report.collected - report.last)
    BY <2>1 DEF Fresh
  <2>4. stored + Skew <= report.collected + MaxDelay
    BY <2>1 DEF IInv, ReportInTime
  <2> QED
    BY <2>1, <2>2, <2>3, <2>4
<1> QED
  BY <1>1, Invariance, PTL

\* A node that misses no two requests in a row is never shown as disconnected.
THEOREM InTouchIsConnected == Spec => []NoFalseDisconnect
<1>1. IInv => NoFalseDisconnect
  <2> SUFFICES ASSUME IInv, node.up, missed <= 1, report # None \/ 3 * Period <= SilentMaxAge
               PROVE  Communication = "connected"
    BY DEF NoFalseDisconnect
  <2>1. /\ now \in Nat /\ received \in Nat /\ missed \in Nat /\ node.sent \in Nat
        /\ Period \in Nat /\ MaxDelay \in Nat /\ MaxDelay <= Period
        /\ MinMaxAge \in Nat /\ SilentMaxAge \in Nat
    BY NodeHealthAssumption DEF IInv, TypeOK, NodeStates
  <2>2. 3 * Period <= MaxAge
    BY <2>1 DEF MaxAge, Larger
  <2>3. MaxAge \in Nat
    BY <2>1 DEF MaxAge, Larger
  <2>4. received > 0 /\ now <= received + 3 * Period
    <3>1. CASE Outstanding = {}
      BY <2>1, <3>1 DEF IInv, Scheduled, RowInTime
    <3>2. CASE Outstanding # {}
      BY <2>1, <3>2 DEF IInv, Scheduled, RowInTime
    <3> QED
      BY <3>1, <3>2
  <2> QED
    BY <2>1, <2>2, <2>3, <2>4 DEF Communication
<1> QED
  BY <1>1, Invariance, PTL
=============================================================================
