---------------------------- MODULE NodeRegistry ----------------------------
(***************************************************************************)
(* Registration and heartbeats of one Speed instance: Register, Heartbeat  *)
(* and updateCache of internal/service/scheduler_service.go over           *)
(* internal/dao/dingospeed_dao.go, node_health_dao.go and node_endpoint.go,*)
(* and the two ways to pick the instance's management endpoint.            *)
(*                                                                         *)
(* An instance has a row of dingospeed for each running mode.  Its process *)
(* is replaced by others, in the same mode or not; each has its own URL    *)
(* and health, so the number of the process stands for both.  Requests of  *)
(* a process that is gone may still be under way.  A host is not modelled: *)
(* it is stored with the row, and the cached copy is not refreshed.        *)
(***************************************************************************)
EXTENDS Naturals, Sequences

CONSTANTS Handlers,      \* goroutines that serve a request
          MaxRows,       \* bound: rows ever inserted into dingospeed
          MaxProcesses,  \* bound: processes the instance ever runs
          Advertising    \* the processes that advertise an endpoint; older versions do not

ASSUME NodeRegistryAssumption ==
  MaxRows \in Nat /\ MaxProcesses \in Nat /\ Advertising \subseteq 1..MaxProcesses

VARIABLES processes,  \* the mode of each process of the node, the running one last (external)
          known,      \* the id the running process was told, 0 for none (external)
          standing,   \* what is known of it: registered when no request of an earlier process was
                      \* under way any more, and settled by a heartbeat since
          rows,       \* dingospeed: the mode of each row, by id
          recency,    \* the order of updated_at: <<i, j>> when row i was updated before row j, or is
                      \* row j and was updated at all
          endpoint,   \* node_endpoints: the process whose URL an id has, 0 for none
          health,     \* the map under healthMu: the process whose report an id has, 0 for none
          cache,      \* the cached id of each mode, 0 for none
          handler     \* what each goroutine does

node   == <<processes, known>>
tables == <<rows, recency, endpoint>>
vars   == <<processes, known, standing, tables, health, cache, handler>>

Modes   == {"online", "offline"}
Idle    == [op |-> "idle"]
Ids     == 1..MaxRows
Current == Len(processes)
IdsOf(mode) == {i \in DOMAIN rows : rows[i] = mode}

Init ==
  /\ processes = <<>> /\ known = 0 /\ standing = "unknown"
  /\ rows = <<>> /\ recency = {}
  /\ endpoint = [i \in Ids |-> 0] /\ health = [i \in Ids |-> 0]
  /\ cache = [m \in Modes |-> 0]
  /\ handler = [h \in Handlers |-> Idle]
-----------------------------------------------------------------------------
\* The node's process is replaced.  It takes longer to start than updated_at resolves.
Boot ==
  /\ Current < MaxProcesses
  /\ \E mode \in Modes : processes' = Append(processes, mode)
  /\ known' = 0 /\ standing' = "unknown"
  /\ UNCHANGED <<tables, health, cache, handler>>

Doing(h, step) == handler[h] # Idle /\ handler[h].step = step
ModeOf(h)      == processes[handler[h].process]
Return(h)      == handler' = [handler EXCEPT ![h] = Idle]
Go(h, step)    == handler' = [handler EXCEPT ![h].step = step]

\* No request of an earlier process is under way.
NothingOlder == \A g \in Handlers : handler[g] # Idle => handler[g].process = Current

\* A heartbeat for the id it was told settles the process, if no other request is under way
\* but such heartbeats.
Settled(h) ==
  IF /\ standing = "registered"
     /\ \A g \in Handlers : handler[g] # Idle =>
           handler[g].op = "heartbeat" /\ handler[g].process = Current /\ handler[g].id = known
  THEN "settled" ELSE standing

\* The rows that have an updated_at: a row without one is never recent enough to be a source.
Dated == {i \in Ids : <<i, i>> \in recency}

\* updated_at of the row is set to now.
Touched(id) ==
  {p \in recency : id \notin {p[1], p[2]}} \cup {<<i, id>> : i \in Dated \cup {id}}
-----------------------------------------------------------------------------
Register(h) ==
  /\ Current > 0 /\ handler[h] = Idle
  /\ handler' = [handler EXCEPT ![h] =
                   [op |-> "register", process |-> Current, step |-> "get", id |-> 0,
                    first |-> NothingOlder]]
  /\ standing' = "unknown"
  /\ UNCHANGED <<node, tables, health, cache>>

\* Fault: the cache key leaves the mode out.
GetEntity_AnyMode(mode) ==
  IF cache[mode] # 0 THEN {cache[mode]}
  ELSE IF rows = <<>> THEN {0} ELSE DOMAIN rows

\* GetEntity: the cached row, else the first the database returns, in no given order, which is
\* then cached; 0 when there is none.
GetEntity(mode) ==
  IF cache[mode] # 0 THEN {cache[mode]}
  ELSE IF IdsOf(mode) = {} THEN {0} ELSE IdsOf(mode)

RegisterLooksUp(h) ==
  /\ Doing(h, "get")
  /\ \E id \in GetEntity(ModeOf(h)) :
        /\ cache' = [cache EXCEPT ![ModeOf(h)] = id]
        /\ handler' = [handler EXCEPT ![h].id = id, ![h].step = "write"]
  /\ UNCHANGED <<node, standing, tables, health>>

AfterWrite(h) == IF handler[h].process \in Advertising THEN "endpoint" ELSE "cache"

\* Fault: the id of the inserted row is not taken.
Save_NoId(h) ==
  /\ Doing(h, "write") /\ handler[h].id = 0
  /\ Len(rows) < MaxRows
  /\ rows' = Append(rows, ModeOf(h))
  /\ recency' \in {recency, Touched(Len(rows'))}
  /\ Go(h, AfterWrite(h))
  /\ UNCHANGED <<node, standing, endpoint, health, cache>>

\* The INSERT leaves updated_at to the column's default, now or null.
Save(h) ==
  /\ Doing(h, "write") /\ handler[h].id = 0
  /\ Len(rows) < MaxRows
  /\ rows' = Append(rows, ModeOf(h))
  /\ recency' \in {recency, Touched(Len(rows'))}
  /\ handler' = [handler EXCEPT ![h].id = Len(rows'), ![h].step = AfterWrite(h)]
  /\ UNCHANGED <<node, standing, endpoint, health, cache>>

\* Fault: the health of the process before stays.
RegisterUpdate_KeepHealth(h) ==
  /\ Doing(h, "write") /\ handler[h].id # 0
  /\ recency' = Touched(handler[h].id)
  /\ Go(h, AfterWrite(h))
  /\ UNCHANGED <<node, standing, rows, endpoint, health, cache>>

RegisterUpdate(h) ==
  /\ Doing(h, "write") /\ handler[h].id # 0
  /\ recency' = Touched(handler[h].id)
  /\ health' = [health EXCEPT ![handler[h].id] = 0]
  /\ Go(h, AfterWrite(h))
  /\ UNCHANGED <<node, standing, rows, endpoint, cache>>

\* Fault: an endpoint that is there is kept.
SaveNodeEndpoint_Keep(h) ==
  /\ Doing(h, "endpoint")
  /\ endpoint' = [endpoint EXCEPT ![handler[h].id] = IF @ = 0 THEN handler[h].process ELSE @]
  /\ Go(h, "cache")
  /\ UNCHANGED <<node, standing, rows, recency, health, cache>>

SaveNodeEndpoint(h) ==
  /\ Doing(h, "endpoint")
  /\ endpoint' = [endpoint EXCEPT ![handler[h].id] = handler[h].process]
  /\ Go(h, "cache")
  /\ UNCHANGED <<node, standing, rows, recency, health, cache>>
-----------------------------------------------------------------------------
Heartbeat(h) ==
  /\ known # 0 /\ handler[h] = Idle
  /\ handler' = [handler EXCEPT ![h] =
                   [op |-> "heartbeat", process |-> Current, step |-> "update", id |-> known]]
  /\ UNCHANGED <<node, standing, tables, health, cache>>

\* UPDATE ... WHERE id, instance and mode match, then the report or its absence, under healthMu.
HeartbeatHealth(h) == LET id == handler[h].id IN
  /\ Doing(h, "update") /\ rows[id] = ModeOf(h)
  /\ recency' = Touched(id)
  /\ health' \in {[health EXCEPT ![id] = r] : r \in {0, handler[h].process}}
  /\ standing' = Settled(h)
  /\ Go(h, "cache")
  /\ UNCHANGED <<node, rows, endpoint, cache>>

\* updateCache renews or fills the cache, and the handler answers: the running process learns
\* its id unless the answer is lost.
UpdateCache(h) ==
  /\ Doing(h, "cache")
  /\ \E id \in GetEntity(ModeOf(h)) : cache' = [cache EXCEPT ![ModeOf(h)] = id]
  /\ \/ UNCHANGED <<known, standing>>
     \/ /\ handler[h].op = "register" /\ handler[h].process = Current
        /\ known' = handler[h].id
        /\ standing' = IF handler[h].first THEN "registered" ELSE "unknown"
  /\ Return(h)
  /\ UNCHANGED <<processes, tables, health>>

\* A statement fails, or its effect is there and its answer lost; the handler gives up.
Fail(h) ==
  /\ handler[h] # Idle
  /\ recency' \in {recency} \cup
        (IF handler[h].step \in {"write", "update"} /\ handler[h].id # 0
         THEN {Touched(handler[h].id)} ELSE {})
  /\ Return(h)
  /\ UNCHANGED <<node, standing, rows, endpoint, health, cache>>

\* The entry of a mode expires when nothing renews it.
Expire(m) ==
  /\ cache[m] # 0
  /\ cache' = [cache EXCEPT ![m] = 0]
  /\ UNCHANGED <<node, standing, tables, health, handler>>

\* The scheduler restarts: cache, health and handlers live in memory.
Restart ==
  /\ cache' = [m \in Modes |-> 0] /\ health' = [i \in Ids |-> 0]
  /\ handler' = [h \in Handlers |-> Idle]
  /\ UNCHANGED <<node, standing, tables>>

Steps(h) ==
  \/ RegisterLooksUp(h) \/ Save(h) \/ RegisterUpdate(h) \/ SaveNodeEndpoint(h)
  \/ HeartbeatHealth(h) \/ UpdateCache(h) \/ Fail(h)

Next ==
  \/ Boot \/ Restart
  \/ \E m \in Modes : Expire(m)
  \/ \E h \in Handlers : Register(h) \/ Heartbeat(h) \/ Steps(h)

Spec == Init /\ [][Next]_vars
-----------------------------------------------------------------------------
\* UploadedSyncSources: of the rows with an endpoint the one contacted last.
SyncSource ==
  LET reachable == {i \in Dated : endpoint[i] # 0}
  IN  IF reachable = {} THEN 0
      ELSE endpoint[CHOOSE i \in reachable : \A j \in reachable : <<j, i>> \in recency]

\* deliverInventoryReconcile: the endpoint of the row with the largest id.
DeliveryTarget == IF rows = <<>> THEN 0 ELSE endpoint[Len(rows)]

HandlerStates ==
  {Idle}
  \cup [op : {"register"}, process : 1..MaxProcesses, id : 0..MaxRows, first : BOOLEAN,
        step : {"get", "write", "endpoint", "cache"}]
  \cup [op : {"heartbeat"}, process : 1..MaxProcesses, id : Ids, step : {"update", "cache"}]

\* Tables, cache and handlers hold values of their kind; past the write a request is about a
\* row that exists.
TypeOK ==
  /\ processes \in Seq(Modes) /\ Current <= MaxProcesses
  /\ known \in 0..Len(rows) /\ standing \in {"unknown", "registered", "settled"}
  /\ rows \in Seq(Modes) /\ recency \subseteq (DOMAIN rows) \X (DOMAIN rows)
  /\ endpoint \in [Ids -> 0..Current] /\ health \in [Ids -> 0..Current]
  /\ cache \in [Modes -> 0..Len(rows)]
  /\ handler \in [Handlers -> HandlerStates]
  /\ \A h \in Handlers : handler[h] # Idle =>
        /\ handler[h].process \in 1..Current
        /\ handler[h].id \in IF handler[h].step \in {"get", "write"} THEN 0..Len(rows)
                            ELSE DOMAIN rows

\* The modes of an instance never share a row: what is cached for a mode, and the id a process
\* was told, are of that mode, so that its heartbeats are never refused.
ModesKeepApart ==
  /\ \A m \in Modes : cache[m] # 0 => rows[cache[m]] = m
  /\ known # 0 => rows[known] = processes[Current]

\* From the moment a process is registered, the requests of its predecessors being over, the
\* health shown for its id is its own or none, never what a process before it reported.
NoInheritedHealth == standing # "unknown" => health[known] \in {0, Current}

\* Once a process that advertises an endpoint has registered, its predecessors' requests over,
\* and sent a heartbeat, other nodes are sent to that endpoint and to no earlier one, in
\* whichever mode the instance ran before.
SourceFollowsNode == standing = "settled" /\ Current \in Advertising => SyncSource = Current

\* "Heartbeat recency, not MAX(id), identifies a current registered endpoint": then
\* reconciliation tasks go to it as well.
DeliveryFollowsNode == standing = "settled" /\ Current \in Advertising => DeliveryTarget = Current
=============================================================================
