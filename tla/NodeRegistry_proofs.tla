-------------------------- MODULE NodeRegistry_proofs --------------------------
(***************************************************************************)
(* Theorems about NodeRegistry, for every number of handlers, rows and     *)
(* processes: the modes of an instance keep apart, no process is shown the *)
(* health of a process before it, and other nodes are sent to the running  *)
(* process.                                                                *)
(***************************************************************************)
EXTENDS NodeRegistry, TLAPS

\* The state without the order of updates and the endpoints.
StateOK ==
  /\ processes \in Seq(Modes) /\ Current <= MaxProcesses
  /\ rows \in Seq(Modes) /\ Len(rows) <= MaxRows
  /\ known \in 0..Len(rows) /\ standing \in {"unknown", "registered", "settled"}
  /\ known # 0 => Current > 0
  /\ health \in [Ids -> 0..Current]
  /\ cache \in [Modes -> 0..Len(rows)]
  /\ handler \in [Handlers -> HandlerStates]
  /\ \A h \in Handlers : handler[h] # Idle =>
        /\ handler[h].process \in 1..Current
        /\ handler[h].id \in IF handler[h].step \in {"get", "write"} THEN 0..Len(rows)
                            ELSE 1..Len(rows)

\* A request is about a row of the mode of its process.
HandlersKeepApart ==
  \A h \in Handlers : handler[h] # Idle /\ handler[h].id # 0 => rows[handler[h].id] = ModeOf(h)

\* While a process counts as registered, or a registration that started when nothing older was
\* under way goes on, nothing older is under way.  What the latter has written is its own.
NothingOlderReturns ==
  /\ \A i \in Ids : i > Len(rows) => health[i] = 0
  /\ standing # "unknown" => known # 0 /\ NothingOlder
  /\ \A h \in Handlers :
        handler[h] # Idle /\ handler[h].op = "register" /\ handler[h].first
          /\ handler[h].process = Current =>
             /\ NothingOlder
             /\ handler[h].step \in {"endpoint", "cache"} => health[handler[h].id] \in {0, Current}

\* The order of updates is one of rows, and endpoints are of processes there were.
TablesOK ==
  /\ recency \subseteq (1..Len(rows)) \X (1..Len(rows))
  /\ endpoint \in [Ids -> 0..Current]

\* A process that advertises an endpoint is registered with it, and so will be one whose
\* registration has passed that step.
EndpointIsOwn ==
  Current \in Advertising =>
     /\ standing # "unknown" => endpoint[known] = Current
     /\ \A h \in Handlers :
           handler[h] # Idle /\ handler[h].op = "register" /\ handler[h].first
             /\ handler[h].process = Current /\ handler[h].step = "cache" =>
                endpoint[handler[h].id] = Current

\* No row was updated after this one.
Latest(id) ==
  /\ \A i \in Dated \cup {id} : <<i, id>> \in recency
  /\ \A i \in Ids : <<id, i>> \in recency => i = id

\* A settled process was the last to be heard of, and only its heartbeats are under way.
SettledIsLatest ==
  standing = "settled" =>
     /\ Latest(known)
     /\ \A h \in Handlers : handler[h] # Idle => handler[h].op = "heartbeat" /\ handler[h].id = known

IInv ==
  /\ StateOK
  /\ ModesKeepApart /\ HandlersKeepApart
  /\ NothingOlderReturns /\ NoInheritedHealth
  /\ TablesOK /\ EndpointIsOwn /\ SettledIsLatest
-----------------------------------------------------------------------------
Registering == [op : {"register"}, process : 1..MaxProcesses, id : 0..MaxRows, first : BOOLEAN,
                step : {"get", "write", "endpoint", "cache"}]
Beating == [op : {"heartbeat"}, process : 1..MaxProcesses, id : Ids, step : {"update", "cache"}]

LEMMA Busy ==
  ASSUME StateOK, NEW h \in Handlers, handler[h] # Idle
  PROVE  /\ handler[h] \in Registering \/ handler[h] \in Beating
         /\ Registering \subseteq HandlerStates /\ Beating \subseteq HandlerStates
         /\ Idle \notin Registering /\ Idle \notin Beating
         /\ Len(rows) \in Nat /\ DOMAIN rows = 1..Len(rows)
         /\ Current \in Nat /\ DOMAIN processes = 1..Current
         /\ ModeOf(h) \in Modes
<1>1. handler[h] \in HandlerStates /\ handler[h].process \in 1..Current
  BY DEF StateOK
<1>2. Current \in Nat /\ DOMAIN processes = 1..Current
  BY DEF StateOK, Current
<1>3. ModeOf(h) \in Modes
  BY <1>1, <1>2 DEF StateOK, ModeOf, Current
<1> QED
  BY <1>1, <1>2, <1>3 DEF HandlerStates, Registering, Beating, Idle, StateOK

\* A cached id, or one of a row, is one of the mode.
LEMMA Entities ==
  ASSUME StateOK, ModesKeepApart, NEW m \in Modes, NEW id \in GetEntity(m)
  PROVE  id \in 0..Len(rows) /\ (id # 0 => rows[id] = m)
BY DEF GetEntity, IdsOf, ModesKeepApart, StateOK

\* What a step of a handler does to it: it is over, or goes on with the same request, about
\* the row it had, or one it found or inserted.
LEMMA Effect ==
  ASSUME StateOK, NEW h \in Handlers, Steps(h)
  PROVE  /\ handler[h] # Idle
         /\ UNCHANGED processes
         /\ \E new \in HandlerStates :
               /\ handler' = [handler EXCEPT ![h] = new]
               /\ new # Idle =>
                     /\ new.op = handler[h].op /\ new.process = handler[h].process
                     /\ new.op = "register" => new.first = handler[h].first
                     /\ \/ RegisterLooksUp(h) /\ new.step = "write"
                           /\ new.id \in GetEntity(ModeOf(h))
                        \/ Save(h) /\ new.id = Len(rows') /\ new.step \in {"endpoint", "cache"}
                        \/ /\ RegisterUpdate(h) \/ SaveNodeEndpoint(h) \/ HeartbeatHealth(h)
                           /\ new.id = handler[h].id /\ new.step \in {"endpoint", "cache"}
                           /\ new.id # 0
<1>1. handler[h] # Idle /\ UNCHANGED processes
  BY DEF Steps, RegisterLooksUp, Save, RegisterUpdate, SaveNodeEndpoint, HeartbeatHealth,
         UpdateCache, Fail, Doing, node
<1>2. handler \in [Handlers -> HandlerStates] /\ Idle \in HandlerStates
  BY DEF StateOK, HandlerStates
<1>3. CASE UpdateCache(h) \/ Fail(h)
  BY <1>1, <1>2, <1>3 DEF UpdateCache, Fail, Return
<1>4. CASE RegisterLooksUp(h)
  <2>1. PICK id \in GetEntity(ModeOf(h)) :
           handler' = [handler EXCEPT ![h].id = id, ![h].step = "write"]
    BY <1>4 DEF RegisterLooksUp
  <2>2. handler[h] \in Registering
    BY <1>1, <1>4, Busy DEF RegisterLooksUp, Doing, Beating
  <2>3. id \in 0..MaxRows
    BY <1>1, <2>1, Busy, NodeRegistryAssumption DEF GetEntity, IdsOf, StateOK
  <2> DEFINE new == [handler[h] EXCEPT !.id = id, !.step = "write"]
  <2>4. /\ new \in Registering /\ new.op = handler[h].op /\ new.process = handler[h].process
        /\ new.first = handler[h].first /\ new.step = "write" /\ new.id = id
    BY <2>2, <2>3 DEF Registering
  <2>5. handler' = [handler EXCEPT ![h] = new]
    BY <1>2, <2>1, <2>2 DEF Registering
  <2> HIDE DEF new
  <2> QED BY <1>1, <1>4, <2>1, <2>4, <2>5, Busy
<1>5. CASE Save(h)
  <2>1. handler[h] \in Registering
    BY <1>1, <1>5, Busy DEF Save, Doing, Beating
  <2> DEFINE new == [handler[h] EXCEPT !.id = Len(rows'), !.step = AfterWrite(h)]
  <2>2. Len(rows') \in 0..MaxRows
    BY <1>1, <1>5, Busy, NodeRegistryAssumption DEF Save, StateOK
  <2>3. /\ new \in Registering /\ new.op = handler[h].op /\ new.process = handler[h].process
        /\ new.first = handler[h].first /\ new.step \in {"endpoint", "cache"} /\ new.id = Len(rows')
    BY <2>1, <2>2 DEF Registering, AfterWrite
  <2>4. handler' = [handler EXCEPT ![h] = new]
    BY <1>2, <1>5, <2>1 DEF Registering, Save
  <2> HIDE DEF new
  <2> QED BY <1>1, <1>5, <2>3, <2>4, Busy
<1>6. CASE RegisterUpdate(h) \/ SaveNodeEndpoint(h)
  <2>1. handler[h] \in Registering /\ handler[h].id # 0
    <3>1. (handler[h].step = "write" /\ handler[h].id # 0) \/ handler[h].step = "endpoint"
      BY <1>6 DEF RegisterUpdate, SaveNodeEndpoint, Doing
    <3>2. handler[h].step = "endpoint" => handler[h].id \in 1..Len(rows)
      BY <1>1 DEF StateOK
    <3> QED BY <1>1, <3>1, <3>2, Busy DEF Beating
  <2>2. PICK step \in {"endpoint", "cache"} : Go(h, step)
    BY <1>6 DEF RegisterUpdate, SaveNodeEndpoint, AfterWrite
  <2> DEFINE new == [handler[h] EXCEPT !.step = step]
  <2>3. /\ new \in Registering /\ new.op = handler[h].op /\ new.process = handler[h].process
        /\ new.first = handler[h].first /\ new.step = step /\ new.id = handler[h].id
    BY <2>1 DEF Registering
  <2>4. handler' = [handler EXCEPT ![h] = new]
    BY <1>2, <2>2 DEF Go
  <2> HIDE DEF new
  <2> QED BY <1>1, <1>6, <2>1, <2>2, <2>3, <2>4, Busy
<1>7. CASE HeartbeatHealth(h)
  <2>1. handler[h] \in Beating
    BY <1>1, <1>7, Busy DEF HeartbeatHealth, Doing, Registering
  <2> DEFINE new == [handler[h] EXCEPT !.step = "cache"]
  <2>2. /\ new \in Beating /\ new.op = handler[h].op /\ new.process = handler[h].process
        /\ new.op # "register" /\ new.step = "cache" /\ new.id = handler[h].id /\ new.id # 0
    BY <2>1 DEF Beating, Ids
  <2>3. handler' = [handler EXCEPT ![h] = new]
    BY <1>2, <1>7 DEF Go, HeartbeatHealth
  <2> HIDE DEF new
  <2> QED BY <1>1, <1>7, <2>2, <2>3, Busy
<1> QED
  BY <1>3, <1>4, <1>5, <1>6, <1>7 DEF Steps
-----------------------------------------------------------------------------
\* Rows are only added.
LEMMA RowsGrow ==
  ASSUME StateOK, [Next]_vars
  PROVE  /\ rows' \in Seq(Modes) /\ Len(rows) <= Len(rows') /\ Len(rows') <= MaxRows
         /\ Len(rows) \in Nat /\ Len(rows') \in Nat
         /\ \A i \in 1..Len(rows) : rows'[i] = rows[i]
<1>1. CASE rows' = rows
  BY <1>1 DEF StateOK
<1>2. ASSUME NEW h \in Handlers, Save(h)
      PROVE  ModeOf(h) \in Modes /\ rows' = Append(rows, ModeOf(h)) /\ Len(rows) < MaxRows
  BY <1>2, Busy DEF Save, Doing
<1>3. ASSUME NEW h \in Handlers, Save(h)
      PROVE  /\ rows' \in Seq(Modes) /\ Len(rows') = Len(rows) + 1 /\ Len(rows') <= MaxRows
             /\ Len(rows) \in Nat /\ \A i \in 1..Len(rows) : rows'[i] = rows[i]
  <2>1. rows \in Seq(Modes) /\ MaxRows \in Nat
    BY NodeRegistryAssumption DEF StateOK
  <2>2. ModeOf(h) \in Modes /\ rows' = Append(rows, ModeOf(h)) /\ Len(rows) < MaxRows
    BY <1>2, <1>3
  <2> QED BY <2>1, <2>2
<1>4. ASSUME NEW h \in Handlers, Steps(h), ~Save(h) PROVE rows' = rows
  BY <1>4 DEF Steps, RegisterLooksUp, RegisterUpdate, SaveNodeEndpoint, HeartbeatHealth,
              UpdateCache, Fail, tables
<1>5. ASSUME NEW h \in Handlers, Register(h) \/ Heartbeat(h) PROVE rows' = rows
  BY <1>5 DEF Register, Heartbeat, tables
<1>6. ASSUME Boot \/ Restart \/ (\E m \in Modes : Expire(m)) \/ UNCHANGED vars PROVE rows' = rows
  BY <1>6 DEF Boot, Restart, Expire, vars, tables
<1> QED
  BY <1>1, <1>3, <1>4, <1>5, <1>6 DEF Next, Steps

\* Processes are only added.
LEMMA ProcessesGrow ==
  ASSUME StateOK, [Next]_vars
  PROVE  /\ processes' \in Seq(Modes) /\ Current <= Current' /\ Current' <= MaxProcesses
         /\ Current \in Nat /\ Current' \in Nat
         /\ \A i \in 1..Current : processes'[i] = processes[i]
<1>1. CASE processes' = processes
  BY <1>1 DEF StateOK, Current
<1>2. CASE Boot
  <2>1. PICK m \in Modes : processes' = Append(processes, m)
    BY <1>2 DEF Boot
  <2>2. Current < MaxProcesses /\ processes \in Seq(Modes)
    BY <1>2 DEF Boot, StateOK
  <2> QED BY <2>1, <2>2, NodeRegistryAssumption DEF Current
<1>3. ASSUME NEW h \in Handlers, Steps(h) \/ Register(h) \/ Heartbeat(h) PROVE processes' = processes
  BY <1>3, Effect DEF Register, Heartbeat, node
<1>4. ASSUME Restart \/ (\E m \in Modes : Expire(m)) \/ UNCHANGED vars
      PROVE  processes' = processes
  BY <1>4 DEF Restart, Expire, vars, node
<1> QED
  BY <1>1, <1>2, <1>3, <1>4 DEF Next

\* A new request is about the running process; a registration looks its row up first, a heartbeat
\* has the id the process was told.
LEMMA Arrives ==
  ASSUME StateOK, NEW h \in Handlers, Register(h) \/ Heartbeat(h)
  PROVE  /\ handler[h] = Idle /\ Current > 0
         /\ UNCHANGED <<node, tables, health, cache>>
         /\ \E new \in HandlerStates \ {Idle} :
               /\ handler' = [handler EXCEPT ![h] = new]
               /\ new.process = Current
               /\ \/ /\ Register(h) /\ new.op = "register" /\ new.step = "get" /\ new.id = 0
                     /\ new.first = NothingOlder /\ standing' = "unknown"
                  \/ /\ Heartbeat(h) /\ new.op = "heartbeat" /\ new.step = "update" /\ new.id = known
                     /\ known # 0 /\ standing' = standing
<1>1. Current \in Nat /\ Current <= MaxProcesses /\ MaxProcesses \in Nat /\ MaxRows \in Nat
  BY NodeRegistryAssumption DEF StateOK, Current
<1>2. CASE Register(h)
  <2> DEFINE new == [op |-> "register", process |-> Current, step |-> "get", id |-> 0,
                     first |-> NothingOlder]
  <2>1. Current > 0 /\ NothingOlder \in BOOLEAN
    BY <1>2 DEF Register, NothingOlder
  <2>2. new \in HandlerStates /\ new # Idle
    BY <1>1, <2>1 DEF HandlerStates, Idle
  <2>3. new.op = "register" /\ new.process = Current /\ new.step = "get" /\ new.id = 0
        /\ new.first = NothingOlder
    OBVIOUS
  <2>4. handler[h] = Idle /\ standing' = "unknown" /\ UNCHANGED <<node, tables, health, cache>>
        /\ handler' = [handler EXCEPT ![h] = new]
    BY <1>2 DEF Register
  <2> HIDE DEF new
  <2> QED BY <1>2, <2>1, <2>2, <2>3, <2>4
<1>3. CASE Heartbeat(h)
  <2> DEFINE new == [op |-> "heartbeat", process |-> Current, step |-> "update", id |-> known]
  <2>1. Current > 0 /\ known # 0 /\ known \in Ids
    BY <1>1, <1>3 DEF Heartbeat, StateOK, Ids
  <2>2. new \in HandlerStates /\ new # Idle
    BY <1>1, <2>1 DEF HandlerStates, Idle
  <2>3. new.op = "heartbeat" /\ new.process = Current /\ new.step = "update" /\ new.id = known
    OBVIOUS
  <2>4. handler[h] = Idle /\ standing' = standing /\ UNCHANGED <<node, tables, health, cache>>
        /\ handler' = [handler EXCEPT ![h] = new]
    BY <1>3 DEF Heartbeat
  <2> HIDE DEF new
  <2> QED BY <1>3, <2>1, <2>2, <2>3, <2>4
<1> QED BY <1>2, <1>3
-----------------------------------------------------------------------------
\* Where a handler's request comes from: it is the one it had, has just arrived, or is the one it
\* had a step further, about a row of the mode of its process.
Kept(h)    == handler[h] # Idle /\ handler'[h] = handler[h]
Arrived(h) ==
  /\ UNCHANGED <<node, tables, health, cache>>
  /\ Current > 0 /\ handler'[h].process = Current
  /\ \/ /\ Register(h)
        /\ handler'[h].op = "register" /\ handler'[h].step = "get" /\ handler'[h].id = 0
        /\ handler'[h].first = NothingOlder
     \/ /\ handler'[h].op = "heartbeat" /\ handler'[h].step = "update"
        /\ handler'[h].id = known /\ known # 0
Proceeded(h) ==
  /\ Steps(h) /\ handler[h] # Idle /\ UNCHANGED processes
  /\ handler'[h].op = handler[h].op /\ handler'[h].process = handler[h].process
  /\ handler'[h].op = "register" => handler'[h].first = handler[h].first
  /\ \/ /\ RegisterLooksUp(h) /\ handler'[h].step = "write"
        /\ handler'[h].id \in GetEntity(ModeOf(h))
     \/ /\ Save(h) /\ handler'[h].id = Len(rows') /\ handler'[h].step \in {"endpoint", "cache"}
     \/ /\ RegisterUpdate(h) \/ SaveNodeEndpoint(h) \/ HeartbeatHealth(h)
        /\ handler'[h].id = handler[h].id /\ handler'[h].step \in {"endpoint", "cache"}
        /\ handler'[h].id # 0

LEMMA Handling ==
  ASSUME StateOK, [Next]_vars
  PROVE  /\ handler' \in [Handlers -> HandlerStates]
         /\ \A h \in Handlers : handler'[h] # Idle => Kept(h) \/ Arrived(h) \/ Proceeded(h)
<1> DEFINE Goal == /\ handler' \in [Handlers -> HandlerStates]
                   /\ \A h \in Handlers :
                         handler'[h] # Idle => Kept(h) \/ Arrived(h) \/ Proceeded(h)
<1>1. handler \in [Handlers -> HandlerStates] /\ Idle \in HandlerStates
  BY DEF StateOK, HandlerStates
<1>2. ASSUME handler' = handler PROVE Goal
  BY <1>1, <1>2 DEF Kept
<1>3. ASSUME NEW g \in Handlers, Register(g) \/ Heartbeat(g) PROVE Goal
  <2>1. /\ handler[g] = Idle /\ Current > 0
        /\ UNCHANGED <<node, tables, health, cache>>
    BY <1>3, Arrives
  <2>2. PICK new \in HandlerStates \ {Idle} :
           /\ handler' = [handler EXCEPT ![g] = new]
           /\ new.process = Current
           /\ \/ /\ Register(g) /\ new.op = "register" /\ new.step = "get" /\ new.id = 0
                 /\ new.first = NothingOlder /\ standing' = "unknown"
              \/ /\ Heartbeat(g) /\ new.op = "heartbeat" /\ new.step = "update" /\ new.id = known
                 /\ known # 0 /\ standing' = standing
    BY <1>3, Arrives
  <2>3. handler'[g] = new /\ \A h \in Handlers \ {g} : handler'[h] = handler[h]
    BY <1>1, <2>2
  <2>4. Arrived(g)
    BY <2>1, <2>2, <2>3 DEF Arrived
  <2>5. handler' \in [Handlers -> HandlerStates]
    BY <1>1, <2>2
  <2> QED BY <2>3, <2>4, <2>5 DEF Kept
<1>4. ASSUME NEW g \in Handlers, Steps(g) PROVE Goal
  <2>1. handler[g] # Idle /\ UNCHANGED processes
    BY <1>4, Effect
  <2>2. PICK new \in HandlerStates :
           /\ handler' = [handler EXCEPT ![g] = new]
           /\ new # Idle =>
                 /\ new.op = handler[g].op /\ new.process = handler[g].process
                 /\ new.op = "register" => new.first = handler[g].first
                 /\ \/ RegisterLooksUp(g) /\ new.step = "write"
                       /\ new.id \in GetEntity(ModeOf(g))
                    \/ Save(g) /\ new.id = Len(rows') /\ new.step \in {"endpoint", "cache"}
                    \/ /\ RegisterUpdate(g) \/ SaveNodeEndpoint(g) \/ HeartbeatHealth(g)
                       /\ new.id = handler[g].id /\ new.step \in {"endpoint", "cache"}
                       /\ new.id # 0
    BY <1>4, Effect
  <2>3. handler'[g] = new /\ \A h \in Handlers \ {g} : handler'[h] = handler[h]
    BY <1>1, <2>2
  <2>4. handler'[g] # Idle => Proceeded(g)
    BY <1>4, <2>1, <2>2, <2>3 DEF Proceeded
  <2>5. handler' \in [Handlers -> HandlerStates]
    BY <1>1, <2>2
  <2> QED BY <2>3, <2>4, <2>5 DEF Kept
<1>5. ASSUME Restart PROVE Goal
  BY <1>1, <1>5 DEF Restart
<1>6. ASSUME Boot \/ (\E m \in Modes : Expire(m)) \/ UNCHANGED vars PROVE handler' = handler
  BY <1>6 DEF Boot, Expire, vars
<1> HIDE DEF Goal
<1>7. Goal
  BY <1>2, <1>3, <1>4, <1>5, <1>6 DEF Next
<1> QED BY <1>7 DEF Goal

\* What a step makes of the cache: an entry stays, is dropped, or is one of its mode.
LEMMA Caching ==
  ASSUME StateOK, ModesKeepApart, [Next]_vars
  PROVE  /\ cache' \in [Modes -> 0..Len(rows)]
         /\ \A m \in Modes : cache'[m] # 0 => rows[cache'[m]] = m
<1> DEFINE Goal == /\ cache' \in [Modes -> 0..Len(rows)]
                   /\ \A m \in Modes : cache'[m] # 0 => rows[cache'[m]] = m
<1>1. /\ cache \in [Modes -> 0..Len(rows)] /\ Len(rows) \in Nat
      /\ \A m \in Modes : cache[m] # 0 => rows[cache[m]] = m
  BY DEF StateOK, ModesKeepApart
<1>2. ASSUME cache' = cache PROVE Goal
  BY <1>1, <1>2
<1>3. ASSUME NEW m \in Modes, NEW id \in GetEntity(m), cache' = [cache EXCEPT ![m] = id] PROVE Goal
  <2>1. id \in 0..Len(rows) /\ (id # 0 => rows[id] = m)
    BY <1>3, Entities
  <2> QED BY <1>1, <1>3, <2>1
<1>4. ASSUME NEW h \in Handlers, RegisterLooksUp(h) \/ UpdateCache(h) PROVE Goal
  <2>1. ModeOf(h) \in Modes
    BY <1>4, Busy DEF RegisterLooksUp, UpdateCache, Doing
  <2>2. PICK id \in GetEntity(ModeOf(h)) : cache' = [cache EXCEPT ![ModeOf(h)] = id]
    BY <1>4 DEF RegisterLooksUp, UpdateCache
  <2> HIDE DEF Goal
  <2> QED BY <1>3, <2>1, <2>2
<1>5. ASSUME NEW m \in Modes, Expire(m) PROVE Goal
  BY <1>1, <1>5 DEF Expire
<1>6. ASSUME Restart PROVE Goal
  BY <1>1, <1>6 DEF Restart
<1>7. ASSUME NEW h \in Handlers,
             Register(h) \/ Heartbeat(h) \/ Save(h) \/ RegisterUpdate(h) \/ SaveNodeEndpoint(h)
               \/ HeartbeatHealth(h) \/ Fail(h)
      PROVE  cache' = cache
  BY <1>7 DEF Register, Heartbeat, Save, RegisterUpdate, SaveNodeEndpoint, HeartbeatHealth, Fail
<1>8. ASSUME Boot \/ UNCHANGED vars PROVE cache' = cache
  BY <1>8 DEF Boot, vars
<1> HIDE DEF Goal
<1>9. Goal
  BY <1>2, <1>4, <1>5, <1>6, <1>7, <1>8 DEF Next, Steps
<1> QED BY <1>9 DEF Goal

\* What a step makes of the health: of an id it stays, is dropped, or becomes what the process
\* of a heartbeat for it reports.
LEMMA Reporting ==
  ASSUME StateOK, [Next]_vars
  PROVE  /\ health' \in [Ids -> 0..Current]
         /\ \A i \in Ids : \/ health'[i] \in {health[i], 0}
                          \/ \E g \in Handlers : /\ handler[g] # Idle /\ handler[g].id = i
                                                /\ i \in 1..Len(rows)
                                                /\ health'[i] = handler[g].process
         /\ \A h \in Handlers : RegisterUpdate(h) => health'[handler[h].id] = 0
<1> DEFINE Goal ==
      /\ health' \in [Ids -> 0..Current]
      /\ \A i \in Ids : \/ health'[i] \in {health[i], 0}
                       \/ \E g \in Handlers : /\ handler[g] # Idle /\ handler[g].id = i
                                             /\ i \in 1..Len(rows)
                                             /\ health'[i] = handler[g].process
<1>1. health \in [Ids -> 0..Current] /\ Current \in Nat /\ Len(rows) \in Nat
      /\ Len(rows) <= MaxRows /\ MaxRows \in Nat
  BY NodeRegistryAssumption DEF StateOK, Current
<1>2. ASSUME health' = health PROVE Goal
  BY <1>1, <1>2
<1>3. ASSUME NEW h \in Handlers, HeartbeatHealth(h) PROVE Goal
  <2>1. handler[h] # Idle /\ handler[h].step = "update"
    BY <1>3 DEF HeartbeatHealth, Doing
  <2>2. handler[h].process \in 1..Current /\ handler[h].id \in 1..Len(rows)
    BY <2>1 DEF StateOK
  <2>3. PICK r \in {0, handler[h].process} : health' = [health EXCEPT ![handler[h].id] = r]
    BY <1>3 DEF HeartbeatHealth
  <2>4. handler[h].id \in Ids
    BY <1>1, <2>2 DEF Ids
  <2> QED BY <1>1, <2>1, <2>2, <2>3, <2>4
<1>4. ASSUME NEW h \in Handlers, RegisterUpdate(h)
      PROVE  Goal /\ health'[handler[h].id] = 0
  <2>1. handler[h] # Idle /\ handler[h].step = "write" /\ handler[h].id # 0
    BY <1>4 DEF RegisterUpdate, Doing
  <2>2. handler[h].id \in Ids
    BY <1>1, <2>1 DEF StateOK, Ids
  <2>3. health' = [health EXCEPT ![handler[h].id] = 0]
    BY <1>4 DEF RegisterUpdate
  <2> QED BY <1>1, <2>2, <2>3
<1>5. ASSUME Restart PROVE Goal
  BY <1>1, <1>5 DEF Restart
<1>6. ASSUME NEW h \in Handlers,
             Register(h) \/ Heartbeat(h) \/ RegisterLooksUp(h) \/ Save(h) \/ SaveNodeEndpoint(h)
               \/ UpdateCache(h) \/ Fail(h)
      PROVE  health' = health
  BY <1>6 DEF Register, Heartbeat, RegisterLooksUp, Save, SaveNodeEndpoint, UpdateCache, Fail
<1>7. ASSUME Boot \/ (\E m \in Modes : Expire(m)) \/ UNCHANGED vars PROVE health' = health
  BY <1>7 DEF Boot, Expire, vars
<1> HIDE DEF Goal
<1>8. Goal
  BY <1>2, <1>3, <1>4, <1>5, <1>6, <1>7 DEF Next, Steps
<1> QED BY <1>4, <1>8 DEF Goal

\* What a step makes of the running process' standing and id: it loses its standing, keeps both,
\* or is told the id a registration of its own wrote.
LEMMA Standing ==
  ASSUME StateOK, [Next]_vars
  PROVE  /\ standing' \in {"unknown", "registered", "settled"}
         /\ \/ known' = 0 /\ standing' = "unknown"
            \/ /\ UNCHANGED node
               /\ standing' # "unknown" => standing # "unknown"
            \/ \E h \in Handlers :
                  /\ UNCHANGED <<processes, tables, health>>
                  /\ handler[h] # Idle /\ handler[h].op = "register" /\ handler[h].step = "cache"
                  /\ handler[h].process = Current /\ known' = handler[h].id
                  /\ standing' # "unknown" => handler[h].first
<1> DEFINE Goal ==
      /\ standing' \in {"unknown", "registered", "settled"}
      /\ \/ known' = 0 /\ standing' = "unknown"
         \/ /\ UNCHANGED node
            /\ standing' # "unknown" => standing # "unknown"
         \/ \E h \in Handlers :
               /\ UNCHANGED <<processes, tables, health>>
               /\ handler[h] # Idle /\ handler[h].op = "register" /\ handler[h].step = "cache"
               /\ handler[h].process = Current /\ known' = handler[h].id
               /\ standing' # "unknown" => handler[h].first
<1>1. standing \in {"unknown", "registered", "settled"}
  BY DEF StateOK
<1>2. ASSUME Boot PROVE Goal
  BY <1>2 DEF Boot
<1>3. ASSUME UNCHANGED <<node, standing>> PROVE Goal
  BY <1>1, <1>3
<1>4. ASSUME NEW h \in Handlers, Register(h) \/ HeartbeatHealth(h) PROVE Goal
  BY <1>1, <1>4 DEF Register, HeartbeatHealth, Settled
<1>5. ASSUME NEW h \in Handlers, UpdateCache(h) PROVE Goal
  <2>1. UNCHANGED <<processes, tables, health>> /\ handler[h] # Idle /\ handler[h].step = "cache"
    BY <1>5 DEF UpdateCache, Doing
  <2>2. CASE UNCHANGED <<known, standing>>
    BY <1>1, <2>1, <2>2 DEF node
  <2>3. CASE /\ handler[h].op = "register" /\ handler[h].process = Current
             /\ known' = handler[h].id
             /\ standing' = IF handler[h].first THEN "registered" ELSE "unknown"
    BY <2>1, <2>3
  <2> QED BY <1>5, <2>2, <2>3 DEF UpdateCache
<1>6. ASSUME NEW h \in Handlers,
             Heartbeat(h) \/ RegisterLooksUp(h) \/ Save(h) \/ RegisterUpdate(h)
               \/ SaveNodeEndpoint(h) \/ Fail(h)
      PROVE  UNCHANGED <<node, standing>>
  BY <1>6 DEF Heartbeat, RegisterLooksUp, Save, RegisterUpdate, SaveNodeEndpoint, Fail
<1>7. ASSUME Restart \/ (\E m \in Modes : Expire(m)) \/ UNCHANGED vars
      PROVE  UNCHANGED <<node, standing>>
  BY <1>7 DEF Restart, Expire, vars, node
<1> HIDE DEF Goal
<1>8. Goal
  BY <1>2, <1>3, <1>4, <1>5, <1>6, <1>7 DEF Next, Steps
<1> QED BY <1>8 DEF Goal
-----------------------------------------------------------------------------
LEMMA StateStep ==
  ASSUME IInv, [Next]_vars
  PROVE  StateOK'
<1>1. StateOK /\ ModesKeepApart /\ HandlersKeepApart
  BY DEF IInv
<1>2. /\ rows' \in Seq(Modes) /\ Len(rows) <= Len(rows') /\ Len(rows') <= MaxRows
      /\ Len(rows) \in Nat /\ Len(rows') \in Nat
  BY <1>1, RowsGrow
<1>3. /\ processes' \in Seq(Modes) /\ Current <= Current' /\ Current' <= MaxProcesses
      /\ Current \in Nat /\ Current' \in Nat
  BY <1>1, ProcessesGrow
<1>4. known' \in 0..Len(rows') /\ (known' # 0 => Current' > 0)
  <2>1. CASE known' = 0 \/ UNCHANGED node
    BY <1>1, <1>2, <1>3, <2>1 DEF StateOK, node
  <2>2. ASSUME NEW h \in Handlers, handler[h] # Idle, handler[h].step = "cache",
               known' = handler[h].id
        PROVE  known' \in 0..Len(rows') /\ Current' > 0
    <3>1. handler[h].process \in 1..Current /\ handler[h].id \in 1..Len(rows)
      BY <1>1, <2>2 DEF StateOK
    <3> QED BY <1>2, <1>3, <2>2, <3>1
  <2> QED BY <1>1, <2>1, <2>2, Standing
<1>5. standing' \in {"unknown", "registered", "settled"}
  BY <1>1, Standing
<1>6. health' \in [Ids -> 0..Current']
  BY <1>1, <1>3, Reporting
<1>7. cache' \in [Modes -> 0..Len(rows')]
  BY <1>1, <1>2, Caching
<1>8. handler' \in [Handlers -> HandlerStates]
  BY <1>1, Handling
<1>9. ASSUME NEW h \in Handlers, handler'[h] # Idle
      PROVE  /\ handler'[h].process \in 1..Current'
             /\ handler'[h].id \in IF handler'[h].step \in {"get", "write"} THEN 0..Len(rows')
                                  ELSE 1..Len(rows')
  <2>1. handler[h] # Idle =>
           /\ handler[h].process \in 1..Current
           /\ handler[h].id \in IF handler[h].step \in {"get", "write"} THEN 0..Len(rows)
                               ELSE 1..Len(rows)
    BY <1>1 DEF StateOK
  <2>2. CASE Kept(h)
    BY <1>2, <1>3, <2>1, <2>2 DEF Kept
  <2>3. CASE Arrived(h)
    <3>1. /\ handler'[h].process = Current /\ Current > 0
          /\ \/ handler'[h].step = "get" /\ handler'[h].id = 0
             \/ handler'[h].step = "update" /\ handler'[h].id = known /\ known # 0
      BY <2>3 DEF Arrived
    <3>2. known \in 0..Len(rows)
      BY <1>1 DEF StateOK
    <3>3. handler'[h].process \in 1..Current'
      BY <1>3, <3>1
    <3> QED BY <1>2, <3>1, <3>2, <3>3
  <2>4. CASE Proceeded(h)
    <3>1. handler[h] # Idle /\ handler'[h].process = handler[h].process
      BY <2>4 DEF Proceeded
    <3>2. CASE handler'[h].id \in GetEntity(ModeOf(h)) /\ handler'[h].step = "write"
      <4>1. handler'[h].id \in 0..Len(rows)
        BY <1>1, <3>1, <3>2, Busy, Entities
      <4> QED BY <1>2, <1>3, <2>1, <3>1, <3>2, <4>1
    <3>3. CASE Save(h) /\ handler'[h].id = Len(rows') /\ handler'[h].step \in {"endpoint", "cache"}
      <4>1. Len(rows') = Len(rows) + 1
        <5>1. rows' = Append(rows, ModeOf(h)) /\ ModeOf(h) \in Modes
          BY <1>1, <3>1, <3>3, Busy DEF Save
        <5>2. rows \in Seq(Modes)
          BY <1>1 DEF StateOK
        <5> QED BY <5>1, <5>2
      <4> QED BY <1>2, <1>3, <2>1, <3>1, <3>3, <4>1
    <3>4. CASE /\ handler'[h].id = handler[h].id /\ handler'[h].step \in {"endpoint", "cache"}
               /\ handler'[h].id # 0
      BY <1>2, <1>3, <2>1, <3>1, <3>4
    <3> QED BY <2>4, <3>2, <3>3, <3>4 DEF Proceeded
  <2> QED BY <1>1, <1>9, <2>2, <2>3, <2>4, Handling
<1> QED
  BY <1>2, <1>3, <1>4, <1>5, <1>6, <1>7, <1>8, <1>9 DEF StateOK

\* Cache, known id and requests keep to rows of their mode.
LEMMA ModesStep ==
  ASSUME IInv, [Next]_vars
  PROVE  ModesKeepApart' /\ HandlersKeepApart'
<1>1. StateOK /\ ModesKeepApart /\ HandlersKeepApart
  BY DEF IInv
<1>2. /\ Len(rows) \in Nat /\ Len(rows') \in Nat /\ \A i \in 1..Len(rows) : rows'[i] = rows[i]
  BY <1>1, RowsGrow
<1>3. Current \in Nat /\ \A i \in 1..Current : processes'[i] = processes[i]
  BY <1>1, ProcessesGrow
<1>4. ASSUME NEW m \in Modes, cache'[m] # 0 PROVE rows'[cache'[m]] = m
  BY <1>1, <1>2, <1>4, Caching
<1>5. ASSUME known' # 0 PROVE rows'[known'] = processes'[Current']
  <2>1. CASE UNCHANGED node
    <3>1. known \in 1..Len(rows) /\ Current' = Current /\ processes' = processes /\ known' = known
      BY <1>1, <1>2, <1>5, <2>1 DEF StateOK, node, Current
    <3> QED BY <1>1, <1>2, <1>5, <3>1 DEF ModesKeepApart
  <2>2. ASSUME NEW h \in Handlers, UNCHANGED <<processes, tables>>, handler[h] # Idle,
               handler[h].process = Current, known' = handler[h].id
        PROVE  rows'[known'] = processes'[Current']
    BY <1>1, <1>5, <2>2 DEF HandlersKeepApart, ModeOf, Current, tables
  <2> QED BY <1>1, <1>5, <2>1, <2>2, Standing
<1>6. ASSUME NEW h \in Handlers, handler'[h] # Idle, handler'[h].id # 0
      PROVE  rows'[handler'[h].id] = processes'[handler'[h].process]
  <2>1. handler[h] # Idle => handler[h].process \in 1..Current /\ handler[h].id \in 0..Len(rows)
    BY <1>1, <1>2 DEF StateOK
  <2>2. CASE Kept(h)
    BY <1>1, <1>2, <1>3, <1>6, <2>1, <2>2 DEF Kept, HandlersKeepApart, ModeOf
  <2>3. CASE Arrived(h)
    <3>1. /\ handler'[h].id = known /\ known # 0 /\ handler'[h].process = Current
          /\ rows' = rows /\ processes' = processes
      BY <1>6, <2>3 DEF Arrived, tables, node
    <3> QED BY <1>1, <3>1 DEF ModesKeepApart
  <2>4. CASE Proceeded(h)
    <3>1. /\ handler[h] # Idle /\ handler'[h].process = handler[h].process
          /\ processes' = processes
      BY <2>4 DEF Proceeded
    <3>2. CASE RegisterLooksUp(h) /\ handler'[h].id \in GetEntity(ModeOf(h))
      <4>1. handler'[h].id \in 1..Len(rows) /\ rows[handler'[h].id] = ModeOf(h)
        BY <1>1, <1>2, <1>6, <3>1, <3>2, Busy, Entities
      <4> QED BY <1>2, <3>1, <4>1 DEF ModeOf
    <3>3. CASE Save(h) /\ handler'[h].id = Len(rows')
      <4>1. rows' = Append(rows, ModeOf(h)) /\ ModeOf(h) \in Modes
        BY <1>1, <3>1, <3>3, Busy DEF Save
      <4>2. rows \in Seq(Modes)
        BY <1>1 DEF StateOK
      <4>3. rows'[Len(rows')] = ModeOf(h)
        BY <4>1, <4>2
      <4> QED BY <3>1, <3>3, <4>3 DEF ModeOf
    <3>4. CASE handler'[h].id = handler[h].id
      BY <1>1, <1>2, <1>6, <2>1, <3>1, <3>4 DEF HandlersKeepApart, ModeOf
    <3> QED BY <2>4, <3>2, <3>3, <3>4 DEF Proceeded
  <2> QED BY <1>1, <1>6, <2>2, <2>3, <2>4, Handling
<1> QED
  BY <1>4, <1>5, <1>6 DEF ModesKeepApart, HandlersKeepApart, ModeOf
-----------------------------------------------------------------------------
\* Nothing older comes back while the process stays.
LEMMA OlderStep ==
  ASSUME StateOK, NothingOlder, Current' = Current, [Next]_vars
  PROVE  NothingOlder'
<1> SUFFICES ASSUME NEW h \in Handlers, handler'[h] # Idle PROVE handler'[h].process = Current'
  BY DEF NothingOlder
<1> QED BY Handling DEF NothingOlder, Kept, Arrived, Proceeded

\* When nothing older is under way, an id without another's health gets none.
LEMMA OwnStep ==
  ASSUME StateOK, NothingOlder, [Next]_vars, NEW i \in Ids, health[i] \in {0, Current}
  PROVE  health'[i] \in {0, Current}
BY Reporting DEF NothingOlder

LEMMA OlderReturnsStep ==
  ASSUME IInv, [Next]_vars
  PROVE  NothingOlderReturns' /\ NoInheritedHealth'
<1>1. StateOK /\ NothingOlderReturns /\ NoInheritedHealth
  BY DEF IInv
<1>2. Len(rows) \in Nat /\ Len(rows') \in Nat /\ Len(rows) <= Len(rows') /\ Len(rows') <= MaxRows
      /\ MaxRows \in Nat
  BY <1>1, RowsGrow, NodeRegistryAssumption
<1>3. Current \in Nat /\ Current' \in Nat /\ Current <= Current'
  BY <1>1, ProcessesGrow
<1>4. StateOK'
  BY StateStep
<1>5. ASSUME NEW i \in Ids, i > Len(rows') PROVE health'[i] = 0
  <2>1. i > Len(rows) /\ i \notin 1..Len(rows)
    BY <1>2, <1>5 DEF Ids
  <2>2. health[i] = 0
    BY <1>1, <2>1 DEF NothingOlderReturns
  <2> QED BY <1>1, <2>1, <2>2, Reporting
<1>6. ASSUME standing' # "unknown"
      PROVE  known' # 0 /\ NothingOlder' /\ health'[known'] \in {0, Current'}
  <2>1. CASE UNCHANGED node /\ standing # "unknown"
    <3>1. known # 0 /\ NothingOlder /\ health[known] \in {0, Current}
      BY <1>1, <2>1 DEF NothingOlderReturns, NoInheritedHealth
    <3>2. Current' = Current /\ known' = known /\ known \in Ids
      BY <1>1, <1>2, <2>1, <3>1 DEF node, Current, StateOK, Ids
    <3> QED BY <1>1, <3>1, <3>2, OlderStep, OwnStep
  <2>2. ASSUME NEW h \in Handlers, UNCHANGED <<processes, tables, health>>, handler[h] # Idle,
               handler[h].op = "register", handler[h].step = "cache",
               handler[h].process = Current, known' = handler[h].id, handler[h].first
        PROVE  known' # 0 /\ NothingOlder' /\ health'[known'] \in {0, Current'}
    <3>1. NothingOlder /\ health[handler[h].id] \in {0, Current}
      BY <1>1, <2>2 DEF NothingOlderReturns
    <3>2. Current' = Current
      BY <2>2 DEF Current
    <3>3. handler[h].id # 0
      BY <1>1, <1>2, <2>2 DEF StateOK
    <3> QED BY <1>1, <2>2, <3>1, <3>2, <3>3, OlderStep
  <2> QED BY <1>1, <1>6, <2>1, <2>2, Standing
<1>7. ASSUME NEW h \in Handlers, handler'[h] # Idle, handler'[h].op = "register",
             handler'[h].first, handler'[h].process = Current'
      PROVE  /\ NothingOlder'
             /\ handler'[h].step \in {"endpoint", "cache"} =>
                   health'[handler'[h].id] \in {0, Current'}
  <2>1. handler[h] # Idle => handler[h].process \in 1..Current
    BY <1>1 DEF StateOK
  <2>2. CASE Arrived(h)
    <3>1. Current' = Current /\ NothingOlder /\ handler'[h].step = "get"
      BY <1>7, <2>2 DEF Arrived, node, Current
    <3> QED BY <1>1, <3>1, OlderStep
  <2>3. CASE Kept(h)
    <3>1. handler[h] # Idle /\ handler'[h] = handler[h] /\ Current' = Current
      BY <1>3, <1>7, <2>1, <2>3 DEF Kept
    <3>2. /\ NothingOlder
          /\ handler[h].step \in {"endpoint", "cache"} => health[handler[h].id] \in {0, Current}
      BY <1>1, <1>7, <3>1 DEF NothingOlderReturns
    <3>3. NothingOlder'
      BY <1>1, <3>1, <3>2, OlderStep
    <3>4. handler[h].step \in {"endpoint", "cache"} => handler[h].id \in Ids
      <4>1. handler[h].step \in {"endpoint", "cache"} => handler[h].id \in 1..Len(rows)
        BY <1>1, <3>1 DEF StateOK
      <4>2. 1..Len(rows) \subseteq Ids
        BY <1>2 DEF Ids
      <4> QED BY <4>1, <4>2
    <3> QED BY <1>1, <3>1, <3>2, <3>3, <3>4, OwnStep
  <2>4. CASE Proceeded(h)
    <3>1. /\ handler[h] # Idle /\ Current' = Current /\ handler[h].process = Current
          /\ handler[h].op = "register" /\ handler[h].first
      BY <1>7, <2>4 DEF Proceeded, Current
    <3>2. /\ NothingOlder
          /\ handler[h].step \in {"endpoint", "cache"} => health[handler[h].id] \in {0, Current}
      BY <1>1, <3>1 DEF NothingOlderReturns
    <3>3. NothingOlder'
      BY <1>1, <3>1, <3>2, OlderStep
    <3>4. ~HeartbeatHealth(h)
      BY <1>1, <3>1, Busy DEF HeartbeatHealth, Doing, Registering, Beating
    <3>5. CASE handler'[h].step = "write"
      BY <3>3, <3>5
    <3>6. CASE Save(h) /\ handler'[h].id = Len(rows')
      <4>1. rows' = Append(rows, ModeOf(h)) /\ ModeOf(h) \in Modes /\ health' = health
        BY <1>1, <3>1, <3>6, Busy DEF Save
      <4>2. rows \in Seq(Modes)
        BY <1>1 DEF StateOK
      <4>3. Len(rows') \in Ids /\ Len(rows') > Len(rows)
        BY <1>2, <4>1, <4>2 DEF Ids
      <4>4. health[Len(rows')] = 0
        BY <1>1, <4>3 DEF NothingOlderReturns
      <4> QED BY <3>1, <3>3, <3>6, <4>1, <4>4
    <3>7. CASE RegisterUpdate(h) /\ handler'[h].id = handler[h].id
      BY <1>1, <3>3, <3>7, Reporting
    <3>8. CASE SaveNodeEndpoint(h) /\ handler'[h].id = handler[h].id
      BY <3>1, <3>2, <3>3, <3>8 DEF SaveNodeEndpoint, Doing
    <3> QED BY <2>4, <3>4, <3>5, <3>6, <3>7, <3>8 DEF Proceeded
  <2> QED BY <1>1, <1>7, <2>2, <2>3, <2>4, Handling
<1>8. NothingOlderReturns'
  BY <1>5, <1>6, <1>7 DEF NothingOlderReturns
<1>9. NoInheritedHealth'
  BY <1>6 DEF NoInheritedHealth
<1> QED BY <1>8, <1>9
-----------------------------------------------------------------------------
\* What a step makes of the order of updates: it stays, or a row is updated, that of the request
\* or one that is inserted.
LEMMA Updating ==
  ASSUME StateOK, [Next]_vars
  PROVE  \/ recency' = recency
         \/ \E id \in 1..Len(rows') : /\ recency' = Touched(id)
                                    /\ \E h \in Handlers : \/ handler[h] # Idle /\ id = handler[h].id
                                                          \/ Save(h)
<1> DEFINE Goal ==
      \/ recency' = recency
      \/ \E id \in 1..Len(rows') : /\ recency' = Touched(id)
                                 /\ \E h \in Handlers : \/ handler[h] # Idle /\ id = handler[h].id
                                                       \/ Save(h)
<1>1. Len(rows) \in Nat /\ Len(rows') \in Nat /\ Len(rows) <= Len(rows')
  BY RowsGrow
<1>2. ASSUME NEW h \in Handlers, Save(h) PROVE Goal
  <2>1. Len(rows') = Len(rows) + 1
    <3>1. rows' = Append(rows, ModeOf(h)) /\ ModeOf(h) \in Modes
      BY <1>2, Busy DEF Save, Doing
    <3>2. rows \in Seq(Modes)
      BY DEF StateOK
    <3> QED BY <3>1, <3>2
  <2>2. Len(rows') \in 1..Len(rows')
    BY <1>1, <2>1
  <2> QED BY <1>2, <2>2 DEF Save
<1>3. ASSUME NEW h \in Handlers, handler[h] # Idle, handler[h].id # 0, recency' = Touched(handler[h].id)
      PROVE  Goal
  <2>1. handler[h].id \in 0..Len(rows) \/ handler[h].id \in 1..Len(rows)
    BY <1>3 DEF StateOK
  <2>2. handler[h].id \in 1..Len(rows')
    BY <1>1, <1>3, <2>1
  <2> QED BY <1>3, <2>2
<1>4. ASSUME NEW h \in Handlers, RegisterUpdate(h) \/ HeartbeatHealth(h) \/ Fail(h)
      PROVE  \/ recency' = recency
             \/ handler[h] # Idle /\ handler[h].id # 0 /\ recency' = Touched(handler[h].id)
  <2>1. CASE HeartbeatHealth(h)
    <3>1. handler[h] # Idle /\ handler[h].step = "update" /\ recency' = Touched(handler[h].id)
      BY <2>1 DEF HeartbeatHealth, Doing
    <3>2. handler[h].id \in 1..Len(rows)
      BY <3>1 DEF StateOK
    <3> QED BY <1>1, <3>1, <3>2
  <2>2. CASE RegisterUpdate(h)
    BY <2>2 DEF RegisterUpdate, Doing
  <2>3. CASE Fail(h)
    BY <2>3 DEF Fail
  <2> QED BY <1>4, <2>1, <2>2, <2>3
<1>5. ASSUME NEW h \in Handlers,
             Register(h) \/ Heartbeat(h) \/ RegisterLooksUp(h) \/ SaveNodeEndpoint(h) \/ UpdateCache(h)
      PROVE  recency' = recency
  BY <1>5 DEF Register, Heartbeat, RegisterLooksUp, SaveNodeEndpoint, UpdateCache, tables
<1>6. ASSUME Boot \/ Restart \/ (\E m \in Modes : Expire(m)) \/ UNCHANGED vars
      PROVE  recency' = recency
  BY <1>6 DEF Boot, Restart, Expire, vars, tables
<1> HIDE DEF Goal
<1>7. recency' = recency => Goal
  BY DEF Goal
<1>8. Goal
  BY <1>2, <1>3, <1>4, <1>5, <1>6, <1>7 DEF Next, Steps
<1> QED BY <1>8 DEF Goal

\* A row that is updated is the latest.
LEMMA TouchedIsLatest ==
  ASSUME NEW id \in Ids, recency' = Touched(id)
  PROVE  Latest(id)'
BY DEF Latest, Touched, Dated

\* What a step makes of an endpoint: it stays, or becomes that of the process of a request.
LEMMA Advertises ==
  ASSUME StateOK, TablesOK, [Next]_vars
  PROVE  /\ endpoint' \in [Ids -> 0..Current]
         /\ \A i \in Ids : \/ endpoint'[i] = endpoint[i]
                          \/ \E g \in Handlers : /\ handler[g] # Idle
                                                /\ endpoint'[i] = handler[g].process
         /\ \A h \in Handlers : SaveNodeEndpoint(h) => endpoint'[handler[h].id] = handler[h].process
<1> DEFINE Goal ==
      /\ endpoint' \in [Ids -> 0..Current]
      /\ \A i \in Ids : \/ endpoint'[i] = endpoint[i]
                       \/ \E g \in Handlers : handler[g] # Idle /\ endpoint'[i] = handler[g].process
<1>1. endpoint \in [Ids -> 0..Current] /\ Len(rows) \in Nat /\ Len(rows) <= MaxRows /\ MaxRows \in Nat
  BY NodeRegistryAssumption DEF StateOK, TablesOK
<1>2. ASSUME endpoint' = endpoint PROVE Goal
  BY <1>1, <1>2
<1>3. ASSUME NEW h \in Handlers, SaveNodeEndpoint(h)
      PROVE  Goal /\ endpoint'[handler[h].id] = handler[h].process
  <2>1. handler[h] # Idle /\ handler[h].step = "endpoint"
    BY <1>3 DEF SaveNodeEndpoint, Doing
  <2>2. handler[h].process \in 1..Current /\ handler[h].id \in 1..Len(rows)
    BY <2>1 DEF StateOK
  <2>3. handler[h].id \in Ids /\ handler[h].process \in 0..Current
    BY <1>1, <2>2 DEF Ids
  <2>4. endpoint' = [endpoint EXCEPT ![handler[h].id] = handler[h].process]
    BY <1>3 DEF SaveNodeEndpoint
  <2> QED BY <1>1, <2>1, <2>3, <2>4
<1>4. ASSUME NEW h \in Handlers,
             Register(h) \/ Heartbeat(h) \/ RegisterLooksUp(h) \/ Save(h) \/ RegisterUpdate(h)
               \/ HeartbeatHealth(h) \/ UpdateCache(h) \/ Fail(h)
      PROVE  endpoint' = endpoint
  BY <1>4 DEF Register, Heartbeat, RegisterLooksUp, Save, RegisterUpdate, HeartbeatHealth,
              UpdateCache, Fail, tables
<1>5. ASSUME Boot \/ Restart \/ (\E m \in Modes : Expire(m)) \/ UNCHANGED vars
      PROVE  endpoint' = endpoint
  BY <1>5 DEF Boot, Restart, Expire, vars, tables
<1> HIDE DEF Goal
<1>6. Goal
  BY <1>2, <1>3, <1>4, <1>5 DEF Next, Steps
<1> QED BY <1>3, <1>6 DEF Goal

LEMMA TablesStep ==
  ASSUME StateOK, TablesOK, [Next]_vars
  PROVE  TablesOK'
<1>1. Len(rows) \in Nat /\ Len(rows') \in Nat /\ Len(rows) <= Len(rows')
  BY RowsGrow
<1>2. Current \in Nat /\ Current' \in Nat /\ Current <= Current'
  BY ProcessesGrow
<1>3. recency' \subseteq (1..Len(rows')) \X (1..Len(rows'))
  <2>1. recency \subseteq (1..Len(rows')) \X (1..Len(rows'))
    BY <1>1 DEF TablesOK
  <2>2. ASSUME NEW id \in 1..Len(rows')
        PROVE  Touched(id) \subseteq (1..Len(rows')) \X (1..Len(rows'))
    <3>1. \A i \in Dated \cup {id} : i \in 1..Len(rows')
      BY <2>1, <2>2 DEF Dated
    <3> QED BY <2>1, <2>2, <3>1 DEF Touched
  <2> QED BY <2>1, <2>2, Updating
<1>4. endpoint' \in [Ids -> 0..Current']
  BY <1>2, Advertises
<1> QED BY <1>3, <1>4 DEF TablesOK

\* When nothing older is under way, an endpoint of the process stays.
LEMMA OwnEndpointStep ==
  ASSUME StateOK, TablesOK, NothingOlder, [Next]_vars, NEW i \in Ids, endpoint[i] = Current
  PROVE  endpoint'[i] = Current
BY Advertises DEF NothingOlder

LEMMA EndpointStep ==
  ASSUME IInv, [Next]_vars
  PROVE  EndpointIsOwn'
<1>1. StateOK /\ TablesOK /\ NothingOlderReturns /\ EndpointIsOwn
  BY DEF IInv
<1>2. Len(rows) \in Nat /\ Len(rows) <= MaxRows /\ MaxRows \in Nat /\ 1..Len(rows) \subseteq Ids
  BY <1>1, NodeRegistryAssumption DEF StateOK, Ids
<1>3. Current \in Nat /\ Current' \in Nat /\ Current <= Current'
  BY <1>1, ProcessesGrow
<1> SUFFICES ASSUME Current' \in Advertising PROVE EndpointIsOwn'
  BY DEF EndpointIsOwn
<1>4. ASSUME standing' # "unknown" PROVE endpoint'[known'] = Current'
  <2>1. CASE UNCHANGED node /\ standing # "unknown"
    <3>1. Current' = Current /\ known' = known
      BY <2>1 DEF node, Current
    <3>2. known # 0 /\ NothingOlder /\ endpoint[known] = Current
      BY <1>1, <2>1, <3>1 DEF NothingOlderReturns, EndpointIsOwn
    <3>3. known \in 0..Len(rows)
      BY <1>1 DEF StateOK
    <3>4. known \in Ids
      BY <1>2, <3>2, <3>3 DEF Ids
    <3> QED BY <1>1, <3>1, <3>2, <3>4, OwnEndpointStep
  <2>2. ASSUME NEW h \in Handlers, UNCHANGED <<processes, tables, health>>, handler[h] # Idle,
               handler[h].op = "register", handler[h].step = "cache",
               handler[h].process = Current, known' = handler[h].id, handler[h].first
        PROVE  endpoint'[known'] = Current'
    BY <1>1, <2>2 DEF EndpointIsOwn, Current, tables
  <2> QED BY <1>1, <1>4, <2>1, <2>2, Standing
<1>5. ASSUME NEW h \in Handlers, handler'[h] # Idle, handler'[h].op = "register",
             handler'[h].first, handler'[h].process = Current', handler'[h].step = "cache"
      PROVE  endpoint'[handler'[h].id] = Current'
  <2>1. handler[h] # Idle => handler[h].process \in 1..Current
    BY <1>1 DEF StateOK
  <2>2. ~Arrived(h)
    BY <1>5 DEF Arrived
  <2>3. CASE Kept(h)
    <3>1. handler[h] # Idle /\ handler'[h] = handler[h] /\ Current' = Current
      BY <1>3, <1>5, <2>1, <2>3 DEF Kept
    <3>2. NothingOlder /\ endpoint[handler[h].id] = Current
      BY <1>1, <1>5, <3>1 DEF NothingOlderReturns, EndpointIsOwn
    <3>3. handler[h].id \in Ids
      <4>1. handler[h].id \in 1..Len(rows)
        BY <1>1, <1>5, <3>1 DEF StateOK
      <4> QED BY <1>2, <4>1
    <3> QED BY <1>1, <3>1, <3>2, <3>3, OwnEndpointStep
  <2>4. CASE Proceeded(h)
    <3>1. handler[h] # Idle /\ Current' = Current /\ handler[h].process = Current
      BY <1>5, <2>4 DEF Proceeded, Current
    <3>2. ~HeartbeatHealth(h)
      <4>1. handler[h].op = "register"
        BY <1>5, <2>4 DEF Proceeded
      <4> QED BY <1>1, <3>1, <4>1, Busy DEF HeartbeatHealth, Doing, Registering, Beating
    <3>3. ASSUME Save(h) \/ RegisterUpdate(h) PROVE FALSE
      <4>1. handler'[h].step = AfterWrite(h)
        <5>1. handler \in [Handlers -> HandlerStates] /\ handler[h] \in Registering
          BY <1>1, <3>1, <3>3, Busy DEF Save, RegisterUpdate, Doing, Beating, StateOK
        <5> QED BY <3>3, <5>1 DEF Save, RegisterUpdate, Go, Registering
      <4> QED BY <1>5, <3>1, <4>1 DEF AfterWrite
    <3>4. CASE SaveNodeEndpoint(h) /\ handler'[h].id = handler[h].id
      BY <1>1, <3>1, <3>4, Advertises
    <3> QED BY <1>5, <2>4, <3>2, <3>3, <3>4 DEF Proceeded
  <2> QED BY <1>1, <1>5, <2>2, <2>3, <2>4, Handling
<1> QED BY <1>4, <1>5 DEF EndpointIsOwn

\* A process becomes settled with a heartbeat, and stays so only while nobody registers.
LEMMA Settling ==
  ASSUME StateOK, [Next]_vars, standing' = "settled"
  PROVE  /\ UNCHANGED node
         /\ standing # "unknown"
         /\ \A h \in Handlers : ~Register(h)
         /\ \/ standing = "settled"
            \/ \E h \in Handlers :
                  /\ HeartbeatHealth(h)
                  /\ \A g \in Handlers : handler[g] # Idle =>
                        handler[g].op = "heartbeat" /\ handler[g].id = known
<1>0. \A h \in Handlers : ~Register(h)
  BY DEF Register
<1> DEFINE Goal ==
      /\ UNCHANGED node
      /\ standing # "unknown"
      /\ \/ standing = "settled"
         \/ \E h \in Handlers :
               /\ HeartbeatHealth(h)
               /\ \A g \in Handlers : handler[g] # Idle =>
                     handler[g].op = "heartbeat" /\ handler[g].id = known
<1>1. ASSUME UNCHANGED <<node, standing>> PROVE Goal
  BY <1>1
<1>2. ASSUME NEW h \in Handlers, HeartbeatHealth(h) PROVE Goal
  BY <1>2 DEF HeartbeatHealth, Settled
<1>3. ASSUME NEW h \in Handlers, UpdateCache(h) PROVE UNCHANGED <<node, standing>>
  BY <1>3 DEF UpdateCache, node
<1>4. ASSUME NEW h \in Handlers,
             Heartbeat(h) \/ RegisterLooksUp(h) \/ Save(h) \/ RegisterUpdate(h)
               \/ SaveNodeEndpoint(h) \/ Fail(h)
      PROVE  UNCHANGED <<node, standing>>
  BY <1>4 DEF Heartbeat, RegisterLooksUp, Save, RegisterUpdate, SaveNodeEndpoint, Fail
<1>5. ~Boot
  BY DEF Boot
<1>6. ASSUME Restart \/ (\E m \in Modes : Expire(m)) \/ UNCHANGED vars
      PROVE  UNCHANGED <<node, standing>>
  BY <1>6 DEF Restart, Expire, vars, node
<1> HIDE DEF Goal
<1>7. Goal
  BY <1>0, <1>1, <1>2, <1>3, <1>4, <1>5, <1>6 DEF Next, Steps
<1> QED BY <1>0, <1>7 DEF Goal

LEMMA SettledStep ==
  ASSUME IInv, [Next]_vars
  PROVE  SettledIsLatest'
<1>1. StateOK /\ SettledIsLatest /\ NothingOlderReturns
  BY DEF IInv
<1> SUFFICES ASSUME standing' = "settled" PROVE SettledIsLatest'
  BY DEF SettledIsLatest
<1>2. known' = known /\ \A h \in Handlers : ~Register(h)
  BY <1>1, Settling DEF node
<1>3. \A g \in Handlers : handler[g] # Idle => handler[g].op = "heartbeat" /\ handler[g].id = known
  BY <1>1, Settling DEF SettledIsLatest
<1>4. ASSUME NEW h \in Handlers, handler[h] # Idle, RegisterLooksUp(h) \/ Save(h) PROVE FALSE
  BY <1>1, <1>3, <1>4, Busy DEF RegisterLooksUp, Save, Doing, Registering, Beating
<1>5. ASSUME NEW h \in Handlers, handler'[h] # Idle
      PROVE  handler'[h].op = "heartbeat" /\ handler'[h].id = known
  <2>1. CASE Kept(h)
    BY <1>3, <2>1 DEF Kept
  <2>2. CASE Arrived(h)
    BY <1>2, <2>2 DEF Arrived
  <2>3. CASE Proceeded(h)
    BY <1>3, <1>4, <2>3 DEF Proceeded
  <2> QED BY <1>1, <1>5, <2>1, <2>2, <2>3, Handling
<1>6. Latest(known)'
  <2>1. PICK id \in Ids : id = known
    <3>1. known # 0
      BY <1>1, Settling DEF NothingOlderReturns
    <3>2. known \in 0..Len(rows) /\ Len(rows) \in Nat /\ Len(rows) <= MaxRows
      BY <1>1 DEF StateOK
    <3> QED BY <3>1, <3>2, NodeRegistryAssumption DEF Ids
  <2>2. ASSUME recency' = Touched(id) PROVE Latest(id)'
    BY <2>2, TouchedIsLatest
  <2>3. CASE standing = "settled"
    <3>1. Latest(id)
      BY <1>1, <2>1, <2>3 DEF SettledIsLatest
    <3>2. recency' = recency => Latest(id)'
      BY <3>1 DEF Latest, Dated
    <3>3. recency' = recency \/ recency' = Touched(id)
      <4>1. \A h \in Handlers : ~Save(h)
        BY <1>4 DEF Save, Doing
      <4> QED BY <1>1, <1>3, <2>1, <4>1, Updating
    <3> QED BY <1>2, <2>1, <2>2, <3>2, <3>3 DEF Latest, Dated
  <2>4. CASE standing # "settled"
    <3>1. PICK h \in Handlers : HeartbeatHealth(h)
      BY <1>1, <2>4, Settling
    <3>2. recency' = Touched(id)
      BY <1>3, <2>1, <3>1 DEF HeartbeatHealth, Doing
    <3> QED BY <1>2, <2>1, <2>2, <3>2 DEF Latest, Dated
  <2> QED BY <2>3, <2>4
<1> QED BY <1>2, <1>5, <1>6 DEF SettledIsLatest

-----------------------------------------------------------------------------
THEOREM Invariance == Spec => []IInv
<1>1. Init => IInv
  <2> SUFFICES ASSUME Init PROVE IInv
    OBVIOUS
  <2>1. StateOK
    BY NodeRegistryAssumption DEF Init, StateOK, Current, Modes, Ids, Idle, HandlerStates
  <2>2. TablesOK
    BY DEF Init, TablesOK, Current
  <2> QED
    BY <2>1, <2>2, NodeRegistryAssumption
       DEF Init, IInv, ModesKeepApart, HandlersKeepApart, NothingOlderReturns,
           NoInheritedHealth, EndpointIsOwn, SettledIsLatest, Ids, Idle, Modes
<1>2. IInv /\ [Next]_vars => IInv'
  BY StateStep, ModesStep, OlderReturnsStep, TablesStep, EndpointStep, SettledStep DEF IInv
<1> QED
  BY <1>1, <1>2, PTL DEF Spec

\* What is cached for a mode and what a process was told is a row of its mode, however
\* registrations, heartbeats, expiries, restarts and mode switches meet.
THEOREM ModesApart == Spec => []ModesKeepApart
BY Invariance, PTL DEF IInv

\* The running process, once registered, is never shown with the health of one before it.
THEOREM OwnHealth == Spec => []NoInheritedHealth
BY Invariance, PTL DEF IInv

\* The tables, the cache and the requests always hold values of their kind.
THEOREM TypeCorrect == Spec => []TypeOK
<1>1. IInv => TypeOK
  BY DEF IInv, StateOK, TablesOK, TypeOK
<1> QED
  BY <1>1, Invariance, PTL

\* A settled process that advertises an endpoint is the one other nodes are sent to.
THEOREM SourceIsCurrent == Spec => []SourceFollowsNode
<1>1. IInv => SourceFollowsNode
  <2> SUFFICES ASSUME IInv, standing = "settled", Current \in Advertising PROVE SyncSource = Current
    BY DEF SourceFollowsNode
  <2> DEFINE reachable == {i \in Dated : endpoint[i] # 0}
  <2>1. Latest(known) /\ endpoint[known] = Current /\ known # 0 /\ Current # 0
    BY NodeRegistryAssumption DEF IInv, SettledIsLatest, EndpointIsOwn, NothingOlderReturns
  <2>2. known \in Ids
    <3>1. known \in 0..Len(rows) /\ Len(rows) \in Nat /\ Len(rows) <= MaxRows
      BY DEF IInv, StateOK
    <3> QED BY <2>1, <3>1, NodeRegistryAssumption DEF Ids
  <2>3. known \in reachable
    BY <2>1, <2>2 DEF Latest, Dated
  <2>4. \A j \in reachable : <<j, known>> \in recency
    BY <2>1 DEF Latest
  <2>5. ASSUME NEW i \in reachable, \A j \in reachable : <<j, i>> \in recency PROVE i = known
    BY <2>1, <2>3, <2>5 DEF Latest, Dated
  <2>6. (CHOOSE i \in reachable : \A j \in reachable : <<j, i>> \in recency) = known
    BY <2>3, <2>4, <2>5
  <2> QED BY <2>1, <2>3, <2>6 DEF SyncSource
<1> QED
  BY <1>1, Invariance, PTL
=============================================================================
