-------------------------- MODULE FileScheduler_proofs --------------------------
(***************************************************************************)
(* Theorems about FileScheduler, for every number of nodes, files, blocks, *)
(* callers and rows: one record and one process row of a node for a file,  *)
(* reads that stay valid to the write, and whole downloads.                *)
(***************************************************************************)
EXTENDS FileScheduler, TLAPS

\* The lock: a caller waits once, and only its holder is at work.
LockOK ==
  /\ queue \in Seq(Callers)
  /\ \A i, j \in DOMAIN queue : queue[i] = queue[j] => i = j
  /\ gone \subseteq {c \in Callers : Waiting(c)}
  /\ job \in [Callers -> JobStates]
  /\ \A c \in Callers : job[c] # Idle => Holds(c)

\* The tables: rows of their kind, each of a record.
TablesOK ==
  /\ records \in Seq(Files)
  /\ procs \in Seq(Rows \cup {Deleted})
  /\ \A i \in Live : procs[i].record \in DOMAIN records

IInv == LockOK /\ TablesOK /\ NoDuplicates /\ ReadStaysValid /\ DownloadedIsWhole
-----------------------------------------------------------------------------
\* A caller that leaves the queue is gone from it, and the others keep their places in line.
LEMMA Leaving ==
  ASSUME LockOK, NEW c \in Callers, Waiting(c)
  PROVE  /\ Without(c) \in Seq(Callers)
         /\ \A i, j \in DOMAIN Without(c) : Without(c)[i] = Without(c)[j] => i = j
         /\ \A i \in DOMAIN Without(c) : Without(c)[i] # c
         /\ \A d \in Callers \ {c} : Waiting(d) <=> \E i \in DOMAIN Without(c) : Without(c)[i] = d
         /\ ~Holds(c) => Without(c) # <<>> /\ Head(Without(c)) = Head(queue)
<1> DEFINE place == CHOOSE i \in DOMAIN queue : queue[i] = c
           rest == Without(c)
<1>1. queue \in Seq(Callers) /\ DOMAIN queue = 1..Len(queue) /\ Len(queue) \in Nat
  BY DEF LockOK
<1>2. place \in 1..Len(queue) /\ queue[place] = c
  BY <1>1 DEF Waiting
<1>3. rest = [i \in 1..(Len(queue) - 1) |-> queue[IF i < place THEN i ELSE i + 1]]
  BY DEF Without
<1> HIDE DEF place, rest
<1>4. Len(queue) - 1 \in Nat
  BY <1>1, <1>2
<1>5. /\ rest \in Seq(Callers) /\ Len(rest) = Len(queue) - 1
      /\ DOMAIN rest = 1..(Len(queue) - 1)
      /\ \A i \in 1..(Len(queue) - 1) : rest[i] = queue[IF i < place THEN i ELSE i + 1]
  <2>1. \A i \in 1..(Len(queue) - 1) : queue[IF i < place THEN i ELSE i + 1] \in Callers
    BY <1>1, <1>2
  <2> QED BY <1>3, <1>4, <2>1
<1>6. \A i \in 1..(Len(queue) - 1) : (IF i < place THEN i ELSE i + 1) \in 1..Len(queue) \ {place}
  BY <1>1, <1>2
<1>7. ASSUME NEW i \in DOMAIN rest, NEW j \in DOMAIN rest, rest[i] = rest[j] PROVE i = j
  <2> DEFINE k == IF i < place THEN i ELSE i + 1
             l == IF j < place THEN j ELSE j + 1
  <2>1. k \in 1..Len(queue) /\ l \in 1..Len(queue) /\ queue[k] = queue[l]
    BY <1>5, <1>6, <1>7
  <2>2. k = l
    BY <1>1, <2>1 DEF LockOK
  <2> QED BY <1>2, <1>5, <2>2
<1>8. \A i \in DOMAIN rest : rest[i] # c
  BY <1>1, <1>2, <1>5, <1>6 DEF LockOK
<1>9. ASSUME NEW d \in Callers \ {c}
      PROVE  Waiting(d) <=> \E i \in DOMAIN rest : rest[i] = d
  <2>1. ASSUME NEW k \in 1..Len(queue), queue[k] = d PROVE \E i \in DOMAIN rest : rest[i] = d
    <3> DEFINE i == IF k < place THEN k ELSE k - 1
    <3>1. k # place
      BY <1>2, <2>1
    <3>2. i \in 1..(Len(queue) - 1) /\ (IF i < place THEN i ELSE i + 1) = k
      BY <1>1, <1>2, <3>1
    <3> QED BY <1>5, <2>1, <3>2
  <2> QED BY <1>1, <1>5, <1>6, <2>1 DEF Waiting
<1>10. ~Holds(c) => rest # <<>> /\ Head(rest) = Head(queue)
  <2> SUFFICES ASSUME ~Holds(c) PROVE rest # <<>> /\ Head(rest) = Head(queue)
    OBVIOUS
  <2>1. place > 1
    BY <1>1, <1>2 DEF Holds
  <2>2. 1 \in 1..(Len(queue) - 1) /\ rest[1] = queue[1]
    BY <1>1, <1>2, <1>5, <2>1
  <2> QED BY <1>1, <1>5, <2>2
<1> QED
  BY <1>5, <1>7, <1>8, <1>9, <1>10 DEF rest

\* Who holds the lock is alone with it.
LEMMA Alone ==
  ASSUME LockOK, NEW c \in Callers, Holds(c)
  PROVE  Waiting(c) /\ \A d \in Callers \ {c} : job[d] = Idle
BY DEF LockOK, Holds, Waiting

\* What a busy caller carries.
LEMMA Carries ==
  ASSUME LockOK, NEW c \in Callers, job[c].step \in {"query", "pull", "write"}
  PROVE  /\ job[c] # Idle /\ Holds(c)
         /\ job[c].step = "write" => /\ job[c].node \in Nodes /\ job[c].file \in Files
                                    /\ job[c].record \in Nat /\ job[c].own \in Nat
         /\ job[c].step = "write" /\ job[c].op = "SchedulerFile" =>
               job[c].master \in Nat /\ job[c].offset \in Offsets /\ job[c].maxOffset \in Offsets
<1>1. job[c] \in JobStates
  BY DEF LockOK
<1>2. job[c] # Idle
  BY DEF Idle
<1>3. Holds(c)
  BY <1>2 DEF LockOK
<1> QED
  BY <1>1, <1>2, <1>3 DEF JobStates
-----------------------------------------------------------------------------
\* A caller that returns or gives up leaves the lock in order.
LEMMA LeaveStep ==
  ASSUME LockOK, NEW c \in Callers, Waiting(c),
         queue' = Without(c), gone' = gone \ {c}, job' = [job EXCEPT ![c] = Idle]
  PROVE  LockOK'
<1> DEFINE rest == Without(c)
<1>1. /\ rest \in Seq(Callers)
      /\ \A i, j \in DOMAIN rest : rest[i] = rest[j] => i = j
      /\ \A i \in DOMAIN rest : rest[i] # c
      /\ \A d \in Callers \ {c} : Waiting(d) <=> \E i \in DOMAIN rest : rest[i] = d
      /\ ~Holds(c) => rest # <<>> /\ Head(rest) = Head(queue)
  BY Leaving
<1> HIDE DEF rest
<1>2. queue' = rest
  BY DEF rest
<1>3. gone' \subseteq {d \in Callers : Waiting(d)'}
  BY <1>1, <1>2 DEF LockOK, Waiting
<1>4. job' \in [Callers -> JobStates] /\ job'[c] = Idle
  BY DEF LockOK, JobStates
<1>5. ASSUME NEW d \in Callers, job'[d] # Idle PROVE Holds(d)'
  <2>1. d # c /\ job[d] # Idle
    BY <1>4, <1>5 DEF LockOK
  <2>2. Holds(d) /\ ~Holds(c)
    BY <2>1, Alone DEF LockOK
  <2> QED BY <1>1, <1>2, <2>2 DEF Holds
<1> QED
  BY <1>1, <1>2, <1>3, <1>4, <1>5 DEF LockOK

\* A holder that goes on with its work.
LEMMA WorkStep ==
  ASSUME LockOK, NEW c \in Callers, Holds(c), NEW new \in JobStates,
         UNCHANGED <<queue, gone>>, job' = [job EXCEPT ![c] = new]
  PROVE  LockOK'
BY DEF LockOK, Holds, Waiting

LEMMA LiveRow ==
  ASSUME TablesOK, NEW i \in Live
  PROVE  /\ i \in 1..Len(procs) /\ i \in Nat \ {0} /\ procs[i] \in Rows
         /\ procs[i].record \in 1..Len(records) /\ Len(records) \in Nat
BY DEF TablesOK, Live

LEMMA Rowsets ==
  ASSUME TablesOK, NEW f, NEW n
  PROVE  /\ RecordsOf(f) \subseteq Nat \ {0}
         /\ OwnRows(f, n) \subseteq RowsOf(f) /\ RowsOf(f) \subseteq Live
         /\ Live \subseteq Nat \ {0}
BY DEF RecordsOf, OwnRows, RowsOf, Live, TablesOK

\* What SchedulerFile and SingleFileProcess have read.
LEMMA ReadsTyped ==
  ASSUME LockOK, TablesOK, NEW c \in Callers, Decide(c) \/ FindProcess(c)
  PROVE  /\ Holds(c) /\ UNCHANGED <<queue, gone, tables>>
         /\ \E new \in JobStates : job' = [job EXCEPT ![c] = new]
<1>1. Holds(c)
  BY Carries DEF Decide, FindProcess
<1>2. CASE Decide(c)
  <2>1. PICK n \in Nodes, f \in Files, start \in Offsets, alive \in SUBSET Nodes :
          \E record \in Found(RecordsOf(f)), own \in Found(Furthest(OwnRows(f, n))),
             master \in Found(Masters(f, n, start, alive)) :
            job' = [job EXCEPT ![c] =
                  [op |-> "SchedulerFile", step |-> "write", node |-> n, file |-> f,
                   record |-> record, own |-> own, master |-> master,
                   maxOffset |-> IF master = 0 THEN 0 ELSE procs[master].offset,
                   offset |-> IF own = 0 THEN 0 ELSE Lesser(procs[own].offset, start)]]
    BY <1>2 DEF Decide
  <2>2. PICK record \in Found(RecordsOf(f)), own \in Found(Furthest(OwnRows(f, n))),
             master \in Found(Masters(f, n, start, alive)) :
            job' = [job EXCEPT ![c] =
                  [op |-> "SchedulerFile", step |-> "write", node |-> n, file |-> f,
                   record |-> record, own |-> own, master |-> master,
                   maxOffset |-> IF master = 0 THEN 0 ELSE procs[master].offset,
                   offset |-> IF own = 0 THEN 0 ELSE Lesser(procs[own].offset, start)]]
    BY <2>1
  <2>3. /\ record \in Nat
        /\ own = 0 \/ own \in Live
        /\ master = 0 \/ master \in Live
    BY Rowsets DEF Found, Furthest, Masters
  <2>4. /\ own \in Nat /\ master \in Nat
        /\ own # 0 => procs[own].offset \in Offsets
        /\ master # 0 => procs[master].offset \in Offsets
    BY <2>3, LiveRow DEF Rows
  <2>5. 0 \in Offsets
    BY FileSchedulerAssumption DEF Offsets
  <2>6. Lesser(procs[own].offset, start) \in {procs[own].offset, start}
    BY DEF Lesser
  <2> DEFINE new == [op |-> "SchedulerFile", step |-> "write", node |-> n, file |-> f,
                     record |-> record, own |-> own, master |-> master,
                     maxOffset |-> IF master = 0 THEN 0 ELSE procs[master].offset,
                     offset |-> IF own = 0 THEN 0 ELSE Lesser(procs[own].offset, start)]
  <2>7. new \in JobStates
    BY <2>3, <2>4, <2>5, <2>6 DEF JobStates
  <2> QED
    BY <1>1, <1>2, <2>2, <2>7 DEF Decide
<1>3. CASE FindProcess(c)
  <2>1. PICK n \in Nodes, f \in Files :
          \E record \in Found(RecordsOf(f)), own \in Found(OwnRows(f, n)) :
           job' = [job EXCEPT ![c] = [op |-> "SingleFileProcess", step |-> "write", node |-> n,
                                   file |-> f, record |-> record, own |-> own]]
    BY <1>3 DEF FindProcess
  <2>2. PICK record \in Found(RecordsOf(f)), own \in Found(OwnRows(f, n)) :
           job' = [job EXCEPT ![c] = [op |-> "SingleFileProcess", step |-> "write", node |-> n,
                                   file |-> f, record |-> record, own |-> own]]
    BY <2>1
  <2>3. record \in Nat /\ own \in Nat
    BY Rowsets DEF Found
  <2> QED
    BY <1>1, <1>3, <2>2, <2>3 DEF FindProcess, JobStates
<1> QED
  BY <1>2, <1>3

\* Every step of a caller that returns it, starts work, or reads.
Returns(c) ==
  \/ ReportById(c) \/ DeleteByEtagsAndFields(c) \/ IngestPublished(c)
  \/ Assign(c) \/ StoreReport(c) \/ Fail(c)

LEMMA ReturnsAlone ==
  ASSUME LockOK, NEW c \in Callers, Returns(c)
  PROVE  /\ Holds(c) /\ Waiting(c)
         /\ queue' = Without(c) /\ gone' = gone \ {c} /\ job' = [job EXCEPT ![c] = Idle]
         /\ \A d \in Callers : job'[d] = Idle
<1>1. /\ job[c].step \in {"pull", "write"} => Holds(c)
      /\ Holds(c) => Waiting(c)
  BY Carries, Alone
<1>2. Holds(c)
  BY <1>1 DEF Returns, ReportById, DeleteByEtagsAndFields, IngestPublished, Assign, StoreReport,
              Fail, Enter
<1>3. queue' = Without(c) /\ gone' = gone \ {c} /\ job' = [job EXCEPT ![c] = Idle]
  BY DEF Returns, ReportById, DeleteByEtagsAndFields, IngestPublished, Assign, StoreReport,
         Fail, Return
<1> QED
  BY <1>1, <1>2, <1>3, Alone DEF LockOK

\* Work begins: a query or a pull.
Starts(c) == StartQuery(c) \/ IngestRepository(c)

LEMMA StartsAlone ==
  ASSUME LockOK, NEW c \in Callers, Starts(c)
  PROVE  /\ Holds(c) /\ UNCHANGED <<queue, gone, tables>>
         /\ \E new \in JobStates : new.step # "write" /\ job' = [job EXCEPT ![c] = new]
<1>1. CASE StartQuery(c)
  <2>1. PICK op \in {"SchedulerFile", "SingleFileProcess"} :
           job' = [job EXCEPT ![c] = [op |-> op, step |-> "query"]]
    BY <1>1 DEF StartQuery
  <2>2. [op |-> op, step |-> "query"] \in JobStates
    BY DEF JobStates
  <2> QED BY <1>1, <2>1, <2>2 DEF StartQuery, Enter
<1>2. CASE IngestRepository(c)
  <2>1. [op |-> "IngestRepository", step |-> "pull"] \in JobStates
    BY DEF JobStates
  <2> QED BY <1>2, <2>1 DEF IngestRepository, Enter
<1> QED BY <1>1, <1>2 DEF Starts

\* The steps of Next, by what they do to the lock.
LEMMA Steps ==
  Next => \/ ReportFileProcess
          \/ Restart
          \/ \E c \in Callers :
                \/ Call(c) \/ Cancel(c) \/ Abandon(c)
                \/ Returns(c) \/ Starts(c) \/ Decide(c) \/ FindProcess(c)
BY DEF Next, Locked, Answered, Written, Returns, Starts

LEMMA LockStep == LockOK /\ TablesOK /\ [Next]_vars => LockOK'
<1> SUFFICES ASSUME LockOK, TablesOK, [Next]_vars PROVE LockOK'
  OBVIOUS
<1>1. ASSUME UNCHANGED <<queue, gone, job>> PROVE LockOK'
  BY <1>1 DEF LockOK, Holds, Waiting
<1>2. ASSUME Restart PROVE LockOK'
  BY <1>2 DEF Restart, LockOK, JobStates, Waiting
<1>3. ASSUME NEW c \in Callers, Call(c) PROVE LockOK'
  <2>1. /\ queue \in Seq(Callers) /\ Len(queue) \in Nat
        /\ queue' = Append(queue, c) /\ queue' \in Seq(Callers)
        /\ DOMAIN queue = 1..Len(queue) /\ DOMAIN queue' = 1..(Len(queue) + 1)
        /\ queue'[Len(queue) + 1] = c
        /\ \A i \in 1..Len(queue) : queue'[i] = queue[i]
    BY <1>3 DEF Call, LockOK
  <2>2. \A i \in 1..Len(queue) : queue[i] # c
    BY <1>3, <2>1 DEF Call, Waiting
  <2>3. \A i, j \in DOMAIN queue' : queue'[i] = queue'[j] => i = j
    BY <2>1, <2>2 DEF LockOK
  <2>4. \A d \in Callers : Waiting(d) => Waiting(d)'
    BY <2>1 DEF Waiting
  <2>5. \A d \in Callers : Holds(d) => Holds(d)'
    BY <2>1 DEF Holds
  <2> QED BY <1>3, <2>1, <2>3, <2>4, <2>5 DEF Call, LockOK
<1>4. ASSUME NEW c \in Callers, Cancel(c) PROVE LockOK'
  BY <1>4 DEF Cancel, LockOK, Holds, Waiting
<1>5. ASSUME NEW c \in Callers, Abandon(c) PROVE LockOK'
  BY <1>5, LeaveStep DEF Abandon
<1>6. ASSUME NEW c \in Callers, Returns(c) PROVE LockOK'
  BY <1>6, ReturnsAlone, LeaveStep
<1>7. ASSUME NEW c \in Callers, Starts(c) PROVE LockOK'
  BY <1>7, StartsAlone, WorkStep
<1>8. ASSUME NEW c \in Callers, Decide(c) \/ FindProcess(c) PROVE LockOK'
  BY <1>8, ReadsTyped, WorkStep
<1> QED
  BY <1>1, <1>2, <1>3, <1>4, <1>5, <1>6, <1>7, <1>8, Steps DEF ReportFileProcess, vars
-----------------------------------------------------------------------------
\* Rows that are only changed in place or deleted: no row gets another record or node, and a
\* row that is reported as downloaded is whole.
Whole(row) == row.status = "downloaded" => row.offset = Size

InPlace(new) ==
  /\ new \in Seq(Rows \cup {Deleted}) /\ Len(new) = Len(procs)
  /\ \A k \in 1..Len(procs) : new[k] # Deleted =>
        /\ k \in Live
        /\ new[k].record = procs[k].record /\ new[k].node = procs[k].node
        /\ Whole(new[k])

\* A report or a break moves a row forward or leaves it.
Forward(new) ==
  \A k \in Live : new[k] # Deleted /\ new[k].offset >= procs[k].offset

LEMMA ReportedForward ==
  ASSUME TablesOK, DownloadedIsWhole, NEW i \in Nat, NEW r \in Reports
  PROVE  InPlace(Reported(i, r)) /\ Forward(Reported(i, r))
<1>1. /\ procs \in Seq(Rows \cup {Deleted}) /\ Len(procs) \in Nat /\ DOMAIN procs = 1..Len(procs)
      /\ r.sta \in Offsets /\ r.end \in Offsets /\ r.status \in Statuses /\ r.sta <= r.end
      /\ r.status = "downloaded" => r.end = Size
  BY FileSchedulerAssumption DEF TablesOK, Reports, Offsets
<1>2. \A k \in Live : /\ k \in 1..Len(procs) /\ procs[k] \in Rows /\ Whole(procs[k])
                      /\ procs[k].offset \in Nat
  BY LiveRow, FileSchedulerAssumption DEF DownloadedIsWhole, Whole, Rows, Offsets
<1>3. CASE Reported(i, r) = procs
  BY <1>1, <1>2, <1>3 DEF InPlace, Forward, Live
<1>4. ASSUME i \in Live, NEW row \in Rows, row.record = procs[i].record,
             row.node = procs[i].node, row.offset >= procs[i].offset, Whole(row),
             Reported(i, r) = [procs EXCEPT ![i] = row]
      PROVE  InPlace(Reported(i, r)) /\ Forward(Reported(i, r))
  <2>1. row # Deleted
    BY <1>2, <1>4 DEF Rows, Deleted
  <2>2. /\ [procs EXCEPT ![i] = row] \in Seq(Rows \cup {Deleted})
        /\ Len([procs EXCEPT ![i] = row]) = Len(procs)
        /\ [procs EXCEPT ![i] = row][i] = row
        /\ \A k \in 1..Len(procs) : k # i => [procs EXCEPT ![i] = row][k] = procs[k]
    BY <1>1, <1>2, <1>4
  <2> QED BY <1>1, <1>2, <1>4, <2>1, <2>2 DEF InPlace, Forward, Live
<1>5. CASE i \in Live /\ r.status = "break"
  <2> DEFINE row == [procs[i] EXCEPT !.status = "break"]
  <2>1. /\ row \in Rows /\ row.record = procs[i].record /\ row.node = procs[i].node
        /\ row.offset >= procs[i].offset /\ Whole(row)
    BY <1>2, <1>5 DEF Rows, Statuses, Whole
  <2>2. Reported(i, r) = [procs EXCEPT ![i] = row]
    BY <1>5 DEF Reported
  <2> HIDE DEF row
  <2> QED BY <1>4, <1>5, <2>1, <2>2
<1>6. CASE i \in Live /\ r.status # "break" /\ procs[i].offset <= r.sta
  <2> DEFINE row == [procs[i] EXCEPT !.offset = r.end, !.status = r.status]
  <2>1. /\ row \in Rows /\ row.record = procs[i].record /\ row.node = procs[i].node
        /\ row.offset = r.end /\ row.status = r.status
    BY <1>1, <1>2, <1>6 DEF Rows
  <2>2. row.offset >= procs[i].offset /\ Whole(row)
    BY <1>1, <1>2, <1>6, <2>1, FileSchedulerAssumption DEF Whole, Offsets
  <2>3. Reported(i, r) = [procs EXCEPT ![i] = row]
    BY <1>1, <1>2, <1>6 DEF Reported
  <2> HIDE DEF row
  <2> QED BY <1>4, <1>6, <2>1, <2>2, <2>3
<1> QED
  BY <1>3, <1>5, <1>6 DEF Reported

LEMMA ResetInPlace ==
  ASSUME TablesOK, DownloadedIsWhole, NEW i \in Live, NEW offset \in Offsets
  PROVE  InPlace(ResetProcess(i, offset))
<1>1. /\ procs \in Seq(Rows \cup {Deleted}) /\ Len(procs) \in Nat /\ DOMAIN procs = 1..Len(procs)
      /\ i \in 1..Len(procs) /\ procs[i] \in Rows
  BY LiveRow DEF TablesOK
<1> DEFINE row == [procs[i] EXCEPT !.offset = offset, !.status = "new"]
<1>2. /\ row \in Rows /\ row.record = procs[i].record /\ row.node = procs[i].node /\ Whole(row)
  BY <1>1 DEF Rows, Statuses, Whole
<1>3. ResetProcess(i, offset) = [procs EXCEPT ![i] = row]
  BY <1>1 DEF ResetProcess
<1> HIDE DEF row
<1>4. /\ [procs EXCEPT ![i] = row] \in Seq(Rows \cup {Deleted})
      /\ Len([procs EXCEPT ![i] = row]) = Len(procs)
      /\ [procs EXCEPT ![i] = row][i] = row
      /\ \A k \in 1..Len(procs) : k # i => [procs EXCEPT ![i] = row][k] = procs[k]
  BY <1>1, <1>2
<1> QED
  BY <1>1, <1>2, <1>3, <1>4 DEF InPlace, Live, DownloadedIsWhole, Whole

LEMMA DeletedInPlace ==
  ASSUME TablesOK, DownloadedIsWhole, NEW S,
         NEW new, new = [i \in DOMAIN procs |-> IF i \in S THEN Deleted ELSE procs[i]]
  PROVE  InPlace(new)
<1>1. /\ procs \in Seq(Rows \cup {Deleted}) /\ Len(procs) \in Nat /\ DOMAIN procs = 1..Len(procs)
  BY DEF TablesOK
<1>2. \A i \in 1..Len(procs) : new[i] \in Rows \cup {Deleted} /\ new[i] \in {Deleted, procs[i]}
  BY <1>1
<1>3. new \in Seq(Rows \cup {Deleted}) /\ Len(new) = Len(procs)
  BY <1>1, <1>2
<1> QED
  BY <1>1, <1>2, <1>3 DEF InPlace, Live, DownloadedIsWhole, Whole

\* The tables after a change in place.
LEMMA InPlaceStep ==
  ASSUME TablesOK, NoDuplicates, InPlace(procs'), records' = records
  PROVE  TablesOK' /\ NoDuplicates' /\ DownloadedIsWhole'
<1>1. Live' \subseteq Live /\ Live' = {i \in 1..Len(procs) : procs'[i] # Deleted}
  BY DEF InPlace, Live, TablesOK
<1>2. \A i \in Live' : /\ i \in 1..Len(procs) /\ procs'[i] # Deleted
                       /\ procs'[i].record = procs[i].record /\ procs'[i].node = procs[i].node
                       /\ Whole(procs'[i])
  BY <1>1 DEF InPlace
<1> QED
  BY <1>1, <1>2 DEF TablesOK, NoDuplicates, DownloadedIsWhole, InPlace, Whole

\* The tables after an insertion for a file and a node that had no row.
LEMMA InsertStep ==
  ASSUME TablesOK, NoDuplicates, DownloadedIsWhole,
         NEW f \in Files, NEW n \in Nodes, NEW record \in Nat,
         NEW offset \in Offsets, NEW status \in Statuses, status = "downloaded" => offset = Size,
         RecordsOf(f) = {record} \ {0}, OwnRows(f, n) = {},
         Insert(f, [record |-> record, node |-> n, offset |-> offset, status |-> status])
  PROVE  /\ TablesOK' /\ NoDuplicates' /\ DownloadedIsWhole'
         /\ Live' = Live \cup {Len(procs) + 1} /\ Len(procs) + 1 \notin Live
         /\ \A i \in Live : procs'[i] = procs[i]
         /\ \A k \in DOMAIN records : records'[k] = records[k]
         /\ \E id : /\ records'[id] = f
                   /\ procs'[Len(procs) + 1] =
                        [record |-> id, node |-> n, offset |-> offset, status |-> status]
<1> DEFINE last == Len(procs) + 1
           id == IF record = 0 THEN Len(records) + 1 ELSE record
           row == [record |-> id, node |-> n, offset |-> offset, status |-> status]
<1>1. /\ procs \in Seq(Rows \cup {Deleted}) /\ Len(procs) \in Nat /\ DOMAIN procs = 1..Len(procs)
      /\ records \in Seq(Files) /\ Len(records) \in Nat /\ DOMAIN records = 1..Len(records)
  BY DEF TablesOK
<1>2. procs' = Append(procs, row)
  BY DEF Insert
<1>3. \/ record = 0 /\ records' = Append(records, f)
      \/ record # 0 /\ records' = records
  BY DEF Insert
<1>4. /\ records' \in Seq(Files) /\ DOMAIN records \subseteq DOMAIN records'
      /\ \A k \in DOMAIN records : records'[k] = records[k]
      /\ id \in Nat \ {0} /\ id \in DOMAIN records' /\ records'[id] = f
      /\ DOMAIN records' = DOMAIN records \cup {id}
      /\ record = 0 => id \notin DOMAIN records
  <2>1. record # 0 => record \in DOMAIN records /\ records[record] = f
    BY DEF RecordsOf
  <2>2. CASE record = 0
    <3>1. /\ id = Len(records) + 1 /\ records' = Append(records, f)
          /\ records' \in Seq(Files) /\ DOMAIN records' = 1..(Len(records) + 1)
          /\ records'[Len(records) + 1] = f
          /\ \A k \in DOMAIN records : records'[k] = records[k]
      BY <1>1, <1>3, <2>2
    <3> QED BY <1>1, <2>2, <3>1
  <2>3. CASE record # 0
    BY <1>1, <1>3, <2>1, <2>3
  <2> QED BY <2>2, <2>3
<1>5. row \in Rows /\ row # Deleted /\ row.record = id /\ row.node = n /\ Whole(row)
  BY <1>4 DEF Rows, Deleted, Whole
<1> HIDE DEF row, id
<1>6. /\ procs' \in Seq(Rows \cup {Deleted}) /\ DOMAIN procs' = 1..last
      /\ procs'[last] = row /\ \A k \in 1..Len(procs) : procs'[k] = procs[k]
  BY <1>1, <1>2, <1>5
<1>7. Live' = Live \cup {last} /\ last \notin Live /\ \A i \in Live : procs'[i] = procs[i]
  BY <1>1, <1>5, <1>6 DEF Live
<1>8. TablesOK'
  BY <1>4, <1>5, <1>6, <1>7 DEF TablesOK
<1>9. \A j, k \in DOMAIN records' : records'[j] = records'[k] => j = k
  <2>1. record = 0 => \A k \in DOMAIN records : records[k] # f
    BY DEF RecordsOf
  <2>2. record # 0 => id = record /\ records' = records
    BY <1>3 DEF id
  <2> QED BY <1>3, <1>4, <2>1, <2>2 DEF NoDuplicates
<1>10. ASSUME NEW i \in Live, procs[i].record = id, procs[i].node = n PROVE FALSE
  <2>1. procs[i].record \in DOMAIN records
    BY DEF TablesOK
  <2>2. records[procs[i].record] = f
    BY <1>4, <1>10, <2>1
  <2> QED BY <1>10, <2>2 DEF OwnRows, RowsOf, Live
<1>11. \A i, j \in Live' :
          procs'[i].record = procs'[j].record /\ procs'[i].node = procs'[j].node => i = j
  BY <1>5, <1>6, <1>7, <1>10 DEF NoDuplicates
<1>12. DownloadedIsWhole'
  BY <1>5, <1>6, <1>7 DEF DownloadedIsWhole, Whole
<1>13. /\ records'[id] = f
       /\ procs'[last] = [record |-> id, node |-> n, offset |-> offset, status |-> status]
  BY <1>4, <1>6 DEF row
<1> QED
  BY <1>4, <1>7, <1>8, <1>9, <1>11, <1>12, <1>13 DEF NoDuplicates

\* The tables after any step.
Tables == TablesOK /\ NoDuplicates /\ DownloadedIsWhole

LEMMA TablesStep == IInv /\ [Next]_vars => Tables'
<1> SUFFICES ASSUME IInv, [Next]_vars PROVE Tables'
  OBVIOUS
<1>0. LockOK /\ Tables /\ ReadStaysValid
  BY DEF IInv, Tables
<1>1. ASSUME UNCHANGED tables PROVE Tables'
  BY <1>0, <1>1 DEF tables, Tables, TablesOK, NoDuplicates, DownloadedIsWhole, Live
<1>2. ASSUME InPlace(procs'), records' = records PROVE Tables'
  BY <1>0, <1>2, InPlaceStep DEF Tables
<1>3. ASSUME ReportFileProcess PROVE Tables'
  <2>1. PICK i \in DOMAIN procs, r \in Reports : procs' = Reported(i, r)
    BY <1>3 DEF ReportFileProcess
  <2>2. i \in Nat /\ records' = records
    BY <1>0, <1>3 DEF ReportFileProcess, Tables, TablesOK
  <2> QED BY <1>0, <1>2, <2>1, <2>2, ReportedForward DEF Tables
<1>4. ASSUME NEW c \in Callers, ReportById(c) PROVE Tables'
  <2>1. PICK n \in Nodes, f \in Files, r \in Reports :
           \E i \in OwnRows(f, n) : procs' = Reported(i, r)
    BY <1>4 DEF ReportById
  <2>2. PICK i \in OwnRows(f, n) : procs' = Reported(i, r)
    BY <2>1
  <2>3. i \in Nat /\ records' = records
    BY <1>0, <1>4, Rowsets DEF ReportById, Tables
  <2> QED BY <1>0, <1>2, <2>2, <2>3, ReportedForward DEF Tables
<1>5. ASSUME NEW c \in Callers, DeleteByEtagsAndFields(c) PROVE Tables'
  <2>1. PICK n \in Nodes, f \in Files, given \in {{"name"}, {"etag"}, {"name", "etag"}} :
           procs' = DeleteByRecordID(GetIDsByEtagsOrFields(f, given), n)
    BY <1>5 DEF DeleteByEtagsAndFields
  <2> DEFINE ids == GetIDsByEtagsOrFields(f, given)
  <2> HIDE DEF ids
  <2>2. records' = records
    BY <1>5 DEF DeleteByEtagsAndFields
  <2> DEFINE S == {i \in Live : procs[i].record \in ids /\ procs[i].node = n}
  <2>3. procs' = [i \in DOMAIN procs |-> IF i \in S THEN Deleted ELSE procs[i]]
    BY <2>1 DEF DeleteByRecordID, ids
  <2> HIDE DEF S
  <2> QED BY <1>0, <1>2, <2>2, <2>3, DeletedInPlace DEF Tables
<1>6. ASSUME NEW c \in Callers, Assign(c) PROVE Tables'
  <2>1. /\ job[c].node \in Nodes /\ job[c].file \in Files /\ job[c].record \in Nat
        /\ job[c].own \in Nat /\ job[c].offset \in Offsets
    BY <1>0, <1>6, Carries DEF Assign
  <2>2. /\ RecordsOf(job[c].file) = {job[c].record} \ {0}
        /\ OwnRows(job[c].file, job[c].node) = {job[c].own} \ {0}
    BY <1>0, <1>6 DEF Assign, ReadStaysValid
  <2>3. CASE job[c].own # 0
    <3>1. job[c].own \in Live /\ procs' = ResetProcess(job[c].own, job[c].offset)
          /\ records' = records
      BY <1>0, <1>6, <2>2, <2>3, Rowsets DEF Assign, Tables
    <3> QED BY <1>0, <1>2, <2>1, <3>1, ResetInPlace DEF Tables
  <2>4. CASE job[c].own = 0
    <3>1. Insert(job[c].file, [record |-> job[c].record, node |-> job[c].node,
                               offset |-> 0, status |-> "new"])
      BY <1>6, <2>4 DEF Assign
    <3>2. 0 \in Offsets /\ "new" \in Statuses /\ OwnRows(job[c].file, job[c].node) = {}
      BY <2>2, <2>4, FileSchedulerAssumption DEF Offsets, Statuses
    <3>3. "new" = "downloaded" => 0 = Size
      OBVIOUS
    <3>4. TablesOK /\ NoDuplicates /\ DownloadedIsWhole
      BY <1>0 DEF Tables
    <3>5. TablesOK' /\ NoDuplicates' /\ DownloadedIsWhole'
      BY <2>1, <2>2, <3>1, <3>2, <3>3, <3>4, InsertStep
    <3> QED BY <3>5 DEF Tables
  <2> QED BY <2>3, <2>4
<1>7. ASSUME NEW c \in Callers, StoreReport(c) PROVE Tables'
  <2>1. /\ job[c].node \in Nodes /\ job[c].file \in Files /\ job[c].record \in Nat
        /\ job[c].own \in Nat
    BY <1>0, <1>7, Carries DEF StoreReport
  <2>2. /\ RecordsOf(job[c].file) = {job[c].record} \ {0}
        /\ OwnRows(job[c].file, job[c].node) = {job[c].own} \ {0}
    BY <1>0, <1>7 DEF StoreReport, ReadStaysValid
  <2>3. PICK r \in Reports :
          IF job[c].own # 0
          THEN procs' = Reported(job[c].own, r) /\ UNCHANGED records
          ELSE Insert(job[c].file, [record |-> job[c].record, node |-> job[c].node,
                                    offset |-> r.end, status |-> r.status])
    BY <1>7 DEF StoreReport
  <2>4. CASE job[c].own # 0
    BY <1>0, <1>2, <2>1, <2>3, <2>4, ReportedForward DEF Tables
  <2>5. CASE job[c].own = 0
    <3>1. /\ r.end \in Offsets /\ r.status \in Statuses
          /\ r.status = "downloaded" => r.end = Size
          /\ OwnRows(job[c].file, job[c].node) = {}
      BY <2>2, <2>5 DEF Reports
    <3>2. Insert(job[c].file, [record |-> job[c].record, node |-> job[c].node,
                               offset |-> r.end, status |-> r.status])
      BY <2>3, <2>5
    <3>3. TablesOK /\ NoDuplicates /\ DownloadedIsWhole
      BY <1>0 DEF Tables
    <3>4. TablesOK' /\ NoDuplicates' /\ DownloadedIsWhole'
      BY <2>1, <2>2, <3>1, <3>2, <3>3, InsertStep
    <3> QED BY <3>4 DEF Tables
  <2> QED BY <2>4, <2>5
<1>8. ASSUME NEW c \in Callers, IngestPublished(c) \/ Fail(c) PROVE Tables'
  BY <1>1, <1>8 DEF IngestPublished, Fail
<1>9. ASSUME NEW c \in Callers, Starts(c) \/ Decide(c) \/ FindProcess(c) PROVE Tables'
  BY <1>1, <1>9 DEF Starts, StartQuery, IngestRepository, Decide, FindProcess
<1>10. ASSUME NEW c \in Callers, Call(c) \/ Cancel(c) \/ Abandon(c) PROVE Tables'
  BY <1>1, <1>10 DEF Call, Cancel, Abandon
<1>11. ASSUME Restart \/ UNCHANGED vars PROVE Tables'
  BY <1>1, <1>11 DEF Restart, vars
<1> QED
  BY <1>3, <1>4, <1>5, <1>6, <1>7, <1>8, <1>9, <1>10, <1>11, Steps DEF Returns
-----------------------------------------------------------------------------
\* What job j read holds of the tables: ReadStaysValid, for one job.
ReadHolds(j) ==
  /\ RecordsOf(j.file) = {j.record} \ {0}
  /\ OwnRows(j.file, j.node) = {j.own} \ {0}
  /\ j.op = "SchedulerFile" /\ j.master # 0 =>
        j.master \in RowsOf(j.file) /\ procs[j.master].offset >= j.maxOffset
  /\ j.op = "SchedulerFile" /\ j.own # 0 => j.offset <= procs[j.own].offset

\* An unlocked report spoils no read.
LEMMA ForwardKeepsReads ==
  ASSUME TablesOK, InPlace(procs'), Forward(procs'), records' = records,
         NEW j, ReadHolds(j), j.op = "SchedulerFile" => j.maxOffset \in Nat /\ j.offset \in Nat
  PROVE  ReadHolds(j)'
<1>1. Live' = Live
  BY DEF InPlace, Forward, Live, TablesOK
<1>2. \A i \in Live : /\ procs'[i].record = procs[i].record /\ procs'[i].node = procs[i].node
                      /\ procs'[i].offset >= procs[i].offset
  BY LiveRow DEF InPlace, Forward
<1>3. \A i \in Live : procs[i].offset \in Nat /\ procs'[i].offset \in Nat
  <2>1. \A i \in Live : procs[i] \in Rows /\ i \in 1..Len(procs)
    BY LiveRow
  <2>2. \A i \in Live : procs'[i] \in Rows
    BY <2>1 DEF InPlace, Forward
  <2> QED BY <2>1, <2>2, FileSchedulerAssumption DEF Rows, Offsets
<1>4. /\ RowsOf(j.file)' = RowsOf(j.file)
      /\ OwnRows(j.file, j.node)' = OwnRows(j.file, j.node)
      /\ RecordsOf(j.file)' = RecordsOf(j.file)
  <2>1. RowsOf(j.file)' = RowsOf(j.file)
    BY <1>1, <1>2 DEF RowsOf
  <2>2. RowsOf(j.file) \subseteq Live
    BY DEF RowsOf
  <2>3. OwnRows(j.file, j.node) = {i \in RowsOf(j.file) : procs[i].node = j.node}
    BY DEF OwnRows, RowsOf, Live
  <2>4. OwnRows(j.file, j.node)' = {i \in RowsOf(j.file)' : procs'[i].node = j.node}
    BY DEF OwnRows, RowsOf, Live
  <2> QED BY <1>2, <2>1, <2>2, <2>3, <2>4 DEF RecordsOf
<1>5. RowsOf(j.file) \subseteq Live /\ OwnRows(j.file, j.node) \subseteq Live
  BY DEF RowsOf, OwnRows, Live
<1>6. j.own # 0 => j.own \in Live
  BY <1>5 DEF ReadHolds
<1> QED
  BY <1>2, <1>3, <1>4, <1>5, <1>6 DEF ReadHolds

\* What SchedulerFile and SingleFileProcess read holds when they have read it.  That a node has
\* no two rows for a file makes the furthest the only one.
LEMMA ReadsHold ==
  ASSUME LockOK, Tables, NEW c \in Callers, Decide(c) \/ FindProcess(c)
  PROVE  ReadHolds(job'[c])
<1>1. ASSUME NEW f \in Files, NEW record \in Found(RecordsOf(f))
      PROVE  RecordsOf(f) = {record} \ {0}
  <2>1. \A j, k \in RecordsOf(f) : j = k
    BY DEF RecordsOf, Tables, NoDuplicates
  <2>2. 0 \notin RecordsOf(f)
    BY Rowsets DEF Tables
  <2> QED BY <1>1, <2>1, <2>2 DEF Found
<1>2. ASSUME NEW f \in Files, NEW n \in Nodes,
             NEW own \in Found(OwnRows(f, n)) \cup Found(Furthest(OwnRows(f, n)))
      PROVE  OwnRows(f, n) = {own} \ {0}
  <2>1. \A i \in OwnRows(f, n) :
           i \in Live /\ procs[i].record \in DOMAIN records /\ records[procs[i].record] = f
             /\ procs[i].node = n
    BY DEF OwnRows, Live, Tables, TablesOK
  <2>2. \A i, j \in OwnRows(f, n) : i = j
    BY <2>1 DEF Tables, NoDuplicates
  <2>3. 0 \notin OwnRows(f, n)
    BY Rowsets DEF Tables
  <2>4. \A i \in OwnRows(f, n) : procs[i].offset \in Nat
    BY <2>1, LiveRow, FileSchedulerAssumption DEF Tables, Rows, Offsets
  <2>5. Furthest(OwnRows(f, n)) = OwnRows(f, n)
    BY <2>2, <2>4 DEF Furthest
  <2> QED BY <1>2, <2>2, <2>3, <2>5 DEF Found
<1>3. job \in [Callers -> JobStates]
  BY DEF LockOK
<1>4. CASE FindProcess(c)
  <2>1. PICK n \in Nodes, f \in Files :
          \E record \in Found(RecordsOf(f)), own \in Found(OwnRows(f, n)) :
           job' = [job EXCEPT ![c] = [op |-> "SingleFileProcess", step |-> "write", node |-> n,
                                   file |-> f, record |-> record, own |-> own]]
    BY <1>4 DEF FindProcess
  <2>2. PICK record \in Found(RecordsOf(f)), own \in Found(OwnRows(f, n)) :
           job'[c] = [op |-> "SingleFileProcess", step |-> "write", node |-> n,
                      file |-> f, record |-> record, own |-> own]
    BY <1>3, <2>1
  <2> QED BY <1>1, <1>2, <2>2 DEF ReadHolds
<1>5. CASE Decide(c)
  <2>1. \E n \in Nodes, f \in Files, start \in Offsets, alive \in SUBSET Nodes :
          \E record \in Found(RecordsOf(f)), own \in Found(Furthest(OwnRows(f, n))),
             master \in Found(Masters(f, n, start, alive)) :
            /\ job'[c].file = f /\ job'[c].node = n
            /\ job'[c].record = record /\ job'[c].own = own /\ job'[c].master = master
            /\ job'[c].maxOffset = IF master = 0 THEN 0 ELSE procs[master].offset
            /\ job'[c].offset = IF own = 0 THEN 0 ELSE Lesser(procs[own].offset, start)
    BY <1>3, <1>5 DEF Decide
  <2>2. PICK n \in Nodes, f \in Files, start \in Offsets, alive \in SUBSET Nodes :
          \E record \in Found(RecordsOf(f)), own \in Found(Furthest(OwnRows(f, n))),
             master \in Found(Masters(f, n, start, alive)) :
            /\ job'[c].file = f /\ job'[c].node = n
            /\ job'[c].record = record /\ job'[c].own = own /\ job'[c].master = master
            /\ job'[c].maxOffset = IF master = 0 THEN 0 ELSE procs[master].offset
            /\ job'[c].offset = IF own = 0 THEN 0 ELSE Lesser(procs[own].offset, start)
    BY <2>1
  <2>3. PICK record \in Found(RecordsOf(f)), own \in Found(Furthest(OwnRows(f, n))),
             master \in Found(Masters(f, n, start, alive)) :
            /\ job'[c].file = f /\ job'[c].node = n
            /\ job'[c].record = record /\ job'[c].own = own /\ job'[c].master = master
            /\ job'[c].maxOffset = IF master = 0 THEN 0 ELSE procs[master].offset
            /\ job'[c].offset = IF own = 0 THEN 0 ELSE Lesser(procs[own].offset, start)
    BY <2>2
  <2>4. master # 0 => /\ master \in RowsOf(f) /\ master \in Live
                      /\ procs[master].offset \in Nat
    <3>1. master # 0 => master \in RowsOf(f) /\ master \in Live
      BY DEF Found, Masters, RowsOf
    <3> QED BY <3>1, LiveRow, FileSchedulerAssumption DEF Tables, Rows, Offsets
  <2>5. /\ RecordsOf(f) = {job'[c].record} \ {0}
        /\ OwnRows(f, n) = {job'[c].own} \ {0}
    BY <1>1, <1>2, <2>3
  <2>6. job'[c].master # 0 =>
           job'[c].master \in RowsOf(f) /\ procs[job'[c].master].offset >= job'[c].maxOffset
    BY <2>3, <2>4
  <2>7. job'[c].own # 0 => job'[c].offset <= procs[job'[c].own].offset
    <3>1. own # 0 => own \in Live
      BY Rowsets DEF Found, Furthest, Tables
    <3>2. own # 0 => procs[own].offset \in Nat
      BY <3>1, LiveRow, FileSchedulerAssumption DEF Tables, Rows, Offsets
    <3> QED BY <2>3, <3>2, FileSchedulerAssumption DEF Lesser, Offsets
  <2> QED BY <2>3, <2>5, <2>6, <2>7 DEF ReadHolds
<1> QED
  BY <1>4, <1>5

LEMMA ReadsStep == IInv /\ [Next]_vars => ReadStaysValid'
<1> SUFFICES ASSUME IInv, [Next]_vars, NEW c \in Callers, job'[c].step = "write"
             PROVE  ReadHolds(job[c])'
  BY DEF ReadStaysValid, ReadHolds
<1>0. LockOK /\ Tables /\ ReadStaysValid /\ LockOK' /\ job \in [Callers -> JobStates]
  BY LockStep DEF IInv, Tables, LockOK
<1>1. job[c].step = "write" => ReadHolds(job[c])
  BY <1>0 DEF ReadStaysValid, ReadHolds
<1>2. ASSUME UNCHANGED tables, job'[c] = job[c] PROVE ReadHolds(job[c])'
  BY <1>1, <1>2 DEF tables, ReadHolds, RecordsOf, OwnRows, RowsOf, Live
<1>3. ASSUME NEW d \in Callers, Returns(d) PROVE FALSE
  BY <1>0, <1>3, ReturnsAlone DEF Idle
<1>4. ASSUME Restart PROVE FALSE
  BY <1>4 DEF Restart, Idle
<1>5. ASSUME ReportFileProcess PROVE ReadHolds(job[c])'
  <2>1. PICK i \in DOMAIN procs, r \in Reports : procs' = Reported(i, r)
    BY <1>5 DEF ReportFileProcess
  <2>2. i \in Nat /\ records' = records /\ job' = job
    BY <1>0, <1>5 DEF ReportFileProcess, Tables, TablesOK
  <2>3. InPlace(procs') /\ Forward(procs')
    BY <1>0, <2>1, <2>2, ReportedForward DEF Tables
  <2>4. job[c].op = "SchedulerFile" => job[c].maxOffset \in Nat /\ job[c].offset \in Nat
    BY <1>0, <2>2, Carries, FileSchedulerAssumption DEF Offsets
  <2>5. ReadHolds(job[c])
    BY <1>1, <2>2
  <2> QED BY <1>0, <2>2, <2>3, <2>4, <2>5, ForwardKeepsReads DEF Tables, ReadHolds, RecordsOf,
             OwnRows, RowsOf, Live
<1>6. ASSUME NEW d \in Callers, Call(d) \/ Cancel(d) PROVE ReadHolds(job[c])'
  BY <1>2, <1>6 DEF Call, Cancel
<1>7. ASSUME NEW d \in Callers, Abandon(d) PROVE ReadHolds(job[c])'
  <2>1. d # c
    BY <1>0, <1>7 DEF Abandon, Idle
  <2> QED BY <1>0, <1>2, <1>7, <2>1 DEF Abandon
<1>8. ASSUME NEW d \in Callers, Starts(d) PROVE FALSE
  <2>1. PICK new \in JobStates : new.step # "write" /\ job' = [job EXCEPT ![d] = new]
    BY <1>0, <1>8, StartsAlone
  <2>2. d # c
    BY <1>0, <2>1
  <2>3. job[c] = Idle
    BY <1>0, <1>8, <2>2, StartsAlone, Alone
  <2> QED BY <1>0, <2>1, <2>2, <2>3 DEF Idle
<1>9. ASSUME NEW d \in Callers, Decide(d) \/ FindProcess(d) PROVE ReadHolds(job[c])'
  <2>1. Holds(d) /\ UNCHANGED tables /\ \E new \in JobStates : job' = [job EXCEPT ![d] = new]
    BY <1>0, <1>9, ReadsTyped DEF Tables
  <2>2. d = c
    <3>1. d # c => job'[c] = Idle
      BY <1>0, <2>1, Alone
    <3> QED BY <3>1 DEF Idle
  <2>3. ReadHolds(job'[c])
    BY <1>0, <1>9, <2>2, ReadsHold
  <2> QED BY <2>1, <2>3 DEF tables, ReadHolds, RecordsOf, OwnRows, RowsOf, Live
<1>10. ASSUME UNCHANGED vars PROVE ReadHolds(job[c])'
  BY <1>2, <1>10 DEF vars, tables
<1> QED
  BY <1>3, <1>4, <1>5, <1>6, <1>7, <1>8, <1>9, <1>10, Steps
-----------------------------------------------------------------------------
(* FileScheduler implements FileProgress. *)

\* One download is written and the others are as they were.
LEMMA Moves ==
  ASSUME NEW f \in Files, NEW n \in Nodes,
         \A g \in Files, m \in Nodes : g # f \/ m # n => ProgressOf(g, m)' = ProgressOf(g, m),
         Progress!Write(ProgressOf(f, n), ProgressOf(f, n)')
  PROVE  Progress!Next \/ UNCHANGED Downloads
<1>1. Downloads[f][n] = ProgressOf(f, n) /\ Downloads'[f][n] = ProgressOf(f, n)'
  BY DEF Downloads
<1>2. Progress!Only(f, n, Downloads, Downloads')
  BY <1>1 DEF Downloads, Progress!Only
<1>3. Progress!Write(Downloads[f][n], Downloads'[f][n])
  BY <1>1
<1>4. CASE Downloads'[f][n] = Downloads[f][n]
  BY <1>4 DEF Downloads
<1>5. CASE Downloads'[f][n] # Downloads[f][n]
  BY <1>2, <1>3, <1>5 DEF Progress!Next, Progress!Step
<1> QED
  BY <1>4, <1>5

\* The progress of a file at a node is that of the node's only row for it.
LEMMA OneRow ==
  ASSUME Tables, NEW f \in Files, NEW n \in Nodes
  PROVE  /\ OwnRows(f, n) = {} => ProgressOf(f, n) = Progress!None
         /\ \A i \in OwnRows(f, n) :
               /\ OwnRows(f, n) = {i}
               /\ ProgressOf(f, n) = [offset |-> procs[i].offset, status |-> procs[i].status]
<1>1. \A i, j \in OwnRows(f, n) : i = j
  BY DEF Tables, TablesOK, NoDuplicates, OwnRows, RowsOf, Live
<1> QED
  BY <1>1 DEF ProgressOf, Progress!None

\* A node whose rows for a file are as before is as far with it as before.
LEMMA Untouched ==
  ASSUME NEW f, NEW n, OwnRows(f, n)' = OwnRows(f, n),
         \A i \in OwnRows(f, n) : procs'[i] = procs[i]
  PROVE  ProgressOf(f, n)' = ProgressOf(f, n)
BY DEF ProgressOf

\* A row that changes in place moves the download it stands for and no other.
LEMMA RowMoves ==
  ASSUME Tables, NEW i \in Live, NEW row \in Rows,
         row.record = procs[i].record, row.node = procs[i].node,
         Progress!Write([offset |-> procs[i].offset, status |-> procs[i].status],
                        [offset |-> row.offset, status |-> row.status]),
         procs' = [procs EXCEPT ![i] = row], records' = records
  PROVE  Progress!Next \/ UNCHANGED Downloads
<1>0. PICK f \in Files, n \in Nodes : f = records[procs[i].record] /\ n = procs[i].node
  BY LiveRow DEF Tables, TablesOK, Rows
<1>1. i \in DOMAIN procs /\ procs[i] \in Rows /\ i \in OwnRows(f, n)
  BY <1>0, LiveRow DEF Tables, TablesOK, OwnRows, RowsOf, Live
<1>2. procs'[i] = row /\ \A j \in Live \ {i} : procs'[j] = procs[j]
  BY <1>1 DEF Live
<1>3. Live' = Live
  <2>1. row # Deleted
    BY DEF Rows, Deleted
  <2> QED BY <1>1, <1>2, <2>1 DEF Live
<1>4. ASSUME NEW g, NEW m PROVE OwnRows(g, m)' = OwnRows(g, m)
  <2>1. OwnRows(g, m) = {j \in Live : procs[j].node = m /\ records[procs[j].record] = g}
    BY DEF OwnRows, Live
  <2>2. OwnRows(g, m)' = {j \in Live' : procs'[j].node = m /\ records'[procs'[j].record] = g}
    BY DEF OwnRows, Live
  <2> QED BY <1>2, <1>3, <2>1, <2>2
<1>5. ASSUME NEW g \in Files, NEW m \in Nodes, g # f \/ m # n
      PROVE  ProgressOf(g, m)' = ProgressOf(g, m)
  <2>1. i \notin OwnRows(g, m) /\ OwnRows(g, m) \subseteq Live
    BY <1>0, <1>5 DEF OwnRows, RowsOf, Live
  <2> QED BY <1>2, <1>4, <2>1, Untouched
<1>6. /\ ProgressOf(f, n) = [offset |-> procs[i].offset, status |-> procs[i].status]
      /\ ProgressOf(f, n)' = [offset |-> row.offset, status |-> row.status]
  <2>1. OwnRows(f, n) = {i} /\ OwnRows(f, n)' = {i}
    BY <1>1, <1>4, OneRow
  <2> QED BY <1>2, <2>1 DEF ProgressOf
<1> QED
  BY <1>5, <1>6, Moves

\* A report, of whichever row, moves that row's download forward or leaves all as it is.
LEMMA ReportMoves ==
  ASSUME Tables, NEW i \in Nat, NEW r \in Reports, procs' = Reported(i, r), records' = records
  PROVE  Progress!Next \/ UNCHANGED Downloads
<1>1. /\ r.sta \in Offsets /\ r.end \in Offsets /\ r.sta <= r.end
      /\ r.status \in {"downloading", "break", "downloaded"}
      /\ r.status = "downloaded" => r.end = Size
  BY FileSchedulerAssumption DEF Reports, Statuses, Offsets
<1>2. CASE procs' = procs
  BY <1>2 DEF Downloads, ProgressOf, OwnRows, RowsOf, Live
<1>3. ASSUME i \in Live PROVE procs[i] \in Rows /\ i \in DOMAIN procs /\ procs[i].offset \in Offsets
  BY <1>3, LiveRow DEF Tables, TablesOK, Rows
<1>4. CASE i \in Live /\ r.status = "break"
  <2> DEFINE row == [procs[i] EXCEPT !.status = "break"]
  <2>1. /\ row \in Rows /\ row.record = procs[i].record /\ row.node = procs[i].node
        /\ row.offset = procs[i].offset /\ row.status = "break"
    BY <1>3, <1>4 DEF Rows, Statuses
  <2>2. procs' = [procs EXCEPT ![i] = row]
    BY <1>4 DEF Reported
  <2> HIDE DEF row
  <2>3. [offset |-> row.offset, status |-> row.status] \in [offset : 0..Size, status : {"break"}]
    BY <1>3, <1>4, <2>1 DEF Offsets
  <2> QED BY <1>4, <2>1, <2>2, <2>3, RowMoves DEF Progress!Write, Progress!Assign,
      Progress!Advance, Progress!Break
<1>5. CASE i \in Live /\ r.status # "break" /\ procs[i].offset <= r.sta
  <2> DEFINE row == [procs[i] EXCEPT !.offset = r.end, !.status = r.status]
  <2>1. /\ row \in Rows /\ row.record = procs[i].record /\ row.node = procs[i].node
        /\ row.offset = r.end /\ row.status = r.status
    BY <1>1, <1>3, <1>5 DEF Rows, Statuses
  <2>2. procs' = [procs EXCEPT ![i] = row]
    BY <1>3, <1>5 DEF Reported
  <2> HIDE DEF row
  <2>3. row.offset \in procs[i].offset..Size
    BY <1>1, <1>3, <1>5, <2>1, FileSchedulerAssumption DEF Offsets
  <2>4. \/ [offset |-> row.offset, status |-> row.status] \in
             [offset : procs[i].offset..Size, status : {"downloading"}]
        \/ [offset |-> row.offset, status |-> row.status] =
             [offset |-> Size, status |-> "downloaded"]
    BY <1>1, <1>5, <2>1, <2>3
  <2> QED BY <1>5, <2>1, <2>2, <2>4, RowMoves DEF Progress!Write, Progress!Assign,
      Progress!Advance, Progress!Break
<1> QED
  BY <1>2, <1>4, <1>5 DEF Reported

\* A row is taken back to a place it has passed.
LEMMA ResetMoves ==
  ASSUME Tables, NEW i \in Live, NEW offset \in Offsets, offset <= procs[i].offset,
         procs' = ResetProcess(i, offset), records' = records
  PROVE  Progress!Next \/ UNCHANGED Downloads
<1>1. i \in DOMAIN procs /\ procs[i] \in Rows /\ procs[i].offset \in Offsets
  BY LiveRow DEF Tables, TablesOK, Rows
<1> DEFINE row == [procs[i] EXCEPT !.offset = offset, !.status = "new"]
<1>2. /\ row \in Rows /\ row.record = procs[i].record /\ row.node = procs[i].node
      /\ row.offset = offset /\ row.status = "new"
  BY <1>1 DEF Rows, Statuses
<1>3. procs' = [procs EXCEPT ![i] = row]
  BY <1>1 DEF ResetProcess
<1> HIDE DEF row
<1>4. [offset |-> row.offset, status |-> row.status] \in
        [offset : 0..procs[i].offset, status : {"new"}]
  BY <1>1, <1>2, FileSchedulerAssumption DEF Offsets
<1> QED
  BY <1>2, <1>3, <1>4, RowMoves DEF Progress!Write, Progress!Assign,
      Progress!Advance, Progress!Break

\* The rows that a node has of all the files that a deletion selects are deleted, and no other.
LEMMA DeletionMoves ==
  ASSUME Tables, NEW f \in Files, NEW n \in Nodes,
         NEW given \in {{"name"}, {"etag"}, {"name", "etag"}}, records' = records,
         procs' = DeleteByRecordID(GetIDsByEtagsOrFields(f, given), n)
  PROVE  Progress!Next \/ UNCHANGED Downloads
<1> DEFINE S == {i \in Live : /\ procs[i].record \in GetIDsByEtagsOrFields(f, given)
                              /\ procs[i].node = n}
<1>1. procs' = [i \in DOMAIN procs |-> IF i \in S THEN Deleted ELSE procs[i]]
  BY DEF DeleteByRecordID
<1>2. ASSUME NEW i \in Live
      PROVE  i \in S <=> /\ records[procs[i].record] \in Progress!Alike(f, given)
                         /\ procs[i].node = n
  <2>1. procs[i].record \in DOMAIN records /\ records[procs[i].record] \in Files
    BY LiveRow DEF Tables, TablesOK
  <2> QED BY <2>1 DEF GetIDsByEtagsOrFields, Progress!Alike
<1>3. S \subseteq Live
  OBVIOUS
<1> HIDE DEF S
<1>4. Live' = Live \ S /\ \A i \in Live' : procs'[i] = procs[i]
  BY <1>1, <1>3 DEF Live
<1>5. ASSUME NEW g, NEW m
      PROVE  OwnRows(g, m)' = OwnRows(g, m) \ S /\ OwnRows(g, m) \subseteq Live
  BY <1>4 DEF OwnRows, Live
<1>6. ASSUME NEW g \in Files, NEW m \in Nodes, g \notin Progress!Alike(f, given) \/ m # n
      PROVE  ProgressOf(g, m)' = ProgressOf(g, m)
  <2>1. OwnRows(g, m) \cap S = {}
    BY <1>2, <1>3, <1>6 DEF OwnRows
  <2> QED BY <1>4, <1>5, <2>1, Untouched
<1>7. ASSUME NEW g \in Progress!Alike(f, given)
      PROVE  ProgressOf(g, n)' = Progress!None
  <2>1. OwnRows(g, n) \subseteq S
    BY <1>2, <1>5, <1>7 DEF OwnRows
  <2>2. OwnRows(g, n)' = {}
    BY <1>5, <2>1
  <2> QED BY <2>2 DEF ProgressOf, Progress!None
<1>8. Progress!Forget(f, given, n, Downloads, Downloads')
  <2>1. ASSUME NEW g \in Files
        PROVE  Downloads'[g] = IF g \in Progress!Alike(f, given)
                               THEN [Downloads[g] EXCEPT ![n] = Progress!None] ELSE Downloads[g]
    BY <1>6, <1>7 DEF Downloads
  <2>2. Downloads' = [g \in Files |-> Downloads'[g]]
    BY DEF Downloads
  <2> QED BY <2>1, <2>2 DEF Progress!Forget
<1>9. ASSUME NEW g \in Files, Downloads'[g] # Downloads[g] PROVE Progress!Next
  <2>1. /\ g \in Progress!Alike(f, given)
        /\ Downloads'[g] = [Downloads[g] EXCEPT ![n] = Progress!None]
    BY <1>8, <1>9 DEF Progress!Forget
  <2>2. Downloads[g] = [m \in Nodes |-> ProgressOf(g, m)]
    BY DEF Downloads
  <2>3. Downloads'[g][n] = Progress!None /\ Downloads'[g][n] # Downloads[g][n]
    BY <1>9, <2>1, <2>2
  <2>4. Progress!Alike(g, given) = Progress!Alike(f, given)
    BY <2>1 DEF Progress!Alike
  <2>5. Progress!Forget(g, given, n, Downloads, Downloads')
    BY <1>8, <2>4 DEF Progress!Forget
  <2> QED BY <2>3, <2>5 DEF Progress!Next, Progress!Step
<1>10. (\A g \in Files : Downloads'[g] = Downloads[g]) => UNCHANGED Downloads
  BY DEF Downloads
<1> QED
  BY <1>9, <1>10

\* The first row of a file at a node.
LEMMA InsertMoves ==
  ASSUME Tables, NEW f \in Files, NEW n \in Nodes, NEW record \in Nat,
         NEW offset \in Offsets, NEW status \in Statuses, status = "downloaded" => offset = Size,
         status = "new" => offset = 0,
         RecordsOf(f) = {record} \ {0}, OwnRows(f, n) = {},
         Insert(f, [record |-> record, node |-> n, offset |-> offset, status |-> status])
  PROVE  Progress!Next \/ UNCHANGED Downloads
<1> DEFINE last == Len(procs) + 1
<1>1. PICK id : /\ records'[id] = f
                /\ procs'[last] = [record |-> id, node |-> n, offset |-> offset, status |-> status]
  BY InsertStep DEF Tables
<1>2. /\ Live' = Live \cup {last} /\ last \notin Live
      /\ \A i \in Live : procs'[i] = procs[i]
      /\ \A k \in DOMAIN records : records'[k] = records[k]
  BY InsertStep DEF Tables
<1> HIDE DEF last
<1>3. \A i \in Live : procs[i].record \in DOMAIN records
  BY DEF Tables, TablesOK
<1>4. ASSUME NEW g \in Files, NEW m \in Nodes, g # f \/ m # n
      PROVE  ProgressOf(g, m)' = ProgressOf(g, m)
  <2>1. OwnRows(g, m)' = OwnRows(g, m)
    BY <1>1, <1>2, <1>3, <1>4 DEF OwnRows, RowsOf, Live
  <2>2. OwnRows(g, m) \subseteq Live
    BY DEF OwnRows, RowsOf, Live
  <2> QED BY <1>2, <2>1, <2>2, Untouched
<1>5. ProgressOf(f, n)' = [offset |-> offset, status |-> status]
  <2>1. OwnRows(f, n)' = OwnRows(f, n) \cup {last}
    BY <1>1, <1>2, <1>3 DEF OwnRows, RowsOf, Live
  <2>2. OwnRows(f, n)' = {last}
    BY <2>1
  <2> QED BY <1>1, <2>2 DEF ProgressOf
<1>6. ProgressOf(f, n) = Progress!None
  BY OneRow
<1>7. Progress!Write(Progress!None, [offset |-> offset, status |-> status])
  BY FileSchedulerAssumption DEF Progress!Write, Progress!Assign, Progress!Advance,
       Progress!Break, Progress!None, Offsets, Statuses
<1> QED
  BY <1>4, <1>5, <1>6, <1>7, Moves

\* What a caller writes, it writes for the file and the node it was called with.
LEMMA WriteMoves ==
  ASSUME IInv, NEW c \in Callers, Assign(c) \/ StoreReport(c)
  PROVE  Progress!Next \/ UNCHANGED Downloads
<1>0. LockOK /\ Tables /\ ReadStaysValid
  BY DEF IInv, Tables
<1>1. /\ job[c].step = "write"
      /\ job[c].node \in Nodes /\ job[c].file \in Files /\ job[c].record \in Nat
      /\ job[c].own \in Nat
      /\ job[c].op = "SchedulerFile" => job[c].offset \in Offsets
  BY <1>0, Carries DEF Assign, StoreReport
<1>2. /\ RecordsOf(job[c].file) = {job[c].record} \ {0}
      /\ OwnRows(job[c].file, job[c].node) = {job[c].own} \ {0}
      /\ job[c].op = "SchedulerFile" /\ job[c].own # 0 =>
            job[c].offset <= procs[job[c].own].offset
  BY <1>0, <1>1 DEF ReadStaysValid
<1>3. job[c].own # 0 => job[c].own \in Live
  BY <1>2 DEF OwnRows, RowsOf, Live
<1>4. CASE Assign(c)
  <2>1. CASE job[c].own # 0
    <3>1. procs' = ResetProcess(job[c].own, job[c].offset) /\ records' = records
          /\ job[c].op = "SchedulerFile"
      BY <1>4, <2>1 DEF Assign
    <3> QED BY <1>0, <1>1, <1>2, <1>3, <2>1, <3>1, ResetMoves
  <2>2. CASE job[c].own = 0
    <3>1. Insert(job[c].file, [record |-> job[c].record, node |-> job[c].node,
                               offset |-> 0, status |-> "new"])
      BY <1>4, <2>2 DEF Assign
    <3>2. 0 \in Offsets /\ "new" \in Statuses /\ OwnRows(job[c].file, job[c].node) = {}
      BY <1>2, <2>2, FileSchedulerAssumption DEF Offsets, Statuses
    <3>3. ("new" = "downloaded" => 0 = Size) /\ ("new" = "new" => 0 = 0)
      OBVIOUS
    <3> QED BY <1>0, <1>1, <1>2, <3>1, <3>2, <3>3, InsertMoves
  <2> QED BY <2>1, <2>2
<1>5. CASE StoreReport(c)
  <2>1. PICK r \in Reports :
          IF job[c].own # 0
          THEN procs' = Reported(job[c].own, r) /\ UNCHANGED records
          ELSE Insert(job[c].file, [record |-> job[c].record, node |-> job[c].node,
                                    offset |-> r.end, status |-> r.status])
    BY <1>5 DEF StoreReport
  <2>2. CASE job[c].own # 0
    BY <1>0, <1>1, <2>1, <2>2, ReportMoves
  <2>3. CASE job[c].own = 0
    <3>1. /\ r.end \in Offsets /\ r.status \in Statuses
          /\ r.status = "downloaded" => r.end = Size
          /\ r.status = "new" => r.end = 0
          /\ OwnRows(job[c].file, job[c].node) = {}
      BY <1>2, <2>3 DEF Reports
    <3>2. Insert(job[c].file, [record |-> job[c].record, node |-> job[c].node,
                               offset |-> r.end, status |-> r.status])
      BY <2>1, <2>3
    <3> QED BY <1>0, <1>1, <1>2, <3>1, <3>2, InsertMoves
  <2> QED BY <2>2, <2>3
<1> QED
  BY <1>4, <1>5

\* Every step is a step of FileProgress or leaves every download as it is.
LEMMA StepRefines == IInv /\ [Next]_vars => Progress!Next \/ UNCHANGED Downloads
<1> SUFFICES ASSUME IInv, [Next]_vars PROVE Progress!Next \/ UNCHANGED Downloads
  OBVIOUS
<1>0. LockOK /\ Tables
  BY DEF IInv, Tables
<1>1. ASSUME UNCHANGED tables PROVE UNCHANGED Downloads
  BY <1>1 DEF tables, Downloads, ProgressOf, OwnRows, RowsOf, Live
<1>2. ASSUME ReportFileProcess PROVE Progress!Next \/ UNCHANGED Downloads
  <2>1. PICK i \in DOMAIN procs, r \in Reports : procs' = Reported(i, r)
    BY <1>2 DEF ReportFileProcess
  <2>2. i \in Nat /\ records' = records
    BY <1>0, <1>2 DEF ReportFileProcess, Tables, TablesOK
  <2> QED BY <1>0, <2>1, <2>2, ReportMoves
<1>3. ASSUME NEW c \in Callers, ReportById(c) PROVE Progress!Next \/ UNCHANGED Downloads
  <2>1. PICK n \in Nodes, f \in Files, r \in Reports :
           \E i \in OwnRows(f, n) : procs' = Reported(i, r)
    BY <1>3 DEF ReportById
  <2>2. PICK i \in OwnRows(f, n) : procs' = Reported(i, r)
    BY <2>1
  <2>3. i \in Nat /\ records' = records
    BY <1>0, <1>3, Rowsets DEF ReportById, Tables
  <2> QED BY <1>0, <2>2, <2>3, ReportMoves
<1>4. ASSUME NEW c \in Callers, DeleteByEtagsAndFields(c)
      PROVE  Progress!Next \/ UNCHANGED Downloads
  <2>1. PICK n \in Nodes, f \in Files, given \in {{"name"}, {"etag"}, {"name", "etag"}} :
          procs' = DeleteByRecordID(GetIDsByEtagsOrFields(f, given), n)
    BY <1>4 DEF DeleteByEtagsAndFields
  <2>2. records' = records
    BY <1>4 DEF DeleteByEtagsAndFields
  <2> QED BY <1>0, <2>1, <2>2, DeletionMoves
<1>5. ASSUME NEW c \in Callers, Assign(c) \/ StoreReport(c)
      PROVE  Progress!Next \/ UNCHANGED Downloads
  BY <1>5, WriteMoves
<1>6. ASSUME NEW c \in Callers,
             \/ IngestPublished(c) \/ Fail(c) \/ Starts(c) \/ Decide(c) \/ FindProcess(c)
             \/ Call(c) \/ Cancel(c) \/ Abandon(c)
      PROVE  UNCHANGED tables
  BY <1>6 DEF IngestPublished, Fail, Starts, StartQuery, IngestRepository, Decide, FindProcess,
              Call, Cancel, Abandon
<1>7. ASSUME Restart \/ UNCHANGED vars PROVE UNCHANGED tables
  BY <1>7 DEF Restart, vars
<1> QED
  BY <1>1, <1>2, <1>3, <1>4, <1>5, <1>6, <1>7, Steps DEF Returns
-----------------------------------------------------------------------------
\* The inductive invariant holds in every reachable state.
THEOREM Invariance == Spec => []IInv
<1>1. Init => IInv
  BY DEF Init, IInv, LockOK, TablesOK, JobStates, Live, Idle, NoDuplicates, ReadStaysValid,
         DownloadedIsWhole
<1>2. IInv /\ [Next]_vars => IInv'
  BY LockStep, TablesStep, ReadsStep DEF IInv, Tables
<1> QED
  BY <1>1, <1>2, PTL DEF Spec

\* TypeOK, for every value of the constants.
THEOREM TypeCorrect == Spec => []TypeOK
<1>1. IInv => TypeOK
  BY DEF IInv, LockOK, TablesOK, TypeOK
<1> QED
  BY <1>1, Invariance, PTL

\* One record of a file and one row of a node for it, although the tables have no unique key.
THEOREM NeverDuplicated == Spec => []NoDuplicates
BY Invariance, PTL DEF IInv

\* What a handler read under the lock holds when it writes, unlocked reports or not.
THEOREM ReadsStayValid == Spec => []ReadStaysValid
BY Invariance, PTL DEF IInv

\* A downloaded row covers its file.
THEOREM DownloadsWhole == Spec => []DownloadedIsWhole
BY Invariance, PTL DEF IInv

\* The scheduler, with its lock, its two-step handlers and the reports that take no lock,
\* implements FileProgress: every RPC takes effect at once, an assignment or a report on one
\* download, a deletion on all the downloads of one node that it selects.
THEOREM Refinement == Spec => ImplementsProgress
<1>1. Init => Progress!Init
  BY DEF Init, Progress!Init, Progress!None, Downloads, ProgressOf, OwnRows, RowsOf, Live
<1>2. IInv /\ [Next]_vars => [Progress!Next]_Downloads
  BY StepRefines
<1> QED
  BY <1>1, <1>2, Invariance, PTL DEF Spec, Progress!Spec, ImplementsProgress
-----------------------------------------------------------------------------
(* Waiting *)

\* c is before d in the line for the lock.
Before(c, d) == \E i, j \in DOMAIN queue : i < j /\ queue[i] = c /\ queue[j] = d

\* Nobody overtakes by another's leaving, from whichever place.
LEMMA LeavingKeepsOrder ==
  ASSUME LockOK, NEW e \in Callers, Waiting(e), queue' = Without(e),
         NEW c, NEW d, Before(c, d)'
  PROVE  Before(c, d)
<1> DEFINE place == CHOOSE i \in DOMAIN queue : queue[i] = e
<1>1. /\ Len(queue) \in Nat /\ DOMAIN queue = 1..Len(queue)
      /\ place \in 1..Len(queue)
  BY DEF LockOK, Waiting
<1>2. queue' = [i \in 1..(Len(queue) - 1) |-> queue[IF i < place THEN i ELSE i + 1]]
  BY DEF Without
<1> HIDE DEF place
<1>3. PICK i, j \in 1..(Len(queue) - 1) : i < j /\ queue'[i] = c /\ queue'[j] = d
  BY <1>2 DEF Before
<1> DEFINE k == IF i < place THEN i ELSE i + 1
           l == IF j < place THEN j ELSE j + 1
<1>4. k \in 1..Len(queue) /\ l \in 1..Len(queue) /\ k < l
  BY <1>1, <1>3
<1>5. queue[k] = c /\ queue[l] = d
  BY <1>2, <1>3
<1> QED
  BY <1>1, <1>4, <1>5 DEF Before

\* Whoever is before a caller was so when the caller arrived.  Those before it can only become
\* fewer, whatever callers come, are cancelled or return: the half of EveryCallReturns that needs
\* no fairness.
THEOREM NoOvertaking ==
  Spec => [][\A c, d \in Callers : Waiting(d) /\ Before(c, d)' => Before(c, d)]_vars
<1>1. ASSUME IInv, [Next]_vars, NEW c \in Callers, NEW d \in Callers, Waiting(d), Before(c, d)'
      PROVE  Before(c, d)
  <2>0. LockOK /\ TablesOK
    BY <1>1 DEF IInv
  <2>1. CASE UNCHANGED queue
    BY <1>1, <2>1 DEF Before
  <2>2. CASE Restart
    BY <1>1, <2>2 DEF Restart, Before
  <2>3. ASSUME NEW e \in Callers, Call(e) PROVE Before(c, d)
    <3>1. /\ queue \in Seq(Callers) /\ Len(queue) \in Nat /\ DOMAIN queue = 1..Len(queue)
          /\ queue' = Append(queue, e) /\ DOMAIN queue' = 1..(Len(queue) + 1)
          /\ queue'[Len(queue) + 1] = e
          /\ \A i \in 1..Len(queue) : queue'[i] = queue[i]
      BY <2>0, <2>3 DEF Call, LockOK
    <3>2. PICK i, j \in 1..(Len(queue) + 1) : i < j /\ queue'[i] = c /\ queue'[j] = d
      BY <1>1, <3>1 DEF Before
    <3>3. d # e
      BY <1>1, <2>3 DEF Call
    <3>4. i \in 1..Len(queue) /\ j \in 1..Len(queue)
      BY <3>1, <3>2, <3>3
    <3> QED BY <3>1, <3>2, <3>4 DEF Before
  <2>4. ASSUME NEW e \in Callers, Abandon(e) PROVE Before(c, d)
    BY <1>1, <2>0, <2>4, LeavingKeepsOrder DEF Abandon
  <2>5. ASSUME NEW e \in Callers, Returns(e) PROVE Before(c, d)
    BY <1>1, <2>0, <2>5, ReturnsAlone, LeavingKeepsOrder
  <2>6. ASSUME NEW e \in Callers, Starts(e) \/ Decide(e) \/ FindProcess(e) \/ Cancel(e)
        PROVE  UNCHANGED queue
    BY <2>6 DEF Starts, StartQuery, IngestRepository, Decide, FindProcess, Cancel
  <2>7. ReportFileProcess \/ UNCHANGED vars => UNCHANGED queue
    BY DEF ReportFileProcess, vars
  <2> QED BY <1>1, <2>1, <2>2, <2>3, <2>4, <2>5, <2>6, <2>7, Steps
<1>2. ASSUME IInv, [Next]_vars
      PROVE  [\A c, d \in Callers : Waiting(d) /\ Before(c, d)' => Before(c, d)]_vars
  BY <1>1, <1>2
<1> QED
  BY <1>2, Invariance, PTL DEF Spec
=============================================================================
