----------------------- MODULE ReconcileDelivery_proofs -----------------------
(***************************************************************************)
(* Theorems about UploadInventory, for every set of nodes, repositories,   *)
(* files and sizes and every bound: its invariants, and that the tables    *)
(* implement the ledger.  Then about ReconcileDelivery, for every set of   *)
(* tasks: its steps are steps of UploadInventory, and no committed task is *)
(* left alone.                                                             *)
(***************************************************************************)
EXTENDS ReconcileDelivery, TLAPS

-----------------------------------------------------------------------------
(* The tables *)

\* The inductive invariant: the holdings, the shared file table, the watermarks and the
\* epochs have to be right together for any one of them to stay right.
IInv ==
  /\ TypeOK
  /\ HoldingsMatchReports
  /\ NoDanglingHolding
  /\ StatusMatchesPending

\* A stored size survives the insertion of a report, and a report that does not conflict
\* finds its own sizes afterwards (INSERT ... DO NOTHING followed by the comparison).
LEMMA InternKeeps ==
  ASSUME NEW files \in Contents, fileSize \in Contents
  PROVE  /\ Interned(files) \in Contents
         /\ \A f \in Files : fileSize[f] # Absent => Interned(files)[f] = fileSize[f]
         /\ ~Conflict(files) =>
               \A f \in Files : files[f] # Absent => Interned(files)[f] = files[f]
BY DEF Interned, Contents, Conflict, Reported

\* The sweep of orphan file rows leaves the size of every held file alone.
LEMMA SweepKeeps ==
  ASSUME NEW sizes \in Contents, NEW held \in [Nodes -> SUBSET Files]
  PROVE  /\ Swept(sizes, held) \in Contents
         /\ \A n \in Nodes : \A f \in held[n] : Swept(sizes, held)[f] = sizes[f]
BY DEF Swept, Contents

\* Type correctness is preserved by every step.
LEMMA TypeStep == TypeOK /\ [Next]_vars => TypeOK'
<1> SUFFICES ASSUME TypeOK, [Next]_vars PROVE TypeOK'
  OBVIOUS
<1> USE ConstantsAssumption
<1>1. ASSUME NEW n \in Nodes, Register(n) PROVE TypeOK'
  BY <1>1 DEF TypeOK, Register
<1>2. ASSUME NEW n \in Nodes, NEW explicit \in BOOLEAN, UploadReportSession(n, explicit)
      PROVE  TypeOK'
  <2>1. "pending" \in Statuses /\ issued + 1 \in Nat
    BY DEF TypeOK, Statuses
  <2>2. reportNode' \in [Nodes -> [epoch : Nat, pending : Nat,
                                   baseline : Contents, status : Statuses]]
    BY <1>2, <2>1 DEF TypeOK, UploadReportSession
  <2> QED
    BY <1>2, <2>1, <2>2 DEF TypeOK, UploadReportSession
<1>3. ASSUME NEW n \in Nodes, NEW e \in Epochs, NEW s \in Progress,
             UploadReconcileProgress(n, e, s)
      PROVE  TypeOK'
  BY <1>3 DEF TypeOK, UploadReconcileProgress, Statuses
<1>4. ASSUME NEW p \in BaselineReports, ApplyBaseline(p) PROVE TypeOK'
  <2>1. p.node \in Nodes /\ p.epoch \in Nat /\ p.files \in Contents
    BY DEF BaselineReports, Epochs
  <2>2. fileSize' \in Contents
    BY <1>4, <2>1, InternKeeps DEF ApplyBaseline, TypeOK
  <2>3. holding' \in [Nodes -> SUBSET Files]
    BY <1>4, <2>1 DEF ApplyBaseline, Replaced, Reported, TypeOK
  <2>4. Nothing \in Contents
    BY DEF Nothing, Contents
  <2>5. reportRepo' \in [Nodes -> [Repos -> [seq : Nat, digest : Contents]]]
    BY <1>4, <2>1, <2>4 DEF ApplyBaseline, NoWatermark, TypeOK
  <2>6. reportNode' \in [Nodes -> [epoch : Nat, pending : Nat,
                                   baseline : Contents, status : Statuses]]
    BY <1>4, <2>1 DEF ApplyBaseline, NoEpoch, Statuses, TypeOK
  <2>7. state' \in [Nodes -> [version : {0, 1, 2}, epoch : Nat, seq : Nat,
                              complete : BOOLEAN]]
    BY <1>4, <2>1 DEF ApplyBaseline, Confirm, TypeOK
  <2> QED
    BY <1>4, <2>2, <2>3, <2>5, <2>6, <2>7 DEF ApplyBaseline, TypeOK
<1>5. ASSUME NEW p \in RepoReports, ApplyRepoReport(p) PROVE TypeOK'
  <2>1. /\ p.node \in Nodes /\ p.epoch \in Nat /\ p.seq \in Nat /\ p.repo \in Repos
        /\ p.files \in Contents
    BY DEF RepoReports, Epochs
  <2>2. fileSize' \in Contents
    BY <1>5, <2>1, InternKeeps DEF ApplyRepoReport, TypeOK
  <2>3. holding' \in [Nodes -> SUBSET Files]
    BY <1>5, <2>1 DEF ApplyRepoReport, Replaced, Reported, InRepo, TypeOK
  <2>4. reportRepo' \in [Nodes -> [Repos -> [seq : Nat, digest : Contents]]]
    BY <1>5, <2>1 DEF ApplyRepoReport, TypeOK
  <2>5. state' \in [Nodes -> [version : {0, 1, 2}, epoch : Nat, seq : Nat,
                              complete : BOOLEAN]]
    BY <1>5, <2>1 DEF ApplyRepoReport, Confirm, TypeOK
  <2> QED
    BY <1>5, <2>2, <2>3, <2>4, <2>5 DEF ApplyRepoReport, TypeOK
<1>6. ASSUME NEW s \in Snapshots, ApplyCompleteSnapshot(s) PROVE TypeOK'
  <2>1. /\ s.node \in Nodes /\ s.epoch \in Nat /\ s.seq \in Nat
        /\ s.files \in Contents /\ s.complete \in BOOLEAN
    BY DEF Snapshots
  <2>2. holding' \in [Nodes -> SUBSET Files]
    BY <1>6, <2>1 DEF ApplyCompleteSnapshot, Replaced, Reported, TypeOK
  <2>3. fileSize' \in Contents
    BY <1>6, <2>1, <2>2, InternKeeps, SweepKeeps DEF ApplyCompleteSnapshot, TypeOK
  <2>4. state' \in [Nodes -> [version : {0, 1, 2}, epoch : Nat, seq : Nat,
                              complete : BOOLEAN]]
    BY <1>6, <2>1 DEF ApplyCompleteSnapshot, RecordLegacy, TypeOK
  <2> QED
    BY <1>6, <2>2, <2>3, <2>4 DEF ApplyCompleteSnapshot, TypeOK
<1>7. ASSUME NEW s \in Snapshots, ApplyIncompleteSnapshot(s) PROVE TypeOK'
  BY <1>7 DEF ApplyIncompleteSnapshot, RecordLegacy, Snapshots, TypeOK
<1>8. CASE UNCHANGED vars
  BY <1>8 DEF vars, TypeOK
<1> QED
  BY <1>1, <1>2, <1>3, <1>4, <1>5, <1>6, <1>7, <1>8 DEF Next, RepeatReport
-----------------------------------------------------------------------------
\* What an accepted report leaves behind for the files it covers and for the others.

\* The baseline: every file of the node is what the baseline says.
LEMMA BaselineContent ==
  ASSUME TypeOK, NoDanglingHolding, NEW p \in BaselineReports, ApplyBaseline(p)
  PROVE  /\ \A f \in Files : Held(p.node)'[f] = p.files[f]
         /\ \A n \in Nodes \ {p.node} : \A f \in Files : Held(n)'[f] = Held(n)[f]
<1>1. p.node \in Nodes /\ p.files \in Contents
  BY DEF BaselineReports
<1>2. /\ \A f \in Files : fileSize[f] # Absent => fileSize'[f] = fileSize[f]
      /\ \A f \in Files : p.files[f] # Absent => fileSize'[f] = p.files[f]
  BY <1>1, InternKeeps DEF ApplyBaseline, BaselineAccepted, TypeOK
<1>3. \A f \in Files : f \in holding'[p.node] <=> p.files[f] # Absent
  BY <1>1 DEF ApplyBaseline, Replaced, Reported, TypeOK
<1>4. \A n \in Nodes \ {p.node} : holding'[n] = holding[n]
  BY <1>1 DEF ApplyBaseline, Replaced, TypeOK
<1> QED
  BY <1>1, <1>2, <1>3, <1>4 DEF Held, NoDanglingHolding, TypeOK, Contents

\* A repository report: the files of the repository are what the report says, every other
\* file of the node and every file of another node is as it was.
LEMMA RepoContent ==
  ASSUME TypeOK, NoDanglingHolding, NEW p \in RepoReports, ApplyRepoReport(p)
  PROVE  /\ \A f \in InRepo(p.repo) : Held(p.node)'[f] = p.files[f]
         /\ \A f \in Files \ InRepo(p.repo) : Held(p.node)'[f] = Held(p.node)[f]
         /\ \A n \in Nodes \ {p.node} : \A f \in Files : Held(n)'[f] = Held(n)[f]
<1>1. /\ p.node \in Nodes /\ p.files \in Contents /\ p.repo \in Repos
      /\ \A f \in Files : p.files[f] # Absent => f \in InRepo(p.repo)
  BY DEF RepoReports, InRepo
<1>2. /\ \A f \in Files : fileSize[f] # Absent => fileSize'[f] = fileSize[f]
      /\ \A f \in Files : p.files[f] # Absent => fileSize'[f] = p.files[f]
  BY <1>1, InternKeeps DEF ApplyRepoReport, RepoAccepted, TypeOK
<1>3. \A f \in InRepo(p.repo) : f \in holding'[p.node] <=> p.files[f] # Absent
  BY <1>1 DEF ApplyRepoReport, Replaced, Reported, InRepo, TypeOK
<1>4. \A f \in Files \ InRepo(p.repo) : f \in holding'[p.node] <=> f \in holding[p.node]
  BY <1>1 DEF ApplyRepoReport, Replaced, Reported, TypeOK
<1>5. \A n \in Nodes \ {p.node} : holding'[n] = holding[n]
  BY <1>1 DEF ApplyRepoReport, Replaced, TypeOK
<1>6. InRepo(p.repo) \subseteq Files
  BY DEF InRepo
<1>7. \A f \in InRepo(p.repo) : Held(p.node)'[f] = p.files[f]
  BY <1>1, <1>2, <1>3, <1>6 DEF Held
<1> QED
  BY <1>1, <1>2, <1>4, <1>5, <1>7 DEF Held, NoDanglingHolding, TypeOK

\* A v1 snapshot leaves every other node's files alone, the sweep of orphans included.
LEMMA SnapshotContent ==
  ASSUME TypeOK, NoDanglingHolding, NEW s \in Snapshots, ApplyCompleteSnapshot(s)
  PROVE  /\ \A n \in Nodes \ {s.node} : \A f \in Files : Held(n)'[f] = Held(n)[f]
         /\ NoDanglingHolding'
<1>1. s.node \in Nodes /\ s.files \in Contents
  BY DEF Snapshots
<1>2. holding' \in [Nodes -> SUBSET Files]
  BY <1>1 DEF ApplyCompleteSnapshot, Replaced, Reported, TypeOK
<1>3. \A n \in Nodes : \A f \in holding'[n] : fileSize'[f] = Interned(s.files)[f]
  BY <1>1, <1>2, InternKeeps, SweepKeeps DEF ApplyCompleteSnapshot, TypeOK
<1>4. \A f \in Files : fileSize[f] # Absent => Interned(s.files)[f] = fileSize[f]
  BY <1>1, InternKeeps DEF TypeOK
<1>5. \A f \in holding'[s.node] : s.files[f] # Absent
  BY <1>1 DEF ApplyCompleteSnapshot, Replaced, Reported, TypeOK
<1>6. \A n \in Nodes \ {s.node} : holding'[n] = holding[n]
  BY <1>1 DEF ApplyCompleteSnapshot, Replaced, TypeOK
<1>7. \A f \in Files : s.files[f] # Absent => Interned(s.files)[f] = s.files[f]
  BY <1>1, InternKeeps DEF ApplyCompleteSnapshot, TypeOK
<1>8. \A n \in Nodes \ {s.node} : \A f \in Files : Held(n)'[f] = Held(n)[f]
  BY <1>2, <1>3, <1>4, <1>6 DEF Held, NoDanglingHolding, TypeOK
<1>9. \A n \in Nodes : holding'[n] \subseteq Files
  BY <1>2
<1>10. ASSUME NEW n \in Nodes, NEW f \in holding'[n] PROVE fileSize'[f] # Absent
  <2>1. CASE n = s.node
    BY <1>3, <1>5, <1>7, <1>9, <1>10, <2>1
  <2>2. CASE n # s.node
    <3>1. f \in holding[n] /\ f \in Files
      BY <1>6, <1>9, <1>10, <2>2
    <3>2. fileSize[f] # Absent
      BY <3>1 DEF NoDanglingHolding
    <3> QED
      BY <1>3, <1>4, <1>10, <3>1, <3>2
  <2> QED
    BY <2>1, <2>2
<1> QED
  BY <1>8, <1>10 DEF NoDanglingHolding
-----------------------------------------------------------------------------
\* The three parts of the invariant, preserved by every step.

LEMMA DanglingStep == TypeOK /\ NoDanglingHolding /\ [Next]_vars => NoDanglingHolding'
<1> SUFFICES ASSUME TypeOK, NoDanglingHolding, [Next]_vars PROVE NoDanglingHolding'
  OBVIOUS
<1>1. CASE UNCHANGED <<fileSize, holding>>
  BY <1>1 DEF NoDanglingHolding
<1>2. ASSUME NEW p \in BaselineReports, ApplyBaseline(p) PROVE NoDanglingHolding'
  <2>1. p.node \in Nodes /\ p.files \in Contents
    BY DEF BaselineReports
  <2>2. /\ \A f \in Files : fileSize[f] # Absent => fileSize'[f] # Absent
        /\ \A f \in Files : p.files[f] # Absent => fileSize'[f] # Absent
    BY <1>2, <2>1, InternKeeps DEF ApplyBaseline, BaselineAccepted, TypeOK
  <2>3. \A n \in Nodes : \A f \in holding'[n] :
           f \in Files /\ (f \in holding[n] \/ p.files[f] # Absent)
    BY <1>2, <2>1 DEF ApplyBaseline, Replaced, Reported, TypeOK
  <2> QED
    BY <2>2, <2>3 DEF NoDanglingHolding
<1>3. ASSUME NEW p \in RepoReports, ApplyRepoReport(p) PROVE NoDanglingHolding'
  <2>1. p.node \in Nodes /\ p.files \in Contents
    BY DEF RepoReports
  <2>2. /\ \A f \in Files : fileSize[f] # Absent => fileSize'[f] # Absent
        /\ \A f \in Files : p.files[f] # Absent => fileSize'[f] # Absent
    BY <1>3, <2>1, InternKeeps DEF ApplyRepoReport, RepoAccepted, TypeOK
  <2>3. \A n \in Nodes : \A f \in holding'[n] :
           f \in Files /\ (f \in holding[n] \/ p.files[f] # Absent)
    BY <1>3, <2>1 DEF ApplyRepoReport, Replaced, Reported, InRepo, TypeOK
  <2> QED
    BY <2>2, <2>3 DEF NoDanglingHolding
<1>4. ASSUME NEW s \in Snapshots, ApplyCompleteSnapshot(s) PROVE NoDanglingHolding'
  BY <1>4, SnapshotContent
<1> QED
  BY <1>1, <1>2, <1>3, <1>4
     DEF Next, vars, RepeatReport, Register, UploadReportSession,
         UploadReconcileProgress, ApplyIncompleteSnapshot

LEMMA StatusStep == TypeOK /\ StatusMatchesPending /\ [Next]_vars => StatusMatchesPending'
<1> SUFFICES ASSUME TypeOK, StatusMatchesPending, [Next]_vars PROVE StatusMatchesPending'
  OBVIOUS
<1>1. CASE UNCHANGED <<reportNode, issued>>
  BY <1>1 DEF StatusMatchesPending
<1>2. ASSUME NEW n \in Nodes, NEW explicit \in BOOLEAN, UploadReportSession(n, explicit)
      PROVE  StatusMatchesPending'
  BY <1>2 DEF UploadReportSession, StatusMatchesPending, TypeOK, NoEpoch
<1>3. ASSUME NEW n \in Nodes, NEW e \in Epochs, NEW s \in Progress,
             UploadReconcileProgress(n, e, s)
      PROVE  StatusMatchesPending'
  BY <1>3 DEF UploadReconcileProgress, StatusMatchesPending, TypeOK, NoEpoch, Epochs
<1>4. ASSUME NEW p \in BaselineReports, ApplyBaseline(p) PROVE StatusMatchesPending'
  BY <1>4 DEF ApplyBaseline, BaselineAccepted, BaselineReports, StatusMatchesPending,
              TypeOK, NoEpoch, Progress, Epochs
<1> QED
  BY <1>1, <1>2, <1>3, <1>4
     DEF Next, vars, RepeatReport, Register, ApplyRepoReport, ApplyCompleteSnapshot,
         ApplyIncompleteSnapshot

LEMMA HoldingsStep ==
  TypeOK /\ NoDanglingHolding /\ HoldingsMatchReports /\ [Next]_vars => HoldingsMatchReports'
<1> SUFFICES ASSUME TypeOK, NoDanglingHolding, HoldingsMatchReports, [Next]_vars
             PROVE  HoldingsMatchReports'
  OBVIOUS
<1>1. CASE UNCHANGED <<reportNode, reportRepo, fileSize, holding>>
  BY <1>1 DEF HoldingsMatchReports, Held, Governing
<1>2. ASSUME NEW n \in Nodes, NEW explicit \in BOOLEAN, UploadReportSession(n, explicit)
      PROVE  HoldingsMatchReports'
  BY <1>2 DEF UploadReportSession, HoldingsMatchReports, Held, Governing, TypeOK
<1>3. ASSUME NEW n \in Nodes, NEW e \in Epochs, NEW s \in Progress,
             UploadReconcileProgress(n, e, s)
      PROVE  HoldingsMatchReports'
  BY <1>3 DEF UploadReconcileProgress, HoldingsMatchReports, Held, Governing, TypeOK
<1>4. ASSUME NEW p \in BaselineReports, ApplyBaseline(p) PROVE HoldingsMatchReports'
  <2> SUFFICES ASSUME NEW n \in Nodes, reportNode'[n].epoch # NoEpoch, NEW f \in Files
               PROVE  Held(n)'[f] = Governing(n, f)'
    BY DEF HoldingsMatchReports
  <2>1. p.node \in Nodes
    BY DEF BaselineReports
  <2>2. CASE n = p.node
    <3>1. Governing(n, f)' = p.files[f]
      BY <1>4, <2>1, <2>2, ConstantsAssumption
         DEF ApplyBaseline, Governing, NoWatermark, TypeOK
    <3> QED
      BY <1>4, <2>2, <3>1, BaselineContent
  <2>3. CASE n # p.node
    <3>1. Governing(n, f)' = Governing(n, f) /\ reportNode'[n] = reportNode[n]
      BY <1>4, <2>1, <2>3 DEF ApplyBaseline, Governing, TypeOK
    <3> QED
      BY <1>4, <2>3, <3>1, BaselineContent DEF HoldingsMatchReports
  <2> QED
    BY <2>2, <2>3
<1>5. ASSUME NEW p \in RepoReports, ApplyRepoReport(p) PROVE HoldingsMatchReports'
  <2> SUFFICES ASSUME NEW n \in Nodes, reportNode'[n].epoch # NoEpoch, NEW f \in Files
               PROVE  Held(n)'[f] = Governing(n, f)'
    BY DEF HoldingsMatchReports
  <2>1. p.node \in Nodes /\ p.repo \in Repos /\ p.seq \in Nat /\ p.seq > 0
    BY DEF RepoReports
  <2>2. reportNode' = reportNode
    BY <1>5 DEF ApplyRepoReport
  <2>3. CASE n = p.node /\ f \in InRepo(p.repo)
    <3>1. Governing(n, f)' = p.files[f]
      BY <1>5, <2>1, <2>3 DEF ApplyRepoReport, Governing, InRepo, TypeOK
    <3> QED
      BY <1>5, <2>3, <3>1, RepoContent
  <2>4. CASE ~(n = p.node /\ f \in InRepo(p.repo))
    <3>1. Governing(n, f)' = Governing(n, f)
      BY <1>5, <2>1, <2>2, <2>4, ConstantsAssumption
         DEF ApplyRepoReport, Governing, InRepo, TypeOK
    <3>2. Held(n)'[f] = Held(n)[f]
      BY <1>5, <2>4, RepoContent
    <3> QED
      BY <2>2, <3>1, <3>2 DEF HoldingsMatchReports
  <2> QED
    BY <2>3, <2>4
<1>6. ASSUME NEW s \in Snapshots, ApplyCompleteSnapshot(s) PROVE HoldingsMatchReports'
  <2>1. /\ reportNode' = reportNode /\ reportRepo' = reportRepo
        /\ reportNode[s.node].epoch = NoEpoch
    BY <1>6 DEF ApplyCompleteSnapshot, LegacyAccepted
  <2> QED
    BY <1>6, <2>1, SnapshotContent DEF HoldingsMatchReports, Governing
<1> QED
  BY <1>1, <1>2, <1>3, <1>4, <1>5, <1>6
     DEF Next, vars, RepeatReport, Register, ApplyIncompleteSnapshot
-----------------------------------------------------------------------------
\* The inductive invariant holds in every reachable state.
THEOREM Invariance == Spec => []IInv
<1>1. Init => IInv
  BY DEF Init, IInv, TypeOK, HoldingsMatchReports, NoDanglingHolding,
         StatusMatchesPending, Nothing, Contents, NoWatermark, NoEpoch, Statuses, Progress
<1>2. IInv /\ [Next]_vars => IInv'
  BY TypeStep, DanglingStep, StatusStep, HoldingsStep DEF IInv
<1> QED
  BY <1>1, <1>2, PTL DEF Spec

\* TypeOK, for every value of the constants.
THEOREM TypeCorrect == Spec => []TypeOK
BY Invariance, PTL DEF IInv

\* What a reader sees of a node is what its last accepted reports said.
THEOREM ReadersSeeReports == Spec => []HoldingsMatchReports
BY Invariance, PTL DEF IInv

\* No holding without its file row.
THEOREM NoDangling == Spec => []NoDanglingHolding
BY Invariance, PTL DEF IInv

\* The status is about the pending epoch, which is newer than the one in force.
THEOREM StatusCorrect == Spec => []StatusMatchesPending
BY Invariance, PTL DEF IInv
-----------------------------------------------------------------------------
\* A running reconciliation is never replaced unless it needs attention.
THEOREM NotPreempted == Spec => ReconcileNotPreempted
<1> DEFINE Kept ==
      \A n \in Nodes :
         reportNode[n].pending # NoEpoch /\ reportNode'[n].pending # reportNode[n].pending =>
            \/ reportNode'[n].epoch = reportNode[n].pending
            \/ reportNode[n].status = "needs_attention"
<1>1. TypeOK /\ [Next]_vars => Kept
  <2> SUFFICES ASSUME TypeOK, [Next]_vars PROVE Kept
    OBVIOUS
  <2>1. CASE UNCHANGED reportNode
    BY <2>1
  <2>2. ASSUME NEW n \in Nodes, NEW explicit \in BOOLEAN, UploadReportSession(n, explicit)
        PROVE  Kept
    BY <2>2 DEF UploadReportSession, NeedsNewEpoch, TypeOK
  <2>3. ASSUME NEW n \in Nodes, NEW e \in Epochs, NEW s \in Progress,
               UploadReconcileProgress(n, e, s)
        PROVE  Kept
    BY <2>3 DEF UploadReconcileProgress, TypeOK
  <2>4. ASSUME NEW p \in BaselineReports, ApplyBaseline(p) PROVE Kept
    BY <2>4 DEF ApplyBaseline, BaselineAccepted, BaselineReports, TypeOK
  <2> QED
    BY <2>1, <2>2, <2>3, <2>4
       DEF Next, vars, RepeatReport, Register, ApplyRepoReport, ApplyCompleteSnapshot,
           ApplyIncompleteSnapshot
<1>2. Kept => [Kept]_vars
  OBVIOUS
<1> QED
  BY <1>1, TypeCorrect, PTL DEF Spec, ReconcileNotPreempted
-----------------------------------------------------------------------------
\* The refinement, one step of the tables at a time.

LEMMA LedgerInit == Init => Ledger!Init
BY DEF Init, Ledger!Init, NoEpoch, NoWatermark, Nothing, Held

\* A step that leaves epochs, watermarks and visible holdings alone is a stutter.
LEMMA LedgerStutter ==
  ASSUME \A n \in Nodes : reportNode'[n].epoch = reportNode[n].epoch,
         reportRepo' = reportRepo,
         \A n \in Nodes : Held(n)' = Held(n)
  PROVE  UNCHANGED Ledger!ledgerVars
BY DEF Ledger!ledgerVars

LEMMA LedgerStep == IInv /\ [Next]_vars => [Ledger!Next]_(Ledger!ledgerVars)
<1> SUFFICES ASSUME IInv, [Next]_vars PROVE [Ledger!Next]_(Ledger!ledgerVars)
  OBVIOUS
<1> USE DEF IInv
<1>1. CASE UNCHANGED <<reportNode, reportRepo, fileSize, holding>>
  BY <1>1, LedgerStutter DEF Held
<1>2. ASSUME NEW n \in Nodes, NEW explicit \in BOOLEAN, UploadReportSession(n, explicit)
      PROVE  UNCHANGED Ledger!ledgerVars
  BY <1>2, LedgerStutter DEF UploadReportSession, Held, TypeOK
<1>3. ASSUME NEW n \in Nodes, NEW e \in Epochs, NEW s \in Progress,
             UploadReconcileProgress(n, e, s)
      PROVE  UNCHANGED Ledger!ledgerVars
  BY <1>3, LedgerStutter DEF UploadReconcileProgress, Held, TypeOK
<1>4. ASSUME NEW p \in BaselineReports, ApplyBaseline(p)
      PROVE  Ledger!Baseline(p.node) /\ p.node \in Nodes
  <2>1. p.node \in Nodes /\ p.epoch \in Nat /\ p.epoch # NoEpoch
    BY DEF BaselineReports, Epochs, NoEpoch
  <2>2. /\ reportNode'[p.node].epoch > reportNode[p.node].epoch
        /\ \A m \in Nodes \ {p.node} : reportNode'[m] = reportNode[m]
    BY <1>4, <2>1 DEF ApplyBaseline, BaselineAccepted, StatusMatchesPending, TypeOK
  <2>3. /\ \A r \in Repos : reportRepo'[p.node][r].seq = 0
        /\ \A m \in Nodes \ {p.node} : reportRepo'[m] = reportRepo[m]
    BY <1>4, <2>1 DEF ApplyBaseline, NoWatermark, TypeOK
  <2>4. \A m \in Nodes \ {p.node} : Held(m)' = Held(m)
    BY <1>4, BaselineContent DEF Held
  <2> QED
    BY <2>1, <2>2, <2>3, <2>4 DEF Ledger!Baseline, Ledger!OnlyAt
<1>5. ASSUME NEW p \in RepoReports, ApplyRepoReport(p)
      PROVE  Ledger!Update(p.node, p.repo) /\ p.node \in Nodes /\ p.repo \in Repos
  <2>1. /\ p.node \in Nodes /\ p.repo \in Repos /\ p.seq \in Nat
        /\ p.epoch \in Nat /\ p.epoch > 0
    BY DEF RepoReports, Epochs
  <2>2. reportNode' = reportNode /\ reportNode[p.node].epoch > 0
    BY <1>5, <2>1 DEF ApplyRepoReport, RepoAccepted
  <2>3. /\ reportRepo'[p.node][p.repo].seq > reportRepo[p.node][p.repo].seq
        /\ \A q \in Repos \ {p.repo} : reportRepo'[p.node][q] = reportRepo[p.node][q]
        /\ \A m \in Nodes \ {p.node} : reportRepo'[m] = reportRepo[m]
    BY <1>5, <2>1 DEF ApplyRepoReport, RepoAccepted, TypeOK
  <2>4. \A m \in Nodes \ {p.node} : Held(m)' = Held(m)
    BY <1>5, RepoContent DEF Held
  <2>5. \A f \in Files : RepoOf[f] # p.repo => Held(p.node)'[f] = Held(p.node)[f]
    BY <1>5, RepoContent DEF InRepo
  <2> QED
    BY <2>1, <2>2, <2>3, <2>4, <2>5 DEF Ledger!Update, Ledger!OnlyAt
<1>6. ASSUME NEW s \in Snapshots, ApplyCompleteSnapshot(s)
      PROVE  Ledger!Snapshot(s.node) /\ s.node \in Nodes
  <2>1. s.node \in Nodes
    BY DEF Snapshots
  <2>2. /\ reportNode' = reportNode /\ reportRepo' = reportRepo
        /\ reportNode[s.node].epoch = 0
    BY <1>6 DEF ApplyCompleteSnapshot, LegacyAccepted, NoEpoch
  <2>3. \A m \in Nodes \ {s.node} : Held(m)' = Held(m)
    BY <1>6, SnapshotContent DEF Held
  <2> QED
    BY <2>1, <2>2, <2>3 DEF Ledger!Snapshot, Ledger!OnlyAt
<1> QED
  BY <1>1, <1>2, <1>3, <1>4, <1>5, <1>6
     DEF Next, vars, RepeatReport, Register, ApplyIncompleteSnapshot, Ledger!Next

\* The tables implement the ledger: the theorem the retry, reordering and fencing rules
\* of the protocol are for.
THEOREM Refinement == Spec => ImplementsLedger
<1>1. Spec => []IInv
  BY Invariance
<1> QED
  BY <1>1, LedgerInit, LedgerStep, PTL DEF Spec, ImplementsLedger, Ledger!Spec
-----------------------------------------------------------------------------
(* Delivery *)

\* The inductive invariant.  The epochs stay below their bound, so every pending one is among
\* the tasks that startup looks up.
IInvDelivery ==
  /\ TypeOKDelivery
  /\ StatusMatchesPending
  /\ issued <= MaxEpoch
  /\ PendingIsPursued

\* A session request allocates a pending epoch for its node or leaves the tables alone.
LEMMA SessionStep ==
  ASSUME TypeOK, issued <= MaxEpoch, NEW n \in Nodes, NEW explicit \in BOOLEAN,
         Session(n, explicit)
  PROVE  /\ n \in registered /\ registered' = registered
         /\ [Next]_vars
         /\ issued' \in Nat /\ issued <= issued' /\ issued' <= MaxEpoch
         /\ \A m \in Nodes \ {n} : reportNode'[m] = reportNode[m]
<1>1. CASE UploadReportSession(n, explicit)
  <2>1. Next
    BY <1>1 DEF Next
  <2>2. issued' = issued + 1 /\ issued < MaxEpoch
    BY <1>1 DEF UploadReportSession
  <2>3. issued' \in Nat /\ issued <= issued' /\ issued' <= MaxEpoch
    BY <2>2, ConstantsAssumption DEF TypeOK
  <2> QED
    BY <1>1, <2>1, <2>3 DEF UploadReportSession, TypeOK
<1>2. CASE UNCHANGED vars /\ n \in registered
  BY <1>2 DEF vars, TypeOK
<1> QED
  BY <1>1, <1>2 DEF Session

\* What a step of the scheduler or of a node does to the tables is a step of UploadInventory.
LEMMA InventoryStep ==
  TypeOK /\ issued <= MaxEpoch /\ [NextDelivery]_deliveryVars =>
    [Next]_vars /\ issued' \in Nat /\ issued <= issued' /\ issued' <= MaxEpoch
<1> DEFINE Goal == [Next]_vars /\ issued' \in Nat /\ issued <= issued' /\ issued' <= MaxEpoch
<1> SUFFICES ASSUME TypeOK, issued <= MaxEpoch, [NextDelivery]_deliveryVars PROVE Goal
  OBVIOUS
<1>1. ASSUME UNCHANGED vars PROVE Goal
  BY <1>1 DEF vars, TypeOK
<1>2. ASSUME Next, issued' = issued PROVE Goal
  BY <1>2 DEF TypeOK
<1>3. ASSUME NEW n \in Nodes, NEW explicit \in BOOLEAN, Session(n, explicit) PROVE Goal
  BY <1>3, SessionStep
<1> HIDE DEF Goal
<1>4. ASSUME NEW n \in Nodes, Register(n) PROVE Goal
  <2>1. Next
    BY <1>4 DEF Next
  <2> QED BY <1>2, <1>4, <2>1 DEF Register
<1>5. ASSUME NEW n \in Nodes, NEW e \in Epochs, SendBaseline(n, e) PROVE Goal
  <2>1. PICK files \in Contents : ApplyBaseline([node |-> n, epoch |-> e, files |-> files])
    BY <1>5 DEF SendBaseline
  <2>2. [node |-> n, epoch |-> e, files |-> files] \in BaselineReports
    BY DEF BaselineReports
  <2>3. Next
    BY <2>1, <2>2 DEF Next
  <2> QED BY <1>2, <2>1, <2>3 DEF ApplyBaseline
<1>6. ASSUME NEW n \in Nodes, NEW e \in Epochs, SendProgress(n, e) PROVE Goal
  <2>1. PICK s \in Progress : UploadReconcileProgress(n, e, s)
    BY <1>6 DEF SendProgress
  <2>2. Next
    BY <2>1 DEF Next
  <2> QED BY <1>2, <2>1, <2>2 DEF UploadReconcileProgress
<1>7. ASSUME NEW n \in Nodes, ReconcileUploadInventory(n) \/ Connect(n) \/ ConnectLost(n)
      PROVE  Goal
  <2>1. Session(n, TRUE) \/ Session(n, FALSE)
    BY <1>7 DEF ReconcileUploadInventory, Connect, ConnectLost, Session
  <2> QED BY <1>3, <2>1
<1>8. ASSUME NEW n \in Nodes, Forget(n) PROVE Goal
  BY <1>1, <1>8 DEF Forget
<1>9. ASSUME NEW n \in Nodes, NEW e \in Epochs,
             HandlerDelivers(n, e) \/ RetryChecks(n, e) \/ RetrySucceeds(n, e) \/ RetryFails(n, e)
      PROVE  Goal
  BY <1>1, <1>9 DEF HandlerDelivers, RetryChecks, RetrySucceeds, RetryFails
<1>10. ASSUME Restart \/ ResumeInventoryReconciles \/ UNCHANGED deliveryVars PROVE Goal
  BY <1>1, <1>10 DEF Restart, ResumeInventoryReconciles, deliveryVars
<1> QED
  BY <1>4, <1>5, <1>6, <1>7, <1>8, <1>9, <1>10 DEF NextDelivery, SchedulerStep, NodeStep
-----------------------------------------------------------------------------
\* Retries are about the tasks they were started for.
LEMMA RetriesOf ==
  ASSUME NEW T, NEW tasks \in SUBSET (Nodes \X T),
         deliveries \in SUBSET (Nodes \X T \X {"check", "post"})
  PROVE  WithRetries(tasks) \in SUBSET (Nodes \X T \X {"check", "post"})
<1> SUFFICES ASSUME NEW d \in WithRetries(tasks) PROVE d \in Nodes \X T \X {"check", "post"}
  OBVIOUS
<1>1. CASE d \in deliveries
  BY <1>1
<1>2. CASE d \notin deliveries
  <2>1. PICK t \in tasks : d = <<t[1], t[2], "check">>
    BY <1>2 DEF WithRetries
  <2>2. t[1] \in Nodes /\ t[2] \in T
    OBVIOUS
  <2> QED BY <2>1, <2>2
<1> QED BY <1>1, <1>2

\* Type correctness of the delivery state is preserved by every step.
LEMMA DeliveryTypeStep ==
  TypeOKDelivery /\ StatusMatchesPending' /\ issued <= MaxEpoch
    /\ [NextDelivery]_deliveryVars => TypeOKDelivery'
<1> SUFFICES ASSUME TypeOKDelivery, StatusMatchesPending',
                    issued <= MaxEpoch, [NextDelivery]_deliveryVars
             PROVE  TypeOKDelivery'
  OBVIOUS
<1>1. [Next]_vars /\ issued' \in Nat /\ issued <= issued'
  BY InventoryStep DEF TypeOKDelivery
<1>2. TypeOK'
  BY <1>1, TypeStep DEF TypeOKDelivery
<1>3. /\ 1..issued \subseteq 1..issued' /\ registered \subseteq registered'
      /\ issued \in Nat
  <2>1. registered \subseteq registered'
    BY <1>1 DEF Next, vars, RepeatReport, Register, UploadReportSession,
                UploadReconcileProgress, ApplyBaseline, ApplyRepoReport,
                ApplyCompleteSnapshot, ApplyIncompleteSnapshot
  <2>2. issued \in Nat
    BY DEF TypeOKDelivery, TypeOK
  <2> QED
    BY <1>1, <2>1, <2>2
<1>4. \A n \in Nodes : reportNode'[n].pending # NoEpoch => reportNode'[n].pending \in 1..issued'
  BY <1>1, <1>2 DEF StatusMatchesPending, TypeOK, NoEpoch
<1> DEFINE Calls(c) == c \in SUBSET (Nodes \X (1..issued'))
           Deliveries(d) == d \in SUBSET (Nodes \X (1..issued') \X {"check", "post"})
           Told(t) == t \in [Nodes -> SUBSET (1..issued')]
           Goal == /\ Calls(calls') /\ Deliveries(deliveries') /\ resuming' \in BOOLEAN
                   /\ connected' \subseteq registered' /\ Told(told')
<1>5. /\ Calls(calls) /\ resuming \in BOOLEAN /\ Deliveries(deliveries)
      /\ connected \subseteq registered' /\ Told(told)
  BY <1>3 DEF TypeOKDelivery
<1> SUFFICES Goal
  BY <1>2 DEF TypeOKDelivery
<1>6. ASSUME UNCHANGED <<procVars, nodeVars>> PROVE Goal
  BY <1>5, <1>6 DEF procVars, nodeVars
<1>7. ASSUME Restart PROVE Goal
  BY <1>5, <1>7 DEF Restart, nodeVars
<1>8. ASSUME ResumeInventoryReconciles PROVE Goal
  <2> DEFINE tasks == {t \in Tasks : reportNode[t[1]].pending = t[2]}
  <2>1. tasks \in SUBSET (Nodes \X (1..issued'))
    <3> SUFFICES ASSUME NEW t \in tasks PROVE t \in Nodes \X (1..issued')
      OBVIOUS
    <3>1. t \in Nodes \X Epochs /\ reportNode'[t[1]].pending = t[2]
      BY <1>8 DEF ResumeInventoryReconciles, Tasks, vars
    <3>2. t[1] \in Nodes /\ t[2] \in 1..issued' /\ t = <<t[1], t[2]>>
      BY <1>4, <3>1, ConstantsAssumption DEF Epochs, NoEpoch
    <3> QED BY <3>2
  <2>2. Deliveries(WithRetries(tasks))
    BY <1>5, <2>1, RetriesOf
  <2> QED
    BY <1>5, <1>8, <2>2 DEF ResumeInventoryReconciles, nodeVars
<1>9. ASSUME NEW n \in Nodes, ReconcileUploadInventory(n) PROVE Goal
  <2>1. reportNode'[n].pending # NoEpoch
    <3>1. CASE UploadReportSession(n, TRUE)
      <4>1. issued' # NoEpoch /\ reportNode'[n].pending = issued'
        BY <1>3, <3>1 DEF UploadReportSession, TypeOKDelivery, TypeOK, NoEpoch
      <4> QED BY <4>1
    <3>2. CASE ~NeedsNewEpoch(reportNode[n], TRUE) /\ UNCHANGED vars
      BY <3>2 DEF NeedsNewEpoch, vars, NoEpoch
    <3> QED
      BY <1>9, <3>1, <3>2 DEF ReconcileUploadInventory, Session
  <2> QED
    BY <1>4, <1>5, <1>9, <2>1 DEF ReconcileUploadInventory, nodeVars
<1>10. ASSUME NEW n \in Nodes, NEW e \in Epochs,
              HandlerDelivers(n, e) \/ RetryChecks(n, e) \/ RetrySucceeds(n, e) \/ RetryFails(n, e)
       PROVE  Goal
  <2>1. e \in 1..issued'
    BY <1>5, <1>10 DEF HandlerDelivers, RetryChecks, RetrySucceeds, RetryFails
  <2>2. Told(told')
    BY <1>5, <1>10, <2>1
       DEF HandlerDelivers, RetryChecks, RetrySucceeds, RetryFails, Tell, nodeVars
  <2>3. Deliveries(deliveries')
    <3>1. Deliveries(WithRetries({<<n, e>>}))
      <4>1. {<<n, e>>} \in SUBSET (Nodes \X (1..issued'))
        BY <2>1
      <4> QED BY <1>5, <4>1, RetriesOf
    <3>2. CASE HandlerDelivers(n, e)
      BY <1>5, <3>1, <3>2 DEF HandlerDelivers
    <3>3. CASE RetryChecks(n, e)
      BY <1>5, <2>1, <3>3 DEF RetryChecks
    <3>4. CASE RetrySucceeds(n, e) \/ RetryFails(n, e)
      BY <1>5, <2>1, <3>4 DEF RetrySucceeds, RetryFails
    <3> QED BY <1>10, <3>2, <3>3, <3>4
  <2>4. Calls(calls')
    BY <1>5, <1>10 DEF HandlerDelivers, RetryChecks, RetrySucceeds, RetryFails
  <2> QED
    BY <1>5, <1>10, <2>2, <2>3, <2>4
       DEF HandlerDelivers, RetryChecks, RetrySucceeds, RetryFails, nodeVars
<1>11. ASSUME NEW n \in Nodes, Connect(n) \/ ConnectLost(n) \/ Forget(n) PROVE Goal
  <2>1. Connect(n) => n \in registered'
    BY DEF Connect, Session, UploadReportSession, vars
  <2>2. {reportNode'[n].pending} \cap Epochs \subseteq 1..issued'
    BY <1>4, ConstantsAssumption DEF Epochs, NoEpoch
  <2> QED
    BY <1>5, <1>11, <2>1, <2>2 DEF Connect, ConnectLost, Forget, procVars, nodeVars
<1>12. ASSUME NEW n \in Nodes, NEW e \in Epochs, SendBaseline(n, e) \/ SendProgress(n, e)
       PROVE  Goal
  BY <1>6, <1>12 DEF SendBaseline, SendProgress
<1> HIDE DEF Goal
<1>13. ASSUME UNCHANGED deliveryVars PROVE Goal
  BY <1>6, <1>13 DEF deliveryVars
<1> QED
  BY <1>6, <1>7, <1>8, <1>9, <1>10, <1>11, <1>12, <1>13
     DEF NextDelivery, SchedulerStep, NodeStep
-----------------------------------------------------------------------------
\* What keeps the task of node n alive.
Pursued(n, e) ==
  \/ e \in told[n]
  \/ n \notin connected
  \/ <<n, e>> \in calls
  \/ \E step \in {"check", "post"} : <<n, e, step>> \in deliveries
  \/ resuming

\* Adding retries for some tasks loses none and starts a goroutine for each of them.
LEMMA RetriesKeep ==
  ASSUME NEW tasks, NEW n, NEW e
  PROVE  /\ deliveries \subseteq WithRetries(tasks)
         /\ <<n, e>> \in tasks =>
               \E step \in {"check", "post"} : <<n, e, step>> \in WithRetries(tasks)
<1>1. deliveries \subseteq WithRetries(tasks)
  BY DEF WithRetries
<1>2. CASE <<n, e>> \in tasks /\ <<n, e, "post">> \notin deliveries
  <2>1. <<n, e>> \in {t \in tasks : <<t[1], t[2], "post">> \notin deliveries}
    BY <1>2
  <2>2. <<n, e, "check">> \in WithRetries(tasks)
    BY <2>1 DEF WithRetries
  <2> QED BY <1>1, <2>2
<1> QED
  BY <1>1, <1>2

\* Whatever happens, a pending task stays pursued or is pursued anew.
LEMMA PursuedStep ==
  TypeOKDelivery /\ issued <= MaxEpoch /\ StatusMatchesPending /\ StatusMatchesPending'
    /\ PendingIsPursued /\ [NextDelivery]_deliveryVars => PendingIsPursued'
<1> SUFFICES ASSUME TypeOKDelivery, issued <= MaxEpoch, StatusMatchesPending,
                    StatusMatchesPending', PendingIsPursued, [NextDelivery]_deliveryVars,
                    NEW n \in Nodes, NEW e, e = reportNode'[n].pending, e # NoEpoch
             PROVE  Pursued(n, e)'
  BY DEF PendingIsPursued, Pursued
<1>1. e \in Epochs
  <2>1. TypeOK /\ TypeOK' /\ issued' \in Nat /\ issued' <= MaxEpoch
    BY InventoryStep, TypeStep DEF TypeOKDelivery
  <2> QED
    BY <2>1, ConstantsAssumption DEF TypeOK, StatusMatchesPending, NoEpoch, Epochs
<1>2. reportNode[n].pending = e => Pursued(n, e)
  BY DEF PendingIsPursued, Pursued
<1>3. told \in [Nodes -> SUBSET (1..issued)] /\ TypeOK
  BY DEF TypeOKDelivery
<1>4. CASE UNCHANGED <<procVars, nodeVars>> /\ reportNode'[n].pending = reportNode[n].pending
  BY <1>2, <1>4 DEF procVars, nodeVars, Pursued
<1>5. CASE Restart
  BY <1>5 DEF Restart, Pursued
<1>6. CASE ResumeInventoryReconciles
  <2>1. <<n, e>> \in {t \in Tasks : reportNode[t[1]].pending = t[2]}
    BY <1>1, <1>6 DEF ResumeInventoryReconciles, Tasks, vars
  <2> QED
    BY <1>6, <2>1, RetriesKeep DEF ResumeInventoryReconciles, Pursued
<1>7. ASSUME NEW m \in Nodes, ReconcileUploadInventory(m) PROVE Pursued(n, e)'
  <2>1. \A k \in Nodes \ {m} : reportNode'[k] = reportNode[k]
    BY <1>3, <1>7, SessionStep DEF ReconcileUploadInventory
  <2>2. CASE n = m
    BY <1>7, <2>2 DEF ReconcileUploadInventory, Pursued
  <2>3. CASE n # m
    BY <1>2, <1>7, <2>1, <2>3 DEF ReconcileUploadInventory, nodeVars, Pursued
  <2> QED BY <2>2, <2>3
<1>8. ASSUME NEW m \in Nodes, NEW d \in Epochs, HandlerDelivers(m, d) PROVE Pursued(n, e)'
  <2>1. reportNode' = reportNode /\ UNCHANGED <<resuming, connected>>
    BY <1>8 DEF HandlerDelivers, vars
  <2>2. deliveries \subseteq deliveries' /\ told[n] \subseteq told'[n]
    BY <1>3, <1>8, RetriesKeep DEF HandlerDelivers, Tell
  <2>3. CASE n = m /\ e = d
    <3>1. CASE Tell(m, d)
      BY <1>3, <2>3, <3>1 DEF Tell, Pursued
    <3>2. CASE deliveries' = WithRetries({<<m, d>>})
      BY <2>3, <3>2, RetriesKeep DEF Pursued
    <3> QED BY <1>8, <3>1, <3>2 DEF HandlerDelivers
  <2>4. CASE ~(n = m /\ e = d)
    <3>1. <<n, e>> \in calls => <<n, e>> \in calls'
      BY <1>8, <2>4 DEF HandlerDelivers
    <3> QED BY <1>2, <2>1, <2>2, <3>1 DEF Pursued
  <2> QED BY <2>3, <2>4
<1>9. ASSUME NEW m \in Nodes, NEW d \in Epochs,
             RetryChecks(m, d) \/ RetrySucceeds(m, d) \/ RetryFails(m, d)
      PROVE  Pursued(n, e)'
  <2>1. reportNode' = reportNode /\ UNCHANGED <<calls, resuming, connected>>
    BY <1>9 DEF RetryChecks, RetrySucceeds, RetryFails, vars, nodeVars
  <2>2. told[n] \subseteq told'[n]
    BY <1>3, <1>9 DEF RetryChecks, RetrySucceeds, RetryFails, Tell, nodeVars
  <2>3. CASE n = m /\ e = d
    BY <1>3, <1>9, <2>1, <2>3 DEF RetryChecks, RetrySucceeds, RetryFails, Tell, Pursued
  <2>4. CASE ~(n = m /\ e = d)
    <3>1. \A step \in {"check", "post"} :
             <<n, e, step>> \in deliveries => <<n, e, step>> \in deliveries'
      BY <1>9, <2>4 DEF RetryChecks, RetrySucceeds, RetryFails
    <3> QED BY <1>2, <2>1, <2>2, <3>1 DEF Pursued
  <2> QED BY <2>3, <2>4
<1>10. ASSUME NEW m \in Nodes, Connect(m) \/ ConnectLost(m) PROVE Pursued(n, e)'
  <2>1. \A k \in Nodes \ {m} : reportNode'[k] = reportNode[k]
    BY <1>3, <1>10, SessionStep DEF Connect, ConnectLost, Session
  <2>2. CASE n = m
    BY <1>1, <1>3, <1>10, <2>2 DEF Connect, ConnectLost, nodeVars, Pursued
  <2>3. CASE n # m
    BY <1>2, <1>3, <1>10, <2>1, <2>3 DEF Connect, ConnectLost, procVars, nodeVars, Pursued
  <2> QED BY <2>2, <2>3
<1>11. ASSUME NEW m \in Nodes, Forget(m) PROVE Pursued(n, e)'
  BY <1>2, <1>3, <1>11 DEF Forget, vars, procVars, Pursued
<1>12. ASSUME NEW m \in Nodes, NEW d \in Epochs, SendBaseline(m, d) \/ SendProgress(m, d)
       PROVE  UNCHANGED <<procVars, nodeVars>> /\ reportNode'[n].pending = reportNode[n].pending
  <2>1. ASSUME NEW p \in BaselineReports, ApplyBaseline(p)
        PROVE  reportNode'[n].pending = reportNode[n].pending
    BY <1>3, <2>1 DEF ApplyBaseline, BaselineReports, TypeOK, NoEpoch
  <2>2. ASSUME NEW s \in Progress, UploadReconcileProgress(m, d, s)
        PROVE  reportNode'[n].pending = reportNode[n].pending
    BY <1>3, <2>2 DEF UploadReconcileProgress, TypeOK
  <2> QED
    BY <1>12, <2>1, <2>2 DEF SendBaseline, SendProgress, BaselineReports
<1>13. ASSUME NEW m \in Nodes, Register(m) PROVE reportNode' = reportNode
  BY <1>13 DEF Register
<1> QED
  BY <1>4, <1>5, <1>6, <1>7, <1>8, <1>9, <1>10, <1>11, <1>12, <1>13
     DEF NextDelivery, SchedulerStep, NodeStep, deliveryVars, vars
-----------------------------------------------------------------------------
\* The inductive invariant holds in every reachable state.
THEOREM DeliveryInvariance == SpecDelivery => []IInvDelivery
<1>1. InitDelivery => IInvDelivery
  <2> SUFFICES ASSUME InitDelivery PROVE IInvDelivery
    OBVIOUS
  <2>1. TypeOK /\ StatusMatchesPending
    BY DEF InitDelivery, Init, TypeOK, StatusMatchesPending, Nothing, Contents, NoWatermark,
           NoEpoch, Statuses, Progress
  <2> QED
    BY <2>1, ConstantsAssumption
       DEF InitDelivery, Init, IInvDelivery, TypeOKDelivery, PendingIsPursued
<1>2. IInvDelivery /\ [NextDelivery]_deliveryVars => IInvDelivery'
  BY InventoryStep, TypeStep, StatusStep, DeliveryTypeStep, PursuedStep
     DEF IInvDelivery, TypeOKDelivery
<1> QED
  BY <1>1, <1>2, PTL DEF SpecDelivery

\* TypeOKDelivery, for every value of the constants.
THEOREM DeliveryTypeCorrect == SpecDelivery => []TypeOKDelivery
BY DeliveryInvariance, PTL DEF IInvDelivery

\* No committed task is left alone, across every loss, restart and reconnection.
THEOREM Pursuit == SpecDelivery => []PendingIsPursued
BY DeliveryInvariance, PTL DEF IInvDelivery

\* Delivery only wakes nodes up: with it every behaviour of the tables is one of
\* UploadInventory, so that all that is proved of the tables holds here too.
THEOREM TablesAsBefore == SpecDelivery => Spec
<1>1. InitDelivery => Init
  BY DEF InitDelivery
<1>2. IInvDelivery /\ [NextDelivery]_deliveryVars => [Next]_vars
  BY InventoryStep DEF IInvDelivery, TypeOKDelivery
<1> QED
  BY <1>1, <1>2, DeliveryInvariance, PTL DEF SpecDelivery, Spec
=============================================================================
