--------------------------- MODULE UploadInventory ---------------------------
(***************************************************************************)
(* The scheduler's side of the uploaded inventory: internal/dao/           *)
(* upload_report.go (protocol v2), ApplyUploadedInventory of               *)
(* internal/dao/ingest_dao.go (the pulled full-node snapshots of v1) and   *)
(* the reconciliation status of internal/service/upload_report.go.         *)
(*                                                                         *)
(* Each transaction is one step: lockReportNode takes the node's row FOR   *)
(* UPDATE and holds it to the commit, so two reports of one node never     *)
(* overlap, and ON DUPLICATE KEY locks each shared file row two nodes      *)
(* write.  A failed transaction leaves no trace, so it is a stutter.       *)
(* Reports come from the network: any report may arrive at any time, any   *)
(* number of times and in any order.                                       *)
(***************************************************************************)
EXTENDS Naturals

CONSTANTS Nodes,           \* instance ids of Speed nodes
          Repos,           \* (namespace, repoType, repo) of uploaded repositories
          Files,           \* file identities, what uploadIdentity hashes: repo, path, SHA256
          RepoOf,          \* the repository part of a file identity
          Sizes,           \* sizes a report may claim for a file
          Absent,          \* no row / not reported
          MaxEpoch,        \* bound: epochs (UUIDs) the scheduler issues, numbered as issued
          MaxSeq,          \* bound: sequences of repository reports
          MaxLegacyEpoch,  \* bound: v1 epochs, numbered by their start time
          MaxLegacySeq     \* bound: sequences of v1 snapshots

\* Files belong to repositories; an absent file is not a size; the bounds are bounds.
ASSUME ConstantsAssumption ==
  /\ RepoOf \in [Files -> Repos]
  /\ Absent \notin Sizes
  /\ MaxEpoch \in Nat /\ MaxSeq \in Nat
  /\ MaxLegacyEpoch \in Nat /\ MaxLegacySeq \in Nat

VARIABLES registered,   \* nodes with a row in dingospeed
          reportNode,   \* upload_report_nodes: epoch, pending epoch, baseline digest, status
          reportRepo,   \* upload_report_repos: sequence and digest accepted for a repository
          fileSize,     \* upload_inventory_file: the size stored for an identity, or Absent
          holding,      \* upload_inventory_holding: the files a node holds
          state,        \* upload_inventory_state: what the node last reported
          issued        \* the number of epochs issued so far

vars == <<registered, reportNode, reportRepo, fileSize, holding, state, issued>>

NoEpoch  == 0
Epochs   == 1..MaxEpoch
Contents == [Files -> Sizes \cup {Absent}]
Nothing  == [f \in Files |-> Absent]
InRepo(r) == {f \in Files : RepoOf[f] = r}

Progress == {"scanning", "retrying", "needs_attention"}
Statuses == Progress \cup {"uninitialized", "pending", "completed"}

\* The digest of a report is modelled by the content it stands for.
NoWatermark == [seq |-> 0, digest |-> Nothing]

\* Repository reports and baselines that validateReport lets through.
RepoReports ==
  {p \in [node : Nodes, epoch : Epochs, seq : 1..MaxSeq, repo : Repos, files : Contents] :
      \A f \in Files : p.files[f] # Absent => RepoOf[f] = p.repo}
BaselineReports == [node : Nodes, epoch : Epochs, files : Contents]

\* Snapshots that validateUploadedInventory lets through.
Snapshots ==
  [node : Nodes, epoch : 1..MaxLegacyEpoch, seq : 1..MaxLegacySeq,
   complete : BOOLEAN, files : Contents]

Init ==
  /\ registered = {}
  /\ reportNode = [n \in Nodes |-> [epoch |-> NoEpoch, pending |-> NoEpoch,
                                    baseline |-> Nothing, status |-> "uninitialized"]]
  /\ reportRepo = [n \in Nodes |-> [r \in Repos |-> NoWatermark]]
  /\ fileSize   = Nothing
  /\ holding    = [n \in Nodes |-> {}]
  /\ state      = [n \in Nodes |-> [version |-> 0, epoch |-> 0, seq |-> 0, complete |-> FALSE]]
  /\ issued     = 0
-----------------------------------------------------------------------------
Reported(files) == {f \in Files : files[f] # Absent}

\* A listed file whose identity is stored with another size rolls the transaction back.
Conflict(files) ==
  \E f \in Reported(files) : fileSize[f] # Absent /\ fileSize[f] # files[f]

\* INSERT ... ON CONFLICT DO NOTHING of every listed file.
Interned(files) ==
  [f \in Files |-> IF fileSize[f] = Absent THEN files[f] ELSE fileSize[f]]

\* What a reader of the inventory sees of node n (ListUploadedHoldings).
Held(n) == [f \in Files |-> IF f \in holding[n] THEN fileSize[f] ELSE Absent]
-----------------------------------------------------------------------------
\* Registration inserts the node's dingospeed row; nothing deletes it.
Register(n) ==
  /\ n \notin registered
  /\ registered' = registered \cup {n}
  /\ UNCHANGED <<reportNode, reportRepo, fileSize, holding, state, issued>>

\* Fault: an explicit request always allocates.
NeedsNewEpoch_Always(row, explicit) ==
  explicit \/ (row.epoch = NoEpoch /\ row.pending = NoEpoch)

\* A node asks for its session, or an operator for a reconciliation (explicit).
NeedsNewEpoch(row, explicit) ==
  \/ (explicit \/ row.epoch = NoEpoch) /\ row.pending = NoEpoch
  \/ explicit /\ row.status = "needs_attention"

UploadReportSession(n, explicit) ==
  /\ n \in registered
  /\ NeedsNewEpoch(reportNode[n], explicit)
  /\ issued < MaxEpoch
  /\ issued' = issued + 1
  /\ reportNode' = [reportNode EXCEPT ![n] =
                      [reportNode[n] EXCEPT !.pending = issued + 1, !.status = "pending"]]
  /\ UNCHANGED <<registered, reportRepo, fileSize, holding, state>>

\* Fault: the progress of a baseline that is no longer pending is stored.
UploadReconcileProgress_Unfenced(n, e, s) ==
  /\ reportNode' = [reportNode EXCEPT ![n] = [reportNode[n] EXCEPT !.status = s]]
  /\ UNCHANGED <<registered, reportRepo, fileSize, holding, state, issued>>

\* Progress of a baseline that is still the pending one.
UploadReconcileProgress(n, e, s) ==
  /\ reportNode[n].pending = e
  /\ reportNode' = [reportNode EXCEPT ![n] = [reportNode[n] EXCEPT !.status = s]]
  /\ UNCHANGED <<registered, reportRepo, fileSize, holding, state, issued>>
-----------------------------------------------------------------------------
BaselineAccepted(p) ==
  /\ reportNode[p.node].epoch # p.epoch
  /\ reportNode[p.node].pending = p.epoch
  /\ ~Conflict(p.files)

\* Answered "confirmed" without a change: the baseline in force, sent again.
BaselineConfirmed(p) ==
  /\ reportNode[p.node].epoch = p.epoch
  /\ reportNode[p.node].baseline = p.files

\* Fault: a report with the stored sequence is applied again.
RepoAccepted_SameSeq(p) ==
  /\ reportNode[p.node].epoch = p.epoch
  /\ reportRepo[p.node][p.repo].seq <= p.seq
  /\ ~Conflict(p.files)

RepoAccepted(p) ==
  /\ reportNode[p.node].epoch = p.epoch
  /\ reportRepo[p.node][p.repo].seq < p.seq
  /\ ~Conflict(p.files)

\* Answered "confirmed" (the same report again) or "obsolete" without a change.
RepoConfirmed(p) ==
  /\ reportNode[p.node].epoch = p.epoch
  /\ reportRepo[p.node][p.repo] = [seq |-> p.seq, digest |-> p.files]

RepoObsolete(p) ==
  /\ reportNode[p.node].epoch = p.epoch
  /\ reportRepo[p.node][p.repo].seq > p.seq

\* Fault: the report is added to the scope instead of replacing it.
Replaced_NoDelete(n, scope, files) ==
  [holding EXCEPT ![n] = holding[n] \cup Reported(files)]

\* The node's holdings after the selected scope was deleted and the report inserted.
Replaced(n, scope, files) ==
  [holding EXCEPT ![n] = (holding[n] \ scope) \cup Reported(files)]

\* Fault: the last sequence is stored one too low.
Confirm_OffByOne(n, e, s) ==
  state' = [state EXCEPT ![n] = [version |-> 2, epoch |-> e, seq |-> s - 1, complete |-> TRUE]]

Confirm(n, e, s) ==
  state' = [state EXCEPT ![n] = [version |-> 2, epoch |-> e, seq |-> s, complete |-> TRUE]]

ApplyBaseline(p) ==
  /\ BaselineAccepted(p)
  /\ holding'    = Replaced(p.node, Files, p.files)
  /\ fileSize'   = Interned(p.files)
  /\ reportRepo' = [reportRepo EXCEPT ![p.node] = [r \in Repos |-> NoWatermark]]
  /\ reportNode' = [reportNode EXCEPT ![p.node] =
                      [epoch |-> p.epoch, pending |-> NoEpoch,
                       baseline |-> p.files, status |-> "completed"]]
  /\ Confirm(p.node, p.epoch, 0)
  /\ UNCHANGED <<registered, issued>>

ApplyRepoReport(p) ==
  /\ RepoAccepted(p)
  /\ holding'    = Replaced(p.node, InRepo(p.repo), p.files)
  /\ fileSize'   = Interned(p.files)
  /\ reportRepo' = [reportRepo EXCEPT ![p.node] =
                      [reportRepo[p.node] EXCEPT ![p.repo] =
                         [seq |-> p.seq, digest |-> p.files]]]
  /\ Confirm(p.node, p.epoch, p.seq)
  /\ UNCHANGED <<registered, reportNode, issued>>
-----------------------------------------------------------------------------
\* A v1 snapshot is newer than the stored one: same epoch and a higher sequence, or an
\* epoch that started later.
Newer(s, row) ==
  \/ row.version = 0
  \/ s.epoch = row.epoch /\ s.seq > row.seq
  \/ s.epoch > row.epoch

LegacyAccepted(s) ==
  /\ reportNode[s.node].epoch = NoEpoch
  /\ Newer(s, state[s.node])

RecordLegacy(s) ==
  state' = [state EXCEPT ![s.node] =
              [version |-> 1, epoch |-> s.epoch, seq |-> s.seq, complete |-> s.complete]]

\* Fault: the sweep runs before the new holdings are inserted.
Swept_Early(sizes, held) ==
  [f \in Files |-> IF \E n \in Nodes : f \in holding[n] THEN sizes[f] ELSE Absent]

\* File rows that no node holds any more are deleted, whichever node wrote them.
Swept(sizes, held) ==
  [f \in Files |-> IF \E n \in Nodes : f \in held[n] THEN sizes[f] ELSE Absent]

ApplyCompleteSnapshot(s) ==
  /\ s.complete
  /\ LegacyAccepted(s)
  /\ ~Conflict(s.files)
  /\ holding'  = Replaced(s.node, Files, s.files)
  /\ fileSize' = Swept(Interned(s.files), holding')
  /\ RecordLegacy(s)
  /\ UNCHANGED <<registered, reportNode, reportRepo, issued>>

\* An incomplete scan is recorded as an attempt and changes no holding.
ApplyIncompleteSnapshot(s) ==
  /\ ~s.complete
  /\ LegacyAccepted(s)
  /\ RecordLegacy(s)
  /\ UNCHANGED <<registered, reportNode, reportRepo, fileSize, holding, issued>>
-----------------------------------------------------------------------------
\* A report that is answered without a change of any table.
RepeatReport ==
  /\ \/ \E p \in BaselineReports : BaselineConfirmed(p)
     \/ \E p \in RepoReports : RepoConfirmed(p) \/ RepoObsolete(p)
  /\ UNCHANGED vars

Next ==
  \/ RepeatReport
  \/ \E n \in Nodes :
        \/ Register(n)
        \/ \E explicit \in BOOLEAN : UploadReportSession(n, explicit)
        \/ \E e \in Epochs, s \in Progress : UploadReconcileProgress(n, e, s)
  \/ \E p \in BaselineReports : ApplyBaseline(p)
  \/ \E p \in RepoReports : ApplyRepoReport(p)
  \/ \E s \in Snapshots : ApplyCompleteSnapshot(s) \/ ApplyIncompleteSnapshot(s)

Spec == Init /\ [][Next]_vars
-----------------------------------------------------------------------------
\* Every table holds rows of the shape the models in internal/model declare.
TypeOK ==
  /\ registered \in SUBSET Nodes
  /\ reportNode \in [Nodes -> [epoch : Nat, pending : Nat,
                               baseline : Contents, status : Statuses]]
  /\ reportRepo \in [Nodes -> [Repos -> [seq : Nat, digest : Contents]]]
  /\ fileSize \in Contents
  /\ holding \in [Nodes -> SUBSET Files]
  /\ state \in [Nodes -> [version : {0, 1, 2}, epoch : Nat, seq : Nat, complete : BOOLEAN]]
  /\ issued \in Nat

\* The content that governs a file of node n: the last accepted report of its repository,
\* else the baseline.
Governing(n, f) ==
  LET w == reportRepo[n][RepoOf[f]]
  IN  IF w.seq > 0 THEN w.digest[f] ELSE reportNode[n].baseline[f]

\* Once a node has a baseline, what a reader sees of it is file for file, sizes included,
\* what its last accepted report of each repository said, or the baseline where none came
\* since: the holdings, the shared file table, the watermarks and the baseline agree.
HoldingsMatchReports ==
  \A n \in Nodes : reportNode[n].epoch # NoEpoch =>
     \A f \in Files : Held(n)[f] = Governing(n, f)

\* A holding always has its file row: neither an orphan sweep nor another node's report
\* takes away a row that is still referenced.
NoDanglingHolding ==
  \A n \in Nodes : \A f \in holding[n] : fileSize[f] # Absent

\* The reconciliation status an operator sees is about the pending epoch exactly while there
\* is one, and the pending epoch was issued after the one in force.
StatusMatchesPending ==
  \A n \in Nodes :
     /\ reportNode[n].status \in Progress \cup {"pending"} <=> reportNode[n].pending # NoEpoch
     /\ reportNode[n].pending # NoEpoch => reportNode[n].pending > reportNode[n].epoch
     /\ reportNode[n].epoch <= issued /\ reportNode[n].pending <= issued

\* A running reconciliation is never replaced by another: the pending epoch changes only by
\* being put in force, or after the node reported that it needs attention.
ReconcileNotPreempted ==
  [][\A n \in Nodes :
        reportNode[n].pending # NoEpoch /\ reportNode'[n].pending # reportNode[n].pending =>
           \/ reportNode'[n].epoch = reportNode[n].pending
           \/ reportNode[n].status = "needs_attention"]_vars

\* The tables implement one ordered register per node and repository.
Ledger == INSTANCE UploadLedger WITH
            epoch   <- [n \in Nodes |-> reportNode[n].epoch],
            seq     <- [n \in Nodes |-> [r \in Repos |-> reportRepo[n][r].seq]],
            content <- [n \in Nodes |-> Held(n)]

\* Every behaviour of the tables is one of the ledger: sequences and epochs only rise, an old
\* or repeated report changes nothing, v1 is fenced by the first baseline, and a report of one
\* node or repository shows in no other.
ImplementsLedger == Ledger!Spec
=============================================================================
