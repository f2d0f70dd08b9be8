---------------------------- MODULE UploadLedger ----------------------------
(***************************************************************************)
(* What the uploaded-inventory store promises its readers, with no tables, *)
(* transactions or retries: for every node and repository one register     *)
(* that is replaced as a whole, ordered by (baseline epoch, sequence).     *)
(*                                                                         *)
(*   - before the first baseline only whole-node snapshots are stored;     *)
(*   - a baseline replaces the node's whole inventory, restarts every      *)
(*     sequence at 0 and always belongs to an epoch newer than the last;   *)
(*   - a repository update replaces that repository only and always raises *)
(*     its sequence;                                                       *)
(*   - no step touches two nodes.                                          *)
(***************************************************************************)
EXTENDS Naturals

CONSTANTS Nodes,    \* Speed instances
          Repos,    \* uploaded repositories
          Files,    \* file identities: repository, path and SHA256
          RepoOf,   \* the repository of a file identity
          Absent    \* "this node does not hold the file"

VARIABLES epoch,    \* node -> number of the baseline in force, 0 before the first
          seq,      \* node -> repository -> sequence of the update in force
          content   \* node -> file -> its size, or Absent

ledgerVars == <<epoch, seq, content>>

Init ==
  /\ epoch   = [n \in Nodes |-> 0]
  /\ seq     = [n \in Nodes |-> [r \in Repos |-> 0]]
  /\ content = [n \in Nodes |-> [f \in Files |-> Absent]]

OnlyAt(n) ==
  \A m \in Nodes \ {n} :
     epoch'[m] = epoch[m] /\ seq'[m] = seq[m] /\ content'[m] = content[m]

\* A full snapshot of the protocol without sequence numbers, until it is fenced.
Snapshot(n) ==
  /\ epoch[n] = 0
  /\ epoch' = epoch /\ seq' = seq
  /\ OnlyAt(n)

\* A new baseline: newer than every epoch the node has had, sequences restarted.
Baseline(n) ==
  /\ epoch'[n] > epoch[n]
  /\ \A r \in Repos : seq'[n][r] = 0
  /\ OnlyAt(n)

\* An update of one repository: a higher sequence, the other repositories as they were.
Update(n, r) ==
  /\ epoch[n] > 0 /\ epoch' = epoch
  /\ seq'[n][r] > seq[n][r]
  /\ \A q \in Repos \ {r} : seq'[n][q] = seq[n][q]
  /\ \A f \in Files : RepoOf[f] # r => content'[n][f] = content[n][f]
  /\ OnlyAt(n)

Next ==
  \E n \in Nodes :
     \/ Snapshot(n)
     \/ Baseline(n)
     \/ \E r \in Repos : Update(n, r)

Spec == Init /\ [][Next]_ledgerVars
=============================================================================
