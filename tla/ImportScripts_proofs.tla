------------------------- MODULE ImportScripts_proofs -------------------------
(***************************************************************************)
(* Theorems about ImportScripts and the catalogue it writes beside the     *)
(* scheduler, for every disk, snapshot, batch size and number of nodes,    *)
(* records and runs.                                                       *)
(***************************************************************************)
EXTENDS ImportScripts, SequenceTheorems, FiniteSetTheorems, WellFoundedInduction, TLAPS

-----------------------------------------------------------------------------
(* Sequences and sets *)

\* The least element of a set of numbers.
LEMMA MinIsLeast ==
  ASSUME NEW S \in SUBSET Nat, S # {}
  PROVE  Min(S) \in S /\ \A x \in S : Min(S) <= x
<1> DEFINE Less == OpToRel(<, Nat)
<1>0. ASSUME NEW y \in Nat, NEW x \in Nat, y < x PROVE <<y, x>> \in Less
  <2>1. Less = {ss \in Nat \X Nat : ss[1] < ss[2]}
    BY DEF OpToRel
  <2> HIDE DEF Less
  <2> QED BY <1>0, <2>1
<1>1. PICK x \in S : \A y \in S : ~ (<<y, x>> \in Less)
  BY NatLessThanWellFounded, WFMin
<1> HIDE DEF Less
<1>2. ASSUME NEW y \in S PROVE x <= y
  <2>1. x \in Nat /\ y \in Nat
    OBVIOUS
  <2>2. ~(y < x)
    BY <1>0, <1>1, <2>1, Zenon
  <2> QED BY <2>1, <2>2
<1> QED BY <1>2 DEF Min

\* The elements of a sequence and of what is made from it.
LEMMA Elements ==
  ASSUME NEW S, NEW s \in Seq(S)
  PROVE  /\ ToSet(s) \subseteq S
         /\ \A x \in ToSet(s) : \E i \in 1..Len(s) : s[i] = x
         /\ \A i \in 1..Len(s) : s[i] \in ToSet(s)
         /\ s \in Seq(ToSet(s))
BY DEF ToSet

LEMMA ElementsOfBoth ==
  ASSUME NEW S, NEW s \in Seq(S), NEW t \in Seq(S)
  PROVE  ToSet(s \o t) = ToSet(s) \cup ToSet(t)
<1>1. s \o t \in Seq(S) /\ Len(s \o t) = Len(s) + Len(t) /\ Len(s) \in Nat /\ Len(t) \in Nat
  OBVIOUS
<1>2. \A i \in 1..Len(s) : (s \o t)[i] = s[i]
  OBVIOUS
<1>3. \A i \in 1..Len(t) : (s \o t)[Len(s) + i] = t[i]
  OBVIOUS
<1>4. ASSUME NEW x \in ToSet(s \o t) PROVE x \in ToSet(s) \cup ToSet(t)
  <2>1. PICK i \in 1..(Len(s) + Len(t)) : (s \o t)[i] = x
    BY <1>1, <1>4, Elements
  <2>2. CASE i <= Len(s)
    BY <1>1, <1>2, <2>1, <2>2, Elements
  <2>3. CASE i > Len(s)
    <3>1. i - Len(s) \in 1..Len(t) /\ Len(s) + (i - Len(s)) = i
      BY <1>1, <2>1, <2>3
    <3> QED BY <1>3, <2>1, <3>1, Elements
  <2> QED BY <1>1, <2>1, <2>2, <2>3
<1>5. ASSUME NEW x \in ToSet(s) PROVE x \in ToSet(s \o t)
  <2>1. PICK i \in 1..Len(s) : s[i] = x
    BY <1>5, Elements
  <2>2. i \in 1..Len(s \o t) /\ (s \o t)[i] = x
    BY <1>1, <1>2, <2>1
  <2> QED BY <1>1, <2>2, Elements
<1>6. ASSUME NEW x \in ToSet(t) PROVE x \in ToSet(s \o t)
  <2>1. PICK i \in 1..Len(t) : t[i] = x
    BY <1>6, Elements
  <2>2. Len(s) + i \in 1..Len(s \o t) /\ (s \o t)[Len(s) + i] = x
    BY <1>1, <1>3, <2>1
  <2> QED BY <1>1, <2>2, Elements
<1> QED BY <1>4, <1>5, <1>6

\* A finite set as a sequence has its elements.
LEMMA SetAsSequence ==
  ASSUME NEW S, IsFiniteSet(S)
  PROVE  SetToSeq(S) \in Seq(S)
<1> DEFINE f == SetToSeq(S)
<1>1. Cardinality(S) \in Nat /\ \E g \in [1..Cardinality(S) -> S] : IsInjective(g)
  BY FS_CardinalityType DEF ExistsBijection, Bijection, Injection, IsInjective
<1>2. f \in [1..Cardinality(S) -> S]
  BY <1>1 DEF SetToSeq
<1> QED BY <1>1, <1>2

\* Only keeps of a sequence exactly what is in the set: the rank of a position among those kept
\* is a bijection.
LEMMA OnlyThose ==
  ASSUME NEW S, NEW s \in Seq(S), NEW T
  PROVE  Only(s, T) \in Seq(S) /\ ToSet(Only(s, T)) = ToSet(s) \cap T
<1> DEFINE at   == {i \in DOMAIN s : s[i] \in T}
           n    == Cardinality(at)
           rank == [i \in at |-> Cardinality(at \cap 1..i)]
           nth(k) == CHOOSE i \in at : Cardinality(at \cap 1..i) = k
<1>1. Len(s) \in Nat /\ DOMAIN s = 1..Len(s) /\ at \subseteq 1..Len(s)
  OBVIOUS
<1>2. IsFiniteSet(at) /\ n \in Nat
  <2>1. IsFiniteSet(1..Len(s))
    BY <1>1, FS_Interval
  <2>2. IsFiniteSet(at)
    BY <1>1, <2>1, FS_Subset
  <2> QED BY <2>2, FS_CardinalityType
<1>3. ASSUME NEW i \in at
      PROVE  Cardinality(at \cap 1..i) \in 1..n
  <2>1. at \cap 1..i \subseteq at /\ i \in at \cap 1..i
    BY <1>1, <1>3
  <2>2. IsFiniteSet(at \cap 1..i) /\ Cardinality(at \cap 1..i) <= n
    BY <1>2, <2>1, FS_Subset
  <2>3. Cardinality(at \cap 1..i) \in Nat /\ Cardinality(at \cap 1..i) # 0
    BY <2>1, <2>2, FS_EmptySet, FS_CardinalityType
  <2> HIDE DEF at
  <2> QED BY <1>2, <2>2, <2>3
<1>4. ASSUME NEW i \in at, NEW j \in at, i < j
      PROVE  Cardinality(at \cap 1..i) # Cardinality(at \cap 1..j)
  <2>1. at \cap 1..i \subseteq at \cap 1..j /\ j \in at \cap 1..j /\ j \notin at \cap 1..i
    BY <1>1, <1>4
  <2>2. IsFiniteSet(at \cap 1..j)
    BY <1>2, FS_Subset
  <2> QED BY <2>1, <2>2, FS_Subset
<1>5. ASSUME NEW i \in at, NEW j \in at, Cardinality(at \cap 1..i) = Cardinality(at \cap 1..j)
      PROVE  i = j
  <2>1. i \in Nat /\ j \in Nat /\ ~(i < j) /\ ~(j < i)
    BY <1>1, <1>4, <1>5
  <2> QED BY <2>1
<1>6. ASSUME NEW k \in 1..n PROVE \E i \in at : Cardinality(at \cap 1..i) = k
  <2>1. rank \in Injection(at, 1..n)
    BY <1>3, <1>5 DEF Injection, IsInjective
  <2>2. IsFiniteSet(1..n) /\ Cardinality(1..n) = n
    BY <1>2, FS_Interval
  <2>3. rank \in Surjection(at, 1..n)
    <3> HIDE DEF at, rank
    <3> QED BY <2>1, <2>2, FS_Injection
  <2> QED BY <2>3 DEF Surjection
<1>7. \A k \in 1..n : nth(k) \in at /\ Cardinality(at \cap 1..nth(k)) = k
  BY <1>6
<1>8. \A i \in at : nth(Cardinality(at \cap 1..i)) = i
  BY <1>3, <1>5, <1>7
<1>9. Only(s, T) = [k \in 1..n |-> s[nth(k)]]
  BY DEF Only
<1>10. \A i \in at : s[i] \in S \cap T
  BY <1>1
<1> HIDE DEF at, n, nth
<1>11. \A k \in 1..n : s[nth(k)] \in S \cap T
  BY <1>7, <1>10
<1>12. Only(s, T) \in Seq(S)
  BY <1>2, <1>9, <1>11
<1>13. \A x \in ToSet(Only(s, T)) : x \in ToSet(s) \cap T
  <2>1. ASSUME NEW k \in 1..n PROVE s[nth(k)] \in ToSet(s) \cap T
    BY <1>7, <1>10, <2>1 DEF at, ToSet
  <2> QED BY <1>9, <2>1 DEF ToSet
<1>14. ASSUME NEW x \in ToSet(s) \cap T PROVE x \in ToSet(Only(s, T))
  <2>1. PICK i \in at : s[i] = x
    BY <1>14 DEF ToSet, at
  <2>2. PICK k \in 1..n : k = Cardinality(at \cap 1..i)
    BY <1>3
  <2>3. Only(s, T)[k] = x /\ k \in DOMAIN Only(s, T)
    BY <1>8, <1>9, <2>1, <2>2
  <2> QED BY <2>3 DEF ToSet
<1> QED BY <1>12, <1>13, <1>14

\* The elements of a set made from those of a sequence are as few.
LEMMA FewEtags ==
  ASSUME NEW s \in Seq(Files)
  PROVE  IsFiniteSet({f.etag : f \in ToSet(s)})
<1> DEFINE E == {f.etag : f \in ToSet(s)}
           g == [i \in 1..Len(s) |-> s[i].etag]
<1>1. \A i \in 1..Len(s) : s[i] \in ToSet(s)
  BY Elements
<1>2. \A x \in E : \E i \in 1..Len(s) : g[i] = x
  <2>1. ASSUME NEW f \in ToSet(s) PROVE \E i \in 1..Len(s) : g[i] = f.etag
    BY Elements
  <2> QED BY <2>1
<1>3. g \in Surjection(1..Len(s), E)
  BY <1>1, <1>2 DEF Surjection
<1>4. IsFiniteSet(1..Len(s))
  BY FS_Interval
<1> HIDE DEF g, E
<1>5. IsFiniteSet(E)
  BY <1>3, <1>4, FS_Surjection
<1> QED BY <1>5 DEF E
-----------------------------------------------------------------------------
(* What the walks over the disk give *)

FileEtags == {f.etag : f \in Files}

Walked == Only(Disk, {d \in ToSet(Disk) : Listed(d.path) /\ d.readable})

LEMMA Walk == LargeFiles(Walked) \in Seq(Files)
<1> DEFINE S == {d \in ToSet(Disk) : Listed(d.path) /\ d.readable}
           large == Only(Walked, {d \in ToSet(Walked) : d.large})
<1>1. Disk \in Seq(ToSet(Disk))
  BY DiskAssumption
<1>2. Walked \in Seq(ToSet(Disk)) /\ ToSet(Walked) = ToSet(Disk) \cap S
  BY <1>1, OnlyThose DEF Walked
<1>3. large \in Seq(ToSet(Disk)) /\ ToSet(large) = ToSet(Walked) \cap {d \in ToSet(Walked) : d.large}
  <2> HIDE DEF S
  <2>1. Walked \in Seq(ToSet(Disk))
    BY <1>2
  <2> QED BY <2>1, OnlyThose
<1>4. \A d \in ToSet(large) : FileInfo(d) \in Files
  BY <1>2, <1>3, DiskAssumption
<1>5. /\ DOMAIN large = 1..Len(large) /\ Len(large) \in Nat
      /\ \A k \in DOMAIN large : large[k] \in ToSet(large)
  <2> HIDE DEF large
  <2> QED BY <1>3, Elements
<1>6. LargeFiles(Walked) = [k \in DOMAIN large |-> FileInfo(large[k])]
  BY DEF LargeFiles
<1> HIDE DEF large
<1> QED BY <1>4, <1>5, <1>6

LEMMA Walks ==
  /\ Candidates \in Seq(Files) /\ RepairCandidates \in Seq(Files)
  /\ ProcessEtags \in Seq(FileEtags)
<1>1. Candidates \in Seq(Files) /\ RepairCandidates \in Seq(Files)
  BY Walk DEF Candidates, RepairCandidates, Found, RepairFound, Walked
<1>2. LargeFiles(ProcessFound) \in Seq(Files)
  BY Walk DEF ProcessFound, Walked
<1> DEFINE E == {f.etag : f \in ToSet(LargeFiles(ProcessFound))}
<1>3. E \subseteq FileEtags /\ IsFiniteSet(E)
  BY <1>2, Elements, FewEtags DEF FileEtags
<1> HIDE DEF E
<1>4. SetToSeq(E) \in Seq(FileEtags)
  BY <1>3, SetAsSequence
<1> QED BY <1>1, <1>4 DEF ProcessEtags, E
-----------------------------------------------------------------------------
(* The kinds of the rows and of the scripts *)

NodeRows(ids) == [record : ids, instance : {Node}, whole : BOOLEAN]

RegistrarStates ==
  {Waiting} \cup [step : {"page", "person", "download", "insert", "save"},
                  instance : Persisted, repo : Repositories, columns : SUBSET Optional]

\* A script by its program and what it is at, with the ids of the records there are.
ModelImports ==
  [op : {"model_import"}, step : {"query", "write"}, list : Seq(Files), at : Nat,
   seen : SUBSET Files, known : SUBSET Files, results : {{}}, rows : {<<>>}]
RepairsAsk ==
  [op : {"repair"}, step : {"query"}, list : Seq(Files), at : {0},
   seen : {{}}, known : {{}}, results : {{}}, rows : {<<>>}]
RepairsFind ==
  [op : {"repair"}, step : {"ids"}, list : Seq(Files), at : {0},
   seen : {{}}, known : SUBSET FileEtags, results : {{}}, rows : Seq(Files)]
RepairsFetch(ids) ==
  [op : {"repair"}, step : {"offsets"}, list : Seq(ids), at : Nat,
   seen : {{}}, known : {{}}, results : SUBSET NodeRows(ids), rows : Seq(Files)]
ImportsAsk(ids) ==
  [op : {"process_import"}, step : {"query"}, list : Seq(FileEtags), at : Nat,
   seen : {{}}, known : SUBSET ids, results : {{}}, rows : {<<>>}]
ImportsFetch(ids) ==
  [op : {"process_import"}, step : {"offsets", "exists", "write"}, list : Seq(ids), at : Nat,
   seen : {{}}, known : SUBSET ids, results : SUBSET NodeRows(ids), rows : {<<>>}]
AvatarImports ==
  [op : {"avatar_import"}, step : {"insert"}, list : {<<>>}, at : {0},
   seen : {{}}, known : {{}}, results : {{}}, rows : {<<>>}]

ScriptStates(ids) ==
  {NoScript} \cup ModelImports \cup RepairsAsk \cup RepairsFind \cup RepairsFetch(ids)
    \cup ImportsAsk(ids) \cup ImportsFetch(ids) \cup AvatarImports

RecordsOK  == records \in Seq(Rows) /\ Len(records) <= MaxRecords
RowsOK     == /\ processes \subseteq [record : RecordIds, instance : Instances, whole : BOOLEAN]
              /\ csvProcesses \subseteq NodeRows(RecordIds)
ScriptOK   == /\ script \in ScriptStates(RecordIds)
              /\ csv \in [rows : Seq(Rows), found : SUBSET Files]
PlacesOK   == /\ held \in [Instances -> SUBSET Contents]
              /\ repository \in [Places -> BOOLEAN]
              /\ registrar \in RegistrarStates
              /\ logo \in [Writers -> Nat]

StateOK == RecordsOK /\ RowsOK /\ ScriptOK /\ PlacesOK

\* What a script at a step of a program carries.
LEMMA Carries ==
  ASSUME NEW ids, script \in ScriptStates(ids)
  PROVE  /\ script.rows \in Seq(Files) /\ script.results \subseteq NodeRows(ids)
         /\ At("model_import", "query") \/ At("model_import", "write") => script \in ModelImports
         /\ At("repair", "query") => script \in RepairsAsk
         /\ At("repair", "ids") => script \in RepairsFind
         /\ At("repair", "offsets") => script \in RepairsFetch(ids)
         /\ At("process_import", "query") => script \in ImportsAsk(ids)
         /\ At("process_import", "offsets") \/ At("process_import", "exists")
              \/ At("process_import", "write") => script \in ImportsFetch(ids)
         /\ At("avatar_import", "insert") => script \in AvatarImports
         /\ script = NoScript <=> script.step = "idle"
<1>1. script \in ModelImports =>
        /\ script.op = "model_import" /\ script.step \in {"query", "write"}
        /\ script.rows = <<>> /\ script.results = {}
  BY DEF ModelImports
<1>2. script \in RepairsAsk =>
        /\ script.op = "repair" /\ script.step = "query"
        /\ script.rows = <<>> /\ script.results = {}
  BY DEF RepairsAsk
<1>3. script \in RepairsFind =>
        /\ script.op = "repair" /\ script.step = "ids"
        /\ script.rows \in Seq(Files) /\ script.results = {}
  BY DEF RepairsFind
<1>4. script \in RepairsFetch(ids) =>
        /\ script.op = "repair" /\ script.step = "offsets"
        /\ script.rows \in Seq(Files) /\ script.results \subseteq NodeRows(ids)
  BY DEF RepairsFetch
<1>5. script \in ImportsAsk(ids) =>
        /\ script.op = "process_import" /\ script.step = "query"
        /\ script.rows = <<>> /\ script.results = {}
  BY DEF ImportsAsk
<1>6. script \in ImportsFetch(ids) =>
        /\ script.op = "process_import" /\ script.step \in {"offsets", "exists", "write"}
        /\ script.rows = <<>> /\ script.results \subseteq NodeRows(ids)
  BY DEF ImportsFetch
<1>7. script \in AvatarImports =>
        /\ script.op = "avatar_import" /\ script.step = "insert"
        /\ script.rows = <<>> /\ script.results = {}
  BY DEF AvatarImports
<1>8. script = NoScript =>
        /\ script.op = "none" /\ script.step = "idle"
        /\ script.rows = <<>> /\ script.results = {}
  BY DEF NoScript
<1>9. <<>> \in Seq(Files)
  OBVIOUS
<1> QED BY <1>1, <1>2, <1>3, <1>4, <1>5, <1>6, <1>7, <1>8, <1>9, Zenon DEF ScriptStates, At

\* It carries them as well when there are more records.
LEMMA ScriptStatesGrow ==
  ASSUME NEW ids, NEW more, ids \subseteq more
  PROVE  ScriptStates(ids) \subseteq ScriptStates(more) /\ NodeRows(ids) \subseteq NodeRows(more)
<1>1. NodeRows(ids) \subseteq NodeRows(more) /\ Seq(ids) \subseteq Seq(more)
  BY DEF NodeRows
<1>2. RepairsFetch(ids) \subseteq RepairsFetch(more)
  BY <1>1 DEF RepairsFetch
<1>3. ImportsAsk(ids) \subseteq ImportsAsk(more)
  BY <1>1 DEF ImportsAsk
<1>4. ImportsFetch(ids) \subseteq ImportsFetch(more)
  BY <1>1 DEF ImportsFetch
<1> QED
  BY <1>1, <1>2, <1>3, <1>4 DEF ScriptStates
-----------------------------------------------------------------------------
(* Who writes what: each variable is changed by a few actions alone. *)

LEMMA RecordWriters ==
  ASSUME [Next]_vars
  PROVE  \/ records' = records
         \/ \E i \in Instances, f \in Files : Transfer(i, f)
         \/ LoadRecords
BY Zenon DEF Next, vars, scripts, catalogue, tables, CatalogueNext, ScriptNext, RegistrarStep,
   Transfer, DeleteByEtagsAndFields, Fetch, ReportWhole, PersistRepo, LogoStep,
   FetchAvatarURL, FetchPersonAvatarURL, DownloadAvatar, InsertLogo, SaveWithout, Save,
   ScriptFails, StartModelImport, ExistRecords, WriteNewRecords, StartRepair, WriteNewEtags,
   SelectRecords, RepairOffset, WriteRepairProcesses, StartProcessImport, QueryEtags, OffsetsDone,
   ExistProcesses, WriteProcesses, FetchOffset, StartAvatarImport, InsertAvatar, LoadProcesses

LEMMA ProcessWriters ==
  ASSUME [Next]_vars
  PROVE  \/ processes' = processes
         \/ \E i \in Instances, f \in Files : Transfer(i, f) \/ DeleteByEtagsAndFields(i, f)
         \/ \E p \in processes : ReportWhole(p)
         \/ LoadProcesses
BY Zenon DEF Next, vars, scripts, catalogue, tables, CatalogueNext, ScriptNext, RegistrarStep,
   Fetch, PersistRepo, LogoStep,
   FetchAvatarURL, FetchPersonAvatarURL, DownloadAvatar, InsertLogo, SaveWithout, Save,
   ScriptFails, StartModelImport, ExistRecords, WriteNewRecords, StartRepair, WriteNewEtags,
   SelectRecords, RepairOffset, WriteRepairProcesses, StartProcessImport, QueryEtags, OffsetsDone,
   ExistProcesses, WriteProcesses, FetchOffset, StartAvatarImport, InsertAvatar, LoadRecords

LEMMA CsvProcessWriters ==
  ASSUME [Next]_vars
  PROVE  csvProcesses' = csvProcesses \/ WriteRepairProcesses \/ WriteProcesses \/ LoadProcesses
BY Zenon DEF Next, vars, scripts, ScriptNext,
   ScriptFails, StartModelImport, ExistRecords, WriteNewRecords, StartRepair, WriteNewEtags,
   SelectRecords, RepairOffset, StartProcessImport, QueryEtags, OffsetsDone,
   ExistProcesses, FetchOffset, StartAvatarImport, InsertAvatar, LoadRecords

LEMMA CsvWriters ==
  ASSUME [Next]_vars
  PROVE  \/ csv' = csv \/ ScriptFails \/ WriteNewRecords \/ WriteNewEtags \/ LoadRecords
         \/ SelectRecords \/ WriteRepairProcesses
BY Zenon DEF Next, vars, scripts, ScriptNext, StartModelImport, ExistRecords, StartRepair,
   RepairOffset, StartProcessImport, QueryEtags, OffsetsDone, ExistProcesses,
   WriteProcesses, FetchOffset, StartAvatarImport, InsertAvatar, LoadProcesses

LEMMA ScriptWriters ==
  ASSUME [Next]_vars
  PROVE  \/ script' = script
         \/ ScriptFails \/ WriteNewRecords \/ WriteRepairProcesses \/ WriteProcesses \/ InsertAvatar
         \/ StartModelImport \/ StartRepair \/ StartProcessImport \/ StartAvatarImport
         \/ ExistRecords \/ WriteNewEtags \/ SelectRecords \/ RepairOffset \/ QueryEtags
         \/ OffsetsDone \/ ExistProcesses \/ \E k \in RecordIds : FetchOffset(k)
BY Zenon DEF Next, vars, scripts, ScriptNext, LoadRecords, LoadProcesses

LEMMA PlaceWriters ==
  ASSUME [Next]_vars
  PROVE  /\ held' = held \/ \E i \in Instances, c \in Contents : Fetch(i, c)
         /\ \/ UNCHANGED <<repository, registrar>>
            \/ \E i \in Instances, f \in Files : DeleteByEtagsAndFields(i, f)
            \/ \E i \in Persisted, r \in Repositories : PersistRepo(i, r)
            \/ RegistrarStep
         /\ logo' = logo \/ InsertLogo \/ InsertAvatar
<1>1. held' = held \/ \E i \in Instances, c \in Contents : Fetch(i, c)
  BY Zenon DEF Next, vars, scripts, catalogue, tables, CatalogueNext, ScriptNext, RegistrarStep,
     Transfer, DeleteByEtagsAndFields, Fetch, ReportWhole, PersistRepo, LogoStep,
     FetchAvatarURL, FetchPersonAvatarURL, DownloadAvatar, InsertLogo, SaveWithout, Save,
     ScriptFails, StartModelImport, ExistRecords, WriteNewRecords, StartRepair, WriteNewEtags,
     SelectRecords, RepairOffset, WriteRepairProcesses, StartProcessImport, QueryEtags, OffsetsDone,
     ExistProcesses, WriteProcesses, FetchOffset, StartAvatarImport, InsertAvatar, LoadRecords,
     LoadProcesses
<1>2. \/ UNCHANGED <<repository, registrar>>
      \/ \E i \in Instances, f \in Files : DeleteByEtagsAndFields(i, f)
      \/ \E i \in Persisted, r \in Repositories : PersistRepo(i, r)
      \/ RegistrarStep
  BY Zenon DEF Next, vars, scripts, catalogue, CatalogueNext, ScriptNext,
     Transfer, Fetch, ReportWhole,
     ScriptFails, StartModelImport, ExistRecords, WriteNewRecords, StartRepair, WriteNewEtags,
     SelectRecords, RepairOffset, WriteRepairProcesses, StartProcessImport, QueryEtags, OffsetsDone,
     ExistProcesses, WriteProcesses, FetchOffset, StartAvatarImport, InsertAvatar, LoadRecords,
     LoadProcesses
<1>3. logo' = logo \/ InsertLogo \/ InsertAvatar
  BY Zenon DEF Next, vars, scripts, catalogue, CatalogueNext, ScriptNext, RegistrarStep,
     Transfer, DeleteByEtagsAndFields, Fetch, ReportWhole, PersistRepo, LogoStep,
     FetchAvatarURL, FetchPersonAvatarURL, DownloadAvatar, SaveWithout, Save,
     ScriptFails, StartModelImport, ExistRecords, WriteNewRecords, StartRepair, WriteNewEtags,
     SelectRecords, RepairOffset, WriteRepairProcesses, StartProcessImport, QueryEtags, OffsetsDone,
     ExistProcesses, WriteProcesses, FetchOffset, StartAvatarImport, LoadRecords, LoadProcesses
<1> QED BY <1>1, <1>2, <1>3

\* Rows of model_file_record keep their id and are not changed.
Grown == /\ RecordIds \subseteq RecordIds'
         /\ \A k \in RecordIds : records'[k] = records[k]
         /\ ToSet(records) \subseteq ToSet(records')

LEMMA RecordsStep ==
  ASSUME RecordsOK, ScriptOK, [Next]_vars
  PROVE  RecordsOK' /\ Grown
<1>1. records \in Seq(Rows) /\ Len(records) \in Nat /\ RecordIds = 1..Len(records)
  BY DEF RecordsOK, RecordIds
<1>2. CASE records' = records
  BY <1>2 DEF RecordsOK, Grown, RecordIds
<1>3. ASSUME NEW t \in Seq(Rows), records' = records \o t, Len(records') <= MaxRecords
      PROVE  RecordsOK' /\ Grown
  <2>1. records' \in Seq(Rows) /\ Len(records') = Len(records) + Len(t) /\ Len(t) \in Nat
    BY <1>1, <1>3
  <2>2. RecordIds' = 1..Len(records')
    BY <2>1 DEF RecordIds
  <2>3. \A k \in RecordIds : records'[k] = records[k]
    BY <1>1, <1>3
  <2>4. ToSet(records) \subseteq ToSet(records')
    BY <1>1, <1>3, ElementsOfBoth
  <2> QED BY <1>1, <1>3, <2>1, <2>2, <2>3, <2>4 DEF RecordsOK, Grown
<1>4. ASSUME NEW i \in Instances, NEW f \in Files, Transfer(i, f)
      PROVE  RecordsOK' /\ Grown
  <2>1. (records' = records \/ records' = Append(records, f)) /\ Len(records') <= MaxRecords
    BY <1>4 DEF Transfer
  <2>2. Append(records, f) = records \o <<f>> /\ <<f>> \in Seq(Rows)
    <3>1. f \in Rows
      BY DEF Rows
    <3> QED BY <1>1, <3>1, AppendIsConcat
  <2> QED BY <1>2, <1>3, <2>1, <2>2
<1>5. CASE LoadRecords
  <2>1. csv.rows \in Seq(Rows)
    BY DEF ScriptOK
  <2>2. records' = records \o csv.rows /\ Len(records') = Len(records) + Len(csv.rows)
    BY <1>1, <1>5, <2>1 DEF LoadRecords
  <2> QED BY <1>3, <1>5, <2>1, <2>2 DEF LoadRecords
<1> QED BY <1>2, <1>4, <1>5, RecordWriters

\* A file's record is that of its least id.
LEMMA FirstOf ==
  ASSUME NEW s \in Seq(Rows), NEW f, NEW i \in 1..Len(s), SameFile(s[i], f)
  PROVE  LET k == Min({j \in DOMAIN s : SameFile(s[j], f)}) IN k \in DOMAIN s /\ SameFile(s[k], f)
<1> DEFINE S == {j \in DOMAIN s : SameFile(s[j], f)}
<1>1. DOMAIN s = 1..Len(s) /\ Len(s) \in Nat
  OBVIOUS
<1>2. S \in SUBSET Nat
  BY <1>1
<1>3. S # {}
  BY <1>1
<1>4. Min(S) \in S
  <2> HIDE DEF S
  <2> QED BY <1>2, <1>3, MinIsLeast
<1> QED BY <1>4

LEMMA RowsStep ==
  ASSUME StateOK, [Next]_vars
  PROVE  RowsOK'
<1> DEFINE ProcessRows(ids) == [record : ids, instance : Instances, whole : BOOLEAN]
<1>1. RecordsOK' /\ Grown
  BY RecordsStep DEF StateOK
<1>2. processes \subseteq ProcessRows(RecordIds) /\ csvProcesses \subseteq NodeRows(RecordIds)
  BY DEF StateOK, RowsOK
<1>3. ProcessRows(RecordIds) \subseteq ProcessRows(RecordIds') /\ NodeRows(RecordIds) \subseteq NodeRows(RecordIds')
  BY <1>1 DEF Grown, NodeRows
<1>4. NodeRows(RecordIds') \subseteq ProcessRows(RecordIds')
  BY ImportAssumption DEF NodeRows
<1>5. processes' \subseteq ProcessRows(RecordIds')
  <2>1. ASSUME NEW i \in Instances, NEW f \in Files, Transfer(i, f)
        PROVE  processes' \subseteq ProcessRows(RecordIds')
    <3> DEFINE k == Min({j \in DOMAIN records' : SameFile(records'[j], f)})
    <3>1. \E j \in 1..Len(records') : SameFile(records'[j], f)
      <4>1. CASE records' = records /\ IdsOf(f) # {}
        BY <4>1 DEF IdsOf, RecordIds, StateOK, RecordsOK
      <4>2. CASE records' = Append(records, f)
        <5>1. Len(records') \in 1..Len(records') /\ records'[Len(records')] = f
          BY <4>2 DEF StateOK, RecordsOK
        <5> QED BY <5>1 DEF SameFile
      <4> QED BY <2>1, <4>1, <4>2 DEF Transfer
    <3>2. k \in RecordIds'
      BY <1>1, <3>1, FirstOf DEF RecordsOK, RecordIds
    <3>3. processes' = processes \cup {Process(k, i, FALSE)}
      BY <2>1 DEF Transfer
    <3>4. Process(k, i, FALSE) \in ProcessRows(RecordIds')
      BY <3>2 DEF Process
    <3> HIDE DEF k, ProcessRows
    <3> QED BY <1>2, <1>3, <3>3, <3>4
  <2>2. ASSUME NEW p \in processes, ReportWhole(p)
        PROVE  processes' \subseteq ProcessRows(RecordIds')
    <3>1. processes' = (processes \ {p}) \cup {[p EXCEPT !.whole = TRUE]}
      BY <2>2 DEF ReportWhole
    <3>2. [p EXCEPT !.whole = TRUE] \in ProcessRows(RecordIds)
      BY <1>2, <2>2
    <3> QED BY <1>2, <1>3, <3>1, <3>2
  <2>3. ASSUME NEW i \in Instances, NEW f \in Files, DeleteByEtagsAndFields(i, f)
        PROVE  processes' \subseteq processes
    BY <2>3 DEF DeleteByEtagsAndFields
  <2>4. CASE LoadProcesses
    BY <1>2, <1>3, <1>4, <2>4 DEF LoadProcesses
  <2>5. ASSUME processes' \subseteq processes PROVE processes' \subseteq ProcessRows(RecordIds')
    BY <1>2, <1>3, <2>5
  <2> HIDE DEF ProcessRows
  <2> QED BY <2>1, <2>2, <2>3, <2>4, <2>5, ProcessWriters
<1>6. csvProcesses' \subseteq NodeRows(RecordIds')
  <2>1. script.results \subseteq NodeRows(RecordIds)
    BY Carries DEF StateOK, ScriptOK
  <2>2. csvProcesses' \subseteq csvProcesses \cup script.results
    BY CsvProcessWriters DEF WriteRepairProcesses, WriteProcesses, LoadProcesses
  <2> QED BY <1>2, <1>3, <2>1, <2>2
<1> QED BY <1>5, <1>6 DEF RowsOK

LEMMA RegistrarKind ==
  ASSUME registrar \in RegistrarStates, registrar.step # "idle"
  PROVE  registrar \in [step : {"page", "person", "download", "insert", "save"},
                        instance : Persisted, repo : Repositories, columns : SUBSET Optional]
BY DEF RegistrarStates, Waiting

LEMMA PlacesStep ==
  ASSUME StateOK, [Next]_vars
  PROVE  PlacesOK'
<1>0. PlacesOK
  BY DEF StateOK
<1>1. held' \in [Instances -> SUBSET Contents]
  BY <1>0, PlaceWriters DEF PlacesOK, Fetch
<1>2. logo' \in [Writers -> Nat]
  <2>1. logo' = logo \/ \E w \in Writers : SaveLogo(w)
    BY PlaceWriters DEF InsertLogo, InsertAvatar, Writers
  <2> QED BY <1>0, <2>1 DEF PlacesOK, SaveLogo
<1> DEFINE Goal == repository' \in [Places -> BOOLEAN] /\ registrar' \in RegistrarStates
           Runs == [step : {"page", "person", "download", "insert", "save"},
                    instance : Persisted, repo : Repositories, columns : SUBSET Optional]
<1>3. ASSUME NEW i \in Instances, NEW f \in Files, DeleteByEtagsAndFields(i, f) PROVE Goal
  BY <1>0, <1>3 DEF PlacesOK, DeleteByEtagsAndFields
<1>4. ASSUME NEW i \in Persisted, NEW r \in Repositories, PersistRepo(i, r) PROVE Goal
  <2>1. registrar' \in Runs /\ repository' = repository
    BY <1>4 DEF PersistRepo
  <2> QED BY <1>0, <2>1 DEF PlacesOK, RegistrarStates
<1>5. ASSUME RegistrarStep PROVE Goal
  <2>1. registrar.step # "idle"
    BY <1>5 DEF RegistrarStep, FetchAvatarURL, FetchPersonAvatarURL, DownloadAvatar, InsertLogo,
       LogoStep, SaveWithout, Save
  <2>2. registrar \in Runs
    BY <1>0, <2>1, RegistrarKind DEF PlacesOK
  <2>3. ASSUME SaveWithout PROVE Goal
    <3>1. registrar' \in Runs
      BY <2>2, <2>3 DEF SaveWithout
    <3> QED BY <1>0, <2>3, <3>1 DEF SaveWithout, PlacesOK, RegistrarStates
  <2>4. ASSUME Save PROVE Goal
    <3>1. registrar' \in RegistrarStates
      BY <2>4 DEF Save, RegistrarStates
    <3>2. repository' \in [Places -> BOOLEAN]
      BY <1>0, <2>4 DEF Save, PlacesOK
    <3> QED BY <3>1, <3>2
  <2>5. ASSUME NEW to \in {"download", "person", "save", "insert"}, NEW from, LogoStep(from, to) PROVE Goal
    <3>1. registrar' \in Runs
      BY <2>2, <2>5 DEF LogoStep
    <3> QED BY <1>0, <2>5, <3>1 DEF LogoStep, PlacesOK, RegistrarStates
  <2> HIDE DEF Goal
  <2> QED BY <1>5, <2>3, <2>4, <2>5 DEF RegistrarStep, FetchAvatarURL, FetchPersonAvatarURL,
             DownloadAvatar, InsertLogo
<1>6. ASSUME UNCHANGED <<repository, registrar>> PROVE Goal
  BY <1>0, <1>6 DEF PlacesOK
<1>7. Goal
  <2> HIDE DEF Goal
  <2> QED BY <1>3, <1>4, <1>5, <1>6, PlaceWriters
<1> QED BY <1>1, <1>2, <1>7 DEF PlacesOK

\* A query asks for the next part of the list, up to its last element.
LEMMA BatchElements ==
  ASSUME NEW S, script.list \in Seq(S), script.at \in Nat
  PROVE  /\ ToSet(Batch) \subseteq ToSet(script.list)
         /\ \A j \in 1..Len(script.list) :
              script.at < j /\ j <= script.at + BatchSize => script.list[j] \in ToSet(Batch)
<1> DEFINE list == script.list
           m == script.at + 1
           n == Min({script.at + BatchSize, Len(list)})
<1>1. BatchSize \in Nat \ {0} /\ Len(list) \in Nat /\ script.at \in Nat
  BY ImportAssumption
<1>2. n \in {script.at + BatchSize, Len(list)} /\ n <= Len(list) /\ n <= script.at + BatchSize
  <2> DEFINE two == {script.at + BatchSize, Len(list)}
  <2>1. two \in SUBSET Nat /\ two # {}
    BY <1>1
  <2> HIDE DEF two
  <2>2. Min(two) \in two /\ \A x \in two : Min(two) <= x
    BY <2>1, MinIsLeast
  <2> QED BY <2>2 DEF two
<1>3. n \in Nat /\ m \in Nat /\ m >= 1
  BY <1>1, <1>2
<1>4. Batch = SubSeq(list, m, n)
  BY DEF Batch
<1> HIDE DEF m, n
<1>5. \A i \in 1..Len(list) : list[i] \in ToSet(list)
  BY Elements
<1> HIDE DEF list
<1>6. \A i \in m..n : list[i] \in ToSet(list)
  BY <1>1, <1>2, <1>3, <1>5
<1>7. m \in Int /\ n \in Int
  BY <1>3
<1>8. /\ SubSeq(list, m, n) \in Seq(ToSet(list))
      /\ Len(SubSeq(list, m, n)) = IF m <= n THEN n - m + 1 ELSE 0
      /\ \A i \in 1..(n - m + 1) : SubSeq(list, m, n)[i] = list[m + i - 1]
  BY <1>6, <1>7, SubSeqProperties
<1>9. ToSet(Batch) \subseteq ToSet(list)
  BY <1>4, <1>8, Elements
<1>10. ASSUME NEW j \in 1..Len(list), script.at < j, j <= script.at + BatchSize
       PROVE  list[j] \in ToSet(Batch)
  <2>1. j \in Nat /\ m <= j /\ j <= n
    BY <1>1, <1>2, <1>10 DEF m
  <2>2. j - m + 1 \in 1..(n - m + 1) /\ m + (j - m + 1) - 1 = j /\ m <= n
    BY <1>3, <2>1
  <2>3. j - m + 1 \in 1..Len(Batch) /\ Batch[j - m + 1] = list[j]
    BY <1>4, <1>8, <2>2
  <2>4. Batch \in Seq(ToSet(list))
    BY <1>4, <1>8
  <2>5. \A i \in 1..Len(Batch) : Batch[i] \in ToSet(Batch)
    BY <2>4, Elements
  <2> QED BY <2>3, <2>5
<1> QED BY <1>9, <1>10 DEF list

\* Records that answer a query are among the ids there are.
LEMMA IdsAsSequence ==
  ASSUME RecordsOK, NEW K, K \subseteq RecordIds
  PROVE  SetToSeq(K) \in Seq(RecordIds)
<1>1. IsFiniteSet(1..Len(records)) /\ RecordIds = 1..Len(records)
  <2>1. Len(records) \in Nat
    BY DEF RecordsOK
  <2> QED BY <2>1, FS_Interval DEF RecordsOK, RecordIds
<1>2. IsFiniteSet(K)
  BY <1>1, FS_Subset
<1>3. SetToSeq(K) \in Seq(K)
  BY <1>2, SetAsSequence
<1> QED BY <1>3

Csvs == [rows : Seq(Rows), found : SUBSET Files]

\* A file is a row, and so is what is cut of one; what is flushed is made of rows.
LEMMA RowsOfFiles ==
  /\ Files \subseteq Rows /\ Seq(Files) \subseteq Seq(Rows)
  /\ \A f \in Files : CutRows(f) \subseteq Rows
BY DEF Rows

LEMMA FlushedRows ==
  ASSUME NEW s \in Seq(Files)
  PROVE  Flushed(s) \subseteq Seq(Rows)
<1>1. ASSUME NEW n \in 1..Len(s)
      PROVE  /\ SubSeq(s, 1, n) \in Seq(Rows) /\ SubSeq(s, 1, n - 1) \in Seq(Rows)
             /\ CutRows(s[n]) \subseteq Rows
  <2>1. Len(s) \in Nat /\ n \in 1..Len(s) /\ \A i \in 1..Len(s) : s[i] \in Files
    BY <1>1
  <2>2. /\ \A i \in 1..n : s[i] \in Files
        /\ \A i \in 1..(n - 1) : s[i] \in Files
    BY <2>1
  <2>3. SubSeq(s, 1, n) \in Seq(Files) /\ SubSeq(s, 1, n - 1) \in Seq(Files)
    BY <2>1, <2>2, SubSeqProperties
  <2> QED BY <2>1, <2>3, RowsOfFiles
<1>2. ASSUME NEW n \in 1..Len(s), NEW x \in CutRows(s[n])
      PROVE  Append(SubSeq(s, 1, n - 1), x) \in Seq(Rows)
  <2> DEFINE t == SubSeq(s, 1, n - 1)
  <2>1. t \in Seq(Rows) /\ x \in Rows
    BY <1>1, <1>2
  <2> HIDE DEF t
  <2>2. Append(t, x) \in Seq(Rows)
    BY <2>1
  <2> QED BY <2>2 DEF t
<1> SUFFICES ASSUME NEW rows \in Flushed(s) PROVE rows \in Seq(Rows)
  OBVIOUS
<1>3. PICK n \in 1..Len(s) :
        rows \in {SubSeq(s, 1, n)} \cup {Append(SubSeq(s, 1, n - 1), x) : x \in CutRows(s[n])}
  BY Zenon DEF Flushed
<1> QED BY <1>1, <1>2, <1>3

LEMMA CsvStep ==
  ASSUME StateOK, [Next]_vars
  PROVE  csv' \in Csvs
<1>1. csv \in Csvs /\ NoCsv \in Csvs
  BY DEF StateOK, ScriptOK, Csvs, NoCsv
<1>2. script.rows \in Seq(Files)
  BY Carries DEF StateOK, ScriptOK
<1>3. FlushRows => csv' \in Csvs
  BY <1>1, <1>2, RowsOfFiles DEF FlushRows, Csvs
<1>4. ASSUME ScriptFails PROVE csv' \in Csvs
  <2>1. ASSUME NEW rows \in Flushed(script.rows) PROVE [rows |-> rows, found |-> {}] \in Csvs
    BY <1>2, FlushedRows DEF Csvs
  <2> QED BY <1>1, <1>4, <2>1 DEF ScriptFails
<1>5. ASSUME WriteNewRecords PROVE csv' \in Csvs
  <2>1. script.list \in Seq(Files)
    BY <1>5, Carries DEF StateOK, ScriptOK, WriteNewRecords, ModelImports
  <2>2. \A T : Only(script.list, T) \in Seq(Rows)
    BY <2>1, OnlyThose, RowsOfFiles
  <2>3. ToSet(script.list) \subseteq Files
    BY <2>1, Elements
  <2> QED BY <1>1, <1>5, <2>2, <2>3 DEF WriteNewRecords, WriteCsv, Csvs
<1>6. ASSUME WriteNewEtags \/ LoadRecords PROVE csv' \in Csvs
  BY <1>1, <1>6 DEF WriteNewEtags, LoadRecords
<1>7. ASSUME SelectRecords \/ WriteRepairProcesses PROVE csv' \in Csvs
  BY <1>1, <1>3, <1>7 DEF SelectRecords, WriteRepairProcesses
<1> HIDE DEF Csvs
<1> QED BY <1>1, <1>4, <1>5, <1>6, <1>7, CsvWriters

\* An offset is asked for a record there is.
LEMMA Offsets ==
  ASSUME NEW k \in RecordIds, NEW w \in BOOLEAN
  PROVE  Process(k, Node, w) \in NodeRows(RecordIds)
BY DEF Process, NodeRows

LEMMA ScriptStep ==
  ASSUME StateOK, [Next]_vars
  PROVE  ScriptOK'
<1> DEFINE Goal == script' \in ScriptStates(RecordIds)
<1>1. RecordsOK' /\ Grown /\ RecordsOK /\ script \in ScriptStates(RecordIds)
  BY RecordsStep DEF StateOK, ScriptOK
<1>2. NoScript \in ScriptStates(RecordIds)
  BY DEF ScriptStates
<1>3. ASSUME ScriptFails \/ WriteNewRecords \/ WriteRepairProcesses \/ WriteProcesses \/ InsertAvatar
      PROVE  Goal
  BY <1>2, <1>3, Zenon DEF ScriptFails, WriteNewRecords, WriteRepairProcesses, WriteProcesses,
     InsertAvatar, Exit
<1>4. \A K \in SUBSET Files : WithRecord(K) \subseteq Files
  BY DEF WithRecord
<1>5. ASSUME StartModelImport PROVE Goal
  <2>1. script' \in ModelImports
    BY <1>4, <1>5, Walks DEF StartModelImport, Run, NoScript, ModelImports
  <2> QED BY <2>1 DEF ScriptStates
<1>6. ASSUME StartRepair PROVE Goal
  <2>1. script' \in RepairsAsk
    BY <1>6, Walks DEF StartRepair, Run, NoScript, RepairsAsk
  <2> QED BY <2>1 DEF ScriptStates
<1>7. ASSUME StartProcessImport PROVE Goal
  <2>1. script' \in ImportsAsk(RecordIds)
    BY <1>7, Walks DEF StartProcessImport, Run, NoScript, ImportsAsk
  <2> QED BY <2>1 DEF ScriptStates
<1>8. ASSUME StartAvatarImport PROVE Goal
  <2>1. script' \in AvatarImports
    BY <1>8 DEF StartAvatarImport, Run, NoScript, AvatarImports
  <2> QED BY <2>1 DEF ScriptStates
<1>9. ASSUME ExistRecords PROVE Goal
  <2>1. script \in ModelImports
    BY <1>1, <1>9, Carries DEF ExistRecords
  <2>2. PICK known \in SUBSET Files, at \in Nat, step \in {"query", "write"} :
          script' = [script EXCEPT !.known = known, !.at = at, !.step = step]
    <3> DEFINE known == script.known \cup WithRecord(ToSet(Batch))
               at == IF IsLast THEN 0 ELSE script.at + BatchSize
               step == IF IsLast THEN "write" ELSE script.step
    <3>1. script' = [script EXCEPT !.known = known, !.at = at, !.step = step]
      BY <1>9 DEF ExistRecords, Query
    <3>2. known \in SUBSET Files
      <4>1. ToSet(Batch) \subseteq Files /\ script.known \subseteq Files
        BY <2>1, BatchElements, Elements DEF ModelImports
      <4> QED BY <1>4, <4>1
    <3>3. at \in Nat
      BY <2>1, ImportAssumption DEF ModelImports
    <3>4. step \in {"query", "write"}
      BY <1>9 DEF ExistRecords, At
    <3> HIDE DEF known, at, step
    <3> QED BY <3>1, <3>2, <3>3, <3>4
  <2>3. script' \in ModelImports
    BY <2>1, <2>2 DEF ModelImports
  <2> QED BY <2>3 DEF ScriptStates
<1>10. ASSUME WriteNewEtags PROVE Goal
  <2>1. script \in RepairsAsk
    BY <1>1, <1>10, Carries DEF WriteNewEtags
  <2>2. script.list \in Seq(Files)
    BY <2>1 DEF RepairsAsk
  <2>3. \A T : Only(script.list, T) \in Seq(Files)
    BY <2>2, OnlyThose
  <2>4. Etags(records) \cap Etags(script.list) \subseteq FileEtags
    BY <2>2, Elements DEF Etags, FileEtags
  <2>5. script' \in RepairsFind
    BY <1>10, <2>1, <2>3, <2>4 DEF WriteNewEtags, RepairsAsk, RepairsFind
  <2> QED BY <2>5 DEF ScriptStates
<1>11. ASSUME SelectRecords PROVE Goal
  <2>1. script \in RepairsFind
    BY <1>1, <1>11, Carries DEF SelectRecords
  <2>2. SetToSeq(RecordsOfEtags(script.known)) \in Seq(RecordIds)
    BY <1>1, IdsAsSequence DEF RecordsOfEtags
  <2>3. ASSUME script.known # {} PROVE script' \in RepairsFetch(RecordIds)
    <3> DEFINE list == SetToSeq(RecordsOfEtags(script.known))
    <3>1. script' = [script EXCEPT !.step = "offsets", !.known = {}, !.list = list]
      BY <1>11, <2>3 DEF SelectRecords
    <3>2. list \in Seq(RecordIds)
      BY <2>2
    <3>3. {} \in SUBSET NodeRows(RecordIds) /\ 0 \in Nat
      OBVIOUS
    <3> HIDE DEF list
    <3> QED BY <2>1, <3>1, <3>2, <3>3 DEF RepairsFind, RepairsFetch
  <2> QED BY <1>2, <1>11, <2>3 DEF SelectRecords, Exit, ScriptStates
<1>12. ASSUME RepairOffset PROVE Goal
  <2>1. script \in RepairsFetch(RecordIds)
    BY <1>1, <1>12, Carries DEF RepairOffset
  <2>2. script.at + 1 \in 1..Len(script.list) /\ script.list \in Seq(RecordIds)
    BY <1>12, <2>1 DEF RepairOffset, RepairsFetch
  <2>3. PICK w \in BOOLEAN :
          script' = [script EXCEPT !.at = @ + 1,
                       !.results = @ \cup {Process(script.list[script.at + 1], Node, w)}]
    BY <1>12 DEF RepairOffset, Offset
  <2>4. Process(script.list[script.at + 1], Node, w) \in NodeRows(RecordIds)
    BY <2>2, Offsets
  <2>5. script' \in RepairsFetch(RecordIds)
    <3>1. script.at + 1 \in Nat
      BY <2>1 DEF RepairsFetch
    <3> DEFINE p == Process(script.list[script.at + 1], Node, w)
               at == script.at + 1
    <3>2. /\ p \in NodeRows(RecordIds) /\ at \in Nat
          /\ script' = [script EXCEPT !.at = at, !.results = @ \cup {p}]
      BY <2>3, <2>4, <3>1
    <3> HIDE DEF p, at
    <3> QED BY <2>1, <3>2 DEF RepairsFetch
  <2> QED BY <2>5 DEF ScriptStates
<1>13. ASSUME QueryEtags PROVE Goal
  <2> DEFINE ids == script.known \cup RecordsOfEtags(ToSet(Batch))
  <2>1. script \in ImportsAsk(RecordIds)
    BY <1>1, <1>13, Carries DEF QueryEtags
  <2>2. ids \subseteq RecordIds
    BY <2>1 DEF ImportsAsk, RecordsOfEtags
  <2>3. SetToSeq(ids) \in Seq(RecordIds)
    <3> HIDE DEF ids
    <3> QED BY <1>1, <2>2, IdsAsSequence
  <2>4. CASE script' = NoScript
    BY <1>2, <2>4
  <2>5. CASE ~IsLast /\ script' = [script EXCEPT !.known = ids, !.at = @ + BatchSize]
    <3>1. script' \in ImportsAsk(RecordIds)
      <4> DEFINE at == script.at + BatchSize
      <4>1. at \in Nat /\ script' = [script EXCEPT !.known = ids, !.at = at]
        BY <2>1, <2>5, ImportAssumption DEF ImportsAsk
      <4> HIDE DEF ids, at
      <4> QED BY <2>1, <2>2, <4>1 DEF ImportsAsk
    <3> QED BY <3>1 DEF ScriptStates
  <2>6. CASE script' = [script EXCEPT !.known = {}, !.at = 0, !.list = SetToSeq(ids), !.step = "offsets"]
    <3>1. script' \in ImportsFetch(RecordIds)
      <4> HIDE DEF ids
      <4> QED BY <2>1, <2>3, <2>6 DEF ImportsAsk, ImportsFetch
    <3> QED BY <3>1 DEF ScriptStates
  <2> QED
    <3>1. \/ script' = NoScript
          \/ script' = [script EXCEPT !.known = IF IsLast THEN {} ELSE ids,
                                      !.at = IF IsLast THEN 0 ELSE @ + BatchSize,
                                      !.list = IF IsLast THEN SetToSeq(ids) ELSE @,
                                      !.step = IF IsLast THEN "offsets" ELSE @]
      BY <1>13 DEF QueryEtags, Exit
    <3>2. CASE IsLast
      <4> HIDE DEF ids
      <4> QED BY <2>4, <2>6, <3>1, <3>2
    <3>3. CASE ~IsLast
      <4>1. script \in [op : {"process_import"}, step : {"query"}, list : Seq(FileEtags), at : Nat,
                        seen : {{}}, known : SUBSET RecordIds, results : {{}}, rows : {<<>>}]
        BY <2>1 DEF ImportsAsk
      <4> HIDE DEF ids
      <4> QED BY <2>4, <2>5, <3>1, <3>3, <4>1
    <3> QED BY <3>2, <3>3
<1>14. ASSUME NEW k \in RecordIds, FetchOffset(k) PROVE Goal
  <2>1. script \in ImportsFetch(RecordIds)
    BY <1>1, <1>14, Carries DEF FetchOffset
  <2>2. PICK w \in BOOLEAN : script' = [script EXCEPT !.results = @ \cup {Process(k, Node, w)}]
    BY <1>14 DEF FetchOffset, Offset
  <2>3. script' \in ImportsFetch(RecordIds)
    BY <2>1, <2>2, Offsets DEF ImportsFetch
  <2> QED BY <2>3 DEF ScriptStates
<1>15. ASSUME OffsetsDone PROVE Goal
  <2>1. script \in ImportsFetch(RecordIds)
    BY <1>1, <1>15, Carries DEF OffsetsDone
  <2>2. script' \in ImportsFetch(RecordIds)
    BY <1>15, <2>1 DEF OffsetsDone, ImportsFetch
  <2> QED BY <2>2 DEF ScriptStates
<1>16. ASSUME ExistProcesses PROVE Goal
  <2>1. script \in ImportsFetch(RecordIds)
    BY <1>1, <1>16, Carries DEF ExistProcesses
  <2>2. ToSet(Batch) \subseteq RecordIds
    BY <2>1, BatchElements, Elements DEF ImportsFetch
  <2>3. PICK known \in SUBSET RecordIds, at \in Nat, step \in {"exists", "write"} :
          script' = [script EXCEPT !.known = known, !.at = at, !.step = step]
    <3> DEFINE known == script.known \cup (WithProcess(ToSet(Batch)))
               at == IF IsLast THEN 0 ELSE script.at + BatchSize
               step == IF IsLast THEN "write" ELSE script.step
    <3>1. script' = [script EXCEPT !.known = known, !.at = at, !.step = step]
      BY <1>16 DEF ExistProcesses, Query
    <3>2. known \in SUBSET RecordIds
      BY <1>16, <2>1, <2>2 DEF ImportsFetch, WithProcess
    <3>3. at \in Nat
      BY <2>1, ImportAssumption DEF ImportsFetch
    <3>4. step \in {"exists", "write"}
      BY <1>16 DEF ExistProcesses, At
    <3> HIDE DEF known, at, step
    <3> QED BY <3>1, <3>2, <3>3, <3>4
  <2>4. script' \in ImportsFetch(RecordIds)
    BY <2>1, <2>3 DEF ImportsFetch
  <2> QED BY <2>4 DEF ScriptStates
<1>17. script' = script \/ Goal
  <2> HIDE DEF Goal
  <2> QED BY <1>3, <1>5, <1>6, <1>7, <1>8, <1>9, <1>10, <1>11, <1>12, <1>13, <1>14, <1>15, <1>16,
             ScriptWriters
<1>18. ScriptStates(RecordIds) \subseteq ScriptStates(RecordIds')
  BY <1>1, ScriptStatesGrow DEF Grown
<1> QED BY <1>1, <1>17, <1>18, CsvStep DEF ScriptOK, Csvs

LEMMA StateInit == Init => StateOK
<1> SUFFICES ASSUME Init PROVE StateOK
  OBVIOUS
<1>1. RecordsOK /\ RowsOK
  BY CatalogueAssumption DEF Init, CatalogueInit, RecordsOK, RowsOK, RecordIds
<1>2. ScriptOK
  BY DEF Init, ScriptOK, ScriptStates, NoCsv
<1>3. PlacesOK
  BY DEF Init, CatalogueInit, PlacesOK, RegistrarStates
<1> QED BY <1>1, <1>2, <1>3 DEF StateOK

LEMMA StateStep ==
  ASSUME StateOK, [Next]_vars
  PROVE  StateOK' /\ Grown
BY RecordsStep, RowsStep, ScriptStep, PlacesStep DEF StateOK

LEMMA StateTyped == StateOK => TypeOK
<1> SUFFICES ASSUME StateOK PROVE TypeOK
  OBVIOUS
<1>1. registrar.step \in {"idle", "page", "person", "download", "insert", "save"}
  BY DEF StateOK, PlacesOK, RegistrarStates, Waiting
<1>2. (script = NoScript) <=> (script.step = "idle")
  BY Carries DEF StateOK, ScriptOK
<1> QED BY <1>1, <1>2 DEF StateOK, RecordsOK, RowsOK, NodeRows, PlacesOK, TypeOK

\* The fields of a script.
LEMMA Fields ==
  ASSUME NEW ids, script \in ScriptStates(ids)
  PROVE  script = [op |-> script.op, step |-> script.step, list |-> script.list, at |-> script.at,
                   seen |-> script.seen, known |-> script.known, results |-> script.results,
                   rows |-> script.rows]
<1> DEFINE Shape == script = [op |-> script.op, step |-> script.step, list |-> script.list,
                              at |-> script.at, seen |-> script.seen, known |-> script.known,
                              results |-> script.results, rows |-> script.rows]
<1>1. script = NoScript => Shape
  BY DEF NoScript
<1>2. script \in ModelImports => Shape
  BY DEF ModelImports
<1>3. script \in RepairsAsk \/ script \in RepairsFind => Shape
  BY DEF RepairsAsk, RepairsFind
<1>4. script \in RepairsFetch(ids) => Shape
  BY DEF RepairsFetch
<1>5. script \in ImportsAsk(ids) => Shape
  BY DEF ImportsAsk
<1>6. script \in ImportsFetch(ids) => Shape
  BY DEF ImportsFetch
<1>7. script \in AvatarImports => Shape
  BY DEF AvatarImports
<1> HIDE DEF Shape
<1>8. Shape
  BY <1>1, <1>2, <1>3, <1>4, <1>5, <1>6, <1>7 DEF ScriptStates
<1> QED BY <1>8 DEF Shape

\* A script starts, ends or goes on with its program; ExistRecords is all that model_import does
\* before it writes.
LEMMA ProgramGoesOn ==
  ASSUME StateOK, [Next]_vars
  PROVE  \/ script' = script \/ script' = NoScript
         \/ StartModelImport \/ StartRepair \/ StartProcessImport \/ StartAvatarImport
         \/ ExistRecords /\ script'.op = "model_import"
         \/ script'.op \in {"repair", "process_import"}
<1>1. script = [op |-> script.op, step |-> script.step, list |-> script.list, at |-> script.at,
                seen |-> script.seen, known |-> script.known, results |-> script.results,
                rows |-> script.rows]
  BY Fields DEF StateOK, ScriptOK
<1>2. ASSUME ScriptFails \/ WriteNewRecords \/ WriteRepairProcesses \/ WriteProcesses \/ InsertAvatar
      PROVE  script' = NoScript
  BY <1>2 DEF ScriptFails, WriteNewRecords, WriteRepairProcesses, WriteProcesses, InsertAvatar, Exit
<1>3. ExistRecords => script'.op = "model_import"
  BY <1>1 DEF ExistRecords, At, Query
<1>4. WriteNewEtags \/ RepairOffset \/ OffsetsDone \/ ExistProcesses
         \/ (\E k \in RecordIds : FetchOffset(k)) => script'.op \in {"repair", "process_import"}
  BY <1>1 DEF WriteNewEtags, RepairOffset, OffsetsDone, ExistProcesses, FetchOffset, At, Query
<1>5. SelectRecords => script' = NoScript \/ script'.op = "repair"
  <2> DEFINE list == SetToSeq(RecordsOfEtags(script.known))
  <2>1. SelectRecords => script.op = "repair" /\ (script' = NoScript
          \/ script' = [script EXCEPT !.step = "offsets", !.known = {}, !.list = list])
    BY DEF SelectRecords, At, Exit
  <2> HIDE DEF list
  <2>2. script' = [script EXCEPT !.step = "offsets", !.known = {}, !.list = list] => script'.op = script.op
    BY <1>1
  <2> QED BY <2>1, <2>2
<1>6. QueryEtags => script' = NoScript \/ script'.op = "process_import"
  <2> DEFINE ids == script.known \cup RecordsOfEtags(ToSet(Batch))
             known == IF IsLast THEN {} ELSE ids
             at == IF IsLast THEN 0 ELSE script.at + BatchSize
             list == IF IsLast THEN SetToSeq(ids) ELSE script.list
             step == IF IsLast THEN "offsets" ELSE script.step
  <2>1. QueryEtags => script.op = "process_import" /\ (script' = NoScript
          \/ script' = [script EXCEPT !.known = known, !.at = at, !.list = list, !.step = step])
    BY DEF QueryEtags, At, Exit
  <2> HIDE DEF known, at, list, step
  <2>2. script' = [script EXCEPT !.known = known, !.at = at, !.list = list, !.step = step]
          => script'.op = script.op
    BY <1>1
  <2> QED BY <2>1, <2>2
<1> QED BY <1>2, <1>3, <1>4, <1>5, <1>6, ScriptWriters
-----------------------------------------------------------------------------
(* Organizations *)

\* Who is about to insert the row has not inserted one.
LogoInv ==
  /\ LogoOncePerWriter
  /\ registrar.step \in {"page", "person", "download", "insert"} => logo["scheduler"] = 0
  /\ At("avatar_import", "insert") => logo["script"] = 0

LEMMA AvatarStarts ==
  ASSUME StateOK, [Next]_vars, At("avatar_import", "insert")'
  PROVE  script' = script \/ StartAvatarImport
<1>1. script'.op = "avatar_import"
  BY DEF At
<1>2. script' # NoScript
  BY <1>1 DEF NoScript
<1>3. ~(StartModelImport \/ StartRepair \/ StartProcessImport)
  BY <1>1 DEF StartModelImport, StartRepair, StartProcessImport, Run, NoScript
<1> QED BY <1>1, <1>2, <1>3, ProgramGoesOn

LEMMA LogoStepInv ==
  ASSUME StateOK, LogoInv, [Next]_vars
  PROVE  LogoInv'
<1>1. /\ logo \in [Writers -> Nat] /\ logo["scheduler"] <= 1 /\ logo["script"] <= 1
      /\ registrar \in RegistrarStates
  BY DEF StateOK, PlacesOK, LogoInv, LogoOncePerWriter, Writers
<1>2. KnownLogo \/ (logo["scheduler"] = 0 /\ logo["script"] = 0)
  BY <1>1 DEF KnownLogo, Writers
<1>0. At("avatar_import", "insert")' => logo["script"] = 0
  BY <1>2, AvatarStarts DEF LogoInv, At, StartAvatarImport
<1>3. CASE InsertLogo
  <2>1. registrar.step = "insert" /\ registrar'.step = "save"
    <3>1. registrar \in [step : {"page", "person", "download", "insert", "save"},
                         instance : Persisted, repo : Repositories, columns : SUBSET Optional]
      BY <1>1, <1>3, RegistrarKind DEF InsertLogo, LogoStep
    <3> QED BY <1>3, <3>1 DEF InsertLogo, LogoStep
  <2> QED
    BY <1>0, <1>1, <1>3, <2>1 DEF InsertLogo, SaveLogo, LogoInv, LogoOncePerWriter, Writers
<1>4. CASE InsertAvatar
  <2>1. UNCHANGED registrar /\ ~At("avatar_import", "insert")'
    BY <1>4 DEF InsertAvatar, Exit, At, NoScript
  <2> QED
    BY <1>1, <1>4, <2>1 DEF InsertAvatar, SaveLogo, LogoInv, LogoOncePerWriter, Writers, At
<1>5. CASE logo' = logo
  <2>1. ASSUME registrar'.step \in {"page", "person", "download", "insert"}
        PROVE  logo["scheduler"] = 0
    <3>1. ASSUME NEW i \in Persisted, NEW r \in Repositories, PersistRepo(i, r)
          PROVE  logo["scheduler"] = 0
      BY <1>2, <2>1, <3>1 DEF PersistRepo
    <3>2. ASSUME registrar.step \in {"page", "person", "download", "insert"}
          PROVE  logo["scheduler"] = 0
      BY <3>2 DEF LogoInv
    <3>3. ASSUME RegistrarStep PROVE registrar.step \in {"page", "person", "download", "insert"}
      <4>1. ASSUME registrar.step = "save" PROVE registrar'.step \in {"save", "idle"}
        <5>1. registrar \in [step : {"page", "person", "download", "insert", "save"},
                             instance : Persisted, repo : Repositories, columns : SUBSET Optional]
          BY <1>1, <4>1, RegistrarKind
        <5> QED BY <3>3, <4>1, <5>1 DEF RegistrarStep, FetchAvatarURL, FetchPersonAvatarURL,
               DownloadAvatar, InsertLogo, LogoStep, SaveWithout, Save, Waiting
      <4> QED BY <2>1, <3>3, <4>1 DEF RegistrarStep, FetchAvatarURL, FetchPersonAvatarURL,
               DownloadAvatar, InsertLogo, LogoStep, SaveWithout, Save
    <3>4. ASSUME NEW i \in Instances, NEW f \in Files, DeleteByEtagsAndFields(i, f)
          PROVE  registrar' = registrar
      BY <3>4 DEF DeleteByEtagsAndFields
    <3> QED BY <2>1, <3>1, <3>2, <3>3, <3>4, PlaceWriters
  <2> QED BY <1>0, <1>5, <2>1 DEF LogoInv, LogoOncePerWriter
<1> QED BY <1>3, <1>4, <1>5, PlaceWriters

-----------------------------------------------------------------------------
(* Contents *)

\* Rows that say a whole file do so of one the node had.
Honest(ps) == \A p \in ps : p.whole => ContentOf(records[p.record]) \in held[p.instance]

SnapshotHeld(i, r) ==
  \A s \in Snapshot[r] :
     s.empty \/ [repo |-> r, etag |-> IF s.lfs = NoLfs THEN s.oid ELSE s.lfs] \in held[i]

\* So do the rows that a script has still to write, and what the registrar verified stays true.
HeldInv ==
  /\ Honest(processes) /\ Honest(csvProcesses) /\ Honest(script.results)
  /\ registrar.step # "idle" => SnapshotHeld(registrar.instance, registrar.repo)
  /\ VerifiedWasHeld

\* What a node had it once had for ever.
LEMMA HeldGrows ==
  ASSUME StateOK, [Next]_vars
  PROVE  \A i \in Instances : held[i] \subseteq held'[i]
BY PlaceWriters DEF StateOK, PlacesOK, Fetch

LEMMA StaysHonest ==
  ASSUME StateOK, [Next]_vars, NEW ps,
         ps \subseteq [record : RecordIds, instance : Instances, whole : BOOLEAN], Honest(ps)
  PROVE  \A p \in ps : p.whole => ContentOf(records'[p.record]) \in held'[p.instance]
<1> TAKE p \in ps
<1> HAVE p.whole
<1>1. /\ p.record \in RecordIds /\ p.instance \in Instances
      /\ ContentOf(records[p.record]) \in held[p.instance]
  BY DEF Honest
<1>2. records'[p.record] = records[p.record]
  BY <1>1, StateStep DEF Grown
<1> QED BY <1>1, <1>2, HeldGrows

LEMMA NodeRowsAre ==
  NodeRows(RecordIds) \subseteq [record : RecordIds, instance : Instances, whole : BOOLEAN]
BY ImportAssumption DEF NodeRows

\* A script adds one result at a time, for the offset it has just had.
LEMMA ScriptResults ==
  ASSUME StateOK, [Next]_vars
  PROVE  \/ script'.results \subseteq script.results
         \/ /\ UNCHANGED tables
            /\ \E error \in BOOLEAN : \E k :
                  script'.results = script.results \cup {Process(k, Node, Offset(k, error))}
<1> DEFINE Same == script'.results \subseteq script.results
           More == /\ UNCHANGED tables
                   /\ \E error \in BOOLEAN : \E k :
                        script'.results = script.results \cup {Process(k, Node, Offset(k, error))}
<1>1. script = [op |-> script.op, step |-> script.step, list |-> script.list, at |-> script.at,
                seen |-> script.seen, known |-> script.known, results |-> script.results,
                rows |-> script.rows]
  BY Fields DEF StateOK, ScriptOK
<1>2. ASSUME script' = NoScript PROVE Same
  BY <1>2 DEF NoScript
<1>3. ASSUME ScriptFails \/ WriteNewRecords \/ WriteRepairProcesses \/ WriteProcesses \/ InsertAvatar
      PROVE  Same
  BY <1>2, <1>3, Zenon DEF ScriptFails, WriteNewRecords, WriteRepairProcesses, WriteProcesses,
     InsertAvatar, Exit
<1>4. ASSUME StartModelImport \/ StartRepair \/ StartProcessImport \/ StartAvatarImport PROVE Same
  BY <1>4 DEF StartModelImport, StartRepair, StartProcessImport, StartAvatarImport, Run, NoScript
<1>5. ASSUME ExistRecords \/ OffsetsDone \/ ExistProcesses PROVE Same
  BY <1>1, <1>5 DEF ExistRecords, OffsetsDone, ExistProcesses, Query
<1>6. ASSUME WriteNewEtags PROVE Same
  <2>1. \E known, rows : script' = [script EXCEPT !.step = "ids", !.known = known, !.rows = rows]
    BY <1>6 DEF WriteNewEtags
  <2> QED BY <1>1, <2>1
<1>7. ASSUME SelectRecords PROVE Same
  <2> DEFINE list == SetToSeq(RecordsOfEtags(script.known))
  <2>1. script' = NoScript
          \/ script' = [script EXCEPT !.step = "offsets", !.known = {}, !.list = list]
    BY <1>7 DEF SelectRecords, Exit
  <2> HIDE DEF list
  <2>2. script' = [script EXCEPT !.step = "offsets", !.known = {}, !.list = list] => Same
    BY <1>1
  <2> QED BY <1>2, <2>1, <2>2
<1>8. ASSUME QueryEtags PROVE Same
  <2> DEFINE ids == script.known \cup RecordsOfEtags(ToSet(Batch))
             known == IF IsLast THEN {} ELSE ids
             at == IF IsLast THEN 0 ELSE script.at + BatchSize
             list == IF IsLast THEN SetToSeq(ids) ELSE script.list
             step == IF IsLast THEN "offsets" ELSE script.step
  <2>1. script' = NoScript
          \/ script' = [script EXCEPT !.known = known, !.at = at, !.list = list, !.step = step]
    BY <1>8 DEF QueryEtags, Exit
  <2> HIDE DEF known, at, list, step
  <2>2. script' = [script EXCEPT !.known = known, !.at = at, !.list = list, !.step = step] => Same
    BY <1>1
  <2> QED BY <1>2, <2>1, <2>2
<1>9. ASSUME RepairOffset PROVE More
  <2>1. PICK error \in BOOLEAN :
          LET k == script.list[script.at + 1]
          IN  script' = [script EXCEPT !.at = @ + 1,
                                       !.results = @ \cup {Process(k, Node, Offset(k, error))}]
    BY <1>9 DEF RepairOffset
  <2> DEFINE k == script.list[script.at + 1]
             at == script.at + 1
             p == Process(k, Node, Offset(k, error))
  <2>2. script' = [script EXCEPT !.at = at, !.results = @ \cup {p}]
    BY <2>1
  <2> HIDE DEF at, p
  <2>3. script'.results = script.results \cup {p}
    BY <1>1, <2>2
  <2>4. UNCHANGED tables
    BY <1>9 DEF RepairOffset, catalogue, tables
  <2>5. \E e \in BOOLEAN : \E j : script'.results = script.results \cup {Process(j, Node, Offset(j, e))}
    BY <2>1, <2>3, Zenon DEF p
  <2> QED BY <2>4, <2>5
<1>10. ASSUME NEW k \in RecordIds, FetchOffset(k) PROVE More
  <2>1. PICK error \in BOOLEAN :
          script' = [script EXCEPT !.results = @ \cup {Process(k, Node, Offset(k, error))}]
    BY <1>10 DEF FetchOffset
  <2> DEFINE p == Process(k, Node, Offset(k, error))
  <2>2. script' = [script EXCEPT !.results = @ \cup {p}]
    BY <2>1
  <2> HIDE DEF p
  <2>3. script'.results = script.results \cup {p}
    BY <1>1, <2>2
  <2>4. UNCHANGED tables
    BY <1>10 DEF FetchOffset, catalogue, tables
  <2>5. \E e \in BOOLEAN : \E j : script'.results = script.results \cup {Process(j, Node, Offset(j, e))}
    BY <2>1, <2>3, Zenon DEF p
  <2> QED BY <2>4, <2>5
<1>11. ASSUME script' = script PROVE Same
  BY <1>11
<1> HIDE DEF Same, More
<1>12. Same \/ More
  BY <1>3, <1>4, <1>5, <1>6, <1>7, <1>8, <1>9, <1>10, <1>11, ScriptWriters
<1> QED BY <1>12 DEF Same, More

\* A row that says less than the whole file is honest in any case.
LEMMA HonestRows ==
  ASSUME StateOK, HeldInv, [Next]_vars
  PROVE  Honest(processes)' /\ Honest(csvProcesses)' /\ Honest(script.results)'
<1> DEFINE Row(ids) == [record : ids, instance : Instances, whole : BOOLEAN]
           Good(p) == p.whole => ContentOf(records'[p.record]) \in held'[p.instance]
<1>1. /\ processes \subseteq Row(RecordIds) /\ csvProcesses \subseteq Row(RecordIds)
      /\ script.results \subseteq Row(RecordIds)
  BY Carries, NodeRowsAre DEF StateOK, RowsOK, ScriptOK
<1>2. Honest(processes) /\ Honest(csvProcesses) /\ Honest(script.results)
  BY DEF HeldInv
<1>3. \A p \in processes \cup csvProcesses \cup script.results : Good(p)
  <2>1. \A p \in processes : Good(p)
    BY <1>1, <1>2, StaysHonest
  <2>2. \A p \in csvProcesses : Good(p)
    BY <1>1, <1>2, StaysHonest
  <2>3. \A p \in script.results : Good(p)
    <3> DEFINE ps == script.results
    <3>1. ps \subseteq Row(RecordIds) /\ Honest(ps)
      BY <1>1, <1>2
    <3> HIDE DEF ps
    <3>2. \A p \in ps : Good(p)
      BY <3>1, StaysHonest
    <3> QED BY <3>2 DEF ps
  <2> QED BY <2>1, <2>2, <2>3
<1>4. \A k, i : Good(Process(k, i, FALSE))
  BY DEF Process
<1>5. ASSUME NEW p \in processes'
      PROVE  Good(p)
  <2>1. ASSUME NEW i \in Instances, NEW f \in Files, Transfer(i, f) PROVE Good(p)
    <3>1. \E k : processes' = processes \cup {Process(k, i, FALSE)}
      BY <2>1 DEF Transfer
    <3>2. PICK k : processes' = processes \cup {Process(k, i, FALSE)}
      BY <3>1
    <3>3. p \in processes \/ p = Process(k, i, FALSE)
      BY <1>5, <3>2
    <3> QED BY <1>3, <1>4, <3>3
  <2>2. ASSUME NEW q \in processes, ReportWhole(q) PROVE Good(p)
    <3>1. processes' = (processes \ {q}) \cup {[q EXCEPT !.whole = TRUE]}
      BY <2>2 DEF ReportWhole
    <3>2. Good([q EXCEPT !.whole = TRUE])
      <4>1. /\ [q EXCEPT !.whole = TRUE].record = q.record
            /\ [q EXCEPT !.whole = TRUE].instance = q.instance
            /\ q.record \in RecordIds /\ q.instance \in Instances
        BY <1>1
      <4>2. ContentOf(records[q.record]) \in held[q.instance]
        BY <2>2 DEF ReportWhole
      <4>3. records'[q.record] = records[q.record] /\ held[q.instance] \subseteq held'[q.instance]
        BY <4>1, StateStep, HeldGrows DEF Grown
      <4> QED BY <4>1, <4>2, <4>3
    <3> HIDE DEF Good
    <3> QED BY <1>3, <1>5, <3>1, <3>2
  <2>3. ASSUME NEW i \in Instances, NEW f \in Files, DeleteByEtagsAndFields(i, f) PROVE Good(p)
    <3>1. p \in processes
      BY <1>5, <2>3 DEF DeleteByEtagsAndFields
    <3> QED BY <1>3, <3>1
  <2>4. ASSUME LoadProcesses PROVE Good(p)
    <3>1. p \in processes \cup csvProcesses
      BY <1>5, <2>4 DEF LoadProcesses
    <3> QED BY <1>3, <3>1
  <2>5. ASSUME processes' = processes PROVE Good(p)
    BY <1>3, <1>5, <2>5
  <2> HIDE DEF Good
  <2> QED BY <2>1, <2>2, <2>3, <2>4, <2>5, ProcessWriters
<1>6. ASSUME NEW p \in csvProcesses' PROVE Good(p)
  <2>1. csvProcesses' \subseteq csvProcesses \cup script.results
    BY CsvProcessWriters DEF WriteRepairProcesses, WriteProcesses, LoadProcesses
  <2> HIDE DEF Good
  <2> QED BY <1>3, <1>6, <2>1
<1>7. ASSUME NEW p \in script'.results PROVE Good(p)
  <2>1. ASSUME NEW k, NEW error \in BOOLEAN, UNCHANGED tables
        PROVE  Good(Process(k, Node, Offset(k, error)))
    BY <2>1 DEF Process, Offset, tables
  <2>2. \/ script'.results \subseteq script.results
        \/ /\ UNCHANGED tables
           /\ \E error \in BOOLEAN : \E k :
                 script'.results = script.results \cup {Process(k, Node, Offset(k, error))}
    BY ScriptResults
  <2> HIDE DEF Good
  <2>3. CASE script'.results \subseteq script.results
    BY <1>3, <1>7, <2>3
  <2>4. CASE /\ UNCHANGED tables
             /\ \E error \in BOOLEAN : \E k :
                   script'.results = script.results \cup {Process(k, Node, Offset(k, error))}
    <3>0. PICK error \in BOOLEAN :
            \E k : script'.results = script.results \cup {Process(k, Node, Offset(k, error))}
      BY <2>4, Zenon
    <3>1. PICK k : script'.results = script.results \cup {Process(k, Node, Offset(k, error))}
      BY <3>0
    <3>2. Good(Process(k, Node, Offset(k, error)))
      BY <2>1, <2>4
    <3> QED BY <1>3, <1>7, <3>1, <3>2
  <2> QED BY <2>2, <2>3, <2>4
<1> QED BY <1>5, <1>6, <1>7 DEF Honest

\* What verification found cached was held: the row of a pointer would be of no content, and one
\* that was cut is of no size.
LEMMA CachedWasHeld ==
  ASSUME StateOK, HeldInv, NEW i \in Persisted, NEW r \in Repositories, VerifyRepoComplete(i, r)
  PROVE  SnapshotHeld(i, r)
<1> SUFFICES ASSUME NEW s \in Snapshot[r], ~s.empty
             PROVE  [repo |-> r, etag |-> IF s.lfs = NoLfs THEN s.oid ELSE s.lfs] \in held[i]
  BY DEF SnapshotHeld
<1>1. PICK f \in Identities(r, s) : f \in Cached(i)
  BY DEF VerifyRepoComplete
<1>2. PICK p \in processes :
        p.instance = i /\ (p.whole \/ records[p.record] \notin Files) /\ f = records[p.record]
  BY <1>1 DEF Cached, ProcessesOf
<1>3. p.record \in RecordIds /\ f \in Rows
  BY <1>2 DEF StateOK, RowsOK, RecordsOK, RecordIds
<1>4. f = File(r, s, s.oid) \/ (s.lfs # NoLfs /\ f = File(r, s, s.lfs))
  BY <1>1 DEF Identities
<1>5. f \in Files /\ ContentOf(f) \in held[i]
  <2>1. ASSUME NEW g, f \in CutRows(g) PROVE FALSE
    <3>1. "size" \in DOMAIN f
      BY <2>1 DEF CutRows, CutRow
    <3>2. "size" \notin DOMAIN f
      BY <1>4 DEF File
    <3> QED BY <3>1, <3>2
  <2>2. f \in Files
    BY <1>3, <2>1 DEF Rows
  <2> QED BY <1>2, <2>2 DEF HeldInv, Honest
<1>6. s.lfs # NoLfs => f # File(r, s, s.oid)
  BY <1>5, ContentAssumption DEF File, Repositories
<1>7. CASE s.lfs = NoLfs
  BY <1>4, <1>5, <1>7 DEF File, ContentOf
<1>8. CASE s.lfs # NoLfs
  BY <1>4, <1>5, <1>6, <1>8 DEF File, ContentOf
<1> QED BY <1>7, <1>8

LEMMA HeldStep ==
  ASSUME StateOK, HeldInv, [Next]_vars
  PROVE  HeldInv'
<1> DEFINE Had(i, r) ==
             \A s \in Snapshot[r] :
               s.empty \/ [repo |-> r, etag |-> IF s.lfs = NoLfs THEN s.oid ELSE s.lfs] \in held'[i]
           Runs == [step : {"page", "person", "download", "insert", "save"},
                    instance : Persisted, repo : Repositories, columns : SUBSET Optional]
           Verifying == registrar'.step # "idle" => Had(registrar'.instance, registrar'.repo)
           Verified == \A i \in Persisted, r \in Repositories : repository'[<<i, r>>] => Had(i, r)
<1>1. ASSUME NEW i \in Persisted, NEW r \in Repositories, SnapshotHeld(i, r)
      PROVE  Had(i, r)
  <2>1. held[i] \subseteq held'[i]
    BY HeldGrows, CatalogueAssumption
  <2> QED BY <1>1, <2>1 DEF SnapshotHeld
<1>2. registrar \in RegistrarStates /\ repository \in [Places -> BOOLEAN]
  BY DEF StateOK, PlacesOK
<1>3. \A i \in Persisted, r \in Repositories : repository[<<i, r>>] => Had(i, r)
  <2>1. \A i \in Persisted, r \in Repositories : repository[<<i, r>>] => SnapshotHeld(i, r)
    BY DEF HeldInv, VerifiedWasHeld, SnapshotHeld
  <2> HIDE DEF Had
  <2> QED BY <1>1, <2>1
<1>4. ASSUME registrar.step # "idle"
      PROVE  registrar \in Runs /\ Had(registrar.instance, registrar.repo)
  <2>1. registrar \in Runs
    BY <1>2, <1>4, RegistrarKind
  <2>2. SnapshotHeld(registrar.instance, registrar.repo)
    BY <1>4 DEF HeldInv
  <2>3. registrar.instance \in Persisted /\ registrar.repo \in Repositories
    BY <2>1
  <2>4. held[registrar.instance] \subseteq held'[registrar.instance]
    BY <2>3, HeldGrows, CatalogueAssumption
  <2> QED BY <2>1, <2>2, <2>4 DEF SnapshotHeld
<1>5. ASSUME UNCHANGED <<repository, registrar>> PROVE Verifying /\ Verified
  BY <1>3, <1>4, <1>5
<1>6. ASSUME NEW i \in Instances, NEW f \in Files, DeleteByEtagsAndFields(i, f)
      PROVE  Verifying /\ Verified
  <2>1. registrar' = registrar
    BY <1>6 DEF DeleteByEtagsAndFields
  <2>2. \A j \in Persisted, r \in Repositories : repository'[<<j, r>>] => repository[<<j, r>>]
    BY <1>6 DEF DeleteByEtagsAndFields, Places
  <2> QED BY <1>3, <1>4, <2>1, <2>2
<1>7. ASSUME NEW i \in Persisted, NEW r \in Repositories, PersistRepo(i, r)
      PROVE  Verifying /\ Verified
  <2>1. Had(i, r)
    BY <1>1, <1>7, CachedWasHeld DEF PersistRepo
  <2>2. registrar'.instance = i /\ registrar'.repo = r /\ repository' = repository
    BY <1>7 DEF PersistRepo
  <2> QED BY <1>3, <2>1, <2>2
<1>8. ASSUME RegistrarStep PROVE Verifying /\ Verified
  <2>1. registrar.step # "idle"
    BY <1>8 DEF RegistrarStep, FetchAvatarURL, FetchPersonAvatarURL, DownloadAvatar, InsertLogo,
       LogoStep, SaveWithout, Save
  <2>2. registrar \in Runs /\ Had(registrar.instance, registrar.repo)
    BY <1>4, <2>1
  <2>3. CASE Save
    <3>1. Verifying
      BY <2>3 DEF Save, Waiting
    <3>2. repository' = repository
            \/ repository' = [repository EXCEPT ![<<registrar.instance, registrar.repo>>] = TRUE]
      BY <2>3 DEF Save
    <3>3. ASSUME NEW i \in Persisted, NEW r \in Repositories, repository'[<<i, r>>]
          PROVE  Had(i, r)
      <4>1. repository[<<i, r>>] \/ (i = registrar.instance /\ r = registrar.repo)
        BY <1>2, <3>2, <3>3 DEF Places
      <4> QED BY <1>3, <2>2, <4>1
    <3> QED BY <3>1, <3>3
  <2>4. ASSUME SaveWithout \/ \E from, to : LogoStep(from, to) PROVE Verifying /\ Verified
    <3>1. /\ registrar'.instance = registrar.instance /\ registrar'.repo = registrar.repo
          /\ repository' = repository
      BY <2>2, <2>4 DEF SaveWithout, LogoStep
    <3> QED BY <1>3, <2>2, <3>1
  <2>5. Save \/ SaveWithout \/ \E from, to : LogoStep(from, to)
    BY <1>8 DEF RegistrarStep, FetchAvatarURL, FetchPersonAvatarURL, DownloadAvatar, InsertLogo
  <2> QED BY <2>3, <2>4, <2>5
<1>9. Verifying /\ Verified
  <2> HIDE DEF Verifying, Verified
  <2> QED BY <1>5, <1>6, <1>7, <1>8, PlaceWriters
<1>10. VerifiedWasHeld'
  BY <1>9 DEF VerifiedWasHeld, Repositories
<1>11. (registrar.step # "idle" => SnapshotHeld(registrar.instance, registrar.repo))'
  BY <1>9 DEF SnapshotHeld
<1> QED BY <1>10, <1>11, HonestRows DEF HeldInv
-----------------------------------------------------------------------------
(* What model_import knows *)

\* There is a record of the file as far as the script can tell files apart.
Recorded(f, fs) == \E g \in fs : ImportKey(g) = ImportKey(f)

\* What it knows has a record; the files with a record when it began are known as far as it has
\* asked.
ImportInv ==
  /\ \A f \in covered : Recorded(f, ToSet(records))
  /\ \A f \in csv.found : Recorded(f, ToSet(records) \cup ToSet(csv.rows))
  /\ script.op = "model_import" =>
       /\ script.known \subseteq WithRecord(Files) /\ script.seen \subseteq WithRecord(Files)
       /\ script.step = "query" =>
            \A j \in 1..Len(script.list) :
              j <= script.at /\ script.list[j] \in script.seen => script.list[j] \in script.known
       /\ script.step = "write" => script.seen \cap ToSet(script.list) \subseteq script.known

\* The files that it writes, by the keys of what it knows.
Unknown ==
  {f \in ToSet(script.list) : \A g \in script.known : ImportKey(f) # ImportKey(g)}

LEMMA NewRows ==
  ASSUME StateOK, WriteNewRecords
  PROVE  \E rows \in Seq(Files) :
            /\ ToSet(rows) = Unknown
            /\ csv' = IF rows = <<>> THEN csv ELSE [rows |-> rows, found |-> ToSet(script.list)]
            /\ covered' = IF rows = <<>> THEN covered \cup ToSet(script.list) ELSE covered
<1> DEFINE keys == {ImportKey(f) : f \in script.known}
           S == {f \in ToSet(script.list) : ImportKey(f) \notin keys}
           rows == Only(script.list, S)
<1>1. script.list \in Seq(Files)
  BY Carries DEF StateOK, ScriptOK, WriteNewRecords, ModelImports
<1>2. rows \in Seq(Files) /\ ToSet(rows) = ToSet(script.list) \cap S
  <2> DEFINE list == script.list
  <2>1. list \in Seq(Files)
    BY <1>1
  <2> HIDE DEF list, S
  <2>2. Only(list, S) \in Seq(Files) /\ ToSet(Only(list, S)) = ToSet(list) \cap S
    BY <2>1, OnlyThose
  <2> QED BY <2>2 DEF list
<1>3. ToSet(script.list) \cap S = Unknown
  BY DEF Unknown
<1>4. /\ csv' = IF rows = <<>> THEN csv ELSE [rows |-> rows, found |-> ToSet(script.list)]
      /\ covered' = IF rows = <<>> THEN covered \cup ToSet(script.list) ELSE covered
  BY DEF WriteNewRecords, WriteCsv
<1> HIDE DEF rows, S
<1> QED BY <1>2, <1>3, <1>4, Zenon

\* A record stays, and is one of the file by its key as well.
LEMMA KnownRecords ==
  ASSUME StateOK, [Next]_vars
  PROVE  /\ WithRecord(Files) \subseteq WithRecord(Files)'
         /\ \A f \in WithRecord(Files) : Recorded(f, ToSet(records)) /\ Recorded(f, ToSet(records)')
<1> SUFFICES ASSUME NEW f \in WithRecord(Files)
             PROVE  /\ f \in WithRecord(Files)'
                    /\ Recorded(f, ToSet(records)) /\ Recorded(f, ToSet(records)')
  OBVIOUS
<1>1. PICK k \in RecordIds : SameFile(records[k], f)
  BY DEF WithRecord, IdsOf
<1>2. k \in RecordIds' /\ records'[k] = records[k] /\ ToSet(records) \subseteq ToSet(records)'
  BY <1>1, StateStep DEF Grown
<1>3. f \in WithRecord(Files)'
  BY <1>1, <1>2 DEF WithRecord, IdsOf
<1>4. records[k] \in ToSet(records)
  BY <1>1 DEF ToSet, RecordIds
<1>5. ImportKey(records[k]) = ImportKey(f)
  BY <1>1 DEF SameFile, ImportKey, Dashed
<1> QED BY <1>2, <1>3, <1>4, <1>5 DEF Recorded

LEMMA ImportStep ==
  ASSUME StateOK, ImportInv, [Next]_vars
  PROVE  ImportInv'
<1> DEFINE R == ToSet(records)
           RR == ToSet(records)'
           C == ToSet(csv.rows)
           CC == ToSet(csv.rows)'
           Goal == /\ \A f \in covered' : Recorded(f, RR)
                   /\ \A f \in csv'.found : Recorded(f, RR \cup CC)
<1>1. RecordsOK /\ RecordsOK' /\ R \subseteq RR /\ csv \in Csvs
  BY StateStep DEF StateOK, Grown, ScriptOK, Csvs
<1>2. ASSUME NEW f, NEW fs, NEW more, Recorded(f, fs), fs \subseteq more PROVE Recorded(f, more)
  BY <1>2 DEF Recorded
<1>3. /\ \A f \in covered : Recorded(f, RR)
      /\ \A f \in csv.found : Recorded(f, RR \cup C)
  <2>1. R \subseteq RR /\ R \cup C \subseteq RR \cup C
    BY <1>1
  <2>2. /\ \A f \in covered : Recorded(f, R)
        /\ \A f \in csv.found : Recorded(f, R \cup C)
    BY DEF ImportInv
  <2> HIDE DEF R, RR, C
  <2> QED BY <1>2, <2>1, <2>2
<1>4. ASSUME csv' = csv, covered' = covered PROVE Goal
  BY <1>3, <1>4
<1>5. ASSUME csv'.found = {}, covered' = covered PROVE Goal
  BY <1>3, <1>5
<1>6. ASSUME LoadRecords PROVE Goal
  <2>1. RR = R \cup C
    <3>1. csv.rows \in Seq(Rows) /\ records \in Seq(Rows)
      BY <1>1 DEF Csvs, RecordsOK
    <3>2. ToSet(records \o csv.rows) = ToSet(records) \cup ToSet(csv.rows)
      <4> DEFINE t == csv.rows
      <4>1. t \in Seq(Rows)
        BY <3>1
      <4> HIDE DEF t
      <4>2. ToSet(records \o t) = ToSet(records) \cup ToSet(t)
        BY <3>1, <4>1, ElementsOfBoth
      <4> QED BY <4>2 DEF t
    <3>3. records' = records \o csv.rows
      BY <1>6 DEF LoadRecords
    <3> QED BY <3>2, <3>3
  <2>2. covered' = covered \cup csv.found /\ csv'.found = {}
    BY <1>6 DEF LoadRecords, NoCsv
  <2>3. RR \cup C = RR
    BY <2>1
  <2> HIDE DEF R, RR, C, CC
  <2> QED BY <1>3, <2>2, <2>3
<1>7. ASSUME WriteNewRecords PROVE Goal
  <2>1. PICK rows \in Seq(Files) :
            /\ ToSet(rows) = Unknown
            /\ csv' = IF rows = <<>> THEN csv ELSE [rows |-> rows, found |-> ToSet(script.list)]
            /\ covered' = IF rows = <<>> THEN covered \cup ToSet(script.list) ELSE covered
    BY <1>7, NewRows
  <2>2. \A g \in script.known : Recorded(g, RR)
    BY <1>7, KnownRecords DEF WriteNewRecords, At, ImportInv
  <2>3. ASSUME NEW f \in ToSet(script.list) PROVE Recorded(f, RR \cup ToSet(rows))
    <3>1. CASE \A g \in script.known : ImportKey(f) # ImportKey(g)
      <4>1. f \in ToSet(rows)
        BY <2>1, <2>3, <3>1 DEF Unknown
      <4> QED BY <4>1 DEF Recorded
    <3>2. CASE \E g \in script.known : ImportKey(f) = ImportKey(g)
      BY <2>2, <3>2 DEF Recorded
    <3> QED BY <3>1, <3>2
  <2>4. CASE rows = <<>>
    <3>1. ToSet(rows) = {}
      BY <2>4 DEF ToSet
    <3>2. csv' = csv /\ covered' = covered \cup ToSet(script.list)
      BY <2>1, <2>4
    <3>3. \A f \in ToSet(script.list) : Recorded(f, RR)
      BY <2>3, <3>1
    <3>4. CC = C
      BY <3>2
    <3> HIDE DEF R, RR, C, CC
    <3> QED BY <1>3, <3>2, <3>3, <3>4
  <2>5. CASE rows # <<>>
    <3>1. csv'.rows = rows /\ csv'.found = ToSet(script.list) /\ covered' = covered
      BY <2>1, <2>5
    <3>2. CC = ToSet(rows)
      BY <3>1
    <3> HIDE DEF R, RR, C, CC
    <3> QED BY <1>3, <2>3, <3>1, <3>2
  <2> QED BY <2>4, <2>5
<1>8. ASSUME ScriptFails \/ WriteNewEtags \/ SelectRecords \/ WriteRepairProcesses
      PROVE  covered' = covered /\ (csv' = csv \/ csv'.found = {})
  BY <1>8 DEF ScriptFails, WriteNewEtags, SelectRecords, WriteRepairProcesses, FlushRows, NoCsv
<1>9. covered' = covered \/ LoadRecords \/ WriteNewRecords
  BY Zenon DEF Next, vars, scripts, ScriptNext, ScriptFails, StartModelImport, ExistRecords,
     StartRepair, WriteNewEtags, SelectRecords, RepairOffset, WriteRepairProcesses,
     StartProcessImport, QueryEtags, OffsetsDone, ExistProcesses, WriteProcesses, FetchOffset,
     StartAvatarImport, InsertAvatar, LoadProcesses
<1>10. Goal
  <2> HIDE DEF Goal
  <2> QED BY <1>4, <1>5, <1>6, <1>7, <1>8, <1>9, CsvWriters
<1> HIDE DEF Goal
<1> DEFINE Part == script'.op = "model_import" =>
       /\ script'.known \subseteq WithRecord(Files)' /\ script'.seen \subseteq WithRecord(Files)'
       /\ script'.step = "query" =>
            \A j \in 1..Len(script'.list) :
              j <= script'.at /\ script'.list[j] \in script'.seen => script'.list[j] \in script'.known
       /\ script'.step = "write" => script'.seen \cap ToSet(script'.list) \subseteq script'.known
<1>11. ASSUME script' = script PROVE Part
  BY <1>11, KnownRecords DEF ImportInv
<1>12. ASSUME StartModelImport PROVE Part
  <2>1. /\ script'.known = {} /\ script'.seen = WithRecord(Files)
        /\ script'.step = "query" /\ script'.at = 0
    BY <1>12 DEF StartModelImport, Run, NoScript
  <2>2. \A j \in 1..Len(script'.list) : ~(j <= 0)
    BY <1>12, Walks DEF StartModelImport, Run, NoScript
  <2> QED BY <2>1, <2>2, KnownRecords
<1>13. ASSUME ExistRecords PROVE Part
  <2>1. script \in ModelImports
    BY <1>13, Carries DEF ExistRecords, StateOK, ScriptOK
  <2>2. /\ script.list \in Seq(Files) /\ script.at \in Nat /\ Len(script.list) \in Nat
        /\ BatchSize \in Nat /\ script.op = "model_import" /\ script.step = "query"
    BY <2>1, ImportAssumption, <1>13 DEF ModelImports, ExistRecords, At
  <2>3. /\ script.known \subseteq WithRecord(Files) /\ script.seen \subseteq WithRecord(Files)
        /\ \A j \in 1..Len(script.list) :
              j <= script.at /\ script.list[j] \in script.seen => script.list[j] \in script.known
    BY <2>2 DEF ImportInv
  <2> DEFINE known == script.known \cup WithRecord(ToSet(Batch))
             at == IF IsLast THEN 0 ELSE script.at + BatchSize
             step == IF IsLast THEN "write" ELSE script.step
  <2>4. script' = [script EXCEPT !.known = known, !.at = at, !.step = step]
    BY <1>13 DEF ExistRecords, Query
  <2>5. /\ script'.known = known /\ script'.at = at /\ script'.step = step
        /\ script'.list = script.list /\ script'.seen = script.seen
    <3> HIDE DEF known, at, step
    <3> QED BY <2>1, <2>4 DEF ModelImports
  <2>6. ASSUME NEW j \in 1..Len(script.list), j <= script.at + BatchSize, script.list[j] \in script.seen
        PROVE  script.list[j] \in known
    <3>1. CASE j <= script.at
      BY <2>3, <2>6, <3>1
    <3>2. CASE ~(j <= script.at)
      <4>1. script.at < j
        BY <2>2, <3>2
      <4>2. script.list[j] \in ToSet(Batch)
        BY <2>2, <2>6, <4>1, BatchElements
      <4> QED BY <2>3, <2>6, <4>2 DEF WithRecord
    <3> QED BY <3>1, <3>2
  <2>7. known \subseteq WithRecord(Files)' /\ script.seen \subseteq WithRecord(Files)'
    <3>1. ToSet(Batch) \subseteq Files
      BY <2>2, BatchElements, Elements
    <3>2. WithRecord(ToSet(Batch)) \subseteq WithRecord(Files)
      BY <3>1 DEF WithRecord
    <3> QED BY <2>3, <3>2, KnownRecords
  <2>8. CASE IsLast
    <3>1. \A j \in 1..Len(script.list) : j <= script.at + BatchSize
      BY <2>2, <2>8 DEF IsLast
    <3>2. script.seen \cap ToSet(script.list) \subseteq known
      <4>1. ASSUME NEW f \in ToSet(script.list), f \in script.seen PROVE f \in known
        <5>1. PICK j \in 1..Len(script.list) : script.list[j] = f
          BY <2>2, <4>1, Elements
        <5> QED BY <2>6, <3>1, <4>1, <5>1
      <4> QED BY <4>1
    <3>3. step = "write"
      BY <2>8
    <3> HIDE DEF known, at, step
    <3> QED BY <2>5, <2>7, <3>2, <3>3
  <2>9. CASE ~IsLast
    <3>1. at = script.at + BatchSize /\ step = "query"
      BY <2>2, <2>9
    <3>5. \A j \in 1..Len(script.list) :
             j <= at /\ script.list[j] \in script.seen => script.list[j] \in known
      BY <2>6, <3>1
    <3> HIDE DEF known, at, step
    <3> QED BY <2>5, <2>7, <3>1, <3>5
  <2> QED BY <2>8, <2>9
<1>14. ASSUME script'.op # "model_import" PROVE Part
  BY <1>14
<1>15. ASSUME script' = NoScript PROVE script'.op # "model_import"
  BY <1>15 DEF NoScript
<1>16. ASSUME StartRepair \/ StartProcessImport \/ StartAvatarImport PROVE script'.op # "model_import"
  BY <1>16 DEF NoScript, StartRepair, StartProcessImport, StartAvatarImport, Run
<1>17. Part
  <2> HIDE DEF Part
  <2>1. script'.op \in {"repair", "process_import"} => script'.op # "model_import"
    OBVIOUS
  <2> QED BY <1>11, <1>12, <1>13, <1>14, <1>15, <1>16, <2>1, ProgramGoesOn
<1>18. /\ (\A f \in covered : Recorded(f, ToSet(records)))'
       /\ (\A f \in csv.found : Recorded(f, ToSet(records) \cup ToSet(csv.rows)))'
  BY <1>10 DEF Goal, Recorded
<1> QED BY <1>17, <1>18 DEF ImportInv

\* The rows that the script writes are of no record that it had seen.
LEMMA WritesOnlyNew ==
  ASSUME StateOK, ImportInv, [Next]_vars, At("model_import", "write"), csv' # csv
  PROVE  ToSet(csv'.rows) \cap script.seen = {}
<1>1. WriteNewRecords \/ LoadRecords
  BY CsvWriters DEF At, ScriptFails, WriteNewEtags, SelectRecords, WriteRepairProcesses
<1>2. CASE LoadRecords
  <2>1. csv'.rows = <<>>
    BY <1>2 DEF LoadRecords, NoCsv
  <2> QED BY <2>1 DEF ToSet
<1>3. CASE WriteNewRecords
  <2>1. PICK rows \in Seq(Files) :
            /\ ToSet(rows) = Unknown
            /\ csv' = IF rows = <<>> THEN csv ELSE [rows |-> rows, found |-> ToSet(script.list)]
    BY <1>3, NewRows
  <2>2. ToSet(csv'.rows) = ToSet(rows)
    <3>1. csv'.rows = rows
      BY <2>1
    <3> QED BY <3>1
  <2>3. script.seen \cap ToSet(script.list) \subseteq script.known
    BY DEF ImportInv, At
  <2> QED BY <2>1, <2>2, <2>3 DEF Unknown
<1> QED BY <1>1, <1>2, <1>3
-----------------------------------------------------------------------------
(* The theorems *)

\* The inductive invariant: rows and scripts are of their kinds; an organization's row is about to
\* be inserted only by who has not inserted one; every row that says a whole file does so of a
\* file the node had; and model_import knows which of its files have a record.
IInv == StateOK /\ LogoInv /\ HeldInv /\ ImportInv

LEMMA InvariantInit == Init => IInv
<1> SUFFICES ASSUME Init PROVE IInv
  OBVIOUS
<1>1. StateOK
  BY StateInit
<1>2. LogoInv
  BY DEF Init, CatalogueInit, LogoInv, LogoOncePerWriter, At, NoScript, Waiting, Writers
<1>3. HeldInv
  BY DEF Init, CatalogueInit, HeldInv, Honest, VerifiedWasHeld, Waiting, Places, NoScript
<1>4. ImportInv
  BY DEF Init, ImportInv, NoCsv, NoScript
<1> QED BY <1>1, <1>2, <1>3, <1>4 DEF IInv

\* Whatever scheduler, nodes, operator and scripts do, in any order, keeps the invariant.
THEOREM Invariance == Spec => []IInv
<1>1. ASSUME IInv, [Next]_vars PROVE IInv'
  BY <1>1, StateStep, LogoStepInv, HeldStep, ImportStep DEF IInv
<1> QED BY <1>1, InvariantInit, PTL DEF Spec

\* Tables and rows hold values of their kind, rows that have lost an end included; a process belongs
\* to a record, and a script that runs is at one of its steps.
THEOREM TypeCorrect == Spec => []TypeOK
<1>1. IInv => TypeOK
  BY StateTyped DEF IInv
<1> QED BY <1>1, Invariance, PTL

\* The scheduler, and so avatar_import, inserts the row of an organization once at most.
THEOREM OneLogoEach == Spec => []LogoOncePerWriter
<1>1. IInv => LogoOncePerWriter
  BY DEF IInv, LogoInv
<1> QED BY <1>1, Invariance, PTL

\* Each file of the snapshot of a registered repository was once whole on the node's disk, whoever
\* wrote the rows that verification read, and of whatever row the end was lost.
THEOREM VerifiedSnapshotsWereHeld == Spec => []VerifiedWasHeld
<1>1. IInv => VerifiedWasHeld
  BY DEF IInv, HeldInv
<1> QED BY <1>1, Invariance, PTL

\* After the CSV of model_import is loaded, each file that it found has a record.
THEOREM NoFileIsLost == Spec => []ImportLosesNoFile
<1>1. ASSUME IInv PROVE ImportLosesNoFile
  <2> SUFFICES ASSUME NEW f \in covered
               PROVE  \E k \in RecordIds : records[k].etag = f.etag /\ Dashed(records[k]) = Dashed(f)
    BY DEF ImportLosesNoFile
  <2>1. PICK g \in ToSet(records) : ImportKey(g) = ImportKey(f)
    BY <1>1 DEF IInv, ImportInv, Recorded
  <2>2. g.etag = f.etag /\ Dashed(g) = Dashed(f)
    BY <2>1 DEF ImportKey
  <2>3. PICK k \in RecordIds : records[k] = g
    BY <2>1 DEF ToSet, RecordIds
  <2> QED BY <2>2, <2>3
<1> QED BY <1>1, Invariance, PTL

\* model_import gives no second row to a record that was there when it began.
THEOREM NoSecondRow == Spec => ImportAddsOnlyNew
<1>1. ASSUME IInv, [Next]_vars
      PROVE  [At("model_import", "write") /\ csv' # csv => ToSet(csv'.rows) \cap script.seen = {}]_vars
  BY <1>1, WritesOnlyNew DEF IInv
<1> QED BY <1>1, Invariance, PTL DEF Spec, ImportAddsOnlyNew
-----------------------------------------------------------------------------
(* How long a registration takes *)

StepsTo(step) ==
  CASE step = "page" -> 5 [] step = "person" -> 4 [] step = "download" -> 3
    [] step = "insert" -> 2 [] step = "save" -> 1 [] step = "idle" -> 0

\* What is ahead of the registration: the steps to its transaction, and each optional column
\* that may have to be given up and the transaction tried again.
Remaining ==
  IF registrar.step = "idle" THEN 0 ELSE StepsTo(registrar.step) + Cardinality(registrar.columns)

\* Two columns at most can be given up.
LEMMA FewColumns ==
  ASSUME NEW C, C \subseteq Optional
  PROVE  IsFiniteSet(C) /\ Cardinality(C) \in 0..2
<1>1. IsFiniteSet(Optional) /\ Cardinality(Optional) = 2
  <2>1. IsFiniteSet({}) /\ Cardinality({}) = 0
    BY FS_EmptySet
  <2>2. IsFiniteSet({} \cup {"tags"}) /\ Cardinality({} \cup {"tags"}) = 1
    BY <2>1, FS_AddElement
  <2>3. Optional = {"tags"} \cup {"pipeline_tag_id"} /\ "pipeline_tag_id" \notin {"tags"}
    BY DEF Optional
  <2> QED BY <2>2, <2>3, FS_AddElement
<1>2. IsFiniteSet(C) /\ Cardinality(C) <= Cardinality(Optional)
  BY <1>1, FS_Subset
<1> QED BY <1>1, <1>2, FS_CardinalityType

LEMMA RegistrationGoesOn ==
  ASSUME StateOK, [Next]_vars, registrar.step # "idle", registrar' # registrar
  PROVE  Remaining' < Remaining
<1>0. registrar \in [step : {"page", "person", "download", "insert", "save"},
                     instance : Persisted, repo : Repositories, columns : SUBSET Optional]
  BY RegistrarKind DEF StateOK, PlacesOK
<1>1. Cardinality(registrar.columns) \in 0..2 /\ IsFiniteSet(registrar.columns)
  BY <1>0, FewColumns
<1>2. ASSUME NEW from, NEW to \in {"person", "download", "insert", "save"}, LogoStep(from, to),
             <<from, to>> \in {<<"page", "download">>, <<"page", "person">>,
                               <<"person", "download">>, <<"person", "save">>,
                               <<"download", "insert">>, <<"download", "save">>,
                               <<"insert", "save">>}
      PROVE  Remaining' < Remaining
  <2>1. /\ registrar'.step = to /\ registrar.step = from
        /\ registrar'.columns = registrar.columns
    BY <1>0, <1>2 DEF LogoStep
  <2> QED BY <1>1, <1>2, <2>1 DEF Remaining, StepsTo
<1>3. CASE FetchAvatarURL \/ FetchPersonAvatarURL \/ DownloadAvatar \/ InsertLogo
  BY <1>2, <1>3 DEF FetchAvatarURL, FetchPersonAvatarURL, DownloadAvatar, InsertLogo
<1>4. CASE SaveWithout
  <2>1. PICK column \in registrar.columns : TooSmall = {column}
    BY <1>0, <1>4 DEF SaveWithout, TooSmall
  <2>2. /\ registrar'.columns = registrar.columns \ {column}
        /\ registrar'.step = "save" /\ registrar.step = "save"
    BY <1>0, <1>4, <2>1 DEF SaveWithout
  <2>3. Cardinality(registrar'.columns) = Cardinality(registrar.columns) - 1
    BY <1>1, <2>1, <2>2, FS_RemoveElement
  <2> QED BY <1>1, <2>2, <2>3 DEF Remaining, StepsTo
<1>5. CASE Save
  <2>1. Remaining' = 0
    BY <1>5 DEF Save, Remaining, Waiting
  <2>2. registrar.step = "save"
    BY <1>5 DEF Save
  <2>3. Remaining = 1 + Cardinality(registrar.columns)
    BY <2>2 DEF Remaining, StepsTo
  <2> QED BY <1>1, <2>1, <2>3
<1>6. ASSUME NEW i \in Persisted, NEW r \in Repositories PROVE ~PersistRepo(i, r)
  BY DEF PersistRepo, Waiting
<1>7. ASSUME NEW i \in Instances, NEW f \in Files PROVE ~DeleteByEtagsAndFields(i, f)
  BY DEF DeleteByEtagsAndFields
<1> QED BY <1>3, <1>4, <1>5, <1>6, <1>7, PlaceWriters DEF RegistrarStep

\* A registration is at no time more than seven steps from its end, and whatever happens to it
\* brings it nearer: the transaction is not tried for ever, however narrow the schema is.
THEOREM RegistrationShortens ==
  Spec => /\ [](Remaining \in 0..7)
          /\ [][registrar.step # "idle" /\ registrar' # registrar => Remaining' < Remaining]_vars
<1>1. ASSUME StateOK PROVE Remaining \in 0..7
  <2>1. CASE registrar.step = "idle"
    BY <2>1 DEF Remaining
  <2>2. CASE registrar.step # "idle"
    <3>1. registrar \in [step : {"page", "person", "download", "insert", "save"},
                         instance : Persisted, repo : Repositories, columns : SUBSET Optional]
      BY <1>1, <2>2, RegistrarKind DEF StateOK, PlacesOK
    <3>2. Cardinality(registrar.columns) \in 0..2
      BY <3>1, FewColumns
    <3> QED BY <2>2, <3>1, <3>2 DEF Remaining, StepsTo
  <2> QED BY <2>1, <2>2
<1>2. ASSUME IInv, [Next]_vars
      PROVE  [registrar.step # "idle" /\ registrar' # registrar => Remaining' < Remaining]_vars
  BY <1>2, RegistrationGoesOn DEF IInv
<1>3. IInv => Remaining \in 0..7
  BY <1>1 DEF IInv
<1> QED BY <1>2, <1>3, Invariance, PTL DEF Spec

=============================================================================
