------------------------- MODULE ScanPipelineProofs -------------------------
(***************************************************************************)
(* What the scan of scanner/ and db/ guarantees for any number of files,   *)
(* contents, batch sizes and interrupted runs.                             *)
(***************************************************************************)
EXTENDS ScanPipeline, FiniteSetTheorems, TLAPS

\* The columns of a row agree with each other and with the file.  A row whose
\* full hash is stored has run through the phases without error.
RowsAgree ==
  \A f \in File :
    /\ f \notin files => phase[f] = 0
    /\ phase[f] = 0 => partial[f] = None /\ full[f] = None
    /\ phase[f] = 2 => partial[f] = PartialHashOf(f) /\ full[f] = None /\ ~IsSmall(f) /\ SizeOf(f) > 0
    /\ full[f] # None => full[f] = disk.content[f] /\ SizeOf(f) > 0
    /\ f \in errored => phase[f] = 3 /\ full[f] = None

\* What the place in RunPipeline tells about the rows at work.
CandidatesFit ==
  /\ pc \in {"partial_gate", "partial", "partial_hashing"} => \A f \in AtPhase(0) : SizeOf(f) > 0
  /\ pc = "partial_hashing" => candidates \subseteq AtPhase(0)
  /\ pc = "full_hashing" => candidates \subseteq AtPhase(2)

\* What the walk has recorded, and when the flag says that it is complete.
WalkProgress ==
  /\ ~walkDone => pc \in {"off", "walk", "mark"} /\ \A f \in File : phase[f] = 0
  /\ walkDone => pc \notin {"walk", "mark"}
  /\ pc = "walk" => visited \ Flaky \subseteq files \cup batch
  /\ pc = "mark" => File \ Flaky \subseteq files

\* A file of a group is hashed, as are all of its group with the same hash,
\* and the group has two inodes.
GroupsAgree ==
  \A f \in File : group[f] # 0 =>
    /\ full[f] # None
    /\ \A g \in File : group[g] = group[f] => full[g] = full[f]
    /\ \E g, h \in File :
         /\ group[g] = group[f] /\ group[h] = group[f]
         /\ disk.inode[g] # disk.inode[h]

IInv == TypeOK /\ RowsAgree /\ CandidatesFit /\ WalkProgress /\ WalkDoneMeansAllRecorded /\ GroupsAgree

-----------------------------------------------------------------------------

LEMMA DiskType ==
  ASSUME disk \in Disks
  PROVE  /\ \A f \in File : disk.content[f] \in Content /\ disk.inode[f] \in Inode
         /\ \A f \in File : SizeOf(f) \in Nat /\ PartialHashOf(f) \in Content
         /\ \A f, g \in File : disk.inode[f] = disk.inode[g] => disk.content[f] = disk.content[g]
<1>1. /\ disk.content \in [File -> Content] /\ disk.inode \in [File -> Inode]
      /\ \A f, g \in File : disk.inode[f] = disk.inode[g] => disk.content[f] = disk.content[g]
  BY DisksAssumption
<1> QED BY <1>1, SizeAssumption, HashAssumption DEF SizeOf, PartialHashOf

\* Sets of files and of the keys of files are finite.
LEMMA FinitelyManyKeys ==
  ASSUME TypeOK
  PROVE  /\ IsFiniteSet(DuplicateKeys) /\ Cardinality(DuplicateKeys) \in Nat
         /\ \A k \in DuplicateKeys : Cardinality(WithKey(k)) \in Nat
<1> DEFINE keys == {KeyOf(f) : f \in Hashed}
<1>1. IsFiniteSet(Hashed) /\ \A k : IsFiniteSet(WithKey(k))
  BY FS_Subset, FileAssumption DEF TypeOK, Hashed, AtPhase, WithKey
<1>2. [f \in Hashed |-> KeyOf(f)] \in Surjection(Hashed, keys)
  BY DEF Surjection
<1>3. IsFiniteSet(keys)
  BY <1>1, <1>2, FS_Surjection
<1>4. DuplicateKeys \subseteq keys
  BY DEF DuplicateKeys
<1> QED BY <1>1, <1>3, <1>4, FS_Subset, FS_CardinalityType

LEMMA InitInvariant == Init => IInv
<1> SUFFICES ASSUME Init PROVE IInv
  OBVIOUS
<1>1. TypeOK
  <2>1. runs \in 0 .. MaxRuns
    BY BoundsAssumption DEF Init
  <2>2. walkDone \in BOOLEAN /\ cancelled \in BOOLEAN
    BY DEF Init
  <2>3. /\ phase \in [File -> {0, 2, 3}] /\ partial \in [File -> Content \cup {None}]
        /\ full \in [File -> Content \cup {None}] /\ group \in [File -> Nat]
    BY DEF Init
  <2> QED BY <2>1, <2>2, <2>3 DEF Init, TypeOK, Places
<1>2. RowsAgree /\ GroupsAgree
  BY DEF Init, RowsAgree, GroupsAgree
<1>3. CandidatesFit /\ WalkProgress /\ WalkDoneMeansAllRecorded
  BY DEF Init, CandidatesFit, WalkProgress, WalkDoneMeansAllRecorded
<1> QED BY <1>1, <1>2, <1>3 DEF IInv

-----------------------------------------------------------------------------
\* The invariant, action by action.  Actions that leave the tables alone only
\* have to keep what is said of the place and the walk.

LEMMA TablesUnchanged ==
  ASSUME IInv, UNCHANGED <<disk, rows, groupTable, scanState>>
  PROVE  RowsAgree' /\ GroupsAgree' /\ WalkDoneMeansAllRecorded'
BY DEF IInv, RowsAgree, GroupsAgree, WalkDoneMeansAllRecorded, rows, groupTable, scanState,
   SizeOf, IsSmall, PartialHashOf

LEMMA StartInvariant == IInv /\ Start => IInv'
<1> SUFFICES ASSUME IInv, Start PROVE IInv'
  OBVIOUS
<1>1. TypeOK'
  <2>1. runs' \in 0 .. MaxRuns
    BY BoundsAssumption DEF Start, IInv, TypeOK
  <2>2. pc' \in Places
    BY DEF Start, Places
  <2> QED BY <2>1, <2>2 DEF Start, IInv, TypeOK, rows, groupTable, scanState
<1>2. RowsAgree' /\ GroupsAgree' /\ WalkDoneMeansAllRecorded'
  BY TablesUnchanged DEF Start
<1>3. CandidatesFit'
  BY DEF Start, CandidatesFit
<1>4. WalkProgress'
  BY DEF Start, IsWalkComplete, IInv, TypeOK, WalkProgress, rows, scanState
<1> QED BY <1>1, <1>2, <1>3, <1>4 DEF IInv

\* A run that ends leaves only the tables.
LEMMA ReturnInvariant ==
  ASSUME IInv, NEW how \in {"none", "ok", "interrupted", "failed", "killed"}, Return(how),
         UNCHANGED <<rows, groupTable, scanState>>
  PROVE  IInv'
<1> USE DEF IInv, Return, rows, groupTable, scanState
<1>1. TypeOK'
  BY DEF TypeOK, Places
<1>2. RowsAgree' /\ GroupsAgree' /\ WalkDoneMeansAllRecorded'
  BY TablesUnchanged
<1>3. CandidatesFit' /\ WalkProgress'
  BY DEF CandidatesFit, WalkProgress
<1> QED BY <1>1, <1>2, <1>3

LEMMA GateInvariant ==
  ASSUME IInv, SizesGate \/ PartialGate \/ FullGate \/ GroupsGate
  PROVE  IInv'
<1>1. UNCHANGED <<rows, groupTable, scanState>>
  BY DEF SizesGate, PartialGate, FullGate, GroupsGate, Gate
<1>2. CASE Return("interrupted")
  BY <1>1, <1>2, ReturnInvariant
<1>3. CASE ~Return("interrupted")
  <2> USE <1>1, <1>3 DEF IInv, SizesGate, PartialGate, FullGate, GroupsGate, Gate, Proceed,
      rows, groupTable, scanState, walk, env
  <2>1. TypeOK'
    BY DEF TypeOK, Places
  <2>2. RowsAgree' /\ GroupsAgree' /\ WalkDoneMeansAllRecorded'
    BY TablesUnchanged
  <2>3. CandidatesFit' /\ WalkProgress'
    BY DEF CandidatesFit, WalkProgress, AtPhase, SizeOf
  <2> QED BY <2>1, <2>2, <2>3
<1> QED BY <1>2, <1>3

\* Inserting rows while the walk is not complete.
LEMMA InsertKeepsTables ==
  ASSUME IInv, pc = "walk", files \subseteq files', files' \subseteq File,
         UNCHANGED <<disk, phase, partial, full, errored, groupTable, scanState>>
  PROVE  RowsAgree' /\ GroupsAgree' /\ WalkDoneMeansAllRecorded'
<1> USE DEF IInv, groupTable, scanState
<1>1. ~walkDone
  BY DEF WalkProgress
<1>2. RowsAgree'
  BY DEF RowsAgree, SizeOf, IsSmall, PartialHashOf
<1>3. GroupsAgree'
  BY DEF GroupsAgree
<1>4. WalkDoneMeansAllRecorded'
  BY <1>1 DEF WalkDoneMeansAllRecorded
<1> QED BY <1>2, <1>3, <1>4

LEMMA WalkInvariant ==
  ASSUME IInv, \/ \E f \in File : WalkVisit(f) \/ WalkFlushRetried(f)
               \/ WalkCancelled \/ WalkFinished
  PROVE  IInv'
<1> USE DEF IInv, groupTable, scanState, env, walk, InsertFileBatch
<1>1. ASSUME NEW f \in File, WalkVisit(f) PROVE IInv'
  <2> USE <1>1 DEF WalkVisit, Proceed
  <2>1. files \subseteq files' /\ files' \subseteq File
    BY DEF TypeOK
  <2>2. TypeOK'
    BY <2>1 DEF TypeOK
  <2>3. RowsAgree' /\ GroupsAgree' /\ WalkDoneMeansAllRecorded'
    BY <2>1, InsertKeepsTables
  <2>4. CandidatesFit'
    BY DEF CandidatesFit
  <2>5. WalkProgress'
    BY DEF WalkProgress
  <2> QED BY <2>2, <2>3, <2>4, <2>5
<1>2. ASSUME WalkCancelled \/ \E f \in File : WalkFlushRetried(f) PROVE IInv'
  <2> USE <1>2 DEF WalkCancelled, WalkFlushRetried, Return
  <2>1. files \subseteq files' /\ files' \subseteq File
    BY DEF TypeOK
  <2>2. TypeOK'
    BY <2>1 DEF TypeOK, Places
  <2>3. RowsAgree' /\ GroupsAgree' /\ WalkDoneMeansAllRecorded'
    BY <2>1, InsertKeepsTables
  <2>4. CandidatesFit' /\ WalkProgress'
    BY DEF CandidatesFit, WalkProgress
  <2> QED BY <2>2, <2>3, <2>4
<1>3. CASE WalkFinished
  <2> USE <1>3 DEF WalkFinished, Proceed
  <2>1. files \subseteq files' /\ files' \subseteq File
    BY DEF TypeOK
  <2>2. TypeOK'
    BY <2>1 DEF TypeOK, Places
  <2>3. RowsAgree' /\ GroupsAgree' /\ WalkDoneMeansAllRecorded'
    BY <2>1, InsertKeepsTables
  <2>4. CandidatesFit' /\ WalkProgress'
    BY DEF CandidatesFit, WalkProgress
  <2> QED BY <2>2, <2>3, <2>4
<1> QED BY <1>1, <1>2, <1>3

LEMMA MarkInvariant == IInv /\ MarkWalkComplete => IInv'
<1> SUFFICES ASSUME IInv, MarkWalkComplete PROVE IInv'
  OBVIOUS
<1> USE DEF IInv, MarkWalkComplete, Proceed, rows, groupTable, walk, env
<1>1. TypeOK'
  BY DEF TypeOK, Places
<1>2. RowsAgree' /\ GroupsAgree'
  BY DEF RowsAgree, GroupsAgree, SizeOf, IsSmall, PartialHashOf
<1>3. WalkDoneMeansAllRecorded'
  BY DEF WalkProgress, WalkDoneMeansAllRecorded
<1>4. CandidatesFit' /\ WalkProgress'
  BY DEF CandidatesFit, WalkProgress
<1> QED BY <1>1, <1>2, <1>3, <1>4

\* Both eliminations resolve rows that are not hashed and touch nothing else.
LEMMA EliminateInvariant ==
  ASSUME IInv, EliminateUniqueSizes \/ EliminateUniquePartialHashes
  PROVE  IInv'
<1> USE DEF IInv, Proceed, groupTable, scanState, walk, env
<1>1. /\ \A f \in File : phase'[f] = phase[f] \/ (f \in files /\ phase[f] # 3 /\ phase'[f] = 3)
      /\ phase' \in [File -> {0, 2, 3}]
      /\ UNCHANGED <<disk, files, partial, full, errored, group, dupGroups, nextGroup, walkDone, counted>>
  BY DEF EliminateUniqueSizes, EliminateUniquePartialHashes, TypeOK, AtPhase
<1>2. walkDone
  BY DEF EliminateUniqueSizes, EliminateUniquePartialHashes, WalkProgress
<1>3. TypeOK'
  BY <1>1 DEF EliminateUniqueSizes, EliminateUniquePartialHashes, TypeOK, Places
<1>4. RowsAgree'
  BY <1>1 DEF RowsAgree, TypeOK, SizeOf, IsSmall, PartialHashOf
<1>5. GroupsAgree' /\ WalkDoneMeansAllRecorded'
  BY <1>1 DEF GroupsAgree, WalkDoneMeansAllRecorded
<1>6. WalkProgress'
  BY <1>1, <1>2 DEF EliminateUniqueSizes, EliminateUniquePartialHashes, WalkProgress
<1>7. CandidatesFit'
  <2>1. CASE EliminateUniqueSizes
    <3> SUFFICES ASSUME NEW f \in AtPhase(0)' PROVE SizeOf(f)' > 0
      BY <2>1 DEF EliminateUniqueSizes, CandidatesFit
    <3>1. f \in AtPhase(0) /\ SizeOf(f) # 0
      BY <2>1, <1>1 DEF EliminateUniqueSizes, AtPhase, TypeOK
    <3> QED BY <3>1, <1>1, DiskType DEF SizeOf, TypeOK, AtPhase
  <2>2. CASE EliminateUniquePartialHashes
    BY <2>2 DEF EliminateUniquePartialHashes, CandidatesFit
  <2> QED BY <2>1, <2>2
<1> QED BY <1>3, <1>4, <1>5, <1>6, <1>7

LEMMA RoundInvariant ==
  ASSUME IInv, PartialHashCandidates \/ FullHashCandidates
  PROVE  IInv'
<1> USE DEF IInv, Proceed, rows, groupTable, scanState, walk, env,
    PartialHashCandidates, FullHashCandidates, NextRound
<1>1. /\ pc = "partial" => candidates' \subseteq AtPhase(0)
      /\ pc = "full" => candidates' \subseteq AtPhase(2)
      /\ candidates' \subseteq files
  BY DEF LargestFirst, AtPhase
<1>2. TypeOK'
  BY <1>1 DEF TypeOK, Places
<1>3. RowsAgree' /\ GroupsAgree' /\ WalkDoneMeansAllRecorded'
  BY TablesUnchanged
<1>4. CandidatesFit'
  BY <1>1 DEF CandidatesFit, AtPhase, SizeOf
<1>5. WalkProgress'
  BY DEF WalkProgress
<1> QED BY <1>2, <1>3, <1>4, <1>5

\* What is stored for a round: hashes and errors of the candidates, all of
\* which leave the phase they were in.
StoredRound(bad) ==
  /\ bad \subseteq candidates
  /\ errored' = errored \cup bad
  /\ \A f \in File \ candidates :
       phase'[f] = phase[f] /\ partial'[f] = partial[f] /\ full'[f] = full[f]
  /\ \A f \in bad : phase'[f] = 3 /\ full'[f] = None
  /\ \A f \in candidates \ bad :
       \/ phase'[f] = 3 /\ full'[f] = disk.content[f]
       \/ phase'[f] = 2 /\ full'[f] = None /\ partial'[f] = PartialHashOf(f) /\ ~IsSmall(f)

LEMMA StorePartial ==
  ASSUME IInv, BatchUpdatePartialHashes
  PROVE  /\ \E bad : StoredRound(bad)
         /\ partial' \in [File -> Content \cup {None}]
         /\ full' \in [File -> Content \cup {None}]
         /\ phase' \in [File -> {0, 2, 3}]
<1> PICK bad \in SUBSET (candidates \cap Flaky) :
      LET good == candidates \ bad
          small == {f \in good : IsSmall(f)}
      IN /\ partial' = [f \in File |-> IF f \in good THEN PartialHashOf(f) ELSE partial[f]]
         /\ full' = [f \in File |-> IF f \in small THEN PartialHashOf(f) ELSE full[f]]
         /\ phase' = [f \in File |-> IF f \in small \cup bad THEN 3
                                     ELSE IF f \in good THEN 2 ELSE phase[f]]
         /\ errored' = errored \cup bad
  BY DEF BatchUpdatePartialHashes
<1>1. \A f \in candidates : f \in File /\ full[f] = None
  BY DEF BatchUpdatePartialHashes, IInv, TypeOK, CandidatesFit, RowsAgree, AtPhase
<1>2. \A f \in File : PartialHashOf(f) \in Content /\ (IsSmall(f) => PartialHashOf(f) = disk.content[f])
  BY DiskType DEF IInv, TypeOK, PartialHashOf
<1>3. StoredRound(bad)
  BY <1>1, <1>2 DEF StoredRound, IInv, TypeOK
<1>4. /\ partial' \in [File -> Content \cup {None}]
      /\ full' \in [File -> Content \cup {None}]
      /\ phase' \in [File -> {0, 2, 3}]
  BY <1>2 DEF IInv, TypeOK
<1> QED BY <1>3, <1>4

LEMMA StoreFull ==
  ASSUME IInv, BatchUpdateFullHashes
  PROVE  /\ \E bad : StoredRound(bad)
         /\ partial' \in [File -> Content \cup {None}]
         /\ full' \in [File -> Content \cup {None}]
         /\ phase' \in [File -> {0, 2, 3}]
<1> PICK bad \in SUBSET (candidates \cap Flaky) :
      /\ full' = [f \in File |-> IF f \in candidates \ bad THEN disk.content[f] ELSE full[f]]
      /\ errored' = errored \cup bad
  BY DEF BatchUpdateFullHashes
<1>1. \A f \in candidates : f \in File /\ full[f] = None
  BY DEF BatchUpdateFullHashes, IInv, TypeOK, CandidatesFit, RowsAgree, AtPhase
<1>2. \A f \in File : disk.content[f] \in Content
  BY DiskType DEF IInv, TypeOK
<1>3. partial' = partial /\ phase' = [f \in File |-> IF f \in candidates THEN 3 ELSE phase[f]]
  BY DEF BatchUpdateFullHashes
<1>4. StoredRound(bad)
  BY <1>1, <1>3 DEF StoredRound, IInv, TypeOK
<1>5. /\ partial' \in [File -> Content \cup {None}]
      /\ full' \in [File -> Content \cup {None}]
      /\ phase' \in [File -> {0, 2, 3}]
  BY <1>2, <1>3 DEF IInv, TypeOK
<1> QED BY <1>4, <1>5

LEMMA StoreInvariant ==
  ASSUME IInv, BatchUpdatePartialHashes \/ BatchUpdateFullHashes
  PROVE  IInv'
<1> USE DEF IInv
<1>1. PICK bad : StoredRound(bad)
  BY StorePartial, StoreFull
<1>2. /\ partial' \in [File -> Content \cup {None}]
      /\ full' \in [File -> Content \cup {None}]
      /\ phase' \in [File -> {0, 2, 3}]
  BY StorePartial, StoreFull
<1>3. /\ UNCHANGED <<disk, files, group, dupGroups, nextGroup, walkDone, counted, runs>>
      /\ candidates' = {} /\ candidates \subseteq files
      /\ pc' \in {"off", "partial", "full"}
      /\ pc \in {"partial_hashing", "full_hashing"}
      /\ pc' = "partial" => pc = "partial_hashing"
  BY DEF BatchUpdatePartialHashes, BatchUpdateFullHashes, RoundStored, Proceed, Return,
     groupTable, scanState, env, TypeOK
<1>4. TypeOK'
  <2>1. visited' \subseteq File /\ batch' \subseteq visited' /\ cancelled' \in BOOLEAN
        /\ exit' \in {"none", "ok", "interrupted", "failed", "killed"}
    BY DEF BatchUpdatePartialHashes, BatchUpdateFullHashes, RoundStored, Proceed, Return,
       walk, env, TypeOK
  <2> QED BY <1>1, <1>2, <1>3, <2>1 DEF StoredRound, TypeOK, Places
<1>5. \A f \in candidates : phase[f] \in {0, 2} /\ full[f] = None /\ SizeOf(f) > 0 /\ f \in File
  BY <1>3 DEF CandidatesFit, RowsAgree, AtPhase, TypeOK
<1>6. \A f \in File : SizeOf(f)' = SizeOf(f) /\ (IsSmall(f)' <=> IsSmall(f))
                     /\ PartialHashOf(f)' = PartialHashOf(f)
  BY <1>3 DEF SizeOf, IsSmall, PartialHashOf
<1>7. RowsAgree'
  <2> SUFFICES ASSUME NEW f \in File
               PROVE  /\ f \notin files' => phase'[f] = 0
                      /\ phase'[f] = 0 => partial'[f] = None /\ full'[f] = None
                      /\ phase'[f] = 2 => /\ partial'[f] = PartialHashOf(f) /\ full'[f] = None
                                          /\ ~IsSmall(f) /\ SizeOf(f) > 0
                      /\ full'[f] # None => full'[f] = disk'.content[f] /\ SizeOf(f) > 0
                      /\ f \in errored' => phase'[f] = 3 /\ full'[f] = None
    BY <1>6 DEF RowsAgree
  <2>1. CASE f \in candidates
    BY <1>1, <1>3, <1>5, <2>1 DEF StoredRound, RowsAgree, TypeOK
  <2>2. CASE f \notin candidates
    BY <1>1, <1>3, <2>2 DEF StoredRound, RowsAgree
  <2> QED BY <2>1, <2>2
<1>8. GroupsAgree'
  <2>1. \A f \in File : group[f] # 0 => f \notin candidates /\ full'[f] = full[f]
    BY <1>1, <1>5 DEF GroupsAgree, StoredRound
  <2> QED BY <1>3, <2>1 DEF GroupsAgree
<1>9. WalkDoneMeansAllRecorded' /\ WalkProgress'
  BY <1>3 DEF WalkDoneMeansAllRecorded, WalkProgress
<1>10. CandidatesFit'
  <2>1. ASSUME pc' = "partial", NEW f \in files, phase'[f] = 0 PROVE SizeOf(f) > 0
    <3>1. f \in File /\ f \notin candidates
      BY <1>1, <2>1 DEF StoredRound, TypeOK
    <3>2. phase[f] = 0
      BY <1>1, <2>1, <3>1 DEF StoredRound
    <3> QED BY <1>3, <2>1, <3>2 DEF CandidatesFit, AtPhase
  <2>2. pc' = "partial" => \A f \in AtPhase(0)' : SizeOf(f)' > 0
    BY <1>3, <1>6, <2>1 DEF AtPhase, TypeOK
  <2> QED BY <1>3, <2>2 DEF CandidatesFit
<1> QED BY <1>4, <1>7, <1>8, <1>9, <1>10

\* The hashed files of one key, and the keys that become groups.
LEMMA KeysOfDuplicates ==
  ASSUME IInv, NEW k \in DuplicateKeys
  PROVE  /\ k[1] \in Nat /\ k[2] \in Content
         /\ \E f, g \in WithKey(k) : disk.inode[f] # disk.inode[g]
<1> PICK e \in Hashed : k = KeyOf(e)
  BY DEF DuplicateKeys
<1>1. e \in File /\ full[e] \in Content
  BY DEF IInv, TypeOK, Hashed, AtPhase
<1>2. SizeOf(e) \in Nat
  BY <1>1, DiskType DEF IInv, TypeOK
<1>3. \E f, g \in WithKey(k) : disk.inode[f] # disk.inode[g]
  BY DEF DuplicateKeys
<1> QED BY <1>1, <1>2, <1>3 DEF KeyOf

\* What MaterializeDupGroups writes: files share a group if they share a key.
LEMMA MaterializedGroups ==
  ASSUME IInv, MaterializeDupGroups
  PROVE  /\ group' \in [File -> Nat]
         /\ \A f \in File : group'[f] # 0 <=> f \in Hashed /\ KeyOf(f) \in DuplicateKeys
         /\ \A f, g \in File : group'[f] # 0 => (group'[g] = group'[f] <=> g \in Hashed /\ KeyOf(g) = KeyOf(f))
         /\ nextGroup' \in Nat \ {0}
         /\ dupGroups' \subseteq [id : Nat \ {0}, size : Nat, hash : Content, count : Nat, wasted : Int]
<1> DEFINE Ids == nextGroup .. (nextGroup + Cardinality(DuplicateKeys) - 1)
<1> PICK id \in Bijection(DuplicateKeys, Ids) :
       /\ dupGroups' = {GroupRow(id[k], k) : k \in DuplicateKeys}
       /\ group' = [f \in File |->
                      IF f \in Hashed /\ KeyOf(f) \in DuplicateKeys THEN id[KeyOf(f)] ELSE 0]
  BY DEF MaterializeDupGroups
<1>1. nextGroup \in Nat \ {0} /\ Cardinality(DuplicateKeys) \in Nat
  BY FinitelyManyKeys DEF IInv, TypeOK
<1>2. id \in [DuplicateKeys -> Ids] /\ \A j, k \in DuplicateKeys : id[j] = id[k] => j = k
  BY DEF Bijection, Injection, IsInjective
<1>3. \A k \in DuplicateKeys : id[k] \in Nat \ {0}
  BY <1>1, <1>2
<1>4. group' \in [File -> Nat]
  BY <1>3
<1>5. \A f \in File : group'[f] # 0 <=> f \in Hashed /\ KeyOf(f) \in DuplicateKeys
  BY <1>3
<1>6. ASSUME NEW f \in File, NEW g \in File, group'[f] # 0
      PROVE  group'[g] = group'[f] <=> g \in Hashed /\ KeyOf(g) = KeyOf(f)
  <2>1. group'[f] = id[KeyOf(f)] /\ KeyOf(f) \in DuplicateKeys
    BY <1>5, <1>6
  <2>2. CASE group'[g] = group'[f]
    <3>1. g \in Hashed /\ KeyOf(g) \in DuplicateKeys /\ group'[g] = id[KeyOf(g)]
      BY <1>5, <1>6, <2>2
    <3> QED BY <1>2, <2>1, <2>2, <3>1
  <2>3. CASE g \in Hashed /\ KeyOf(g) = KeyOf(f)
    BY <2>1, <2>3
  <2> QED BY <2>2, <2>3
<1>7. nextGroup' \in Nat \ {0}
  BY <1>1 DEF MaterializeDupGroups
<1>8. dupGroups' \subseteq [id : Nat \ {0}, size : Nat, hash : Content, count : Nat, wasted : Int]
  <2> SUFFICES ASSUME NEW k \in DuplicateKeys
               PROVE  GroupRow(id[k], k)
                        \in [id : Nat \ {0}, size : Nat, hash : Content, count : Nat, wasted : Int]
    OBVIOUS
  <2>1. Cardinality(WithKey(k)) \in Nat /\ k[1] \in Nat /\ k[2] \in Content
    BY FinitelyManyKeys, KeysOfDuplicates DEF IInv
  <2>2. (Cardinality(WithKey(k)) - 1) * k[1] \in Int
    BY <2>1
  <2> QED BY <1>3, <2>1, <2>2 DEF GroupRow
<1> QED BY <1>4, <1>5, <1>6, <1>7, <1>8

LEMMA MaterializeInvariant == IInv /\ MaterializeDupGroups => IInv'
<1> SUFFICES ASSUME IInv, MaterializeDupGroups PROVE IInv'
  OBVIOUS
<1> USE DEF IInv
<1>1. /\ UNCHANGED <<disk, rows, scanState, visited, batch, candidates, cancelled, exit, runs>>
      /\ pc = "groups" /\ pc' = "summary"
  BY DEF MaterializeDupGroups, Proceed, walk, env
<1>2. TypeOK'
  BY <1>1, MaterializedGroups DEF TypeOK, Places, rows, scanState
<1>3. RowsAgree' /\ WalkDoneMeansAllRecorded'
  BY <1>1 DEF RowsAgree, WalkDoneMeansAllRecorded, rows, scanState, SizeOf, IsSmall, PartialHashOf
<1>4. GroupsAgree'
  <2> SUFFICES ASSUME NEW f \in File, group'[f] # 0
               PROVE  /\ full[f] # None
                      /\ \A g \in File : group'[g] = group'[f] => full[g] = full[f]
                      /\ \E g, h \in File :
                           /\ group'[g] = group'[f] /\ group'[h] = group'[f]
                           /\ disk.inode[g] # disk.inode[h]
    BY <1>1 DEF GroupsAgree, rows
  <2>1. f \in Hashed /\ KeyOf(f) \in DuplicateKeys
    BY MaterializedGroups
  <2>2. \A g \in File : group'[g] = group'[f] => full[g] = full[f]
    BY MaterializedGroups DEF KeyOf
  <2>3. PICK g, h \in WithKey(KeyOf(f)) : disk.inode[g] # disk.inode[h]
    BY <2>1, KeysOfDuplicates
  <2>4. g \in File /\ h \in File /\ group'[g] = group'[f] /\ group'[h] = group'[f]
    BY <2>3, MaterializedGroups DEF WithKey, Hashed, AtPhase, TypeOK
  <2> QED BY <2>1, <2>2, <2>3, <2>4 DEF Hashed
<1>5. CandidatesFit' /\ WalkProgress'
  BY <1>1 DEF CandidatesFit, WalkProgress, rows, scanState
<1> QED BY <1>2, <1>3, <1>4, <1>5

LEMMA InterruptInvariant ==
  ASSUME IInv, \/ AbandonPartialHashes \/ AbandonFullHashes \/ Summarize
               \/ Cancel \/ Crash \/ StoreError
  PROVE  IInv'
<1>1. CASE AbandonPartialHashes \/ AbandonFullHashes \/ Summarize \/ Crash \/ StoreError
  BY <1>1, ReturnInvariant DEF AbandonPartialHashes, AbandonFullHashes, AbandonRound,
     Summarize, Crash, StoreError
<1>2. CASE Cancel
  <2> USE <1>2 DEF IInv, Cancel, env, rows, groupTable, scanState, walk
  <2>1. TypeOK'
    BY DEF TypeOK
  <2>2. RowsAgree' /\ GroupsAgree' /\ WalkDoneMeansAllRecorded'
    BY TablesUnchanged
  <2>3. CandidatesFit' /\ WalkProgress'
    BY DEF CandidatesFit, WalkProgress, AtPhase, SizeOf
  <2> QED BY <2>1, <2>2, <2>3
<1> QED BY <1>1, <1>2

LEMMA NextInvariant == IInv /\ [Next]_vars => IInv'
<1> SUFFICES ASSUME IInv, [Next]_vars PROVE IInv'
  OBVIOUS
<1>1. CASE UNCHANGED vars
  BY <1>1 DEF vars, IInv, TypeOK, RowsAgree, CandidatesFit, WalkProgress,
     WalkDoneMeansAllRecorded, GroupsAgree, AtPhase, SizeOf, IsSmall, PartialHashOf
<1>2. CASE Next
  BY <1>1, <1>2, StartInvariant, WalkInvariant, MarkInvariant, GateInvariant, EliminateInvariant,
     RoundInvariant, StoreInvariant, MaterializeInvariant, InterruptInvariant
  DEF Next, Step, Fault, Terminated
<1> QED BY <1>1, <1>2

LEMMA Invariant == Spec => []IInv
BY InitInvariant, NextInvariant, PTL DEF Spec

-----------------------------------------------------------------------------

\* Every variable keeps its type.
THEOREM TypeCorrect == Spec => []TypeOK
BY Invariant, PTL DEF IInv

\* The flag that lets a later run skip the walk is never set too early: when it
\* is, every file that could be read has its row.
THEOREM WalkComplete == Spec => []WalkDoneMeansAllRecorded
BY Invariant, PTL DEF IInv

\* No round hashes a file whose hash or error is already recorded, however often
\* the scan was interrupted.
THEOREM NoRepetition == Spec => []NoWorkTwice
<1>1. IInv => NoWorkTwice
  BY DEF IInv, TypeOK, CandidatesFit, RowsAgree, AtPhase, NoWorkTwice
<1> QED BY Invariant, <1>1, PTL

\* Whatever the number of files, the batch sizes and the interruptions, files
\* that are linked into one group are duplicates of each other.
THEOREM Soundness == Spec => []GroupsSound
<1>1. ASSUME IInv PROVE GroupsSound
  <2> SUFFICES ASSUME NEW i \in {group[f] : f \in File} \ {0}
               PROVE  /\ \A f, g \in Members(i) : disk.content[f] = disk.content[g]
                      /\ \A f \in Members(i) : SizeOf(f) > 0 /\ f \notin errored
                      /\ \E f, g \in Members(i) : disk.inode[f] # disk.inode[g]
    BY DEF GroupsSound, Report
  <2> USE <1>1 DEF IInv, Members
  <2>1. \A f \in Members(i) : full[f] # None /\ full[f] = disk.content[f] /\ SizeOf(f) > 0 /\ f \notin errored
    BY DEF GroupsAgree, RowsAgree
  <2>2. \A f, g \in Members(i) : full[f] = full[g]
    BY DEF GroupsAgree
  <2>3. \E f, g \in Members(i) : disk.inode[f] # disk.inode[g]
    BY DEF GroupsAgree
  <2> QED BY <2>1, <2>2, <2>3
<1> QED BY Invariant, <1>1, PTL

-----------------------------------------------------------------------------
\* What the eliminations leave is worth reading.

SameSize(f) == \E g \in files \ {f} : SizeOf(g) = SizeOf(f)
SameStart(f) == \E g \in files \ {f} : SizeOf(g) = SizeOf(f) /\ partial[g] = partial[f]

WorthReading ==
  /\ \A f \in File : full[f] # None => partial[f] # None
  /\ pc \in {"partial_gate", "partial", "partial_hashing"} => \A f \in AtPhase(0) : SameSize(f)
  /\ pc \in {"full_gate", "full", "full_hashing"} => \A f \in AtPhase(2) : SameStart(f)

\* Rows that are added, and rows that change their phase, change nothing of it.
LEMMA ReadBefore ==
  ASSUME IInv, OnlyCandidatesAreRead, files \subseteq files', files' \subseteq File,
         UNCHANGED <<disk, partial, full>>
  PROVE  OnlyCandidatesAreRead'
<1> SUFFICES ASSUME NEW f \in files'
             PROVE  /\ partial[f] # None => SameSize(f)' /\ SizeOf(f) > 0
                    /\ full[f] # None /\ ~IsSmall(f) => SameStart(f)'
  BY DEF OnlyCandidatesAreRead, SameSize, SameStart, SizeOf, IsSmall
<1>1. CASE f \in files
  BY <1>1 DEF OnlyCandidatesAreRead, SameSize, SameStart, SizeOf, IsSmall
<1>2. CASE f \notin files
  BY <1>2 DEF IInv, RowsAgree
<1> QED BY <1>1, <1>2

LEMMA StoredIsWorthReading ==
  ASSUME IInv, OnlyCandidatesAreRead, WorthReading,
         BatchUpdatePartialHashes \/ BatchUpdateFullHashes
  PROVE  OnlyCandidatesAreRead' /\ WorthReading'
<1> USE DEF IInv
<1>1. PICK bad : StoredRound(bad)
  BY StorePartial, StoreFull
<1>2. /\ UNCHANGED <<disk, files>> /\ candidates \subseteq files /\ files \subseteq File
      /\ \A f \in File : SizeOf(f)' = SizeOf(f) /\ (IsSmall(f)' <=> IsSmall(f))
  BY DEF BatchUpdatePartialHashes, BatchUpdateFullHashes, RoundStored, Proceed, Return, env,
     TypeOK, SizeOf, IsSmall
<1>3. CASE BatchUpdatePartialHashes
  <2>1. /\ pc = "partial_hashing" /\ pc' \in {"partial", "off"}
        /\ \A f \in candidates : phase[f] = 0 /\ partial[f] = None /\ SizeOf(f) > 0 /\ SameSize(f)
    BY <1>3 DEF BatchUpdatePartialHashes, RoundStored, Proceed, Return, CandidatesFit, RowsAgree,
       AtPhase, TypeOK, WorthReading
  <2>2. \A f \in File : partial[f] # None => partial'[f] = partial[f]
    BY <1>1, <2>1 DEF StoredRound
  <2>3. \A f \in candidates : full'[f] # None => IsSmall(f)
    <3>1. PICK none \in SUBSET (candidates \cap Flaky) :
            full' = [f \in File |-> IF f \in {g \in candidates \ none : IsSmall(g)}
                                   THEN PartialHashOf(f) ELSE full[f]]
      BY <1>3 DEF BatchUpdatePartialHashes
    <3>2. \A f \in candidates : full[f] = None
      BY <2>1, <1>2 DEF RowsAgree
    <3> QED BY <1>2, <3>1, <3>2
  <2>4. ASSUME NEW f \in files, partial'[f] # None PROVE SameSize(f) /\ SizeOf(f) > 0
    BY <1>1, <1>2, <2>1, <2>4 DEF StoredRound, OnlyCandidatesAreRead, SameSize
  <2>5. ASSUME NEW f \in files, full'[f] # None, ~IsSmall(f)
        PROVE  \E g \in files \ {f} : SizeOf(g) = SizeOf(f) /\ partial'[g] = partial'[f]
    <3>1. f \notin candidates /\ full'[f] = full[f] /\ partial'[f] = partial[f]
      BY <1>1, <1>2, <2>3, <2>5 DEF StoredRound
    <3>2. PICK g \in files \ {f} : SizeOf(g) = SizeOf(f) /\ partial[g] = partial[f]
      BY <2>5, <3>1 DEF OnlyCandidatesAreRead
    <3>3. partial[f] # None
      BY <1>2, <2>5, <3>1 DEF WorthReading
    <3> QED BY <1>2, <2>2, <3>1, <3>2, <3>3
  <2>6. OnlyCandidatesAreRead'
    BY <1>2, <2>4, <2>5 DEF OnlyCandidatesAreRead, SameSize
  <2>7. \A f \in AtPhase(0)' : f \in AtPhase(0)
    BY <1>1, <1>2, <2>1 DEF StoredRound, AtPhase
  <2>8. \A f \in File : full'[f] # None => partial'[f] # None
    <3>1. PICK none \in SUBSET (candidates \cap Flaky) :
            /\ full' = [f \in File |-> IF f \in {g \in candidates \ none : IsSmall(g)}
                                     THEN PartialHashOf(f) ELSE full[f]]
            /\ partial' = [f \in File |-> IF f \in candidates \ none THEN PartialHashOf(f)
                                                                ELSE partial[f]]
      BY <1>3 DEF BatchUpdatePartialHashes
    <3>2. \A f \in File : PartialHashOf(f) # None
      BY DiskType, HashAssumption DEF TypeOK
    <3> QED BY <1>2, <3>1, <3>2 DEF WorthReading
  <2>9. WorthReading'
    BY <1>2, <2>1, <2>7, <2>8 DEF WorthReading, SameSize, AtPhase
  <2> QED BY <2>6, <2>9
<1>4. CASE BatchUpdateFullHashes
  <2>1. /\ pc = "full_hashing" /\ pc' \in {"full", "off"} /\ partial' = partial
        /\ \A f \in candidates : partial[f] # None /\ SameStart(f)
    <3>1. \A f \in File : PartialHashOf(f) # None
      BY DiskType, HashAssumption DEF TypeOK
    <3> QED BY <1>4, <3>1 DEF BatchUpdateFullHashes, RoundStored, Proceed, Return, CandidatesFit, RowsAgree,
            AtPhase, TypeOK, WorthReading
  <2>2. ASSUME NEW f \in files, full'[f] # None, ~IsSmall(f) PROVE SameStart(f)
    BY <1>1, <1>2, <2>1, <2>2 DEF StoredRound, OnlyCandidatesAreRead, SameStart
  <2>3. OnlyCandidatesAreRead'
    BY <1>2, <2>1, <2>2 DEF OnlyCandidatesAreRead, SameStart
  <2>4. \A f \in File : full'[f] # None => partial'[f] # None
    BY <1>1, <2>1 DEF StoredRound, WorthReading
  <2>5. \A f \in AtPhase(2)' : f \in AtPhase(2)
    <3>1. phase' = [f \in File |-> IF f \in candidates THEN 3 ELSE phase[f]]
      BY <1>4 DEF BatchUpdateFullHashes
    <3> QED BY <1>2, <3>1 DEF AtPhase
  <2>6. WorthReading'
    BY <1>2, <2>1, <2>4, <2>5 DEF WorthReading, SameStart, AtPhase
  <2> QED BY <2>3, <2>6
<1> QED BY <1>3, <1>4

\* The steps that end at a reading loop are the eliminations.
LEMMA OthersKeepWorth ==
  ASSUME IInv, WorthReading, [Next]_vars,
         ~(BatchUpdatePartialHashes \/ BatchUpdateFullHashes)
  PROVE  WorthReading'
<1> USE DEF IInv
<1>1. UNCHANGED <<disk, partial, full>>
  BY DEF Next, Step, Fault, Terminated, vars, Start, WalkVisit, WalkFlushRetried, WalkCancelled,
     WalkFinished, MarkWalkComplete, SizesGate, PartialGate, FullGate, GroupsGate, Gate,
     EliminateUniqueSizes, PartialHashCandidates, FullHashCandidates, NextRound,
     AbandonPartialHashes, AbandonFullHashes, AbandonRound, EliminateUniquePartialHashes,
     MaterializeDupGroups, Summarize, Cancel, Crash, StoreError, Proceed, Return, rows, env
<1>2. CASE EliminateUniqueSizes
  <2>1. ASSUME NEW f \in AtPhase(0)' PROVE SameSize(f)'
    <3>1. f \in AtPhase(0) /\ ~UniqueSize(f)
      BY <1>2 DEF EliminateUniqueSizes, AtPhase, TypeOK
    <3> QED BY <1>1, <1>2, <3>1 DEF EliminateUniqueSizes, UniqueSize, SameSize, SizeOf, AtPhase
  <2> QED BY <1>1, <1>2, <2>1 DEF EliminateUniqueSizes, Proceed, WorthReading
<1>3. CASE EliminateUniquePartialHashes
  <2>1. ASSUME NEW f \in AtPhase(2)' PROVE SameStart(f)'
    <3>1. f \in AtPhase(2) /\ ~UniquePartialHash(f)
      BY <1>3 DEF EliminateUniquePartialHashes, AtPhase, TypeOK
    <3> QED BY <1>1, <1>3, <3>1
            DEF EliminateUniquePartialHashes, UniquePartialHash, SameStart, SizeOf, AtPhase
  <2> QED BY <1>1, <1>3, <2>1 DEF EliminateUniquePartialHashes, Proceed, WorthReading
<1>4. CASE ~(EliminateUniqueSizes \/ EliminateUniquePartialHashes)
  <2>1. \/ pc' \notin {"partial_gate", "partial", "partial_hashing", "full_gate", "full", "full_hashing"}
        \/ /\ UNCHANGED <<files, phase>>
           /\ \/ {pc, pc'} \subseteq {"partial_gate", "partial", "partial_hashing"}
              \/ {pc, pc'} \subseteq {"full_gate", "full", "full_hashing"}
    BY <1>4 DEF Next, Step, Fault, Terminated, vars, Start, WalkVisit, WalkFlushRetried, WalkCancelled,
       WalkFinished, MarkWalkComplete, SizesGate, PartialGate, FullGate, GroupsGate, Gate,
       PartialHashCandidates, FullHashCandidates, NextRound,
       AbandonPartialHashes, AbandonFullHashes, AbandonRound,
       MaterializeDupGroups, Summarize, Cancel, Crash, StoreError, Proceed, Return, rows, env,
       TypeOK, Places
  <2> QED BY <1>1, <2>1 DEF WorthReading, AtPhase, SameSize, SameStart, SizeOf
<1> QED BY <1>2, <1>3, <1>4

LEMMA ReadStep ==
  ASSUME IInv, OnlyCandidatesAreRead, WorthReading, [Next]_vars
  PROVE  OnlyCandidatesAreRead' /\ WorthReading'
<1>1. CASE BatchUpdatePartialHashes \/ BatchUpdateFullHashes
  BY <1>1, StoredIsWorthReading
<1>2. CASE ~(BatchUpdatePartialHashes \/ BatchUpdateFullHashes)
  <2>1. UNCHANGED <<disk, partial, full>>
    BY <1>2 DEF Next, Step, Fault, Terminated, vars, Start, WalkVisit, WalkFlushRetried, WalkCancelled,
       WalkFinished, MarkWalkComplete, SizesGate, PartialGate, FullGate, GroupsGate, Gate,
       EliminateUniqueSizes, PartialHashCandidates, FullHashCandidates, NextRound,
       AbandonPartialHashes, AbandonFullHashes, AbandonRound, EliminateUniquePartialHashes,
       MaterializeDupGroups, Summarize, Cancel, Crash, StoreError, Proceed, Return, rows, env
  <2>2. files \subseteq files'
    BY <1>2 DEF Next, Step, Fault, Terminated, vars, Start, WalkVisit, WalkFlushRetried, WalkCancelled,
       WalkFinished, MarkWalkComplete, SizesGate, PartialGate, FullGate, GroupsGate, Gate,
       EliminateUniqueSizes, PartialHashCandidates, FullHashCandidates, NextRound,
       AbandonPartialHashes, AbandonFullHashes, AbandonRound, EliminateUniquePartialHashes,
       MaterializeDupGroups, Summarize, Cancel, Crash, StoreError, rows, InsertFileBatch
  <2>3. files' \subseteq File
    BY NextInvariant DEF IInv, TypeOK
  <2> QED BY <1>2, <2>1, <2>2, <2>3, ReadBefore, OthersKeepWorth
<1> QED BY <1>1, <1>2

\* However large the tree, and however often the scan is interrupted: what is
\* read are files that another file of the same size, or with the same size and
\* partial hash, makes worth reading.
THEOREM LittleIsRead == Spec => []OnlyCandidatesAreRead
<1>1. Init => OnlyCandidatesAreRead /\ WorthReading
  BY DEF Init, OnlyCandidatesAreRead, WorthReading
<1>2. IInv /\ OnlyCandidatesAreRead /\ WorthReading /\ [Next]_vars
        => (OnlyCandidatesAreRead /\ WorthReading)'
  BY ReadStep
<1> QED BY Invariant, <1>1, <1>2, PTL DEF Spec

-----------------------------------------------------------------------------
\* Only the walk adds rows and only MarkWalkComplete sets the flag.

LEMMA WalkStepwise ==
  ASSUME IInv, [Next]_vars, IInv'
  PROVE  [Walked!Record \/ Walked!Finish]_<<File, File \ Flaky, files, walkDone>>
<1> USE DEF Walked!Record, Walked!Finish
<1>1. CASE MarkWalkComplete
  BY <1>1 DEF MarkWalkComplete, rows, IInv, WalkProgress
<1>2. CASE \/ \E f \in File : WalkVisit(f) \/ WalkFlushRetried(f)
           \/ WalkCancelled \/ WalkFinished
  <2>1. pc = "walk" /\ UNCHANGED walkDone /\ files \subseteq files'
    BY <1>2 DEF WalkVisit, WalkFlushRetried, WalkCancelled, WalkFinished, InsertFileBatch, scanState
  <2>2. ~walkDone /\ files' \subseteq File
    BY <2>1 DEF IInv, TypeOK, WalkProgress
  <2> QED BY <2>1, <2>2
<1>3. CASE UNCHANGED <<files, walkDone>>
  BY <1>3
<1> QED BY <1>1, <1>2, <1>3 DEF Next, Step, Fault, Terminated, vars, Start, SizesGate, PartialGate,
     FullGate, GroupsGate, Gate, EliminateUniqueSizes, PartialHashCandidates, FullHashCandidates,
     NextRound, BatchUpdatePartialHashes, AbandonPartialHashes, AbandonFullHashes, AbandonRound,
     EliminateUniquePartialHashes, BatchUpdateFullHashes, MaterializeDupGroups, Summarize, Cancel,
     Crash, StoreError, rows, scanState

\* The walk of the pipeline, with its restarts, implements the abstract walk.
THEOREM WalkRefined == Spec => WalkImplemented
<1>1. Init => Walked!Init
  BY DEF Init, Walked!Init
<1>2. IInv /\ [Next]_vars /\ IInv' => [Walked!Record \/ Walked!Finish]_<<File, File \ Flaky, files, walkDone>>
  BY WalkStepwise
<1> QED BY Invariant, <1>1, <1>2, PTL DEF Spec, WalkImplemented, Walked!Spec, Walked!vars

-----------------------------------------------------------------------------
(***************************************************************************)
(* The part of LastRunCompletes that needs no fairness: every step of a    *)
(* run, errors and cancellation included, brings it nearer to its end.     *)
(* The two hashing loops do so because each round that is stored takes all *)
(* of its files out of the phase they were selected by.                    *)
(***************************************************************************)

RoundsAreNotEmpty == pc \in {"partial_hashing", "full_hashing"} => candidates # {}

\* The places in the order in which a run comes to them, a loop being one.
Stage(place) ==
  CASE place = "walk" -> 12
    [] place = "mark" -> 11
    [] place = "sizes_gate" -> 10
    [] place = "sizes" -> 9
    [] place = "partial_gate" -> 8
    [] place \in {"partial", "partial_hashing"} -> 7
    [] place = "partials" -> 6
    [] place = "full_gate" -> 5
    [] place \in {"full", "full_hashing"} -> 4
    [] place = "groups_gate" -> 3
    [] place = "groups" -> 2
    [] place = "summary" -> 1
    [] place = "off" -> 0

\* What a loop has still to do.
Left ==
  CASE pc = "walk" -> Cardinality(File \ visited)
    [] pc = "partial" -> 2 * Cardinality(AtPhase(0)) + 1
    [] pc = "partial_hashing" -> 2 * Cardinality(AtPhase(0))
    [] pc = "full" -> 2 * Cardinality(AtPhase(2)) + 1
    [] pc = "full_hashing" -> 2 * Cardinality(AtPhase(2))
    [] OTHER -> 0

Advances == Stage(pc') < Stage(pc) \/ (Stage(pc') = Stage(pc) /\ Left' < Left)

RunProgress ==
  /\ Step => Advances
  /\ pc # "off" => Advances \/ UNCHANGED <<pc, Left>>

LEMMA FinitelyMany ==
  ASSUME TypeOK
  PROVE  /\ \A S \in SUBSET File : Cardinality(S) \in Nat
         /\ \A S, T \in SUBSET File : S \subseteq T /\ S # T => Cardinality(S) < Cardinality(T)
<1>1. \A T \in SUBSET File : IsFiniteSet(T)
  BY FileAssumption, FS_Subset
<1>2. \A S \in SUBSET File : Cardinality(S) \in Nat
  BY <1>1, FS_CardinalityType
<1>3. ASSUME NEW S \in SUBSET File, NEW T \in SUBSET File, S \subseteq T, S # T
      PROVE  Cardinality(S) < Cardinality(T)
  <2>1. Cardinality(S) <= Cardinality(T) /\ Cardinality(S) # Cardinality(T)
    BY <1>1, <1>3, FS_Subset
  <2> QED BY <1>2, <2>1
<1> QED BY <1>2, <1>3

\* A stored round has taken its files out of the phase.
LEMMA RoundsShrink ==
  ASSUME IInv, RoundsAreNotEmpty, IInv'
  PROVE  /\ BatchUpdatePartialHashes => Cardinality(AtPhase(0)') < Cardinality(AtPhase(0))
         /\ BatchUpdateFullHashes => Cardinality(AtPhase(2)') < Cardinality(AtPhase(2))
<1>1. ASSUME BatchUpdatePartialHashes PROVE AtPhase(0)' = AtPhase(0) \ candidates
  <2>1. PICK bad \in SUBSET (candidates \cap Flaky) :
          LET good == candidates \ bad
              small == {f \in good : IsSmall(f)}
          IN  phase' = [f \in File |-> IF f \in small \cup bad THEN 3
                                       ELSE IF f \in good THEN 2 ELSE phase[f]]
    BY <1>1 DEF BatchUpdatePartialHashes
  <2>2. files' = files /\ files \subseteq File
    BY <1>1 DEF BatchUpdatePartialHashes, IInv, TypeOK
  <2>3. \A f \in File : phase'[f] = 0 <=> phase[f] = 0 /\ f \notin candidates
    BY <2>1
  <2> QED BY <2>2, <2>3 DEF AtPhase
<1>2. ASSUME BatchUpdateFullHashes PROVE AtPhase(2)' = AtPhase(2) \ candidates
  BY <1>2 DEF BatchUpdateFullHashes, AtPhase, IInv, TypeOK
<1>3. AtPhase(0) \in SUBSET File /\ AtPhase(2) \in SUBSET File
  BY DEF AtPhase, IInv, TypeOK
<1>4. CASE BatchUpdatePartialHashes
  <2>1. candidates # {} /\ candidates \subseteq AtPhase(0)
    BY <1>4 DEF BatchUpdatePartialHashes, RoundsAreNotEmpty, IInv, CandidatesFit
  <2>2. AtPhase(0)' \in SUBSET AtPhase(0) /\ AtPhase(0)' # AtPhase(0)
    BY <1>1, <1>4, <2>1
  <2>3. ~BatchUpdateFullHashes
    BY <1>4 DEF BatchUpdatePartialHashes, BatchUpdateFullHashes
  <2> QED BY <1>3, <2>2, <2>3, FinitelyMany DEF IInv
<1>5. CASE BatchUpdateFullHashes
  <2>1. candidates # {} /\ candidates \subseteq AtPhase(2)
    BY <1>5 DEF BatchUpdateFullHashes, RoundsAreNotEmpty, IInv, CandidatesFit
  <2>2. AtPhase(2)' \in SUBSET AtPhase(2) /\ AtPhase(2)' # AtPhase(2)
    BY <1>2, <1>5, <2>1
  <2>3. ~BatchUpdatePartialHashes
    BY <1>5 DEF BatchUpdatePartialHashes, BatchUpdateFullHashes
  <2> QED BY <1>3, <2>2, <2>3, FinitelyMany DEF IInv
<1> QED BY <1>4, <1>5

LEMMA StepAdvances ==
  ASSUME IInv, RoundsAreNotEmpty, Step, IInv'
  PROVE  RoundsAreNotEmpty' /\ Advances
<1>1. /\ Cardinality(AtPhase(0)) \in Nat /\ Cardinality(AtPhase(2)) \in Nat
      /\ Cardinality(AtPhase(0)') \in Nat /\ Cardinality(AtPhase(2)') \in Nat
  <2>1. AtPhase(0) \in SUBSET File /\ AtPhase(2) \in SUBSET File
    BY DEF AtPhase, IInv, TypeOK
  <2>2. AtPhase(0)' \in SUBSET File /\ AtPhase(2)' \in SUBSET File
    BY DEF AtPhase, IInv, TypeOK
  <2> QED BY <2>1, <2>2, FinitelyMany DEF IInv
<1>2. CASE \E f \in File : WalkVisit(f)
  <2>1. PICK f \in File : WalkVisit(f)
    BY <1>2
  <2>2. pc = "walk" /\ pc' = "walk" /\ f \notin visited /\ visited' = visited \cup {f}
    BY <2>1 DEF WalkVisit, Proceed
  <2>3. Cardinality(File \ visited') < Cardinality(File \ visited)
    BY <2>2, FinitelyMany DEF IInv
  <2> QED BY <2>2, <2>3 DEF Advances, Stage, Left, RoundsAreNotEmpty
<1>3. CASE PartialHashCandidates
  <2>1. /\ pc = "partial" /\ pc' = IF candidates' = {} THEN "partials" ELSE "partial_hashing"
        /\ AtPhase(0)' = AtPhase(0)
    BY <1>3 DEF PartialHashCandidates, NextRound, Proceed, AtPhase, rows
  <2>2. CASE candidates' = {}
    BY <2>1, <2>2 DEF Advances, Stage, RoundsAreNotEmpty
  <2>3. CASE candidates' # {}
    BY <1>1, <2>1, <2>3 DEF Advances, Stage, Left, RoundsAreNotEmpty
  <2> QED BY <2>2, <2>3
<1>4. CASE FullHashCandidates
  <2>1. /\ pc = "full" /\ pc' = IF candidates' = {} THEN "groups_gate" ELSE "full_hashing"
        /\ AtPhase(2)' = AtPhase(2)
    BY <1>4 DEF FullHashCandidates, NextRound, Proceed, AtPhase, rows
  <2>2. CASE candidates' = {}
    BY <2>1, <2>2 DEF Advances, Stage, RoundsAreNotEmpty
  <2>3. CASE candidates' # {}
    BY <1>1, <2>1, <2>3 DEF Advances, Stage, Left, RoundsAreNotEmpty
  <2> QED BY <2>2, <2>3
<1>5. CASE BatchUpdatePartialHashes
  <2>1. pc = "partial_hashing" /\ pc' \in {"partial", "off"}
    BY <1>5 DEF BatchUpdatePartialHashes, RoundStored, Proceed, Return
  <2>2. Cardinality(AtPhase(0)') < Cardinality(AtPhase(0))
    BY <1>5, RoundsShrink
  <2> QED BY <1>1, <2>1, <2>2 DEF Advances, Stage, Left, RoundsAreNotEmpty
<1>6. CASE BatchUpdateFullHashes
  <2>1. pc = "full_hashing" /\ pc' \in {"full", "off"}
    BY <1>6 DEF BatchUpdateFullHashes, RoundStored, Proceed, Return
  <2>2. Cardinality(AtPhase(2)') < Cardinality(AtPhase(2))
    BY <1>6, RoundsShrink
  <2> QED BY <1>1, <2>1, <2>2 DEF Advances, Stage, Left, RoundsAreNotEmpty
<1>7. CASE \/ WalkCancelled \/ WalkFinished \/ MarkWalkComplete \/ SizesGate \/ EliminateUniqueSizes
           \/ PartialGate \/ AbandonPartialHashes \/ EliminateUniquePartialHashes \/ FullGate
           \/ AbandonFullHashes \/ GroupsGate \/ MaterializeDupGroups \/ Summarize
  BY <1>7 DEF WalkCancelled, WalkFinished, MarkWalkComplete, SizesGate, EliminateUniqueSizes, PartialGate,
     AbandonPartialHashes, EliminateUniquePartialHashes, FullGate, AbandonFullHashes, AbandonRound, GroupsGate,
     Gate, MaterializeDupGroups, Summarize, Proceed, Return, Advances, Stage, RoundsAreNotEmpty
<1> QED BY <1>2, <1>3, <1>4, <1>5, <1>6, <1>7 DEF Step

LEMMA ProgressStep ==
  ASSUME IInv, RoundsAreNotEmpty, Next, IInv'
  PROVE  RoundsAreNotEmpty' /\ [RunProgress]_vars
<1>1. CASE Step
  BY <1>1, StepAdvances DEF RunProgress
<1>2. CASE Start
  <2>1. pc = "off" /\ ~Step
    BY <1>2 DEF Start, Step, WalkVisit, WalkCancelled, WalkFinished, MarkWalkComplete, SizesGate,
       EliminateUniqueSizes, PartialGate, PartialHashCandidates, BatchUpdatePartialHashes, AbandonPartialHashes,
       EliminateUniquePartialHashes, FullGate, FullHashCandidates, BatchUpdateFullHashes, AbandonFullHashes,
       AbandonRound, GroupsGate, Gate, NextRound, MaterializeDupGroups, Summarize
  <2> QED BY <1>2, <2>1 DEF Start, RoundsAreNotEmpty, RunProgress
<1>3. CASE (\E f \in File : WalkFlushRetried(f)) \/ StoreError \/ Crash
  <2>1. pc \in Places \ {"off"} /\ pc' = "off"
    BY <1>3 DEF WalkFlushRetried, StoreError, Crash, Return, IInv, TypeOK
  <2>2. Advances
    BY <2>1 DEF Advances, Stage, Places
  <2> QED BY <2>1, <2>2 DEF RoundsAreNotEmpty, RunProgress
<1>4. CASE Cancel
  <2>1. UNCHANGED <<pc, Left, candidates>>
    BY <1>4 DEF Cancel, Left, AtPhase, rows, walk
  <2> QED BY <1>1, <2>1 DEF RoundsAreNotEmpty, RunProgress
<1>5. CASE Terminated
  BY <1>5 DEF Terminated, vars, RoundsAreNotEmpty
<1> QED BY <1>1, <1>2, <1>3, <1>4, <1>5 DEF Next, Fault

\* Every step of a run brings it nearer to its end, in however many rounds, and
\* no fault prolongs it.
THEOREM RunsProgress == Spec => [][RunProgress]_vars
<1>1. Init => RoundsAreNotEmpty
  BY DEF Init, RoundsAreNotEmpty
<1>2. IInv /\ RoundsAreNotEmpty /\ [Next]_vars /\ IInv' => RoundsAreNotEmpty' /\ [RunProgress]_vars
  BY ProgressStep DEF RoundsAreNotEmpty, vars
<1> QED BY Invariant, <1>1, <1>2, PTL DEF Spec

-----------------------------------------------------------------------------
\* Errors of files do not make a run fail: only Ctrl-C, a failing store operation
\* and a kill do, and of these the last run is free.
LastRunSucceeds ==
  runs = MaxRuns /\ pc # "off" /\ pc' = "off" => exit' = "ok"

LastRunIsFree == runs = MaxRuns /\ pc # "off" => ~cancelled

LEMMA LastRunStep ==
  ASSUME IInv, LastRunIsFree, [Next]_vars
  PROVE  LastRunIsFree' /\ LastRunSucceeds
<1>1. CASE Start
  BY <1>1 DEF Start, LastRunIsFree, LastRunSucceeds
<1>2. CASE Step
  <2>1. pc # "off" /\ UNCHANGED <<runs, cancelled>> /\ (~cancelled /\ pc' = "off" => exit' = "ok")
    BY <1>2 DEF Step, WalkVisit, WalkCancelled, WalkFinished, MarkWalkComplete, SizesGate, EliminateUniqueSizes,
       PartialGate, PartialHashCandidates, BatchUpdatePartialHashes, AbandonPartialHashes,
       EliminateUniquePartialHashes, FullGate, FullHashCandidates, BatchUpdateFullHashes, AbandonFullHashes,
       AbandonRound, GroupsGate, Gate, NextRound, RoundStored, MaterializeDupGroups, Summarize, Proceed, Return, env
  <2> QED BY <2>1 DEF LastRunIsFree, LastRunSucceeds
<1>3. CASE Fault
  <2>1. runs < MaxRuns /\ UNCHANGED runs
    BY <1>3 DEF Fault, WalkFlushRetried, StoreError, Cancel, Crash, Return, env
  <2>2. runs # MaxRuns
    BY <2>1, BoundsAssumption DEF IInv, TypeOK
  <2> QED BY <2>1, <2>2 DEF LastRunIsFree, LastRunSucceeds
<1>4. CASE UNCHANGED vars
  BY <1>4 DEF vars, LastRunIsFree, LastRunSucceeds
<1> QED BY <1>1, <1>2, <1>3, <1>4 DEF Next, Terminated

\* A run that nobody stops ends without error, though files cannot be read.
THEOREM LastRunIsOk == Spec => [][LastRunSucceeds]_vars
<1>1. Init => LastRunIsFree
  BY DEF Init, LastRunIsFree
<1>2. IInv /\ LastRunIsFree /\ [Next]_vars => LastRunIsFree' /\ LastRunSucceeds
  BY LastRunStep
<1> QED BY Invariant, <1>1, <1>2, PTL DEF Spec
=============================================================================
