------------------------- MODULE ScanCompleteProofs -------------------------
(***************************************************************************)
(* What a scan of scanner/ and db/ finds: all duplicates, unless it was    *)
(* interrupted between two hashing rounds; what it has published stays,    *)
(* and it implements the abstract scan of module DupScan.                  *)
(***************************************************************************)
EXTENDS ScanPipelineProofs

\* The run has found all rows at phase 0: it is the first one, or it does the
\* walk itself.
FromStart == runs = 1 \/ visited # {}

OneRound == Cardinality(files) <= HashBatch

\* No interruption between two hashing rounds has preceded.
Unbroken == FromStart \/ OneRound \/ Faults = {}

\* Two files that have to be found: recorded, read, not empty, of one content.
Twins(f, g) ==
  /\ f # g
  /\ {f, g} \subseteq files \ errored
  /\ disk.content[f] = disk.content[g]
  /\ SizeOf(f) > 0

\* A hashing loop ends when no row is left at its phase.
LoopsEnd ==
  /\ pc \in {"partials", "full_gate", "full", "full_hashing", "groups_gate", "groups", "summary"} =>
       AtPhase(0) = {}
  /\ pc \in {"groups_gate", "groups", "summary"} => AtPhase(2) = {}

\* No elimination resolves a file that has a twin.
NotDropped ==
  Unbroken => \A f, g \in File : Twins(f, g) /\ phase[f] = 3 => full[f] # None

\* If a round takes all candidates, twins go through the phases together.
InStep ==
  OneRound =>
    /\ \A f, g \in File : Twins(f, g) => phase[f] = phase[g]
    /\ pc = "partial_hashing" => candidates = AtPhase(0)
    /\ pc = "full_hashing" => candidates = AtPhase(2)

\* Such a run comes to the eliminations with all rows at one phase.
FirstRun ==
  /\ runs = 0 => pc = "off" /\ ~walkDone
  /\ FromStart =>
       /\ pc \in {"walk", "mark", "sizes_gate", "sizes"} => \A f \in File : phase[f] = 0
       /\ pc \in {"partial_gate", "partial", "partial_hashing", "partials"} =>
            \A f \in File : full[f] # None => IsSmall(f)

\* If nothing goes wrong, later runs find all rows resolved.
LaterRunsRest ==
  Faults = {} =>
    /\ ~cancelled
    /\ runs > 1 \/ (runs = 1 /\ pc = "off") => walkDone /\ \A f \in files : phase[f] = 3

\* What MaterializeDupGroups links.
Published == {WithKey(k) : k \in DuplicateKeys}

\* The last transaction of a run that ends without error is the publication.
RunPublished ==
  /\ exit = "ok" => pc = "off"
  /\ pc = "summary" \/ exit = "ok" =>
       Report = Published /\ AtPhase(0) = {} /\ AtPhase(2) = {}

\* Groups are published only when all rows are resolved.
Settled == Report # {} => Report = Published /\ \A f \in files : phase[f] = 3

\* Errors are recorded for files that can fail, and groups need a walk.
ErrorsAreReal == errored \subseteq Flaky

CInv ==
  /\ LoopsEnd /\ NotDropped /\ InStep /\ FirstRun /\ LaterRunsRest /\ RunPublished
  /\ Settled /\ ErrorsAreReal /\ GroupTableConsistent

-----------------------------------------------------------------------------

\* What is said of the rows holds as long as they do not change.
LEMMA SameRows ==
  ASSUME UNCHANGED <<disk, rows>>
  PROVE  /\ AtPhase(0)' = AtPhase(0) /\ AtPhase(2)' = AtPhase(2)
         /\ OneRound' <=> OneRound
         /\ \A f, g \in File : Twins(f, g)' <=> Twins(f, g)
         /\ \A f \in File : IsSmall(f)' <=> IsSmall(f)
         /\ Published' = Published
<1> USE DEF rows, SizeOf
<1>1. AtPhase(0)' = AtPhase(0) /\ AtPhase(2)' = AtPhase(2)
  BY DEF AtPhase
<1>2. OneRound' <=> OneRound
  BY DEF OneRound
<1>3. \A f, g \in File : Twins(f, g)' <=> Twins(f, g)
  BY DEF Twins
<1>4. \A f \in File : IsSmall(f)' <=> IsSmall(f)
  BY DEF IsSmall
<1>5. Published' = Published
  BY DEF Published, DuplicateKeys, WithKey, KeyOf, Hashed, AtPhase
<1> QED BY <1>1, <1>2, <1>3, <1>4, <1>5

\* Groups stay consistent as long as the hashes of their files stay.
LEMMA SameGroups ==
  ASSUME UNCHANGED <<disk, groupTable>>, \A f \in File : group[f] # 0 => full'[f] = full[f]
  PROVE  Report' = Report /\ (GroupTableConsistent => GroupTableConsistent')
<1> USE DEF groupTable
<1>1. \A i : Members(i)' = Members(i)
  BY DEF Members
<1>2. Report' = Report
  BY <1>1 DEF Report
<1>3. ASSUME GroupTableConsistent PROVE GroupTableConsistent'
  <2>1. ASSUME NEW row \in dupGroups, NEW f \in Members(row.id)
        PROVE  SizeOf(f)' = row.size /\ full'[f] = row.hash
    <3>1. row.id # 0 /\ f \in File /\ group[f] = row.id
      BY <1>3, <2>1 DEF GroupTableConsistent, Members
    <3> QED BY <1>3, <2>1, <3>1 DEF GroupTableConsistent, SizeOf
  <2> QED BY <1>1, <1>3, <2>1 DEF GroupTableConsistent
<1> QED BY <1>2, <1>3

LEMMA SameTables ==
  ASSUME UNCHANGED <<disk, rows, groupTable>>
  PROVE  /\ AtPhase(0)' = AtPhase(0) /\ AtPhase(2)' = AtPhase(2)
         /\ OneRound' <=> OneRound
         /\ \A f, g \in File : Twins(f, g)' <=> Twins(f, g)
         /\ \A f \in File : IsSmall(f)' <=> IsSmall(f)
         /\ Report' = Report /\ Published' = Published
         /\ GroupTableConsistent => GroupTableConsistent'
<1>1. \A f \in File : full'[f] = full[f]
  BY DEF rows
<1> QED BY <1>1, SameRows, SameGroups

\* Before the walk is complete nothing is resolved or grouped.
LEMMA NothingBeforeWalk ==
  ASSUME IInv, ~walkDone
  PROVE  /\ \A f \in File : phase[f] = 0 /\ full[f] = None /\ group[f] = 0
         /\ Report = {} /\ Hashed = {} /\ Published = {}
<1>1. \A f \in File : phase[f] = 0
  BY DEF IInv, WalkProgress
<1>2. \A f \in File : full[f] = None /\ group[f] = 0
  BY <1>1 DEF IInv, RowsAgree, GroupsAgree
<1>3. Report = {}
  BY <1>2 DEF Report
<1>4. Hashed = {}
  BY <1>1 DEF Hashed, AtPhase, IInv, TypeOK
<1>5. Published = {}
  BY <1>4 DEF Published, DuplicateKeys
<1> QED BY <1>1, <1>2, <1>3, <1>4, <1>5

\* A round is empty only if no candidate is left.
LEMMA RoundOfNone ==
  ASSUME IInv, NEW p \in {0, 2}, {} \in LargestFirst(p)
  PROVE  AtPhase(p) = {}
BY BoundsAssumption, FS_EmptySet DEF LargestFirst

\* A round that takes all candidates.
LEMMA RoundOfAll ==
  ASSUME IInv, OneRound, NEW p \in {0, 2}, NEW c \in LargestFirst(p)
  PROVE  c = AtPhase(p)
<1>1. IsFiniteSet(files) /\ AtPhase(p) \subseteq files
  BY FileAssumption, FS_Subset DEF IInv, TypeOK, AtPhase
<1>2. Cardinality(AtPhase(p)) <= Cardinality(files) /\ Cardinality(files) \in Nat
      /\ Cardinality(AtPhase(p)) \in Nat
  BY <1>1, FS_Subset, FS_CardinalityType
<1>3. Cardinality(AtPhase(p)) <= HashBatch
  BY <1>2, BoundsAssumption DEF OneRound
<1> QED BY <1>3 DEF LargestFirst

\* A run that ends without a further statement.
LEMMA ReturnComplete ==
  ASSUME IInv, CInv, UNCHANGED <<rows, groupTable, scanState>>,
         NEW how \in {"interrupted", "failed", "killed"}, Return(how), Faults # {}
  PROVE  CInv'
<1> USE SameTables DEF CInv, Return
<1>1. LoopsEnd' /\ InStep' /\ RunPublished' /\ GroupTableConsistent'
  BY DEF LoopsEnd, InStep, RunPublished, rows
<1>2. NotDropped'
  BY DEF NotDropped, Unbroken, FromStart, rows
<1>3. FirstRun' /\ LaterRunsRest'
  BY DEF FirstRun, FromStart, LaterRunsRest, rows, scanState
<1>4. Settled' /\ ErrorsAreReal'
  BY DEF Settled, ErrorsAreReal, rows
<1> QED BY <1>1, <1>2, <1>3, <1>4

LEMMA StartComplete ==
  ASSUME IInv, CInv, Start
  PROVE  CInv'
<1> USE SameTables DEF CInv, Start, IsWalkComplete
<1>1. LoopsEnd' /\ InStep' /\ RunPublished' /\ GroupTableConsistent'
  BY DEF LoopsEnd, InStep, RunPublished, rows
<1>2. NotDropped'
  <2>1. CASE runs = 0
    BY <2>1, NothingBeforeWalk DEF FirstRun, NotDropped, rows
  <2>2. CASE runs # 0
    BY <2>2 DEF NotDropped, Unbroken, FromStart, rows, IInv, TypeOK
  <2> QED BY <2>1, <2>2
<1>3. FirstRun'
  <2>1. CASE runs = 0
    BY <2>1, NothingBeforeWalk DEF FirstRun, FromStart, rows, scanState
  <2>2. CASE runs # 0
    BY <2>2 DEF FirstRun, FromStart, IInv, TypeOK
  <2> QED BY <2>1, <2>2
<1>4. Settled' /\ ErrorsAreReal'
  BY DEF Settled, ErrorsAreReal, rows
<1>5. LaterRunsRest'
  BY DEF LaterRunsRest, rows, scanState, IInv, TypeOK
<1> QED BY <1>1, <1>2, <1>3, <1>4, <1>5

\* Steps within a run that write nothing.
LEMMA QuietComplete ==
  ASSUME IInv, CInv,
         \/ SizesGate \/ PartialGate \/ FullGate \/ GroupsGate
         \/ PartialHashCandidates \/ FullHashCandidates
         \/ AbandonPartialHashes \/ AbandonFullHashes \/ Summarize
         \/ Cancel \/ Crash \/ StoreError
  PROVE  CInv'
<1> USE SameTables DEF CInv
<1>1. CASE \E how \in {"interrupted", "failed", "killed"} : Return(how)
  <2>1. UNCHANGED <<rows, groupTable, scanState>>
    BY DEF SizesGate, PartialGate, FullGate, GroupsGate, Gate, PartialHashCandidates,
       FullHashCandidates, NextRound, AbandonPartialHashes, AbandonFullHashes, AbandonRound,
       Summarize, Cancel, Crash, StoreError
  <2>2. pc' = "off" /\ exit' # "ok"
    BY <1>1 DEF Return
  <2>3. cancelled \/ Faults # {}
    BY <2>2 DEF SizesGate, PartialGate, FullGate, GroupsGate, Gate, PartialHashCandidates,
       FullHashCandidates, NextRound, AbandonPartialHashes, AbandonFullHashes, AbandonRound,
       Summarize, Cancel, Crash, StoreError, Proceed, Return
  <2> QED BY <1>1, <2>1, <2>3, ReturnComplete DEF LaterRunsRest
<1>2. CASE Summarize
  <2> USE <1>2 DEF Summarize, Return
  <2>1. LoopsEnd' /\ InStep' /\ RunPublished' /\ GroupTableConsistent'
    BY DEF LoopsEnd, InStep, RunPublished, rows
  <2>2. NotDropped' /\ FirstRun'
    BY DEF NotDropped, Unbroken, FromStart, FirstRun, rows, scanState
  <2>3. Settled' /\ ErrorsAreReal'
    BY DEF Settled, ErrorsAreReal, rows
  <2>4. walkDone /\ \A f \in files : phase[f] = 3
    BY DEF LoopsEnd, AtPhase, IInv, WalkProgress, TypeOK
  <2>5. LaterRunsRest'
    BY <2>4 DEF LaterRunsRest, rows, scanState
  <2> QED BY <2>1, <2>2, <2>3, <2>5
<1>3. ASSUME UNCHANGED <<env, rows, groupTable, scanState, walk>>, LoopsEnd', InStep', FirstRun',
             pc' # "summary" \/ pc = "summary", exit = "ok" => pc' = "off",
             pc' # "off", pc # "off", cancelled' = cancelled \/ Faults # {}
      PROVE  CInv'
  BY <1>3 DEF RunPublished, NotDropped, Unbroken, FromStart, LaterRunsRest, Settled, ErrorsAreReal,
     rows, scanState, env, walk
<1>4. CASE /\ SizesGate \/ PartialGate \/ FullGate \/ GroupsGate
           /\ ~Return("interrupted")
  <2> USE <1>4 DEF SizesGate, PartialGate, FullGate, GroupsGate, Gate, Proceed, env
  <2>1. LoopsEnd' /\ InStep'
    BY DEF LoopsEnd, InStep, rows
  <2>2. FirstRun'
    BY DEF FirstRun, FromStart, env, rows, scanState, walk, IInv, RowsAgree
  <2> QED BY <1>3, <2>1, <2>2 DEF RunPublished
<1>5. CASE PartialHashCandidates
  <2> USE <1>5 DEF PartialHashCandidates, NextRound, Proceed, env
  <2>1. candidates' = {} => AtPhase(0) = {}
    BY RoundOfNone
  <2>2. LoopsEnd'
    BY <2>1 DEF LoopsEnd
  <2>3. OneRound => candidates' = AtPhase(0)
    BY RoundOfAll
  <2>4. InStep'
    BY <2>3 DEF InStep, rows
  <2>5. FirstRun'
    BY DEF FirstRun, FromStart, env, rows, scanState, walk
  <2> QED BY <1>3, <2>2, <2>4, <2>5 DEF RunPublished
<1>6. CASE FullHashCandidates
  <2> USE <1>6 DEF FullHashCandidates, NextRound, Proceed, env
  <2>1. candidates' = {} => AtPhase(2) = {}
    BY RoundOfNone
  <2>2. LoopsEnd'
    BY <2>1 DEF LoopsEnd
  <2>3. OneRound => candidates' = AtPhase(2)
    BY RoundOfAll
  <2>4. InStep'
    BY <2>3 DEF InStep, rows
  <2>5. FirstRun'
    BY DEF FirstRun, FromStart, env, rows, scanState, walk
  <2> QED BY <1>3, <2>2, <2>4, <2>5 DEF RunPublished
<1>7. CASE Cancel
  <2> USE <1>7 DEF Cancel, env
  <2>1. LoopsEnd' /\ InStep'
    BY DEF LoopsEnd, InStep, rows
  <2>2. FirstRun'
    BY DEF FirstRun, FromStart, env, rows, scanState, walk
  <2> QED BY <1>3, <2>1, <2>2 DEF RunPublished
<1>8. CASE AbandonPartialHashes \/ AbandonFullHashes \/ Crash \/ StoreError
  BY <1>1, <1>8 DEF AbandonPartialHashes, AbandonFullHashes, AbandonRound, Crash, StoreError
<1> QED BY <1>1, <1>2, <1>4, <1>5, <1>6, <1>7, <1>8

-----------------------------------------------------------------------------
\* The walk.

LEMMA WalkStepComplete ==
  ASSUME IInv, CInv, \/ \E f \in File : WalkVisit(f) \/ WalkFlushRetried(f)
                     \/ WalkCancelled \/ WalkFinished
  PROVE  CInv'
<1> USE DEF CInv, groupTable, scanState
<1>1. /\ pc = "walk" /\ pc' \in {"walk", "mark", "off"}
      /\ exit' \in {exit, "failed"} /\ runs' = runs
      /\ UNCHANGED <<disk, phase, full, errored, groupTable, scanState>>
  BY DEF WalkVisit, WalkFlushRetried, WalkCancelled, WalkFinished, Proceed, Return, env
<1>2. ~walkDone /\ runs # 0 /\ exit # "ok" /\ runs \in Nat
  BY <1>1 DEF IInv, WalkProgress, FirstRun, RunPublished, TypeOK
<1>3. \A f \in File : phase'[f] = 0
  BY <1>1, <1>2, NothingBeforeWalk
<1>4. Report' = {} /\ GroupTableConsistent'
  BY <1>1, <1>2, SameGroups, NothingBeforeWalk
<1>5. LoopsEnd' /\ RunPublished' /\ Settled' /\ ErrorsAreReal'
  BY <1>1, <1>2, <1>4 DEF LoopsEnd, RunPublished, Settled, ErrorsAreReal
<1>6. NotDropped' /\ InStep' /\ FirstRun'
  BY <1>1, <1>2, <1>3 DEF NotDropped, InStep, FirstRun
<1>7. LaterRunsRest'
  BY DEF LaterRunsRest, FirstRun, WalkVisit, WalkFlushRetried, WalkCancelled, WalkFinished, Proceed, Return, env,
     IInv, TypeOK, WalkProgress
<1> QED BY <1>4, <1>5, <1>6, <1>7

LEMMA MarkComplete ==
  ASSUME IInv, CInv, MarkWalkComplete
  PROVE  CInv'
<1> USE DEF CInv, MarkWalkComplete, Proceed, env
<1>1. ~walkDone /\ runs # 0 /\ exit # "ok"
  BY DEF IInv, WalkProgress, FirstRun, RunPublished
<1>2. \A f \in File : phase'[f] = 0
  BY <1>1, NothingBeforeWalk DEF rows
<1>3. Report' = {} /\ GroupTableConsistent'
  BY <1>1, SameTables, NothingBeforeWalk
<1>4. LoopsEnd' /\ RunPublished' /\ Settled' /\ ErrorsAreReal'
  BY <1>1, <1>3 DEF LoopsEnd, RunPublished, Settled, ErrorsAreReal, rows
<1>5. NotDropped' /\ InStep' /\ FirstRun'
  BY <1>1, <1>2 DEF NotDropped, InStep, FirstRun
<1>6. LaterRunsRest'
  BY <1>1 DEF LaterRunsRest, rows, IInv, TypeOK
<1> QED BY <1>3, <1>4, <1>5, <1>6

-----------------------------------------------------------------------------
\* The eliminations.

\* Twins have the same hashes.
LEMMA TwinsAlike ==
  ASSUME IInv, NEW f \in File, NEW g \in File, Twins(f, g)
  PROVE  /\ Twins(g, f) /\ SizeOf(f) = SizeOf(g) /\ SizeOf(f) # 0
         /\ PartialHashOf(f) = PartialHashOf(g) /\ (IsSmall(f) <=> IsSmall(g))
         /\ f \in files /\ g \in files /\ f \notin errored /\ g \notin errored
BY DiskType DEF IInv, TypeOK, Twins, SizeOf, IsSmall, PartialHashOf

\* Neither elimination resolves a file that has a twin.
LEMMA TwinsNotUnique ==
  ASSUME IInv, CInv, Unbroken, NEW f \in File, NEW g \in File, Twins(f, g)
  PROVE  /\ pc = "sizes" /\ f \in AtPhase(0) => ~UniqueSize(f)
         /\ pc = "partials" /\ f \in AtPhase(2) => ~UniquePartialHash(f)
<1> USE DEF CInv
<1>1. CASE pc = "sizes" /\ f \in AtPhase(0)
  <2>1. phase[g] = 0
    <3>1. CASE FromStart \/ OneRound
      BY <1>1, <3>1 DEF InStep, FirstRun, AtPhase
    <3>2. CASE Faults = {} /\ ~FromStart
      BY <1>1, <3>2 DEF LaterRunsRest, FirstRun, FromStart, AtPhase, IInv, TypeOK
    <3> QED BY <3>1, <3>2 DEF Unbroken
  <2>2. g \in AtPhase(0) /\ f # g
    BY <2>1 DEF Twins, AtPhase
  <2> QED BY <1>1, <2>2, TwinsAlike DEF UniqueSize
<1>2. CASE pc = "partials" /\ f \in AtPhase(2)
  <2>1. phase[f] = 2 /\ ~IsSmall(f)
    BY <1>2 DEF AtPhase, IInv, RowsAgree
  <2>2. phase[g] = 2
    <3>1. CASE OneRound
      BY <2>1, <3>1 DEF InStep
    <3>2. CASE FromStart
      <4>1. phase[g] # 0
        BY <1>2, TwinsAlike DEF LoopsEnd, AtPhase
      <4>2. full[g] = None
        BY <1>2, <2>1, <3>2, TwinsAlike DEF FirstRun
      <4>3. phase[g] # 3
        BY <4>2, TwinsAlike DEF NotDropped
      <4> QED BY <4>1, <4>3 DEF IInv, TypeOK
    <3>3. CASE Faults = {} /\ ~FromStart
      BY <1>2, <3>3 DEF LaterRunsRest, FirstRun, FromStart, AtPhase, IInv, TypeOK
    <3> QED BY <3>1, <3>2, <3>3 DEF Unbroken
  <2>3. partial[f] = partial[g]
    BY <2>1, <2>2, TwinsAlike DEF IInv, RowsAgree
  <2>4. g \in AtPhase(2) /\ f # g
    BY <2>2 DEF Twins, AtPhase
  <2> QED BY <1>2, <2>3, <2>4, TwinsAlike DEF UniquePartialHash
<1> QED BY <1>1, <1>2

LEMMA EliminateComplete ==
  ASSUME IInv, CInv, EliminateUniqueSizes \/ EliminateUniquePartialHashes
  PROVE  CInv'
<1> USE DEF CInv
<1>1. /\ UNCHANGED <<disk, files, partial, full, errored, group, dupGroups, nextGroup, exit, runs,
                       visited, walkDone, cancelled>>
      /\ \/ pc = "sizes" /\ pc' = "partial_gate"
         \/ pc = "partials" /\ pc' = "full_gate"
      /\ \A f \in File : phase'[f] \in {phase[f], 3}
  BY DEF EliminateUniqueSizes, EliminateUniquePartialHashes, Proceed, groupTable, env, scanState, walk
<1>2. exit # "ok" /\ runs # 0
  BY <1>1 DEF RunPublished, FirstRun
<1>3. (OneRound' <=> OneRound) /\ (Unbroken' <=> Unbroken)
  BY <1>1 DEF OneRound, Unbroken, FromStart
<1>4. \A f, g \in File : Twins(f, g)' <=> Twins(f, g)
  BY <1>1 DEF Twins, SizeOf
<1>5. ASSUME NEW f \in File, NEW g \in File, Unbroken, Twins(f, g) PROVE phase'[f] = phase[f]
  <2>1. CASE EliminateUniqueSizes
    BY <1>5, <2>1, TwinsNotUnique, TwinsAlike DEF EliminateUniqueSizes
  <2>2. CASE EliminateUniquePartialHashes
    BY <1>5, <2>2, TwinsNotUnique DEF EliminateUniquePartialHashes
  <2> QED BY <2>1, <2>2
<1>6. LoopsEnd'
  BY <1>1 DEF LoopsEnd, AtPhase, IInv, TypeOK
<1>7. NotDropped'
  BY <1>1, <1>3, <1>4, <1>5 DEF NotDropped
<1>8. InStep'
  <2>1. OneRound => \A f, g \in File : Twins(f, g) => phase'[f] = phase[f] /\ phase'[g] = phase[g]
    BY <1>5, TwinsAlike DEF Unbroken
  <2> QED BY <1>1, <1>3, <1>4, <2>1 DEF InStep
<1>9. FirstRun'
  BY <1>1, <1>2 DEF FirstRun, FromStart, IInv, RowsAgree
<1>10. RunPublished' /\ ErrorsAreReal'
  BY <1>1, <1>2 DEF RunPublished, ErrorsAreReal
<1>11. Report' = Report /\ GroupTableConsistent'
  BY <1>1, SameGroups DEF groupTable
<1>12. Settled'
  <2> SUFFICES ASSUME Report # {} PROVE Report' = Published' /\ \A f \in files' : phase'[f] = 3
    BY <1>11 DEF Settled
  <2>1. AtPhase(0) = {} /\ AtPhase(2) = {}
    BY DEF Settled, AtPhase
  <2>2. phase' = phase
    BY <2>1 DEF EliminateUniqueSizes, EliminateUniquePartialHashes, IInv, TypeOK
  <2>3. Published' = Published
    BY <1>1, <2>2, SameRows DEF rows
  <2> QED BY <1>1, <1>11, <2>2, <2>3 DEF Settled
<1>13. LaterRunsRest'
  BY <1>1 DEF LaterRunsRest, IInv, TypeOK
<1> QED BY <1>6, <1>7, <1>8, <1>9, <1>10, <1>11, <1>12, <1>13

-----------------------------------------------------------------------------
\* The hashing rounds.

LEMMA StoreComplete ==
  ASSUME IInv, CInv, BatchUpdatePartialHashes \/ BatchUpdateFullHashes
  PROVE  CInv'
<1> USE DEF CInv
<1>1. /\ UNCHANGED <<disk, files, group, dupGroups, nextGroup, runs, walkDone, cancelled>>
      /\ visited' \in {visited, {}} /\ (pc' = "off" => cancelled)
      /\ exit' \in {exit, "failed"}
      /\ \/ pc = "partial_hashing" /\ pc' \in {"partial", "off"} /\ candidates \subseteq AtPhase(0)
         \/ pc = "full_hashing" /\ pc' \in {"full", "off"} /\ candidates \subseteq AtPhase(2)
  BY DEF BatchUpdatePartialHashes, BatchUpdateFullHashes, RoundStored, Proceed, Return,
     groupTable, scanState, walk, env, IInv, CandidatesFit
<1>2. exit # "ok" /\ runs # 0
  BY <1>1 DEF RunPublished, FirstRun
<1>3. \A f \in candidates : f \in File /\ full[f] = None /\ phase[f] \in {0, 2}
  BY <1>1 DEF AtPhase, IInv, TypeOK, RowsAgree
<1>4. PICK bad \in SUBSET (candidates \cap Flaky) :
        /\ errored' = errored \cup bad
        /\ \A f \in File \ candidates : phase'[f] = phase[f] /\ full'[f] = full[f] /\ partial'[f] = partial[f]
        /\ \A f \in candidates \ bad :
             \/ phase'[f] = 3 /\ full'[f] # None /\ (IsSmall(f) \/ pc = "full_hashing")
             \/ phase'[f] = 2 /\ full'[f] = None /\ ~IsSmall(f) /\ pc = "partial_hashing"
        /\ \A f \in bad : phase'[f] = 3 /\ full'[f] = None
  <2>1. \A f \in File : disk.content[f] # None /\ PartialHashOf(f) # None
    BY DiskType, HashAssumption DEF IInv, TypeOK
  <2>2. CASE BatchUpdatePartialHashes
    <3>1. PICK bad \in SUBSET (candidates \cap Flaky) :
            LET good == candidates \ bad
                small == {f \in good : IsSmall(f)}
            IN /\ partial' = [f \in File |-> IF f \in good THEN PartialHashOf(f) ELSE partial[f]]
               /\ full' = [f \in File |-> IF f \in small THEN PartialHashOf(f) ELSE full[f]]
               /\ phase' = [f \in File |-> IF f \in small \cup bad THEN 3
                                           ELSE IF f \in good THEN 2 ELSE phase[f]]
               /\ errored' = errored \cup bad
      BY <2>2 DEF BatchUpdatePartialHashes
    <3>2. pc = "partial_hashing"
      BY <2>2 DEF BatchUpdatePartialHashes
    <3>3. \A f \in File \ candidates : phase'[f] = phase[f] /\ full'[f] = full[f] /\ partial'[f] = partial[f]
      BY <3>1
    <3>4. \A f \in candidates \ bad :
             \/ phase'[f] = 3 /\ full'[f] # None /\ IsSmall(f)
             \/ phase'[f] = 2 /\ full'[f] = None /\ ~IsSmall(f)
      BY <1>3, <2>1, <3>1
    <3>5. \A f \in bad : phase'[f] = 3 /\ full'[f] = None
      BY <1>3, <3>1
    <3> QED BY <3>1, <3>2, <3>3, <3>4, <3>5
  <2>3. CASE BatchUpdateFullHashes
    <3>1. PICK bad \in SUBSET (candidates \cap Flaky) :
            /\ full' = [f \in File |-> IF f \in candidates \ bad THEN disk.content[f] ELSE full[f]]
            /\ errored' = errored \cup bad
      BY <2>3 DEF BatchUpdateFullHashes
    <3>2. /\ pc = "full_hashing" /\ partial' = partial
          /\ phase' = [f \in File |-> IF f \in candidates THEN 3 ELSE phase[f]]
      BY <2>3 DEF BatchUpdateFullHashes
    <3> QED BY <1>3, <2>1, <3>1, <3>2
  <2> QED BY <2>2, <2>3
<1>5. (OneRound' <=> OneRound) /\ (FromStart' => FromStart) /\ (Unbroken' => Unbroken)
  BY <1>1 DEF OneRound, Unbroken, FromStart
<1>6. ASSUME NEW f \in File, NEW g \in File, Twins(f, g)'
      PROVE  Twins(f, g) /\ f \notin bad /\ g \notin bad
  BY <1>1, <1>4, <1>6 DEF Twins, SizeOf
<1>7. LoopsEnd'
  <2>1. \A f \in File : phase'[f] = 0 => phase[f] = 0
    BY <1>3, <1>4
  <2>2. AtPhase(0) = {} => AtPhase(0)' = {}
    BY <1>1, <2>1 DEF AtPhase, IInv, TypeOK
  <2> QED BY <1>1, <2>2 DEF LoopsEnd
<1>8. NotDropped'
  BY <1>4, <1>5, <1>6 DEF NotDropped
<1>9. InStep'
  <2> SUFFICES ASSUME OneRound, NEW f \in File, NEW g \in File, Twins(f, g)'
               PROVE  phase'[f] = phase'[g]
    BY <1>1, <1>5 DEF InStep
  <2>1. phase[f] = phase[g] /\ (IsSmall(f) <=> IsSmall(g)) /\ f \in files /\ g \in files
    BY <1>6, TwinsAlike DEF InStep
  <2>2. f \in candidates <=> g \in candidates
    BY <1>1, <2>1 DEF InStep, AtPhase
  <2> QED BY <1>4, <1>6, <2>1, <2>2
<1>10. FirstRun'
  <2> SUFFICES ASSUME FromStart, pc' = "partial", NEW f \in File, full'[f] # None
               PROVE  IsSmall(f)
    BY <1>1, <1>2, <1>5 DEF FirstRun, IsSmall, SizeOf
  <2> QED BY <1>1, <1>4 DEF FirstRun
<1>11. RunPublished' /\ ErrorsAreReal'
  BY <1>1, <1>2, <1>4 DEF RunPublished, ErrorsAreReal
<1>12. Report' = Report /\ GroupTableConsistent'
  <2>1. \A f \in File : group[f] # 0 => full'[f] = full[f]
    BY <1>3, <1>4 DEF IInv, GroupsAgree
  <2> QED BY <1>1, <2>1, SameGroups DEF groupTable
<1>13. Settled'
  <2> SUFFICES ASSUME Report # {} PROVE Report' = Published' /\ \A f \in files' : phase'[f] = 3
    BY <1>12 DEF Settled
  <2>1. candidates = {}
    BY <1>1 DEF Settled, AtPhase
  <2>2. phase' = phase /\ full' = full /\ partial' = partial
    BY <2>1 DEF BatchUpdatePartialHashes, BatchUpdateFullHashes, IInv, TypeOK
  <2>3. errored' = errored
    BY <1>4, <2>1
  <2>4. Published' = Published
    BY <1>1, <2>2, <2>3, SameRows DEF rows
  <2> QED BY <1>1, <1>12, <2>2, <2>4 DEF Settled
<1>14. LaterRunsRest'
  <2> SUFFICES ASSUME Faults = {}, runs > 1 PROVE \A f \in files : phase'[f] = 3
    BY <1>1, <1>2 DEF LaterRunsRest, IInv, TypeOK
  <2>1. candidates = {}
    BY <1>1 DEF LaterRunsRest, AtPhase
  <2> QED BY <1>1, <1>4, <2>1 DEF LaterRunsRest, IInv, TypeOK
<1> QED BY <1>7, <1>8, <1>9, <1>10, <1>11, <1>12, <1>13, <1>14

-----------------------------------------------------------------------------
\* The groups.

LEMMA MaterializeComplete ==
  ASSUME IInv, CInv, MaterializeDupGroups
  PROVE  CInv'
<1> USE DEF CInv
<1>1. /\ UNCHANGED <<disk, rows, exit, runs, visited, walkDone, cancelled>> /\ pc = "groups" /\ pc' = "summary"
  BY DEF MaterializeDupGroups, Proceed, env, scanState, walk
<1>2. exit # "ok" /\ runs # 0
  BY <1>1 DEF RunPublished, FirstRun
<1>3. AtPhase(0)' = {} /\ AtPhase(2)' = {} /\ \A f \in files' : phase'[f] = 3
  <2>1. AtPhase(0)' = {} /\ AtPhase(2)' = {}
    BY <1>1, SameRows DEF LoopsEnd
  <2> QED BY <1>1, <2>1 DEF AtPhase, rows, IInv, TypeOK
<1>4. LoopsEnd' /\ FirstRun' /\ ErrorsAreReal'
  BY <1>1, <1>2, <1>3 DEF LoopsEnd, FirstRun, ErrorsAreReal, rows
<1>5. NotDropped' /\ InStep'
  BY <1>1, SameRows DEF NotDropped, InStep, Unbroken, FromStart, rows
<1> DEFINE Ids == nextGroup .. (nextGroup + Cardinality(DuplicateKeys) - 1)
<1> PICK id \in Bijection(DuplicateKeys, Ids) :
       /\ dupGroups' = {GroupRow(id[k], k) : k \in DuplicateKeys}
       /\ group' = [f \in File |->
                      IF f \in Hashed /\ KeyOf(f) \in DuplicateKeys THEN id[KeyOf(f)] ELSE 0]
  BY DEF MaterializeDupGroups
<1>6. /\ \A k \in DuplicateKeys : id[k] # 0
      /\ \A j, k \in DuplicateKeys : id[j] = id[k] => j = k
  <2>1. nextGroup \in Nat \ {0} /\ Cardinality(DuplicateKeys) \in Nat
    BY FinitelyManyKeys DEF IInv, TypeOK
  <2> QED BY <2>1 DEF Bijection, Injection, IsInjective
<1>7. \A k \in DuplicateKeys : Members(id[k])' = WithKey(k)
  <2> SUFFICES ASSUME NEW k \in DuplicateKeys, NEW f \in File
               PROVE  group'[f] = id[k] <=> f \in Hashed /\ KeyOf(f) = k
    BY DEF Members, WithKey, Hashed, AtPhase, IInv, TypeOK
  <2> QED BY <1>6
<1>8. {group'[f] : f \in File} \ {0} = {id[k] : k \in DuplicateKeys}
  <2>1. ASSUME NEW k \in DuplicateKeys PROVE \E f \in File : group'[f] = id[k]
    <3>1. PICK f \in Hashed : KeyOf(f) = k
      BY DEF DuplicateKeys
    <3> QED BY <3>1 DEF Hashed, AtPhase, IInv, TypeOK
  <2> QED BY <1>6, <2>1
<1>9. Report' = Published'
  <2>1. Report' = {WithKey(k) : k \in DuplicateKeys}
    <3>1. Report' = {Members(i)' : i \in {group'[f] : f \in File} \ {0}}
      BY DEF Report
    <3>2. Report' = {Members(i)' : i \in {id[k] : k \in DuplicateKeys}}
      BY <1>8, <3>1, Zenon
    <3> QED BY <1>7, <3>2
  <2> QED BY <1>1, <2>1, SameRows DEF Published
<1>10. GroupTableConsistent'
  <2>1. {row.id : row \in dupGroups'} = {group'[f] : f \in File} \ {0}
    <3>1. \A k \in DuplicateKeys : GroupRow(id[k], k).id = id[k]
      BY DEF GroupRow
    <3>2. {row.id : row \in dupGroups'} = {id[k] : k \in DuplicateKeys}
      BY <3>1
    <3> QED BY <1>8, <3>2
  <2>2. \A r, s \in dupGroups' : r.id = s.id => r = s
    BY <1>6 DEF GroupRow
  <2>3. ASSUME NEW row \in dupGroups'
        PROVE  /\ row.count = Cardinality(Members(row.id)')
               /\ \A f \in Members(row.id)' : SizeOf(f)' = row.size /\ full'[f] = row.hash
    <3>1. PICK k \in DuplicateKeys : row = GroupRow(id[k], k)
      OBVIOUS
    <3>2. Members(row.id)' = WithKey(k)
      BY <1>7, <3>1 DEF GroupRow
    <3>3. \A f \in WithKey(k) : SizeOf(f) = k[1] /\ full[f] = k[2]
      BY DEF WithKey, KeyOf
    <3> QED BY <1>1, <3>1, <3>2, <3>3 DEF GroupRow, SizeOf, rows
  <2> QED BY <2>1, <2>2, <2>3 DEF GroupTableConsistent
<1>11. RunPublished' /\ Settled'
  BY <1>1, <1>2, <1>3, <1>9 DEF RunPublished, Settled
<1>12. LaterRunsRest'
  BY <1>1 DEF LaterRunsRest, rows, IInv, TypeOK
<1> QED BY <1>4, <1>5, <1>10, <1>11, <1>12

-----------------------------------------------------------------------------

LEMMA CompleteInit == Init => CInv
<1> SUFFICES ASSUME Init PROVE CInv
  OBVIOUS
<1>1. Report = {}
  BY DEF Init, Report
<1> QED BY <1>1 DEF Init, CInv, LoopsEnd, NotDropped, InStep, FirstRun, FromStart, LaterRunsRest, RunPublished, Settled,
    ErrorsAreReal, GroupTableConsistent, AtPhase

LEMMA CompleteNext == IInv /\ CInv /\ [Next]_vars => CInv'
<1> SUFFICES ASSUME IInv, CInv, [Next]_vars PROVE CInv'
  OBVIOUS
<1>1. CASE UNCHANGED vars
  <2>1. UNCHANGED <<disk, rows, groupTable, scanState, pc, candidates, visited, cancelled, exit, runs>>
    BY <1>1 DEF vars, rows, groupTable, scanState
  <2>2. LoopsEnd' /\ NotDropped' /\ InStep' /\ FirstRun'
    BY <2>1, SameTables DEF CInv, LoopsEnd, NotDropped, Unbroken, FromStart, InStep, FirstRun, rows, scanState
  <2>3. RunPublished' /\ Settled' /\ ErrorsAreReal' /\ GroupTableConsistent'
    BY <2>1, SameTables DEF CInv, RunPublished, Settled, ErrorsAreReal, rows
  <2>4. LaterRunsRest'
    BY <2>1 DEF CInv, LaterRunsRest, rows, scanState
  <2> QED BY <2>2, <2>3, <2>4 DEF CInv
<1>2. CASE Start
  BY <1>2, StartComplete
<1>3. CASE \/ \E f \in File : WalkVisit(f) \/ WalkFlushRetried(f)
           \/ WalkCancelled \/ WalkFinished
  BY <1>3, WalkStepComplete
<1>4. CASE MarkWalkComplete
  BY <1>4, MarkComplete
<1>5. CASE \/ SizesGate \/ PartialGate \/ FullGate \/ GroupsGate
           \/ PartialHashCandidates \/ FullHashCandidates
           \/ AbandonPartialHashes \/ AbandonFullHashes \/ Summarize
           \/ Cancel \/ Crash \/ StoreError
  BY <1>5, QuietComplete
<1>6. CASE EliminateUniqueSizes \/ EliminateUniquePartialHashes
  BY <1>6, EliminateComplete
<1>7. CASE BatchUpdatePartialHashes \/ BatchUpdateFullHashes
  BY <1>7, StoreComplete
<1>8. CASE MaterializeDupGroups
  BY <1>8, MaterializeComplete
<1> QED BY <1>1, <1>2, <1>3, <1>4, <1>5, <1>6, <1>7, <1>8 DEF Next, Step, Fault, Terminated

LEMMA CompleteInvariant == Spec => [](IInv /\ CInv)
BY InitInvariant, NextInvariant, CompleteInit, CompleteNext, PTL DEF Spec

-----------------------------------------------------------------------------

\* The two tables that MaterializeDupGroups writes agree, after any number of runs
\* that clear and write them again.
THEOREM TablesAgree == Spec => []GroupTableConsistent
BY CompleteInvariant, PTL DEF CInv

LEMMA OnlyMaterializePublishes ==
  ASSUME [Next]_vars, ~MaterializeDupGroups
  PROVE  Report' = Report
<1>1. UNCHANGED group
  BY DEF Next, Step, Fault, Terminated, vars, Start, WalkVisit, WalkFlushRetried, WalkCancelled, WalkFinished,
     MarkWalkComplete, SizesGate, PartialGate, FullGate, GroupsGate, Gate, EliminateUniqueSizes,
     PartialHashCandidates, FullHashCandidates, NextRound, BatchUpdatePartialHashes,
     AbandonPartialHashes, AbandonFullHashes, AbandonRound, EliminateUniquePartialHashes,
     BatchUpdateFullHashes, Summarize, Cancel, Crash, StoreError, groupTable
<1> QED BY <1>1 DEF Report, Members

LEMMA StableStep ==
  ASSUME IInv, CInv, [Next]_vars, Report # {}
  PROVE  Report' = Report
<1>1. CASE MaterializeDupGroups
  <2>1. Report' = Published'
    BY <1>1, MaterializeComplete DEF CInv, RunPublished, MaterializeDupGroups, Proceed
  <2>2. Published' = Published
    BY <1>1, SameRows DEF MaterializeDupGroups, Proceed, env
  <2> QED BY <2>1, <2>2 DEF CInv, Settled
<1> QED BY <1>1, OnlyMaterializePublishes

\* What has been published stays published.
THEOREM Stability == Spec => PublishedGroupsAreStable
<1>1. IInv /\ CInv /\ [Next]_vars => [Report # {} => Report' = Report]_vars
  BY StableStep
<1> QED BY CompleteInvariant, <1>1, PTL DEF Spec, PublishedGroupsAreStable

\* When all rows are resolved and none was dropped, the groups are exactly the
\* sets of duplicates.
LEMMA PublishedIsAll ==
  ASSUME IInv, NotDropped, Unbroken, AtPhase(0) = {}, AtPhase(2) = {}
  PROVE  Published = DuplicateClasses(disk, files \ errored)
<1> DEFINE S == files \ errored
<1>1. S \subseteq File /\ Hashed \subseteq S /\ \A f \in files : phase[f] = 3
  BY DEF IInv, TypeOK, Hashed, AtPhase
<1>2. \A f \in Hashed : full[f] = disk.content[f] /\ SizeOf(f) > 0
  BY <1>1 DEF IInv, RowsAgree, Hashed
<1>3. \A f \in Hashed : WithKey(KeyOf(f)) = {g \in Hashed : disk.content[g] = disk.content[f]}
  BY <1>2 DEF WithKey, KeyOf, SizeOf
<1>4. ASSUME NEW f \in S, SizeOf(f) > 0, NEW g \in S, NEW h \in S,
             disk.content[g] = disk.content[f], disk.content[h] = disk.content[f],
             disk.inode[g] # disk.inode[h]
      PROVE  SameContent(disk, S, f) \subseteq Hashed
  <2> SUFFICES ASSUME NEW e \in S, disk.content[e] = disk.content[f] PROVE e \in Hashed
    BY DEF SameContent
  <2>1. Twins(e, g) \/ Twins(e, h)
    BY <1>4 DEF Twins, SizeOf
  <2>2. full[e] # None
    BY <1>1, <2>1 DEF NotDropped
  <2> QED BY <1>1, <2>2 DEF Hashed, AtPhase
<1>5. \A f \in Duplicates(disk, S) : SameContent(disk, S, f) = WithKey(KeyOf(f)) /\ KeyOf(f) \in DuplicateKeys
  <2> SUFFICES ASSUME NEW f \in Duplicates(disk, S)
               PROVE  SameContent(disk, S, f) = WithKey(KeyOf(f)) /\ KeyOf(f) \in DuplicateKeys
    OBVIOUS
  <2>1. PICK g, h \in SameContent(disk, S, f) : disk.inode[g] # disk.inode[h]
    BY DEF Duplicates
  <2>2. f \in S /\ SizeOf(f) > 0 /\ f \in SameContent(disk, S, f)
    BY DEF Duplicates, SizeOf, SameContent
  <2>3. SameContent(disk, S, f) \subseteq Hashed
    BY <1>4, <2>1, <2>2 DEF SameContent
  <2>4. SameContent(disk, S, f) = WithKey(KeyOf(f))
    BY <1>1, <1>3, <2>2, <2>3 DEF SameContent
  <2> QED BY <2>1, <2>2, <2>3, <2>4 DEF DuplicateKeys
<1>6. ASSUME NEW k \in DuplicateKeys
      PROVE  \E f \in Duplicates(disk, S) : KeyOf(f) = k
  <2>1. PICK f \in Hashed : KeyOf(f) = k
    BY DEF DuplicateKeys
  <2>2. PICK g, h \in WithKey(k) : disk.inode[g] # disk.inode[h]
    BY DEF DuplicateKeys
  <2>3. g \in SameContent(disk, S, f) /\ h \in SameContent(disk, S, f)
    BY <1>1, <1>3, <2>1, <2>2 DEF SameContent
  <2>4. f \in Duplicates(disk, S)
    BY <1>1, <1>2, <2>1, <2>2, <2>3 DEF Duplicates, SizeOf
  <2> QED BY <2>1, <2>4
<1> QED BY <1>5, <1>6 DEF Published, DuplicateClasses

\* A scan that ends without error has found all duplicates, if it did the walk
\* itself or if one hashing round holds all rows.
THEOREM Completeness == Spec => []Complete
<1>1. IInv /\ CInv => Complete
  BY PublishedIsAll DEF CInv, RunPublished, Complete, Unbroken, FromStart, OneRound
<1> QED BY CompleteInvariant, <1>1, PTL

\* The scan implements the abstract scan, if one hashing round holds all files,
\* or in any number of rounds and runs if none of these is interrupted.
THEOREM Refinement ==
  ASSUME Cardinality(File) <= HashBatch \/ Faults = {}
  PROVE  Spec => ScanRefinement
<1>1. Init => Scan!Init
  BY DEF Init, Scan!Init, Report
<1>2. ASSUME IInv, CInv, [Next]_vars, CInv' PROVE [Scan!Publish]_<<disk, Report>>
  <2>1. UNCHANGED disk
    BY <1>2 DEF Next, Step, Fault, Terminated, vars, Start, WalkVisit, WalkFlushRetried, WalkCancelled, WalkFinished,
       MarkWalkComplete, SizesGate, PartialGate, FullGate, GroupsGate, Gate, EliminateUniqueSizes,
       PartialHashCandidates, FullHashCandidates, NextRound, BatchUpdatePartialHashes,
       AbandonPartialHashes, AbandonFullHashes, AbandonRound, EliminateUniquePartialHashes,
       BatchUpdateFullHashes, MaterializeDupGroups, RoundStored, Return, Proceed, Summarize, Cancel,
       Crash, StoreError, env
  <2>2. CASE Report # {} \/ Report' = Report
    BY <1>2, <2>1, <2>2, StableStep
  <2>3. CASE Report = {} /\ ~MaterializeDupGroups
    BY <1>2, <2>1, <2>3, OnlyMaterializePublishes
  <2>4. CASE Report = {} /\ MaterializeDupGroups
    <3> DEFINE unread == File \ (files \ errored)
    <3>1. files \subseteq File /\ IsFiniteSet(File)
      BY <1>2, FileAssumption DEF IInv, TypeOK
    <3>2. Unbroken
      <4>1. Cardinality(files) <= Cardinality(File) /\ Cardinality(File) \in Nat /\ Cardinality(files) \in Nat
        BY <3>1, FS_Subset, FS_CardinalityType
      <4> QED BY <4>1, BoundsAssumption DEF OneRound, Unbroken
    <3>3. LoopsEnd /\ pc = "groups" /\ NotDropped
      BY <1>2, <2>4 DEF CInv, MaterializeDupGroups
    <3>4. Published = DuplicateClasses(disk, files \ errored)
      BY <1>2, <3>2, <3>3, PublishedIsAll DEF LoopsEnd
    <3>5. Report' = Published' /\ Published' = Published
      BY <1>2, <2>4, SameRows DEF CInv, RunPublished, MaterializeDupGroups, Proceed, env
    <3>6. walkDone
      BY <1>2, <3>3 DEF IInv, WalkProgress
    <3>7. unread \in SUBSET Flaky
      BY <1>2, <3>6, FileAssumption DEF IInv, WalkDoneMeansAllRecorded, CInv, ErrorsAreReal
    <3>8. files \ errored = File \ unread
      BY <3>1
    <3>9. Scan!DuplicateClasses(disk, File \ unread) = DuplicateClasses(disk, File \ unread)
      BY DEF Scan!DuplicateClasses, Scan!Duplicates, Scan!SameContent,
             DuplicateClasses, Duplicates, SameContent
    <3>10. Report' = Scan!DuplicateClasses(disk, File \ unread)
      BY <3>4, <3>5, <3>8, <3>9
    <3> HIDE DEF unread
    <3> QED BY <2>1, <2>4, <3>7, <3>10 DEF Scan!Publish
  <2> QED BY <2>2, <2>3, <2>4
<1>3. IInv /\ CInv /\ [Next]_vars /\ CInv' => [Scan!Publish]_<<disk, Report>>
  BY <1>2
<1> QED BY CompleteInvariant, <1>1, <1>3, PTL DEF Spec, ScanRefinement, Scan!Spec, Scan!vars
=============================================================================
