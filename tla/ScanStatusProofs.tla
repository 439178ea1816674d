-------------------------- MODULE ScanStatusProofs --------------------------
(***************************************************************************)
(* What cmd/status.go reports of a scan that goes on while it asks.        *)
(***************************************************************************)
EXTENDS ScanStatus, ScanCompleteProofs

\* What was printed holds for good.
ShownHolds ==
  /\ shown > 1 => walkDone
  /\ shown > 3 => AtPhase(0) = {}
  /\ shown = 6 => AtPhase(2) = {}

\* What was read and is still to be printed holds for good as well, and is not
\* behind what the previous command has printed.
AnswerHolds ==
  asking # "off" =>
    /\ answer.walkDone => walkDone
    /\ shown > 1 => answer.walkDone
    /\ asking # "counts" /\ answer.walkDone =>
         /\ answer.counts[0] = 0 => AtPhase(0) = {}
         /\ answer.counts[0] = 0 /\ answer.counts[2] = 0 => AtPhase(2) = {}
         /\ shown > 3 => answer.counts[0] = 0
         /\ shown = 6 => answer.counts[2] = 0
         /\ answer.counts[0] + answer.counts[2] + answer.counts[3] = Cardinality(files)

\* The groups counted or printed are all there are, for good.
Resolved == walkDone /\ AtPhase(0) = {} /\ AtPhase(2) = {}

GroupsHold ==
  /\ found > 0 => Resolved /\ found = Cardinality(Report)
  /\ answer.groups \in {0, Cardinality(Report)}
  /\ answer.groups > 0 => Resolved
  /\ answer.groups > 0 \/ found > 0 => Report # {}
  /\ asking = "files" /\ found > 0 => answer.groups = found
  /\ asking # "off" /\ found > 0 => answer.walkDone
  /\ asking \in {"summary", "files"} /\ found > 0 => answer.counts[0] = 0 /\ answer.counts[2] = 0

SInv == StatusTypeOK /\ ShownHolds /\ AnswerHolds /\ GroupsHold

-----------------------------------------------------------------------------

\* Once the walk is done, rows are neither added nor taken back to a phase that
\* none of them is in any more.
LEMMA ScanMovesOn ==
  ASSUME IInv, [Next]_vars, walkDone
  PROVE  /\ walkDone' /\ files' = files
         /\ AtPhase(0) = {} => AtPhase(0)' = {}
         /\ AtPhase(0) = {} /\ AtPhase(2) = {} => AtPhase(2)' = {}
<1>1. pc \notin {"walk", "mark"}
  BY DEF IInv, WalkProgress
<1>2. walkDone' /\ files' = files
  BY <1>1 DEF Next, Step, Fault, Terminated, vars, Start, WalkVisit, WalkFlushRetried, WalkCancelled,
     WalkFinished, MarkWalkComplete, SizesGate, PartialGate, FullGate, GroupsGate, Gate,
     EliminateUniqueSizes, PartialHashCandidates, FullHashCandidates, NextRound,
     BatchUpdatePartialHashes, AbandonPartialHashes, AbandonFullHashes, AbandonRound,
     EliminateUniquePartialHashes, BatchUpdateFullHashes, MaterializeDupGroups, Summarize,
     Cancel, Crash, StoreError, rows, scanState
<1>3. \A f \in files : \/ phase'[f] = phase[f]
                       \/ phase[f] = 0 /\ phase'[f] \in {2, 3}
                       \/ phase[f] = 2 /\ phase'[f] \in {2, 3}
  <2>1. CASE EliminateUniqueSizes \/ EliminateUniquePartialHashes
    BY <2>1 DEF EliminateUniqueSizes, EliminateUniquePartialHashes, AtPhase, IInv, TypeOK
  <2>2. CASE BatchUpdatePartialHashes \/ BatchUpdateFullHashes
    <3>1. PICK bad : StoredRound(bad)
      BY <2>2, StorePartial, StoreFull
    <3>2. \A f \in candidates : phase[f] \in {0, 2}
      BY <2>2 DEF BatchUpdatePartialHashes, BatchUpdateFullHashes, IInv, CandidatesFit, AtPhase
    <3>3. \A f \in candidates : phase'[f] \in {2, 3}
      BY <3>1 DEF StoredRound
    <3>4. \A f \in files \ candidates : phase'[f] = phase[f]
      BY <3>1 DEF StoredRound, IInv, TypeOK
    <3> QED BY <3>2, <3>3, <3>4
  <2>3. CASE ~(EliminateUniqueSizes \/ EliminateUniquePartialHashes
               \/ BatchUpdatePartialHashes \/ BatchUpdateFullHashes)
    BY <1>1, <2>3 DEF Next, Step, Fault, Terminated, vars, Start, WalkVisit, WalkFlushRetried,
     WalkCancelled, WalkFinished, MarkWalkComplete, SizesGate, PartialGate, FullGate, GroupsGate,
     Gate, PartialHashCandidates, FullHashCandidates, NextRound, AbandonPartialHashes,
     AbandonFullHashes, AbandonRound, MaterializeDupGroups, Summarize,
     Cancel, Crash, StoreError, rows
  <2> QED BY <2>1, <2>2, <2>3
<1> QED BY <1>2, <1>3 DEF AtPhase

\* The files of a phase can be counted, and those of the three phases are all.
LEMMA PhasesAreAll ==
  ASSUME TypeOK
  PROVE  /\ \A p \in {0, 2, 3} : /\ Cardinality(AtPhase(p)) \in Nat
                                 /\ Cardinality(AtPhase(p)) = 0 <=> AtPhase(p) = {}
         /\ Cardinality(AtPhase(0)) + Cardinality(AtPhase(2)) + Cardinality(AtPhase(3))
              = Cardinality(files)
<1>1. IsFiniteSet(files)
  BY FileAssumption, FS_Subset DEF TypeOK
<1>2. \A p : AtPhase(p) \in SUBSET files
  BY DEF AtPhase
<1>3. \A p : IsFiniteSet(AtPhase(p))
  BY <1>1, <1>2, FS_Subset
<1>4. \A p : Cardinality(AtPhase(p)) \in Nat
  BY <1>3, FS_CardinalityType
<1> DEFINE low == AtPhase(0) \cup AtPhase(2)
<1>5. /\ AtPhase(0) \cap AtPhase(2) = {} /\ low \cap AtPhase(3) = {}
      /\ low \cup AtPhase(3) = files
  BY DEF AtPhase, TypeOK
<1>6. IsFiniteSet(low) /\ Cardinality(low) = Cardinality(AtPhase(0)) + Cardinality(AtPhase(2))
  <2>1. /\ IsFiniteSet(low)
        /\ Cardinality(low) = Cardinality(AtPhase(0)) + Cardinality(AtPhase(2))
                               - Cardinality(AtPhase(0) \cap AtPhase(2))
    BY <1>3, FS_Union
  <2>2. Cardinality(AtPhase(0) \cap AtPhase(2)) = 0
    BY <1>5, FS_EmptySet
  <2>3. Cardinality(AtPhase(0)) \in Nat /\ Cardinality(AtPhase(2)) \in Nat
    BY <1>4
  <2> HIDE DEF low
  <2> QED BY <2>1, <2>2, <2>3
<1>7. Cardinality(files) = Cardinality(low) + Cardinality(AtPhase(3))
  <2> HIDE DEF low
  <2>1. /\ Cardinality(low \cup AtPhase(3))
           = Cardinality(low) + Cardinality(AtPhase(3)) - Cardinality(low \cap AtPhase(3))
        /\ Cardinality(low) \in Nat
    BY <1>3, <1>6, FS_Union, FS_CardinalityType
  <2> QED BY <1>4, <1>5, <2>1, FS_EmptySet
<1>8. \A p : Cardinality(AtPhase(p)) = 0 <=> AtPhase(p) = {}
  BY <1>3, FS_EmptySet
<1> HIDE DEF low
<1> QED BY <1>4, <1>6, <1>7, <1>8

\* As many rows of dup_groups as there are sets of linked files.
LEMMA GroupsCounted ==
  ASSUME TypeOK, GroupTableConsistent
  PROVE  /\ Cardinality(dupGroups) = Cardinality(Report)
         /\ Cardinality(Report) \in Nat
         /\ Report = {} => Cardinality(Report) = 0
<1> DEFINE ids == {group[f] : f \in File} \ {0}
<1> DEFINE idOf == [row \in dupGroups |-> row.id]
<1> DEFINE setOf == [i \in ids |-> Members(i)]
<1>1. IsFiniteSet(ids)
  <2>1. [f \in File |-> group[f]] \in Surjection(File, {group[f] : f \in File})
    BY DEF Surjection
  <2> QED BY <2>1, FileAssumption, FS_Surjection, FS_Subset
<1>2. idOf \in Injection(dupGroups, ids) /\ idOf \in Surjection(dupGroups, ids)
  BY DEF GroupTableConsistent, Injection, IsInjective, Surjection
<1>3. Cardinality(dupGroups) = Cardinality(ids)
  <2> HIDE DEF ids, idOf
  <2> QED BY <1>1, <1>2, FS_Injection
<1>4. setOf \in Bijection(ids, Report)
  <2>1. \A i, j \in ids : Members(i) = Members(j) => i = j
    BY DEF Members
  <2>2. Report = {Members(i) : i \in ids}
    BY DEF Report
  <2> QED BY <2>1, <2>2 DEF Bijection, Injection, IsInjective, Surjection
<1>5. IsFiniteSet(Report) /\ Cardinality(Report) = Cardinality(ids)
  <2> HIDE DEF ids, setOf
  <2> QED BY <1>1, <1>4, FS_Bijection DEF ExistsBijection
<1> QED BY <1>3, <1>5, FS_CardinalityType, FS_EmptySet

-----------------------------------------------------------------------------

LEMMA StatusInitially == Init /\ StatusInit => SInv
BY DEF StatusInit, Nothing, SInv, StatusTypeOK, ShownHolds, AnswerHolds, GroupsHold

LEMMA ScanKeepsStatus ==
  ASSUME IInv, CInv, SInv, [Next]_vars, UNCHANGED statusVars
  PROVE  SInv'
<1> USE DEF SInv, statusVars, printed
<1>1. StatusTypeOK'
  BY DEF StatusTypeOK
<1>2. ShownHolds'
  BY ScanMovesOn DEF ShownHolds, StatusTypeOK
<1>3. AnswerHolds'
  BY ScanMovesOn DEF AnswerHolds, StatusTypeOK
<1>4. GroupsHold'
  <2>1. Resolved => Resolved'
    BY ScanMovesOn DEF Resolved
  <2>2. CASE Report = {}
    <3>1. answer.groups = 0 /\ found = 0
      BY <2>2 DEF GroupsHold, StatusTypeOK
    <3>2. answer'.groups = 0 /\ found' = 0
      BY <3>1 DEF printed
    <3> QED BY <3>2 DEF GroupsHold
  <2>3. CASE Report # {}
    <3>1. Report' = Report /\ UNCHANGED <<asking, answer, found>>
      BY <2>3, StableStep DEF printed
    <3> QED BY <2>1, <2>3, <3>1 DEF GroupsHold
  <2> QED BY <2>2, <2>3
<1> QED BY <1>1, <1>2, <1>3, <1>4

LEMMA AskKeepsStatus ==
  ASSUME IInv, CInv, SInv, Ask, UNCHANGED vars
  PROVE  SInv'
<1> USE DEF SInv, StatusTypeOK, vars, printed
<1>1. \A p : AtPhase(p)' = AtPhase(p)
  BY DEF AtPhase
<1>2. Report' = Report
  BY DEF Report, Members
<1>3. TypeOK /\ GroupTableConsistent /\ walkDone \in BOOLEAN
  BY DEF IInv, TypeOK, CInv
<1>4. Resolved' <=> Resolved
  BY <1>1 DEF Resolved
<1>5. Report # {} => Resolved
  <2>1. Report # {} => walkDone
    BY NothingBeforeWalk
  <2> QED BY <2>1 DEF CInv, Settled, Resolved, AtPhase
<1>6. CASE GetScanState
  <2>1. StatusTypeOK' /\ ShownHolds' /\ AnswerHolds'
    BY <1>1, <1>3, <1>6 DEF GetScanState, Nothing, ShownHolds, AnswerHolds
  <2>2. GroupsHold'
    BY <1>2, <1>4, <1>6 DEF GetScanState, Nothing, GroupsHold, Resolved
  <2> QED BY <2>1, <2>2
<1>7. CASE CountByPhase
  <2>1. StatusTypeOK' /\ ShownHolds' /\ AnswerHolds'
    BY <1>1, <1>3, <1>7, PhasesAreAll DEF CountByPhase, ShownHolds, AnswerHolds
  <2>2. Resolved => answer'.counts[0] = 0 /\ answer'.counts[2] = 0
    BY <1>3, <1>7, PhasesAreAll DEF CountByPhase, Resolved
  <2>3. GroupsHold'
    BY <1>2, <1>4, <1>7, <2>2 DEF CountByPhase, GroupsHold
  <2> QED BY <2>1, <2>3
<1>8. CASE GetDupGroupSummary
  <2>1. answer' = [answer EXCEPT !.groups = Cardinality(Report)]
    BY <1>3, <1>8, GroupsCounted DEF GetDupGroupSummary
  <2>2. StatusTypeOK' /\ ShownHolds' /\ AnswerHolds'
    BY <1>1, <1>3, <1>8, <2>1, GroupsCounted DEF GetDupGroupSummary, ShownHolds, AnswerHolds
  <2>3. GroupsHold'
    BY <1>2, <1>3, <1>4, <1>5, <1>8, <2>1, GroupsCounted DEF GetDupGroupSummary, GroupsHold
  <2> QED BY <2>2, <2>3
<1>9. CASE CountFiles
  <2>1. StatusTypeOK' /\ ShownHolds' /\ AnswerHolds'
    BY <1>1, <1>3, <1>9 DEF CountFiles, InferPhase, Nothing, ShownHolds, AnswerHolds
  <2>2. GroupsHold'
    BY <1>2, <1>4, <1>9 DEF CountFiles, Nothing, GroupsHold
  <2> QED BY <2>1, <2>2
<1> QED BY <1>6, <1>7, <1>8, <1>9 DEF Ask

LEMMA WatchedInvariant == WatchedSpec => [](IInv /\ CInv /\ SInv)
<1>1. Init /\ StatusInit => IInv /\ CInv /\ SInv
  BY InitInvariant, CompleteInit, StatusInitially
<1>2. IInv /\ CInv /\ SInv /\ [WatchedNext]_watchedVars => (IInv /\ CInv /\ SInv)'
  <2> SUFFICES ASSUME IInv, CInv, SInv, [WatchedNext]_watchedVars PROVE (IInv /\ CInv /\ SInv)'
    OBVIOUS
  <2>1. [Next]_vars
    BY DEF WatchedNext, watchedVars
  <2>2. UNCHANGED statusVars \/ (Ask /\ UNCHANGED vars)
    BY DEF WatchedNext, watchedVars
  <2> QED BY <2>1, <2>2, NextInvariant, CompleteNext, ScanKeepsStatus, AskKeepsStatus
<1> QED BY <1>1, <1>2, PTL DEF WatchedSpec

\* "Scan complete" is said only of a scan whose rows are all resolved.
THEOREM CompleteOnlyIfResolved == WatchedSpec => []CompleteIsResolved
<1>1. IInv /\ SInv => CompleteIsResolved
  BY DEF IInv, TypeOK, SInv, ShownHolds, CompleteIsResolved, AtPhase
<1> QED BY WatchedInvariant, <1>1, PTL

\* No status command reports an earlier phase than one before it.
THEOREM NeverBack == WatchedSpec => StatusNeverGoesBack
<1>1. IInv /\ SInv /\ [WatchedNext]_watchedVars => [shown' >= shown]_watchedVars
  <2> SUFFICES ASSUME IInv, SInv, WatchedNext PROVE shown' >= shown
    BY DEF watchedVars
  <2> USE DEF SInv, StatusTypeOK, AnswerHolds
  <2>1. CASE CountFiles
    BY <2>1 DEF CountFiles, InferPhase
  <2>2. CASE UNCHANGED shown
    BY <2>2
  <2> QED BY <2>1, <2>2 DEF WatchedNext, Ask, GetScanState, CountByPhase, GetDupGroupSummary, statusVars, printed
<1> QED BY WatchedInvariant, <1>1, PTL DEF WatchedSpec, StatusNeverGoesBack

\* The variables of the status command have their types.
THEOREM StatusTypeCorrect == WatchedSpec => []StatusTypeOK
BY WatchedInvariant, PTL DEF SInv

\* The printed counts add up, although they are read one after the other.
THEOREM SumsAgree == WatchedSpec => []CountsAddUp
<1>1. SInv => CountsAddUp
  BY DEF SInv, StatusTypeOK, AnswerHolds, CountsAddUp
<1> QED BY WatchedInvariant, <1>1, PTL

\* The results that a status command prints stay: each later one prints as many
\* groups and calls the scan complete.
THEOREM ResultsHold == WatchedSpec => ResultsStay
<1>1. SInv /\ [WatchedNext]_watchedVars => [CountFiles /\ found > 0 => shown' = 6 /\ found' = found]_watchedVars
  BY DEF SInv, GroupsHold, CountFiles, InferPhase
<1> QED BY WatchedInvariant, <1>1, PTL DEF WatchedSpec, ResultsStay
=============================================================================
