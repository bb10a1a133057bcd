------------------------ MODULE RecoveryScan_proofs ------------------------
(* Proofs about RecoveryScan: a scan keeps its output budget, neither the  *)
(* sweep nor the folder copy saves a candidate twice, and a report of a    *)
(* source without damage that is not partial accounts for every candidate. *)
EXTENDS RecoveryScan, TLAPS

(* What the typing of the inputs gives.                                    *)
LEMMA Inputs ==
  ASSUME TypeOK
  PROVE  /\ mode \in Mode /\ content \in [Units -> Candidate] /\ bad \subseteq Units
         /\ Size \in Nat /\ Block \in Nat \ {0} /\ MaxOutput \in Nat /\ MaxResults \in Nat
         /\ ScanLimit \in 0 .. Size
         /\ \A u \in Units : content[u].size \in Nat /\ content[u].run \in Nat \cup {-1}
         /\ Units \subseteq Nat
<1>1. /\ mode \in Mode /\ content \in [Units -> Candidate] /\ bad \subseteq Units
      /\ Size \in Nat /\ Block \in Nat \ {0} /\ MaxOutput \in Nat /\ MaxResults \in Nat
  BY ScanAssumption DEF TypeOK
<1>2. ScanLimit \in 0 .. Size
  BY <1>1, ScanAssumption DEF TypeOK, ScanLimit, Least
<1>3. \A u \in Units : content[u] \in Candidate
  BY <1>1
<1>4. \A u \in Units : content[u].size \in Nat /\ content[u].run \in Nat \cup {-1}
  BY <1>3 DEF Candidate
<1>5. Units \subseteq Nat
  BY <1>1 DEF Units
<1>. QED BY <1>1, <1>2, <1>4, <1>5

LEMMA InitInductive == Init => ScanInductive
<1> SUFFICES ASSUME Init PROVE ScanInductive
  OBVIOUS
<1>1. mode \in Mode
  BY ScanAssumption DEF Init
<1>2. QuickPass => mode.tables[1] \in Nat /\ 1 \in 1 .. Len(mode.tables)
  BY <1>1 DEF Mode, QuickPass
<1>3. total \in 0 .. Size
  <2>1. Size \in Nat BY ScanAssumption
  <2>2. mode.source \in {"folder", "image", "drive"} BY <1>1 DEF Mode
  <2>. QED BY <2>1, <2>2 DEF Init
<1>4. TypeOK
  BY <1>2, <1>3 DEF Init, TypeOK, Units
<1>5. pc = "head" => pending = {} /\ ~QuickPass
  BY DEF Init
<1>6. 0 <= ScanLimit
  BY <1>4, Inputs
<1>7. BudgetKept /\ NothingTwice /\ SavedBehind
  BY ScanAssumption, <1>4, Inputs DEF Init, BudgetKept, NothingTwice, SavedBehind
<1>8. HitsInBlock
  BY <1>2, <1>5, <1>6 DEF Init, HitsInBlock
<1>. QED BY <1>4, <1>7, <1>8 DEF ScanInductive

(* The definitions that only read the source are constant.                 *)
LEMMA SourceFixed ==
  ASSUME UNCHANGED source
  PROVE  QuickPass' = QuickPass /\ ScanLimit' = ScanLimit
BY DEF source, QuickPass, ScanLimit, Least

(* Saving a candidate within the room keeps the budget.                    *)
LEMMA SaveFits ==
  ASSUME TypeOK, BudgetKept, NEW u \in Units, NEW n \in Nat, Save(u, n),
         n <= Room, ~Full \/ files < MaxResults
  PROVE  /\ BudgetKept' /\ files' \in Nat /\ output' \in Nat /\ skipped' = skipped
         /\ times' \in [Units -> Nat] /\ times'[u] = times[u] + 1
         /\ \A v \in Units : v # u => times'[v] = times[v]
<1>1. files < MaxResults
  BY Inputs DEF Full, TypeOK
<1>. QED
  BY <1>1, Inputs DEF Save, TypeOK, BudgetKept, Room

(* Skipping a candidate disturbs nothing else.                             *)
LEMMA SkipFits ==
  ASSUME TypeOK, BudgetKept, NEW u \in Units, Skip(u)
  PROVE  /\ BudgetKept' /\ skipped' \subseteq Units
         /\ files' = files /\ output' = output /\ times' = times
BY DEF Skip, TypeOK, BudgetKept

LEMMA ResultsKept ==
  ASSUME TypeOK, BudgetKept, UNCHANGED results
  PROVE  /\ BudgetKept' /\ skipped' \subseteq Units
         /\ files' \in Nat /\ output' \in Nat /\ times' = times
BY DEF results, TypeOK, BudgetKept

(* A hit of the list was not saved before; saving it and taking it off the *)
(* list keeps the books.                                                   *)
LEMMA SaveOnce ==
  ASSUME TypeOK, NothingTwice, SavedBehind, HitsInBlock,
         NEW u \in pending, pc \in {"hits", "folder"},
         times' \in [Units -> Nat], times'[u] = times[u] + 1,
         \A v \in Units : v # u => times'[v] = times[v],
         pending' = pending \ {u}, UNCHANGED <<source, pc, offset>>
  PROVE  NothingTwice' /\ SavedBehind'
<1>1. u \in Units /\ QuickPass' = QuickPass
  BY SourceFixed DEF TypeOK
<1> SUFFICES ASSUME ~QuickPass
             PROVE  NothingTwice' /\ SavedBehind'
  BY <1>1 DEF NothingTwice, SavedBehind
<1>2. times[u] = 0
  BY <1>1 DEF SavedBehind, TypeOK
<1>3. NothingTwice'
  BY <1>1, <1>2 DEF NothingTwice
<1>4. pc = "hits" => u < offset + Block /\ u < ScanLimit
  BY Inputs DEF HitsInBlock, TypeOK
<1>5. SavedBehind'
  BY <1>1, <1>4, SourceFixed DEF SavedBehind
<1>. QED BY <1>3, <1>5

(* The conjuncts that no action but the current one can disturb.           *)
LEMMA FolderInductive ==
  ASSUME ScanInductive, FolderEnd \/ \E u \in Units : FolderEntry(u)
  PROVE  ScanInductive'
<1> USE DEF ScanInductive
<1>1. CASE FolderEnd
  BY <1>1, SourceFixed
     DEF FolderEnd, vars, source, sweep, quick, results, report, TypeOK, BudgetKept,
         NothingTwice, SavedBehind, HitsInBlock
<1>2. CASE \E u \in Units : FolderEntry(u)
  <2> PICK u \in Units : FolderEntry(u)
    BY <1>2
  <2> USE DEF FolderEntry
  <2>1. /\ UNCHANGED <<source, quick, reads, scanned, cancelled>>
        /\ QuickPass' = QuickPass /\ ScanLimit' = ScanLimit
    BY SourceFixed
  <2>2. CASE Skip(u) /\ pending' = pending \ {u} /\ UNCHANGED <<pc, offset, partial, cancel>>
    <3>1. BudgetKept' /\ skipped' \subseteq Units /\ UNCHANGED <<files, output, times>>
      BY <2>2, SkipFits
    <3>. QED
      BY <2>1, <2>2, <3>1
         DEF source, quick, TypeOK, NothingTwice, SavedBehind, HitsInBlock
  <2>3. CASE /\ Save(u, content[u].size) /\ pending' = pending \ {u}
             /\ UNCHANGED <<pc, offset, partial, cancel>>
             /\ output + content[u].size <= MaxOutput /\ files < MaxResults
    <3>1. content[u].size \in Nat /\ content[u].size <= Room
      BY <2>3, Inputs DEF TypeOK, Room
    <3>2. /\ BudgetKept' /\ files' \in Nat /\ output' \in Nat /\ skipped' = skipped
          /\ times' \in [Units -> Nat] /\ times'[u] = times[u] + 1
          /\ \A v \in Units : v # u => times'[v] = times[v]
      BY <2>3, <3>1, SaveFits
    <3>3. NothingTwice' /\ SavedBehind'
      BY <2>1, <2>3, <3>2, SaveOnce DEF Next1
    <3>. QED
      BY <2>1, <2>3, <3>2, <3>3 DEF source, quick, TypeOK, HitsInBlock
  <2>4. CASE /\ pc' = "end" /\ partial' \in BOOLEAN /\ cancel' \in BOOLEAN
             /\ UNCHANGED <<results, sweep>>
    <3>1. BudgetKept' /\ skipped' \subseteq Units /\ files' \in Nat /\ output' \in Nat
          /\ times' = times
      BY <2>4, ResultsKept
    <3>. QED
      BY <2>1, <2>4, <3>1
         DEF source, quick, sweep, TypeOK, NothingTwice, SavedBehind, HitsInBlock
  <2>. QED
    BY <2>2, <2>3, <2>4 DEF Abort, StopMeanwhile, TypeOK
<1>. QED BY <1>1, <1>2

LEMMA QuickInductive ==
  ASSUME ScanInductive, QuickNextVolume \/ QuickRecord
  PROVE  ScanInductive'
<1> USE DEF ScanInductive
<1>0. pc = "quick" /\ QuickPass /\ table \in 1 .. Len(mode.tables) /\ mode.tables \in Seq(Nat)
  BY Inputs DEF QuickNextVolume, QuickRecord, HitsInBlock, Mode
<1>1. CASE QuickNextVolume
  <2> USE DEF QuickNextVolume
  <2>1. QuickPass' /\ ScanLimit' = ScanLimit /\ UNCHANGED source
    BY <1>0, <1>1, SourceFixed
  <2>2. UNCHANGED <<sweep, results, reads, partial, cancelled, cancel>>
    BY <1>1
  <2>3. CASE table < Len(mode.tables)
    <3>1. /\ table' = table + 1 /\ record' = 0 /\ at' = mode.tables[table + 1]
          /\ UNCHANGED <<pc, scanned>>
      BY <1>1, <2>3
    <3>2. table' \in 1 .. Len(mode.tables) /\ at' \in Nat
      BY <1>0, <2>3, <3>1
    <3>. QED
      BY <1>0, <2>1, <2>2, <3>1, <3>2
         DEF source, sweep, results, TypeOK, BudgetKept, NothingTwice, SavedBehind, HitsInBlock
  <2>4. CASE ~(table < Len(mode.tables))
    BY <1>0, <1>1, <2>1, <2>2, <2>4, ScanAssumption
       DEF source, sweep, quick, results, TypeOK, BudgetKept, NothingTwice, SavedBehind, HitsInBlock
  <2>. QED BY <2>3, <2>4
<1>2. CASE QuickRecord
  <2> USE DEF QuickRecord
  <2>1. QuickPass' /\ ScanLimit' = ScanLimit /\ UNCHANGED source
    BY <1>0, <1>2, SourceFixed
  <2>2. UNCHANGED <<pc, sweep, table, reads, report>> /\ record' \in Nat
    BY <1>2 DEF TypeOK
  <2>3. at \in Units /\ ~Full /\ ~cancel
    BY <1>2 DEF QuickStops
  <2>4. /\ BudgetKept' /\ times' \in [Units -> Nat] /\ skipped' \subseteq Units
        /\ files' \in Nat /\ output' \in Nat /\ at' \in Nat /\ cancel' \in BOOLEAN
    <3>0. content[at].size \in Nat /\ content[at].run \in Nat \cup {-1} /\ at \in Nat
      BY <2>3, Inputs
    <3>1. AfterRecovery(at) \in Nat
      BY <3>0 DEF AfterRecovery, IsResident
    <3>2. AfterError(at) \subseteq Nat
      BY <3>0, <3>1 DEF AfterError, Extents, IsResident
    <3>3. CASE UNCHANGED results
      <4>1. BudgetKept' /\ skipped' \subseteq Units /\ files' \in Nat /\ output' \in Nat
            /\ times' = times
        BY <3>3, ResultsKept
      <4>2. times' \in [Units -> Nat]
        BY <4>1 DEF TypeOK
      <4>3. at' \in Nat
        <5>1. CASE IsRecord(at) /\ Recoverable(at) /\ at' = AfterRecovery(at)
          BY <3>1, <5>1
        <5>2. CASE at' = at + 1 \/ at' \in AfterError(at)
          BY <3>0, <3>2, <5>2
        <5>. QED BY <1>2, <5>1, <5>2
      <4>4. cancel' \in BOOLEAN
        BY <1>2 DEF StopMeanwhile, TypeOK
      <4>. QED BY <4>1, <4>2, <4>3, <4>4
    <3>4. CASE /\ Recoverable(at) /\ Save(at, content[at].size)
               /\ at' = AfterRecovery(at) /\ UNCHANGED cancel
      <4>1. content[at].size <= Room
        BY <3>4 DEF Recoverable
      <4>2. /\ BudgetKept' /\ files' \in Nat /\ output' \in Nat /\ skipped' = skipped
            /\ times' \in [Units -> Nat]
        BY <2>3, <3>0, <3>4, <4>1, SaveFits
      <4>. QED BY <3>1, <3>4, <4>2 DEF TypeOK
    <3>. QED BY <1>2, <3>3, <3>4
  <2>. QED
    BY <1>0, <2>1, <2>2, <2>4
       DEF source, sweep, report, TypeOK, NothingTwice, SavedBehind, HitsInBlock
<1>. QED BY <1>1, <1>2

LEMMA BlocksInductive ==
  ASSUME ScanInductive, SweepEnd \/ SweepDamage \/ SweepBlock \/ BlockDone
  PROVE  ScanInductive'
<1> USE DEF ScanInductive
<1>0. /\ UNCHANGED source /\ QuickPass' = QuickPass /\ ScanLimit' = ScanLimit
      /\ ScanLimit \in 0 .. Size /\ Size \in Nat /\ Block \in Nat \ {0}
      /\ offset \in Nat /\ offset <= ScanLimit /\ ~QuickPass /\ Units \subseteq Nat
  <2>1. UNCHANGED source
    BY DEF SweepEnd, SweepDamage, SweepBlock, BlockDone
  <2>2. pc \in {"head", "hits"}
    BY DEF SweepEnd, SweepDamage, SweepBlock, BlockDone
  <2>. QED BY <2>1, <2>2, SourceFixed, Inputs DEF HitsInBlock, TypeOK
<1>1. CASE SweepEnd
  <2>1. /\ pc' = "end" /\ scanned' = total /\ partial' \in BOOLEAN
        /\ UNCHANGED <<sweep, quick, results, reads, cancelled, cancel>>
    BY <1>1 DEF SweepEnd, TypeOK
  <2>2. TypeOK'
    BY <1>0, <2>1, ScanAssumption DEF source, sweep, quick, results, TypeOK
  <2>. QED
    BY <1>0, <2>1, <2>2
       DEF sweep, results, BudgetKept, NothingTwice, SavedBehind, HitsInBlock
<1>2. CASE SweepDamage
  <2>1. /\ pc = "head" /\ offset < ScanLimit
        /\ UNCHANGED <<pc, pending, quick, results, reads, report, cancel>>
    BY <1>0, <1>2 DEF SweepDamage, HeadStops
  <2>2. offset' = offset + 1
    BY <1>0, <1>2, <2>1 DEF SweepDamage, Least
  <2>3. TypeOK' /\ BudgetKept' /\ NothingTwice' /\ HitsInBlock'
    BY <1>0, <2>1, <2>2
       DEF source, quick, results, report, TypeOK, BudgetKept, NothingTwice, HitsInBlock
  <2>4. SavedBehind'
    BY <1>0, <2>1, <2>2 DEF results, SavedBehind, TypeOK
  <2>. QED BY <2>3, <2>4
<1>3. CASE SweepBlock
  <2>1. /\ pc = "head" /\ pc' = "hits" /\ offset < ScanLimit
        /\ pending' = HitsOf(Window)
        /\ UNCHANGED <<offset, quick, results, reads, report, cancel>>
    BY <1>0, <1>3 DEF SweepBlock, HeadStops
  <2>2. \A u \in pending' : u \in Int /\ offset <= u /\ u < offset + Block /\ u < ScanLimit
    BY <1>0, <2>1 DEF HitsOf, Window, WindowEnd, Least
  <2>3. TypeOK' /\ HitsInBlock'
    BY <1>0, <2>1, <2>2 DEF source, quick, results, report, TypeOK, HitsInBlock, Units
  <2>4. SavedBehind'
    BY <1>0, <2>1, <2>2 DEF results, SavedBehind, TypeOK
  <2>5. BudgetKept' /\ NothingTwice'
    BY <1>0, <2>1 DEF results, BudgetKept, NothingTwice
  <2>. QED BY <2>3, <2>4, <2>5
<1>4. CASE BlockDone
  <2>1. /\ pc = "hits" /\ pc' = "head" /\ pending' = {} /\ scanned' = offset'
        /\ UNCHANGED <<quick, results, reads, partial, cancelled, cancel>>
    BY <1>4 DEF BlockDone
  <2>2. offset' = ScanLimit \/ offset' = offset + Block
    BY <1>4 DEF BlockDone, Least
  <2>3. offset' \in Nat /\ offset' <= ScanLimit
    BY <1>0, <1>4 DEF BlockDone, Least
  <2>4. SavedBehind'
    <3> SUFFICES ASSUME NEW u \in Units, times[u] > 0
                 PROVE  u < offset'
      BY <1>0, <2>1 DEF results, SavedBehind
    <3>1. u < offset + Block /\ u \in Nat /\ u < Size
      BY <1>0, <2>1 DEF SavedBehind, Units
    <3>2. u < ScanLimit
      BY <1>0, <2>1 DEF SavedBehind
    <3>. QED BY <1>0, <2>2, <3>1, <3>2
  <2>5. TypeOK' /\ BudgetKept' /\ NothingTwice' /\ HitsInBlock'
    BY <1>0, <2>1, <2>3
       DEF source, quick, results, TypeOK, BudgetKept, NothingTwice, HitsInBlock
  <2>. QED BY <2>4, <2>5
<1>. QED BY <1>1, <1>2, <1>3, <1>4

(* The room left caps what is validated, so what is bounded fits.          *)
LEMMA BoundedFits ==
  ASSUME TypeOK, BudgetKept, NEW u \in Units, NEW n \in Tried(u), Bounded(u, n), ~Full
  PROVE  content[u].size \in Nat /\ content[u].size <= Room
<1>1. content[u].size \in Nat /\ content[u].size <= n
  BY Inputs DEF Bounded
<1>2. Room \in Nat
  BY Inputs DEF Room, TypeOK, BudgetKept
<1>3. n = 0 \/ (n \in 1 .. Cap(u) /\ n \in Lengths(u))
  BY DEF Tried, Lengths
<1>4. total \in Int /\ u \in Int /\ MaxCandidate \in Nat
  BY Inputs, ScanAssumption DEF TypeOK
<1>5. n <= Room
  BY <1>2, <1>3, <1>4 DEF Cap, Least
<1>6. n \in Int
  BY <1>3
<1>. QED BY <1>1, <1>2, <1>5, <1>6

LEMMA HitsInductive ==
  ASSUME ScanInductive,
         \E u \in Units : HitRecord(u) \/ HitSignature(u)
  PROVE  ScanInductive'
<1> USE DEF ScanInductive
<1> PICK u \in Units : HitRecord(u) \/ HitSignature(u)
  OBVIOUS
<1>0. /\ pc = "hits" /\ ~cancel /\ ~Full /\ u \in pending
      /\ UNCHANGED <<source, quick, scanned, cancelled>>
      /\ QuickPass' = QuickPass /\ ScanLimit' = ScanLimit
  <2>1. /\ pc = "hits" /\ ~cancel /\ ~Full /\ u \in pending
        /\ UNCHANGED <<source, quick, scanned, cancelled>>
    BY DEF HitRecord, HitSignature, Next1, report
  <2>. QED BY <2>1, SourceFixed
(* Whatever happens to a hit is one of three things.                       *)
<1>1. reads' \in Nat /\ partial' \in BOOLEAN /\ cancel' \in BOOLEAN
  <2>1. CASE HitRecord(u)
    BY <2>1 DEF HitRecord, report, StopMeanwhile, TypeOK
  <2>2. CASE HitSignature(u)
    <3>1. PICK n \in Tried(u) : reads' = reads + n
      BY <2>2 DEF HitSignature
    <3>2. n \in Nat
      BY DEF Tried, Lengths
    <3>3. partial' \in BOOLEAN /\ cancel' \in BOOLEAN
      BY <2>2 DEF HitSignature, StopMeanwhile, Abort, TypeOK, ReadsExhausted
    <3>. QED BY <3>1, <3>2, <3>3 DEF TypeOK
  <2>. QED BY <2>1, <2>2
<1>2. \/ Skip(u) /\ pending' = pending \ {u} /\ UNCHANGED <<pc, offset>>
      \/ /\ Save(u, content[u].size) /\ content[u].size <= Room /\ content[u].size \in Nat
         /\ pending' = pending \ {u} /\ UNCHANGED <<pc, offset>>
      \/ UNCHANGED <<results, offset>> /\ pc' \in {"hits", "end"} /\ pending' \subseteq pending
  <2>1. CASE HitRecord(u)
    BY <2>1, Inputs DEF HitRecord, Recoverable
  <2>2. CASE HitSignature(u)
    <3>1. PICK n \in Tried(u) :
            \/ Skip(u) /\ pending' = pending \ {u} /\ UNCHANGED <<pc, offset>>
            \/ /\ Bounded(u, n) /\ Save(u, content[u].size)
               /\ pending' = pending \ {u} /\ UNCHANGED <<pc, offset>>
            \/ Abort
            \/ pending' = {} /\ UNCHANGED <<pc, offset, results>>
      BY <2>2 DEF HitSignature
    <3>2. Bounded(u, n) => content[u].size \in Nat /\ content[u].size <= Room
      BY <1>0, BoundedFits
    <3>. QED BY <1>0, <3>1, <3>2 DEF Abort, sweep
  <2>. QED BY <2>1, <2>2
<1>3. CASE Skip(u) /\ pending' = pending \ {u} /\ UNCHANGED <<pc, offset>>
  <2>1. BudgetKept' /\ skipped' \subseteq Units /\ UNCHANGED <<files, output, times>>
    BY <1>3, SkipFits
  <2>. QED
    BY <1>0, <1>1, <1>3, <2>1
       DEF source, quick, TypeOK, NothingTwice, SavedBehind, HitsInBlock
<1>4. CASE /\ Save(u, content[u].size) /\ content[u].size <= Room /\ content[u].size \in Nat
           /\ pending' = pending \ {u} /\ UNCHANGED <<pc, offset>>
  <2>1. /\ BudgetKept' /\ files' \in Nat /\ output' \in Nat /\ skipped' = skipped
        /\ times' \in [Units -> Nat] /\ times'[u] = times[u] + 1
        /\ \A v \in Units : v # u => times'[v] = times[v]
    BY <1>0, <1>4, SaveFits
  <2>2. NothingTwice' /\ SavedBehind'
    BY <1>0, <1>4, <2>1, SaveOnce
  <2>. QED
    BY <1>0, <1>1, <1>4, <2>1, <2>2 DEF source, quick, TypeOK, HitsInBlock
<1>5. CASE UNCHANGED <<results, offset>> /\ pc' \in {"hits", "end"} /\ pending' \subseteq pending
  <2>1. BudgetKept' /\ skipped' \subseteq Units /\ files' \in Nat /\ output' \in Nat
        /\ times' = times
    BY <1>5, ResultsKept
  <2>2. TypeOK'
    BY <1>0, <1>1, <1>5, <2>1 DEF source, quick, TypeOK
  <2>. QED
    BY <1>0, <1>5, <2>1, <2>2 DEF NothingTwice, SavedBehind, HitsInBlock
<1>. QED BY <1>2, <1>3, <1>4, <1>5

(* Every step of a scan, and every Stop, keeps the invariant.              *)
LEMMA StepInductive == ScanInductive /\ [Next]_vars => ScanInductive'
<1> SUFFICES ASSUME ScanInductive, [Next]_vars PROVE ScanInductive'
  OBVIOUS
<1>1. CASE FolderEnd \/ \E u \in Units : FolderEntry(u)
  BY <1>1, FolderInductive
<1>2. CASE QuickNextVolume \/ QuickRecord
  BY <1>2, QuickInductive
<1>3. CASE SweepEnd \/ SweepDamage \/ SweepBlock \/ BlockDone
  BY <1>3, BlocksInductive
<1>4. CASE \E u \in Units : HitRecord(u) \/ HitSignature(u)
  BY <1>4, HitsInductive
<1>5. CASE Finish
  <2>1. QuickPass' = QuickPass /\ ScanLimit' = ScanLimit
    BY <1>5, SourceFixed DEF Finish
  <2>. QED
    BY <1>5, <2>1
       DEF Finish, source, sweep, quick, results, ScanInductive, TypeOK, BudgetKept, Full,
           NothingTwice, SavedBehind, HitsInBlock
<1>6. CASE Stop
  <2>1. QuickPass' = QuickPass /\ ScanLimit' = ScanLimit
    BY <1>6, SourceFixed DEF Stop
  <2>. QED
    BY <1>6, <2>1
       DEF Stop, source, sweep, quick, results, report, ScanInductive, TypeOK, BudgetKept,
           NothingTwice, SavedBehind, HitsInBlock
<1>7. CASE UNCHANGED vars
  <2>1. QuickPass' = QuickPass /\ ScanLimit' = ScanLimit
    BY <1>7, SourceFixed DEF vars
  <2>. QED
    BY <1>7, <2>1
       DEF vars, source, sweep, quick, results, report, ScanInductive, TypeOK, BudgetKept,
           NothingTwice, SavedBehind, HitsInBlock
<1>. QED
  BY <1>1, <1>2, <1>3, <1>4, <1>5, <1>6, <1>7 DEF Next, Scan

(* The inductive invariant holds in every state of every scan.             *)
THEOREM ScanInvariant == Spec => []ScanInductive
BY InitInductive, StepInductive, PTL DEF Spec

(* The output stays within 20 GiB and 10,000 files, in all three scans, so *)
(* the subtraction MAX_OUTPUT - output_bytes of run never wraps.           *)
THEOREM ScanBudget == Spec => []BudgetKept
<1>1. ScanInductive => BudgetKept
  BY DEF ScanInductive
<1>. QED BY <1>1, ScanInvariant, PTL

(* Overlapping windows, skipped damage and ended blocks never make the     *)
(* sweep, nor the folder copy, save the same candidate twice.              *)
THEOREM ScanSavesOnce == Spec => []NothingTwice
<1>1. ScanInductive => NothingTwice
  BY DEF ScanInductive
<1>. QED BY <1>1, ScanInvariant, PTL

----------------------------------------------------------------------------
(* Nothing is lost silently.  Behind the sweep every candidate that can be *)
(* seen is saved or skipped, or the scan is cut short and will say so.     *)
Premise == bad = {} /\ mode.source # "drive" /\ ~mode.quick
Seen(u) == IsHit(u) /\ (content[u].crosses => u + 1 \in Units)
Owned(u) == times[u] > 0 \/ u \in skipped
CutShort == cancel \/ Full

ScanShape ==
  /\ mode.source = "image" => total = Size
  /\ mode.source = "folder" => pc \notin {"head", "hits"}

Accounted ==
  Premise =>
    /\ pc = "folder" => \A u \in Units : IsHit(u) => u \in pending \/ Owned(u)
    /\ pc = "head" => \A u \in Units : u < offset /\ Seen(u) => Owned(u) \/ CutShort
    /\ pc = "hits" => \A u \in Units : u < offset + Block /\ Seen(u) =>
                                          u \in pending \/ Owned(u) \/ CutShort
    /\ pc = "end" => \A u \in Units : Seen(u) => Owned(u) \/ CutShort \/ partial
    /\ pc = "done" => \A u \in Units : Seen(u) => Owned(u) \/ partial

(* What is saved or skipped stays so, and a spent budget stays spent.      *)
LEMMA ResultsGrow ==
  ASSUME TypeOK, UNCHANGED results \/ \E u \in Units : Skip(u) \/ \E n \in Nat : Save(u, n)
  PROVE  (\A u \in Units : Owned(u) => Owned(u)') /\ (Full => Full')
<1>1. CASE UNCHANGED results
  BY <1>1 DEF results, Owned, Full
<1>2. CASE \E u \in Units : Skip(u)
  BY <1>2 DEF Skip, Owned, Full
<1>3. ASSUME NEW u \in Units, NEW n \in Nat, Save(u, n)
      PROVE  (\A v \in Units : Owned(v) => Owned(v)') /\ (Full => Full')
  <2>1. \A v \in Units : times'[v] >= times[v] /\ times[v] \in Nat /\ times'[v] \in Nat
    BY <1>3 DEF Save, TypeOK
  <2>2. files' >= files /\ output' >= output /\ skipped' = skipped
    BY <1>3 DEF Save, TypeOK
  <2>3. files \in Nat /\ files' \in Nat /\ output \in Nat /\ output' \in Nat
    BY <1>3 DEF Save, TypeOK
  <2>4. MaxResults \in Nat /\ MaxOutput \in Nat
    BY ScanAssumption
  <2>5. Full => Full'
    BY <2>2, <2>3, <2>4 DEF Full
  <2>6. ASSUME NEW v \in Units, Owned(v) PROVE Owned(v)'
    BY <2>1, <2>2, <2>6 DEF Owned
  <2>. QED BY <2>5, <2>6
<1>. QED BY <1>1, <1>2, <1>3

LEMMA SaveOwns ==
  ASSUME TypeOK, NEW u \in Units, NEW n, Save(u, n) PROVE Owned(u)'
BY DEF Save, TypeOK, Owned

LEMMA SourceSame ==
  ASSUME UNCHANGED source
  PROVE  Premise' = Premise /\ \A u : Seen(u)' = Seen(u) /\ IsHit(u)' = IsHit(u)
BY DEF source, Premise, Seen, IsHit

LEMMA InitAccounts == Init => ScanShape /\ Accounted
<1> SUFFICES ASSUME Init PROVE ScanShape /\ Accounted
  OBVIOUS
<1>1. mode \in Mode /\ mode.source \in {"folder", "image", "drive"}
  BY ScanAssumption DEF Init, Mode
<1>2. ScanShape
  BY <1>1 DEF Init, ScanShape
<1>3. \A u \in Units : u \in Nat
  BY ScanAssumption DEF Units
<1>4. Accounted
  BY <1>1, <1>3 DEF Init, Accounted
<1>. QED BY <1>2, <1>4

LEMMA FolderAccounts ==
  ASSUME ScanInductive, ScanShape, Accounted, FolderEnd \/ \E u \in Units : FolderEntry(u)
  PROVE  ScanShape' /\ Accounted'
<1> USE DEF ScanInductive
<1>1. UNCHANGED source /\ pc = "folder" /\ pc' \in {"folder", "end"}
  BY DEF FolderEnd, FolderEntry, Abort
<1>2. ScanShape'
  BY <1>1 DEF ScanShape, source
<1>3. ASSUME Premise PROVE Accounted'
  <2>1. \A u \in Units : IsHit(u) => u \in pending \/ Owned(u)
    BY <1>1, <1>3 DEF Accounted
  <2>2. CASE FolderEnd
    <3>1. pc' = "end" /\ (pending = {} \/ cancel) /\ cancel' = cancel /\ UNCHANGED results
      BY <2>2 DEF FolderEnd
    <3>. QED
      BY <1>1, <2>1, <3>1, SourceSame DEF Accounted, Owned, results, Seen, CutShort
  <2>3. CASE \E u \in Units : FolderEntry(u)
    <3>. PICK u \in Units : FolderEntry(u)
      BY <2>3
    <3>1. CASE pc' = "end" /\ (partial' \/ cancel')
      BY <1>1, <3>1 DEF Accounted, CutShort
    <3>2. CASE Skip(u) /\ pending' = pending \ {u} /\ pc' = "folder"
      <4>1. Owned(u)' /\ \A v \in Units : Owned(v) => Owned(v)'
        BY <3>2, ResultsGrow DEF Skip, Owned
      <4>. QED
        BY <1>1, <2>1, <3>2, <4>1, SourceSame DEF Accounted
    <3>3. CASE Save(u, content[u].size) /\ pending' = pending \ {u} /\ pc' = "folder"
      <4>1. Owned(u)' /\ \A v \in Units : Owned(v) => Owned(v)'
        BY <3>3, ResultsGrow, SaveOwns, Inputs
      <4>. QED
        BY <1>1, <2>1, <3>3, <4>1, SourceSame DEF Accounted
    <3>. QED
      BY <1>1, <3>1, <3>2, <3>3 DEF FolderEntry, Abort, StopMeanwhile
  <2>. QED BY <2>2, <2>3
<1>. QED
  BY <1>1, <1>2, <1>3, SourceSame DEF Accounted

(* A block that was swept has its candidates on the list, and the next     *)
(* one begins where it ends.                                               *)
LEMMA BlocksAccount ==
  ASSUME ScanInductive, ScanShape, Accounted, SweepEnd \/ SweepDamage \/ SweepBlock \/ BlockDone
  PROVE  ScanShape' /\ Accounted'
<1> USE DEF ScanInductive
<1>1. /\ UNCHANGED source /\ UNCHANGED results /\ cancel' = cancel
      /\ pc \in {"head", "hits"} /\ pc' \in {"head", "hits", "end"}
  BY DEF SweepEnd, SweepDamage, SweepBlock, BlockDone
<1>2. ScanShape'
  BY <1>1 DEF ScanShape, source
<1>3. /\ \A u \in Units : Owned(u)' = Owned(u)
      /\ CutShort' = CutShort
  BY <1>1 DEF Owned, CutShort, Full, results
<1>4. ASSUME Premise PROVE Accounted'
  <2>1. /\ ScanLimit = Size /\ Size \in Nat /\ Block \in Nat \ {0} /\ offset \in Nat
        /\ \A u \in Units : u \in Nat /\ u < Size
    <3>1. mode.source \in {"folder", "image", "drive"} /\ total \in 0 .. Size
      BY Inputs DEF Mode, TypeOK
    <3>2. total = Size
      BY <1>1, <1>4, <3>1 DEF ScanShape, Premise
    <3>. QED BY <1>4, <3>2, Inputs DEF ScanLimit, Premise, Units, TypeOK
  <2>2. CASE SweepEnd
    <3>1. pc = "head" /\ pc' = "end" /\ (offset >= ScanLimit \/ CutShort)
      BY <2>2 DEF SweepEnd, HeadStops, CutShort
    <3>2. \A u \in Units : Seen(u) => Owned(u) \/ CutShort
      BY <1>4, <2>1, <3>1 DEF Accounted
    <3>. QED
      BY <1>1, <1>3, <3>1, <3>2, SourceSame DEF Accounted
  <2>3. CASE SweepDamage
    BY <1>4, <2>3 DEF SweepDamage, Premise
  <2>4. CASE SweepBlock
    <3>1. pc = "head" /\ pc' = "hits" /\ pending' = HitsOf(Window) /\ offset' = offset
      BY <2>4 DEF SweepBlock
    <3>2. ASSUME NEW u \in Units, u < offset + Block, Seen(u), u >= offset
          PROVE  u \in HitsOf(Window)
      <4>1. u \in Window
        BY <2>1, <3>2 DEF Window, WindowEnd, Least
      <4>2. u + 1 \in Units => u + 1 \in Window
        BY <2>1, <3>2 DEF Window, WindowEnd, Least
      <4>. QED BY <3>2, <4>1, <4>2 DEF HitsOf, Seen
    <3>3. \A u \in Units : u < offset + Block /\ Seen(u) => u \in pending' \/ Owned(u) \/ CutShort
      BY <1>4, <2>1, <3>1, <3>2 DEF Accounted
    <3>. QED
      BY <1>1, <1>3, <2>1, <3>1, <3>3, SourceSame DEF Accounted
  <2>5. CASE BlockDone
    <3>1. pc = "hits" /\ pc' = "head" /\ (pending = {} \/ CutShort)
      BY <2>5 DEF BlockDone, CutShort
    <3>2. offset' <= offset + Block /\ offset' \in Nat
      BY <2>1, <2>5 DEF BlockDone, Least
    <3>3. \A u \in Units : u < offset' /\ Seen(u) => Owned(u) \/ CutShort
      BY <1>4, <2>1, <3>1, <3>2 DEF Accounted
    <3>. QED
      BY <1>1, <1>3, <3>1, <3>3, SourceSame DEF Accounted
  <2>. QED BY <2>2, <2>3, <2>4, <2>5
<1>. QED
  BY <1>1, <1>2, <1>4, SourceSame DEF Accounted

LEMMA HitsAccount ==
  ASSUME ScanInductive, ScanShape, Accounted,
         NEW u \in Units, HitRecord(u) \/ HitSignature(u)
  PROVE  ScanShape' /\ Accounted'
<1> USE DEF ScanInductive
<1>1. UNCHANGED source /\ pc = "hits" /\ pc' \in {"hits", "end"} /\ (cancel => cancel')
  BY DEF HitRecord, HitSignature, Abort, StopMeanwhile
<1>2. ScanShape'
  BY <1>1 DEF ScanShape, source
<1>3. \/ Skip(u) /\ pending' = pending \ {u} /\ pc' = "hits" /\ offset' = offset
      \/ /\ Save(u, content[u].size) /\ pending' = pending \ {u} /\ pc' = "hits"
         /\ offset' = offset
      \/ pc' = "end" /\ partial'
      \/ pc' = "hits" /\ cancel'
  <2>1. CASE HitRecord(u)
    BY <1>1, <2>1 DEF HitRecord
  <2>2. CASE HitSignature(u)
    BY <1>1, <2>2 DEF HitSignature, Abort, StopMeanwhile
  <2>. QED BY <2>1, <2>2
<1>4. ASSUME Premise PROVE Accounted'
  <2>1. \A v \in Units : v < offset + Block /\ Seen(v) => v \in pending \/ Owned(v) \/ CutShort
    BY <1>1, <1>4 DEF Accounted
  <2>2. CASE (pc' = "end" /\ partial') \/ (pc' = "hits" /\ cancel')
    BY <2>2 DEF Accounted, CutShort
  <2>3. CASE /\ Skip(u) \/ Save(u, content[u].size)
             /\ pending' = pending \ {u} /\ pc' = "hits" /\ offset' = offset
    <3>1. Owned(u)'
      BY <2>3, SaveOwns DEF Skip, Owned
    <3>2. (\A v \in Units : Owned(v) => Owned(v)') /\ (Full => Full')
      BY <2>3, ResultsGrow, Inputs
    <3>3. CutShort => CutShort'
      BY <1>1, <3>2 DEF CutShort
    <3>. QED
      BY <1>1, <2>1, <2>3, <3>1, <3>2, <3>3, SourceSame DEF Accounted
  <2>. QED BY <1>3, <2>2, <2>3
<1>. QED
  BY <1>1, <1>2, <1>4, SourceSame DEF Accounted

LEMMA EndAccounts ==
  ASSUME ScanInductive, ScanShape, Accounted,
         QuickNextVolume \/ QuickRecord \/ Finish \/ Stop \/ UNCHANGED vars
  PROVE  ScanShape' /\ Accounted'
<1> USE DEF ScanInductive
<1>1. CASE QuickNextVolume \/ QuickRecord
  <2>1. UNCHANGED source /\ pc = "quick" /\ pc' \in {"quick", "end"}
    BY <1>1 DEF QuickNextVolume, QuickRecord
  <2>2. ~Premise
    BY <2>1 DEF HitsInBlock, QuickPass, Premise
  <2>. QED
    BY <2>1, <2>2, SourceSame DEF ScanShape, source, Accounted
<1>2. CASE Finish
  <2>1. /\ UNCHANGED source /\ UNCHANGED results /\ pc = "end" /\ pc' \in {"done", "failed"}
        /\ (partial \/ CutShort => partial')
    BY <1>2 DEF Finish, CutShort
  <2>2. \A u \in Units : Owned(u)' = Owned(u)
    BY <2>1 DEF Owned, results
  <2>. QED
    BY <2>1, <2>2, SourceSame DEF ScanShape, source, Accounted
<1>3. CASE Stop \/ UNCHANGED vars
  <2>1. /\ UNCHANGED <<source, pc, sweep, results, report>>
        /\ (pc = "done" => cancel' = cancel) /\ (cancel => cancel')
    BY <1>3 DEF Stop, vars
  <2>2. (\A u \in Units : Owned(u)' = Owned(u)) /\ (CutShort => CutShort')
    BY <2>1 DEF Owned, results, CutShort, Full
  <2>. QED
    BY <2>1, <2>2, SourceSame DEF ScanShape, source, sweep, report, Accounted
<1>. QED BY <1>1, <1>2, <1>3

(* For every folder and every image that can be read throughout, of any    *)
(* size and with any block and budgets: a report that is not marked        *)
(* partial accounts for every candidate.                                   *)
THEOREM NothingLostSilently == Spec => []SoundMeansAll
<1> DEFINE Inv == ScanInductive /\ ScanShape /\ Accounted
<1>1. Init => Inv
  BY InitInductive, InitAccounts
<1>2. Inv /\ [Next]_vars => Inv'
  <2> SUFFICES ASSUME Inv, [Next]_vars PROVE Inv'
    OBVIOUS
  <2>1. ScanInductive'
    BY StepInductive
  <2>2. ScanShape' /\ Accounted'
    BY FolderAccounts, BlocksAccount, HitsAccount, EndAccounts DEF Next, Scan
  <2>. QED BY <2>1, <2>2
<1>3. Inv => SoundMeansAll
  BY DEF SoundMeansAll, CompleteMeansAll, Accounted, Premise, Seen, Owned
<1>. QED BY <1>1, <1>2, <1>3, PTL DEF Spec
=============================================================================
