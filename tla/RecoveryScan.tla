---------------------------- MODULE RecoveryScan ----------------------------
(***************************************************************************)
(* One recovery scan (engine/src/recovery.rs, run): copying a folder, the  *)
(* sweep of an image or drive for signatures and deleted NTFS records, or  *)
(* the quick pass over the master file tables.                             *)
(*                                                                         *)
(* Abstractions.  The source is cut into units of 64 KiB, by which the     *)
(* sweep steps over damage and looks past its block; a unit starts at most *)
(* one candidate, and sizes are in units.  Entries of a folder are units   *)
(* too.  Candidates that the query or the record's flags rule out are no   *)
(* candidates.  A unit of a file table holds one record.                   *)
(***************************************************************************)
EXTENDS Integers, Sequences

CONSTANTS
  Size,          \* units of the source
  Block,         \* units of a block: BLOCK, 4 MiB
  QuickLimit,    \* units a quick scan sweeps where it finds no volume: 1 GiB
  MaxRecords,    \* records the quick pass reads of a file table
  MaxOutput,     \* output budget, in units
  MaxResults,    \* output budget, in files
  FirstRead,     \* units read first to validate a signature: 256 KiB
  MaxCandidate,  \* CANDIDATE_LIMIT
  MaxReads,      \* budget of units read to validate signatures: 8 GiB
  Sources,       \* contents of the source
  Damage,        \* sets of units that cannot be read
  Modes          \* ways to scan

Units == 0 .. Size - 1

(* What a unit starts: nothing; a deleted record, whose data is resident   *)
(* (run = -1) or lies from unit run on; a file that carve_length can       *)
(* bound (in a folder: a file); or noise, a signature with no such bound   *)
(* (in a folder: an entry the walk cannot read).  A candidate that crosses *)
(* is seen only where the next unit is in the buffer as well.              *)
Candidate ==
  [kind : {"none", "record", "file", "noise"}, size : Nat, run : Nat \cup {-1},
   crosses : BOOLEAN]

(* tables: where the master file table of each volume found starts.        *)
Mode == [source : {"folder", "image", "drive"}, quick : BOOLEAN, tables : Seq(Nat)]

ASSUME ScanAssumption ==
  /\ Size \in Nat /\ Block \in Nat \ {0} /\ QuickLimit \in Nat
  /\ MaxRecords \in Nat /\ MaxOutput \in Nat /\ MaxResults \in Nat
  /\ FirstRead \in Nat \ {0} /\ MaxCandidate \in Nat /\ MaxReads \in Nat
  /\ Sources \subseteq [Units -> Candidate]
  /\ Damage \subseteq SUBSET Units
  /\ Modes \subseteq Mode

VARIABLES
  mode, content, bad, total,    \* what is scanned, how, report.total_bytes
  pc,
  offset, pending,              \* the sweep's offset, hits left in its block
  table, record, at,            \* quick pass: volume, record, file position
  times,                        \* unit -> how often its candidate was saved
  files, output, reads,         \* budgets spent
  skipped,                      \* the units counted in report.skipped
  scanned, partial, cancelled,  \* of the report
  cancel                        \* the flag recovery_cancel sets

source   == <<mode, content, bad, total>>
sweep    == <<offset, pending>>
quick    == <<table, record, at>>
results  == <<times, files, output, skipped>>
report   == <<scanned, partial, cancelled>>
vars     == <<source, pc, sweep, quick, results, reads, report, cancel>>

Least(i, j) == IF i < j THEN i ELSE j

Room == MaxOutput - output

Full == files >= MaxResults \/ output >= MaxOutput

QuickPass == mode.quick /\ mode.tables # <<>>

ScanLimit == IF mode.quick THEN Least(QuickLimit, total) ELSE total

IsHit(u) == content[u].kind # "none"

(* open_source_device reports the space free on a drive as its length.     *)
Init ==
  /\ mode \in Modes /\ content \in Sources /\ bad \in Damage
  /\ total \in CASE mode.source = "folder" -> {0}
                 [] mode.source = "image"  -> {Size}
                 [] mode.source = "drive"  -> 0 .. Size
  /\ pc = IF mode.source = "folder" THEN "folder"
          ELSE IF QuickPass THEN "quick" ELSE "head"
  /\ offset = 0
  /\ pending = IF mode.source = "folder" THEN {u \in Units : IsHit(u)} ELSE {}
  /\ table = 1 /\ record = 0
  /\ at = IF QuickPass THEN mode.tables[1] ELSE 0
  /\ times = [u \in Units |-> 0]
  /\ files = 0 /\ output = 0 /\ reads = 0 /\ skipped = {}
  /\ scanned = 0 /\ partial = FALSE /\ cancelled = FALSE
  /\ cancel = FALSE
-----------------------------------------------------------------------------
(* A candidate of n units is written out and reported.                     *)
Save(u, n) ==
  /\ times' = [times EXCEPT ![u] = @ + 1]
  /\ files' = files + 1
  /\ output' = output + n
  /\ UNCHANGED skipped

Skip(u) ==
  /\ skipped' = skipped \cup {u}
  /\ UNCHANGED <<times, files, output>>

Next1(u) == u \in pending /\ \A v \in pending : u <= v

(* An error leaves the scan; the report is marked partial.                 *)
Abort ==
  /\ pc' = "end" /\ partial' = TRUE
  /\ UNCHANGED <<results, sweep>>

(* Stop arrives while a candidate is read or written.                      *)
StopMeanwhile == ~cancel /\ cancel' = TRUE

FolderEnd ==
  /\ pc = "folder" /\ (pending = {} \/ cancel)
  /\ pc' = "end"
  /\ UNCHANGED <<source, sweep, quick, results, reads, report, cancel>>

FolderEntry(u) ==
  /\ pc = "folder" /\ ~cancel /\ Next1(u)
  /\ UNCHANGED <<source, quick, reads, scanned, cancelled>>
  /\ \/ /\ content[u].kind = "noise"
        /\ Skip(u) /\ pending' = pending \ {u}
        /\ UNCHANGED <<pc, offset, partial, cancel>>
     \/ /\ content[u].kind # "noise"
        /\ output + content[u].size > MaxOutput \/ files >= MaxResults
        /\ Abort /\ UNCHANGED cancel
     \/ /\ content[u].kind # "noise"
        /\ output + content[u].size <= MaxOutput /\ files < MaxResults
        /\ \/ /\ Save(u, content[u].size) /\ pending' = pending \ {u}
              /\ UNCHANGED <<pc, offset, partial, cancel>>
           \/ Abort /\ UNCHANGED cancel
           \/ /\ StopMeanwhile
              /\ pc' = "end" /\ UNCHANGED <<results, sweep, partial>>
-----------------------------------------------------------------------------
(* What recover_record can come to for record u: it is read and written;   *)
(* it exceeds the budget, its extents cannot be read, or writing fails.    *)
(* The error path moves the file to any place of its extents.              *)
Extents(u) == content[u].run .. content[u].run + content[u].size - 1

IsResident(u) == content[u].run = -1

Recoverable(u) ==
  /\ content[u].size <= Room
  /\ IsResident(u) \/ Extents(u) \subseteq Units \ bad

AfterRecovery(u) == IF IsResident(u) THEN at + 1 ELSE content[u].run + content[u].size

AfterError(u) ==
  {at + 1} \cup IF IsResident(u) \/ content[u].size > Room THEN {}
                ELSE Extents(u) \cup {AfterRecovery(u)}

IsRecord(u) == content[u].kind = "record"

QuickStops == cancel \/ Full \/ record >= MaxRecords \/ at \notin Units \ bad

QuickNextVolume ==
  /\ pc = "quick" /\ QuickStops
  /\ IF table < Len(mode.tables)
     THEN /\ table' = table + 1 /\ record' = 0 /\ at' = mode.tables[table + 1]
          /\ UNCHANGED <<pc, scanned>>
     ELSE /\ pc' = "end" /\ scanned' = total
          /\ UNCHANGED quick
  /\ UNCHANGED <<source, sweep, results, reads, partial, cancelled, cancel>>

QuickRecord ==
  /\ pc = "quick" /\ ~QuickStops
  /\ record' = record + 1
  /\ \/ /\ ~IsRecord(at)
        /\ at' = at + 1 /\ UNCHANGED <<results, cancel>>
     \/ /\ IsRecord(at) /\ Recoverable(at)
        /\ Save(at, content[at].size)
        /\ at' = AfterRecovery(at) /\ UNCHANGED cancel
     \/ /\ IsRecord(at)
        /\ at' \in AfterError(at)
        /\ UNCHANGED results
        /\ StopMeanwhile \/ UNCHANGED cancel
  /\ UNCHANGED <<source, pc, sweep, table, reads, report>>
-----------------------------------------------------------------------------
(* The sweep reads a block and 64 KiB more, in one read_exact.             *)
\* Mutant: the buffer holds the block alone
WindowEndShort == Least(offset + Block, ScanLimit)

WindowEnd == Least(offset + Block + 1, ScanLimit)

Window == offset .. WindowEnd - 1

HeadStops == offset >= ScanLimit \/ cancel \/ Full

(* The loop over, a changed image makes the report partial.                *)
SweepEnd ==
  /\ pc = "head" /\ HeadStops
  /\ pc' = "end" /\ scanned' = total
  /\ partial' \in IF mode.source = "image" THEN {partial, TRUE} ELSE {partial}
  /\ UNCHANGED <<source, sweep, quick, results, reads, cancelled, cancel>>

\* Mutant: damage is tried again
SweepDamageAgain ==
  /\ pc = "head" /\ ~HeadStops /\ Window \cap bad # {}
  /\ UNCHANGED vars

SweepDamage ==
  /\ pc = "head" /\ ~HeadStops /\ Window \cap bad # {}
  /\ offset' = Least(offset + 1, ScanLimit)
  /\ UNCHANGED <<source, pc, pending, quick, results, reads, report, cancel>>

\* Mutant: hits of the lookahead are taken too
HitsOfBuffer(window) ==
  {u \in window : IsHit(u) /\ (content[u].crosses => u + 1 \in window)}

(* Hits that start in the lookahead belong to the next block.              *)
HitsOf(window) ==
  {u \in window : /\ IsHit(u) /\ u < offset + Block
                  /\ content[u].crosses => u + 1 \in window}

SweepBlock ==
  /\ pc = "head" /\ ~HeadStops /\ Window \cap bad = {}
  /\ pending' = HitsOf(Window)
  /\ pc' = "hits"
  /\ UNCHANGED <<source, offset, quick, results, reads, report, cancel>>

BlockDone ==
  /\ pc = "hits" /\ (pending = {} \/ cancel \/ Full)
  /\ offset' = Least(offset + Block, ScanLimit)
  /\ scanned' = offset'
  /\ pending' = {} /\ pc' = "head"
  /\ UNCHANGED <<source, quick, results, reads, partial, cancelled, cancel>>

HitRecord(u) ==
  /\ pc = "hits" /\ ~cancel /\ ~Full /\ Next1(u) /\ IsRecord(u)
  /\ pending' = pending \ {u}
  /\ \/ Recoverable(u) /\ Save(u, content[u].size) /\ UNCHANGED cancel
     \/ Skip(u) /\ (StopMeanwhile \/ UNCHANGED cancel)
  /\ UNCHANGED <<source, pc, offset, quick, reads, report>>
-----------------------------------------------------------------------------
(* A signature is validated on ever longer prefixes, each twice the last,  *)
(* up to the cap.                                                          *)
\* Mutant: the output so far is not deducted
CapWhole(u) == Least(Least(total - u, MaxCandidate), MaxOutput)

Cap(u) == Least(Least(total - u, MaxCandidate), Room)

Lengths(u) ==
  {n \in 1 .. Cap(u) : n = Cap(u) \/ \E k \in 0 .. n : n = FirstRead * 2 ^ k}

Bounded(u, n) == content[u].kind = "file" /\ content[u].size <= n

(* The prefixes that are read: each is within the read budget, readable,   *)
(* and no shorter one showed the end of the file.                          *)
Affordable(n) == reads + n <= MaxReads

Readable(u, n) == u .. u + n - 1 \subseteq Units \ bad

Tried(u) ==
  {0} \cup {n \in Lengths(u) : /\ Affordable(n) /\ Readable(u, n)
                               /\ \A m \in Lengths(u) : m < n => ~Bounded(u, m)}

LongestTried(u, n) == n \in Tried(u) /\ \A m \in Tried(u) : m <= n

(* The budget check precedes the read of the next prefix.                  *)
ReadsExhausted(u) ==
  \E n \in Lengths(u) :
    /\ \A m \in Lengths(u) : m < n => m \in Tried(u) /\ ~Bounded(u, m)
    /\ ~Affordable(n)

HitSignature(u) ==
  /\ pc = "hits" /\ ~cancel /\ ~Full /\ Next1(u) /\ ~IsRecord(u)
  /\ UNCHANGED <<source, quick, scanned, cancelled>>
  /\ \E n \in Tried(u) :
       /\ LongestTried(u, n) /\ reads' = reads + n
       /\ \/ /\ ~Bounded(u, n)
             /\ Skip(u) /\ pending' = pending \ {u}
             /\ partial' = (partial \/ ReadsExhausted(u))
             /\ UNCHANGED <<pc, offset, cancel>>
          \/ /\ Bounded(u, n)
             /\ Save(u, content[u].size) /\ pending' = pending \ {u}
             /\ UNCHANGED <<pc, offset, partial, cancel>>
          \/ /\ Bounded(u, n)
             /\ Abort /\ UNCHANGED cancel
          \/ /\ Bounded(u, n)
             /\ StopMeanwhile /\ pending' = {}
             /\ UNCHANGED <<pc, offset, results, partial>>
          \/ Abort /\ StopMeanwhile
-----------------------------------------------------------------------------
(* The end of run: what the report says, and whether it can be written.    *)
Finish ==
  /\ pc = "end"
  /\ cancelled' = cancel
  /\ partial' = (partial \/ Full \/ cancel \/ (total > 0 /\ scanned < total))
  /\ pc' \in {"done", "failed"}
  /\ UNCHANGED <<source, sweep, quick, results, reads, scanned, cancel>>

Scan ==
  \/ FolderEnd
  \/ \E u \in Units : FolderEntry(u)
  \/ QuickNextVolume
  \/ QuickRecord
  \/ SweepEnd
  \/ SweepDamage
  \/ SweepBlock
  \/ BlockDone
  \/ \E u \in Units : HitRecord(u)
  \/ \E u \in Units : HitSignature(u)
  \/ Finish

(* recovery_cancel, while the scan has not loaded the flag a last time.    *)
Stop ==
  /\ pc \notin {"done", "failed"} /\ ~cancel
  /\ cancel' = TRUE
  /\ UNCHANGED <<source, pc, sweep, quick, results, reads, report>>

Next == Scan \/ Stop

Spec == Init /\ [][Next]_vars /\ WF_vars(Scan)
-----------------------------------------------------------------------------
(* Properties.                                                             *)

(* Every variable keeps its type.                                          *)
TypeOK ==
  /\ mode \in Modes /\ content \in Sources /\ bad \in Damage /\ total \in 0 .. Size
  /\ pc \in {"folder", "quick", "head", "hits", "end", "done", "failed"}
  /\ offset \in Nat /\ pending \subseteq Units
  /\ table \in Nat /\ record \in Nat /\ at \in Nat
  /\ times \in [Units -> Nat] /\ skipped \subseteq Units
  /\ files \in Nat /\ output \in Nat /\ reads \in Nat
  /\ scanned \in Nat
  /\ partial \in BOOLEAN /\ cancelled \in BOOLEAN /\ cancel \in BOOLEAN

(* The output never exceeds the budget of bytes and files, whichever of    *)
(* the three scans runs and however its candidates' sizes fall; hence      *)
(* MAX_OUTPUT - output_bytes never wraps.                                  *)
BudgetKept == output <= MaxOutput /\ files <= MaxResults

(* Neither the sweep nor the folder copy saves one candidate twice, though *)
(* the windows of consecutive blocks overlap.                              *)
NothingTwice == ~QuickPass => \A u \in Units : times[u] <= 1

(* Behind it: what is saved lies before the block, or is off its list.     *)
SavedBehind ==
  ~QuickPass =>
    \A u \in Units : times[u] > 0 =>
      /\ u \notin pending
      /\ pc = "head" => u < offset
      /\ pc = "hits" => u < offset + Block /\ u < ScanLimit

(* The loop keeps its hits within the block and the swept part.            *)
HitsInBlock ==
  /\ pc = "hits" => pending \subseteq offset .. offset + Block - 1
  /\ pc = "head" => pending = {}
  /\ pc \in {"head", "hits"} => offset <= ScanLimit /\ ~QuickPass
  /\ pc = "hits" => pending \subseteq 0 .. ScanLimit - 1
  /\ pc = "quick" => QuickPass /\ table \in 1 .. Len(mode.tables)
  /\ pc = "folder" => mode.source = "folder"

(* The inductive invariant.                                                *)
ScanInductive ==
  TypeOK /\ BudgetKept /\ NothingTwice /\ SavedBehind /\ HitsInBlock

(* "A report records skipped candidates, partial scans": a report of a     *)
(* full scan that is not marked partial accounts for every candidate of    *)
(* the source, as saved or as skipped.                                     *)
CompleteMeansAll ==
  pc = "done" /\ ~partial /\ ~mode.quick =>
    \A u \in Units :
      IsHit(u) /\ (content[u].crosses => u + 1 \in Units)
        => times[u] > 0 \/ u \in skipped

(* So it is for every folder and every image that can be read throughout:  *)
(* no block boundary, failed write, Stop or spent budget loses a candidate *)
(* that the report does not own up to.                                     *)
SoundMeansAll == bad = {} /\ mode.source # "drive" => CompleteMeansAll

(* "Quick MFT Scan: rapidly searching Master File Table for deleted        *)
(* records": the record a step of the quick pass reads is the one its      *)
(* counter says, the record-th of the table.                               *)
QuickReadsTable ==
  pc = "quick" /\ ~QuickStops => at = mode.tables[table] + record

(* A scan ends, whatever it meets and whether or not it is stopped.        *)
ScanEnds == <>(pc \in {"done", "failed"})
=============================================================================
