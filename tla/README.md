# ClockVerse: a TLA+ verification project

ClockVerse Recovery Studio is a desktop program (Tauri shell, Rust engine, plain JavaScript
interface) that does two things: it keeps versioned backups of folders in a content-addressed
repository, and it recovers deleted files from folders, disk images and drives. This directory
models the parts that decide whether a user's data survives: the backup repository, what is
restored from it, the gate that serializes all disk work together with the schedule, moving and
reopening the repository, the recovery scan and the formats it reads, the imager, the event index,
the sidecar, and the two functions that sell and activate licenses. Paths and line numbers below
are relative to the repository.

    module            models                                     proofs
    RestorePoints     what the backup promises (abstract)        -
    TimeCapsule       the repository, operation by operation     TimeCapsule_proofs
    Restore           restore, export and audit                  Restore_proofs
    OperationGate     gate, cancel flag, mutex, minute daemon    OperationGate_proofs
    RecoveryScan      one recovery scan, from start to report    RecoveryScan_proofs
    Relocation        start-up, copy_repository, reopening       Relocation_proofs
    Licensing         validate-license, razorpay-webhook         Licensing_proofs
    Imager            disk imaging with checkpoint and resume    Toolkit_proofs
    SidecarRpc        calls to the Python process                Toolkit_proofs
    EventIndex        telemetry import and time travel           Toolkit_proofs
    Ntfs, Mp4,        parsers as functions of bytes              Toolkit_proofs
    Carver, Volumes
    Sorting           stable insertion, for Carver and Volumes   Toolkit_proofs
    Formats           the parsers at work on samples             Toolkit_proofs
    MC*               the small instances TLC checks
    Folding           induction and folds, for the proofs        itself

`tlc -config X.cfg MCModule` checks a run, `tlapm M.tla` the proofs of a module.
`PROJECT.json` lists runs, mutants, hazards, theorems, and for every definition the lines of
source it stands for.

## 1. Inventory

### Modelled

**Snapshot repository** (`engine/src/timesnap.rs`). State on disk: `objects/` (4 MiB chunks named
by SHA-256, zstd-compressed; old releases stored whole files), and directly beside it `<uuid>.json` (one
manifest per restore point), `folders.json` (registry with status and last attempt), `policy.json`.
State in memory: copies of the last two and an OS lock held for the life of the object.
Operations: open, protect, capture, pause, set policy, retention, cleanup, copy, restore, export,
audit, estimate. Hard: a capture reads files that change under it, writes dozens of objects before
one manifest, then the registry, then forgets and deletes; it may fail, be cancelled or die
between any two of these. Correct when: a published restore point always has its objects; a folder
called protected has a restore point; a pause outlives captures and failures; the storage budget
holds; retention forgets the surplus and nothing else; a cleanup deletes unreferenced objects and
nothing else.

**Operation gate and backup daemon** (`src-tauri/src/workbench.rs:8-65`, `main.rs:220-490`). State:
one atomic `active`, one atomic `cancel` shared by all operations, the mutex around the repository
(which a panic poisons), per-folder status and `last_attempt`, and what could be read of the repository. Commands, scans and the daemon each
pass `begin`, work on a blocking thread, and clear `active` by dropping a guard; Stop sets
`cancel` at any time; every minute the daemon lists the folders that are due and captures them one
after the other. Hard: everything here is interleaving. Correct when: two operations never run
at once; Stop hits the operation it was meant for and only that one; the gate opens again; a
paused folder is left alone; attempts are spaced by the interval (failed ones are not when the policy could
not be read, section 6), and an overdue folder is served.

**Recovery scan** (`engine/src/recovery.rs`). State: source handle and its position, block
offset, hits of the block, budgets (output bytes, files, validation reads), the report. One run
copies a folder, sweeps an image or drive in overlapping windows, or walks file tables (quick).
Hard: block boundaries, unreadable areas, three budgets that run out in the middle, cancellation
and write errors at each step, a shared file position. Correct when: budgets hold (an unsigned
subtraction depends on it), nothing is saved twice, a report that is not marked partial accounts
for every candidate, and the scan ends.

**Relocation and start-up** (`timesnap.rs:125-193, 787-862`, `workbench.rs:258-304`,
`main.rs:405-427`). State: the configured location, the directories at each place, the open
repository. Hard: a move is a long copy of objects, manifests, registry and policy followed by a
config write and a switch, with crashes, failing steps and drives that come and go in between.
Correct when: the repository that is open after any of that has every restore point and the policy
the user left in it, and no half copy is ever taken for a repository.

**License functions** (`supabase/functions/validate-license`, `razorpay-webhook`, `schema.sql`).
State: the tables `licenses` and `activations`; the functions keep none of their own. They are
optional in the product (README.md:32, 53). validate-license reads a license, looks for the machine's activation,
counts the activations, inserts one, and marks the license row; the webhook turns a captured
payment into a row, a log entry and an email with the key. Hard: nothing runs in a transaction, many
invocations run at once, the provider repeats events, and most errors of statements are never
looked at. Correct when: a machine told "valid" has an activation; the number of machines
stays within the tier's limit; the key a customer is sent is the one stored.

**Restore, export, audit** (`timesnap.rs:534-656, 741-760`, `workbench.rs:144-183, 236-257`). State: the
objects on disk, a temporary file beside each destination, the shared cancel flag. Hard: chunks
that rotted, a manifest that contradicts them, two storage forms, Stop or a failure at each
chunk, a power cut before or after the sync and the rename. Correct when: a destination is its old
file or exactly one version; "restored" means all of it; an audit lists exactly what is damaged.

**Disk imager** (`engine/src/imager.rs`). State: the image, the checkpoint beside it. Hard: kills
between chunk and checkpoint, a checkpoint torn while it is rewritten, an image begun over another
file or beside the checkpoint of another image, a disk whose metadata give no length. Correct when: an
image reported complete is the source from where its copying began; a resumed call loses one chunk.

**Chrono and event index** (`engine/src/chrono.rs`, `index.rs`, `main.rs:53-146`). State: an SQLite
table, the mutex around it. Hard: events out of order and with equal times, imports that fail
half-way, power cuts that take the newest rows, times and offsets at the end of their range. Correct
when: the index answers as a replay in memory does; the past does not change; no log crashes it.

**Forensic sidecar** (`engine/src/sidecar.rs`, `main.rs:149-162`, `sidecar/sidecar.py`). State: the table
of pending calls, two pipes, the reader task. Hard: an answer after its call timed out, lines that
are no answers, a process that hangs or dies, a pipe nobody reads. Correct when: a command gets
its own answer or none, and returns.

**Parsers** (`ntfs.rs`, `ntfs_extract.rs`, `mp4.rs`, `sectorforge.rs`, `partition.rs`, `recovery.rs:368-408`).
Functions of bytes without state; hard at their boundaries: records torn by a crash, run lists
with signed offsets of any width, boxes that claim more than there is, signatures across the
chunks a search is split into, partition tables that contradict each other.

### Not modelled

- **Estimate** (`timesnap.rs:257-295`) only reads. **carve_folder** (`sectorforge.rs:260-430`), `scan_mft`,
  `parse_boot_sector` and the fields of names (`ntfs.rs`), and `find_ntfs_volume` are called by tests or
  decode fixed fields, one line each. (The carver, the imager, `extract_file_content` and
  `rewrite_chunk_offsets` too are called by tests only at this commit; they are modelled
  because the documentation names them as the recovery engine.)
- **License server** (`server/src/main.rs`): stateless signing; cryptography is out of TLC's reach.
- **Shadow copies, drive listing** (`vss.rs`, `shadow_miner.rs`, `drives.rs`): wrappers around one
  external command each, no state of their own.
- **Desktop UI** (`ui/js/app.js`): busy flags around the commands; every rule it shows is enforced
  again by the commands. The other files of `ui/js` belong to an interface `index.html` no longer
  loads; `ui/vendor` is third-party.

### How the parts interact

    UI --invoke--> commands --begin()--> RecoveryState{active,cancel}   <-- Stop
                      |                        ^
                      | spawn_blocking         | compare_exchange every minute
                      v                        |
                 Mutex<TimeCapsule> <------- daemon
                      |
                 snapshot repository (possibly moved by capsule_location)

    recovery_scan passes the same gate but takes no mutex; it shares the cancel flag.

OperationGate treats a capture as the time between lock and unlock. TimeCapsule treats all
operations as serialized. GateExclusive, which OperationGate proves, is what entitles TimeCapsule
(and Restore, Relocation and RecoveryScan) to that assumption. Commands of the index hold its own
mutex, commands of the sidecar an asynchronous one; neither shares state with the repository.
RecoveryScan takes what the formats say as given; Formats checks the parsers that say it.

## 2. State and actions against the code

### TimeCapsule (and RestorePoints)

| variable | in the code |
| --- | --- |
| `objects` | files in `objects/` by hash: absent, good, damaged (fails `read_and_verify_object`) |
| `strays` | bytes of `.tmp*` files a crash left there (`NamedTempFile` never dropped) |
| `manifests`, `broken`, `foreign` | the other `*.json` of the storage directory; those that no longer parse; a name that is no UUID |
| `diskFolders`, `diskPolicy` | `folders.json`, `policy.json` |
| `folders`, `policy` | the fields of the open `TimeCapsule` |
| `op` | program counter and locals of the one operation in progress |
| `clock`, `nextId`, `faults` | wall clock, UUIDs, the fault bound |

A capture is `Prepare` (344-361: source check, previous point, bytes in use), then per path
`OpenFile` or `SkipPath`, per chunk `ReuseChunk` / `StoreChunk` / `RejectChunk` (392-436), `CloseFile`
with the size-and-time comparison (448-463), then `Publish` or `ReusePrevious` (464-506), `Record`
(507-517), `Prune`, one `Forget` per manifest (729-740), and a sweep of one object per step (761-785).
Between any two of them the world may edit the open file, raise the cancel flag, fail an I/O call,
rot an object, break or drop a manifest in the directory, set the clock back or kill the process.
`Unwind` is what callers do with a failure: protect unregisters the folder (324-328), the daemon
records Error (main.rs:475-481), a manual capture records nothing.

A `Content` is bytes, length and modification time together; two contents may share chunks, and the
theorems allow them to have the same (a touched file). Directories are not in the model: a walk that saw
the same files may still end in a new point, because the code compares the directories too (469), so
`Publish` is always possible and `ReusePrevious` only for an unchanged tree. A torn read is an edit the final comparison sees: the
code compares length and time only, so an edit that leaves both alone is invisible to it and to
the model. Sizes are abstract; `BytesOf` need only be additive. The file walk is unordered.

`RestorePoints` is the promise: points that are whole, appear at once, are forgotten only beside
another one of the same folder; folders registered only with a point. `PointsSpec` states that
TimeCapsule implements it with `points` mapped to the manifests whose objects are stored.

### OperationGate

`active`, `cancel` are the atomics, `mutex`/`poisoned` the `Mutex<TimeCapsule>`, `pc` each task's phase:
entered (past the exchange, workbench.rs:17-21), begun (cancel reset, 22), batch or working (under
the mutex, or scanning), leaving (guard about to drop, 26-30). `age` and `saved` are the minutes since
`last_attempt` in memory and in `folders.json`. `asked`, `since`, `stamp` are history for the
properties. `loaded` is what initialize has read (timesnap.rs:161-183): everything, `folders.json` only
(policy.json did not parse or is out of range), or nothing; in the last two cases `ready` refuses every
capture (344) before the attempt is stamped (351) and every save (195). `Interval` is then the default policy's,
or what the invalid file says. `Save` is save_folders, `Reopen` the end of capsule_location (workbench.rs:258-306),
after which another repository with its own folders and times is open. `Restart` kills the process: what
was not saved is lost, including the poison, and a file may have become unreadable or been repaired.
Minutes are elapsed minutes; the stall after the wall clock is set back (main.rs:461) is left out.

### RecoveryScan

Units are 64 KiB, the step by which the sweep passes damage and by which windows overlap.
`FolderEntry` is 607-655, `QuickRecord`/`QuickNextVolume` 671-713, the sweep 738-946 with `SweepDamage`
(753-759), `SweepBlock`, `HitRecord` (772-809), `HitSignature` (810-925: growing prefixes, read budget,
cap by the room left), `BlockDone`; `Finish` is 951-971. `at` is the position of the file handle the
quick pass reads from, which `recover_record` moves. What the formats say is abstracted to a
`Candidate` per unit. That leaves two visible things to the formats' modules: whether
`carve_length` is right, and whether a run list is decoded correctly.

### Relocation

`exists`, `points`, `registered`, `policy` describe every place; `config` is
`snapshot-location.json`, `mem` the open repository, `away` the unplugged drives, `op` the command under way; `known`,
`chosen`, `owed` are history. `CopyBegin`, `CopyPoint`, `CopyFolders`, `CopyPolicy` follow the order of
`copy_repository` (787-862), `Publish` and `Switch` that of `capsule_location` (workbench.rs:292-302).
`Fail` may end any step before the switch; the partial copy stays. Not modelled: a leftover mount
directory of an absent drive (as on Unix; `is_dir` at main.rs:412 would accept it), two programs
sharing one configuration, and a `folders.json` that no longer parses.

### Licensing

`tier`, `keyOf`, `closed`, `bound` are columns of `licenses` by order (one row per order,
schema.sql:14), `activations` the other table; `request` and `delivery` are the invocations with what
they remember between statements; `told`, `unstored`, `unguarded` are history. `ReadLicense`,
`ReadOwn`, `CountOwn`/`CountNew`/`CountFails`, `Activate`, `Bind` are the five statements of
validate-license (38-110) with the tests between them; `Store`, `Log`, `Email` those of the webhook
(136-164). A statement that fails gives what the code makes of it: no license, no activation (64),
a count of none (`count || 0`, 92), an insert nobody misses (101), status 500 (149). Either function
may be killed between two statements; a statement the database finishes after its function was
killed is not modelled. Each delivery makes a new key (133), so a key stands for its delivery.

### Restore

`disk` maps each object to what `read_chunk_bytes` would find; since a hash stands for the bytes it
is the hash of, an object's name is its intact content. `job` is the restore or export under way with
its phase, the parts left and the temporary file; `surviving` says for each destination what a
power cut may leave there, which is where `sync_all` (605) and `persist` (606) differ. `OpenEntry`,
`CopyPart`, `Verify`, `Sync`, `Persist` are restore_entry in order; each early return is an action
ending in `Answer`. The audit is `AuditNext`, `AuditRead`, `AuditNote`: reading an object fails when the
cancel flag is up (967), the failure is booked as damage (750-756), and only the check after it (758)
keeps that from the user. The shared flag is reset by the next operation (`BeginRestore`,
`BeginAudit`). Raw objects are whole files of an old release.

### Imager

`StartImaging` is 28-46, `CopyChunk` 50-64 (a read may return less than it was asked for), `TruncateMark`
and `WriteMark` the two halves of `fs::write` (65), `FinishImaging` 71-75. `stated` is the length in the
metadata of the source (29): that of a file is where its reads end, that of a disk is 0. At the destination
there may be any file and any checkpoint, of this source or another, up to one beyond the source; `Saved` is what
the code makes of it (32-38). `before`, `begun`, `reached` and `disturbed` are history: what the image was begun
over, at which byte, how far it has got, and whether a power cut or the user has touched it.

### SidecarRpc

`Ask`/`Acquire` wait for and take the asynchronous mutex; `Register`, `Write`, `Hear`, `TimeOut` are call (68-98);
`Route`, `ReaderEnds` the reader task (50-62); `Serve`, `Reply` sidecar.py 128-153. `requests` and `answers` are the
pipes, of which the first blocks when full. `asked` is history: which call a request belongs to.

### EventIndex

`table` is the events table in insertion order; `durable` the rows a power cut cannot take (WAL with
synchronous = NORMAL, index.rs:23-24). `Push` is one row, one transaction. Times are words of `Width` bits
and the column is signed, as in SQLite. `Patched` says what the unclamped sum in chrono.rs:49 does.
Both orders, that of `sort_by_key` in memory and that of the index on the column, are the stable
insertion sort `SortedBy`, over `PlainTime` or `SignedTime`; `Bound` is the WHERE clause.

### Ntfs, Mp4, Carver, Volumes, Formats

Functions over sequences (Volumes and Carver use Sorting). A record is cells of two bytes plus its
attributes; a run list is encoded bytes; an MP4 file or an image is 32-bit words, of which sizes count words;
a disk is sectors. Bases are constants (`Base`, `WordTop`; so are the types of boxes, `Containers`, `Stco` and
`Co64`), so carries and overflows happen at small numbers. Loops are recursive functions of the number of
turns or of the position (RunRead is one turn of parse_data_runs, ReadRun one of extract_non_resident,
NextBox one of validate, PatchRange one call of patch_range with what remains of its loop, Search one
position of find_iter and the loop around it, WithOffset one hit of dedup_hits). find_iter is the library's search: leftmost matches that do not overlap, and where two
signatures match the first of them. SIGNATURES is a constant with what its table makes true
(sectorforge.rs:15-57): no signature begins inside another or is longer than the overlap (gzip's three
bytes and PNG's eight are the extremes), and a footer lies within the tail added behind it. A disk's
partitions are slots, some empty, of an MBR or a GPT; ParseMbr and ParseGpt pass over the empty ones.

Formats reads one sample per behaviour; a sample holds the bytes and what they were made from, and
how the one comes from the other is said by RecordSample (update sequence, torn write), DeletedSample
(attributes up to an end mark, EncodedRuns), ImageSample (files anywhere in an image that begin with their
signature, or with a word before it, and end with the first of their footers, or are MP4 files of boxes that say
where they end, behind which no box of an MP4 file begins), DiskSample (partitions that do not overlap,
listed in any order) and Mp4Sample: an MP4 file of which the beginning is left, the boxes of the whole with
where each begins, has its content, ends and must end (SoundBox: they fill the file and the containers, and a
header gives its size in a word, in two, or as all there is), and the file as it would have been
written elsewhere, whose tables have every entry shifted and clamped to its range. TLC evaluates all five,
as assumptions about Samples, on every sample of the run.

## 3. Runs

| run | instance | states | shows |
| --- | --- | --- | --- |
| `capsule_safety` | 2 folders, 1 path, 2 contents sharing a chunk, 2 policies, 2 points, 1 fault, clock may go back, fair | 359k | PointsBacked, ProtectedHasPoint, PausePersists, WithinBudget, OperationsEnd, and the refinement PointsSpec |
| `capsule_files` | 1 folder, 2 paths, legacy point possible, 3 points, keep 2, 1 fault, clock forward | 4.0M | ResultVerified, CleanupComplete, ForgetsOlder, RetentionExact |
| `gate` | a command, a scan, the daemon, 2 folders, interval 2, repository readable or not, panics, 1 restart, fair | 420k | GateExclusive, StopReachesItsOwn, PausedLeftAlone, AttemptsSpaced, GateReleased, ScheduleServed |
| `scan` | 4 units, block 3, all sources over 4 kinds, damage, 5 modes, fair | 201k | BudgetKept, NothingTwice, SoundMeansAll, ScanEnds |
| `relocation` | 3 places, 2 points, 2 crashes, symmetric | 190k | CatalogKept, MarkerMeansComplete |
| `licensing` | 1 license of any tier, 4 machines, 2 requests at once, 2 deliveries, 1 fault, symmetric | 297k | ToldValidIsActivated, LimitWhenAlone, OverdraftBounded, EmailedKeyIsStored |
| `restore` | a point of two chunked files, a whole-file one, one that contradicts itself; raw or packed; 2 faults | 2.5M | DestExact, DeliveredWhole, AuditExact |
| `toolkit` | imager, sidecar, index or one sample, chosen by `subject` | 209k | ImageExact, ResumesAtChunk, AnswerToOwnCall, CallsEnd, ReplayAgrees, PastStable, FixupFindsTears, ExtractExact, OffsetsShifted, CarvedExactly, VolumesFound |

The imager, the sidecar, the index and the parsers share nothing, so MCToolkit is a sum, not a
product: each behaviour drives one of them and leaves the others at rest.

Four more runs end in a violation, each of something a document or comment of the repository says:

| run | property | what happens |
| --- | --- | --- |
| `gate_damaged` | FailuresSpaced | `policy.json` could not be read, `folders.json` could; the capture of an overdue folder is refused before it is recorded and tried again a minute later |
| `scan_drive` | CompleteMeansAll | the free space of a drive is taken for its length; the report is complete |
| `scan_quick` | QuickReadsTable | after a non-resident record the quick pass reads on from the end of that record's data |
| `chrono_panic` | NeverCrashes | a patch with the largest delete length makes time travel panic with the mutex held, and all later commands of the index fail |

Each property of a passing run has a mutant of the code that breaks it in `PROJECT.json`; the mutated
definitions stand before the originals in the modules, marked "Mutant".

### Why the bounds suffice

- Two folders are enough for one folder's cleanup to endanger another's chunks, since they share
  an object; two contents, one a superset of the other, give reuse, storing and rejection; budgets
  3 and 2 are one that everything fits and one that it does not. One fault per behaviour is
  every single failure, crash or damage at every point; the theorems cover any number of them.
- Two points and keep 1, and three points and keep 2, make retention forget and are both sides of the
  boundary; the theorems cover every number of points and every policy, changed at any time.
- Two due folders let a pause, a Stop or a panic fall between the daemon's captures; interval 2 is
  the least in which "a minute early" differs from "at once".
- Four units in blocks of three give a full block, a short last one, a candidate crossing the
  boundary, a hit in the lookahead, and room for damage behind it. Output 5 and reads 6 are less
  than the largest sources need.
- Three places allow moving on from a place moved to, and back by reopening; two crashes allow an
  interrupted move followed by an interrupted reopening.

- Four machines are one more than a studio license allows, and two requests in flight exceed every
  limit by one; requests begin again and again, so sequences are not bounded. A second license
  would share nothing with the first.
- Two faults in Restore allow damage before or during an operation followed by a crash, or two power
  cuts. The three manifests are the three ways an entry can relate to its objects, and two of them
  share a chunk. The number of faults does not enter the theorems.
- Five blocks in chunks of two give a short last chunk, short reads and a limit inside a chunk; the
  images to write over are none, a shorter and a longer one, each with every checkpoint from none to one past
  the source; the length is stated or not. Two troubles allow a kill after a kill.
- Two callers and four calls let a third call run while the answers of two that timed out are
  under way; a pipe of two requests fills. In the event index words of 3 bits put the sign and the
  overflow within reach; five rows are two logs.
- Samples: every tear of three sectors, all run lists of one and two runs over five places and
  sparse (with one- and two-byte offsets, ends missing or followed by garbage, images cut short), all
  pairs of eight boxes cut at each word, all triples of seven fragments in chunks of 3, 4, 5 and more, all
  orders of up to three partitions in MBR and GPT. These are checks of bounded inputs, no more.

`CHECK_DEADLOCK FALSE` is set for the scan runs and for the toolkit: a scan, a sample that was read
and a sidecar whose calls are used up are over when they are over.

## 4. Fairness

- TimeCapsule: `WF(Engine)`. An operation runs on its own thread and nothing it waits for is held by
  others (GateExclusive); its steps are plain calls that return.
- OperationGate: `WF(Run(t))` for every worker, for the same reason; `WF(Begin(Daemon))` and
  `WF(Minute)`, because the daemon is a thread that wakes every minute and tries the gate.
  Nothing is assumed of users. ScheduleServed is therefore premised on the gate being left alone at
  last (weak fairness cannot make the daemon win a race it polls for once a minute), on a mutex
  that is not poisoned, and on a repository that could be read.
- RecoveryScan: `WF(Scan)`, the scan's thread. Neither Stop nor failures are fair.
- SidecarRpc: `WF(CallStep(c))` for each command: the runtime polls a call that can go on and its
  timer expires. Nothing is assumed of the sidecar or of the reader. CallsEnd therefore excepts a
  full pipe, at which the write, which has no timeout, keeps the mutex for ever.

Restore and Imager have no liveness property: their loops run over finite lists and nothing waits.
Relocation has none either: a move may fail at each step and nobody must retry it. Licensing
has none: a function may be killed at any statement and nothing resumes it.

## 5. Proofs

All constants are arbitrary subject to the named assumptions of the modules: disjointness of
sentinel values, types, for TimeCapsule that the bytes of a set of objects are the sum of its
members', and for Formats that samples are what NTFS writes. `MaxSnapshots`, `MaxFaults`, `MaxCrashes`, `MaxRestarts`, `MaxTrouble`, `MaxCalls` may be any
number, so the bounds of the runs do not limit the theorems. The inductive invariants live in the
proof modules or beside the properties; each was checked by TLC before it was proved.

**TimeCapsule_proofs.** TypeCorrect, InductiveHolds, RestorePointsBacked, ProtectionIsReal,
BudgetHolds, PauseIsKept, RepositoryKeepsPromise, CaptureVerifies, CleanupIsComplete,
RetentionKeepsCount, RetentionForgetsOlder. PointsBacked is not inductive: the step that could
break it is the sweep, so the invariant must know that nothing on the sweep's list is referenced
(SweepUnneeded) while manifests cannot appear during a sweep; and publication, so the invariant
must know that the entries gathered so far have their chunks among the verified, and the verified
among the stored (WalkStored). ProtectedHasPoint needs what memory may claim while a protect is
unfinished (MemoryHasPoint) and that retention leaves one point (RetentionSpares), which in turn
needs distinct ids (IdsUnique). BudgetHolds needs that the running count equals the directory
(WalkCounted), where additivity of bytes enters. PauseIsKept has an invariant of its own, PauseKnown.
CleanupIsComplete needs that the sweep's list covers everything stored and unreferenced
(SweepCovers), CaptureVerifies that a point not of an older release names its files' chunks
(PointsWhole). Retention is followed by what it will leave, Spared, which no Forget changes:
KeepsEnough bounds its size, DatesOrdered makes the order of dates that of the ids, so each victim is
older than a spared point. RetentionForgetsOlder assumes ~ClockMayRegress, as its run does.
RepositoryKeepsPromise maps every step to a step of RestorePoints or a stutter: Publish to Publish,
Forget to Forget (RetentionSpares again), writes of the registry to Register, the rest to stutters;
that damage and sweeps are stutters is PointsBacked.

**OperationGate_proofs.** GateInductiveHolds, OneOperation, StopIsPersonal, PauseRespected,
DaemonSpacesAttempts. Exclusion rests on GateHeld (whoever is past the exchange keeps `active` true),
StopReachesItsOwn on that too (nobody else gets to the reset) and on AskedAfterReset, the pause on ListCurrent (the daemon's list stays right because pausing needs the mutex the daemon
holds), spacing on StampsRight: the age in memory is never more than the true one, unless the
record of the attempt was lost with the process or with the repository, or ready refused the attempt and none was
made. The exceptions are those of AttemptsSpaced; the last is what `gate_damaged` shows.

**RecoveryScan_proofs.** ScanInvariant, ScanBudget, ScanSavesOnce, NothingLostSilently. SavedBehind (what is saved lies
before the block or is off its list) and HitsInBlock carry NothingTwice over block boundaries;
the budget follows from the cap on each candidate. NothingLostSilently carries Accounted: behind the
sweep every visible candidate is saved, skipped or still on the block's list, unless Stop or a spent
budget cut the scan short, which Finish turns into the partial mark.

**Relocation_proofs.** RelocationInvariant, CatalogIsKept, MarkerIsComplete. The invariant speaks of the
place the next start would use (ServedComplete), ties the open repository to it except inside a
switch (OpenIsServed), and says what a copy still owes (CopyUnderWay).

**Licensing_proofs.** LicensingInvariant, ToldIsTrue, LimitKeptAlone, ExcessBounded, KeyIsStored. The limit
itself is not an invariant; what is one is an account: activations plus requests past the check
stay within the limit, the requests in flight and the faults (InsertsAllowed). A request alone with
its license inserts below the limit (AloneBelow), what a request remembers of the table stays
true because activations only grow (RequestsRight), and a delivery between its insert and its
email owns the row (DeliveriesRight), since a row is never replaced. No bound on the number of
requests or faults enters the theorems.

**Restore_proofs.** RestoreInvariant, RestoreTypeOK, DestinationsExact, ExportsDeliver, AuditsExact. DestExact
needs that a file past the comparison equals its entry and that one about to be renamed is synced
(JobSound); DeliveredWhole, that what is done and what is still to do make up what was asked for.
AuditExact is not inductive, since between AuditRead and AuditNote an intact object may be on the list:
AuditSound excepts the one object being read, and only while the flag is up, which stays up to
the end of the operation. DamageFacts shows that damage never makes another object sound or unsound.

**Toolkit_proofs, the imager.** ImagerInvariant, ImageIsExact, ImagingResumes. The image is at all times the file it was
begun over, overwritten with the blocks of the source from `begun` to `reached` (Overlaid), where a gap behind a short
file reads as zeros; checkpoint and call are never ahead of that (NotAhead), so a resumed write leaves no
further hole, nor, where the source's length is stated, more than a chunk behind it (NotBehind). `begun` is 0
unless a believed checkpoint was there at the start. OverwriteSource is the lemma about seek and write.

**Toolkit_proofs, the sidecar.** SidecarInvariant, AnswersReachTheirCall. An identifier names one call wherever it
is written, in a request, at the sidecar, in an answer or at a command (IdNamesCall), and nothing is
left in the channel of a command that does not wait (ChannelsFresh); late answers then find either
no entry or nobody with their identifier.

**Toolkit_proofs, the index.** IndexTypeCorrect, ReplayAgreesCorrect, PastStableCorrect. Here the state is
simple and the functions are not: the index filters, then sorts by the signed column, then replays;
memory sorts by the plain time, then filters, then replays. The argument is algebra of the three folds.
`Keep` distributes over concatenation and two filters make one (KeepConcat, KeepKeep). A sequence is in
order when at every moment it splits into what is not later and what is (Splits); insertion keeps
that, so a sorted log splits everywhere (SortedSplits) and filtering commutes with sorting
(KeepSorted). On times that fit, the two columns order alike (KeysAgree), hence the rows of a query are
the prefix of the log in memory (RowsAgree); and what a workspace holds of a file is what its own
events make of it (FileAgrees), a panic included. PastStable follows because the new row is outside
the bound of every earlier moment. Type correctness alone is the state's share: it needs that an
import never has more left than the table takes (IndexInv).

**Toolkit_proofs, the parsers.** FixupFindsTearsCorrect, RunsAreRead, ExtractExactCorrect, OffsetsShiftedCorrect,
CarvedExactlyCorrect, VolumesFoundCorrect, for every set of samples that the five assumptions of Formats
describe. Fix-ups: after i turns the first i sectors
have their own last cell back and the rest is untouched (Repaired); a torn record has the new number
at its head and the old one behind its last sector, which differ. Run lists: the digits of a number
spell it (DigitsSpell), also in two's complement (DigitsSigned), each turn of the loop yields the run
it stands before (RunIsRead), the loop has enough turns, and the ones left over do nothing (NothingLeft).
Content: after i runs either all cells up to there lie in the image and exactly they have been read, or
reading has failed (ExtractedBy); CellIs finds the run of a cell by the sums of the lengths.
Chunk offsets: a buffer is repaired up to a position when every word before it is the shifted one and every word
behind it still the file's (Progress), so the headers that are read next are those of the file and say where
their boxes end (HeaderRead), or the file ends first. A table is repaired entry by entry, its claim bounded by
what is there of it (NarrowPatched, WidePatched); the only word that may be missed is the half of a wide
entry with which the file ends (HalfEntry). By induction over the words left, a call at a box repairs
all from there to the end of what the box is in, by way of its content when it is a container (CallRepairs,
FileRepaired).
Carving: a list of hits tells a stretch of the image when it has every beginning in it, each in its place,
and nothing else (Tells). A position of a chunk is told by the turn that searches it, and what find_iter
passes over cannot hide a beginning, since none lies inside a signature (SigsApart); the overlap shows every
signature that begins in a chunk (SliceFinds), so a chunk tells itself (ChunkTold), and stretches that meet
tell their union (GatheredTells, ImageTold). Of the hits with one offset the first in the list is the first
in the image (HitsDeduped, TellsBeginnings). The footer found is the least, and a whole file has none before
its end, hence its length (FooterFound). Of an MP4 file the walk of validate lists the boxes one by one
(Linked, Lists); behind them it may list more of what follows, but none that an MP4 file has comes next, so the
last that belongs ends where the file does (Belong, FileWalked). Such a file is told of at its beginning and not at its
signature (WholeCarved). Disks: after i slots the list holds the used ones among the first i, in
order and once (Inserted is stable), the table in force is the one the partitions are listed in, and of
those partitions exactly the ones with a boot sector remain (SoundDisk).

**Folding** makes such inductions possible. The library's induction theorems take a predicate as a
parameter, which the provers cannot instantiate; here the induction hypothesis is a set. NatSetInduction and
SeqSetInduction are proved from the well-foundedness of `<` on numbers. FoldLeft is defined by a CHOOSE
of a function on sets of indices: IterationExists and IterationUnique show that it exists and that it is
the only one, and FoldOf, FoldValue and FoldSolution give each fold its two equations, for the empty
sequence and for one more element. RecursionUpto and RecursionNat do the same for recursive functions
of a number, and Agree shows that two solutions of such a recursion are one.

**Model-checked only.** OperationsEnd, GateReleased, ScheduleServed, ScanEnds and CallsEnd are liveness,
which the prover does not reach. They are all: every other property of a passing run is also proved.

## 6. Observations that are not findings

- `docs/SNAPSHOT_DESIGN.md:7` says compression is not implemented; chunks are zstd-compressed
  (timesnap.rs:417). Nothing in the models depends on it: sizes are those stored.
- `list_snapshots` swallows every error: one foreign `*.json` hides all points, after which the next
  capture stores a full baseline (Listed). Cleanup and retention do stop in that case (Unsound).
- A panic under the mutex silences the daemon without a message until the program restarts; this is
  the premise `~poisoned` of ScheduleServed.
- The cleanup after retention has a cancel flag of its own that nobody raises.
- A crash while a chunk is staged leaves a `.tmp*` file in `objects/` that `storage_bytes`
  (timesnap.rs:234-246) counts against the quota ("unique content objects",
  docs/SNAPSHOT_DESIGN.md:5) and cleanup, which removes hash-named files only, never removes.
  TimeCapsule has it as `strays`; WithinBudget holds with them.
- An unreadable sector makes the sweep advance by 64 KiB and pass over the readable units of the
  block in front of it, and since `bytes_scanned` is set to the total afterwards
  (recovery.rs:753-759, 938) the report is not partial. SoundMeansAll is therefore stated for sound
  sources; CompleteMeansAll with Damage <- SomeDamage and Modes <- ImageMode shows the trace.
- A webhook killed between the insert of the license and the email, or whose insert succeeds but
  whose answer is lost, leaves a customer without a key: repeated deliveries get status 500 for
  ever (razorpay_order_id is UNIQUE). EmailedKeyIsStored says only that no wrong key is sent.
- In validate-license a failed query of the count passes for no activations, and a failed insert
  for a successful one; OverdraftBounded and ToldValidIsActivated account for both.
- In quick mode the file position may return to a record already recovered and save it again;
  NothingTwice is stated for the sweep and the folder copy.
- A quick sweep without a volume ends at 1 GiB; since the loop then sets the scanned bytes to the
  total the report is not partial. CompleteMeansAll excludes quick scans.
- `policy.json` is copied after `folders.json`: an interrupted copy that the user opens explicitly has
  all points but the default policy. CatalogKept counts only a policy chosen in what was opened.
- When the clock is set back between two captures, retention sorts the point just published behind
  the older one and removes it (timesnap.rs:729-740); ui/index.html:224 offers to "Automatically remove
  older restore points". ForgetsOlder with a clock that may go back shows the trace.
- Stop between the exchange on `active` (workbench.rs:17-21) and the reset of `cancel` (22) is overwritten,
  and the operation goes on; README.md:51 has "**Stop operation** cancels foreground backup work."
  StopReachesItsOwn speaks of the Stops after the reset, which the code gets right.
- Two machines that activate at once are both counted before either is inserted, so a license for one
  has two (supabase/README.md:11: "enforcing device binding limits"). OverdraftBounded says by how much at most.
- An object of an old release that was stored raw and happens to begin with the zstd magic number is
  decoded (957-964) and reported as damaged; docs/SNAPSHOT_DESIGN.md:11 has "Old whole-file object
  snapshots remain readable." Restore has it as Magic; AuditExact and the others hold with it.
- A checkpoint says nothing of the source it belongs to. One that an unfinished image of another source
  left at the destination is believed unless it is beyond the new source (imager.rs:32-38), and
  an image is reported complete whose head is the other source's, or, after the image alone was removed, zeros;
  a torn one is read as 0 and the image begun anew. ImageExact says where copying began.
- The length of a disk, unlike a file's, is not in its metadata, which say 0 (29); every checkpoint then counts
  as corrupt (36) and each call begins at zero, although imager.rs:2-3 has "EXACT byte se resume, restart from
  zero kabhi nahi" (never). A checkpoint torn by a kill while it is rewritten (65) has the same effect on any
  source. ResumesAtChunk excepts both.
- A power cut during imaging may leave a checkpoint that claims more than the image holds, since neither
  is synced (imager.rs:62-65). ImageExact excepts it.
- While `policy.json` cannot be read the schedule is not served at all, and the daemon says so on stderr
  every minute only. ScheduleServed is premised on a repository that could be read; its attempts are the
  subject of `gate_damaged`.
- An ingest that fails half-way keeps its first rows, and importing the log again applies its patches
  twice (main.rs:65-80). A time of 2^63 or more is stored as a negative number and sorts first.
  ReplayAgrees and PastStable speak of times that fit.
- A line of the sidecar that is not UTF-8 ends the reader (sidecar.rs:52); every later call times out.
- Resident data shorter than the size in the file's name is extracted short, without an error
  (ntfs_extract.rs:24-86); ExtractExact says so. An MP4 file whose last box is cut off is not carved;
  one that another MP4 file directly follows, or whose last box claims all there is, is carved with what is behind
  it (sectorforge.rs:195-221). CarvedExactly speaks of the others.
- A 64-bit chunk offset near 2^63 overflows in mp4.rs:168-170, and a GPT entry that ends at the last
  sector of the 64-bit range in the count of its sectors; release builds wrap, debug builds panic.

## 7. What is left

- A refinement of RestorePoints by TimeCapsule and Restore together, with restore reading from the
  promise instead of from the objects.
- carve_folder and scan_mft, once a command calls them; the busy flags of the interface.
