---------------------------- MODULE TimeCapsule ----------------------------
(***************************************************************************)
(* The snapshot repository of engine/src/timesnap.rs: a directory with     *)
(* content-addressed chunk objects, one JSON manifest per restore point,   *)
(* folders.json (the registry of protected folders) and policy.json.       *)
(*                                                                         *)
(* One operation runs at a time (the owner holds the repository lock and a *)
(* mutex), but it runs step by step: source files change under a capture,  *)
(* the cancel flag is raised at any moment, I/O fails, stored data rots    *)
(* and the process may die between any two steps.                          *)
(*                                                                         *)
(* Abstractions.  Content stands for one file's bytes, name length and     *)
(* modification time together, so two contents may have the same chunks (a *)
(* touched file).  Objects are named by their hash: an object is a chunk   *)
(* or, in manifests written by older releases, a whole file.  Trees map    *)
(* every path of a folder to its content or to NoFile.                     *)
(***************************************************************************)
EXTENDS Integers, FiniteSets

CONSTANTS
  Folders,          \* folders a user may protect
  Paths,            \* relative paths inside a folder
  Contents,         \* states a file can be in
  NoFile,           \* the path holds no file
  Objects,          \* names (hashes) of stored objects
  ChunksOf,         \* content -> the objects its 4 MiB chunks are stored as
  WholeOf,          \* content -> the object a legacy release stored it as
  BytesOf,          \* set of objects -> their compressed length together
  Policies,         \* policies the user may set
  LegacyTrees,      \* trees a legacy manifest may describe
  MaxSnapshots,     \* bound: restore points ever published
  MaxFaults,        \* bound: failures, crashes and damage in one behaviour
  ClockMayRegress   \* the wall clock may be set back

Trees    == [Paths -> Contents \cup {NoFile}]
EmptyTree == [p \in Paths |-> NoFile]
Statuses == {"Active", "Paused", "Error"}
Registry == [Folders -> Statuses \cup {"None"}]
Ids      == 0 .. MaxSnapshots
Manifest == [id : Ids, folder : Folders, entries : Trees,
             refs : SUBSET Objects, legacy : BOOLEAN, created : Nat]

ASSUME ConstantsAssumption ==
  /\ Folders # {}
  /\ NoFile \notin Contents
  /\ ChunksOf \in [Contents -> SUBSET Objects]
  /\ WholeOf \in [Contents -> Objects]
  /\ BytesOf \in [SUBSET Objects -> Nat]
  /\ \A S \in SUBSET Objects : \A o \in Objects \ S :
       BytesOf[S \cup {o}] = BytesOf[S] + BytesOf[{o}]
  /\ Policies \subseteq [prune : BOOLEAN, keep : Nat \ {0}, budget : Nat]
  /\ LegacyTrees \subseteq Trees
  /\ MaxSnapshots \in Nat
  /\ MaxFaults \in Nat
  /\ ClockMayRegress \in BOOLEAN

VARIABLES
  \* what survives a crash
  objects,      \* object -> "absent", "good" or "damaged"
  strays,       \* bytes of temporary files left in objects/ by crashes
  manifests,    \* published manifests
  broken,       \* ids of published manifests that no longer parse
  foreign,      \* a *.json whose name is no snapshot id lies in the directory
  diskFolders,  \* folders.json
  diskPolicy,   \* policy.json
  \* memory of the running process
  folders, policy,
  op,           \* the operation in progress
  \* the world
  clock,        \* wall clock
  nextId,       \* fresh snapshot ids (UUIDs never repeat)
  faults        \* faults so far, for the bound MaxFaults

disk   == <<objects, strays, manifests, broken, foreign, diskFolders, diskPolicy>>
memory == <<folders, policy>>
world  == <<clock, nextId, faults>>
vars   == <<disk, memory, op, world>>
-----------------------------------------------------------------------------
(* Views of the repository.                                                *)

Stored == {o \in Objects : objects[o] # "absent"}

ObjectBytes == BytesOf[Stored]

SizeOf(o) == BytesOf[{o}]

(* Every regular file under objects/ counts, whatever its name.            *)
StorageBytes == ObjectBytes + strays

Chunks(c) == IF c = NoFile THEN {} ELSE ChunksOf[c]

TreeChunks(t) == UNION {Chunks(t[p]) : p \in Paths}

(* What read_dir, the name check and the parser make of the manifests.     *)
Unsound == foreign \/ broken # {}

Referenced == UNION {m.refs : m \in manifests}

(* An unknown manifest name hides every snapshot; a broken one only itself.*)
Listed(f) ==
  IF foreign THEN {}
  ELSE {m \in manifests : m.folder = f /\ m.id \notin broken}

Newest(f) == {m \in Listed(f) : \A n \in Listed(f) : n.created <= m.created}

(* The newest listed snapshot, as a set of at most one manifest.           *)
Previous(f) == IF Newest(f) = {} THEN {{}} ELSE {{m} : m \in Newest(f)}

(* Mutants: one restore point fewer; the oldest instead of the newest.     *)
RetainedOneLess(f, n) ==
  {kept \in SUBSET Listed(f) :
     /\ Cardinality(kept) = IF n < Cardinality(Listed(f)) THEN n - 1
                            ELSE Cardinality(Listed(f)) - 1
     /\ \A k \in kept, m \in Listed(f) \ kept : m.created <= k.created}

RetainedOldest(f, n) ==
  {kept \in SUBSET Listed(f) :
     /\ Cardinality(kept) = IF n < Cardinality(Listed(f)) THEN n
                            ELSE Cardinality(Listed(f))
     /\ \A k \in kept, m \in Listed(f) \ kept : k.created <= m.created}

(* The listed snapshots of f a retention run may keep: the n newest.       *)
Retained(f, n) ==
  {kept \in SUBSET Listed(f) :
     /\ Cardinality(kept) = IF n < Cardinality(Listed(f)) THEN n
                            ELSE Cardinality(Listed(f))
     /\ \A k \in kept, m \in Listed(f) \ kept : m.created <= k.created}

HasPoint(f) == \E m \in manifests : m.folder = f

Outside == {"down", "idle"}

(* The locals of the operation in progress, cleared between operations.    *)
NoOp(pc, f) ==
  [pc |-> pc, kind |-> "none", folder |-> f, cancel |-> FALSE,
   paused |-> FALSE, prev |-> {}, pending |-> {}, file |-> {},
   opened |-> NoFile, torn |-> FALSE, read |-> {}, verified |-> {},
   entries |-> EmptyTree, stored |-> 0, fresh |-> FALSE, victims |-> {},
   todo |-> {}]

AnyFolder == CHOOSE f \in Folders : TRUE

Idle == NoOp("idle", AnyFolder)

Fail(o) == [o EXCEPT !.pc = "failed"]
-----------------------------------------------------------------------------
(* Opening a repository: empty, or written by a release that stored whole  *)
(* files and left one restore point.                                       *)

LegacyPoint(f, t) ==
  [id |-> 0, folder |-> f, entries |-> t, legacy |-> TRUE, created |-> 0,
   refs |-> {WholeOf[t[p]] : p \in {q \in Paths : t[q] # NoFile}}]

Init ==
  /\ manifests \in {{}} \cup
       {{LegacyPoint(f, t)} : f \in Folders, t \in LegacyTrees}
  /\ objects = [o \in Objects |-> IF o \in Referenced THEN "good" ELSE "absent"]
  /\ strays = 0 /\ broken = {} /\ foreign = FALSE
  /\ diskFolders = [f \in Folders |-> IF HasPoint(f) THEN "Active" ELSE "None"]
  /\ diskPolicy \in Policies
  /\ folders = diskFolders /\ policy = diskPolicy
  /\ op = Idle
  /\ clock = 1 /\ nextId = 1 /\ faults = 0

Fault == faults < MaxFaults /\ faults' = faults + 1

(* The process dies; a chunk being staged leaves its temporary file.       *)
Readable == IF op.torn THEN Objects ELSE Chunks(op.opened)

Fits(o) == op.stored + SizeOf(o) <= policy.budget

Staging ==
  IF op.pc = "walk" /\ op.file # {}
  THEN {o \in Readable : objects[o] = "absent" /\ Fits(o)}
  ELSE {}

Crash ==
  /\ op.pc # "down" /\ Fault
  /\ strays' \in {strays} \cup {strays + SizeOf(o) : o \in Staging}
  /\ op' = NoOp("down", AnyFolder)
  /\ UNCHANGED <<objects, manifests, broken, foreign, diskFolders, diskPolicy,
                 memory, clock, nextId>>

(* with_storage: the dead owner's lock is gone, both files are read.       *)
Reopen ==
  /\ op.pc = "down"
  /\ folders' = diskFolders /\ policy' = diskPolicy
  /\ op' = Idle
  /\ UNCHANGED <<disk, world>>
-----------------------------------------------------------------------------
(* Between operations.                                                     *)

(* A failed save rolls the status back, so a refused pause changes nothing.*)
SetPaused(f, status) ==
  /\ op.pc = "idle" /\ folders[f] # "None"
  /\ folders' = [folders EXCEPT ![f] = status]
  /\ diskFolders' = folders'
  /\ UNCHANGED <<objects, strays, manifests, broken, foreign, diskPolicy,
                 policy, op, world>>

SetPolicy(p) ==
  /\ op.pc = "idle"
  /\ diskPolicy' = p /\ policy' = p
  /\ UNCHANGED <<objects, strays, manifests, broken, foreign, diskFolders,
                 folders, op, world>>
-----------------------------------------------------------------------------
(* Capture: preparation.                                                   *)

(* check_source may find the folder gone; otherwise the newest snapshot    *)
(* and the bytes already stored are looked up once, here.                  *)
Prepare(f, k, wasPaused) ==
  \/ op' = [NoOp("failed", f) EXCEPT !.kind = k, !.paused = wasPaused]
  \/ \E p \in Previous(f) :
       op' = [NoOp("walk", f) EXCEPT !.kind = k, !.paused = wasPaused,
                !.prev = p, !.pending = Paths, !.stored = StorageBytes]

(* Mutant: the registry is saved before the baseline exists.               *)
BeginProtectSavingFirst(f) ==
  /\ op.pc = "idle" /\ nextId <= MaxSnapshots
  /\ folders[f] = "None"
  /\ folders' = [folders EXCEPT ![f] = "Active"]
  /\ diskFolders' = folders'
  /\ Prepare(f, "protect", FALSE)
  /\ UNCHANGED <<objects, strays, manifests, broken, foreign, diskPolicy,
                 policy, world>>

BeginProtect(f) ==
  /\ op.pc = "idle" /\ nextId <= MaxSnapshots
  /\ folders[f] = "None"
  /\ folders' = [folders EXCEPT ![f] = "Active"]
  /\ Prepare(f, "protect", FALSE)
  /\ UNCHANGED <<disk, policy, world>>

(* The daemon never starts on a paused folder; the user may.               *)
BeginCapture(f, k) ==
  /\ op.pc = "idle" /\ nextId <= MaxSnapshots
  /\ folders[f] # "None"
  /\ k = "daemon" => folders[f] # "Paused"
  /\ Prepare(f, k, folders[f] = "Paused")
  /\ UNCHANGED <<disk, memory, world>>
-----------------------------------------------------------------------------
(* Capture: the walk over the source.  Files may change at any moment, so  *)
(* the content an open finds is arbitrary.                                 *)

Walking == op.pc = "walk" /\ ~op.cancel

OpenFile(p) ==
  /\ Walking /\ op.file = {} /\ p \in op.pending
  /\ \E c \in Contents :
       op' = [op EXCEPT !.pending = @ \ {p}, !.file = {p}, !.opened = c,
                        !.torn = FALSE, !.read = {}]
  /\ UNCHANGED <<disk, memory, world>>

(* The path is absent, excluded or not a regular file.                     *)
SkipPath(p) ==
  /\ Walking /\ op.file = {} /\ p \in op.pending
  /\ op' = [op EXCEPT !.pending = @ \ {p}]
  /\ UNCHANGED <<disk, memory, world>>

(* Somebody writes the file while the capture has it open.                 *)
EditOpenFile ==
  /\ op.pc = "walk" /\ op.file # {} /\ ~op.torn
  /\ op' = [op EXCEPT !.torn = TRUE]
  /\ UNCHANGED <<disk, memory, world>>

NextChunk(o) == Walking /\ op.file # {} /\ o \in Readable \ op.read

(* Known in this capture, or stored earlier and still intact.              *)
ReuseChunk(o) ==
  /\ NextChunk(o)
  /\ o \in op.verified \/ objects[o] = "good"
  /\ op' = [op EXCEPT !.read = @ \cup {o}, !.verified = @ \cup {o}]
  /\ UNCHANGED <<disk, memory, world>>

(* Mutants: the running byte count is forgotten; it runs the wrong way.    *)
StoreChunkUncounted(o) ==
  /\ NextChunk(o)
  /\ o \notin op.verified /\ objects[o] = "absent" /\ Fits(o)
  /\ objects' = [objects EXCEPT ![o] = "good"]
  /\ op' = [op EXCEPT !.read = @ \cup {o}, !.verified = @ \cup {o}]
  /\ UNCHANGED <<strays, manifests, broken, foreign, diskFolders, diskPolicy,
                 memory, world>>

StoreChunk(o) ==
  /\ NextChunk(o)
  /\ o \notin op.verified /\ objects[o] = "absent" /\ Fits(o)
  /\ objects' = [objects EXCEPT ![o] = "good"]
  /\ op' = [op EXCEPT !.read = @ \cup {o}, !.verified = @ \cup {o},
                      !.stored = @ + SizeOf(o)]
  /\ UNCHANGED <<strays, manifests, broken, foreign, diskFolders, diskPolicy,
                 memory, world>>

(* The stored object is corrupt, or the new one would break the budget.    *)
RejectChunk(o) ==
  /\ NextChunk(o) /\ o \notin op.verified
  /\ objects[o] = "damaged" \/ (objects[o] = "absent" /\ ~Fits(o))
  /\ op' = Fail(op)
  /\ UNCHANGED <<disk, memory, world>>

(* End of file: an edit in between fails the whole capture.                *)
CloseFile ==
  /\ Walking /\ op.file # {}
  /\ op.torn \/ Chunks(op.opened) \subseteq op.read
  /\ op' = IF op.torn THEN Fail(op)
           ELSE [op EXCEPT !.entries = [p \in Paths |->
                             IF p \in op.file THEN op.opened ELSE @[p]],
                           !.file = {}, !.opened = NoFile, !.read = {}]
  /\ UNCHANGED <<disk, memory, world>>
-----------------------------------------------------------------------------
(* Capture: publication.                                                   *)

WalkDone == Walking /\ op.file = {} /\ op.pending = {}

(* Mutant: any earlier snapshot is reused.                                 *)
UnchangedAlways == op.prev # {}

(* The files agree.  Directories are compared too and are not modelled, so *)
(* a capture may make a new point although no file has changed.            *)
Unchanged == op.prev # {} /\ \A m \in op.prev : m.entries = op.entries

NewManifest ==
  [id |-> nextId, folder |-> op.folder, entries |-> op.entries,
   refs |-> TreeChunks(op.entries), legacy |-> FALSE, created |-> clock]

Publish ==
  /\ WalkDone /\ nextId <= MaxSnapshots
  /\ manifests' = manifests \cup {NewManifest}
  /\ op' = [op EXCEPT !.pc = "record", !.fresh = TRUE]
  /\ nextId' = nextId + 1 /\ clock' = clock + 1
  /\ UNCHANGED <<objects, strays, broken, foreign, diskFolders, diskPolicy,
                 memory, faults>>

ReusePrevious ==
  /\ WalkDone /\ Unchanged
  /\ op' = [op EXCEPT !.pc = "record", !.fresh = FALSE]
  /\ UNCHANGED <<disk, memory, world>>

(* Mutant: a capture resumes the schedule of a paused folder.              *)
RecordedActive == [folders EXCEPT ![op.folder] = "Active"]

Recorded ==
  [folders EXCEPT ![op.folder] = IF op.paused THEN "Paused" ELSE "Active"]

Record ==
  /\ op.pc = "record"
  /\ folders' = Recorded /\ diskFolders' = Recorded
  /\ op' = IF op.fresh /\ policy.prune THEN [op EXCEPT !.pc = "prune"] ELSE Idle
  /\ UNCHANGED <<objects, strays, manifests, broken, foreign, diskPolicy,
                 policy, world>>

(* save_folders fails after the record in memory was updated.              *)
RecordUnsaved ==
  /\ op.pc = "record" /\ Fault
  /\ folders' = Recorded
  /\ op' = Fail(op)
  /\ UNCHANGED <<disk, policy, clock, nextId>>
-----------------------------------------------------------------------------
(* Retention and cleanup.                                                  *)

(* Every manifest must parse before any restore point is forgotten.        *)
Prune ==
  /\ op.pc = "prune"
  /\ \/ Unsound /\ op' = Fail(op)
     \/ /\ ~Unsound
        /\ \E kept \in Retained(op.folder, policy.keep) :
             op' = [op EXCEPT !.pc = "retain",
                              !.victims = Listed(op.folder) \ kept]
  /\ UNCHANGED <<disk, memory, world>>

Forget(m) ==
  /\ op.pc = "retain" /\ m \in op.victims
  /\ manifests' = manifests \ {m}
  /\ broken' = broken \ {m.id}
  /\ op' = [op EXCEPT !.victims = @ \ {m}]
  /\ UNCHANGED <<objects, strays, foreign, diskFolders, diskPolicy, memory,
                 world>>

(* Mutant: manifests that do not parse are skipped instead of fatal.       *)
SweepingPastBroken(o) ==
  [o EXCEPT !.pc = "sweep",
     !.todo = Stored \ UNION {m.refs : m \in {n \in manifests : n.id \notin broken}}]

(* cleanup: the references are collected once, then the directory is       *)
(* listed and unreferenced objects are removed one at a time.              *)
Sweeping(o) ==
  IF Unsound THEN Fail(o)
  ELSE [o EXCEPT !.pc = "sweep", !.todo = Stored \ Referenced]

SweepAfterRetention ==
  /\ op.pc = "retain" /\ op.victims = {}
  /\ op' = Sweeping(op)
  /\ UNCHANGED <<disk, memory, world>>

BeginCleanup ==
  /\ op.pc = "idle"
  /\ op' = Sweeping([Idle EXCEPT !.kind = "cleanup"])
  /\ UNCHANGED <<disk, memory, world>>

(* Only a cleanup the user asked for looks at the cancel flag.             *)
CancelStopsSweep == op.kind = "cleanup" /\ op.cancel

(* Mutant: an object that is gone stays on the list.                       *)
SweepObjectAgain(o) ==
  /\ op.pc = "sweep" /\ o \in op.todo /\ ~CancelStopsSweep
  /\ objects' = [objects EXCEPT ![o] = "absent"]
  /\ op' = op
  /\ UNCHANGED <<strays, manifests, broken, foreign, diskFolders, diskPolicy,
                 memory, world>>

SweepObject(o) ==
  /\ op.pc = "sweep" /\ o \in op.todo /\ ~CancelStopsSweep
  /\ objects' = [objects EXCEPT ![o] = "absent"]
  /\ op' = [op EXCEPT !.todo = @ \ {o}]
  /\ UNCHANGED <<strays, manifests, broken, foreign, diskFolders, diskPolicy,
                 memory, world>>

(* Mutant: the loop ends before the directory is exhausted.                *)
EndSweepEarly ==
  /\ op.pc = "sweep"
  /\ op' = Idle
  /\ UNCHANGED <<disk, memory, world>>

EndSweep ==
  /\ op.pc = "sweep" /\ op.todo = {}
  /\ op' = Idle
  /\ UNCHANGED <<disk, memory, world>>
-----------------------------------------------------------------------------
(* Cancellation and failure.                                               *)

RequestCancel ==
  /\ op.pc \notin Outside /\ ~op.cancel
  /\ op' = [op EXCEPT !.cancel = TRUE]
  /\ UNCHANGED <<disk, memory, world>>

CancelObserved ==
  /\ op.cancel
  /\ op.pc = "walk" \/ (op.pc = "sweep" /\ CancelStopsSweep)
  /\ op' = Fail(op)
  /\ UNCHANGED <<disk, memory, world>>

(* Reading, staging, publishing, listing or deleting fails.                *)
IOFailure ==
  /\ op.pc \in {"walk", "prune", "retain", "sweep"} /\ Fault
  /\ op' = Fail(op)
  /\ UNCHANGED <<disk, memory, clock, nextId>>

(* What the callers of a failed capture leave in the registry: protect     *)
(* unregisters the folder, the daemon marks it, a manual capture nothing.  *)
AfterFailure ==
  CASE op.kind = "protect" -> [folders EXCEPT ![op.folder] = "None"]
    [] op.kind = "daemon"  -> [folders EXCEPT ![op.folder] = "Error"]
    [] OTHER               -> folders

Unwind ==
  /\ op.pc = "failed"
  /\ folders' = AfterFailure
  /\ diskFolders' = IF op.kind \in {"protect", "daemon"} THEN AfterFailure
                    ELSE diskFolders
  /\ op' = Idle
  /\ UNCHANGED <<objects, strays, manifests, broken, foreign, diskPolicy,
                 policy, world>>

UnwindUnsaved ==
  /\ op.pc = "failed" /\ op.kind \in {"protect", "daemon"} /\ Fault
  /\ folders' = AfterFailure
  /\ op' = Idle
  /\ UNCHANGED <<disk, policy, clock, nextId>>
-----------------------------------------------------------------------------
(* Damage from outside the program.                                        *)

BitRot(o) ==
  /\ objects[o] = "good" /\ Fault
  /\ objects' = [objects EXCEPT ![o] = "damaged"]
  /\ UNCHANGED <<strays, manifests, broken, foreign, diskFolders, diskPolicy,
                 memory, op, clock, nextId>>

BreakManifest(m) ==
  /\ m \in manifests /\ m.id \notin broken /\ Fault
  /\ broken' = broken \cup {m.id}
  /\ UNCHANGED <<objects, strays, manifests, foreign, diskFolders, diskPolicy,
                 memory, op, clock, nextId>>

ForeignFileAppears ==
  /\ ~foreign /\ Fault /\ foreign' = TRUE
  /\ UNCHANGED <<objects, strays, manifests, broken, diskFolders, diskPolicy,
                 memory, op, clock, nextId>>

ForeignFileRemoved ==
  /\ foreign /\ foreign' = FALSE
  /\ UNCHANGED <<objects, strays, manifests, broken, diskFolders, diskPolicy,
                 memory, op, world>>

ClockSetBack ==
  /\ ClockMayRegress /\ Fault
  /\ clock' \in 0 .. clock - 1
  /\ UNCHANGED <<disk, memory, op, nextId>>
-----------------------------------------------------------------------------
(* Steps the program takes by itself once an operation has begun.          *)
Engine ==
  \/ \E p \in Paths : OpenFile(p) \/ SkipPath(p)
  \/ \E o \in Objects : ReuseChunk(o) \/ StoreChunk(o) \/ RejectChunk(o)
  \/ CloseFile \/ Publish \/ ReusePrevious \/ Record
  \/ Prune \/ SweepAfterRetention \/ EndSweep
  \/ \E m \in op.victims : Forget(m)
  \/ \E o \in op.todo : SweepObject(o)
  \/ CancelObserved \/ Unwind

User ==
  \/ \E f \in Folders : BeginProtect(f) \/ BeginCapture(f, "manual")
  \/ \E f \in Folders, s \in {"Active", "Paused"} : SetPaused(f, s)
  \/ \E p \in Policies : SetPolicy(p)
  \/ BeginCleanup \/ RequestCancel

Daemon == \E f \in Folders : BeginCapture(f, "daemon")

World ==
  \/ EditOpenFile \/ RecordUnsaved \/ UnwindUnsaved \/ IOFailure
  \/ Crash \/ Reopen
  \/ \E o \in Objects : BitRot(o)
  \/ \E m \in manifests : BreakManifest(m)
  \/ ForeignFileAppears \/ ForeignFileRemoved \/ ClockSetBack

Next == Engine \/ User \/ Daemon \/ World

Spec == Init /\ [][Next]_vars
FairSpec == Spec /\ WF_vars(Engine)
-----------------------------------------------------------------------------
(* Properties.                                                             *)

Operation ==
  [pc : {"down", "idle", "walk", "record", "prune", "retain", "sweep", "failed"},
   kind : {"none", "protect", "manual", "daemon", "cleanup"},
   folder : Folders, cancel : BOOLEAN, paused : BOOLEAN,
   prev : SUBSET Manifest, pending : SUBSET Paths, file : SUBSET Paths,
   opened : Contents \cup {NoFile}, torn : BOOLEAN, read : SUBSET Objects,
   verified : SUBSET Objects, entries : Trees, stored : Nat,
   fresh : BOOLEAN, victims : SUBSET Manifest, todo : SUBSET Objects]

(* Every variable keeps its type.                                          *)
TypeOK ==
  /\ objects \in [Objects -> {"absent", "good", "damaged"}]
  /\ strays \in Nat
  /\ manifests \subseteq Manifest
  /\ broken \subseteq Ids
  /\ foreign \in BOOLEAN
  /\ diskFolders \in Registry /\ folders \in Registry
  /\ diskPolicy \in Policies /\ policy \in Policies
  /\ op \in Operation
  /\ clock \in Nat /\ nextId \in 1 .. MaxSnapshots + 1 /\ faults \in 0 .. MaxFaults

(* Every published restore point has all its objects in the store: no      *)
(* order of capture, retention, cleanup, cancellation, failure and crash   *)
(* publishes a point too early or collects an object it needs.  Only the   *)
(* content of an object may be lost, to damage from outside.               *)
PointsBacked == \A m \in manifests : m.refs \subseteq Stored

(* A folder that folders.json calls protected has a restore point, even    *)
(* after a failed or interrupted protect, retention or registry write.     *)
ProtectedHasPoint == \A f \in Folders : diskFolders[f] # "None" => HasPoint(f)

(* The parts of the inductive invariant behind the two above.              *)

(* Ids identify restore points and a capture under way has one left.       *)
IdsUnique ==
  /\ IsFiniteSet(manifests)
  /\ \A m \in manifests : m.id < nextId
  /\ \A m, n \in manifests : m.id = n.id => m = n
  /\ op.pc = "walk" => nextId <= MaxSnapshots

(* A folder in memory has a point, or is being protected, or the process   *)
(* is gone and the next one will read folders.json; the daemon's folder    *)
(* stays registered while it is captured.                                  *)
MemoryHasPoint ==
  /\ op.pc # "down" =>
       \A f \in Folders : folders[f] # "None" =>
         \/ HasPoint(f)
         \/ op.kind = "protect" /\ op.folder = f /\ op.pc \in {"walk", "failed"}
  /\ op.kind = "daemon" => folders[op.folder] # "None"

(* What the walk has taken in is in the store.                             *)
WalkStored ==
  op.pc = "walk" =>
    /\ op.read \subseteq op.verified
    /\ op.verified \subseteq Stored
    /\ TreeChunks(op.entries) \subseteq op.verified
    /\ \A m \in op.prev : m \in manifests /\ m.folder = op.folder

(* The running counter of a capture is the size of the object directory.   *)
WalkCounted == op.pc = "walk" => op.stored = StorageBytes

(* A folder being recorded has a point, and retention spares one of them.  *)
RetentionSpares ==
  /\ op.pc \in {"record", "prune"} => HasPoint(op.folder)
  /\ op.pc = "retain" =>
       /\ \A m \in op.victims : m \in manifests /\ m.folder = op.folder
       /\ \E m \in manifests \ op.victims : m.folder = op.folder

(* No object on the list of a cleanup is needed by a restore point.        *)
SweepUnneeded == op.pc = "sweep" => op.todo \cap Referenced = {}

(* The inductive invariant: every step of every operation keeps it.        *)
Inductive ==
  /\ TypeOK /\ PointsBacked /\ ProtectedHasPoint
  /\ IdsUnique /\ MemoryHasPoint /\ WalkStored /\ WalkCounted
  /\ RetentionSpares /\ SweepUnneeded

(* No step makes the object directory outgrow the budget in force: the     *)
(* counter a capture keeps from its start never lags behind the disk.      *)
WithinBudget ==
  [][StorageBytes' > StorageBytes => StorageBytes' <= policy.budget]_vars

(* Only the user's own command takes a folder out of pause: captures,      *)
(* failures, the daemon and a restart leave the pause in folders.json.     *)
PausePersists ==
  [][\A f \in Folders :
       diskFolders[f] = "Paused" /\ diskFolders'[f] # "Paused"
       => op.pc = "idle" /\ folders[f] = "Paused" /\ folders'[f] = "Active"]_vars

(* Behind it: a pause on disk is known in memory, and a capture of a paused *)
(* folder was asked for by hand and remembers to pause it again.           *)
PauseKnown ==
  /\ \A f \in Folders : diskFolders[f] = "Paused" => folders[f] = "Paused"
  /\ op.paused => op.kind = "manual"
  /\ op.pc = "idle" => op.kind = "none"
  /\ op.pc \in {"walk", "record"} => op.kind \in {"protect", "daemon", "manual"}
  /\ op.kind \in {"protect", "daemon", "manual"} =>
       (diskFolders[op.folder] = "Paused" => op.paused)

(* Retention forgets only restore points that are older than one it keeps  *)
(* of the same folder (ids grow in the order of publication).              *)
ForgetsOlder ==
  [][\A m \in manifests \ manifests' :
       \E n \in manifests' : n.folder = m.folder /\ n.id > m.id]_vars

PointsOf(f) == {m \in manifests : m.folder = f}

(* Retention never leaves fewer restore points than the policy keeps, and  *)
(* never more once it is done.                                             *)
RetentionExact ==
  [][/\ manifests \ manifests' # {}
          => Cardinality(PointsOf(op.folder))' >= policy.keep
     /\ op.pc = "retain" /\ op'.pc = "sweep"
          => Cardinality(PointsOf(op.folder)) <= policy.keep]_vars

(* A cleanup that reports success leaves no object behind that no restore  *)
(* point needs.                                                            *)
CleanupComplete ==
  [][op.pc = "sweep" /\ op'.pc = "idle" => Stored' \subseteq Referenced']_vars

(* What a capture returns was verified by that capture, object by object,  *)
(* unless it reuses a point an older release stored as whole files.        *)
ResultVerified ==
  op.pc = "record" =>
    \E m \in manifests :
      /\ m.folder = op.folder /\ m.entries = op.entries
      /\ m.legacy \/ m.refs \subseteq op.verified

(* Every operation comes to an end, whatever is edited, damaged or         *)
(* cancelled meanwhile.                                                    *)
OperationsEnd == op.pc \notin Outside ~> op.pc \in Outside

(* The detailed repository implements RestorePoints: a point counts while  *)
(* its objects are in the store.                                           *)
Face(m) == [id |-> m.id, folder |-> m.folder, entries |-> m.entries]

Promise == INSTANCE RestorePoints WITH
  Points    <- [id : Ids, folder : Folders, entries : Trees],
  points    <- {Face(m) : m \in {n \in manifests : n.refs \subseteq Stored}},
  protected <- {f \in Folders : diskFolders[f] # "None"}

PointsSpec == Promise!Spec
=============================================================================
