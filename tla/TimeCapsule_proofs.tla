------------------------- MODULE TimeCapsule_proofs -------------------------
(***************************************************************************)
(* Proofs about TimeCapsule for every set of folders, files, objects and   *)
(* policies and every bound.                                               *)
(***************************************************************************)
EXTENDS TimeCapsule, FiniteSetTheorems, TLAPS

-----------------------------------------------------------------------------
(* The locals of an operation keep their types under every update the      *)
(* actions make.                                                           *)

LEMMA NoOpType ==
  ASSUME NEW pc \in {"down", "idle", "walk", "failed"}, NEW f \in Folders
  PROVE  NoOp(pc, f) \in Operation
BY DEF NoOp, Operation, Trees, EmptyTree

LEMMA AnyFolderType == AnyFolder \in Folders
BY ConstantsAssumption DEF AnyFolder

LEMMA IdleType == Idle \in Operation
BY AnyFolderType, NoOpType DEF Idle

LEMMA FailType == ASSUME NEW x \in Operation PROVE Fail(x) \in Operation
BY DEF Fail, Operation

LEMMA OpenType ==
  ASSUME NEW x \in Operation, NEW p \in Paths, NEW c \in Contents
  PROVE  [x EXCEPT !.pending = @ \ {p}, !.file = {p}, !.opened = c,
                   !.torn = FALSE, !.read = {}] \in Operation
BY DEF Operation

LEMMA SkipType ==
  ASSUME NEW x \in Operation, NEW p
  PROVE  [x EXCEPT !.pending = @ \ {p}] \in Operation
BY DEF Operation

LEMMA TornType ==
  ASSUME NEW x \in Operation PROVE [x EXCEPT !.torn = TRUE] \in Operation
BY DEF Operation

LEMMA CancelType ==
  ASSUME NEW x \in Operation PROVE [x EXCEPT !.cancel = TRUE] \in Operation
BY DEF Operation

LEMMA ReuseType ==
  ASSUME NEW x \in Operation, NEW o \in Objects
  PROVE  [x EXCEPT !.read = @ \cup {o}, !.verified = @ \cup {o}] \in Operation
BY DEF Operation

LEMMA StoreType ==
  ASSUME NEW x \in Operation, NEW o \in Objects, NEW n \in Nat
  PROVE  [x EXCEPT !.read = @ \cup {o}, !.verified = @ \cup {o},
                   !.stored = @ + n] \in Operation
<1>1. x.stored + n \in Nat
  BY DEF Operation
<1>2. ASSUME NEW k \in Nat
      PROVE  [x EXCEPT !.read = @ \cup {o}, !.verified = @ \cup {o},
                       !.stored = k] \in Operation
  BY DEF Operation
<1>3. QED
  BY <1>1, <1>2

LEMMA CloseType ==
  ASSUME NEW x \in Operation
  PROVE  [x EXCEPT !.entries = [p \in Paths |->
                     IF p \in x.file THEN x.opened ELSE @[p]],
                   !.file = {}, !.opened = NoFile, !.read = {}] \in Operation
BY DEF Operation, Trees

LEMMA PhaseType ==
  ASSUME NEW x \in Operation, NEW b \in BOOLEAN
  PROVE  /\ [x EXCEPT !.pc = "record", !.fresh = b] \in Operation
         /\ [x EXCEPT !.pc = "prune"] \in Operation
         /\ [x EXCEPT !.kind = "cleanup"] \in Operation
BY DEF Operation

LEMMA VictimsType ==
  ASSUME NEW x \in Operation, NEW V \in SUBSET Manifest, NEW m
  PROVE  /\ [x EXCEPT !.pc = "retain", !.victims = V] \in Operation
         /\ [x EXCEPT !.victims = @ \ {m}] \in Operation
BY DEF Operation

LEMMA TodoType ==
  ASSUME NEW x \in Operation, NEW S \in SUBSET Objects, NEW o
  PROVE  /\ [x EXCEPT !.pc = "sweep", !.todo = S] \in Operation
         /\ [x EXCEPT !.todo = @ \ {o}] \in Operation
BY DEF Operation

LEMMA KindType ==
  ASSUME NEW x \in Operation, NEW k \in {"protect", "manual", "daemon"},
         NEW b \in BOOLEAN
  PROVE  [x EXCEPT !.kind = k, !.paused = b] \in Operation
BY DEF Operation

LEMMA WalkType ==
  ASSUME NEW x \in Operation, NEW k \in {"protect", "manual", "daemon"},
         NEW b \in BOOLEAN, NEW P \in SUBSET Manifest, NEW n \in Nat
  PROVE  [x EXCEPT !.kind = k, !.paused = b, !.prev = P, !.pending = Paths,
                   !.stored = n] \in Operation
BY DEF Operation
-----------------------------------------------------------------------------
(* Sizes are natural numbers, and the store grows by what is stored.       *)

LEMMA SizeType == \A o \in Objects : SizeOf(o) \in Nat
BY ConstantsAssumption DEF SizeOf

LEMMA StorageType ==
  ASSUME TypeOK
  PROVE  /\ Stored \in SUBSET Objects
         /\ ObjectBytes \in Nat
         /\ StorageBytes \in Nat
BY ConstantsAssumption DEF TypeOK, Stored, ObjectBytes, StorageBytes

LEMMA SweepingType ==
  ASSUME TypeOK, NEW x \in Operation
  PROVE  Sweeping(x) \in Operation
<1>1. Stored \ Referenced \in SUBSET Objects
  BY StorageType
<1>2. QED
  BY <1>1, FailType, TodoType DEF Sweeping

LEMMA ManifestType ==
  ASSUME TypeOK, nextId <= MaxSnapshots
  PROVE  NewManifest \in Manifest
<1>1. TreeChunks(op.entries) \in SUBSET Objects
  <2>1. \A p \in Paths : Chunks(op.entries[p]) \in SUBSET Objects
    BY ConstantsAssumption DEF TypeOK, Operation, Trees, Chunks
  <2>2. QED  BY <2>1 DEF TreeChunks
<1>2. nextId \in Ids
  BY ConstantsAssumption DEF TypeOK, Ids
<1>3. op.folder \in Folders /\ op.entries \in Trees /\ clock \in Nat
  BY DEF TypeOK, Operation
<1>4. QED
  BY <1>1, <1>2, <1>3 DEF NewManifest, Manifest

LEMMA PrepareType ==
  ASSUME TypeOK, NEW f \in Folders, NEW b \in BOOLEAN,
         NEW k \in {"protect", "manual", "daemon"}, Prepare(f, k, b)
  PROVE  op' \in Operation
<1>1. NoOp("failed", f) \in Operation /\ NoOp("walk", f) \in Operation
  BY NoOpType
<1>2. CASE op' = [NoOp("failed", f) EXCEPT !.kind = k, !.paused = b]
  BY <1>1, <1>2, KindType
<1>3. ASSUME NEW p \in Previous(f),
             op' = [NoOp("walk", f) EXCEPT !.kind = k, !.paused = b,
                      !.prev = p, !.pending = Paths, !.stored = StorageBytes]
      PROVE  op' \in Operation
  <2>1. p \in SUBSET Manifest
    BY DEF Previous, Newest, Listed, TypeOK
  <2>2. QED
    BY <1>1, <1>3, <2>1, StorageType, WalkType
<1>4. QED
  BY <1>2, <1>3 DEF Prepare
-----------------------------------------------------------------------------
(* Type correctness, one step per action.                                  *)

LEMMA TypeInit == Init => TypeOK
<1>1. SUFFICES ASSUME Init PROVE TypeOK
  OBVIOUS
<1>2. manifests \subseteq Manifest
  <2>1. ASSUME NEW f \in Folders, NEW t \in LegacyTrees
        PROVE  LegacyPoint(f, t) \in Manifest
    <3>1. t \in Trees
      BY ConstantsAssumption
    <3>2. {WholeOf[t[p]] : p \in {q \in Paths : t[q] # NoFile}} \in SUBSET Objects
      BY <3>1, ConstantsAssumption DEF Trees
    <3>3. 0 \in Ids
      BY ConstantsAssumption DEF Ids
    <3>4. QED
      BY <3>1, <3>2, <3>3 DEF LegacyPoint, Manifest
  <2>2. manifests \in {{}} \cup
          {{LegacyPoint(f, t)} : f \in Folders, t \in LegacyTrees}
    BY <1>1 DEF Init
  <2>3. QED
    BY <2>1, <2>2
<1>3. diskFolders \in Registry
  <2>1. diskFolders = [f \in Folders |-> IF HasPoint(f) THEN "Active" ELSE "None"]
    BY <1>1 DEF Init
  <2>2. QED
    BY <2>1 DEF Registry, Statuses
<1>4. objects \in [Objects -> {"absent", "good", "damaged"}]
  <2>1. objects = [o \in Objects |-> IF o \in Referenced THEN "good" ELSE "absent"]
    BY <1>1 DEF Init
  <2>2. QED
    BY <2>1
<1>5. /\ strays = 0 /\ broken = {} /\ foreign = FALSE
      /\ diskPolicy \in Policies /\ folders = diskFolders /\ policy = diskPolicy
      /\ op = Idle /\ clock = 1 /\ nextId = 1 /\ faults = 0
  BY <1>1 DEF Init
<1>6. nextId \in 1 .. MaxSnapshots + 1 /\ faults \in 0 .. MaxFaults
  BY <1>5, ConstantsAssumption
<1>7. QED
  BY <1>2, <1>3, <1>4, <1>5, <1>6, IdleType DEF TypeOK

LEMMA TypeStep == TypeOK /\ [Next]_vars => TypeOK'
<1> SUFFICES ASSUME TypeOK, [Next]_vars PROVE TypeOK'
  OBVIOUS
<1> USE DEF TypeOK, disk, memory, world
<1>0. op \in Operation
  OBVIOUS
<1>1. ASSUME NEW p \in Paths, OpenFile(p) PROVE TypeOK'
  <2>1. PICK c \in Contents :
          op' = [op EXCEPT !.pending = @ \ {p}, !.file = {p}, !.opened = c,
                           !.torn = FALSE, !.read = {}]
    BY <1>1 DEF OpenFile
  <2> HIDE DEF TypeOK
  <2>2. op' \in Operation
    BY <1>0, <2>1, OpenType
  <2> USE DEF TypeOK
  <2>3. QED
    BY <1>1, <2>2 DEF OpenFile
<1>2. ASSUME NEW p \in Paths, SkipPath(p) PROVE TypeOK'
  BY <1>2, <1>0, SkipType DEF SkipPath
<1>3. ASSUME NEW o \in Objects, ReuseChunk(o) PROVE TypeOK'
  BY <1>3, <1>0, ReuseType DEF ReuseChunk
<1>4. ASSUME NEW o \in Objects, StoreChunk(o) PROVE TypeOK'
  BY <1>4, <1>0, StoreType, SizeType DEF StoreChunk
<1>5. ASSUME NEW o \in Objects, RejectChunk(o) PROVE TypeOK'
  BY <1>5, <1>0, FailType DEF RejectChunk
<1>6. CASE CloseFile
  BY <1>6, <1>0, CloseType, FailType DEF CloseFile
<1>7. CASE Publish
  <2>1. NewManifest \in Manifest
    BY <1>7, ManifestType DEF Publish
  <2>2. op' \in Operation
    BY <1>7, <1>0, PhaseType DEF Publish
  <2>3. QED
    BY <1>7, <2>1, <2>2, ConstantsAssumption DEF Publish
<1>8. CASE ReusePrevious
  BY <1>8, <1>0, PhaseType DEF ReusePrevious
<1>9. CASE Record
  BY <1>9, <1>0, PhaseType, IdleType DEF Record, Recorded, Registry, Statuses, Operation
<1>10. CASE RecordUnsaved
  BY <1>10, <1>0, FailType, ConstantsAssumption
     DEF RecordUnsaved, Recorded, Registry, Statuses, Fault, Operation
<1>11. CASE Prune
  <2>1. ASSUME NEW kept PROVE Listed(op.folder) \ kept \in SUBSET Manifest
    BY DEF Listed
  <2> HIDE DEF TypeOK
  <2>2. op' \in Operation
    BY <1>11, <1>0, <2>1, FailType, VictimsType DEF Prune
  <2> USE DEF TypeOK
  <2>3. QED
    BY <1>11, <2>2 DEF Prune
<1>12. ASSUME NEW m, Forget(m) PROVE TypeOK'
  BY <1>12, <1>0, VictimsType DEF Forget
<1>13. CASE SweepAfterRetention
  BY <1>13, <1>0, SweepingType DEF SweepAfterRetention
<1>14. CASE BeginCleanup
  BY <1>14, IdleType, PhaseType, SweepingType DEF BeginCleanup
<1>15. ASSUME NEW o, SweepObject(o) PROVE TypeOK'
  BY <1>15, <1>0, TodoType DEF SweepObject
<1>16. CASE EndSweep
  BY <1>16, IdleType DEF EndSweep
<1>17. CASE RequestCancel
  BY <1>17, <1>0, CancelType DEF RequestCancel
<1>18. CASE CancelObserved
  BY <1>18, <1>0, FailType DEF CancelObserved
<1>19. CASE IOFailure
  BY <1>19, <1>0, FailType, ConstantsAssumption DEF IOFailure, Fault
<1>20. AfterFailure \in Registry
  BY DEF AfterFailure, Registry, Statuses, Operation
<1>21. CASE Unwind
  BY <1>21, <1>20, IdleType DEF Unwind
<1>22. CASE UnwindUnsaved
  BY <1>22, <1>20, IdleType, ConstantsAssumption DEF UnwindUnsaved, Fault
<1>23. ASSUME NEW f \in Folders, BeginProtect(f) PROVE TypeOK'
  BY <1>23, PrepareType DEF BeginProtect, Registry, Statuses
<1>24. ASSUME NEW f \in Folders, NEW k \in {"manual", "daemon"}, BeginCapture(f, k)
       PROVE  TypeOK'
  BY <1>24, PrepareType DEF BeginCapture
<1>25. ASSUME NEW f \in Folders, NEW s \in {"Active", "Paused"}, SetPaused(f, s)
       PROVE  TypeOK'
  BY <1>25 DEF SetPaused, Registry, Statuses
<1>26. ASSUME NEW p \in Policies, SetPolicy(p) PROVE TypeOK'
  BY <1>26 DEF SetPolicy
<1>27. CASE EditOpenFile
  BY <1>27, <1>0, TornType DEF EditOpenFile
<1>28. CASE Crash
  <2>1. \A o \in Staging : SizeOf(o) \in Nat
    BY SizeType, ConstantsAssumption DEF Staging, Readable, Chunks, Operation
  <2>2. strays' \in Nat
    BY <1>28, <2>1 DEF Crash
  <2>3. QED
    BY <1>28, <2>2, AnyFolderType, NoOpType, ConstantsAssumption DEF Crash, Fault
<1>29. CASE Reopen
  BY <1>29, IdleType DEF Reopen
<1>30. ASSUME NEW o \in Objects, BitRot(o) PROVE TypeOK'
  BY <1>30, ConstantsAssumption DEF BitRot, Fault
<1>31. ASSUME NEW m \in manifests, BreakManifest(m) PROVE TypeOK'
  BY <1>31, ConstantsAssumption DEF BreakManifest, Fault, Manifest
<1>32. CASE ForeignFileAppears
  BY <1>32, ConstantsAssumption DEF ForeignFileAppears, Fault
<1>33. CASE ForeignFileRemoved
  BY <1>33 DEF ForeignFileRemoved
<1>34. CASE ClockSetBack
  BY <1>34, ConstantsAssumption DEF ClockSetBack, Fault
<1>35. CASE UNCHANGED vars
  BY <1>35 DEF vars
<1> HIDE DEF TypeOK
<1>36. QED
  BY <1>1, <1>2, <1>3, <1>4, <1>5, <1>6, <1>7, <1>8, <1>9, <1>10, <1>11,
     <1>12, <1>13, <1>14, <1>15, <1>16, <1>17, <1>18, <1>19, <1>21, <1>22,
     <1>23, <1>24, <1>25, <1>26, <1>27, <1>28, <1>29, <1>30, <1>31, <1>32,
     <1>33, <1>34, <1>35
  DEF Next, Engine, User, Daemon, World

(* Every variable keeps its type in every behaviour.                       *)
THEOREM TypeCorrect == Spec => []TypeOK
<1>1. Init => TypeOK
  BY TypeInit
<1>2. TypeOK /\ [Next]_vars => TypeOK'
  BY TypeStep
<1>3. QED
  BY <1>1, <1>2, PTL DEF Spec
-----------------------------------------------------------------------------
(* The inductive invariant.  First what an operation that ends, fails or   *)
(* dies leaves intact, whatever it was doing.                              *)

LEMMA LeaveOperation ==
  ASSUME Inductive, UNCHANGED <<objects, manifests, nextId>>,
         op'.pc \in {"idle", "failed", "down"}
  PROVE  /\ PointsBacked' /\ IdsUnique' /\ WalkStored' /\ WalkCounted'
         /\ RetentionSpares' /\ SweepUnneeded'
         /\ \A f \in Folders : HasPoint(f)' <=> HasPoint(f)
BY DEF Inductive, PointsBacked, IdsUnique, WalkStored, WalkCounted,
       RetentionSpares, SweepUnneeded, HasPoint, Stored

LEMMA FailPc == ASSUME NEW x \in Operation
  PROVE  /\ Fail(x).pc = "failed" /\ Fail(x).kind = x.kind
         /\ Fail(x).folder = x.folder
BY DEF Fail, Operation

LEMMA NoOpPc == ASSUME NEW pc, NEW f PROVE NoOp(pc, f).pc = pc
BY DEF NoOp

(* An operation that fails part way keeps the invariant.                   *)
LEMMA FailKeeps ==
  ASSUME Inductive, TypeOK', op.pc \notin Outside, op' = Fail(op), 
         UNCHANGED <<disk, memory, nextId>>
  PROVE  Inductive'
<1>0. op \in Operation
  BY DEF Inductive, TypeOK
<1>1. /\ op'.pc = "failed" /\ op'.kind = op.kind /\ op'.folder = op.folder
  BY <1>0, FailPc
<1>2. UNCHANGED <<objects, manifests, diskFolders, folders>>
  BY DEF disk, memory
<1>3. /\ PointsBacked' /\ IdsUnique' /\ WalkStored' /\ WalkCounted'
      /\ RetentionSpares' /\ SweepUnneeded'
      /\ \A f \in Folders : HasPoint(f)' <=> HasPoint(f)
  BY <1>1, <1>2, LeaveOperation
<1>4. ProtectedHasPoint'
  BY <1>2, <1>3 DEF Inductive, ProtectedHasPoint
<1>5. MemoryHasPoint'
  BY <1>1, <1>2, <1>3 DEF Inductive, MemoryHasPoint, Outside
<1>6. QED
  BY <1>3, <1>4, <1>5 DEF Inductive

(* A step inside the walk that changes nothing but the locals.             *)
LEMMA WalkOn ==
  ASSUME Inductive, TypeOK', op.pc = "walk", UNCHANGED <<disk, memory, world>>,
         op'.pc = "walk", op'.kind = op.kind, op'.folder = op.folder,
         op'.prev = op.prev, op'.stored = op.stored,
         op'.read \subseteq op'.verified, op'.verified \subseteq Stored,
         TreeChunks(op'.entries) \subseteq op'.verified
  PROVE  Inductive'
<1>1. UNCHANGED <<objects, manifests, diskFolders, folders, nextId, strays>>
  BY DEF disk, memory, world
<1>2. Stored' = Stored /\ StorageBytes' = StorageBytes
  BY <1>1 DEF Stored, StorageBytes, ObjectBytes
<1>3. \A f \in Folders : HasPoint(f)' <=> HasPoint(f)
  BY <1>1 DEF HasPoint
<1>4. PointsBacked' /\ IdsUnique' /\ ProtectedHasPoint'
  BY <1>1, <1>2, <1>3 DEF Inductive, PointsBacked, IdsUnique, ProtectedHasPoint
<1>5. MemoryHasPoint'
  BY <1>1, <1>3 DEF Inductive, MemoryHasPoint
<1>6. WalkStored' /\ WalkCounted'
  BY <1>1, <1>2 DEF Inductive, WalkStored, WalkCounted, TreeChunks, Chunks
<1>7. RetentionSpares' /\ SweepUnneeded'
  BY DEF RetentionSpares, SweepUnneeded
<1>8. QED
  BY <1>4, <1>5, <1>6, <1>7 DEF Inductive

(* A step that touches neither the store nor the locals that matter.       *)
LEMMA Elsewhere ==
  ASSUME Inductive, TypeOK', UNCHANGED <<manifests, nextId, strays>>,
         Stored' = Stored, UNCHANGED <<diskFolders, folders>>,
         \/ op' = op
         \/ op' = [op EXCEPT !.cancel = TRUE]
  PROVE  Inductive'
<1>0. op \in Operation
  BY DEF Inductive, TypeOK
<1>1. /\ op'.pc = op.pc /\ op'.kind = op.kind /\ op'.folder = op.folder
      /\ op'.read = op.read /\ op'.verified = op.verified
      /\ op'.entries = op.entries /\ op'.prev = op.prev
      /\ op'.stored = op.stored /\ op'.victims = op.victims
      /\ op'.todo = op.todo
  BY <1>0 DEF Operation
<1>2. Stored' = Stored /\ StorageBytes' = StorageBytes
  BY DEF StorageBytes, ObjectBytes
<1>3. \A f \in Folders : HasPoint(f)' <=> HasPoint(f)
  BY DEF HasPoint
<1>4. PointsBacked' /\ IdsUnique' /\ ProtectedHasPoint'
  BY <1>1, <1>2, <1>3 DEF Inductive, PointsBacked, IdsUnique, ProtectedHasPoint
<1>5. MemoryHasPoint'
  BY <1>1, <1>3 DEF Inductive, MemoryHasPoint
<1>6. WalkStored' /\ WalkCounted'
  BY <1>1, <1>2 DEF Inductive, WalkStored, WalkCounted, TreeChunks, Chunks
<1>7. RetentionSpares' /\ SweepUnneeded'
  BY <1>1 DEF Inductive, RetentionSpares, SweepUnneeded, HasPoint, Referenced
<1>8. QED
  BY <1>4, <1>5, <1>6, <1>7 DEF Inductive

LEMMA IdlePc == Idle.pc = "idle" /\ Idle.kind = "none"
BY DEF Idle, NoOp

(* A registry write between operations, or the read of a new process.      *)
LEMMA RegistryKeeps ==
  ASSUME Inductive, TypeOK', UNCHANGED <<objects, manifests, nextId>>,
         op'.pc \in {"idle", "down"}, op'.kind = "none",
         \A f \in Folders : diskFolders'[f] # "None" => HasPoint(f),
         op'.pc = "idle" =>
           \A f \in Folders : folders'[f] # "None" => HasPoint(f)
  PROVE  Inductive'
<1>1. /\ PointsBacked' /\ IdsUnique' /\ WalkStored' /\ WalkCounted'
      /\ RetentionSpares' /\ SweepUnneeded'
      /\ \A f \in Folders : HasPoint(f)' <=> HasPoint(f)
  BY LeaveOperation
<1>2. ProtectedHasPoint'
  BY <1>1 DEF ProtectedHasPoint
<1>3. MemoryHasPoint'
  BY <1>1 DEF MemoryHasPoint
<1>4. QED
  BY <1>1, <1>2, <1>3 DEF Inductive

LEMMA PrepareKeeps ==
  ASSUME Inductive, TypeOK', op.pc = "idle", nextId <= MaxSnapshots,
         UNCHANGED disk, UNCHANGED world,
         NEW f \in Folders, NEW b, NEW k \in {"protect", "manual", "daemon"},
         Prepare(f, k, b),
         folders'[f] # "None",
         k # "protect" => folders' = folders,
         \A g \in Folders \ {f} : folders'[g] = folders[g]
  PROVE  Inductive'
<1>1. UNCHANGED <<objects, manifests, strays, diskFolders, nextId>>
  BY DEF disk, world
<1>2. /\ op'.kind = k /\ op'.folder = f
      /\ \/ op'.pc = "failed"
         \/ /\ op'.pc = "walk" /\ op'.read = {} /\ op'.verified = {}
            /\ op'.entries = EmptyTree /\ op'.stored = StorageBytes
            /\ op'.prev \in Previous(f)
  BY DEF Prepare, NoOp
<1>3. \A g \in Folders : HasPoint(g)' <=> HasPoint(g)
  BY <1>1 DEF HasPoint
<1>4. Stored' = Stored /\ StorageBytes' = StorageBytes
  BY <1>1 DEF Stored, StorageBytes, ObjectBytes
<1>5. PointsBacked' /\ ProtectedHasPoint'
  BY <1>1, <1>3, <1>4 DEF Inductive, PointsBacked, ProtectedHasPoint
<1>6. IdsUnique'
  BY <1>1 DEF Inductive, IdsUnique
<1>7. MemoryHasPoint'
  BY <1>2, <1>3 DEF Inductive, MemoryHasPoint
<1>8. WalkStored'
  <2>1. TreeChunks(EmptyTree) = {}
    BY DEF TreeChunks, EmptyTree, Chunks
  <2>2. \A m \in UNION Previous(f) : m \in manifests /\ m.folder = f
    BY DEF Previous, Newest, Listed
  <2>3. op'.pc = "walk" => TreeChunks(op'.entries) = {}
    BY <1>2, <2>1
  <2>4. QED
    BY <1>1, <1>2, <2>2, <2>3 DEF WalkStored, TreeChunks, Chunks
<1>9. WalkCounted'
  BY <1>2, <1>4 DEF WalkCounted
<1>10. RetentionSpares' /\ SweepUnneeded'
  BY <1>2 DEF RetentionSpares, SweepUnneeded
<1>11. QED
  BY <1>5, <1>6, <1>7, <1>8, <1>9, <1>10 DEF Inductive

LEMMA StoreKeeps ==
  ASSUME Inductive, TypeOK', NEW o \in Objects, StoreChunk(o)
  PROVE  Inductive'
<1>0. op \in Operation /\ objects \in [Objects -> {"absent", "good", "damaged"}]
      /\ strays \in Nat
  BY DEF Inductive, TypeOK
<1>1. /\ op.pc = "walk" /\ op'.pc = "walk" /\ op'.kind = op.kind
      /\ op'.folder = op.folder /\ op'.prev = op.prev
      /\ op'.entries = op.entries /\ op'.stored = op.stored + SizeOf(o)
      /\ op'.read = op.read \cup {o} /\ op'.verified = op.verified \cup {o}
  BY <1>0 DEF StoreChunk, NextChunk, Walking, Operation
<1>2. /\ UNCHANGED <<manifests, strays, diskFolders, folders, nextId>>
      /\ o \notin Stored /\ Stored' = Stored \cup {o}
  BY <1>0 DEF StoreChunk, Stored, memory, world
<1>3. StorageBytes' = StorageBytes + SizeOf(o)
  <2>1. ObjectBytes' = ObjectBytes + SizeOf(o)
    BY <1>2, ConstantsAssumption DEF ObjectBytes, SizeOf, Stored
  <2>2. ObjectBytes \in Nat /\ SizeOf(o) \in Nat
    BY SizeType, StorageType DEF Inductive
  <2>3. QED
    BY <1>0, <1>2, <2>1, <2>2 DEF StorageBytes
<1>4. \A f \in Folders : HasPoint(f)' <=> HasPoint(f)
  BY <1>2 DEF HasPoint
<1>5. PointsBacked' /\ ProtectedHasPoint'
  BY <1>2, <1>4 DEF Inductive, PointsBacked, ProtectedHasPoint
<1>6. IdsUnique' /\ MemoryHasPoint'
  BY <1>1, <1>2, <1>4 DEF Inductive, IdsUnique, MemoryHasPoint
<1>7. WalkStored'
  BY <1>1, <1>2 DEF Inductive, WalkStored, TreeChunks, Chunks
<1>8. WalkCounted'
  BY <1>1, <1>3 DEF Inductive, WalkCounted
<1>9. RetentionSpares' /\ SweepUnneeded'
  BY <1>1 DEF RetentionSpares, SweepUnneeded
<1>10. QED
  BY <1>5, <1>6, <1>7, <1>8, <1>9 DEF Inductive
-----------------------------------------------------------------------------
(* The initial repository.                                                 *)

LEMMA InductiveInit == Init => Inductive
<1> SUFFICES ASSUME Init PROVE Inductive
  OBVIOUS
<1>1. TypeOK
  BY TypeInit
<1>2. /\ objects = [o \in Objects |-> IF o \in Referenced THEN "good" ELSE "absent"]
      /\ diskFolders = [f \in Folders |-> IF HasPoint(f) THEN "Active" ELSE "None"]
      /\ folders = diskFolders /\ op = Idle /\ nextId = 1
      /\ manifests \in {{}} \cup
           {{LegacyPoint(f, t)} : f \in Folders, t \in LegacyTrees}
  BY DEF Init
<1>3. op.pc = "idle" /\ op.kind = "none"
  BY <1>2, IdlePc
<1>4. PointsBacked
  <2>1. ASSUME NEW m \in manifests PROVE m.refs \subseteq Stored
    <3>1. m.refs \subseteq Objects /\ m.refs \subseteq Referenced
      BY <1>1 DEF TypeOK, Manifest, Referenced
    <3>2. QED
      BY <1>2, <3>1 DEF Stored
  <2>2. QED
    BY <2>1 DEF PointsBacked
<1>5. ProtectedHasPoint
  BY <1>2 DEF ProtectedHasPoint
<1>6. IdsUnique
  <2>1. CASE manifests = {}
    BY <1>3, <2>1, FS_EmptySet DEF IdsUnique
  <2>2. ASSUME NEW f \in Folders, NEW t \in LegacyTrees,
               manifests = {LegacyPoint(f, t)}
        PROVE  IdsUnique
    <3>1. IsFiniteSet(manifests)
      BY <2>2, FS_Singleton
    <3>2. LegacyPoint(f, t).id = 0
      BY DEF LegacyPoint
    <3>3. QED
      BY <1>2, <1>3, <2>2, <3>1, <3>2 DEF IdsUnique
  <2>3. QED
    BY <1>2, <2>1, <2>2
<1>7. MemoryHasPoint
  BY <1>2, <1>3 DEF MemoryHasPoint
<1>8. WalkStored /\ WalkCounted /\ RetentionSpares /\ SweepUnneeded
  BY <1>3 DEF WalkStored, WalkCounted, RetentionSpares, SweepUnneeded
<1>9. QED
  BY <1>1, <1>4, <1>5, <1>6, <1>7, <1>8 DEF Inductive
-----------------------------------------------------------------------------
(* The walk.                                                               *)

LEMMA OpenKeeps ==
  ASSUME Inductive, TypeOK', NEW p \in Paths, OpenFile(p) \/ SkipPath(p)
  PROVE  Inductive'
<1>1. op \in Operation
  BY DEF Inductive, TypeOK
<1>2. op.pc = "walk" /\ UNCHANGED <<disk, memory, world>>
  BY DEF OpenFile, SkipPath, Walking
<1>3. /\ op'.pc = op.pc /\ op'.kind = op.kind /\ op'.folder = op.folder
      /\ op'.prev = op.prev /\ op'.stored = op.stored
      /\ op'.verified = op.verified /\ op'.entries = op.entries
      /\ op'.read \in {op.read, {}}
  BY <1>1 DEF OpenFile, SkipPath, Operation
<1>4. /\ op.read \subseteq op.verified /\ op.verified \subseteq Stored
      /\ TreeChunks(op.entries) \subseteq op.verified
  BY <1>2 DEF Inductive, WalkStored
<1>5. QED
  BY <1>2, <1>3, <1>4, WalkOn

LEMMA EditKeeps ==
  ASSUME Inductive, TypeOK', EditOpenFile
  PROVE  Inductive'
<1>1. op \in Operation
  BY DEF Inductive, TypeOK
<1>2. op.pc = "walk" /\ UNCHANGED <<disk, memory, world>>
  BY DEF EditOpenFile
<1>3. /\ op'.pc = op.pc /\ op'.kind = op.kind /\ op'.folder = op.folder
      /\ op'.prev = op.prev /\ op'.stored = op.stored /\ op'.read = op.read
      /\ op'.verified = op.verified /\ op'.entries = op.entries
  BY <1>1 DEF EditOpenFile, Operation
<1>4. /\ op.read \subseteq op.verified /\ op.verified \subseteq Stored
      /\ TreeChunks(op.entries) \subseteq op.verified
  BY <1>2 DEF Inductive, WalkStored
<1>5. QED
  BY <1>2, <1>3, <1>4, WalkOn

LEMMA ReuseKeeps ==
  ASSUME Inductive, TypeOK', NEW o \in Objects, ReuseChunk(o)
  PROVE  Inductive'
<1>1. op \in Operation
  BY DEF Inductive, TypeOK
<1>2. op.pc = "walk" /\ UNCHANGED <<disk, memory, world>>
  BY DEF ReuseChunk, NextChunk, Walking
<1>3. /\ op'.pc = op.pc /\ op'.kind = op.kind /\ op'.folder = op.folder
      /\ op'.prev = op.prev /\ op'.stored = op.stored
      /\ op'.read = op.read \cup {o} /\ op'.verified = op.verified \cup {o}
      /\ op'.entries = op.entries
  BY <1>1 DEF ReuseChunk, Operation
<1>4. /\ op.read \subseteq op.verified /\ op.verified \subseteq Stored
      /\ TreeChunks(op.entries) \subseteq op.verified
  BY <1>2 DEF Inductive, WalkStored
<1>5. o \in Stored
  BY <1>4 DEF ReuseChunk, Stored
<1>6. QED
  BY <1>2, <1>3, <1>4, <1>5, WalkOn

LEMMA CloseKeeps ==
  ASSUME Inductive, TypeOK', CloseFile
  PROVE  Inductive'
<1>1. op \in Operation
  BY DEF Inductive, TypeOK
<1>2. op.pc = "walk" /\ UNCHANGED <<disk, memory, world>>
  BY DEF CloseFile, Walking
<1>3. CASE op.torn
  BY <1>2, <1>3, FailKeeps DEF CloseFile, Outside, world
<1>4. CASE ~op.torn
  <2>1. op' = [op EXCEPT !.entries = [p \in Paths |->
                           IF p \in op.file THEN op.opened ELSE @[p]],
                         !.file = {}, !.opened = NoFile, !.read = {}]
    BY <1>4 DEF CloseFile
  <2>2. /\ op'.pc = op.pc /\ op'.kind = op.kind /\ op'.folder = op.folder
        /\ op'.prev = op.prev /\ op'.stored = op.stored /\ op'.read = {}
        /\ op'.verified = op.verified
        /\ op'.entries = [p \in Paths |->
             IF p \in op.file THEN op.opened ELSE op.entries[p]]
    BY <1>1, <2>1 DEF Operation
  <2>3. /\ op.read \subseteq op.verified /\ op.verified \subseteq Stored
        /\ TreeChunks(op.entries) \subseteq op.verified
    BY <1>2 DEF Inductive, WalkStored
  <2>4. Chunks(op.opened) \subseteq op.verified
    BY <1>4, <2>3 DEF CloseFile
  <2>5. \A p \in Paths : Chunks(op'.entries[p]) \subseteq op.verified
    BY <2>2, <2>3, <2>4 DEF TreeChunks
  <2>6. TreeChunks(op'.entries) \subseteq op'.verified
    BY <2>2, <2>5 DEF TreeChunks
  <2>7. QED
    BY <1>2, <2>2, <2>3, <2>6, WalkOn
<1>5. QED
  BY <1>3, <1>4
-----------------------------------------------------------------------------
(* Publication and the record of it.                                       *)

LEMMA PublishKeeps ==
  ASSUME Inductive, TypeOK', Publish
  PROVE  Inductive'
<1>0. op \in Operation /\ nextId \in Nat
  BY ConstantsAssumption DEF Inductive, TypeOK
<1>1. /\ op.pc = "walk" /\ nextId' = nextId + 1
      /\ manifests' = manifests \cup {NewManifest}
      /\ UNCHANGED <<objects, diskFolders, folders>>
  BY DEF Publish, WalkDone, Walking, memory
<1>2. op'.pc = "record" /\ op'.kind = op.kind /\ op'.folder = op.folder
  BY <1>0 DEF Publish, Operation
<1>3. /\ NewManifest.id = nextId /\ NewManifest.folder = op.folder
      /\ NewManifest.refs \subseteq Stored
  BY <1>1 DEF NewManifest, Inductive, WalkStored
<1>4. Stored' = Stored
  BY <1>1 DEF Stored
<1>5. HasPoint(op.folder)' /\ \A f \in Folders : HasPoint(f) => HasPoint(f)'
  BY <1>1, <1>2, <1>3 DEF HasPoint
<1>6. PointsBacked'
  BY <1>1, <1>3, <1>4 DEF Inductive, PointsBacked
<1>7. ProtectedHasPoint'
  BY <1>1, <1>5 DEF Inductive, ProtectedHasPoint
<1>8. IdsUnique'
  <2>1. /\ IsFiniteSet(manifests)
        /\ \A m \in manifests : m.id < nextId
        /\ \A m, n \in manifests : m.id = n.id => m = n
    BY DEF Inductive, IdsUnique
  <2>2. IsFiniteSet(manifests')
    BY <1>1, <2>1, FS_AddElement
  <2>3. \A m \in manifests : m.id \in Nat
    BY DEF Inductive, TypeOK, Manifest, Ids
  <2>4. \A m \in manifests' : m.id < nextId'
    BY <1>0, <1>1, <1>3, <2>1, <2>3
  <2>5. \A m, n \in manifests' : m.id = n.id => m = n
    BY <1>0, <1>1, <1>3, <2>1, <2>3
  <2>6. QED
    BY <1>2, <2>2, <2>4, <2>5 DEF IdsUnique
<1>9. MemoryHasPoint'
  BY <1>1, <1>2, <1>5 DEF Inductive, MemoryHasPoint
<1>10. WalkStored' /\ WalkCounted' /\ SweepUnneeded'
  BY <1>2 DEF WalkStored, WalkCounted, SweepUnneeded
<1>11. RetentionSpares'
  BY <1>2, <1>5 DEF RetentionSpares
<1>12. QED
  BY <1>6, <1>7, <1>8, <1>9, <1>10, <1>11 DEF Inductive

LEMMA ReusePreviousKeeps ==
  ASSUME Inductive, TypeOK', ReusePrevious
  PROVE  Inductive'
<1>0. op \in Operation
  BY DEF Inductive, TypeOK
<1>1. /\ op.pc = "walk" /\ op.prev # {}
      /\ UNCHANGED <<objects, manifests, diskFolders, folders, nextId>>
  BY DEF ReusePrevious, WalkDone, Walking, Unchanged, disk, memory, world
<1>2. op'.pc = "record" /\ op'.kind = op.kind /\ op'.folder = op.folder
  BY <1>0 DEF ReusePrevious, Operation
<1>3. HasPoint(op.folder)
  BY <1>1 DEF Inductive, WalkStored, HasPoint
<1>4. Stored' = Stored /\ \A f \in Folders : HasPoint(f)' <=> HasPoint(f)
  BY <1>1 DEF Stored, HasPoint
<1>5. PointsBacked' /\ ProtectedHasPoint'
  BY <1>1, <1>4 DEF Inductive, PointsBacked, ProtectedHasPoint
<1>6. IdsUnique'
  BY <1>1, <1>2 DEF Inductive, IdsUnique
<1>7. MemoryHasPoint'
  BY <1>0, <1>1, <1>2, <1>3, <1>4 DEF Inductive, MemoryHasPoint, Operation
<1>8. WalkStored' /\ WalkCounted' /\ SweepUnneeded'
  BY <1>2 DEF WalkStored, WalkCounted, SweepUnneeded
<1>9. RetentionSpares'
  BY <1>0, <1>2, <1>3, <1>4 DEF RetentionSpares, Operation
<1>10. QED
  BY <1>5, <1>6, <1>7, <1>8, <1>9 DEF Inductive

LEMMA RecordedValue ==
  ASSUME TypeOK
  PROVE  /\ Recorded[op.folder] # "None"
         /\ \A f \in Folders \ {op.folder} : Recorded[f] = folders[f]
BY DEF TypeOK, Operation, Registry, Recorded

LEMMA RecordKeeps ==
  ASSUME Inductive, TypeOK', Record
  PROVE  Inductive'
<1>0. op \in Operation /\ TypeOK
  BY DEF Inductive, TypeOK
<1>1. /\ op.pc = "record" /\ folders' = Recorded /\ diskFolders' = Recorded
      /\ UNCHANGED <<objects, manifests, nextId>>
  BY DEF Record, world
<1>2. HasPoint(op.folder)
  BY <1>1 DEF Inductive, RetentionSpares
<1>3. \A f \in Folders : Recorded[f] # "None" => HasPoint(f)
  <2>1. \A f \in Folders \ {op.folder} : folders[f] # "None" => HasPoint(f)
    BY <1>1 DEF Inductive, MemoryHasPoint
  <2>2. QED
    BY <1>0, <1>2, <2>1, RecordedValue
<1>4. CASE op' = Idle
  BY <1>1, <1>3, <1>4, IdlePc, RegistryKeeps
<1>5. CASE op' = [op EXCEPT !.pc = "prune"]
  <2>1. op'.pc = "prune" /\ op'.kind = op.kind /\ op'.folder = op.folder
    BY <1>0, <1>5 DEF Operation
  <2>2. Stored' = Stored /\ \A f \in Folders : HasPoint(f)' <=> HasPoint(f)
    BY <1>1 DEF Stored, HasPoint
  <2>3. PointsBacked' /\ ProtectedHasPoint'
    BY <1>1, <1>3, <2>2 DEF Inductive, PointsBacked, ProtectedHasPoint
  <2>4. IdsUnique'
    BY <1>1, <2>1 DEF Inductive, IdsUnique
  <2>5. MemoryHasPoint'
    BY <1>0, <1>1, <1>3, <2>1, <2>2, RecordedValue DEF MemoryHasPoint
  <2>6. WalkStored' /\ WalkCounted' /\ SweepUnneeded'
    BY <2>1 DEF WalkStored, WalkCounted, SweepUnneeded
  <2>7. RetentionSpares'
    BY <1>0, <1>2, <2>1, <2>2 DEF RetentionSpares, Operation
  <2>8. QED
    BY <2>3, <2>4, <2>5, <2>6, <2>7 DEF Inductive
<1>6. QED
  BY <1>4, <1>5 DEF Record

LEMMA RecordUnsavedKeeps ==
  ASSUME Inductive, TypeOK', RecordUnsaved
  PROVE  Inductive'
<1>0. op \in Operation /\ TypeOK
  BY DEF Inductive, TypeOK
<1>1. /\ op.pc = "record" /\ folders' = Recorded
      /\ UNCHANGED <<objects, manifests, nextId, diskFolders>>
  BY DEF RecordUnsaved, disk
<1>2. /\ op'.pc = "failed" /\ op'.kind = op.kind /\ op'.folder = op.folder
  BY <1>0, FailPc DEF RecordUnsaved
<1>3. HasPoint(op.folder)
  BY <1>1 DEF Inductive, RetentionSpares
<1>4. /\ PointsBacked' /\ IdsUnique' /\ WalkStored' /\ WalkCounted'
      /\ RetentionSpares' /\ SweepUnneeded'
      /\ \A f \in Folders : HasPoint(f)' <=> HasPoint(f)
  BY <1>1, <1>2, LeaveOperation
<1>5. ProtectedHasPoint'
  BY <1>1, <1>4 DEF Inductive, ProtectedHasPoint
<1>6. MemoryHasPoint'
  <2>1. \A f \in Folders \ {op.folder} : folders[f] # "None" => HasPoint(f)
    BY <1>1 DEF Inductive, MemoryHasPoint
  <2>2. QED
    BY <1>0, <1>1, <1>2, <1>3, <1>4, <2>1, RecordedValue DEF MemoryHasPoint
<1>7. QED
  BY <1>4, <1>5, <1>6 DEF Inductive
-----------------------------------------------------------------------------
(* Retention and cleanup.                                                  *)

(* A step that changes only the phase and the lists of what to remove.     *)
LEMMA PhaseKeeps ==
  ASSUME Inductive, TypeOK',
         op.pc \in {"idle", "prune", "retain"},
         op'.pc \in {"retain", "sweep"},
         UNCHANGED <<objects, manifests, diskFolders, folders, nextId>>,
         \/ op'.kind = "cleanup"
         \/ op'.kind = op.kind /\ op'.folder = op.folder,
         RetentionSpares', SweepUnneeded'
  PROVE  Inductive'
<1>1. Stored' = Stored /\ \A f \in Folders : HasPoint(f)' <=> HasPoint(f)
  BY DEF Stored, HasPoint
<1>2. PointsBacked' /\ ProtectedHasPoint'
  BY <1>1 DEF Inductive, PointsBacked, ProtectedHasPoint
<1>3. IdsUnique'
  BY DEF Inductive, IdsUnique
<1>4. MemoryHasPoint'
  <2>1. \A f \in Folders : folders[f] # "None" => HasPoint(f)
    BY DEF Inductive, MemoryHasPoint
  <2>2. op'.kind = "daemon" => folders'[op'.folder] # "None"
    BY DEF Inductive, MemoryHasPoint
  <2>3. QED
    BY <1>1, <2>1, <2>2 DEF MemoryHasPoint
<1>5. WalkStored' /\ WalkCounted'
  BY DEF WalkStored, WalkCounted
<1>6. QED
  BY <1>2, <1>3, <1>4, <1>5 DEF Inductive

(* At least one restore point is retained when there is one to retain.     *)
LEMMA RetainedNonempty ==
  ASSUME NEW f, NEW n \in Nat \ {0}, IsFiniteSet(Listed(f)), Listed(f) # {},
         NEW kept \in Retained(f, n)
  PROVE  kept # {}
<1>1. Cardinality(Listed(f)) \in Nat /\ Cardinality(Listed(f)) # 0
  BY FS_CardinalityType, FS_EmptySet
<1>2. Cardinality(kept) # 0
  BY <1>1 DEF Retained
<1>3. QED
  BY <1>2, FS_EmptySet

LEMMA PruneKeeps ==
  ASSUME Inductive, TypeOK', Prune
  PROVE  Inductive'
<1>0. op \in Operation /\ policy.keep \in Nat \ {0}
  BY ConstantsAssumption DEF Inductive, TypeOK
<1>1. op.pc = "prune" /\ UNCHANGED <<disk, memory, world>>
  BY DEF Prune
<1>2. CASE op' = Fail(op)
  BY <1>1, <1>2, FailKeeps DEF Outside, world
<1>3. ASSUME ~Unsound, NEW kept \in Retained(op.folder, policy.keep),
             op' = [op EXCEPT !.pc = "retain", !.victims = Listed(op.folder) \ kept]
      PROVE  Inductive'
  <2>1. /\ op'.pc = "retain" /\ op'.kind = op.kind /\ op'.folder = op.folder
        /\ op'.victims = Listed(op.folder) \ kept
    BY <1>0, <1>3 DEF Operation
  <2>2. Listed(op.folder) = {m \in manifests : m.folder = op.folder}
    BY <1>3 DEF Listed, Unsound
  <2>3. IsFiniteSet(manifests) /\ HasPoint(op.folder)
    BY <1>1 DEF Inductive, IdsUnique, RetentionSpares
  <2>4. IsFiniteSet(Listed(op.folder)) /\ Listed(op.folder) # {}
    BY <2>2, <2>3, FS_Subset DEF HasPoint
  <2>5. kept # {} /\ kept \subseteq Listed(op.folder)
    BY <1>0, <1>3, <2>4, RetainedNonempty DEF Retained
  <2>6. UNCHANGED <<objects, manifests, diskFolders, folders, nextId>>
    BY <1>1 DEF disk, memory, world
  <2>7. RetentionSpares'
    BY <2>1, <2>2, <2>5, <2>6 DEF RetentionSpares
  <2>8. SweepUnneeded'
    BY <2>1 DEF SweepUnneeded
  <2>9. QED
    BY <1>1, <2>1, <2>6, <2>7, <2>8, PhaseKeeps
<1>4. QED
  BY <1>2, <1>3 DEF Prune

LEMMA ForgetKeeps ==
  ASSUME Inductive, TypeOK', NEW m \in op.victims, Forget(m)
  PROVE  Inductive'
<1>0. op \in Operation
  BY DEF Inductive, TypeOK
<1>1. /\ op.pc = "retain" /\ manifests' = manifests \ {m}
      /\ UNCHANGED <<objects, diskFolders, folders, nextId>>
  BY DEF Forget, memory, world
<1>2. /\ op'.pc = "retain" /\ op'.kind = op.kind /\ op'.folder = op.folder
      /\ op'.victims = op.victims \ {m}
  BY <1>0, <1>1 DEF Forget, Operation
<1>3. /\ \A v \in op.victims : v \in manifests /\ v.folder = op.folder
      /\ \E v \in manifests \ op.victims : v.folder = op.folder
  BY <1>1 DEF Inductive, RetentionSpares
<1>4. \A f \in Folders : HasPoint(f)' <=> HasPoint(f)
  BY <1>1, <1>3 DEF HasPoint
<1>5. PointsBacked' /\ ProtectedHasPoint'
  BY <1>1, <1>4 DEF Inductive, PointsBacked, ProtectedHasPoint, Stored
<1>6. IdsUnique'
  BY <1>1, <1>2, FS_RemoveElement DEF Inductive, IdsUnique
<1>7. MemoryHasPoint'
  BY <1>1, <1>2, <1>4 DEF Inductive, MemoryHasPoint
<1>8. RetentionSpares'
  BY <1>1, <1>2, <1>3 DEF RetentionSpares
<1>9. WalkStored' /\ WalkCounted' /\ SweepUnneeded'
  BY <1>2 DEF WalkStored, WalkCounted, SweepUnneeded
<1>10. QED
  BY <1>5, <1>6, <1>7, <1>8, <1>9 DEF Inductive

(* A cleanup that starts looks for objects no restore point needs.         *)
LEMMA SweepingList ==
  ASSUME NEW x \in Operation
  PROVE  \/ Sweeping(x) = Fail(x)
         \/ /\ Sweeping(x).pc = "sweep" /\ Sweeping(x).kind = x.kind
            /\ Sweeping(x).folder = x.folder
            /\ Sweeping(x).todo = Stored \ Referenced
BY DEF Sweeping, Operation

LEMMA SweepAfterRetentionKeeps ==
  ASSUME Inductive, TypeOK', SweepAfterRetention
  PROVE  Inductive'
<1>0. op \in Operation
  BY DEF Inductive, TypeOK
<1>1. op.pc = "retain" /\ op' = Sweeping(op) /\ UNCHANGED <<disk, memory, world>>
  BY DEF SweepAfterRetention
<1>2. CASE op' = Fail(op)
  BY <1>1, <1>2, FailKeeps DEF Outside, world
<1>3. CASE op' # Fail(op)
  <2>1. /\ op'.pc = "sweep" /\ op'.kind = op.kind /\ op'.folder = op.folder
        /\ op'.todo = Stored \ Referenced
    BY <1>0, <1>1, <1>3, SweepingList
  <2>2. UNCHANGED <<objects, manifests, diskFolders, folders, nextId>>
    BY <1>1 DEF disk, memory, world
  <2>3. RetentionSpares' /\ SweepUnneeded'
    BY <2>1, <2>2 DEF RetentionSpares, SweepUnneeded, Referenced
  <2>4. QED
    BY <1>1, <2>1, <2>2, <2>3, PhaseKeeps
<1>4. QED
  BY <1>2, <1>3

LEMMA BeginCleanupKeeps ==
  ASSUME Inductive, TypeOK', BeginCleanup
  PROVE  Inductive'
<1>1. /\ op.pc = "idle"
      /\ UNCHANGED <<objects, manifests, diskFolders, folders, nextId>>
  BY DEF BeginCleanup, disk, memory, world
<1>2. PICK x \in Operation : x.kind = "cleanup" /\ op' = Sweeping(x)
  <2>1. [Idle EXCEPT !.kind = "cleanup"] \in Operation
    BY IdleType, PhaseType
  <2>2. [Idle EXCEPT !.kind = "cleanup"].kind = "cleanup"
    BY DEF Idle, NoOp
  <2>3. QED
    BY <2>1, <2>2 DEF BeginCleanup
<1>3. CASE op' = Fail(x)
  <2>1. op'.pc = "failed" /\ op'.kind = "cleanup"
    BY <1>2, <1>3, FailPc
  <2>2. /\ PointsBacked' /\ IdsUnique' /\ WalkStored' /\ WalkCounted'
        /\ RetentionSpares' /\ SweepUnneeded'
        /\ \A f \in Folders : HasPoint(f)' <=> HasPoint(f)
    BY <1>1, <2>1, LeaveOperation
  <2>3. ProtectedHasPoint' /\ MemoryHasPoint'
    BY <1>1, <2>1, <2>2
    DEF Inductive, ProtectedHasPoint, MemoryHasPoint
  <2>4. QED
    BY <2>2, <2>3 DEF Inductive
<1>4. CASE op' # Fail(x)
  <2>1. op'.pc = "sweep" /\ op'.kind = "cleanup" /\ op'.todo = Stored \ Referenced
    BY <1>2, <1>4, SweepingList
  <2>2. RetentionSpares' /\ SweepUnneeded'
    BY <1>1, <2>1 DEF RetentionSpares, SweepUnneeded, Referenced
  <2>3. QED
    BY <1>1, <2>1, <2>2, PhaseKeeps
<1>5. QED
  BY <1>3, <1>4

LEMMA SweepObjectKeeps ==
  ASSUME Inductive, TypeOK', NEW o \in op.todo, SweepObject(o)
  PROVE  Inductive'
<1>0. op \in Operation /\ objects \in [Objects -> {"absent", "good", "damaged"}]
  BY DEF Inductive, TypeOK
<1>1. /\ op.pc = "sweep" /\ objects' = [objects EXCEPT ![o] = "absent"]
      /\ UNCHANGED <<manifests, diskFolders, folders, nextId>>
  BY DEF SweepObject, memory, world
<1>2. op'.pc = "sweep" /\ op'.kind = op.kind /\ op'.folder = op.folder
      /\ op'.todo = op.todo \ {o}
  BY <1>0, <1>1 DEF SweepObject, Operation
<1>3. Stored' = Stored \ {o}
  BY <1>0, <1>1 DEF Stored, Operation
<1>4. op.todo \cap Referenced = {}
  BY <1>1 DEF Inductive, SweepUnneeded
<1>5. \A f \in Folders : HasPoint(f)' <=> HasPoint(f)
  BY <1>1 DEF HasPoint
<1>6. PointsBacked'
  BY <1>1, <1>3, <1>4 DEF Inductive, PointsBacked, Referenced
<1>7. ProtectedHasPoint' /\ MemoryHasPoint' /\ IdsUnique'
  BY <1>1, <1>2, <1>5 DEF Inductive, ProtectedHasPoint, MemoryHasPoint, IdsUnique
<1>8. SweepUnneeded'
  BY <1>1, <1>2, <1>4 DEF SweepUnneeded, Referenced
<1>9. WalkStored' /\ WalkCounted' /\ RetentionSpares'
  BY <1>2 DEF WalkStored, WalkCounted, RetentionSpares
<1>10. QED
  BY <1>6, <1>7, <1>8, <1>9 DEF Inductive
-----------------------------------------------------------------------------
(* The end of an operation.                                                *)

LEMMA EndSweepKeeps ==
  ASSUME Inductive, TypeOK', EndSweep
  PROVE  Inductive'
<1>1. /\ op.pc = "sweep" /\ op' = Idle
      /\ UNCHANGED <<objects, manifests, diskFolders, folders, nextId>>
  BY DEF EndSweep, disk, memory, world
<1>2. /\ \A f \in Folders : diskFolders[f] # "None" => HasPoint(f)
      /\ \A f \in Folders : folders[f] # "None" => HasPoint(f)
  BY <1>1 DEF Inductive, ProtectedHasPoint, MemoryHasPoint
<1>3. QED
  BY <1>1, <1>2, IdlePc, RegistryKeeps

LEMMA AfterFailureBacked ==
  ASSUME Inductive, op.pc = "failed"
  PROVE  \A f \in Folders : AfterFailure[f] # "None" => HasPoint(f)
<1>0. op \in Operation /\ folders \in Registry
  BY DEF Inductive, TypeOK
<1>1. \A f \in Folders : folders[f] # "None" =>
        HasPoint(f) \/ (op.kind = "protect" /\ op.folder = f)
  BY DEF Inductive, MemoryHasPoint
<1>2. op.kind = "daemon" => folders[op.folder] # "None"
  BY DEF Inductive, MemoryHasPoint
<1>3. CASE op.kind = "protect"
  BY <1>0, <1>1, <1>3 DEF AfterFailure, Registry, Operation
<1>4. CASE op.kind = "daemon"
  BY <1>0, <1>1, <1>2, <1>4 DEF AfterFailure, Registry, Operation
<1>5. QED
  BY <1>1, <1>3, <1>4 DEF AfterFailure

LEMMA UnwindKeeps ==
  ASSUME Inductive, TypeOK', Unwind \/ UnwindUnsaved
  PROVE  Inductive'
<1>1. /\ op.pc = "failed" /\ op' = Idle /\ folders' = AfterFailure
      /\ diskFolders' \in {AfterFailure, diskFolders}
      /\ UNCHANGED <<objects, manifests, nextId>>
  BY DEF Unwind, UnwindUnsaved, disk, world
<1>2. \A f \in Folders : AfterFailure[f] # "None" => HasPoint(f)
  BY <1>1, AfterFailureBacked
<1>3. \A f \in Folders : diskFolders[f] # "None" => HasPoint(f)
  BY DEF Inductive, ProtectedHasPoint
<1>4. QED
  BY <1>1, <1>2, <1>3, IdlePc, RegistryKeeps

LEMMA CrashKeeps ==
  ASSUME Inductive, TypeOK', Crash \/ Reopen
  PROVE  Inductive'
<1>1. /\ UNCHANGED <<objects, manifests, nextId, diskFolders>>
      /\ op'.pc \in {"idle", "down"} /\ op'.kind = "none"
      /\ op'.pc = "idle" => folders' = diskFolders
  BY IdlePc DEF Crash, Reopen, NoOp, disk, world
<1>2. \A f \in Folders : diskFolders[f] # "None" => HasPoint(f)
  BY DEF Inductive, ProtectedHasPoint
<1>3. QED
  BY <1>1, <1>2, RegistryKeeps

LEMMA SettingsKeep ==
  ASSUME Inductive, TypeOK', op.pc = "idle", UNCHANGED op,
         UNCHANGED <<objects, manifests, nextId>>,
         \A f \in Folders : folders'[f] = "None" <=> folders[f] = "None",
         diskFolders' \in {diskFolders, folders'}
  PROVE  Inductive'
<1>1. \A f \in Folders : diskFolders[f] # "None" => HasPoint(f)
  BY DEF Inductive, ProtectedHasPoint
<1>2. \A f \in Folders : folders[f] # "None" => HasPoint(f)
  BY DEF Inductive, MemoryHasPoint
<1>3. /\ PointsBacked' /\ IdsUnique' /\ WalkStored' /\ WalkCounted'
      /\ RetentionSpares' /\ SweepUnneeded'
      /\ \A f \in Folders : HasPoint(f)' <=> HasPoint(f)
  BY LeaveOperation
<1>4. ProtectedHasPoint'
  BY <1>1, <1>2, <1>3 DEF ProtectedHasPoint
<1>5. MemoryHasPoint'
  <2>1. op.kind = "daemon" => folders[op.folder] # "None"
    BY DEF Inductive, MemoryHasPoint
  <2>2. op.folder \in Folders
    BY DEF Inductive, TypeOK, Operation
  <2>3. QED
    BY <1>2, <1>3, <2>1, <2>2 DEF MemoryHasPoint
<1>6. QED
  BY <1>3, <1>4, <1>5 DEF Inductive
-----------------------------------------------------------------------------
(* Every step keeps the inductive invariant, one step per action.          *)

LEMMA InductiveStep == Inductive /\ [Next]_vars => Inductive'
<1> SUFFICES ASSUME Inductive, [Next]_vars PROVE Inductive'
  OBVIOUS
<1>1. TypeOK'
  BY TypeStep DEF Inductive
<1>2. op.pc \in {"walk", "prune", "retain", "sweep"} => op.pc \notin Outside
  BY DEF Outside
<1>3. ASSUME NEW p \in Paths, OpenFile(p) \/ SkipPath(p) PROVE Inductive'
  BY <1>1, <1>3, OpenKeeps
<1>4. ASSUME NEW o \in Objects, ReuseChunk(o) PROVE Inductive'
  BY <1>1, <1>4, ReuseKeeps
<1>5. ASSUME NEW o \in Objects, StoreChunk(o) PROVE Inductive'
  BY <1>1, <1>5, StoreKeeps
<1>6. ASSUME NEW o \in Objects, RejectChunk(o) PROVE Inductive'
  BY <1>1, <1>2, <1>6, FailKeeps DEF RejectChunk, NextChunk, Walking, world
<1>7. CASE CloseFile
  BY <1>1, <1>7, CloseKeeps
<1>8. CASE Publish
  BY <1>1, <1>8, PublishKeeps
<1>9. CASE ReusePrevious
  BY <1>1, <1>9, ReusePreviousKeeps
<1>10. CASE Record
  BY <1>1, <1>10, RecordKeeps
<1>11. CASE Prune
  BY <1>1, <1>11, PruneKeeps
<1>12. CASE SweepAfterRetention
  BY <1>1, <1>12, SweepAfterRetentionKeeps
<1>13. CASE EndSweep
  BY <1>1, <1>13, EndSweepKeeps
<1>14. ASSUME NEW m \in op.victims, Forget(m) PROVE Inductive'
  BY <1>1, <1>14, ForgetKeeps
<1>15. ASSUME NEW o \in op.todo, SweepObject(o) PROVE Inductive'
  BY <1>1, <1>15, SweepObjectKeeps
<1>16. CASE CancelObserved
  BY <1>1, <1>2, <1>16, FailKeeps DEF CancelObserved, world
<1>17. CASE Unwind \/ UnwindUnsaved
  BY <1>1, <1>17, UnwindKeeps
<1>18. ASSUME NEW f \in Folders, BeginProtect(f) PROVE Inductive'
  <2>1. folders \in Registry
    BY DEF Inductive, TypeOK
  <2>2. /\ folders' = [folders EXCEPT ![f] = "Active"]
        /\ op.pc = "idle" /\ nextId <= MaxSnapshots
        /\ UNCHANGED disk /\ UNCHANGED world /\ Prepare(f, "protect", FALSE)
    BY <1>18 DEF BeginProtect
  <2>3. folders'[f] # "None" /\ \A g \in Folders \ {f} : folders'[g] = folders[g]
    BY <2>1, <2>2 DEF Registry
  <2>4. QED
    BY <1>1, <2>2, <2>3, PrepareKeeps
<1>19. ASSUME NEW f \in Folders, NEW k \in {"manual", "daemon"}, BeginCapture(f, k)
       PROVE  Inductive'
  <2>1. /\ folders' = folders /\ folders[f] # "None"
        /\ op.pc = "idle" /\ nextId <= MaxSnapshots
        /\ UNCHANGED disk /\ UNCHANGED world
        /\ Prepare(f, k, folders[f] = "Paused")
    BY <1>19 DEF BeginCapture, memory
  <2>2. QED
    BY <1>1, <2>1, PrepareKeeps
<1>20. ASSUME NEW f \in Folders, NEW s \in {"Active", "Paused"}, SetPaused(f, s)
       PROVE  Inductive'
  <2>1. folders \in Registry
    BY DEF Inductive, TypeOK
  <2>2. \A g \in Folders : folders'[g] = "None" <=> folders[g] = "None"
    BY <1>20, <2>1 DEF SetPaused, Registry
  <2>3. QED
    BY <1>1, <1>20, <2>2, SettingsKeep DEF SetPaused, world
<1>21. ASSUME NEW p \in Policies, SetPolicy(p) PROVE Inductive'
  BY <1>1, <1>21, SettingsKeep DEF SetPolicy, world
<1>22. CASE BeginCleanup
  BY <1>1, <1>22, BeginCleanupKeeps
<1>23. CASE RequestCancel
  BY <1>1, <1>23, Elsewhere DEF RequestCancel, disk, memory, world, Stored
<1>24. CASE EditOpenFile
  BY <1>1, <1>24, EditKeeps
<1>25. CASE RecordUnsaved
  BY <1>1, <1>25, RecordUnsavedKeeps
<1>26. CASE IOFailure
  BY <1>1, <1>2, <1>26, FailKeeps DEF IOFailure
<1>27. CASE Crash \/ Reopen
  BY <1>1, <1>27, CrashKeeps
<1>28. ASSUME NEW o \in Objects, BitRot(o) PROVE Inductive'
  <2>1. objects \in [Objects -> {"absent", "good", "damaged"}]
    BY DEF Inductive, TypeOK
  <2>2. Stored' = Stored
    BY <1>28, <2>1 DEF BitRot, Stored
  <2>3. QED
    BY <1>1, <1>28, <2>2, Elsewhere DEF BitRot, memory
<1>29. ASSUME NEW m \in manifests, BreakManifest(m) PROVE Inductive'
  BY <1>1, <1>29, Elsewhere DEF BreakManifest, memory, Stored
<1>30. CASE ForeignFileAppears \/ ForeignFileRemoved
  BY <1>1, <1>30, Elsewhere
  DEF ForeignFileAppears, ForeignFileRemoved, memory, world, Stored
<1>31. CASE ClockSetBack
  BY <1>1, <1>31, Elsewhere DEF ClockSetBack, disk, memory, Stored
<1>32. CASE UNCHANGED vars
  BY <1>1, <1>32, Elsewhere DEF vars, disk, memory, world, Stored
<1>33. QED
  BY <1>3, <1>4, <1>5, <1>6, <1>7, <1>8, <1>9, <1>10, <1>11, <1>12, <1>13,
     <1>14, <1>15, <1>16, <1>17, <1>18, <1>19, <1>20, <1>21, <1>22, <1>23,
     <1>24, <1>25, <1>26, <1>27, <1>28, <1>29, <1>30, <1>31, <1>32
  DEF Next, Engine, User, Daemon, World

(* The inductive invariant holds in every behaviour.                       *)
THEOREM InductiveHolds == Spec => []Inductive
<1>1. Init => Inductive
  BY InductiveInit
<1>2. Inductive /\ [Next]_vars => Inductive'
  BY InductiveStep
<1>3. QED
  BY <1>1, <1>2, PTL DEF Spec

(* No interleaving of capture, retention, cleanup, cancellation, failure   *)
(* and crash leaves a published restore point without one of its objects.  *)
THEOREM RestorePointsBacked == Spec => []PointsBacked
<1>1. Inductive => PointsBacked
  BY DEF Inductive
<1>2. QED
  BY <1>1, InductiveHolds, PTL

(* folders.json never calls a folder protected that has no restore point.  *)
THEOREM ProtectionIsReal == Spec => []ProtectedHasPoint
<1>1. Inductive => ProtectedHasPoint
  BY DEF Inductive
<1>2. QED
  BY <1>1, InductiveHolds, PTL
-----------------------------------------------------------------------------
(* The budget.                                                             *)

(* Removing objects never makes the directory larger.                      *)
LEMMA SweepShrinks ==
  ASSUME TypeOK, NEW o \in op.todo, SweepObject(o)
  PROVE  ~(StorageBytes' > StorageBytes)
<1>1. o \in Objects /\ strays' = strays /\ strays \in Nat
  BY DEF TypeOK, Operation, SweepObject
<1>2. Stored' = Stored \ {o} /\ Stored \in SUBSET Objects
  BY <1>1, StorageType DEF SweepObject, Stored, TypeOK
<1>3. ObjectBytes' = BytesOf[Stored \ {o}] /\ ObjectBytes = BytesOf[Stored]
  BY <1>2 DEF ObjectBytes
<1>4. BytesOf[Stored] \in Nat /\ BytesOf[Stored \ {o}] \in Nat /\ BytesOf[{o}] \in Nat
  BY <1>1, <1>2, ConstantsAssumption
<1>5. BytesOf[Stored \ {o}] <= BytesOf[Stored]
  <2>1. CASE o \in Stored
    <3>1. BytesOf[(Stored \ {o}) \cup {o}] = BytesOf[Stored \ {o}] + BytesOf[{o}]
      BY <1>1, <1>2, ConstantsAssumption
    <3>2. (Stored \ {o}) \cup {o} = Stored
      BY <2>1
    <3>3. QED
      BY <1>4, <3>1, <3>2
  <2>2. CASE o \notin Stored
    <3>1. Stored \ {o} = Stored
      BY <2>2
    <3>2. QED
      BY <1>4, <3>1
  <2>3. QED
    BY <2>1, <2>2
<1>6. QED
  BY <1>1, <1>3, <1>4, <1>5 DEF StorageBytes

LEMMA BudgetStep ==
  ASSUME Inductive, [Next]_vars
  PROVE  StorageBytes' > StorageBytes => StorageBytes' <= policy.budget
<1>1. /\ TypeOK /\ StorageBytes \in Nat /\ strays \in Nat
      /\ policy.budget \in Nat /\ op \in Operation
  BY StorageType, ConstantsAssumption DEF Inductive, TypeOK
<1>2. CASE UNCHANGED <<objects, strays>>
  BY <1>1, <1>2 DEF StorageBytes, ObjectBytes, Stored
<1>3. ASSUME NEW o \in Objects, StoreChunk(o)
      PROVE  StorageBytes' <= policy.budget
  <2>1. op.stored = StorageBytes /\ Fits(o)
    BY <1>3 DEF Inductive, WalkCounted, StoreChunk, NextChunk, Walking
  <2>2. StorageBytes' = StorageBytes + SizeOf(o)
    <3>1. Stored' = Stored \cup {o} /\ o \notin Stored /\ strays' = strays
      BY <1>1, <1>3 DEF StoreChunk, Stored, TypeOK
    <3>2. ObjectBytes' = ObjectBytes + SizeOf(o)
      BY <3>1, ConstantsAssumption DEF ObjectBytes, SizeOf, Stored
    <3>3. ObjectBytes \in Nat /\ SizeOf(o) \in Nat
      BY <1>1, SizeType, StorageType
    <3>4. QED
      BY <1>1, <3>1, <3>2, <3>3 DEF StorageBytes
  <2>3. QED
    BY <2>1, <2>2 DEF Fits
<1>4. ASSUME NEW o \in op.todo, SweepObject(o)
      PROVE  ~(StorageBytes' > StorageBytes)
  BY <1>1, <1>4, SweepShrinks
<1>5. CASE Crash
  <2>1. Stored' = Stored /\ ObjectBytes' = ObjectBytes
    BY <1>5 DEF Crash, Stored, ObjectBytes
  <2>2. CASE strays' = strays
    BY <1>1, <2>1, <2>2 DEF StorageBytes
  <2>3. ASSUME NEW o \in Staging, strays' = strays + SizeOf(o)
        PROVE  StorageBytes' <= policy.budget
    <3>1. op.stored = StorageBytes /\ Fits(o)
      BY DEF Inductive, WalkCounted, Staging
    <3>2. o \in Objects
      BY <1>1, ConstantsAssumption DEF Staging, Readable, Chunks, Operation
    <3>3. ObjectBytes \in Nat /\ SizeOf(o) \in Nat
      BY <1>1, <3>2, SizeType, StorageType
    <3>4. StorageBytes' = StorageBytes + SizeOf(o)
      BY <1>1, <2>1, <2>3, <3>3 DEF StorageBytes
    <3>5. QED
      BY <3>1, <3>4 DEF Fits
  <2>4. QED
    BY <1>5, <2>2, <2>3 DEF Crash
<1>6. ASSUME NEW o \in Objects, BitRot(o) PROVE ~(StorageBytes' > StorageBytes)
  <2>1. Stored' = Stored /\ strays' = strays
    BY <1>1, <1>6 DEF BitRot, Stored, TypeOK
  <2>2. QED
    BY <1>1, <2>1 DEF StorageBytes, ObjectBytes
<1>7. QED
  BY <1>2, <1>3, <1>4, <1>5, <1>6
  DEF Next, Engine, User, Daemon, World, vars, disk, OpenFile, SkipPath,
      ReuseChunk, RejectChunk, CloseFile, Publish, ReusePrevious, Record,
      Prune, SweepAfterRetention, EndSweep, Forget, CancelObserved, Unwind,
      BeginProtect, BeginCapture, SetPaused, SetPolicy, BeginCleanup,
      RequestCancel, EditOpenFile, RecordUnsaved, UnwindUnsaved, IOFailure,
      Reopen, BreakManifest, ForeignFileAppears, ForeignFileRemoved,
      ClockSetBack

(* No step makes the object directory outgrow the budget in force.         *)
THEOREM BudgetHolds == Spec => WithinBudget
<1>1. Inductive /\ [Next]_vars =>
        [StorageBytes' > StorageBytes => StorageBytes' <= policy.budget]_vars
  BY BudgetStep
<1>2. QED
  BY <1>1, InductiveHolds, PTL DEF Spec, WithinBudget
-----------------------------------------------------------------------------
(* The repository implements RestorePoints.  Under the invariant every     *)
(* published manifest is a restore point of the abstract specification.    *)

Visible == {Face(m) : m \in {n \in manifests : n.refs \subseteq Stored}}

Registered == {f \in Folders : diskFolders[f] # "None"}

LEMMA VisibleAll == ASSUME PointsBacked PROVE Visible = {Face(m) : m \in manifests}
BY DEF PointsBacked, Visible

LEMMA RegisteredPoints ==
  ASSUME PointsBacked, ProtectedHasPoint
  PROVE  \A f \in Registered : \E p \in Visible : p.folder = f
<1>1. Visible = {Face(m) : m \in manifests}
  BY VisibleAll
<1>2. ASSUME NEW f \in Registered PROVE \E p \in Visible : p.folder = f
  <2>1. PICK m \in manifests : m.folder = f
    BY <1>2 DEF Registered, ProtectedHasPoint, HasPoint
  <2>2. Face(m) \in Visible /\ Face(m).folder = f
    BY <1>1, <2>1 DEF Face
  <2>3. QED
    BY <2>2
<1>3. QED
  BY <1>2

(* Only two steps change the set of manifests.                             *)
LEMMA WhoTouchesManifests ==
  ASSUME [Next]_vars, manifests' # manifests
  PROVE  (Publish /\ diskFolders' = diskFolders)
         \/ \E m \in op.victims : Forget(m) /\ diskFolders' = diskFolders
BY DEF Next, Engine, User, Daemon, World, vars, disk, OpenFile, SkipPath,
       ReuseChunk, StoreChunk, RejectChunk, CloseFile, Publish, ReusePrevious,
       Record, Prune, SweepAfterRetention, EndSweep, SweepObject, Forget,
       CancelObserved, Unwind, BeginProtect, BeginCapture, SetPaused,
       SetPolicy, BeginCleanup, RequestCancel, EditOpenFile, RecordUnsaved,
       UnwindUnsaved, IOFailure, Crash, Reopen, BitRot, BreakManifest,
       ForeignFileAppears, ForeignFileRemoved, ClockSetBack

LEMMA PromiseInit == ASSUME Inductive, Init PROVE Promise!Init
<1>1. PointsBacked /\ ProtectedHasPoint /\ manifests \subseteq Manifest
  BY DEF Inductive, TypeOK
<1>2. Visible \subseteq [id : Ids, folder : Folders, entries : Trees]
  BY <1>1 DEF Visible, Face, Manifest
<1>3. Registered \subseteq {f \in Folders : \E p \in Visible : p.folder = f}
  BY <1>1, RegisteredPoints DEF Registered
<1>4. QED
  BY <1>2, <1>3 DEF Promise!Init, Promise!HasPoint, Visible, Registered

LEMMA PromiseStep ==
  ASSUME Inductive, Inductive', [Next]_vars
  PROVE  [Promise!Next]_(Promise!vars)
<1>1. PointsBacked /\ PointsBacked' /\ ProtectedHasPoint'
  BY DEF Inductive
<1>2. Visible = {Face(m) : m \in manifests} /\ Visible' = {Face(m) : m \in manifests'}
  <2>1. Visible = {Face(m) : m \in manifests}
    BY <1>1, VisibleAll
  <2>2. Visible' = {Face(m) : m \in manifests'}
    BY <1>1 DEF PointsBacked, Visible, Face
  <2>3. QED
    BY <2>1, <2>2
<1>3. \A m, n \in manifests : Face(m) = Face(n) => m = n
  BY DEF Inductive, IdsUnique, Face
<1>4. CASE manifests' = manifests
  <2>1. Visible' = Visible
    BY <1>2, <1>4
  <2>2. PICK S \in SUBSET Folders : S = {f \in Folders : diskFolders'[f] # "None"}
    OBVIOUS
  <2>3. ASSUME NEW f \in S PROVE \E p \in Visible : p.folder = f
    <3>1. PICK m \in manifests : m.folder = f
      BY <1>1, <1>4, <2>2, <2>3 DEF ProtectedHasPoint, HasPoint
    <3>2. Face(m) \in Visible /\ Face(m).folder = f
      BY <1>2, <3>1 DEF Face
    <3>3. QED
      BY <3>2
  <2>4. Promise!Register(S)
    BY <2>1, <2>2, <2>3 DEF Promise!Register, Promise!HasPoint, Visible
  <2>5. Promise!Next
    BY <2>2, <2>4 DEF Promise!Next
  <2>6. QED
    BY <2>5
<1>5. CASE Publish /\ diskFolders' = diskFolders
  <2>1. manifests' = manifests \cup {NewManifest}
    BY <1>5 DEF Publish
  <2>2. NewManifest \in Manifest
    BY <1>5, ManifestType DEF Inductive, Publish
  <2>3. Face(NewManifest) \notin Visible
    <3>1. \A m \in manifests : m.id # NewManifest.id
      <4>1. \A m \in manifests : m.id \in Nat /\ m.id < nextId
        BY ConstantsAssumption DEF Inductive, IdsUnique, TypeOK, Manifest, Ids
      <4>2. NewManifest.id = nextId /\ nextId \in Nat
        BY DEF NewManifest, Inductive, TypeOK
      <4>3. QED
        BY <4>1, <4>2
    <3>2. QED
      BY <1>2, <3>1 DEF Face
  <2>4. Visible' = Visible \cup {Face(NewManifest)}
    BY <1>2, <2>1
  <2>5. Face(NewManifest) \in [id : Ids, folder : Folders, entries : Trees]
    BY <2>2 DEF Face, Manifest
  <2>6. Registered' = Registered
    BY <1>5 DEF Registered
  <2>7. PICK p \in [id : Ids, folder : Folders, entries : Trees] :
          p = Face(NewManifest)
    BY <2>5
  <2>8. Promise!Publish(p)
    BY <2>3, <2>4, <2>6, <2>7 DEF Promise!Publish, Visible, Registered
  <2>9. Promise!Next
    BY <2>7, <2>8 DEF Promise!Next
  <2>10. QED
    BY <2>9
<1>6. ASSUME NEW m \in op.victims, Forget(m), diskFolders' = diskFolders
      PROVE  Promise!Next
  <2>1. /\ manifests' = manifests \ {m}
        /\ m \in manifests /\ m.folder = op.folder
        /\ \E n \in manifests \ {m} : n.folder = op.folder
    BY <1>6 DEF Forget, Inductive, RetentionSpares
  <2>2. Face(m) \in Visible /\ Visible' = Visible \ {Face(m)}
    BY <1>2, <1>3, <2>1
  <2>3. \E other \in Visible \ {Face(m)} : other.folder = Face(m).folder
    <3>1. PICK n \in manifests \ {m} : n.folder = op.folder
      BY <2>1
    <3>2. Face(n) \in Visible \ {Face(m)}
      BY <1>2, <1>3, <2>1, <3>1
    <3>3. Face(n).folder = Face(m).folder
      BY <2>1, <3>1 DEF Face
    <3>4. QED
      BY <3>2, <3>3
  <2>4. Face(m) \in [id : Ids, folder : Folders, entries : Trees]
    BY <2>1 DEF Face, Manifest, Inductive, TypeOK
  <2>5. Registered' = Registered
    BY <1>6 DEF Registered
  <2>6. Promise!Forget(Face(m))
    BY <2>2, <2>3, <2>5 DEF Promise!Forget, Visible, Registered
  <2>7. QED
    BY <2>4, <2>6 DEF Promise!Next
<1>7. QED
  BY <1>4, <1>5, <1>6, WhoTouchesManifests

(* The repository, with its chunks, locks, failures and crashes, does only *)
(* what the user was promised of restore points.                           *)
THEOREM RepositoryKeepsPromise == Spec => PointsSpec
<1>1. Inductive /\ Init => Promise!Init
  BY PromiseInit
<1>2. Inductive /\ Inductive' /\ [Next]_vars => [Promise!Next]_(Promise!vars)
  BY PromiseStep
<1>3. QED
  BY <1>1, <1>2, InductiveHolds, PTL DEF Spec, PointsSpec, Promise!Spec
-----------------------------------------------------------------------------
(* A pause persists.                                                       *)

(* Steps of an operation that keep what it is and leave the registry alone *)
LEMMA SameCapture ==
  ASSUME TypeOK, PauseKnown,
         \/ \E p \in Paths : OpenFile(p) \/ SkipPath(p)
         \/ \E o \in Objects : ReuseChunk(o) \/ StoreChunk(o) \/ RejectChunk(o)
         \/ EditOpenFile \/ CloseFile \/ Publish \/ ReusePrevious \/ Prune
         \/ \E m \in op.victims : Forget(m)
         \/ SweepAfterRetention
         \/ \E o \in op.todo : SweepObject(o)
         \/ RequestCancel \/ CancelObserved \/ IOFailure
         \/ UNCHANGED <<op, folders, diskFolders>>
  PROVE  PauseKnown' /\ UNCHANGED <<diskFolders, folders>>
<1>0. op \in Operation
  BY DEF TypeOK
<1>1. UNCHANGED <<diskFolders, folders>>
  BY DEF OpenFile, SkipPath, ReuseChunk, StoreChunk, RejectChunk, EditOpenFile,
         CloseFile, Publish, ReusePrevious, Prune, Forget, SweepAfterRetention,
         SweepObject, RequestCancel, CancelObserved, IOFailure, disk, memory
<1> SUFFICES PauseKnown'
  BY <1>1
<1>2. ASSUME op'.kind = op.kind, op'.folder = op.folder, op'.paused = op.paused,
             op'.pc = "idle" => op.pc = "idle",
             op'.pc \in {"walk", "record"} => op.pc \in {"walk", "record"}
      PROVE  PauseKnown'
  BY <1>1, <1>2 DEF PauseKnown
<1>3. ASSUME NEW p \in Paths, OpenFile(p) \/ SkipPath(p) PROVE PauseKnown'
  BY <1>0, <1>2, <1>3 DEF OpenFile, SkipPath, Operation
<1>4. ASSUME NEW o \in Objects, ReuseChunk(o) \/ StoreChunk(o) PROVE PauseKnown'
  BY <1>0, <1>2, <1>4 DEF ReuseChunk, StoreChunk, NextChunk, Walking, Operation
<1>5. /\ Fail(op).kind = op.kind /\ Fail(op).folder = op.folder
      /\ Fail(op).paused = op.paused /\ Fail(op).pc = "failed"
  BY <1>0 DEF Fail, Operation
<1>6. ASSUME op' = Fail(op) PROVE PauseKnown'
  BY <1>2, <1>5, <1>6
<1>7. CASE EditOpenFile
  BY <1>0, <1>2, <1>7 DEF EditOpenFile, Operation
<1>8. CASE CloseFile
  <2>1. CASE op.torn
    BY <1>6, <1>8, <2>1 DEF CloseFile
  <2>2. CASE ~op.torn
    BY <1>0, <1>2, <1>8, <2>2 DEF CloseFile, Operation
  <2>3. QED
    BY <2>1, <2>2
<1>9. CASE Publish \/ ReusePrevious
  BY <1>0, <1>2, <1>9 DEF Publish, ReusePrevious, WalkDone, Walking, Operation
<1>10. CASE Prune
  <2>1. ASSUME NEW V, op' = [op EXCEPT !.pc = "retain", !.victims = V]
        PROVE  PauseKnown'
    BY <1>0, <1>2, <2>1 DEF Operation
  <2>2. QED
    BY <1>6, <1>10, <2>1 DEF Prune
<1>11. ASSUME NEW m \in op.victims, Forget(m) PROVE PauseKnown'
  BY <1>0, <1>2, <1>11 DEF Forget, Operation
<1>12. CASE SweepAfterRetention
  <2>1. ASSUME NEW S, op' = [op EXCEPT !.pc = "sweep", !.todo = S]
        PROVE  PauseKnown'
    BY <1>0, <1>2, <2>1 DEF Operation
  <2>2. QED
    BY <1>6, <1>12, <2>1 DEF SweepAfterRetention, Sweeping
<1>13. ASSUME NEW o \in op.todo, SweepObject(o) PROVE PauseKnown'
  BY <1>0, <1>2, <1>13 DEF SweepObject, Operation
<1>14. CASE RequestCancel
  BY <1>0, <1>2, <1>14 DEF RequestCancel, Operation
<1>15. QED
  BY <1>2, <1>3, <1>4, <1>6, <1>7, <1>8, <1>9, <1>10, <1>11, <1>12,
     <1>13, <1>14 DEF RejectChunk, CancelObserved, IOFailure

(* Steps that write the registry, or begin or end an operation.            *)
LEMMA RegistryStep ==
  ASSUME TypeOK, PauseKnown,
         \A f \in Folders : diskFolders[f] = "Paused" => diskFolders'[f] = "Paused",
         \A f \in Folders : diskFolders'[f] = "Paused" => folders'[f] = "Paused",
         op'.kind = "none", op'.paused = FALSE, op'.pc \in {"idle", "down"}
  PROVE  PauseKnown' /\ \A f \in Folders :
           ~(diskFolders[f] = "Paused" /\ diskFolders'[f] # "Paused")
BY DEF PauseKnown

LEMMA PauseInit == Init => PauseKnown
<1> SUFFICES ASSUME Init PROVE PauseKnown
  OBVIOUS
<1>1. op.kind = "none" /\ op.paused = FALSE /\ op.pc = "idle"
  BY DEF Init, Idle, NoOp
<1>2. QED
  BY <1>1 DEF Init, PauseKnown

(* The step of the invariant and the step of the property together.        *)
LEMMA PauseStep ==
  ASSUME TypeOK, PauseKnown, [Next]_vars
  PROVE  /\ PauseKnown'
         /\ \A f \in Folders :
              diskFolders[f] = "Paused" /\ diskFolders'[f] # "Paused"
              => op.pc = "idle" /\ folders[f] = "Paused" /\ folders'[f] = "Active"
<1> DEFINE Goal ==
      /\ PauseKnown'
      /\ \A f \in Folders :
           diskFolders[f] = "Paused" /\ diskFolders'[f] # "Paused"
           => op.pc = "idle" /\ folders[f] = "Paused" /\ folders'[f] = "Active"
<1> SUFFICES Goal
  OBVIOUS
<1>0. op \in Operation /\ folders \in Registry /\ diskFolders \in Registry
  BY DEF TypeOK
<1>1. Idle.kind = "none" /\ Idle.paused = FALSE /\ Idle.pc = "idle"
  BY DEF Idle, NoOp
<1>2. ASSUME UNCHANGED diskFolders, PauseKnown' PROVE Goal
  BY <1>2
<1>3. ASSUME NEW f \in Folders, BeginProtect(f) PROVE Goal
  <2>1. /\ folders[f] = "None" /\ folders' = [folders EXCEPT ![f] = "Active"]
        /\ UNCHANGED diskFolders
    BY <1>3 DEF BeginProtect, disk
  <2>2. /\ op'.kind = "protect" /\ op'.folder = f /\ op'.paused = FALSE
        /\ op'.pc # "idle"
    BY <1>3 DEF BeginProtect, Prepare, NoOp
  <2>3. diskFolders[f] # "Paused" /\ \A g \in Folders \ {f} : folders'[g] = folders[g]
    BY <1>0, <2>1 DEF PauseKnown, Registry
  <2>4. PauseKnown'
    BY <2>1, <2>2, <2>3 DEF PauseKnown
  <2>5. QED
    BY <1>2, <2>1, <2>4
<1>4. ASSUME NEW f \in Folders, NEW k \in {"manual", "daemon"}, BeginCapture(f, k)
      PROVE  Goal
  <2>1. /\ k = "daemon" => folders[f] # "Paused"
        /\ UNCHANGED <<folders, diskFolders>>
        /\ Prepare(f, k, folders[f] = "Paused")
    BY <1>4 DEF BeginCapture, disk, memory
  <2>2. /\ op'.kind = k /\ op'.folder = f /\ op'.paused = (folders[f] = "Paused")
        /\ op'.pc # "idle"
    BY <2>1 DEF Prepare, NoOp
  <2>3. PauseKnown'
    BY <2>1, <2>2 DEF PauseKnown
  <2>4. QED
    BY <1>2, <2>1, <2>3
<1>5. ASSUME NEW f \in Folders, NEW s \in {"Active", "Paused"}, SetPaused(f, s)
      PROVE  Goal
  <2>1. /\ op.pc = "idle" /\ op' = op /\ diskFolders' = folders'
        /\ folders' = [folders EXCEPT ![f] = s] /\ folders[f] # "None"
    BY <1>5 DEF SetPaused
  <2>2. /\ folders'[f] = s /\ \A g \in Folders \ {f} : folders'[g] = folders[g]
    BY <1>0, <2>1 DEF Registry
  <2>3. \A g \in Folders : diskFolders[g] = "Paused" => folders[g] = "Paused"
    BY DEF PauseKnown
  <2>4. op.kind = "none" /\ op.paused = FALSE
    BY <1>0, <2>1 DEF PauseKnown, Operation
  <2>5. QED
    BY <2>1, <2>2, <2>3, <2>4 DEF PauseKnown
<1>6. ASSUME op'.pc \in {"idle", "down"}, op'.kind = "none", op'.paused = FALSE,
             \A f \in Folders : diskFolders[f] = "Paused" => diskFolders'[f] = "Paused",
             \A f \in Folders : diskFolders'[f] = "Paused" => folders'[f] = "Paused"
      PROVE  Goal
  BY <1>6, RegistryStep
<1>7. ASSUME NEW p \in Policies, SetPolicy(p) PROVE Goal
  <2>1. UNCHANGED <<diskFolders, folders, op>>
    BY <1>7 DEF SetPolicy
  <2>2. QED
    BY <1>2, <2>1 DEF PauseKnown
<1>8. CASE BeginCleanup
  <2>1. UNCHANGED <<diskFolders, folders>> /\ op' = Sweeping([Idle EXCEPT !.kind = "cleanup"])
    BY <1>8 DEF BeginCleanup, disk, memory
  <2>2. op'.kind = "cleanup" /\ op'.paused = FALSE
        /\ op'.pc \in {"sweep", "failed"}
    BY <2>1 DEF Sweeping, Fail, Idle, NoOp
  <2>3. PauseKnown'
    BY <2>1, <2>2 DEF PauseKnown
  <2>4. QED
    BY <1>2, <2>1, <2>3
<1>9. CASE EndSweep
  BY <1>1, <1>6, <1>9 DEF EndSweep, disk, memory, PauseKnown
<1>10. CASE Crash \/ Reopen
  BY <1>1, <1>6, <1>10 DEF Crash, Reopen, NoOp, disk, memory, PauseKnown
<1>11. \A f \in Folders : Recorded[f] =
         IF f = op.folder THEN (IF op.paused THEN "Paused" ELSE "Active") ELSE folders[f]
  BY <1>0 DEF Recorded, Registry
<1>12. CASE Record
  <2>1. /\ folders' = Recorded /\ diskFolders' = Recorded /\ op.pc = "record"
        /\ op' = IF op.fresh /\ policy.prune THEN [op EXCEPT !.pc = "prune"] ELSE Idle
    BY <1>12 DEF Record
  <2>2. /\ op.kind \in {"protect", "daemon", "manual"}
        /\ \A f \in Folders : diskFolders[f] = "Paused" =>
             folders[f] = "Paused" /\ (f = op.folder => op.paused)
    BY <2>1 DEF PauseKnown
  <2>3. \A f \in Folders : diskFolders[f] = "Paused" => Recorded[f] = "Paused"
    BY <1>11, <2>2
  <2>4. CASE op' = Idle
    BY <1>1, <1>6, <2>1, <2>3, <2>4
  <2>5. CASE op' = [op EXCEPT !.pc = "prune"]
    <3>1. /\ op'.kind = op.kind /\ op'.folder = op.folder
          /\ op'.paused = op.paused /\ op'.pc = "prune"
      BY <1>0, <2>5 DEF Operation
    <3>2. op.folder \in Folders
      BY <1>0 DEF Operation
    <3>3. PauseKnown'
      BY <1>11, <2>1, <3>1, <3>2 DEF PauseKnown
    <3>4. QED
      BY <2>1, <2>3, <3>3
  <2>6. QED
    BY <2>1, <2>4, <2>5
<1>13. CASE RecordUnsaved
  <2>1. /\ folders' = Recorded /\ diskFolders' = diskFolders /\ op.pc = "record"
        /\ op' = Fail(op)
    BY <1>13 DEF RecordUnsaved, disk
  <2>2. /\ op'.kind = op.kind /\ op'.folder = op.folder
        /\ op'.paused = op.paused /\ op'.pc = "failed"
    BY <1>0, <2>1 DEF Fail, Operation
  <2>3. \A f \in Folders : diskFolders[f] = "Paused" => Recorded[f] = "Paused"
    BY <1>11, <2>1 DEF PauseKnown
  <2>4. PauseKnown'
    BY <2>1, <2>2, <2>3 DEF PauseKnown
  <2>5. QED
    BY <1>2, <2>1, <2>4
<1>14. CASE Unwind \/ UnwindUnsaved
  <2>1. /\ folders' = AfterFailure /\ op' = Idle
        /\ \/ diskFolders' = diskFolders
           \/ /\ diskFolders' = AfterFailure /\ op.kind \in {"protect", "daemon"}
    BY <1>14 DEF Unwind, UnwindUnsaved, disk
  <2>2. \A f \in Folders : AfterFailure[f] =
          IF op.kind = "protect" /\ f = op.folder THEN "None"
          ELSE IF op.kind = "daemon" /\ f = op.folder THEN "Error"
          ELSE folders[f]
    <3>1. CASE op.kind = "protect"
      BY <1>0, <3>1 DEF AfterFailure, Registry
    <3>2. CASE op.kind = "daemon"
      BY <1>0, <3>2 DEF AfterFailure, Registry
    <3>3. QED
      BY <3>1, <3>2 DEF AfterFailure
  <2>3. \A f \in Folders : diskFolders[f] = "Paused" => AfterFailure[f] = "Paused"
    BY <2>2 DEF PauseKnown
  <2>4. QED
    BY <1>1, <1>6, <2>1, <2>3
<1>15. ASSUME UNCHANGED <<diskFolders, folders, op>> PROVE Goal
  BY <1>15 DEF PauseKnown
<1>16. CASE \/ \E o \in Objects : BitRot(o)
            \/ \E m \in manifests : BreakManifest(m)
            \/ ForeignFileAppears \/ ForeignFileRemoved \/ ClockSetBack
            \/ UNCHANGED vars
  BY <1>15, <1>16 DEF BitRot, BreakManifest, ForeignFileAppears,
     ForeignFileRemoved, ClockSetBack, disk, memory, vars
<1>17. ASSUME PauseKnown' /\ UNCHANGED <<diskFolders, folders>> PROVE Goal
  BY <1>2, <1>17
<1>18. QED
  BY <1>3, <1>4, <1>5, <1>7, <1>8, <1>9, <1>10, <1>12, <1>13, <1>14, <1>16,
     <1>17, SameCapture
  DEF Next, Engine, User, Daemon, World

(* Only the user's own command takes a folder out of pause.                *)
THEOREM PauseIsKept == Spec => PausePersists
<1>1. Init => PauseKnown
  BY PauseInit
<1>2. TypeOK /\ PauseKnown /\ [Next]_vars => PauseKnown'
  BY PauseStep
<1>3. TypeOK /\ PauseKnown /\ [Next]_vars =>
        [\A f \in Folders :
           diskFolders[f] = "Paused" /\ diskFolders'[f] # "Paused"
           => op.pc = "idle" /\ folders[f] = "Paused" /\ folders'[f] = "Active"]_vars
  BY PauseStep
<1>4. QED
  BY <1>1, <1>2, <1>3, TypeCorrect, PTL DEF Spec, PausePersists
-----------------------------------------------------------------------------
(* What a capture returns was verified, and a cleanup is complete.         *)

(* The list of a cleanup misses no object that no restore point needs.     *)
SweepCovers == op.pc = "sweep" => Stored \ Referenced \subseteq op.todo

(* A point that is not an older release's names the chunks of its files.   *)
PointsWhole ==
  \A m \in manifests : m.legacy \/ m.refs = TreeChunks(m.entries)

Closing == SweepCovers /\ PointsWhole /\ ResultVerified

(* A step that leaves what a cleanup and a finished capture speak of.      *)
Stays ==
  /\ op'.pc = op.pc /\ op'.folder = op.folder /\ op'.entries = op.entries
  /\ op'.verified = op.verified /\ op'.todo = op.todo
  /\ UNCHANGED manifests /\ Stored' = Stored

LEMMA WalkLeads ==
  ASSUME TypeOK,
         \/ \E p \in Paths : OpenFile(p) \/ SkipPath(p)
         \/ \E o \in Objects : ReuseChunk(o) \/ StoreChunk(o) \/ RejectChunk(o)
         \/ EditOpenFile \/ CloseFile \/ CancelObserved \/ IOFailure
         \/ Record \/ RecordUnsaved \/ Unwind \/ UnwindUnsaved
         \/ Prune \/ \E m \in op.victims : Forget(m)
         \/ EndSweep \/ Crash \/ Reopen
         \/ \E f \in Folders : BeginProtect(f) \/ \E k \in {"manual", "daemon"} : BeginCapture(f, k)
  PROVE  /\ op'.pc \notin {"record", "sweep"}
         /\ op.pc = "sweep" /\ op'.pc = "idle" => EndSweep
<1>0. op \in Operation /\ Fail(op).pc = "failed" /\ Idle.pc = "idle"
  BY FailPc, IdlePc DEF TypeOK
<1>1. CASE \E p \in Paths : OpenFile(p) \/ SkipPath(p)
  BY <1>0, <1>1 DEF OpenFile, SkipPath, Walking, Operation
<1>2. CASE \E o \in Objects : ReuseChunk(o) \/ StoreChunk(o) \/ RejectChunk(o)
  BY <1>0, <1>2 DEF ReuseChunk, StoreChunk, RejectChunk, NextChunk, Walking, Operation
<1>3. CASE EditOpenFile
  BY <1>0, <1>3 DEF EditOpenFile, Operation
<1>4. CASE CloseFile
  <2>1. CASE op.torn
    BY <1>0, <1>4, <2>1 DEF CloseFile
  <2>2. CASE ~op.torn
    BY <1>0, <1>4, <2>2 DEF CloseFile, Walking, Operation
  <2>. QED BY <2>1, <2>2
<1>5. CASE CancelObserved \/ IOFailure \/ RecordUnsaved \/ Unwind \/ UnwindUnsaved
  BY <1>0, <1>5 DEF CancelObserved, IOFailure, RecordUnsaved, Unwind, UnwindUnsaved
<1>6. CASE Record
  <2>1. [op EXCEPT !.pc = "prune"].pc = "prune"
    BY <1>0 DEF Operation
  <2>. QED BY <1>0, <1>6, <2>1 DEF Record
<1>7. CASE Prune
  <2>1. \A V : [op EXCEPT !.pc = "retain", !.victims = V].pc = "retain"
    BY <1>0 DEF Operation
  <2>. QED BY <1>0, <1>7, <2>1 DEF Prune
<1>8. CASE \E m \in op.victims : Forget(m)
  BY <1>0, <1>8 DEF Forget, Operation
<1>9. CASE EndSweep
  BY <1>0, <1>9 DEF EndSweep
<1>10. CASE Crash \/ Reopen
  BY <1>0, <1>10, NoOpPc DEF Crash, Reopen
<1>11. ASSUME NEW f \in Folders, NEW k,
              Prepare(f, k, FALSE) \/ Prepare(f, k, folders[f] = "Paused")
       PROVE  op'.pc \in {"failed", "walk"}
  BY <1>11 DEF Prepare, NoOp
<1>12. CASE \E f \in Folders :
               BeginProtect(f) \/ \E k \in {"manual", "daemon"} : BeginCapture(f, k)
  BY <1>11, <1>12 DEF BeginProtect, BeginCapture
<1>. QED
  BY <1>1, <1>2, <1>3, <1>4, <1>5, <1>6, <1>7, <1>8, <1>9, <1>10, <1>12

LEMMA RestStays ==
  ASSUME TypeOK,
         \/ \E f \in Folders, s \in {"Active", "Paused"} : SetPaused(f, s)
         \/ \E p \in Policies : SetPolicy(p)
         \/ RequestCancel
         \/ \E o \in Objects : BitRot(o)
         \/ \E m \in manifests : BreakManifest(m)
         \/ ForeignFileAppears \/ ForeignFileRemoved \/ ClockSetBack
         \/ UNCHANGED vars
  PROVE  Stays
<1>0. op \in Operation /\ objects \in [Objects -> {"absent", "good", "damaged"}]
  BY DEF TypeOK
<1>1. CASE RequestCancel
  BY <1>0, <1>1 DEF RequestCancel, disk, Stays, Stored, Operation
<1>2. CASE \E o \in Objects : BitRot(o)
  <2>1. PICK o \in Objects : BitRot(o)
    BY <1>2
  <2>2. \A x \in Objects : objects'[x] # "absent" <=> objects[x] # "absent"
    BY <1>0, <2>1 DEF BitRot
  <2>. QED BY <2>1, <2>2 DEF BitRot, Stays, Stored
<1>3. CASE \E m \in manifests : BreakManifest(m)
  BY <1>3 DEF BreakManifest, Stays, Stored
<1>4. CASE ~RequestCancel /\ UNCHANGED <<op, objects, manifests>>
  BY <1>4 DEF Stays, Stored
<1>. QED
  BY <1>1, <1>2, <1>3, <1>4 DEF SetPaused, SetPolicy, ForeignFileAppears,
     ForeignFileRemoved, ClockSetBack, vars, disk
LEMMA SweepCoversStep ==
  ASSUME TypeOK, SweepCovers, [Next]_vars
  PROVE  /\ SweepCovers'
         /\ op.pc = "sweep" /\ op'.pc = "idle" => Stored' \subseteq Referenced'
<1>0. op \in Operation /\ Idle \in Operation /\ Fail(op).pc = "failed"
  BY FailPc, IdleType DEF TypeOK
<1>1. CASE op'.pc \notin {"record", "sweep"} /\ (op.pc = "sweep" /\ op'.pc = "idle" => EndSweep)
  BY <1>1 DEF SweepCovers, EndSweep, disk, Stored, Referenced
<1>2. CASE Stays
  BY <1>2 DEF Stays, SweepCovers, Referenced
<1>3. CASE \E o \in op.todo : SweepObject(o)
  <2>1. PICK o \in op.todo : SweepObject(o)
    BY <1>3
  <2>2. op'.pc = "sweep" /\ op'.todo = op.todo \ {o} /\ op.pc = "sweep" /\ manifests' = manifests
    BY <1>0, <2>1 DEF SweepObject, Operation
  <2>3. Stored' \subseteq Stored \ {o}
    BY <2>1 DEF SweepObject, Stored, TypeOK
  <2>. QED BY <2>2, <2>3 DEF SweepCovers, Referenced
<1>4. CASE SweepAfterRetention \/ BeginCleanup
  <2>1. PICK x \in Operation : op' = Sweeping(x) /\ UNCHANGED disk /\ op.pc # "sweep"
    <3>1. [Idle EXCEPT !.kind = "cleanup"] \in Operation
      BY <1>0 DEF Operation
    <3>. QED BY <1>0, <1>4, <3>1 DEF SweepAfterRetention, BeginCleanup
  <2>2. op'.pc = "failed" \/ (op'.pc = "sweep" /\ op'.todo = Stored \ Referenced)
    BY <2>1, SweepingList, FailPc
  <2>. QED BY <2>1, <2>2 DEF SweepCovers, disk, Stored, Referenced
<1>5. CASE Publish \/ ReusePrevious
  BY <1>0, <1>5 DEF Publish, ReusePrevious, WalkDone, Walking, SweepCovers, Operation
<1>. QED
  BY <1>1, <1>2, <1>3, <1>4, <1>5, WalkLeads, RestStays
  DEF Next, Engine, User, Daemon, World

LEMMA PointsWholeStep ==
  ASSUME PointsWhole, [Next]_vars PROVE PointsWhole'
<1>1. CASE manifests' = manifests
  BY <1>1 DEF PointsWhole, TreeChunks, Chunks
<1>2. CASE Publish
  <2>1. manifests' = manifests \cup {NewManifest} /\ NewManifest.refs = TreeChunks(NewManifest.entries)
    BY <1>2 DEF Publish, NewManifest
  <2>. QED BY <2>1 DEF PointsWhole, TreeChunks, Chunks
<1>3. CASE \E m \in op.victims : Forget(m)
  BY <1>3 DEF Forget, PointsWhole, TreeChunks, Chunks
<1>. QED BY <1>1, <1>2, <1>3, WhoTouchesManifests

LEMMA ResultVerifiedStep ==
  ASSUME Inductive, PointsWhole, ResultVerified, [Next]_vars PROVE ResultVerified'
<1>0. TypeOK /\ op \in Operation
  BY DEF Inductive, TypeOK
<1>1. CASE op'.pc # "record"
  BY <1>1 DEF ResultVerified
<1>2. CASE Stays
  BY <1>2 DEF Stays, ResultVerified
<1>3. CASE Publish
  <2>1. /\ op.pc = "walk" /\ NewManifest \in manifests' /\ op'.folder = op.folder
        /\ op'.entries = op.entries /\ op'.verified = op.verified
    BY <1>0, <1>3 DEF Publish, WalkDone, Walking, Operation
  <2>2. TreeChunks(op.entries) \subseteq op.verified
    BY <2>1 DEF Inductive, WalkStored
  <2>3. /\ NewManifest.folder = op.folder /\ NewManifest.entries = op.entries
        /\ NewManifest.refs = TreeChunks(op.entries)
    BY DEF NewManifest
  <2>. QED BY <2>1, <2>2, <2>3 DEF ResultVerified
<1>4. CASE ReusePrevious
  <2>1. /\ op.pc = "walk" /\ manifests' = manifests /\ op'.folder = op.folder
        /\ op'.entries = op.entries /\ op'.verified = op.verified /\ Unchanged
    BY <1>0, <1>4 DEF ReusePrevious, WalkDone, Walking, Operation, disk
  <2>2. PICK m \in op.prev : m.entries = op.entries
    BY <2>1 DEF Unchanged
  <2>3. /\ TreeChunks(op.entries) \subseteq op.verified
        /\ m \in manifests /\ m.folder = op.folder
    BY <2>1 DEF Inductive, WalkStored
  <2>4. m.legacy \/ m.refs = TreeChunks(op.entries)
    BY <2>2, <2>3 DEF PointsWhole
  <2>. QED BY <2>1, <2>2, <2>3, <2>4 DEF ResultVerified
<1>5. CASE (\E o \in op.todo : SweepObject(o)) \/ SweepAfterRetention \/ BeginCleanup
  <2>1. \A x \in Operation : Sweeping(x).pc \in {"sweep", "failed"}
    BY FailPc, SweepingList
  <2>2. [Idle EXCEPT !.kind = "cleanup"] \in Operation
    BY IdleType DEF Operation
  <2>3. \A o \in op.todo : SweepObject(o) => op'.pc = "sweep"
    BY <1>0 DEF SweepObject, Operation
  <2>4. op'.pc # "record"
    BY <1>0, <1>5, <2>1, <2>2, <2>3 DEF SweepAfterRetention, BeginCleanup
  <2>. QED BY <1>1, <2>4
<1>. QED
  BY <1>0, <1>1, <1>2, <1>3, <1>4, <1>5, WalkLeads, RestStays
  DEF Next, Engine, User, Daemon, World

LEMMA ClosingInit == Init => Closing
<1> SUFFICES ASSUME Init PROVE Closing
  OBVIOUS
<1>1. op.pc = "idle" /\ \A m \in manifests : m.legacy
  BY IdlePc DEF Init, LegacyPoint
<1>. QED BY <1>1 DEF Closing, SweepCovers, PointsWhole, ResultVerified

(* What a capture returns was verified by that capture, object by object,  *)
(* unless it reuses a point of an older release.                           *)
THEOREM CaptureVerifies == Spec => []ResultVerified
<1>1. Inductive /\ Closing /\ [Next]_vars => Closing'
  BY SweepCoversStep, PointsWholeStep, ResultVerifiedStep DEF Closing, Inductive
<1>2. Closing => ResultVerified
  BY DEF Closing
<1>. QED BY <1>1, <1>2, ClosingInit, InductiveHolds, PTL DEF Spec

(* A cleanup that reports success leaves no object behind that no restore  *)
(* point needs, whatever rots, breaks or is asked for while it runs.       *)
THEOREM CleanupIsComplete == Spec => CleanupComplete
<1>1. SweepCovers /\ TypeOK /\ [Next]_vars => SweepCovers'
  BY SweepCoversStep
<1>2. SweepCovers /\ TypeOK /\ [Next]_vars =>
        [op.pc = "sweep" /\ op'.pc = "idle" => Stored' \subseteq Referenced']_vars
  BY SweepCoversStep
<1>3. Init => SweepCovers
  BY ClosingInit DEF Closing
<1>. QED BY <1>1, <1>2, <1>3, TypeCorrect, PTL DEF Spec, CleanupComplete
-----------------------------------------------------------------------------
(* What retention forgets and what it keeps.                               *)

(* The points retention will leave in the folder it works on.              *)
Spared == PointsOf(op.folder) \ op.victims

(* Retention leaves what the policy keeps, or everything if that is less.  *)
KeepsEnough ==
  op.pc = "retain" =>
    /\ Cardinality(Spared) <= policy.keep
    /\ op.victims # {} => Cardinality(Spared) = policy.keep

(* With a clock that runs forward the order of the ids is that of the      *)
(* dates, and every victim is older than a point that is spared.           *)
DatesOrdered ==
  /\ \A m \in manifests : m.created < clock
  /\ \A m, n \in manifests : m.id < n.id => m.created < n.created
  /\ op.pc = "retain" =>
       \A m \in op.victims : \E n \in Spared : n.id > m.id

(* Only listing the victims and forgetting one touches them.               *)
LEMMA VictimsSame ==
  ASSUME TypeOK, [Next]_vars, ~Prune, ~ \E m \in op.victims : Forget(m)
  PROVE  \/ op'.pc # "retain"
         \/ /\ op'.pc = op.pc /\ op'.victims = op.victims
            /\ op'.folder = op.folder /\ UNCHANGED <<manifests, policy>>
<1>0. op \in Operation /\ Fail(op).pc = "failed" /\ Idle \in Operation /\ Idle.pc = "idle"
  BY FailPc, IdlePc, IdleType DEF TypeOK
<1>1. CASE \E p \in Paths : OpenFile(p) \/ SkipPath(p)
  BY <1>0, <1>1 DEF OpenFile, SkipPath, Walking, Operation
<1>2. CASE \E o \in Objects : ReuseChunk(o) \/ StoreChunk(o) \/ RejectChunk(o)
  BY <1>0, <1>2 DEF ReuseChunk, StoreChunk, RejectChunk, NextChunk, Walking, Operation
<1>3. CASE EditOpenFile
  BY <1>0, <1>3 DEF EditOpenFile, Operation
<1>4. CASE CloseFile
  <2>1. CASE op.torn
    BY <1>0, <1>4, <2>1 DEF CloseFile
  <2>2. CASE ~op.torn
    BY <1>0, <1>4, <2>2 DEF CloseFile, Walking, Operation
  <2>. QED BY <2>1, <2>2
<1>5. CASE CancelObserved \/ IOFailure \/ RecordUnsaved \/ Unwind \/ UnwindUnsaved \/ EndSweep
  BY <1>0, <1>5 DEF CancelObserved, IOFailure, RecordUnsaved, Unwind, UnwindUnsaved, EndSweep
<1>6. CASE Record
  <2>1. [op EXCEPT !.pc = "prune"].pc = "prune"
    BY <1>0 DEF Operation
  <2>. QED BY <1>0, <1>6, <2>1 DEF Record
<1>7. CASE Publish \/ ReusePrevious
  BY <1>0, <1>7 DEF Publish, ReusePrevious, Operation
<1>8. CASE (\E o \in op.todo : SweepObject(o)) \/ SweepAfterRetention \/ BeginCleanup
  <2>1. \A x \in Operation : Sweeping(x).pc \in {"sweep", "failed"}
    BY FailPc, SweepingList
  <2>2. [Idle EXCEPT !.kind = "cleanup"] \in Operation
    BY <1>0 DEF Operation
  <2>3. \A o \in op.todo : SweepObject(o) => op'.pc = "sweep"
    BY <1>0 DEF SweepObject, Operation
  <2>. QED BY <1>0, <1>8, <2>1, <2>2, <2>3 DEF SweepAfterRetention, BeginCleanup
<1>9. CASE Crash \/ Reopen
  BY <1>0, <1>9, NoOpPc DEF Crash, Reopen
<1>10. ASSUME NEW f \in Folders, NEW k,
              Prepare(f, k, FALSE) \/ Prepare(f, k, folders[f] = "Paused")
       PROVE  op'.pc \in {"failed", "walk"}
  BY <1>10 DEF Prepare, NoOp
<1>11. CASE \E f \in Folders :
               BeginProtect(f) \/ BeginCapture(f, "manual") \/ BeginCapture(f, "daemon")
  BY <1>10, <1>11 DEF BeginProtect, BeginCapture
<1>12. CASE RequestCancel
  BY <1>0, <1>12 DEF RequestCancel, disk, memory, Operation
<1>13. CASE \E p \in Policies : SetPolicy(p)
  BY <1>0, <1>13 DEF SetPolicy
<1>14. CASE \/ \E f \in Folders, s \in {"Active", "Paused"} : SetPaused(f, s)
            \/ \E o \in Objects : BitRot(o)
            \/ \E m \in manifests : BreakManifest(m)
            \/ ForeignFileAppears \/ ForeignFileRemoved \/ ClockSetBack
            \/ UNCHANGED vars
  BY <1>14 DEF SetPaused, BitRot, BreakManifest, ForeignFileAppears,
     ForeignFileRemoved, ClockSetBack, vars, disk, memory
<1>. QED
  BY <1>1, <1>2, <1>3, <1>4, <1>5, <1>6, <1>7, <1>8, <1>9, <1>11, <1>12, <1>13, <1>14
  DEF Next, Engine, User, Daemon, World

(* What a retention run that passes the check of the manifests lists.      *)
LEMMA PruneLists ==
  ASSUME Inductive, Prune
  PROVE  \/ op'.pc = "failed"
         \/ /\ op'.pc = "retain" /\ op'.folder = op.folder
            /\ UNCHANGED <<manifests, policy, clock>>
            /\ \E kept \in Retained(op.folder, policy.keep) :
                 /\ kept # {} /\ kept \subseteq PointsOf(op.folder)
                 /\ op'.victims = PointsOf(op.folder) \ kept
            /\ Listed(op.folder) = PointsOf(op.folder)
            /\ IsFiniteSet(PointsOf(op.folder))
<1>0. op \in Operation /\ policy.keep \in Nat \ {0} /\ Fail(op).pc = "failed"
  BY ConstantsAssumption, FailPc DEF Inductive, TypeOK
<1>1. op.pc = "prune" /\ UNCHANGED <<disk, memory, world>>
  BY DEF Prune
<1>2. ASSUME ~Unsound, NEW kept \in Retained(op.folder, policy.keep),
             op' = [op EXCEPT !.pc = "retain", !.victims = Listed(op.folder) \ kept]
      PROVE  /\ kept # {} /\ kept \subseteq PointsOf(op.folder)
             /\ Listed(op.folder) = PointsOf(op.folder) /\ IsFiniteSet(PointsOf(op.folder))
             /\ op'.pc = "retain" /\ op'.folder = op.folder
             /\ op'.victims = PointsOf(op.folder) \ kept
  <2>1. Listed(op.folder) = PointsOf(op.folder)
    BY <1>2 DEF Listed, Unsound, PointsOf
  <2>2. IsFiniteSet(manifests) /\ HasPoint(op.folder)
    BY <1>1 DEF Inductive, IdsUnique, RetentionSpares
  <2>3. IsFiniteSet(PointsOf(op.folder)) /\ PointsOf(op.folder) # {}
    BY <2>2, FS_Subset DEF HasPoint, PointsOf
  <2>4. kept # {} /\ kept \subseteq PointsOf(op.folder)
    BY <1>0, <1>2, <2>1, <2>3, RetainedNonempty DEF Retained
  <2>. QED BY <1>0, <1>2, <2>1, <2>3, <2>4 DEF Operation
<1>. QED BY <1>0, <1>1, <1>2 DEF Prune, disk, memory, world

(* Forgetting a victim spares the same points as before.                   *)
LEMMA ForgetSpares ==
  ASSUME Inductive, NEW m \in op.victims, Forget(m)
  PROVE  /\ Spared' = Spared /\ op'.victims = op.victims \ {m}
         /\ op'.folder = op.folder /\ op'.pc = "retain" /\ op.pc = "retain"
         /\ manifests' = manifests \ {m} /\ UNCHANGED <<policy, clock>>
<1>0. op \in Operation
  BY DEF Inductive, TypeOK
<1>1. /\ op'.victims = op.victims \ {m} /\ op'.folder = op.folder /\ op'.pc = "retain"
      /\ op.pc = "retain" /\ manifests' = manifests \ {m} /\ UNCHANGED <<policy, clock>>
  BY <1>0 DEF Forget, Operation, memory, world
<1>. QED BY <1>1 DEF Spared, PointsOf
LEMMA KeepsEnoughStep ==
  ASSUME Inductive, KeepsEnough, [Next]_vars PROVE KeepsEnough'
<1>1. CASE Prune
  <2>0. policy.keep \in Nat \ {0}
    BY ConstantsAssumption DEF Inductive, TypeOK
  <2>1. CASE op'.pc = "failed"
    BY <2>1 DEF KeepsEnough
  <2>2. CASE op'.pc # "failed"
    <3>1. PICK kept \in Retained(op.folder, policy.keep) :
            kept \subseteq PointsOf(op.folder) /\ op'.victims = PointsOf(op.folder) \ kept
      BY <1>1, <2>2, PruneLists
    <3>2. /\ op'.pc = "retain" /\ op'.folder = op.folder /\ UNCHANGED <<manifests, policy>>
          /\ Listed(op.folder) = PointsOf(op.folder) /\ IsFiniteSet(PointsOf(op.folder))
      BY <1>1, <2>2, PruneLists
    <3>3. Spared' = kept
      BY <3>1, <3>2 DEF Spared, PointsOf
    <3>4. Cardinality(PointsOf(op.folder)) \in Nat
      BY <3>2, FS_CardinalityType
    <3>5. Cardinality(kept) = IF policy.keep < Cardinality(PointsOf(op.folder))
                              THEN policy.keep ELSE Cardinality(PointsOf(op.folder))
      BY <3>1, <3>2 DEF Retained
    <3>6. Cardinality(kept) <= policy.keep
      BY <2>0, <3>4, <3>5
    <3>7. ASSUME op'.victims # {} PROVE Cardinality(kept) = policy.keep
      <4>1. kept # PointsOf(op.folder)
        BY <3>1, <3>7
      <4>2. Cardinality(kept) # Cardinality(PointsOf(op.folder))
        BY <3>1, <3>2, <4>1, FS_Subset
      <4>. QED BY <3>5, <4>2
    <3>. QED BY <3>2, <3>3, <3>6, <3>7 DEF KeepsEnough
  <2>. QED BY <2>1, <2>2
<1>2. CASE \E m \in op.victims : Forget(m)
  BY <1>2, ForgetSpares DEF KeepsEnough
<1>3. CASE ~Prune /\ ~ \E m \in op.victims : Forget(m)
  <2>1. \/ op'.pc # "retain"
        \/ /\ op'.pc = op.pc /\ op'.victims = op.victims
           /\ op'.folder = op.folder /\ UNCHANGED <<manifests, policy>>
    BY <1>3, VictimsSame DEF Inductive
  <2>. QED BY <2>1 DEF KeepsEnough, Spared, PointsOf
<1>. QED BY <1>1, <1>2, <1>3

LEMMA RetentionIsExact ==
  ASSUME Inductive, KeepsEnough, [Next]_vars
  PROVE  /\ manifests \ manifests' # {} => Cardinality(PointsOf(op.folder))' >= policy.keep
         /\ op.pc = "retain" /\ op'.pc = "sweep" => Cardinality(PointsOf(op.folder)) <= policy.keep
<1>0. policy.keep \in Nat /\ op \in Operation
  BY ConstantsAssumption DEF Inductive, TypeOK
<1>1. ASSUME manifests \ manifests' # {}
      PROVE  Cardinality(PointsOf(op.folder))' >= policy.keep
  <2>1. PICK m \in op.victims : Forget(m)
    BY <1>1, WhoTouchesManifests DEF Publish
  <2>2. Cardinality(Spared) = policy.keep /\ Spared' = Spared /\ manifests' = manifests \ {m}
    BY <2>1, ForgetSpares DEF KeepsEnough
  <2>3. Spared' \subseteq (PointsOf(op.folder))'
    BY DEF Spared
  <2>4. IsFiniteSet((PointsOf(op.folder))')
    <3>1. IsFiniteSet(manifests) /\ (PointsOf(op.folder))' \subseteq manifests
      BY <2>2 DEF Inductive, IdsUnique, PointsOf
    <3>. QED BY <3>1, FS_Subset
  <2>5. /\ Cardinality(Spared') <= Cardinality((PointsOf(op.folder))')
        /\ Cardinality((PointsOf(op.folder))') \in Nat
    BY <2>3, <2>4, FS_Subset, FS_CardinalityType
  <2>. QED BY <1>0, <2>2, <2>5
<1>2. ASSUME op.pc = "retain", op'.pc = "sweep"
      PROVE  Cardinality(PointsOf(op.folder)) <= policy.keep
  <2>1. op.victims = {}
    <3>1. CASE SweepAfterRetention
      BY <3>1 DEF SweepAfterRetention
    <3>2. CASE Publish \/ ReusePrevious \/ BeginCleanup \/ \E o \in op.todo : SweepObject(o)
      BY <1>2, <3>2 DEF Publish, ReusePrevious, WalkDone, Walking, BeginCleanup, SweepObject
    <3>. QED
      BY <1>2, <3>1, <3>2, WalkLeads, RestStays
      DEF Stays, Inductive, Next, Engine, User, Daemon, World
  <2>2. Spared = PointsOf(op.folder)
    BY <2>1 DEF Spared
  <2>. QED BY <1>2, <2>2 DEF KeepsEnough
<1>. QED BY <1>1, <1>2

(* Retention never leaves fewer restore points of a folder than the policy *)
(* keeps, and never more once it is done.                                  *)
THEOREM RetentionKeepsCount == Spec => RetentionExact
<1>1. Init => KeepsEnough
  BY IdlePc DEF Init, KeepsEnough
<1>2. Inductive /\ KeepsEnough /\ [Next]_vars => KeepsEnough'
  BY KeepsEnoughStep
<1>3. Inductive /\ KeepsEnough /\ [Next]_vars =>
        [/\ manifests \ manifests' # {}
              => Cardinality(PointsOf(op.folder))' >= policy.keep
         /\ op.pc = "retain" /\ op'.pc = "sweep"
              => Cardinality(PointsOf(op.folder)) <= policy.keep]_vars
  BY RetentionIsExact
<1>. QED BY <1>1, <1>2, <1>3, InductiveHolds, PTL DEF Spec, RetentionExact

LEMMA DatesOrderedStep ==
  ASSUME ~ClockMayRegress, Inductive, DatesOrdered, [Next]_vars
  PROVE  DatesOrdered'
<1>0. /\ clock \in Nat /\ nextId \in Nat /\ manifests \subseteq Manifest
      /\ \A m \in manifests : m.id \in Nat /\ m.created \in Nat /\ m.id < nextId
      /\ op \in Operation /\ ~ClockSetBack
  BY ConstantsAssumption DEF Inductive, TypeOK, IdsUnique, Manifest, Ids, ClockSetBack
<1>1. CASE Publish
  <2>1. /\ NewManifest.id = nextId /\ NewManifest.created = clock
        /\ manifests' = manifests \cup {NewManifest} /\ clock' = clock + 1
        /\ op'.pc = "record"
    BY <1>0, <1>1 DEF Publish, NewManifest, Operation
  <2>2. \A m \in manifests' : m.created < clock'
    BY <1>0, <2>1 DEF DatesOrdered
  <2>3. \A m, n \in manifests' : m.id < n.id => m.created < n.created
    BY <1>0, <2>1 DEF DatesOrdered
  <2>. QED BY <2>1, <2>2, <2>3 DEF DatesOrdered
<1>2. CASE Prune
  <2>1. UNCHANGED <<manifests, clock>>
    BY <1>2 DEF Prune, disk, world
  <2>2. CASE op'.pc = "failed"
    BY <2>1, <2>2 DEF DatesOrdered
  <2>3. CASE op'.pc # "failed"
    <3>1. PICK kept \in Retained(op.folder, policy.keep) :
            /\ kept # {} /\ kept \subseteq PointsOf(op.folder)
            /\ op'.victims = PointsOf(op.folder) \ kept
      BY <1>2, <2>3, PruneLists
    <3>2. op'.folder = op.folder /\ Listed(op.folder) = PointsOf(op.folder)
      BY <1>2, <2>3, PruneLists
    <3>3. Spared' = kept
      BY <2>1, <3>1, <3>2 DEF Spared, PointsOf
    <3>4. PICK k : k \in kept
      BY <3>1
    <3>5. ASSUME NEW m \in op'.victims PROVE k.id > m.id
      <4>1. k \in manifests /\ m \in manifests /\ k # m /\ m.created <= k.created
        BY <3>1, <3>2, <3>4, <3>5 DEF Retained, PointsOf
      <4>2. k.id # m.id
        BY <4>1 DEF Inductive, IdsUnique
      <4>3. ~(k.id < m.id)
        BY <1>0, <4>1 DEF DatesOrdered
      <4>. QED BY <1>0, <4>1, <4>2, <4>3
    <3>. QED BY <2>1, <3>3, <3>4, <3>5 DEF DatesOrdered
  <2>. QED BY <2>2, <2>3
<1>3. CASE \E m \in op.victims : Forget(m)
  BY <1>3, ForgetSpares DEF DatesOrdered
<1>4. CASE ~Publish /\ ~Prune /\ ~ \E m \in op.victims : Forget(m)
  <2>1. manifests' = manifests
    BY <1>4, WhoTouchesManifests
  <2>2. clock' = clock
    BY <1>0, <1>4 DEF Next, Engine, User, Daemon, World, vars, world, OpenFile, SkipPath,
       ReuseChunk, StoreChunk, RejectChunk, CloseFile, ReusePrevious,
       Record, SweepAfterRetention, EndSweep, SweepObject,
       CancelObserved, Unwind, BeginProtect, BeginCapture, SetPaused,
       SetPolicy, BeginCleanup, RequestCancel, EditOpenFile, RecordUnsaved,
       UnwindUnsaved, IOFailure, Crash, Reopen, BitRot, BreakManifest,
       ForeignFileAppears, ForeignFileRemoved
  <2>3. op'.pc # "retain" \/ (op'.pc = op.pc /\ op'.victims = op.victims /\ op'.folder = op.folder)
    BY <1>4, VictimsSame DEF Inductive
  <2>. QED BY <2>1, <2>2, <2>3 DEF DatesOrdered, Spared, PointsOf
<1>. QED BY <1>1, <1>2, <1>3, <1>4

(* With a clock that is never set back retention forgets only restore      *)
(* points that are older than one it keeps of the same folder.             *)
THEOREM RetentionForgetsOlder ==
  ASSUME ~ClockMayRegress PROVE Spec => ForgetsOlder
<1>1. Init => DatesOrdered
  <2> SUFFICES ASSUME Init PROVE DatesOrdered
    OBVIOUS
  <2>1. /\ clock = 1 /\ op.pc = "idle"
        /\ \A m \in manifests : m.created = 0 /\ m.id = 0
    BY IdlePc DEF Init, LegacyPoint
  <2>. QED BY <2>1 DEF DatesOrdered
<1>2. Inductive /\ DatesOrdered /\ [Next]_vars => DatesOrdered'
  BY DatesOrderedStep
<1>3. Inductive /\ DatesOrdered /\ [Next]_vars =>
        [\A m \in manifests \ manifests' :
           \E n \in manifests' : n.folder = m.folder /\ n.id > m.id]_vars
  <2> SUFFICES ASSUME Inductive, DatesOrdered, [Next]_vars, NEW m \in manifests \ manifests'
               PROVE  \E n \in manifests' : n.folder = m.folder /\ n.id > m.id
    OBVIOUS
  <2>1. PICK v \in op.victims : Forget(v)
    BY WhoTouchesManifests DEF Publish
  <2>2. m = v /\ op.pc = "retain" /\ manifests' = manifests \ {v}
    BY <2>1, ForgetSpares
  <2>3. v.folder = op.folder
    BY <2>1, <2>2 DEF Inductive, RetentionSpares
  <2>4. PICK n \in Spared : n.id > v.id
    BY <2>1, <2>2 DEF DatesOrdered
  <2>. QED BY <2>1, <2>2, <2>3, <2>4 DEF Spared, PointsOf
<1>. QED BY <1>1, <1>2, <1>3, InductiveHolds, PTL DEF Spec, ForgetsOlder
=============================================================================
