------------------------------ MODULE Restore ------------------------------
(***************************************************************************)
(* Restore, export and audit of restore points (engine/src/timesnap.rs     *)
(* 534-656, 741-760, called from src-tauri/src/workbench.rs 144-183 and    *)
(* 236-257).  An entry is assembled from its objects in a temporary file,  *)
(* checked, synced and renamed over its destination.  The gate and the     *)
(* mutex admit one operation at a time (module OperationGate).             *)
(*                                                                         *)
(* Bytes are sequences of blocks, and a SHA-256 hash stands for the bytes  *)
(* it is the hash of, so an object is named by its intact content.         *)
(***************************************************************************)
EXTENDS Integers, Sequences

CONSTANTS Files,      \* destinations, by relative path
          Blocks,     \* what bytes are made of
          Magic,      \* blocks that begin with the zstd magic number
          Manifests,  \* restore points: functions from files to entries
          Forms,      \* how the releases used have stored objects
          Legacy,     \* `chunks: None` of an old whole-file entry
          Absent, Irregular, Undecodable,  \* no object, a link or directory, no bytes
          Nothing, Mine, Torn,  \* no file, a file of the user's, a half-written one
          NoFile, NoObject,
          MaxFaults   \* bound on damage, failures and crashes

Bytes == Seq(Blocks)
Entry == [whole : Bytes, chunks : Seq(Bytes) \cup {Legacy}]

(* The objects an entry is assembled from (timesnap.rs 576-580).           *)
PartsOf(e) == IF e.chunks = Legacy THEN <<e.whole>> ELSE e.chunks

Objects ==
  UNION {UNION {{PartsOf(m[f])[i] : i \in DOMAIN PartsOf(m[f])} : f \in DOMAIN m} :
           m \in Manifests}

Stored == [form : {"raw", "packed"}, bytes : Bytes] \cup {Absent, Irregular}
NoJob == [phase |-> "idle", all |-> FALSE, snap |-> <<>>, todo |-> {}, done |-> {}, file |-> NoFile,
          left |-> <<>>, temp |-> <<>>, synced |-> FALSE]
NoAudit == [phase |-> "idle", todo |-> {}, object |-> NoObject, damaged |-> {}]
NoAnswer == [answer |-> "none", snap |-> <<>>, files |-> {}, object |-> NoObject]

ASSUME RestoreAssumption ==
  /\ \A m \in Manifests : DOMAIN m \subseteq Files /\ \A f \in DOMAIN m : m[f] \in Entry
  /\ Legacy \notin Seq(Bytes)
  /\ {Absent, Irregular} \cap [form : {"raw", "packed"}, bytes : Bytes] = {}
  /\ {Undecodable, Nothing, Mine, Torn, NoObject} \cap Bytes = {}
  /\ Torn \notin {Nothing, Mine}
  /\ NoFile \notin Files
  /\ Forms \subseteq {"raw", "packed"}
  /\ MaxFaults \in Nat

VARIABLES
  disk,       \* objects/ of the repository
  dest,       \* the destination as a reader sees it
  surviving,  \* for each file, what a power cut may leave of it
  cancel,     \* the shared cancel flag
  job,        \* the restore or export under way
  audit,      \* the audit under way
  told,       \* the last answer given to the user
  rotten,     \* history: objects damaged since the last audit began
  faults

vars == <<disk, dest, surviving, cancel, job, audit, told, rotten, faults>>
repo == <<disk, rotten>>
files == <<dest, surviving>>

----------------------------------------------------------------------------
(* read_chunk_bytes (timesnap.rs 957-964): what starts with the zstd magic *)
(* is decoded, so a raw object that happens to start with it is lost.      *)
ReadChunk(s) ==
  CASE s \in {Absent, Irregular} -> Undecodable
    [] s \notin {Absent, Irregular} /\ s.form = "raw" /\ s.bytes # <<>> /\ s.bytes[1] \in Magic
         -> Undecodable
    [] OTHER -> s.bytes

(* The object is a regular file whose length and hash are those of o.      *)
Sound(o) == ReadChunk(disk[o]) = o

TypeOK ==
  /\ disk \in [Objects -> Stored]
  /\ dest \in [Files -> Bytes \cup {Nothing, Mine, Torn}]
  /\ surviving \in [Files -> SUBSET (Bytes \cup {Nothing, Mine, Torn})]
  /\ cancel \in BOOLEAN
  /\ job \in [phase : {"idle", "entry", "part", "sync", "persist"}, all : BOOLEAN, snap : Manifests \cup {<<>>},
              todo : SUBSET Files, done : SUBSET Files, file : Files \cup {NoFile},
              left : Seq(Objects), temp : Bytes, synced : BOOLEAN]
  /\ audit \in [phase : {"idle", "next", "read", "note"}, todo : SUBSET Objects,
                object : Objects \cup {NoObject}, damaged : SUBSET Objects]
  /\ told \in [answer : {"none", "restored", "audit", "cancelled", "corrupt", "mismatch", "io"},
               snap : Manifests \cup {<<>>}, files : SUBSET (Files \cup Objects),
               object : Objects \cup {NoObject}]
  /\ rotten \in SUBSET Objects
  /\ faults \in 0..MaxFaults

(* Whole repositories in the forms releases have written: chunks packed,   *)
(* whole files raw (417, 957).  Destinations are new or hold a file of the *)
(* user's.                                                                 *)
WholeFiles ==
  UNION {{m[f].whole : f \in {g \in DOMAIN m : m[g].chunks = Legacy}} : m \in Manifests}

Init ==
  /\ \E form \in [Objects -> Forms] :
       /\ \A o \in Objects : form[o] = "raw" => o \in WholeFiles
       /\ disk = [o \in Objects |-> [form |-> form[o], bytes |-> o]]
  /\ dest \in [Files -> {Nothing, Mine}]
  /\ surviving = [f \in Files |-> {dest[f]}]
  /\ cancel = FALSE
  /\ job = NoJob
  /\ audit = NoAudit
  /\ told = NoAnswer
  /\ rotten = {}
  /\ faults = 0

Idle == job.phase = "idle" /\ audit.phase = "idle"

(* An operation ends with an answer; dropping the temporary file deletes   *)
(* it.                                                                     *)
Answer(a, o) ==
  /\ told' = [answer |-> a, snap |-> job.snap, files |-> job.done, object |-> o]
  /\ job' = NoJob
  /\ UNCHANGED <<repo, files, cancel, audit>>

----------------------------------------------------------------------------
(* capsule_export: one file of a point, or all of it (workbench.rs         *)
(* 165-178).                                                               *)
BeginRestore(m, F, all) ==
  /\ Idle
  /\ cancel' = FALSE
  /\ job' = [NoJob EXCEPT !.phase = "entry", !.all = all, !.snap = m, !.todo = F]
  /\ told' = NoAnswer
  /\ UNCHANGED <<repo, files, audit, faults>>

OpenEntry(f) ==
  /\ job.phase = "entry"
  /\ f \in job.todo
  /\ job.all => ~cancel
  /\ job' = [job EXCEPT !.phase = "part", !.file = f, !.left = PartsOf(job.snap[f]),
                        !.temp = <<>>, !.synced = FALSE]
  /\ UNCHANGED <<repo, files, cancel, audit, told, faults>>

CopyPart ==
  /\ job.phase = "part"
  /\ job.left # <<>>
  /\ ~cancel
  /\ Sound(Head(job.left))
  /\ job' = [job EXCEPT !.left = Tail(job.left), !.temp = job.temp \o Head(job.left)]
  /\ UNCHANGED <<repo, files, cancel, audit, told, faults>>

\* Mutant: publish what was assembled without comparing it with the entry
VerifyPartsOnly ==
  /\ job.phase = "part"
  /\ job.left = <<>>
  /\ job' = [job EXCEPT !.phase = "sync"]
  /\ UNCHANGED <<repo, files, cancel, audit, told, faults>>

(* The whole-file comparison (601-604). *)
Verify ==
  /\ job.phase = "part"
  /\ job.left = <<>>
  /\ job.temp = job.snap[job.file].whole
  /\ job' = [job EXCEPT !.phase = "sync"]
  /\ UNCHANGED <<repo, files, cancel, audit, told, faults>>

\* Mutant: the temporary file is flushed to the system but not synced
SyncSkipped ==
  /\ job.phase = "sync"
  /\ job' = [job EXCEPT !.phase = "persist"]
  /\ UNCHANGED <<repo, files, cancel, audit, told, faults>>

(* sync_all (605). *)
Sync ==
  /\ job.phase = "sync"
  /\ job' = [job EXCEPT !.phase = "persist", !.synced = TRUE]
  /\ UNCHANGED <<repo, files, cancel, audit, told, faults>>

(* persist (606): the rename replaces the destination at once; until the   *)
(* directory reaches the disk a power cut may still bring the old file     *)
(* back, and would show a half-written new one had it not been synced.     *)
Persist ==
  /\ job.phase = "persist"
  /\ dest' = [dest EXCEPT ![job.file] = job.temp]
  /\ surviving' = [surviving EXCEPT ![job.file] =
                     @ \cup {job.temp} \cup (IF job.synced THEN {} ELSE {Torn})]
  /\ job' = [job EXCEPT !.phase = "entry", !.todo = @ \ {job.file}, !.done = @ \cup {job.file}]
  /\ UNCHANGED <<repo, cancel, audit, told, faults>>

RestoreDone ==
  /\ job.phase = "entry"
  /\ job.todo = {}
  /\ Answer("restored", NoObject)
  /\ UNCHANGED faults

\* Mutant: a cancelled export stops early and reports what it has
RestoreCutShort ==
  /\ cancel
  /\ \/ job.phase = "entry" /\ job.all /\ job.todo # {}
     \/ job.phase = "part" /\ job.left # <<>>
  /\ told' = [answer |-> "restored", snap |-> job.snap, files |-> job.done \cup job.todo,
              object |-> NoObject]
  /\ job' = NoJob
  /\ UNCHANGED <<repo, files, cancel, audit, faults>>

(* `cancelled(cancel)?` before each entry of an export and each chunk.     *)
RestoreCancelled ==
  /\ cancel
  /\ \/ job.phase = "entry" /\ job.all /\ job.todo # {}
     \/ job.phase = "part" /\ job.left # <<>>
  /\ Answer("cancelled", NoObject)
  /\ UNCHANGED faults

ObjectBad ==
  /\ job.phase = "part"
  /\ job.left # <<>>
  /\ ~cancel
  /\ ~Sound(Head(job.left))
  /\ Answer("corrupt", Head(job.left))
  /\ UNCHANGED faults

WholeBad ==
  /\ job.phase = "part"
  /\ job.left = <<>>
  /\ job.temp # job.snap[job.file].whole
  /\ Answer("mismatch", NoObject)
  /\ UNCHANGED faults

(* No space, a read-only folder, a failing write, sync or rename.          *)
RestoreFails ==
  /\ job.phase # "idle"
  /\ faults < MaxFaults
  /\ faults' = faults + 1
  /\ Answer("io", NoObject)

----------------------------------------------------------------------------
(* capsule_maintenance with cleanup = false. *)
BeginAudit ==
  /\ Idle
  /\ cancel' = FALSE
  /\ audit' = [NoAudit EXCEPT !.phase = "next", !.todo = Objects]
  /\ told' = NoAnswer
  /\ rotten' = {}
  /\ UNCHANGED <<disk, files, job, faults>>

AuditNext(o) ==
  /\ audit.phase = "next"
  /\ o \in audit.todo
  /\ ~cancel
  /\ audit' = [audit EXCEPT !.phase = "read", !.object = o]
  /\ UNCHANGED <<repo, files, cancel, job, told, faults>>

(* read_and_verify_object fails on a raised cancel flag too (967), and the *)
(* audit books any failure as damage (750-756).                            *)
AuditRead ==
  /\ audit.phase = "read"
  /\ audit' = [audit EXCEPT !.phase = "note", !.damaged =
                 IF Sound(audit.object) /\ ~cancel THEN @ ELSE @ \cup {audit.object}]
  /\ UNCHANGED <<repo, files, cancel, job, told, faults>>

\* Mutant: the flag is looked at before each object only
AuditNoteBlind ==
  /\ audit.phase = "note"
  /\ audit' = [audit EXCEPT !.phase = "next", !.todo = @ \ {audit.object}]
  /\ UNCHANGED <<repo, files, cancel, job, told, faults>>

AuditNote ==
  /\ audit.phase = "note"
  /\ ~cancel
  /\ audit' = [audit EXCEPT !.phase = "next", !.todo = @ \ {audit.object}]
  /\ UNCHANGED <<repo, files, cancel, job, told, faults>>

AuditCancelled ==
  /\ cancel
  /\ \/ audit.phase = "next" /\ audit.todo # {}
     \/ audit.phase = "note"
  /\ audit' = NoAudit
  /\ told' = [NoAnswer EXCEPT !.answer = "cancelled"]
  /\ UNCHANGED <<repo, files, cancel, job, faults>>

AuditDone ==
  /\ audit.phase = "next"
  /\ audit.todo = {}
  /\ audit' = NoAudit
  /\ told' = [NoAnswer EXCEPT !.answer = "audit", !.files = audit.damaged]
  /\ UNCHANGED <<repo, files, cancel, job, faults>>

----------------------------------------------------------------------------
(* The world: Stop, an object that is lost, replaced or rots, the end of   *)
(* the process with or without power.                                      *)
Stop ==
  /\ ~Idle
  /\ ~cancel
  /\ cancel' = TRUE
  /\ UNCHANGED <<repo, files, job, audit, told, faults>>

Damage(o) ==
  /\ faults < MaxFaults
  /\ faults' = faults + 1
  /\ \E s \in {Absent, Irregular} \cup [form : {"packed"}, bytes : Objects \ {o}] :
       disk' = [disk EXCEPT ![o] = s]
  /\ rotten' = rotten \cup {o}
  /\ UNCHANGED <<files, cancel, job, audit, told>>

Crash ==
  /\ faults < MaxFaults
  /\ faults' = faults + 1
  /\ \E d \in [Files -> UNION {surviving[f] : f \in Files}] :
       /\ \A f \in Files : d[f] \in surviving[f]
       /\ dest' = d
       /\ surviving' = [f \in Files |-> {d[f]}]
  /\ cancel' = FALSE
  /\ job' = NoJob
  /\ audit' = NoAudit
  /\ told' = NoAnswer
  /\ UNCHANGED <<repo>>

Begin ==
  \/ \E m \in Manifests :
       \/ BeginRestore(m, DOMAIN m, TRUE)
       \/ \E f \in DOMAIN m : BeginRestore(m, {f}, FALSE)
  \/ BeginAudit

Engine ==
  \/ \E f \in Files : OpenEntry(f)
  \/ CopyPart \/ Verify \/ Sync \/ Persist
  \/ RestoreDone \/ RestoreCancelled \/ ObjectBad \/ WholeBad
  \/ \E o \in Objects : AuditNext(o)
  \/ AuditRead \/ AuditNote \/ AuditCancelled \/ AuditDone

World == Stop \/ RestoreFails \/ (\E o \in Objects : Damage(o)) \/ Crash

Next == Begin \/ Engine \/ World

Spec == Init /\ [][Next]_vars

----------------------------------------------------------------------------
(* A destination is what it was or exactly one version of a restore point, *)
(* at every moment and after a power cut at any moment (573-606).          *)
Whole(f) == {m[f].whole : m \in {n \in Manifests : f \in DOMAIN n}}
DestExact ==
  \A f \in Files :
    /\ dest[f] \in surviving[f]
    /\ surviving[f] \subseteq {Nothing, Mine} \cup Whole(f)

(* An export reported complete has every file it was asked for at the      *)
(* destination, in the version of the point named (612-656).               *)
DeliveredWhole ==
  told.answer = "restored" =>
    /\ told.files \in {DOMAIN told.snap} \cup {{f} : f \in DOMAIN told.snap}
    /\ \A f \in told.files : dest[f] = told.snap[f].whole

(* The list of an audit the user is shown is exact: every object on it is  *)
(* damaged, Stop pressed meanwhile or not, and every damaged object is on  *)
(* it unless the damage came after the audit began (741-760).              *)
AuditExact ==
  told.answer = "audit" =>
    /\ \A o \in told.files : ~Sound(o)
    /\ \A o \in Objects \ told.files : Sound(o) \/ o \in rotten
============================================================================
