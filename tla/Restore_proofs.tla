--------------------------- MODULE Restore_proofs ---------------------------
(* Proofs about Restore: destinations stay whole through failures and      *)
(* power cuts, a complete export is complete, and an audit's list is exact *)
(* although reading an object fails when Stop is pressed.                  *)
EXTENDS Restore, SequenceTheorems, TLAPS

Asked(snap) == {DOMAIN snap} \cup {{f} : f \in DOMAIN snap}

(* The parts of the type invariant that most steps change.                 *)
JobType(j) ==
  j \in [phase : {"idle", "entry", "part", "sync", "persist"}, all : BOOLEAN,
         snap : Manifests \cup {<<>>}, todo : SUBSET Files, done : SUBSET Files,
         file : Files \cup {NoFile}, left : Seq(Objects), temp : Bytes, synced : BOOLEAN]
AuditType(a) ==
  a \in [phase : {"idle", "next", "read", "note"}, todo : SUBSET Objects,
         object : Objects \cup {NoObject}, damaged : SUBSET Objects]
AnswerType(t) ==
  t \in [answer : {"none", "restored", "audit", "cancelled", "corrupt", "mismatch", "io"},
         snap : Manifests \cup {<<>>}, files : SUBSET (Files \cup Objects),
         object : Objects \cup {NoObject}]

(* What a restore under way has to show for itself.                        *)
JobSound ==
  job.phase # "idle" =>
    /\ job.snap \in Manifests
    /\ job.todo \cup job.done \in Asked(job.snap)
    /\ \A f \in job.done : dest[f] = job.snap[f].whole
    /\ job.phase # "entry" => job.file \in job.todo
    /\ job.phase \in {"sync", "persist"} => job.temp = job.snap[job.file].whole
    /\ job.phase = "persist" => job.synced

(* The list of an audit under way is exact, but for the object whose       *)
(* reading Stop may have interrupted: that one is never put on record.     *)
AuditSound ==
  audit.phase # "idle" =>
    /\ audit.phase = "note" /\ ~cancel /\ audit.object \in audit.damaged => ~Sound(audit.object)
    /\ audit.phase \in {"read", "note"} => audit.object \in audit.todo
    /\ \A o \in audit.damaged :
         (audit.phase = "note" /\ o = audit.object) \/ ~Sound(o)
    /\ \A o \in Objects \ (audit.todo \cup audit.damaged) : Sound(o) \/ o \in rotten
    /\ audit.phase = "note" =>
         audit.object \in audit.damaged \/ Sound(audit.object) \/ audit.object \in rotten

(* An answer about the destination is given when nothing changes it, and   *)
(* one about the repository names objects.                                 *)
ToldAtRest ==
  /\ told.answer = "restored" => job.phase = "idle"
  /\ told.answer = "audit" => told.files \subseteq Objects

RestoreInductive ==
  /\ TypeOK
  /\ JobSound
  /\ AuditSound
  /\ ToldAtRest
  /\ DestExact
  /\ DeliveredWhole
  /\ AuditExact

----------------------------------------------------------------------------
(* The objects of an entry are bytes, and so is the entry.                 *)
LEMMA EntryFacts ==
  ASSUME NEW m \in Manifests, NEW f \in DOMAIN m
  PROVE  /\ f \in Files /\ m[f] \in Entry /\ m[f].whole \in Bytes
         /\ PartsOf(m[f]) \in Seq(Bytes)
<1>1. f \in Files /\ m[f] \in Entry
  BY RestoreAssumption
<1>2. m[f].whole \in Bytes /\ m[f].chunks \in Seq(Bytes) \cup {Legacy}
  BY <1>1 DEF Entry
<1>3. <<m[f].whole>> \in Seq(Bytes)
  BY <1>2
<1>. QED BY <1>1, <1>2, <1>3 DEF PartsOf

LEMMA ObjectsAreBytes == Objects \subseteq Bytes
<1> SUFFICES ASSUME NEW o \in Objects PROVE o \in Bytes
  OBVIOUS
<1>1. PICK m \in Manifests : \E f \in DOMAIN m : \E i \in DOMAIN PartsOf(m[f]) : o = PartsOf(m[f])[i]
  BY DEF Objects
<1>. PICK f \in DOMAIN m : \E i \in DOMAIN PartsOf(m[f]) : o = PartsOf(m[f])[i]
  BY <1>1
<1>. PICK i \in DOMAIN PartsOf(m[f]) : o = PartsOf(m[f])[i]
  OBVIOUS
<1>2. PartsOf(m[f]) \in Seq(Bytes)
  BY EntryFacts
<1>. QED BY <1>1, <1>2, ElementOfSeq, LenProperties

LEMMA PartsAreObjects ==
  ASSUME NEW m \in Manifests, NEW f \in DOMAIN m
  PROVE  PartsOf(m[f]) \in Seq(Objects)
<1>1. PartsOf(m[f]) \in Seq(Bytes)
  BY EntryFacts
<1>2. \A i \in DOMAIN PartsOf(m[f]) : PartsOf(m[f])[i] \in Objects
  BY DEF Objects
<1>. QED BY <1>1, <1>2, LenProperties, IsASeq

(* Damage makes an object unsound and leaves the others as they were.      *)
LEMMA DamageFacts ==
  ASSUME TypeOK, NEW o \in Objects, Damage(o)
  PROVE  /\ disk' \in [Objects -> Stored]
         /\ ~Sound(o)'
         /\ \A p \in Objects \ {o} : Sound(p)' = Sound(p)
<1>1. PICK s \in {Absent, Irregular} \cup [form : {"packed"}, bytes : Objects \ {o}] :
        disk' = [disk EXCEPT ![o] = s]
  BY DEF Damage
<1>2. s \in Stored
  BY <1>1, ObjectsAreBytes DEF Stored
<1>3. disk' \in [Objects -> Stored] /\ disk'[o] = s /\ \A p \in Objects \ {o} : disk'[p] = disk[p]
  BY <1>1, <1>2 DEF TypeOK
<1>4. o \in Bytes /\ Undecodable \notin Bytes
  BY ObjectsAreBytes, RestoreAssumption
<1>5. ReadChunk(s) # o
  <2>1. CASE s \in {Absent, Irregular}
    BY <2>1, <1>4 DEF ReadChunk
  <2>2. CASE s \in [form : {"packed"}, bytes : Objects \ {o}]
    <3>1. s.form = "packed" /\ s.bytes # o
      BY <2>2
    <3>2. s \notin {Absent, Irregular}
      BY <2>2, ObjectsAreBytes, RestoreAssumption
    <3>. QED BY <3>1, <3>2 DEF ReadChunk
  <2>. QED BY <2>1, <2>2
<1>. QED BY <1>3, <1>5 DEF Sound

LEMMA RestoreInitHolds == Init => RestoreInductive
<1> SUFFICES ASSUME Init PROVE RestoreInductive
  OBVIOUS
<1>1. PICK form \in [Objects -> Forms] : disk = [o \in Objects |-> [form |-> form[o], bytes |-> o]]
  BY DEF Init
<1>2. disk \in [Objects -> Stored]
  BY <1>1, ObjectsAreBytes, RestoreAssumption DEF Stored
<1>3. dest \in [Files -> {Nothing, Mine}] /\ surviving = [f \in Files |-> {dest[f]}]
  BY DEF Init
<1>4. surviving \in [Files -> SUBSET (Bytes \cup {Nothing, Mine, Torn})]
  BY <1>3
<1>5. job = NoJob /\ <<>> \in Bytes
  BY DEF Init, Bytes
<1>6. TypeOK
  <2>1. dest \in [Files -> Bytes \cup {Nothing, Mine, Torn}]
    BY <1>3
  <2>2. JobType(job)
    BY <1>5 DEF JobType, NoJob
  <2>3. AuditType(audit) /\ AnswerType(told)
    BY DEF Init, AuditType, AnswerType, NoAudit, NoAnswer
  <2>4. cancel \in BOOLEAN
    BY Zenon DEF Init
  <2>5. rotten \in SUBSET Objects /\ faults \in 0..MaxFaults
    BY RestoreAssumption DEF Init
  <2>. QED
    BY <1>2, <1>4, <2>1, <2>2, <2>3, <2>4, <2>5 DEF TypeOK, JobType, AuditType, AnswerType
<1>7. JobSound /\ AuditSound /\ ToldAtRest /\ DeliveredWhole /\ AuditExact
  BY DEF Init, NoJob, NoAudit, NoAnswer, JobSound, AuditSound, ToldAtRest, DeliveredWhole, AuditExact
<1>8. DestExact
  BY <1>3 DEF DestExact
<1>. QED BY <1>6, <1>7, <1>8 DEF RestoreInductive

----------------------------------------------------------------------------
(* What the steps of a restore have in common. *)
LEMMA SoundFrame == ASSUME UNCHANGED disk, NEW o PROVE Sound(o)' = Sound(o)
BY DEF Sound, ReadChunk

LEMMA JobStepKeeps ==
  ASSUME RestoreInductive, job.phase # "idle", JobType(job'), JobSound',
         UNCHANGED <<repo, files, cancel, audit, told, faults>>
  PROVE  RestoreInductive'
<1> USE DEF RestoreInductive
<1>1. TypeOK'
  BY DEF TypeOK, JobType, repo, files
<1>2. AuditSound' /\ AuditExact'
  BY SoundFrame DEF AuditSound, AuditExact, repo
<1>3. ToldAtRest' /\ DestExact' /\ DeliveredWhole'
  BY DEF ToldAtRest, DestExact, DeliveredWhole, files
<1>. QED BY <1>1, <1>2, <1>3

LEMMA OpenEntryKeeps ==
  ASSUME RestoreInductive, NEW f \in Files, OpenEntry(f) PROVE RestoreInductive'
<1> USE DEF RestoreInductive
<1>1. /\ job' = [job EXCEPT !.phase = "part", !.file = f, !.left = PartsOf(job.snap[f]),
                            !.temp = <<>>, !.synced = FALSE]
      /\ job.phase = "entry" /\ f \in job.todo
      /\ UNCHANGED <<repo, files, cancel, audit, told, faults>>
  BY DEF OpenEntry
<1>2. job.snap \in Manifests /\ f \in DOMAIN job.snap
  BY <1>1 DEF JobSound, Asked
<1>3. PartsOf(job.snap[f]) \in Seq(Objects) /\ <<>> \in Bytes
  BY <1>2, PartsAreObjects DEF Bytes
<1>4. JobType(job')
  BY <1>1, <1>3 DEF TypeOK, JobType
<1>5. /\ job'.phase = "part" /\ job'.file = f /\ job'.snap = job.snap /\ job'.todo = job.todo
      /\ job'.done = job.done
  BY <1>1 DEF TypeOK
<1>6. JobSound'
  BY <1>1, <1>5 DEF JobSound, files
<1>. QED BY <1>1, <1>4, <1>6, JobStepKeeps

LEMMA CopyPartKeeps == ASSUME RestoreInductive, CopyPart PROVE RestoreInductive'
<1> USE DEF RestoreInductive
<1>1. /\ job' = [job EXCEPT !.left = Tail(job.left), !.temp = job.temp \o Head(job.left)]
      /\ job.phase = "part" /\ job.left # <<>>
      /\ UNCHANGED <<repo, files, cancel, audit, told, faults>>
  BY DEF CopyPart
<1>2. job.left \in Seq(Objects) /\ job.temp \in Bytes
  BY DEF TypeOK
<1>3. Head(job.left) \in Bytes /\ Tail(job.left) \in Seq(Objects)
  BY <1>1, <1>2, HeadTailProperties, ObjectsAreBytes
<1>4. job.temp \o Head(job.left) \in Bytes
  BY <1>2, <1>3, ConcatProperties DEF Bytes
<1>5. JobType(job')
  BY <1>1, <1>3, <1>4 DEF TypeOK, JobType
<1>6. /\ job'.phase = "part" /\ job'.file = job.file /\ job'.snap = job.snap
      /\ job'.todo = job.todo /\ job'.done = job.done
  BY <1>1 DEF TypeOK
<1>7. JobSound'
  BY <1>1, <1>6 DEF JobSound, files
<1>. QED BY <1>1, <1>5, <1>7, JobStepKeeps

LEMMA VerifyKeeps == ASSUME RestoreInductive, Verify PROVE RestoreInductive'
<1> USE DEF RestoreInductive
<1>1. /\ job' = [job EXCEPT !.phase = "sync"]
      /\ job.phase = "part" /\ job.temp = job.snap[job.file].whole
      /\ UNCHANGED <<repo, files, cancel, audit, told, faults>>
  BY DEF Verify
<1>2. JobType(job')
  BY <1>1 DEF TypeOK, JobType
<1>3. /\ job'.phase = "sync" /\ job'.file = job.file /\ job'.snap = job.snap
      /\ job'.todo = job.todo /\ job'.done = job.done /\ job'.temp = job.temp
  BY <1>1 DEF TypeOK
<1>4. JobSound'
  BY <1>1, <1>3 DEF JobSound, files
<1>. QED BY <1>1, <1>2, <1>4, JobStepKeeps

LEMMA SyncKeeps == ASSUME RestoreInductive, Sync PROVE RestoreInductive'
<1> USE DEF RestoreInductive
<1>1. /\ job' = [job EXCEPT !.phase = "persist", !.synced = TRUE]
      /\ job.phase = "sync"
      /\ UNCHANGED <<repo, files, cancel, audit, told, faults>>
  BY DEF Sync
<1>2. JobType(job')
  BY <1>1 DEF TypeOK, JobType
<1>3. /\ job'.phase = "persist" /\ job'.file = job.file /\ job'.snap = job.snap
      /\ job'.todo = job.todo /\ job'.done = job.done /\ job'.temp = job.temp /\ job'.synced
  BY <1>1 DEF TypeOK
<1>4. JobSound'
  BY <1>1, <1>3 DEF JobSound, files
<1>. QED BY <1>1, <1>2, <1>4, JobStepKeeps

(* The rename: the destination becomes the version asked for, and so does  *)
(* what a power cut may leave of it, for the file was synced.              *)
LEMMA PersistKeeps == ASSUME RestoreInductive, Persist PROVE RestoreInductive'
<1> USE DEF RestoreInductive
<1> DEFINE f == job.file
           v == job.snap[f].whole
<1>1. /\ job.phase = "persist" /\ job.synced /\ job.temp = v /\ job.snap \in Manifests
      /\ f \in job.todo /\ f \in DOMAIN job.snap /\ f \in Files
      /\ UNCHANGED <<repo, cancel, audit, told, faults>>
  BY RestoreAssumption DEF Persist, JobSound, Asked
<1>2. v \in Bytes /\ v \in Whole(f)
  BY <1>1, EntryFacts DEF Whole
<1>3. /\ dest' = [dest EXCEPT ![f] = v]
      /\ surviving' = [surviving EXCEPT ![f] = @ \cup {v}]
      /\ job' = [job EXCEPT !.phase = "entry", !.todo = @ \ {f}, !.done = @ \cup {f}]
  BY <1>1 DEF Persist
<1>. HIDE DEF v
<1>4. dest'[f] = v /\ \A x \in Files \ {f} : dest'[x] = dest[x]
  BY <1>1, <1>3 DEF TypeOK
<1>5. /\ surviving'[f] = surviving[f] \cup {v}
      /\ \A x \in Files \ {f} : surviving'[x] = surviving[x]
  BY <1>1, <1>3 DEF TypeOK
<1>6. JobType(job')
  BY <1>1, <1>3 DEF TypeOK, JobType
<1>7. /\ job'.phase = "entry" /\ job'.snap = job.snap
      /\ job'.todo = job.todo \ {f} /\ job'.done = job.done \cup {f}
  BY <1>3 DEF TypeOK
<1>8. TypeOK'
  <2>1. dest' \in [Files -> Bytes \cup {Nothing, Mine, Torn}]
    BY <1>2, <1>3 DEF TypeOK
  <2>2. surviving' \in [Files -> SUBSET (Bytes \cup {Nothing, Mine, Torn})]
    BY <1>2, <1>3 DEF TypeOK
  <2>. QED BY <1>1, <1>6, <2>1, <2>2 DEF TypeOK, JobType, repo
<1>9. JobSound'
  <2>1. \A x \in job'.done : dest'[x] = job'.snap[x].whole
    <3>1. \A x \in job.done : x \in Files
      BY DEF TypeOK
    <3>. QED BY <1>1, <1>4, <1>7, <3>1 DEF JobSound, v
  <2>2. job'.todo \cup job'.done = job.todo \cup job.done
    BY <1>1, <1>7
  <2>. QED BY <1>1, <1>7, <2>1, <2>2 DEF JobSound
<1>10. AuditSound' /\ AuditExact'
  BY <1>1, SoundFrame DEF AuditSound, AuditExact, repo
<1>11. ToldAtRest' /\ DeliveredWhole'
  BY <1>1 DEF ToldAtRest, DeliveredWhole
<1>12. DestExact'
  BY <1>2, <1>4, <1>5 DEF DestExact, Whole
<1>. QED BY <1>8, <1>9, <1>10, <1>11, <1>12

(* An operation ends with its answer. *)
LEMMA AnswerKeeps ==
  ASSUME RestoreInductive, NEW a \in {"restored", "cancelled", "corrupt", "mismatch", "io"},
         NEW o \in Objects \cup {NoObject}, Answer(a, o), faults' \in 0..MaxFaults,
         a = "restored" => job.phase = "entry" /\ job.todo = {}
  PROVE  RestoreInductive'
<1> USE DEF RestoreInductive
<1>1. /\ told' = [answer |-> a, snap |-> job.snap, files |-> job.done, object |-> o]
      /\ job' = NoJob /\ UNCHANGED <<repo, files, cancel, audit>>
  BY DEF Answer
<1>2. JobType(job')
  BY <1>1 DEF JobType, NoJob, Bytes
<1>3. AnswerType(told')
  BY <1>1 DEF AnswerType, TypeOK
<1>4. TypeOK'
  BY <1>1, <1>2, <1>3 DEF TypeOK, JobType, AnswerType, repo, files
<1>5. JobSound' /\ ToldAtRest'
  BY <1>1 DEF JobSound, ToldAtRest, NoJob
<1>6. AuditSound' /\ AuditExact'
  BY <1>1, SoundFrame DEF AuditSound, AuditExact, repo
<1>7. DestExact'
  BY <1>1 DEF DestExact, files
<1>8. DeliveredWhole'
  <2> SUFFICES ASSUME a = "restored" PROVE DeliveredWhole'
    BY <1>1 DEF DeliveredWhole
  <2>1. job.todo \cup job.done = job.done
    OBVIOUS
  <2>. QED BY <1>1, <2>1 DEF DeliveredWhole, JobSound, Asked, files
<1>. QED BY <1>4, <1>5, <1>6, <1>7, <1>8

LEMMA RestoreEndsKeep ==
  ASSUME RestoreInductive, RestoreDone \/ RestoreCancelled \/ ObjectBad \/ WholeBad \/ RestoreFails
  PROVE  RestoreInductive'
<1>1. faults \in 0..MaxFaults /\ MaxFaults \in Nat
  BY RestoreAssumption DEF RestoreInductive, TypeOK
<1>2. CASE RestoreDone
  BY <1>1, <1>2, AnswerKeeps DEF RestoreDone
<1>3. CASE RestoreCancelled
  BY <1>1, <1>3, AnswerKeeps DEF RestoreCancelled
<1>4. CASE ObjectBad
  <2>1. Head(job.left) \in Objects
    BY <1>4, HeadTailProperties DEF ObjectBad, RestoreInductive, TypeOK
  <2>. QED BY <1>1, <1>4, <2>1, AnswerKeeps DEF ObjectBad
<1>5. CASE WholeBad
  BY <1>1, <1>5, AnswerKeeps DEF WholeBad
<1>6. CASE RestoreFails
  BY <1>1, <1>6, AnswerKeeps DEF RestoreFails
<1>. QED BY <1>2, <1>3, <1>4, <1>5, <1>6

----------------------------------------------------------------------------
(* What the steps of an audit have in common. *)
LEMMA AuditStepKeeps ==
  ASSUME RestoreInductive, AuditType(audit'), AuditSound', AnswerType(told'), AuditExact',
         told' = told \/ (told'.answer # "restored" /\ told'.files \subseteq Objects),
         UNCHANGED <<repo, files, cancel, job, faults>>
  PROVE  RestoreInductive'
<1> USE DEF RestoreInductive
<1>1. TypeOK'
  BY DEF TypeOK, AuditType, AnswerType, repo, files
<1>2. JobSound' /\ DestExact'
  BY DEF JobSound, DestExact, files
<1>3. ToldAtRest' /\ DeliveredWhole'
  BY DEF ToldAtRest, DeliveredWhole, files
<1>. QED BY <1>1, <1>2, <1>3

LEMMA AuditNextKeeps ==
  ASSUME RestoreInductive, NEW o \in Objects, AuditNext(o) PROVE RestoreInductive'
<1> USE DEF RestoreInductive
<1>1. /\ audit.phase = "next" /\ o \in audit.todo
      /\ audit' = [audit EXCEPT !.phase = "read", !.object = o]
      /\ UNCHANGED <<repo, files, cancel, job, told, faults>>
  BY DEF AuditNext
<1>2. /\ audit'.phase = "read" /\ audit'.object = o /\ audit'.todo = audit.todo
      /\ audit'.damaged = audit.damaged
  BY <1>1 DEF TypeOK
<1>3. AuditType(audit') /\ AnswerType(told')
  BY <1>1 DEF TypeOK, AuditType, AnswerType
<1>4. AuditSound' /\ AuditExact'
  BY <1>1, <1>2, SoundFrame DEF AuditSound, AuditExact, repo
<1>. QED BY <1>1, <1>3, <1>4, AuditStepKeeps

LEMMA AuditReadKeeps == ASSUME RestoreInductive, AuditRead PROVE RestoreInductive'
<1> USE DEF RestoreInductive
<1> DEFINE o == audit.object
           d == IF Sound(o) /\ ~cancel THEN audit.damaged ELSE audit.damaged \cup {o}
<1>1. /\ audit.phase = "read"
      /\ audit' = [audit EXCEPT !.phase = "note", !.damaged = d]
      /\ UNCHANGED <<repo, files, cancel, job, told, faults>>
  BY DEF AuditRead
<1>2. o \in audit.todo /\ o \in Objects /\ d \in SUBSET Objects
  BY <1>1 DEF AuditSound, TypeOK
<1>. HIDE DEF d
<1>3. /\ audit'.phase = "note" /\ audit'.object = o /\ audit'.todo = audit.todo
      /\ audit'.damaged = d
  BY <1>1 DEF TypeOK
<1>4. AuditType(audit') /\ AnswerType(told')
  BY <1>1, <1>2 DEF TypeOK, AuditType, AnswerType
<1>5. AuditExact'
  BY <1>1, SoundFrame DEF AuditExact, repo
<1>6. AuditSound'
  <2>1. /\ \A x \in audit.damaged : ~Sound(x)
        /\ \A x \in Objects \ (audit.todo \cup audit.damaged) : Sound(x) \/ x \in rotten
    BY <1>1 DEF AuditSound
  <2>2. (~cancel /\ o \in d) => ~Sound(o)
    BY <2>1 DEF d
  <2>3. \A x \in d : x = o \/ ~Sound(x)
    BY <2>1 DEF d
  <2>4. o \in d \/ Sound(o)
    BY DEF d
  <2>5. \A x \in Objects \ (audit.todo \cup d) : Sound(x) \/ x \in rotten
    BY <2>1 DEF d
  <2>. QED
    BY <1>1, <1>2, <1>3, <2>2, <2>3, <2>4, <2>5, SoundFrame DEF AuditSound, repo
<1>. QED BY <1>1, <1>4, <1>5, <1>6, AuditStepKeeps

LEMMA AuditNoteKeeps == ASSUME RestoreInductive, AuditNote PROVE RestoreInductive'
<1> USE DEF RestoreInductive
<1>1. /\ audit.phase = "note" /\ ~cancel
      /\ audit' = [audit EXCEPT !.phase = "next", !.todo = @ \ {audit.object}]
      /\ UNCHANGED <<repo, files, cancel, job, told, faults>>
  BY DEF AuditNote
<1>2. /\ audit'.phase = "next" /\ audit'.todo = audit.todo \ {audit.object}
      /\ audit'.damaged = audit.damaged
  BY <1>1 DEF TypeOK
<1>3. AuditType(audit') /\ AnswerType(told')
  BY <1>1 DEF TypeOK, AuditType, AnswerType
<1>4. AuditExact'
  BY <1>1, SoundFrame DEF AuditExact, repo
<1>5. AuditSound'
  BY <1>1, <1>2, SoundFrame DEF AuditSound, repo
<1>. QED BY <1>1, <1>3, <1>4, <1>5, AuditStepKeeps

(* The only place where the list of an audit becomes an answer.            *)
LEMMA AuditEndsKeep ==
  ASSUME RestoreInductive, AuditCancelled \/ AuditDone PROVE RestoreInductive'
<1> USE DEF RestoreInductive
<1>1. /\ audit' = NoAudit /\ UNCHANGED <<repo, files, cancel, job, faults>>
      /\ \/ told' = [NoAnswer EXCEPT !.answer = "cancelled"]
         \/ audit.phase = "next" /\ audit.todo = {}
            /\ told' = [NoAnswer EXCEPT !.answer = "audit", !.files = audit.damaged]
  BY DEF AuditCancelled, AuditDone
<1>2. AuditType(audit') /\ AuditSound'
  BY <1>1 DEF AuditType, AuditSound, NoAudit
<1>3. CASE told' = [NoAnswer EXCEPT !.answer = "cancelled"]
  <2>1. told'.answer = "cancelled" /\ told'.files = {}
    BY <1>3 DEF NoAnswer
  <2>2. AnswerType(told')
    BY <1>3 DEF AnswerType, NoAnswer
  <2>. QED BY <1>1, <1>2, <2>1, <2>2, AuditStepKeeps DEF AuditExact
<1>4. CASE /\ audit.phase = "next" /\ audit.todo = {}
           /\ told' = [NoAnswer EXCEPT !.answer = "audit", !.files = audit.damaged]
  <2>1. told'.answer = "audit" /\ told'.files = audit.damaged
    BY <1>4 DEF NoAnswer
  <2>2. AnswerType(told')
    BY <1>4 DEF AnswerType, NoAnswer, TypeOK
  <2>3. AuditExact'
    BY <1>1, <1>4, <2>1, SoundFrame DEF AuditExact, AuditSound, repo
  <2>4. told'.files \subseteq Objects
    BY <2>1 DEF TypeOK
  <2>. QED BY <1>1, <1>2, <2>1, <2>2, <2>3, <2>4, AuditStepKeeps
<1>. QED BY <1>1, <1>3, <1>4

----------------------------------------------------------------------------
(* The beginnings of operations, and the world.                            *)
LEMMA BeginRestoreKeeps ==
  ASSUME RestoreInductive, NEW m \in Manifests, NEW F \in Asked(m), NEW all \in BOOLEAN,
         BeginRestore(m, F, all)
  PROVE  RestoreInductive'
<1> USE DEF RestoreInductive
<1>1. /\ Idle /\ cancel' = FALSE /\ told' = NoAnswer
      /\ job' = [NoJob EXCEPT !.phase = "entry", !.all = all, !.snap = m, !.todo = F]
      /\ UNCHANGED <<repo, files, audit, faults>>
  BY DEF BeginRestore
<1>2. F \subseteq Files
  BY RestoreAssumption DEF Asked
<1>3. /\ job'.phase = "entry" /\ job'.snap = m /\ job'.todo = F /\ job'.done = {}
  BY <1>1 DEF NoJob
<1>4. JobType(job')
  <2>1. job' = [phase |-> "entry", all |-> all, snap |-> m, todo |-> F, done |-> {},
                file |-> NoFile, left |-> <<>>, temp |-> <<>>, synced |-> FALSE]
    BY <1>1, Zenon DEF NoJob
  <2>. QED BY <1>2, <2>1 DEF JobType, Bytes
<1>5. TypeOK'
  <2>1. cancel' \in BOOLEAN
    BY <1>1, Zenon
  <2>2. AnswerType(told')
    BY <1>1 DEF AnswerType, NoAnswer
  <2>. QED BY <1>1, <1>4, <2>1, <2>2 DEF TypeOK, JobType, AnswerType, repo, files
<1>6. JobSound'
  BY <1>3 DEF JobSound
<1>7. AuditSound'
  BY <1>1 DEF AuditSound, Idle
<1>8. ToldAtRest' /\ DeliveredWhole' /\ AuditExact'
  BY <1>1 DEF ToldAtRest, DeliveredWhole, AuditExact, NoAnswer
<1>9. DestExact'
  BY <1>1 DEF DestExact, files
<1>. QED BY <1>5, <1>6, <1>7, <1>8, <1>9

LEMMA BeginAuditKeeps == ASSUME RestoreInductive, BeginAudit PROVE RestoreInductive'
<1> USE DEF RestoreInductive
<1>1. /\ cancel' = FALSE /\ told' = NoAnswer /\ rotten' = {}
      /\ audit' = [NoAudit EXCEPT !.phase = "next", !.todo = Objects]
      /\ UNCHANGED <<disk, files, job, faults>>
  BY DEF BeginAudit
<1>2. audit'.phase = "next" /\ audit'.todo = Objects /\ audit'.damaged = {}
  BY <1>1 DEF NoAudit
<1>3. TypeOK'
  <2>1. cancel' \in BOOLEAN
    BY <1>1, Zenon
  <2>2. AnswerType(told') /\ AuditType(audit')
    BY <1>1 DEF AnswerType, NoAnswer, AuditType, NoAudit
  <2>. QED BY <1>1, <2>1, <2>2 DEF TypeOK, AuditType, AnswerType, files
<1>4. JobSound' /\ DestExact'
  BY <1>1 DEF JobSound, DestExact, files
<1>5. AuditSound'
  BY <1>2 DEF AuditSound
<1>6. ToldAtRest' /\ DeliveredWhole' /\ AuditExact'
  BY <1>1 DEF ToldAtRest, DeliveredWhole, AuditExact, NoAnswer
<1>. QED BY <1>3, <1>4, <1>5, <1>6

LEMMA BeginKeeps == ASSUME RestoreInductive, Begin PROVE RestoreInductive'
<1>1. CASE BeginAudit
  BY <1>1, BeginAuditKeeps
<1>2. ASSUME NEW m \in Manifests, BeginRestore(m, DOMAIN m, TRUE) PROVE RestoreInductive'
  <2>1. DOMAIN m \in Asked(m) /\ TRUE \in BOOLEAN
    BY DEF Asked
  <2>. QED BY <1>2, <2>1, BeginRestoreKeeps
<1>3. ASSUME NEW m \in Manifests, NEW f \in DOMAIN m, BeginRestore(m, {f}, FALSE)
      PROVE  RestoreInductive'
  <2>1. {f} \in Asked(m) /\ FALSE \in BOOLEAN
    BY DEF Asked
  <2>. QED BY <1>3, <2>1, BeginRestoreKeeps
<1>. QED BY <1>1, <1>2, <1>3 DEF Begin

LEMMA StopKeeps == ASSUME RestoreInductive, Stop PROVE RestoreInductive'
<1> USE DEF RestoreInductive
<1>1. cancel' = TRUE /\ UNCHANGED <<repo, files, job, audit, told, faults>>
  BY DEF Stop
<1>2. TypeOK'
  <2>1. cancel' \in BOOLEAN
    BY <1>1, Zenon
  <2>. QED BY <1>1, <2>1 DEF TypeOK, repo, files
<1>3. AuditSound' /\ AuditExact'
  BY <1>1, SoundFrame DEF AuditSound, AuditExact, repo
<1>. QED
  BY <1>1, <1>2, <1>3 DEF JobSound, ToldAtRest, DestExact, DeliveredWhole, files

LEMMA DamageKeeps ==
  ASSUME RestoreInductive, NEW o \in Objects, Damage(o) PROVE RestoreInductive'
<1> USE DEF RestoreInductive
<1>1. /\ faults < MaxFaults /\ faults' = faults + 1 /\ rotten' = rotten \cup {o}
      /\ UNCHANGED <<files, cancel, job, audit, told>>
  BY DEF Damage
<1>2. /\ disk' \in [Objects -> Stored] /\ ~Sound(o)'
      /\ \A p \in Objects \ {o} : Sound(p)' = Sound(p)
  BY DamageFacts
<1>3. TypeOK'
  BY <1>1, <1>2, RestoreAssumption DEF TypeOK, files
<1>4. AuditSound'
  <2>1. \A x \in audit.damaged : x \in Objects
    BY DEF TypeOK
  <2>. QED BY <1>1, <1>2, <2>1 DEF AuditSound, TypeOK
<1>5. AuditExact'
  <2>1. told.answer = "audit" => \A x \in told.files : x \in Objects
    BY DEF ToldAtRest
  <2>. QED BY <1>1, <1>2, <2>1 DEF AuditExact
<1>. QED
  BY <1>1, <1>3, <1>4, <1>5 DEF JobSound, ToldAtRest, DestExact, DeliveredWhole, files

LEMMA CrashKeeps == ASSUME RestoreInductive, Crash PROVE RestoreInductive'
<1> USE DEF RestoreInductive
<1>1. PICK d \in [Files -> UNION {surviving[f] : f \in Files}] :
        /\ \A f \in Files : d[f] \in surviving[f]
        /\ dest' = d /\ surviving' = [f \in Files |-> {d[f]}]
  BY DEF Crash
<1>2. /\ faults < MaxFaults /\ faults' = faults + 1 /\ cancel' = FALSE
      /\ job' = NoJob /\ audit' = NoAudit /\ told' = NoAnswer /\ UNCHANGED repo
  BY DEF Crash
<1>3. TypeOK'
  <2>1. cancel' \in BOOLEAN
    BY <1>2, Zenon
  <2>2. JobType(job') /\ AuditType(audit') /\ AnswerType(told')
    BY <1>2 DEF JobType, NoJob, AuditType, NoAudit, AnswerType, NoAnswer, Bytes
  <2>3. \A f \in Files : d[f] \in Bytes \cup {Nothing, Mine, Torn}
    BY <1>1 DEF TypeOK
  <2>4. /\ dest' \in [Files -> Bytes \cup {Nothing, Mine, Torn}]
        /\ surviving' \in [Files -> SUBSET (Bytes \cup {Nothing, Mine, Torn})]
    BY <1>1, <2>3
  <2>5. faults' \in 0..MaxFaults
    BY <1>2, RestoreAssumption DEF TypeOK
  <2>. QED
    BY <1>2, <2>1, <2>2, <2>4, <2>5 DEF TypeOK, JobType, AuditType, AnswerType, repo
<1>4. JobSound' /\ AuditSound' /\ ToldAtRest' /\ DeliveredWhole' /\ AuditExact'
  BY <1>2 DEF JobSound, NoJob, AuditSound, NoAudit, ToldAtRest, DeliveredWhole, AuditExact, NoAnswer
<1>5. DestExact'
  BY <1>1 DEF DestExact, Whole
<1>. QED BY <1>3, <1>4, <1>5

LEMMA RestoreStutterKeeps == ASSUME RestoreInductive, UNCHANGED vars PROVE RestoreInductive'
<1>1. UNCHANGED <<repo, files, cancel, job, audit, told, faults>>
  BY DEF vars, repo, files
<1>2. TypeOK' /\ JobSound' /\ ToldAtRest' /\ DestExact' /\ DeliveredWhole'
  BY <1>1 DEF RestoreInductive, TypeOK, JobSound, ToldAtRest, DestExact, DeliveredWhole, repo, files
<1>3. AuditSound' /\ AuditExact'
  BY <1>1, SoundFrame DEF RestoreInductive, AuditSound, AuditExact, repo
<1>. QED BY <1>2, <1>3 DEF RestoreInductive

----------------------------------------------------------------------------
(* The invariant of restore, export and audit.                             *)
THEOREM RestoreInvariant == Spec => []RestoreInductive
<1>1. Init => RestoreInductive
  BY RestoreInitHolds
<1>2. RestoreInductive /\ [Next]_vars => RestoreInductive'
  <2> SUFFICES ASSUME RestoreInductive, [Next]_vars PROVE RestoreInductive'
    OBVIOUS
  <2>1. CASE Begin
    BY <2>1, BeginKeeps
  <2>2. CASE Engine
    BY <2>2, OpenEntryKeeps, CopyPartKeeps, VerifyKeeps, SyncKeeps, PersistKeeps, RestoreEndsKeep,
       AuditNextKeeps, AuditReadKeeps, AuditNoteKeeps, AuditEndsKeep DEF Engine
  <2>3. CASE World
    BY <2>3, StopKeeps, RestoreEndsKeep, DamageKeeps, CrashKeeps DEF World
  <2>4. CASE UNCHANGED vars
    BY <2>4, RestoreStutterKeeps
  <2>. QED BY <2>1, <2>2, <2>3, <2>4 DEF Next
<1>. QED BY <1>1, <1>2, PTL DEF Spec

(* Every variable keeps its type, for every repository and set of forms.   *)
THEOREM RestoreTypeOK == Spec => []TypeOK
<1>1. RestoreInductive => TypeOK
  BY DEF RestoreInductive
<1>. QED BY <1>1, RestoreInvariant, PTL

(* No failure, damage or power cut leaves at a destination anything but    *)
(* what was there or one whole version.                                    *)
THEOREM DestinationsExact == Spec => []DestExact
<1>1. RestoreInductive => DestExact
  BY DEF RestoreInductive
<1>. QED BY <1>1, RestoreInvariant, PTL

(* An export reported complete delivered what the point holds.             *)
THEOREM ExportsDeliver == Spec => []DeliveredWhole
<1>1. RestoreInductive => DeliveredWhole
  BY DEF RestoreInductive
<1>. QED BY <1>1, RestoreInvariant, PTL

(* The list of an audit is the damaged objects, Stop or no Stop.           *)
THEOREM AuditsExact == Spec => []AuditExact
<1>1. RestoreInductive => AuditExact
  BY DEF RestoreInductive
<1>. QED BY <1>1, RestoreInvariant, PTL
=============================================================================
