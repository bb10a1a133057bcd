------------------------ MODULE OperationGate_proofs ------------------------
(***************************************************************************)
(* Proofs about OperationGate for every set of commands, scans and folders *)
(* and every schedule interval.                                            *)
(***************************************************************************)
EXTENDS OperationGate, TLAPS

Frame == <<target, due, schedule, restarts>>

(* A step that only moves one task keeps the facts about the schedule.     *)
LEMMA MoveType ==
  ASSUME TypeOK, NEW t \in Tasks, NEW from, NEW to \in Phases, Move(t, from, to)
  PROVE  /\ pc' \in [Tasks -> Phases]
         /\ pc[t] = from /\ pc'[t] = to
         /\ \A u \in Tasks \ {t} : pc'[u] = pc[u]
BY DEF TypeOK, Move

LEMMA DaemonTask == Daemon \in Tasks /\ Daemon \notin Scans
BY GateAssumption DEF Tasks

LEMMA GateInit == Init => GateInductive
<1> SUFFICES ASSUME Init PROVE GateInductive
  OBVIOUS
<1> USE GateAssumption DEF Init
<1>1. TypeOK
  <2>1. age \in Ages /\ saved \in Ages /\ since \in Ages
    BY DEF Ages
  <2>2. restarts \in 0 .. MaxRestarts
    OBVIOUS
  <2>3. QED
    BY <2>1, <2>2 DEF TypeOK, Phases
<1>2. GateExclusive /\ StopReachesItsOwn /\ PausedLeftAlone /\ GateHeld /\ AskedAfterReset
  BY DaemonTask DEF GateExclusive, StopReachesItsOwn, AskedAfterReset, Running, PausedLeftAlone,
     GateHeld, Tasks
<1>3. ListCurrent
  BY DaemonTask DEF ListCurrent
<1>4. StampsRight
  <2>1. ASSUME NEW f \in Folders PROVE age[f] \in {0, Interval} /\ saved = age /\ since = age
    OBVIOUS
  <2>2. QED
    BY <2>1 DEF StampsRight
<1>5. QED
  BY <1>1, <1>2, <1>3, <1>4 DEF GateInductive
-----------------------------------------------------------------------------
(* Steps at the gate.                                                      *)

LEMMA BeginKeeps ==
  ASSUME GateInductive, NEW t \in Tasks, Begin(t)
  PROVE  GateInductive'
<1> USE GateAssumption, DaemonTask DEF GateInductive
<1>1. /\ pc' \in [Tasks -> Phases] /\ pc[t] = "idle" /\ pc'[t] = "entered"
      /\ \A u \in Tasks \ {t} : pc'[u] = pc[u]
  BY MoveType DEF Begin, Phases
<1>2. \A u \in Tasks \ {t} : pc[u] = "idle"
  BY DEF Begin, GateHeld
<1>3. TypeOK'
  BY <1>1 DEF TypeOK, Begin, schedule
<1>4. GateExclusive' /\ StopReachesItsOwn' /\ AskedAfterReset'
  BY <1>1, <1>2 DEF GateExclusive, StopReachesItsOwn, AskedAfterReset, Running, Begin
<1>5. PausedLeftAlone' /\ ListCurrent'
  BY <1>1, <1>2 DEF PausedLeftAlone, ListCurrent, Begin, schedule
<1>6. GateHeld'
  BY <1>1, <1>2 DEF GateHeld, Begin
<1>7. StampsRight'
  BY DEF StampsRight, Begin, schedule
<1>8. QED
  BY <1>3, <1>4, <1>5, <1>6, <1>7

LEMMA ClearKeeps ==
  ASSUME GateInductive, NEW t \in Tasks, ClearCancel(t)
  PROVE  GateInductive'
<1> USE GateAssumption, DaemonTask DEF GateInductive
<1>1. /\ pc' \in [Tasks -> Phases] /\ pc[t] = "entered" /\ pc'[t] = "begun"
      /\ \A u \in Tasks \ {t} : pc'[u] = pc[u]
  BY MoveType DEF ClearCancel, Phases
<1>2. \A u \in Tasks \ {t} : pc[u] = "idle"
  BY <1>1 DEF GateExclusive
<1>3. TypeOK'
  BY <1>1 DEF TypeOK, ClearCancel, schedule
<1>4. GateExclusive' /\ StopReachesItsOwn' /\ AskedAfterReset'
  BY <1>1, <1>2 DEF GateExclusive, StopReachesItsOwn, AskedAfterReset, ClearCancel, Running
<1>5. PausedLeftAlone' /\ ListCurrent'
  BY <1>1, <1>2 DEF PausedLeftAlone, ListCurrent, ClearCancel, schedule
<1>6. GateHeld'
  BY <1>1, <1>2 DEF GateHeld, ClearCancel
<1>7. StampsRight'
  BY DEF StampsRight, ClearCancel, schedule
<1>8. QED
  BY <1>3, <1>4, <1>5, <1>6, <1>7

LEMMA StopKeeps == ASSUME GateInductive, Stop PROVE GateInductive'
<1> USE DEF GateInductive, Stop, schedule
<1>1. TypeOK'
  BY DEF TypeOK
<1>2. StopReachesItsOwn' /\ AskedAfterReset'
  BY DEF StopReachesItsOwn, AskedAfterReset, Running, TypeOK, Phases
<1>3. QED
  BY <1>1, <1>2 DEF GateExclusive, PausedLeftAlone, GateHeld, ListCurrent,
     StampsRight

LEMMA DropKeeps ==
  ASSUME GateInductive, NEW t \in Tasks, Drop(t)
  PROVE  GateInductive'
<1> USE GateAssumption, DaemonTask DEF GateInductive
<1>1. /\ pc' \in [Tasks -> Phases] /\ pc[t] = "leaving" /\ pc'[t] = "idle"
      /\ \A u \in Tasks \ {t} : pc'[u] = pc[u]
  BY MoveType DEF Drop, Phases
<1>2. \A u \in Tasks : pc'[u] = "idle"
  BY <1>1 DEF GateExclusive
<1>3. TypeOK'
  BY <1>1 DEF TypeOK, Drop, schedule
<1>4. GateExclusive' /\ StopReachesItsOwn' /\ AskedAfterReset'
  <2>1. asked'[t] = FALSE /\ \A u \in Tasks \ {t} : pc[u] = "idle" /\ asked'[u] = asked[u]
    BY <1>1 DEF TypeOK, Drop, GateExclusive
  <2>. QED BY <1>2, <2>1 DEF GateExclusive, StopReachesItsOwn, AskedAfterReset, Running
<1>5. PausedLeftAlone' /\ ListCurrent'
  BY <1>1, <1>2 DEF PausedLeftAlone, ListCurrent, Drop, schedule, GateExclusive
<1>6. GateHeld'
  BY <1>1, <1>2 DEF GateHeld, Drop, GateExclusive
<1>7. StampsRight'
  BY DEF StampsRight, Drop, schedule
<1>8. QED
  BY <1>3, <1>4, <1>5, <1>6, <1>7
-----------------------------------------------------------------------------
(* Foreground work.                                                        *)

LEMMA ScanKeeps ==
  ASSUME GateInductive, NEW t \in Tasks, (t \in Scans /\ Scan(t)) \/ Refused(t)
  PROVE  GateInductive'
<1> USE GateAssumption, DaemonTask DEF GateInductive
<1>1. /\ pc' \in [Tasks -> Phases] /\ pc[t] = "begun"
      /\ pc'[t] \in {"working", "leaving"} /\ (t \notin Scans => pc'[t] = "leaving")
      /\ \A u \in Tasks \ {t} : pc'[u] = pc[u]
  BY MoveType DEF Scan, Refused, Phases
<1>2. \A u \in Tasks \ {t} : pc[u] = "idle"
  BY <1>1 DEF GateExclusive
<1>3. UNCHANGED <<gate, target, due, schedule, asked, restarts>>
  BY DEF Scan, Refused
<1>4. TypeOK'
  BY <1>1, <1>3 DEF TypeOK, gate, schedule
<1>5. GateExclusive' /\ StopReachesItsOwn' /\ AskedAfterReset'
  BY <1>1, <1>2, <1>3 DEF GateExclusive, StopReachesItsOwn, AskedAfterReset, Running, gate
<1>6. PausedLeftAlone' /\ ListCurrent'
  BY <1>1, <1>2, <1>3 DEF PausedLeftAlone, ListCurrent, schedule
<1>7. GateHeld'
  BY <1>1, <1>2, <1>3 DEF GateHeld, gate
<1>8. StampsRight'
  BY <1>3 DEF StampsRight, schedule
<1>9. QED
  BY <1>4, <1>5, <1>6, <1>7, <1>8

LEMMA LockKeeps ==
  ASSUME GateInductive, NEW t \in Commands, NEW f \in Folders \cup {NoFolder},
         Lock(t, f)
  PROVE  GateInductive'
<1> USE GateAssumption, DaemonTask DEF GateInductive
<1>0. t \in Tasks /\ t \notin Scans /\ t # Daemon
  BY DEF Tasks
<1>1. /\ pc' \in [Tasks -> Phases] /\ pc[t] = "begun" /\ pc'[t] = "working"
      /\ \A u \in Tasks \ {t} : pc'[u] = pc[u]
  BY <1>0, MoveType DEF Lock, Phases
<1>2. \A u \in Tasks \ {t} : pc[u] = "idle"
  BY <1>0, <1>1 DEF GateExclusive
<1>3. /\ age' \in Ages
      /\ \A g \in Folders : age'[g] = age[g] \/ age'[g] = 0
  BY DEF Lock, Stamped, TypeOK, Ages
<1>4. TypeOK'
  BY <1>0, <1>1, <1>3 DEF TypeOK, Lock
<1>5. GateExclusive' /\ StopReachesItsOwn' /\ AskedAfterReset'
  BY <1>0, <1>1, <1>2 DEF GateExclusive, StopReachesItsOwn, AskedAfterReset, Running, Lock
<1>6. due = {} /\ due' = {}
  BY <1>0, <1>2 DEF ListCurrent, Lock
<1>7. PausedLeftAlone' /\ ListCurrent'
  BY <1>0, <1>1, <1>2, <1>6 DEF PausedLeftAlone, ListCurrent
<1>8. GateHeld'
  BY <1>0, <1>1, <1>2 DEF GateHeld, Lock
<1>9. StampsRight'
  <2> SUFFICES ASSUME NEW g \in Folders
               PROVE  /\ stamp[g] \notin {"lost", "never"} => age'[g] <= since[g]
                      /\ stamp[g] = "saved" => saved[g] <= since[g]
    BY DEF StampsRight, Lock
  <2>1. since[g] \in 0 .. Interval
    BY DEF TypeOK, Ages
  <2>2. QED
    BY <1>3, <2>1 DEF StampsRight
<1>10. QED
  BY <1>4, <1>5, <1>7, <1>8, <1>9

(* Saving the registry makes the stamps in memory those on disk.           *)
LEMMA SaveKeepsStamps ==
  ASSUME TypeOK, StampsRight, age' = age, since' = since,
         \/ saved' = age /\ stamp' = SavedStamps
         \/ UNCHANGED <<saved, stamp>>
  PROVE  /\ StampsRight'
         /\ saved' \in Ages /\ stamp' \in [Folders -> {"memory", "saved", "lost", "never"}]
<1>1. CASE saved' = age /\ stamp' = SavedStamps
  <2>1. \A f \in Folders : stamp'[f] = IF stamp[f] = "memory" THEN "saved" ELSE stamp[f]
    BY <1>1 DEF SavedStamps
  <2>2. QED
    BY <1>1, <2>1 DEF StampsRight, TypeOK, SavedStamps
<1>2. CASE UNCHANGED <<saved, stamp>>
  BY <1>2 DEF StampsRight, TypeOK
<1>3. QED
  BY <1>1, <1>2

(* Another repository brings folders of which no attempt is known.         *)
LEMMA ReopenKeepsStamps ==
  ASSUME TypeOK, Reopen
  PROVE  /\ StampsRight'
         /\ loaded' \in Loads /\ paused' \in [Folders -> BOOLEAN]
         /\ age' \in Ages /\ saved' \in Ages /\ since' \in Ages
         /\ stamp' \in [Folders -> {"memory", "saved", "lost", "never"}]
<1>1. age' \in Ages
  BY GateAssumption DEF Reopen, Ages
<1>2. \A f \in Folders : stamp'[f] = "lost"
  BY DEF Reopen
<1>3. QED
  BY <1>1, <1>2 DEF Reopen, StampsRight, TypeOK, Loads

(* What the end of an operation may leave of the schedule.                 *)
LEMMA OutcomeKeepsStamps ==
  ASSUME TypeOK, StampsRight, Save \/ UNCHANGED schedule
  PROVE  /\ StampsRight'
         /\ UNCHANGED <<loaded, paused, age, since>>
         /\ saved' \in Ages /\ stamp' \in [Folders -> {"memory", "saved", "lost", "never"}]
<1>1. UNCHANGED <<loaded, paused, age, since>>
  BY DEF Save, schedule
<1>2. \/ saved' = age /\ stamp' = SavedStamps
      \/ UNCHANGED <<saved, stamp>>
  BY DEF Save, schedule
<1>3. QED
  BY <1>1, <1>2, SaveKeepsStamps

LEMMA FinishKeeps ==
  ASSUME GateInductive, NEW t \in Tasks, t # Daemon, Finish(t)
  PROVE  GateInductive'
<1> USE GateAssumption, DaemonTask DEF GateInductive
<1>1. /\ pc' \in [Tasks -> Phases] /\ pc[t] = "working" /\ pc'[t] = "leaving"
      /\ \A u \in Tasks \ {t} : pc'[u] = pc[u]
  BY MoveType DEF Finish, Phases
<1>2. \A u \in Tasks \ {t} : pc[u] = "idle"
  BY <1>1 DEF GateExclusive
<1>3. /\ StampsRight'
      /\ loaded' \in Loads /\ paused' \in [Folders -> BOOLEAN]
      /\ age' \in Ages /\ saved' \in Ages /\ since' \in Ages
      /\ stamp' \in [Folders -> {"memory", "saved", "lost", "never"}]
  <2>1. CASE Reopen
    BY <2>1, ReopenKeepsStamps
  <2>2. CASE Save \/ UNCHANGED schedule
    BY <2>2, OutcomeKeepsStamps DEF TypeOK
  <2>3. QED
    BY <2>1, <2>2 DEF Finish
<1>4. TypeOK'
  BY <1>1, <1>3 DEF TypeOK, Finish
<1>5. GateExclusive' /\ StopReachesItsOwn' /\ AskedAfterReset'
  BY <1>1, <1>2 DEF GateExclusive, StopReachesItsOwn, AskedAfterReset, Running, Finish
<1>6. PausedLeftAlone' /\ ListCurrent'
  <2>1. due = {} /\ due' = {}
    BY <1>2 DEF ListCurrent, Finish
  <2>2. QED
    BY <1>1, <1>2, <2>1 DEF PausedLeftAlone, ListCurrent
<1>7. GateHeld'
  BY <1>1, <1>2 DEF GateHeld, Finish, Tasks
<1>8. QED
  BY <1>3, <1>4, <1>5, <1>6, <1>7
-----------------------------------------------------------------------------
(* The daemon's batch.                                                     *)

LEMMA LockBatchKeeps == ASSUME GateInductive, LockBatch PROVE GateInductive'
<1> USE GateAssumption, DaemonTask DEF GateInductive
<1>1. /\ pc' \in [Tasks -> Phases] /\ pc[Daemon] = "begun" /\ pc'[Daemon] = "batch"
      /\ \A u \in Tasks \ {Daemon} : pc'[u] = pc[u]
  BY MoveType DEF LockBatch, Phases
<1>2. \A u \in Tasks \ {Daemon} : pc[u] = "idle"
  BY <1>1 DEF GateExclusive
<1>3. TypeOK'
  BY <1>1 DEF TypeOK, LockBatch, schedule, Due
<1>4. GateExclusive' /\ StopReachesItsOwn' /\ AskedAfterReset'
  BY <1>1, <1>2 DEF GateExclusive, StopReachesItsOwn, AskedAfterReset, Running, LockBatch
<1>5. PausedLeftAlone'
  BY <1>1 DEF PausedLeftAlone
<1>6. ListCurrent'
  <2>1. UNCHANGED <<paused, age>> /\ due' = Due
    BY DEF LockBatch, schedule
  <2>2. ASSUME NEW f \in due' PROVE ~paused'[f] /\ age'[f] = Interval
    <3>1. f \in Folders /\ ~paused[f] /\ age[f] >= Interval /\ age[f] \in 0 .. Interval
      BY <2>1, <2>2 DEF Due, TypeOK, Ages
    <3>2. QED
      BY <2>1, <3>1
  <2>3. QED
    BY <1>1, <2>2 DEF ListCurrent
<1>7. GateHeld'
  BY <1>1, <1>2 DEF GateHeld, LockBatch
<1>8. StampsRight'
  BY DEF StampsRight, LockBatch, schedule
<1>9. QED
  BY <1>3, <1>4, <1>5, <1>6, <1>7, <1>8

LEMMA CaptureKeeps ==
  ASSUME GateInductive, NEW f \in Folders, Capture(f)
  PROVE  GateInductive'
<1> USE GateAssumption, DaemonTask DEF GateInductive
<1>1. /\ pc' \in [Tasks -> Phases] /\ pc[Daemon] = "batch" /\ pc'[Daemon] = "working"
      /\ \A u \in Tasks \ {Daemon} : pc'[u] = pc[u]
  BY MoveType DEF Capture, Phases
<1>2. \A u \in Tasks \ {Daemon} : pc[u] = "idle"
  BY <1>1 DEF GateExclusive
<1>3. /\ age' \in Ages /\ since' \in Ages
      /\ stamp' \in [Folders -> {"memory", "saved", "lost", "never"}]
  BY DEF Capture, Stamped, TypeOK, Ages
<1>4. TypeOK'
  BY <1>1, <1>3 DEF TypeOK, Capture, gate
<1>5. GateExclusive' /\ StopReachesItsOwn' /\ AskedAfterReset'
  BY <1>1, <1>2 DEF GateExclusive, StopReachesItsOwn, AskedAfterReset, Running, Capture, gate
<1>6. PausedLeftAlone'
  BY DEF ListCurrent, PausedLeftAlone, Capture
<1>7. ListCurrent'
  <2>1. \A g \in due' : g \in due /\ g # f /\ g \in Folders /\ age'[g] = age[g]
    BY DEF Capture, Stamped, TypeOK, Ages
  <2>2. QED
    BY <1>1, <2>1 DEF ListCurrent, Capture
<1>8. GateHeld'
  BY <1>1, <1>2 DEF GateHeld, Capture, gate
<1>9. StampsRight'
  <2> SUFFICES ASSUME NEW g \in Folders
               PROVE  /\ stamp'[g] \notin {"lost", "never"} => age'[g] <= since'[g]
                      /\ stamp'[g] = "saved" => saved'[g] <= since'[g]
    BY DEF StampsRight
  <2>1. CASE g = f
    BY <2>1 DEF Capture, Stamped, TypeOK, Ages
  <2>2. CASE g # f
    BY <2>2 DEF Capture, Stamped, TypeOK, Ages, StampsRight
  <2>3. QED
    BY <2>1, <2>2
<1>10. QED
  BY <1>4, <1>5, <1>6, <1>7, <1>8, <1>9

LEMMA CapturedKeeps == ASSUME GateInductive, Captured PROVE GateInductive'
<1> USE GateAssumption, DaemonTask DEF GateInductive
<1>1. /\ pc' \in [Tasks -> Phases] /\ pc[Daemon] = "working" /\ pc'[Daemon] = "batch"
      /\ \A u \in Tasks \ {Daemon} : pc'[u] = pc[u]
  BY MoveType DEF Captured, Phases
<1>2. \A u \in Tasks \ {Daemon} : pc[u] = "idle"
  BY <1>1 DEF GateExclusive
<1>3. /\ StampsRight'
      /\ UNCHANGED <<loaded, paused, age, since>>
      /\ saved' \in Ages /\ stamp' \in [Folders -> {"memory", "saved", "lost", "never"}]
  BY OutcomeKeepsStamps DEF Captured
<1>4. TypeOK'
  BY <1>1, <1>3 DEF TypeOK, Captured, gate
<1>5. GateExclusive' /\ StopReachesItsOwn' /\ AskedAfterReset'
  BY <1>1, <1>2 DEF GateExclusive, StopReachesItsOwn, AskedAfterReset, Running, Captured, gate
<1>6. PausedLeftAlone' /\ ListCurrent'
  BY <1>1, <1>3 DEF PausedLeftAlone, ListCurrent, Captured
<1>7. GateHeld'
  BY <1>1, <1>2 DEF GateHeld, Captured, gate
<1>8. QED
  BY <1>3, <1>4, <1>5, <1>6, <1>7

LEMMA EndBatchKeeps == ASSUME GateInductive, EndBatch PROVE GateInductive'
<1> USE GateAssumption, DaemonTask DEF GateInductive
<1>1. /\ pc' \in [Tasks -> Phases] /\ pc[Daemon] = "batch" /\ pc'[Daemon] = "leaving"
      /\ \A u \in Tasks \ {Daemon} : pc'[u] = pc[u]
  BY MoveType DEF EndBatch, Phases
<1>2. \A u \in Tasks \ {Daemon} : pc[u] = "idle"
  BY <1>1 DEF GateExclusive
<1>3. TypeOK'
  BY <1>1 DEF TypeOK, EndBatch, schedule
<1>4. GateExclusive' /\ StopReachesItsOwn' /\ AskedAfterReset'
  BY <1>1, <1>2 DEF GateExclusive, StopReachesItsOwn, AskedAfterReset, Running, EndBatch
<1>5. PausedLeftAlone' /\ ListCurrent'
  BY <1>1 DEF PausedLeftAlone, ListCurrent, EndBatch
<1>6. GateHeld'
  BY <1>1, <1>2 DEF GateHeld, EndBatch, Tasks
<1>7. StampsRight'
  BY DEF StampsRight, EndBatch, schedule
<1>8. QED
  BY <1>3, <1>4, <1>5, <1>6, <1>7
-----------------------------------------------------------------------------
(* The world.                                                              *)

LEMMA PanicKeeps ==
  ASSUME GateInductive, NEW t \in Tasks, Panic(t)
  PROVE  GateInductive'
<1> USE GateAssumption, DaemonTask DEF GateInductive
<1>1. /\ pc' \in [Tasks -> Phases] /\ pc[t] \in {"batch", "working"}
      /\ pc'[t] = "leaving" /\ \A u \in Tasks \ {t} : pc'[u] = pc[u]
  BY DEF Panic, TypeOK, Phases
<1>2. \A u \in Tasks \ {t} : pc[u] = "idle"
  BY <1>1 DEF GateExclusive
<1>3. TypeOK'
  BY <1>1 DEF TypeOK, Panic, schedule
<1>4. GateExclusive' /\ StopReachesItsOwn' /\ AskedAfterReset'
  BY <1>1, <1>2 DEF GateExclusive, StopReachesItsOwn, AskedAfterReset, Running, Panic
<1>5. PausedLeftAlone' /\ ListCurrent'
  BY <1>1, <1>2 DEF PausedLeftAlone, ListCurrent, Panic
<1>6. GateHeld'
  BY <1>1, <1>2 DEF GateHeld, Panic, Tasks
<1>7. StampsRight'
  BY DEF StampsRight, Panic, schedule
<1>8. QED
  BY <1>3, <1>4, <1>5, <1>6, <1>7

(* Nobody works on the repository while its mutex is free.                 *)
LEMMA FreeMutex ==
  ASSUME GateInductive, mutex = NoTask
  PROVE  /\ pc[Daemon] \notin {"batch", "working"}
         /\ due = {}
BY GateAssumption, DaemonTask DEF GateInductive, GateHeld, ListCurrent

LEMMA SetPausedKeeps ==
  ASSUME GateInductive, NEW f \in Folders, NEW b \in BOOLEAN, SetPaused(f, b)
  PROVE  GateInductive'
<1> USE GateAssumption, DaemonTask DEF GateInductive
<1>1. pc[Daemon] \notin {"batch", "working"} /\ due = {}
  BY FreeMutex DEF SetPaused
<1>2. /\ StampsRight'
      /\ saved' \in Ages /\ stamp' \in [Folders -> {"memory", "saved", "lost", "never"}]
  BY SaveKeepsStamps DEF SetPaused
<1>3. TypeOK'
  BY <1>2 DEF TypeOK, SetPaused, gate
<1>4. PausedLeftAlone' /\ ListCurrent'
  BY <1>1 DEF PausedLeftAlone, ListCurrent, SetPaused
<1>5. QED
  BY <1>2, <1>3, <1>4 DEF GateExclusive, StopReachesItsOwn, AskedAfterReset, Running, GateHeld,
     SetPaused, gate

LEMMA LaterType ==
  ASSUME NEW a \in Ages
  PROVE  /\ Later(a) \in Ages
         /\ \A f \in Folders :
              Later(a)[f] = IF a[f] < Interval THEN a[f] + 1 ELSE Interval
BY GateAssumption DEF Later, Ages

LEMMA MinuteKeeps == ASSUME GateInductive, Minute PROVE GateInductive'
<1> USE GateAssumption, DaemonTask DEF GateInductive
<1>1. age \in Ages /\ saved \in Ages /\ since \in Ages
  BY DEF TypeOK
<1>2. /\ age' \in Ages /\ saved' \in Ages /\ since' \in Ages
      /\ \A f \in Folders :
           /\ age'[f] = IF age[f] < Interval THEN age[f] + 1 ELSE Interval
           /\ saved'[f] = IF saved[f] < Interval THEN saved[f] + 1 ELSE Interval
           /\ since'[f] = IF since[f] < Interval THEN since[f] + 1 ELSE Interval
  BY <1>1, LaterType DEF Minute
<1>3. TypeOK'
  BY <1>2 DEF TypeOK, Minute, gate
<1>4. ListCurrent'
  <2>1. \A f \in due : f \in Folders /\ age'[f] = Interval
    BY <1>2 DEF ListCurrent, TypeOK
  <2>2. QED
    BY <2>1 DEF ListCurrent, Minute
<1>5. StampsRight'
  <2> SUFFICES ASSUME NEW f \in Folders
               PROVE  /\ stamp[f] \notin {"lost", "never"} => age'[f] <= since'[f]
                      /\ stamp[f] = "saved" => saved'[f] <= since'[f]
    BY DEF StampsRight, Minute
  <2>1. age[f] \in Nat /\ saved[f] \in Nat /\ since[f] \in Nat
    BY <1>1 DEF Ages
  <2>2. QED
    BY <1>2, <2>1 DEF StampsRight
<1>6. QED
  BY <1>3, <1>4, <1>5 DEF GateExclusive, StopReachesItsOwn, AskedAfterReset, Running,
     PausedLeftAlone, GateHeld, Minute, gate

LEMMA RestartKeeps == ASSUME GateInductive, Restart PROVE GateInductive'
<1> USE GateAssumption, DaemonTask DEF GateInductive
<1>1. \A t \in Tasks : pc'[t] = "idle"
  BY DEF Restart
<1>2. TypeOK'
  <2>1. restarts' \in 0 .. MaxRestarts
    BY DEF TypeOK, Restart
  <2>2. stamp' \in [Folders -> {"memory", "saved", "lost", "never"}]
    BY DEF TypeOK, Restart
  <2>3. QED
    BY <2>1, <2>2 DEF TypeOK, Restart, Phases
<1>3. GateExclusive' /\ StopReachesItsOwn' /\ AskedAfterReset' /\ PausedLeftAlone' /\ ListCurrent'
  BY <1>1 DEF GateExclusive, StopReachesItsOwn, AskedAfterReset, Running, PausedLeftAlone,
     ListCurrent, Restart
<1>4. GateHeld'
  BY <1>1 DEF GateHeld, Restart, Tasks
<1>5. StampsRight'
  <2> SUFFICES ASSUME NEW f \in Folders
               PROVE  /\ stamp'[f] \notin {"lost", "never"} => age'[f] <= since'[f]
                      /\ stamp'[f] = "saved" => saved'[f] <= since'[f]
    BY DEF StampsRight
  <2>1. /\ stamp'[f] = IF stamp[f] = "memory" THEN "lost" ELSE stamp[f]
        /\ stamp[f] \in {"memory", "saved", "lost", "never"}
        /\ age' = saved /\ saved' = saved /\ since' = since
    BY DEF Restart, TypeOK
  <2>2. QED
    BY <2>1 DEF StampsRight
<1>6. QED
  BY <1>2, <1>3, <1>4, <1>5
-----------------------------------------------------------------------------
LEMMA GateStep == GateInductive /\ [Next]_vars => GateInductive'
<1> SUFFICES ASSUME GateInductive, [Next]_vars PROVE GateInductive'
  OBVIOUS
<1>1. ASSUME NEW t \in Tasks, Begin(t) \/ Panic(t) PROVE GateInductive'
  BY <1>1, BeginKeeps, PanicKeeps
<1>2. ASSUME NEW t \in Tasks, Run(t) PROVE GateInductive'
  <2>1. CASE ClearCancel(t) \/ Drop(t)
    BY <2>1, ClearKeeps, DropKeeps
  <2>2. CASE t \in Scans /\ (Scan(t) \/ Finish(t))
    BY <2>2, ScanKeeps, FinishKeeps, DaemonTask
  <2>3. CASE t \in Commands /\ (Refused(t) \/ Finish(t)
                                \/ \E f \in Folders \cup {NoFolder} : Lock(t, f))
    BY <2>3, ScanKeeps, FinishKeeps, LockKeeps, GateAssumption
  <2>4. CASE t = Daemon /\ (Refused(t) \/ LockBatch \/ Captured \/ EndBatch
                            \/ \E f \in Folders : Capture(f))
    BY <2>4, ScanKeeps, LockBatchKeeps, CapturedKeeps, EndBatchKeeps, CaptureKeeps
  <2>5. QED
    BY <1>2, <2>1, <2>2, <2>3, <2>4 DEF Run
<1>3. CASE Stop \/ Minute \/ Restart
  BY <1>3, StopKeeps, MinuteKeeps, RestartKeeps
<1>4. ASSUME NEW f \in Folders, NEW b \in BOOLEAN, SetPaused(f, b)
      PROVE  GateInductive'
  BY <1>4, SetPausedKeeps
<1>5. CASE UNCHANGED vars
  BY <1>5 DEF vars, gate, schedule, GateInductive, TypeOK, GateExclusive,
     StopReachesItsOwn, AskedAfterReset, Running, PausedLeftAlone, GateHeld, ListCurrent,
     StampsRight
<1>6. QED
  BY <1>1, <1>2, <1>3, <1>4, <1>5 DEF Next

(* The inductive invariant of the gate, the batch and the schedule.        *)
THEOREM GateInductiveHolds == Spec => []GateInductive
<1>1. Init => GateInductive
  BY GateInit
<1>2. GateInductive /\ [Next]_vars => GateInductive'
  BY GateStep
<1>3. QED
  BY <1>1, <1>2, PTL DEF Spec

(* No two of recovery, capture, export, maintenance and daemon run at once.*)
THEOREM OneOperation == Spec => []GateExclusive
<1>1. GateInductive => GateExclusive
  BY DEF GateInductive
<1>2. QED
  BY <1>1, GateInductiveHolds, PTL

(* A Stop never cancels an operation that began after it, and one pressed  *)
(* while an operation works stays up until that operation leaves.          *)
THEOREM StopIsPersonal == Spec => []StopReachesItsOwn
<1>1. GateInductive => StopReachesItsOwn
  BY DEF GateInductive
<1>2. QED
  BY <1>1, GateInductiveHolds, PTL

(* The daemon captures no folder whose schedule is paused.                 *)
THEOREM PauseRespected == Spec => []PausedLeftAlone
<1>1. GateInductive => PausedLeftAlone
  BY DEF GateInductive
<1>2. QED
  BY <1>1, GateInductiveHolds, PTL

(* The daemon spaces its attempts on a folder by the schedule interval.    *)
THEOREM DaemonSpacesAttempts == Spec => AttemptsSpaced
<1>1. ASSUME GateInductive, Next, NEW f \in Folders,
             pc[Daemon] = "batch", pc'[Daemon] = "working", target' = f
      PROVE  since[f] = Interval \/ stamp[f] \in {"lost", "never"}
  <2>1. f \in due
    <3>1. ASSUME NEW t \in Tasks, Begin(t) \/ Panic(t) PROVE FALSE
      BY <1>1, <3>1, DaemonTask DEF Begin, Panic, Move, GateInductive, TypeOK
    <3>2. ASSUME NEW t \in Tasks, Run(t) PROVE f \in due
      BY <1>1, <3>2, DaemonTask, GateAssumption
         DEF Run, ClearCancel, Drop, Scan, Finish, Refused, Lock, LockBatch,
             Captured, EndBatch, Capture, Move, GateInductive, TypeOK
    <3>3. CASE Stop \/ Minute \/ Restart
      BY <1>1, <3>3, DaemonTask DEF Stop, Minute, Restart
    <3>4. ASSUME NEW g \in Folders, NEW b \in BOOLEAN, SetPaused(g, b) PROVE FALSE
      BY <1>1, <3>4 DEF SetPaused
    <3>5. QED
      BY <1>1, <3>1, <3>2, <3>3, <3>4 DEF Next
  <2>2. age[f] = Interval /\ since[f] \in 0 .. Interval
    BY <1>1, <2>1 DEF GateInductive, ListCurrent, TypeOK, Ages
  <2>3. stamp[f] \notin {"lost", "never"} => age[f] <= since[f]
    BY <1>1 DEF GateInductive, StampsRight
  <2>4. QED
    BY <2>2, <2>3, GateAssumption
<1>2. GateInductive /\ [Next]_vars =>
        [\A f \in Folders :
           Attempts(f) => since[f] = Interval \/ stamp[f] \in {"lost", "never"}]_vars
  BY <1>1 DEF Attempts
<1>3. QED
  BY <1>2, GateInductiveHolds, PTL DEF Spec, AttemptsSpaced
=============================================================================
