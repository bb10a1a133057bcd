---------------------------- MODULE OperationGate ----------------------------
(***************************************************************************)
(* The gate all disk operations of the desktop shell pass: RecoveryState   *)
(* in src-tauri/src/workbench.rs (one atomic "active", one shared atomic   *)
(* "cancel", a guard that clears "active" when dropped), the mutex around  *)
(* the TimeCapsule, and the minute daemon of src-tauri/src/main.rs that    *)
(* captures the folders whose schedule is due.                             *)
(*                                                                         *)
(* What a capture does to the repository is TimeCapsule's subject; here a  *)
(* capture is only the time between taking and releasing the mutex.  Ages  *)
(* are minutes and stop counting at the schedule interval.                 *)
(***************************************************************************)
EXTENDS Integers

CONSTANTS
  Commands,     \* gated user commands that lock the TimeCapsule
  Scans,        \* gated user commands that do not: recovery_scan
  Daemon,       \* the schedule
  Folders,      \* registered folders
  NoTask, NoFolder,
  Interval,     \* minutes between captures: policy.interval_minutes, or
                \* what stands for it when policy.json could not be read
  MayPanic,     \* worker threads may panic
  MaxRestarts   \* bound: how often the program is killed and started again

Tasks == Commands \cup Scans \cup {Daemon}

ASSUME GateAssumption ==
  /\ Commands \cap Scans = {} /\ Daemon \notin Commands \cup Scans
  /\ NoTask \notin Tasks /\ NoFolder \notin Folders
  /\ Interval \in Nat \ {0}
  /\ MayPanic \in BOOLEAN
  /\ MaxRestarts \in Nat

Phases == {"idle", "entered", "begun", "batch", "working", "leaving"}

(* initialize reads folders.json and then policy.json; an error leaves     *)
(* load_error set, and with it every operation that calls ready refused.   *)
Loads == {"all", "folders", "nothing"}

VARIABLES
  active, cancel,   \* the two atomics of RecoveryState
  mutex, poisoned,  \* holder of the TimeCapsule mutex; a holder panicked
  pc,               \* phase of every task
  target,           \* the folder being captured
  due,              \* what is left of the daemon's list
  loaded,           \* what initialize has read of the repository
  paused,           \* the user paused the folder's schedule
  age,              \* minutes since last_attempt, as in memory
  saved,            \* minutes since last_attempt, as in folders.json
  asked,            \* history: Stop was pressed since the task reset cancel
  since,            \* history: minutes since the daemon last tried the folder
  stamp,            \* history: is that attempt's last_attempt still in
                    \* memory only, saved, lost in a restart or with the
                    \* repository, or was it never set
  restarts

gate     == <<active, cancel, mutex, poisoned>>
schedule == <<loaded, paused, age, saved, since, stamp>>
vars     == <<gate, pc, target, due, schedule, asked, restarts>>

Init ==
  /\ active = FALSE /\ cancel = FALSE /\ mutex = NoTask /\ poisoned = FALSE
  /\ pc = [t \in Tasks |-> "idle"]
  /\ target = NoFolder /\ due = {}
  /\ loaded \in Loads
  /\ paused \in [Folders -> BOOLEAN]
  /\ age \in [Folders -> {0, Interval}] /\ saved = age /\ since = age
  /\ stamp = [f \in Folders |-> "saved"]
  /\ asked = [t \in Tasks |-> FALSE]
  /\ restarts = 0

Move(t, from, to) == pc[t] = from /\ pc' = [pc EXCEPT ![t] = to]
-----------------------------------------------------------------------------
(* The gate.                                                               *)

(* Mutant: the guard is made before the exchange, so a refused task drops  *)
(* it and opens the gate of the running one.                               *)
BeginGuardFirst(t) ==
  /\ active' = ~active
  /\ IF active THEN pc[t] = "idle" /\ pc' = pc ELSE Move(t, "idle", "entered")
  /\ UNCHANGED <<cancel, mutex, poisoned, target, due, schedule, asked, restarts>>

(* Mutant: the flag is reset before the exchange, also by a refused task.  *)
BeginResetFirst(t) ==
  /\ pc[t] = "idle" /\ cancel' = FALSE /\ active' = TRUE
  /\ IF active THEN pc' = pc ELSE Move(t, "idle", "entered")
  /\ UNCHANGED <<mutex, poisoned, target, due, schedule, asked, restarts>>

(* compare_exchange; a task that loses it reports an error and ends.       *)
Begin(t) ==
  /\ ~active /\ active' = TRUE
  /\ Move(t, "idle", "entered")
  /\ UNCHANGED <<cancel, mutex, poisoned, target, due, schedule, asked, restarts>>

(* Mutant: the flag is not reset.                                          *)
ClearCancelNot(t) ==
  /\ Move(t, "entered", "begun")
  /\ UNCHANGED <<gate, target, due, schedule, asked, restarts>>

ClearCancel(t) ==
  /\ Move(t, "entered", "begun")
  /\ cancel' = FALSE
  /\ UNCHANGED <<active, mutex, poisoned, target, due, schedule, asked, restarts>>

(* recovery_cancel, wired to both Stop buttons, at any time.               *)
Stop ==
  /\ cancel' = TRUE
  /\ asked' = [t \in Tasks |-> asked[t] \/ pc[t] \notin {"idle", "entered"}]
  /\ UNCHANGED <<active, mutex, poisoned, pc, target, due, schedule, restarts>>

(* Mutant: the daemon's guard is forgotten.                                *)
DropForeground(t) ==
  /\ Move(t, "leaving", "idle")
  /\ active' = (t = Daemon)
  /\ asked' = [asked EXCEPT ![t] = FALSE]
  /\ UNCHANGED <<cancel, mutex, poisoned, target, due, schedule, restarts>>

(* ActiveGuard::drop, after the mutex guard.                               *)
Drop(t) ==
  /\ Move(t, "leaving", "idle")
  /\ active' = FALSE
  /\ asked' = [asked EXCEPT ![t] = FALSE]
  /\ UNCHANGED <<cancel, mutex, poisoned, target, due, schedule, restarts>>
-----------------------------------------------------------------------------
(* Foreground work.                                                        *)

(* Mutant: an attempt is not stamped before it is made.                    *)
StampedNot(f) == age

(* snapshot_controlled sets last_attempt once ready has let it in and the  *)
(* folder is found, before anything else can fail.                         *)
Stamped(f) == IF loaded = "all" THEN [age EXCEPT ![f] = 0] ELSE age

Scan(t) ==
  /\ Move(t, "begun", "working")
  /\ UNCHANGED <<gate, target, due, schedule, asked, restarts>>

(* A poisoned mutex turns every command into an error.                     *)
Refused(t) ==
  /\ poisoned /\ Move(t, "begun", "leaving")
  /\ UNCHANGED <<gate, target, due, schedule, asked, restarts>>

(* A command captures a folder, or maintains, exports or relocates.        *)
Lock(t, f) ==
  /\ mutex = NoTask /\ ~poisoned /\ mutex' = t
  /\ Move(t, "begun", "working")
  /\ target' = f
  /\ age' = IF f \in Folders THEN Stamped(f) ELSE age
  /\ UNCHANGED <<active, cancel, poisoned, due, loaded, paused, saved, since,
                 stamp, asked, restarts>>

SavedStamps ==
  [f \in Folders |-> IF stamp[f] = "memory" THEN "saved" ELSE stamp[f]]

(* save_folders writes the whole registry, if ready lets it.               *)
Save ==
  /\ loaded = "all"
  /\ saved' = age /\ stamp' = SavedStamps
  /\ UNCHANGED <<loaded, paused, age, since>>

(* Another repository is opened: its folders, with what it knows of them.  *)
Reopen ==
  /\ target = NoFolder
  /\ loaded' = "all"
  /\ paused' \in [Folders -> BOOLEAN]
  /\ age' \in [Folders -> {0, Interval}] /\ saved' = age'
  /\ stamp' = [f \in Folders |-> "lost"]
  /\ UNCHANGED since

(* A capture saves the registry and a move saves it at the new place; a    *)
(* command that fails may not reach that, and its stamp stays in memory.   *)
Finish(t) ==
  /\ Move(t, "working", "leaving")
  /\ mutex' = IF mutex = t THEN NoTask ELSE mutex
  /\ target' = NoFolder
  /\ \/ mutex = t /\ (Save \/ Reopen)
     \/ UNCHANGED schedule
  /\ UNCHANGED <<active, cancel, poisoned, due, asked, restarts>>
-----------------------------------------------------------------------------
(* The daemon's batch, all of it under the mutex.                          *)

Due == {f \in Folders : loaded # "nothing" /\ ~paused[f] /\ age[f] >= Interval}

LockBatch ==
  /\ mutex = NoTask /\ ~poisoned /\ mutex' = Daemon
  /\ Move(Daemon, "begun", "batch")
  /\ due' = Due
  /\ UNCHANGED <<active, cancel, poisoned, target, schedule, asked, restarts>>

(* With ready refusing, the attempt is one all the same, but unrecorded.   *)
Capture(f) ==
  /\ ~cancel /\ f \in due
  /\ Move(Daemon, "batch", "working")
  /\ target' = f /\ due' = due \ {f}
  /\ age' = Stamped(f)
  /\ since' = [since EXCEPT ![f] = 0]
  /\ stamp' = [stamp EXCEPT ![f] = IF loaded = "all" THEN "memory" ELSE "never"]
  /\ UNCHANGED <<gate, loaded, paused, saved, asked, restarts>>

(* Success and failure both end in save_folders, which may itself fail.    *)
Captured ==
  /\ Move(Daemon, "working", "batch")
  /\ target' = NoFolder
  /\ Save \/ UNCHANGED schedule
  /\ UNCHANGED <<gate, due, asked, restarts>>

EndBatch ==
  /\ cancel \/ due = {}
  /\ Move(Daemon, "batch", "leaving")
  /\ mutex' = NoTask /\ due' = {}
  /\ UNCHANGED <<active, cancel, poisoned, target, schedule, asked, restarts>>
-----------------------------------------------------------------------------
(* The world.                                                              *)

(* Mutant: the panicking worker had no guard.                              *)
PanicUnguarded(t) ==
  /\ MayPanic /\ pc[t] \in {"batch", "working"}
  /\ pc' = [pc EXCEPT ![t] = "idle"]
  /\ mutex' = NoTask /\ poisoned' = (poisoned \/ mutex = t)
  /\ target' = NoFolder /\ due' = {}
  /\ UNCHANGED <<active, cancel, schedule, asked, restarts>>

(* Unwinding poisons the mutex the worker held and drops its guard.        *)
Panic(t) ==
  /\ MayPanic /\ pc[t] \in {"batch", "working"}
  /\ pc' = [pc EXCEPT ![t] = "leaving"]
  /\ mutex' = NoTask /\ poisoned' = (poisoned \/ mutex = t)
  /\ target' = NoFolder /\ due' = {}
  /\ UNCHANGED <<active, cancel, schedule, asked, restarts>>

(* Mutant: pausing does not wait for the mutex.                            *)
SetPausedUnlocked(f, b) ==
  /\ paused' = [paused EXCEPT ![f] = b]
  /\ UNCHANGED <<gate, pc, target, due, loaded, age, saved, since, stamp, asked, restarts>>

(* capsule_pause needs no gate, only the mutex; it saves the registry, and *)
(* changes nothing when that fails.                                        *)
SetPaused(f, b) ==
  /\ mutex = NoTask /\ ~poisoned
  /\ loaded = "all"
  /\ paused' = [paused EXCEPT ![f] = b]
  /\ saved' = age /\ stamp' = SavedStamps
  /\ UNCHANGED <<gate, pc, target, due, loaded, age, since, asked, restarts>>

Later(ages) == [f \in Folders |-> IF ages[f] < Interval THEN ages[f] + 1 ELSE Interval]

Minute ==
  /\ age' = Later(age) /\ saved' = Later(saved) /\ since' = Later(since)
  /\ UNCHANGED <<gate, pc, target, due, loaded, paused, stamp, asked, restarts>>

(* The process is killed and started again: what is not in folders.json is *)
(* gone, and with it the poison; either file may have become unreadable or *)
(* been repaired, and the repository may be locked or away.                *)
Restart ==
  /\ restarts < MaxRestarts /\ restarts' = restarts + 1
  /\ active' = FALSE /\ cancel' = FALSE /\ mutex' = NoTask /\ poisoned' = FALSE
  /\ pc' = [t \in Tasks |-> "idle"] /\ asked' = [t \in Tasks |-> FALSE]
  /\ target' = NoFolder /\ due' = {}
  /\ loaded' \in Loads
  /\ age' = saved
  /\ stamp' = [f \in Folders |-> IF stamp[f] = "memory" THEN "lost" ELSE stamp[f]]
  /\ UNCHANGED <<paused, saved, since>>
-----------------------------------------------------------------------------
(* Steps a task takes by itself once it has begun.                         *)
Run(t) ==
  \/ ClearCancel(t) \/ Drop(t)
  \/ t \in Scans /\ (Scan(t) \/ Finish(t))
  \/ t \in Commands /\ (Refused(t) \/ Finish(t)
                        \/ \E f \in Folders \cup {NoFolder} : Lock(t, f))
  \/ t = Daemon /\ (Refused(t) \/ LockBatch \/ Captured \/ EndBatch
                    \/ \E f \in Folders : Capture(f))

Next ==
  \/ \E t \in Tasks : Begin(t) \/ Run(t) \/ Panic(t)
  \/ Stop \/ Minute \/ Restart
  \/ \E f \in Folders, b \in BOOLEAN : SetPaused(f, b)

Spec == Init /\ [][Next]_vars

(* Workers run, minutes pass, and the daemon looks at the gate every one.  *)
FairSpec ==
  /\ Spec
  /\ \A t \in Tasks : WF_vars(Run(t))
  /\ WF_vars(Begin(Daemon)) /\ WF_vars(Minute)
-----------------------------------------------------------------------------
(* Properties.                                                             *)

Ages == [Folders -> 0 .. Interval]

(* Every variable keeps its type.                                          *)
TypeOK ==
  /\ active \in BOOLEAN /\ cancel \in BOOLEAN /\ poisoned \in BOOLEAN
  /\ mutex \in Tasks \cup {NoTask}
  /\ pc \in [Tasks -> Phases]
  /\ target \in Folders \cup {NoFolder}
  /\ due \subseteq Folders
  /\ loaded \in Loads
  /\ paused \in [Folders -> BOOLEAN]
  /\ stamp \in [Folders -> {"memory", "saved", "lost", "never"}]
  /\ age \in Ages /\ saved \in Ages /\ since \in Ages
  /\ asked \in [Tasks -> BOOLEAN]
  /\ restarts \in 0 .. MaxRestarts

(* Recovery, capture, export, maintenance and the daemon exclude each      *)
(* other, whatever is refused, panics or is restarted.                     *)
GateExclusive == \A t, u \in Tasks : pc[t] # "idle" /\ pc[u] # "idle" => t = u

Running(t) == pc[t] \in {"begun", "batch", "working"}

(* The flag is up exactly when this operation was asked to stop: a Stop    *)
(* meant for an earlier one never cancels it, and one that came after the  *)
(* reset (workbench.rs 22) is not taken back by whatever else tries to     *)
(* begin meanwhile.                                                        *)
StopReachesItsOwn == \A t \in Tasks : Running(t) => (cancel <=> asked[t])

(* The daemon never captures a folder whose schedule is paused, also when  *)
(* the pause comes after its list was made.                                *)
PausedLeftAlone == pc[Daemon] = "working" => ~paused[target]

(* The inductive invariant behind the three above and AttemptsSpaced.      *)

(* Whoever is past the exchange keeps the gate shut; the repository is     *)
(* worked on under its mutex only, and batches are the daemon's.           *)
GateHeld ==
  /\ \A t \in Tasks : pc[t] # "idle" => active
  /\ \A t \in Tasks \ Scans : pc[t] \in {"batch", "working"} <=> mutex = t
  /\ mutex \notin Scans
  /\ \A t \in Tasks : pc[t] = "batch" => t = Daemon

(* Nobody is asked to stop before the flag is reset.                       *)
AskedAfterReset == \A t \in Tasks : pc[t] \in {"idle", "entered"} => ~asked[t]

(* The daemon's list stays right while the daemon works through it.        *)
ListCurrent ==
  /\ due # {} => pc[Daemon] \in {"batch", "working"}
  /\ \A f \in due : ~paused[f] /\ age[f] = Interval
  /\ pc[Daemon] = "working" => target \in Folders

(* What a folder's age may be off by.                                      *)
StampsRight ==
  \A f \in Folders :
    /\ stamp[f] \notin {"lost", "never"} => age[f] <= since[f]
    /\ stamp[f] = "saved" => saved[f] <= since[f]

GateInductive ==
  /\ TypeOK /\ GateExclusive /\ StopReachesItsOwn /\ PausedLeftAlone
  /\ GateHeld /\ AskedAfterReset /\ ListCurrent /\ StampsRight

Attempts(f) == pc[Daemon] = "batch" /\ pc'[Daemon] = "working" /\ target' = f

(* The daemon lets an interval pass between two attempts at a folder, with *)
(* manual captures, moves and restarts in between, unless the record of    *)
(* the earlier one died with the process, stayed behind in the repository  *)
(* left, or was never made because ready refused the capture.              *)
AttemptsSpaced ==
  [][\A f \in Folders :
       Attempts(f) => since[f] = Interval \/ stamp[f] \in {"lost", "never"}]_vars

(* "failed attempts are spaced according to the configured interval"       *)
(* (readiness notes, line 27).  Not those of a repository of which only    *)
(* folders.json was read: ready fails before last_attempt is set.          *)
FailuresSpaced ==
  [][\A f \in Folders : Attempts(f) => since[f] = Interval \/ stamp[f] = "lost"]_vars

(* The gate opens again after every operation, even one that panics.       *)
GateReleased == active ~> ~active

Quiet == ~cancel /\ \A t \in Tasks \ {Daemon} : pc[t] = "idle"

(* Once the user leaves the program alone, no active schedule stays        *)
(* overdue; unless a panic has poisoned the mutex, which silences the      *)
(* daemon until the program is started again, or the repository could not  *)
(* be read, and every attempt is refused.                                  *)
ScheduleServed ==
  <>[](Quiet /\ ~poisoned /\ loaded = "all") => \A f \in Folders : []<>(paused[f] \/ age[f] < Interval)
=============================================================================
