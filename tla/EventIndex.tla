----------------------------- MODULE EventIndex -----------------------------
(***************************************************************************)
(* Telemetry logs and time travel (engine/src/chrono.rs, engine/src/index  *)
(* .rs, src-tauri/src/main.rs 53-146): events are inserted into an SQLite  *)
(* table one transaction each, in the order of the log, and a workspace is *)
(* reconstructed by replaying them by time.  Commands hold the mutex of    *)
(* the index while they run.                                               *)
(*                                                                         *)
(* Times, offsets and lengths are words of Width bits; the table holds     *)
(* times as signed words.                                                  *)
(***************************************************************************)
EXTENDS Integers, Sequences, Functions, SequencesExt

CONSTANTS Width,     \* bits of a word (64)
          Paths,     \* files the logs tell of
          Letters,   \* bytes
          Logs,      \* logs the user may import: sequences of events
          Panic,     \* what a replay that panics yields
          MaxRows,   \* bound on the table
          MaxHarm    \* bound on failed inserts, crashes and power cuts

Word == 0..(2^Width) - 1
Latest == (2^Width) - 1   \* u64::MAX: no bound
AsSigned(t) == IF t < 2^(Width - 1) THEN t ELSE t - 2^Width

Op == [kind : {"write"}, content : Seq(Letters)]
        \cup [kind : {"patch"}, offset : Word, delete : Word, insert : Seq(Letters)]
        \cup [kind : {"delete"}]
Event == [ts : Word, path : Paths, op : Op]
FileState == [bytes : Seq(Letters), last : Word, patches : Nat]
NewFile == [bytes |-> <<>>, last |-> 0, patches |-> 0]

ASSUME EventIndexAssumption ==
  /\ Width \in Nat \ {0}
  /\ \A log \in Logs : log \in Seq(Event)
  /\ Panic \notin FileState
  /\ MaxRows \in Nat /\ MaxHarm \in Nat

VARIABLES
  table,     \* the rows by seq, each an event
  durable,   \* rows a power cut cannot take: those of the last checkpoint
  ingest,    \* what is left of the log being imported
  poisoned,  \* the mutex, after a panic of a command that held it
  shown,     \* the answer to the last command
  harm

indexVars == <<table, durable, ingest, poisoned, shown, harm>>

NotIngesting == [busy |-> FALSE, left |-> <<>>]

----------------------------------------------------------------------------
(* splice of a patch (48-51).  The sum is not clamped before it is made:   *)
(* when it overflows, a debug build panics at the addition and a release   *)
(* build at the splice, whose end has wrapped to before its start.         *)
Patched(bytes, op) ==
  LET start == IF op.offset < Len(bytes) THEN op.offset ELSE Len(bytes)
  IN  IF start + op.delete >= 2^Width THEN Panic
      ELSE SubSeq(bytes, 1, start) \o op.insert
             \o SubSeq(bytes, start + op.delete + 1, Len(bytes))

(* FileState::apply (38-59). *)
Applied(f, e) ==
  LET bytes == CASE e.op.kind = "write"  -> e.op.content
                 [] e.op.kind = "patch"  -> Patched(f.bytes, e.op)
                 [] e.op.kind = "delete" -> <<>>
  IN  IF bytes = Panic THEN Panic
      ELSE [bytes |-> bytes, last |-> e.ts,
            patches |-> f.patches + IF e.op.kind = "patch" THEN 1 ELSE 0]

(* StreamStitch::replay (90-96): files appear with their first event.      *)
Stepped(files, e) ==
  LET new == Applied(IF e.path \in DOMAIN files THEN files[e.path] ELSE NewFile, e)
  IN  IF files = Panic \/ new = Panic THEN Panic
      ELSE [p \in DOMAIN files \cup {e.path} |-> IF p = e.path THEN new ELSE files[p]]
Replay(events) == FoldLeft(LAMBDA files, e : Stepped(files, e), <<>>, events)

(* The events of a set, in their order.                                    *)
Keep(events, wanted) ==
  FoldLeft(LAMBDA kept, e : IF e \in wanted THEN Append(kept, e) ELSE kept, <<>>, events)

Until(key, t) == {e \in Event : key[e.ts] <= key[t]}
After(key, t) == {e \in Event : key[e.ts] > key[t]}

(* A stable sort: an event goes behind those that are not later.           *)
Insert(key, sorted, e) == Keep(sorted, Until(key, e.ts)) \o <<e>> \o Keep(sorted, After(key, e.ts))
SortedBy(key, events) == FoldLeft(LAMBDA sorted, e : Insert(key, sorted, e), <<>>, events)

(* StreamStitch::order (83-86). *)
PlainTime == [t \in Word |-> t]
Ordered(events) == SortedBy(PlainTime, events)

(* reconstruct of a log in memory (99-101). *)
Reconstruct(events, t) == Replay(Keep(Ordered(events), Until(PlainTime, t)))

----------------------------------------------------------------------------
SignedTime == [t \in Word |-> AsSigned(t)]

\* Mutant: the bound of the query excludes the moment asked for
BoundBefore(t) == IF t = Latest THEN Event ELSE {e \in Event : SignedTime[e.ts] < SignedTime[t]}

\* Mutant: every query runs without its bound
BoundMissing(t) == Event

(* The rows a query asks for (86-97): the bound is that of the signed      *)
(* column.                                                                 *)
Bound(t) == IF t = Latest THEN Event ELSE Until(SignedTime, t)

(* They are in the order of that column, rows of one time as inserted.     *)
RowsAsOf(rows, t) == SortedBy(SignedTime, Keep(rows, Bound(t)))

(* reconstruct_as_of and file_as_of (82-144). *)
ReconstructAsOf(rows, t) == Replay(RowsAsOf(rows, t))
OfFile(p) == {e \in Event : e.path = p}
FileAsOf(rows, p, t) ==
  FoldLeft(LAMBDA f, e : IF f = Panic THEN Panic ELSE Applied(f, e), NewFile,
           Keep(RowsAsOf(rows, t), OfFile(p)))

IndexTypeOK ==
  /\ table \in Seq(Event) /\ Len(table) <= MaxRows
  /\ durable \in 0..Len(table)
  /\ ingest \in [busy : BOOLEAN, left : Seq(Event)]
  /\ poisoned \in BOOLEAN
  /\ shown \in {"none", "ingested", "files", "failed", "panic", "poisoned"}
  /\ harm \in 0..MaxHarm

IndexInit ==
  /\ table = <<>>
  /\ durable = 0
  /\ ingest = NotIngesting
  /\ poisoned = FALSE
  /\ shown = "none"
  /\ harm = 0

----------------------------------------------------------------------------
Ready == ~ingest.busy /\ ~poisoned

(* chrono_ingest: parse and lock (main.rs 55-64). *)
BeginIngest(log) ==
  /\ Ready
  /\ Len(table) + Len(log) <= MaxRows
  /\ ingest' = [busy |-> TRUE, left |-> log]
  /\ shown' = "none"
  /\ UNCHANGED <<table, durable, poisoned, harm>>

(* push (57-69, main.rs 65-80): one row, one transaction. *)
Push ==
  /\ ingest.busy
  /\ ingest.left # <<>>
  /\ table' = Append(table, Head(ingest.left))
  /\ ingest' = [ingest EXCEPT !.left = Tail(ingest.left)]
  /\ UNCHANGED <<durable, poisoned, shown, harm>>

IngestDone ==
  /\ ingest.busy
  /\ ingest.left = <<>>
  /\ ingest' = NotIngesting
  /\ shown' = "ingested"
  /\ UNCHANGED <<table, durable, poisoned, harm>>

(* An insert fails: what was inserted before stays (main.rs 71).           *)
PushFails ==
  /\ ingest.busy
  /\ harm < MaxHarm
  /\ harm' = harm + 1
  /\ ingest' = NotIngesting
  /\ shown' = "failed"
  /\ UNCHANGED <<table, durable, poisoned>>

(* chrono_time_travel (main.rs 126-146): a replay that panics does so with *)
(* the mutex held, and poisons it.                                         *)
TimeTravel(t) ==
  /\ Ready
  /\ IF ReconstructAsOf(table, t) = Panic
     THEN poisoned' = TRUE /\ shown' = "panic"
     ELSE shown' = "files" /\ UNCHANGED poisoned
  /\ UNCHANGED <<table, durable, ingest, harm>>

(* Every later command fails at lock() until the program restarts.         *)
Refuse ==
  /\ poisoned
  /\ shown' = "poisoned"
  /\ UNCHANGED <<table, durable, ingest, poisoned, harm>>

(* SQLite moves the log into the database and syncs (WAL, synchronous =    *)
(* NORMAL, 23-24).                                                         *)
Checkpoint ==
  /\ durable' = Len(table)
  /\ UNCHANGED <<table, ingest, poisoned, shown, harm>>

(* The process ends and starts again, with power or without: a power cut   *)
(* may take the newest transactions, never one from between.               *)
Restart ==
  /\ harm < MaxHarm
  /\ harm' = harm + 1
  /\ \E n \in durable..Len(table) : table' = SubSeq(table, 1, n)
  /\ ingest' = NotIngesting
  /\ poisoned' = FALSE
  /\ shown' = "none"
  /\ UNCHANGED durable

IndexNext ==
  \/ \E log \in Logs : BeginIngest(log)
  \/ Push \/ IngestDone \/ PushFails
  \/ \E t \in Word : TimeTravel(t)
  \/ Refuse \/ Checkpoint \/ Restart

IndexSpec == IndexInit /\ [][IndexNext]_indexVars

----------------------------------------------------------------------------
(* Whatever was imported, in whatever pieces and order, with failed        *)
(* imports and power cuts between, the index answers as the replay of the  *)
(* rows in memory does, for every moment and file, as long as times fit    *)
(* into the signed column (82-144 against chrono.rs 83-101).               *)
Fits(t) == t < 2^(Width - 1)
ReplayAgrees ==
  (\A n \in DOMAIN table : Fits(table[n].ts)) =>
    \A t \in {u \in Word : Fits(u)} \cup {Latest} :
      /\ ReconstructAsOf(table, t) = Reconstruct(table, t)
      /\ ReconstructAsOf(table, t) # Panic =>
           \A p \in Paths :
             FileAsOf(table, p, t) = IF p \in DOMAIN ReconstructAsOf(table, t)
                              THEN ReconstructAsOf(table, t)[p] ELSE NewFile

(* What the workspace was at a moment does not change when events of later *)
(* moments are imported (83, 88, 95).                                      *)
Grown == Len(table') > Len(table)
PastStable ==
  [][Grown /\ Fits(table'[Len(table')].ts) =>
       \A t \in 0..table'[Len(table')].ts - 1 :
         ReconstructAsOf(table', t) = ReconstructAsOf(table, t)]_indexVars

(* "Corrupt/foreign telemetry must never crash the engine."                *)
(* (chrono.rs:176)                                                         *)
NeverCrashes == shown # "panic"
============================================================================
