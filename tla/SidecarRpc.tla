----------------------------- MODULE SidecarRpc -----------------------------
(***************************************************************************)
(* Calls to the forensic sidecar, a Python process that reads requests     *)
(* from its standard input and writes answers to its standard output       *)
(* (engine/src/sidecar.rs 44-99, src-tauri/src/main.rs 149-162, sidecar/   *)
(* sidecar.py).  A command holds the asynchronous mutex of the sidecar for *)
(* the whole call; a reader task routes answers through a table of pending *)
(* calls.                                                                  *)
(***************************************************************************)
EXTENDS Integers, Sequences, FiniteSets

CONSTANTS Callers,   \* commands of the user interface
          NoCaller,
          Text, Binary,  \* lines that are no answer, valid UTF-8 or not
          PipeSize,  \* requests the pipe holds before a write blocks
          MaxCalls,  \* bound on calls
          MaxNoise   \* bound on lines that are not answers

ASSUME SidecarAssumption ==
  /\ NoCaller \notin Callers
  /\ {Text, Binary} \cap [id : Nat, asked : Nat, result : {"ok", "error"}] = {}
  /\ PipeSize \in Nat \ {0}
  /\ MaxCalls \in Nat
  /\ MaxNoise \in Nat

Ids == 1..MaxCalls

VARIABLES
  queue,     \* commands waiting for the mutex, first come first served
  holder,    \* the command that holds it
  nextId,
  pending,   \* identifiers in the table of the reader
  stage,     \* how far the call of a command is
  callId,    \* its identifier
  asked,     \* history: which call it is, counting from one
  received,  \* its oneshot channel: the answer sent into it
  heard,     \* what the command returned
  requests,  \* the pipe to the sidecar
  serving,   \* the request the sidecar works on, or <<>>
  answers,   \* the pipe from the sidecar
  alive,     \* the sidecar process
  reading,   \* the reader task
  noise

sidecarVars == <<queue, holder, nextId, pending, stage, callId, asked, received,
                 heard, requests, serving, answers, alive, reading, noise>>
child == <<requests, serving, answers, alive, noise>>

Request == [id : Ids, asked : Ids]
AnswerLine == [id : Ids, asked : Ids, result : {"ok", "error"}]
NoLine == [id |-> 0, asked |-> 0, result |-> "none"]

SidecarTypeOK ==
  /\ queue \in Seq(Callers)
  /\ holder \in Callers \cup {NoCaller}
  /\ nextId \in 0..MaxCalls
  /\ pending \in SUBSET Ids
  /\ stage \in [Callers -> {"idle", "queued", "register", "write", "wait"}]
  /\ callId \in [Callers -> 0..MaxCalls]
  /\ asked \in [Callers -> 0..MaxCalls]
  /\ received \in [Callers -> AnswerLine \cup {NoLine}]
  /\ heard \in [Callers -> {"none", "ok", "error", "timeout", "broken"}]
  /\ requests \in Seq(Request)
  /\ serving \in Request \cup {<<>>}
  /\ answers \in Seq(AnswerLine \cup {Text, Binary})
  /\ alive \in BOOLEAN
  /\ reading \in BOOLEAN
  /\ noise \in 0..MaxNoise

(* Just spawned (19-65). *)
SidecarInit ==
  /\ queue = <<>>
  /\ holder = NoCaller
  /\ nextId = 0
  /\ pending = {}
  /\ stage = [c \in Callers |-> "idle"]
  /\ callId = [c \in Callers |-> 0]
  /\ asked = [c \in Callers |-> 0]
  /\ received = [c \in Callers |-> NoLine]
  /\ heard = [c \in Callers |-> "none"]
  /\ requests = <<>>
  /\ serving = <<>>
  /\ answers = <<>>
  /\ alive = TRUE
  /\ reading = TRUE
  /\ noise = 0

----------------------------------------------------------------------------
(* sidecar_list_partitions (main.rs 150-162): wait for the mutex.          *)
Ask(c) ==
  /\ stage[c] = "idle"
  /\ nextId + Len(queue) + (IF holder = NoCaller THEN 0 ELSE 1) < MaxCalls
  /\ queue' = Append(queue, c)
  /\ stage' = [stage EXCEPT ![c] = "queued"]
  /\ heard' = [heard EXCEPT ![c] = "none"]
  /\ UNCHANGED <<holder, nextId, pending, callId, asked, received, child, reading>>

Acquire(c) ==
  /\ holder = NoCaller
  /\ queue # <<>>
  /\ c = Head(queue)
  /\ holder' = c
  /\ queue' = Tail(queue)
  /\ stage' = [stage EXCEPT ![c] = "register"]
  /\ UNCHANGED <<nextId, pending, callId, asked, received, heard, child, reading>>

\* Mutant: the mutex admits one call, so one identifier is enough
RegisterSameId(c) ==
  /\ stage[c] = "register"
  /\ nextId' = nextId + 1
  /\ callId' = [callId EXCEPT ![c] = 1]
  /\ asked' = [asked EXCEPT ![c] = nextId']
  /\ pending' = pending \cup {1}
  /\ stage' = [stage EXCEPT ![c] = "write"]
  /\ UNCHANGED <<queue, holder, received, heard, child, reading>>

(* The channel is in the table before the request is written (69-74).      *)
Register(c) ==
  /\ stage[c] = "register"
  /\ nextId' = nextId + 1
  /\ callId' = [callId EXCEPT ![c] = nextId']
  /\ asked' = [asked EXCEPT ![c] = nextId']
  /\ pending' = pending \cup {nextId'}
  /\ stage' = [stage EXCEPT ![c] = "write"]
  /\ UNCHANGED <<queue, holder, received, heard, child, reading>>

(* A call returns and the command gives the mutex back; the entry of the   *)
(* pending table is not touched.                                           *)
Return(c, h) ==
  /\ heard' = [heard EXCEPT ![c] = h]
  /\ stage' = [stage EXCEPT ![c] = "idle"]
  /\ received' = [received EXCEPT ![c] = NoLine]
  /\ holder' = NoCaller
  /\ UNCHANGED <<queue, nextId, pending, callId, asked, child, reading>>

(* write_all waits for room in the pipe, without a timeout (85-86).        *)
Write(c) ==
  /\ stage[c] = "write"
  /\ alive
  /\ Len(requests) < PipeSize
  /\ requests' = Append(requests, [id |-> callId[c], asked |-> asked[c]])
  /\ stage' = [stage EXCEPT ![c] = "wait"]
  /\ UNCHANGED <<queue, holder, nextId, pending, callId, asked, received, heard, serving, answers,
                 alive, noise, reading>>

WriteFails(c) ==
  /\ stage[c] = "write"
  /\ ~alive
  /\ Return(c, "broken")

(* The answer, with the sidecar's own error in it or not (89-98).          *)
Hear(c) ==
  /\ stage[c] = "wait"
  /\ received[c] # NoLine
  /\ Return(c, received[c].result)

\* Mutant: no limit on how long a call waits
NeverTimeOut(c) ==
  /\ FALSE
  /\ Return(c, "timeout")

(* Thirty seconds without an answer (89). *)
TimeOut(c) ==
  /\ stage[c] = "wait"
  /\ received[c] = NoLine
  /\ Return(c, "timeout")

----------------------------------------------------------------------------
(* The reader task: an answer goes to the call that is registered under    *)
(* its identifier; sending to a call that has timed out fails and is       *)
(* ignored; other lines are skipped (50-62).                               *)
Route ==
  /\ reading
  /\ answers # <<>>
  /\ Head(answers) # Binary
  /\ answers' = Tail(answers)
  /\ IF Head(answers) # Text /\ Head(answers).id \in pending
     THEN /\ pending' = pending \ {Head(answers).id}
          /\ received' = [c \in Callers |->
               IF stage[c] \in {"write", "wait"} /\ callId[c] = Head(answers).id
               THEN Head(answers) ELSE received[c]]
     ELSE UNCHANGED <<pending, received>>
  /\ UNCHANGED <<queue, holder, nextId, stage, callId, asked, heard, requests, serving, alive,
                 noise, reading>>

(* next_line fails on bytes that are not UTF-8, and the task ends, as it   *)
(* does at the end of the stream (52).                                     *)
ReaderEnds ==
  /\ reading
  /\ IF answers = <<>> THEN ~alive ELSE Head(answers) = Binary
  /\ reading' = FALSE
  /\ UNCHANGED <<queue, holder, nextId, pending, stage, callId, asked, received, heard, child>>

(* sidecar.py 128-153: one request after the other, each with its answer.  *)
Serve ==
  /\ alive
  /\ serving = <<>>
  /\ requests # <<>>
  /\ serving' = Head(requests)
  /\ requests' = Tail(requests)
  /\ UNCHANGED <<queue, holder, nextId, pending, stage, callId, asked, received, heard, answers,
                 alive, noise, reading>>

Reply ==
  /\ alive
  /\ serving # <<>>
  /\ \E r \in {"ok", "error"} : answers' = Append(answers, [id |-> serving.id, asked |-> serving.asked, result |-> r])
  /\ serving' = <<>>
  /\ UNCHANGED <<queue, holder, nextId, pending, stage, callId, asked, received, heard, requests,
                 alive, noise, reading>>

(* A library of the sidecar prints to the protocol channel.                *)
Noise ==
  /\ alive
  /\ noise < MaxNoise
  /\ noise' = noise + 1
  /\ \E l \in {Text, Binary} : answers' = Append(answers, l)
  /\ UNCHANGED <<queue, holder, nextId, pending, stage, callId, asked, received, heard, requests,
                 serving, alive, reading>>

SidecarDies ==
  /\ alive
  /\ alive' = FALSE
  /\ requests' = <<>>
  /\ serving' = <<>>
  /\ UNCHANGED <<queue, holder, nextId, pending, stage, callId, asked, received, heard, answers,
                 noise, reading>>

CallStep(c) == Acquire(c) \/ Register(c) \/ Write(c) \/ WriteFails(c) \/ Hear(c) \/ TimeOut(c)

SidecarNext ==
  \/ \E c \in Callers : Ask(c) \/ CallStep(c)
  \/ Route \/ ReaderEnds \/ Serve \/ Reply \/ Noise \/ SidecarDies

(* The runtime polls a call that can go on and its timer expires; nothing  *)
(* is assumed of the sidecar.                                              *)
SidecarFairness == \A c \in Callers : WF_sidecarVars(CallStep(c))

SidecarSpec == SidecarInit /\ [][SidecarNext]_sidecarVars /\ SidecarFairness

----------------------------------------------------------------------------
(* A command is given the answer to its own request, never the one to a    *)
(* call that has timed out, however late that comes (51-60, 68-74, 89).    *)
AnswerToOwnCall ==
  \A c \in Callers : received[c] # NoLine => received[c].asked = asked[c]

(* Every command that asks the sidecar returns, whether it answers, dies,  *)
(* prints rubbish or hangs, unless so many requests went unread that the   *)
(* pipe is full: then the write, which has no timeout, keeps the mutex.    *)
CallsEnd ==
  \A c \in Callers : stage[c] # "idle" ~> stage[c] = "idle" \/ Len(requests) = PipeSize
============================================================================
