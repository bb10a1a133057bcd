----------------------------- MODULE Relocation -----------------------------
(***************************************************************************)
(* Where the backup repository is: the choice at start-up (main.rs),       *)
(* copy_repository and with_storage (timesnap.rs), and capsule_location,   *)
(* which moves the repository or opens another one (workbench.rs).         *)
(*                                                                         *)
(* Abstractions.  A repository is its set of restore points (each with its *)
(* verified objects), its folders.json and whether policy.json holds the   *)
(* policy the user chose; how points come about is module TimeCapsule.  A  *)
(* place is a directory on a drive that may be away, and an absent drive   *)
(* leaves no directory behind.  Capture, retention and relocation exclude  *)
(* each other (module OperationGate).                                      *)
(***************************************************************************)
EXTENDS Naturals

CONSTANTS
  Places,       \* directories a repository may be in
  Home,         \* the default place, TimeCapsule::new
  Points,       \* restore points that may be taken
  NoPlace, Down, Unavailable,
  MaxCrashes    \* bound on the crashes of the program

ASSUME RelocationAssumption ==
  /\ Home \in Places
  /\ {NoPlace, Down, Unavailable} \cap Places = {}
  /\ MaxCrashes \in Nat

VARIABLES
  exists,     \* places whose directory has been made
  points,     \* place -> restore points in it
  registered, \* places with a folders.json
  policy,     \* places whose policy.json holds the policy the user chose
  config,     \* snapshot-location.json: a place, or NoPlace before a move
  away,       \* places whose drive is not there
  mem,        \* place of the open repository, Unavailable, or Down
  op,         \* the capsule_location under way
  crashes,
  known,      \* history: points the user has seen since choosing the repository
  chosen,     \* history: whether a policy was chosen there
  owed        \* history: place -> points its folders.json vouches for

repository == <<exists, points, registered, policy>>
history    == <<known, chosen, owed>>
vars == <<repository, config, away, mem, op, crashes, history>>

Idle == [pc |-> "idle", target |-> NoPlace, left |-> {}]

Ready == mem \in Places /\ mem \notin away /\ op = Idle

Target == op.target

Init ==
  /\ exists = {} /\ registered = {} /\ policy = {}
  /\ points = [r \in Places |-> {}]
  /\ config = NoPlace /\ away = {} /\ mem = Down /\ op = Idle /\ crashes = 0
  /\ known = {} /\ chosen = FALSE /\ owed = [r \in Places |-> {}]
-----------------------------------------------------------------------------
(* Start-up: the configured place if its directory is there, the default   *)
(* place if none was ever configured.  with_storage may fail as well.      *)
StartDefault ==
  /\ mem = Down /\ config = NoPlace
  /\ mem' = Home /\ exists' = exists \cup {Home}
  /\ UNCHANGED <<points, registered, policy, config, away, op, crashes, history>>

StartConfigured ==
  /\ mem = Down /\ config # NoPlace
  /\ config \in exists \ away /\ mem' = config
  /\ UNCHANGED <<repository, config, away, op, crashes, history>>

\* Mutant: a missing place is replaced by the default.
StartUnavailableHome ==
  /\ mem = Down /\ mem' = Home
  /\ UNCHANGED <<repository, config, away, op, crashes, history>>

StartUnavailable ==
  /\ mem = Down /\ mem' = Unavailable
  /\ UNCHANGED <<repository, config, away, op, crashes, history>>

(* What the program does with an open repository.  A capture saves the     *)
(* registry, too.                                                          *)
Capture(p) ==
  /\ Ready /\ \A r \in Places : p \notin points[r]
  /\ points' = [points EXCEPT ![mem] = @ \cup {p}]
  /\ registered' = registered \cup {mem}
  /\ known' = known \cup {p}
  /\ UNCHANGED <<exists, policy, config, away, mem, op, crashes, chosen, owed>>

Forget(p) ==
  /\ Ready /\ p \in points[mem]
  /\ points' = [points EXCEPT ![mem] = @ \ {p}]
  /\ known' = known \ {p}
  /\ owed' = [owed EXCEPT ![mem] = @ \ {p}]
  /\ UNCHANGED <<exists, registered, policy, config, away, mem, op, crashes, chosen>>

SetPolicy ==
  /\ Ready
  /\ policy' = policy \cup {mem} /\ chosen' = TRUE
  /\ UNCHANGED <<exists, points, registered, config, away, mem, op, crashes, known, owed>>
-----------------------------------------------------------------------------
(* copy_repository into a fresh directory: all objects are verified and    *)
(* copied (the points follow), then folders.json, then policy.json.        *)
CopyBegin(r) ==
  /\ Ready /\ r \notin exists \cup away
  /\ exists' = exists \cup {r}
  /\ op' = [pc |-> "copy", target |-> r, left |-> points[mem]]
  /\ UNCHANGED <<points, registered, policy, config, away, mem, crashes, history>>

(* Each step needs both drives; without them it fails (Fail).              *)
Copying(pc) == op.pc = pc /\ {mem, Target} \cap away = {}

CopyPoint(p) ==
  /\ Copying("copy") /\ p \in op.left
  /\ points' = [points EXCEPT ![Target] = @ \cup {p}]
  /\ op' = [op EXCEPT !.left = @ \ {p}]
  /\ UNCHANGED <<exists, registered, policy, config, away, mem, crashes, history>>

\* Mutant: the registry is saved before the manifests.
CopyFoldersFirst ==
  /\ Copying("copy")
  /\ registered' = registered \cup {Target}
  /\ owed' = [owed EXCEPT ![Target] = points[mem]]
  /\ op' = IF op.left = {} THEN [op EXCEPT !.pc = "policy"] ELSE op
  /\ UNCHANGED <<exists, points, policy, config, away, mem, crashes, known, chosen>>

CopyFolders ==
  /\ Copying("copy") /\ op.left = {}
  /\ registered' = registered \cup {Target}
  /\ owed' = [owed EXCEPT ![Target] = points[mem]]
  /\ op' = [op EXCEPT !.pc = "policy"]
  /\ UNCHANGED <<exists, points, policy, config, away, mem, crashes, known, chosen>>

CopyPolicy ==
  /\ Copying("policy")
  /\ policy' = IF mem \in policy THEN policy \cup {Target} ELSE policy
  /\ op' = [op EXCEPT !.pc = "publish"]
  /\ UNCHANGED <<exists, points, registered, config, away, mem, crashes, history>>

(* The location is made known, and only then used.                         *)
Publish ==
  /\ op.pc = "publish"
  /\ config' = Target
  /\ op' = [op EXCEPT !.pc = "switch"]
  /\ UNCHANGED <<repository, away, mem, crashes, history>>

(* Open existing backup: any other directory with a folders.json.          *)
OpenExisting(r) ==
  /\ mem # Down /\ op = Idle
  /\ r \in registered \ away /\ r # mem
  /\ op' = [pc |-> "open", target |-> r, left |-> {}]
  /\ UNCHANGED <<repository, config, away, mem, crashes, history>>

PublishOpened ==
  /\ op.pc = "open"
  /\ config' = Target
  /\ op' = [op EXCEPT !.pc = "switch"]
  /\ known' = points[Target] /\ chosen' = (Target \in policy)
  /\ UNCHANGED <<repository, away, mem, crashes, owed>>

Switch ==
  /\ op.pc = "switch"
  /\ mem' = Target /\ op' = Idle
  /\ UNCHANGED <<repository, config, away, crashes, history>>

(* A step fails, or the user stops the copy: the old repository stays open, *)
(* what was copied stays behind.                                           *)
Fail ==
  /\ op.pc \in {"copy", "policy", "publish", "open"}
  /\ op' = Idle
  /\ UNCHANGED <<repository, config, away, mem, crashes, history>>
-----------------------------------------------------------------------------
Crash ==
  /\ crashes < MaxCrashes /\ mem # Down
  /\ crashes' = crashes + 1
  /\ mem' = Down /\ op' = Idle
  /\ UNCHANGED <<repository, config, away, history>>

Unplug(r) ==
  /\ r \notin away /\ r # Home
  /\ away' = away \cup {r}
  /\ UNCHANGED <<repository, config, mem, op, crashes, history>>

Replug(r) ==
  /\ r \in away /\ away' = away \ {r}
  /\ UNCHANGED <<repository, config, mem, op, crashes, history>>

Next ==
  \/ StartDefault \/ StartConfigured \/ StartUnavailable
  \/ \E p \in Points : Capture(p) \/ Forget(p) \/ CopyPoint(p)
  \/ SetPolicy
  \/ \E r \in Places : CopyBegin(r) \/ OpenExisting(r) \/ Unplug(r) \/ Replug(r)
  \/ CopyFolders \/ CopyPolicy \/ Publish \/ PublishOpened \/ Switch \/ Fail
  \/ Crash

Spec == Init /\ [][Next]_vars
-----------------------------------------------------------------------------
(* Properties.                                                             *)

(* Every variable keeps its type.                                          *)
TypeOK ==
  /\ exists \subseteq Places /\ registered \subseteq Places /\ policy \subseteq Places
  /\ points \in [Places -> SUBSET Points] /\ owed \in [Places -> SUBSET Points]
  /\ config \in Places \cup {NoPlace} /\ away \subseteq Places
  /\ mem \in Places \cup {Down, Unavailable}
  /\ op \in [pc : {"idle", "copy", "policy", "publish", "open", "switch"},
             target : Places \cup {NoPlace}, left : SUBSET Points]
  /\ crashes \in 0 .. MaxCrashes
  /\ known \subseteq Points /\ chosen \in BOOLEAN

(* The user finds in the open repository every restore point and the       *)
(* policy they left, across moves, failed and interrupted moves, crashes   *)
(* and drives that come and go: "repository locations persist across       *)
(* restarts" (README, line 51).                                            *)
CatalogKept ==
  mem \in Places /\ op = Idle => known \subseteq points[mem] /\ (chosen => mem \in policy)

(* A folders.json vouches for a complete copy: Open existing backup never  *)
(* accepts a repository that an interrupted move has left half copied.     *)
MarkerMeansComplete == \A r \in registered : owed[r] \subseteq points[r]

(* Behind the two: the place the next start would use has everything, and  *)
(* so has the open one; they differ only inside a move.                    *)
Served == IF config = NoPlace THEN Home ELSE config

ServedComplete == known \subseteq points[Served] /\ (chosen => Served \in policy)

OpenIsServed ==
  /\ mem \in Places /\ op.pc # "switch" => mem = Served
  /\ op.pc = "switch" => Target = Served
  /\ op.pc = "idle" => op = Idle
  /\ mem = Down => op = Idle
  /\ op.pc \in {"copy", "policy", "publish"} => mem \in Places /\ Target # mem
  /\ op.pc # "idle" => Target \in Places

(* What a copy has still to do.                                            *)
CopyUnderWay ==
  /\ op.pc = "copy" => /\ points[mem] \subseteq points[Target] \cup op.left
                       /\ Target \notin registered
  /\ op.pc \in {"policy", "publish"} => points[mem] \subseteq points[Target]
  /\ op.pc = "publish" => (mem \in policy => Target \in policy)

(* Files are only in directories; without folders.json nothing is owed.    *)
PlacesExist ==
  /\ registered \subseteq exists
  /\ \A r \in Places \ registered : owed[r] = {}
  /\ mem \in Places => mem \in exists
  /\ op.pc # "idle" => Target \in exists

RelocationInductive ==
  /\ TypeOK /\ CatalogKept /\ MarkerMeansComplete
  /\ ServedComplete /\ OpenIsServed /\ CopyUnderWay /\ PlacesExist
=============================================================================
