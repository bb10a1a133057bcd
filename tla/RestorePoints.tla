--------------------------- MODULE RestorePoints ---------------------------
(***************************************************************************)
(* What the backup repository promises its user, with no chunks, files,    *)
(* locks or crashes in sight: a set of restore points whose data is        *)
(* complete, and the set of folders the registry on disk calls protected.  *)
(*                                                                         *)
(*  - a restore point appears whole or not at all;                         *)
(*  - it disappears only when a newer policy forgets it, and never when it *)
(*    is the folder's last one;                                            *)
(*  - a folder is called protected only while it has a restore point.      *)
(*                                                                         *)
(* TimeCapsule implements this specification (PointsSpec there).           *)
(***************************************************************************)
CONSTANTS
  Points,      \* every restore point that could ever be published, records
               \* with at least a field folder
  Folders      \* folders a user may protect

VARIABLES
  points,      \* complete restore points
  protected    \* folders registered on disk

vars == <<points, protected>>

HasPoint(f) == \E p \in points : p.folder = f

(* The repository found at start-up keeps the promise already.             *)
Init ==
  /\ points \subseteq Points
  /\ protected \subseteq {f \in Folders : HasPoint(f)}

Publish(p) ==
  /\ p \notin points
  /\ points' = points \cup {p}
  /\ UNCHANGED protected

(* A restore point is forgotten only beside another one of its folder.     *)
Forget(p) ==
  /\ p \in points
  /\ \E other \in points \ {p} : other.folder = p.folder
  /\ points' = points \ {p}
  /\ UNCHANGED protected

(* The registry is always written as a whole.                              *)
Register(S) ==
  /\ \A f \in S : HasPoint(f)
  /\ protected' = S
  /\ UNCHANGED points

Next ==
  \/ \E p \in Points : Publish(p) \/ Forget(p)
  \/ \E S \in SUBSET Folders : Register(S)

Spec == Init /\ [][Next]_vars
=============================================================================
