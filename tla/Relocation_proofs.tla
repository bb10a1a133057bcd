------------------------- MODULE Relocation_proofs -------------------------
(* Proofs about Relocation: the repository that is opened has every restore *)
(* point and the policy the user left, and a folders.json vouches for a    *)
(* complete copy.                                                          *)
EXTENDS Relocation, TLAPS

LEMMA RelocationInit == Init => RelocationInductive
<1> SUFFICES ASSUME Init PROVE RelocationInductive
  OBVIOUS
<1>1. TypeOK
  <2>1. Idle \in [pc : {"idle", "copy", "policy", "publish", "open", "switch"},
                  target : Places \cup {NoPlace}, left : SUBSET Points]
    BY DEF Idle
  <2>2. 0 \in 0 .. MaxCrashes
    BY RelocationAssumption
  <2>. QED BY <2>1, <2>2 DEF Init, TypeOK
<1>2. mem \notin Places /\ op.pc = "idle"
  BY RelocationAssumption DEF Init, Idle
<1>3. ServedComplete
  BY RelocationAssumption DEF Init, ServedComplete, Served
<1>. QED
  BY <1>1, <1>2, <1>3
     DEF Init, RelocationInductive, CatalogKept, MarkerMeansComplete, OpenIsServed,
         CopyUnderWay, PlacesExist

(* Steps that only open, close or lose a place.                            *)
LEMMA OpeningKeeps ==
  ASSUME RelocationInductive,
         \/ StartDefault \/ StartConfigured \/ StartUnavailable \/ Crash \/ Fail
         \/ \E r \in Places : Unplug(r) \/ Replug(r)
  PROVE  RelocationInductive'
<1> USE RelocationAssumption
    DEF RelocationInductive, TypeOK, CatalogKept, MarkerMeansComplete, Served,
        ServedComplete, OpenIsServed, CopyUnderWay, PlacesExist, Idle, Target,
        repository, history
<1>1. CASE StartDefault
  BY <1>1 DEF StartDefault
<1>2. CASE StartConfigured
  BY <1>2 DEF StartConfigured
<1>3. CASE StartUnavailable
  BY <1>3 DEF StartUnavailable
<1>4. CASE Crash
  BY <1>4 DEF Crash
<1>5. CASE Fail
  BY <1>5 DEF Fail
<1>6. CASE \E r \in Places : Unplug(r) \/ Replug(r)
  BY <1>6 DEF Unplug, Replug
<1>. QED BY <1>1, <1>2, <1>3, <1>4, <1>5, <1>6

(* Use of the open repository: it is the served one.                       *)
LEMMA UsingKeeps ==
  ASSUME RelocationInductive,
         SetPolicy \/ \E p \in Points : Capture(p) \/ Forget(p)
  PROVE  RelocationInductive'
<1> USE RelocationAssumption
    DEF RelocationInductive, TypeOK, CatalogKept, MarkerMeansComplete, Served,
        ServedComplete, OpenIsServed, CopyUnderWay, PlacesExist, Idle, Target,
        repository, history, Ready
<1>1. CASE SetPolicy
  BY <1>1 DEF SetPolicy
<1>2. CASE \E p \in Points : Capture(p)
  <2> PICK p \in Points : Capture(p)
    BY <1>2
  <2>1. /\ mem \in Places /\ op = Idle /\ op' = op /\ mem = Served
        /\ points' = [points EXCEPT ![mem] = @ \cup {p}]
    BY DEF Capture
  <2>2. /\ points' \in [Places -> SUBSET Points] /\ points'[mem] = points[mem] \cup {p}
        /\ \A r \in Places : points[r] \subseteq points'[r]
    BY <2>1
  <2>3. /\ UNCHANGED <<exists, policy, config, away, mem, op, crashes, chosen, owed>>
        /\ registered' = registered \cup {mem} /\ known' = known \cup {p}
    BY DEF Capture
  <2>4. TypeOK'
    BY <2>1, <2>2, <2>3
  <2>5. CatalogKept' /\ ServedComplete' /\ OpenIsServed' /\ CopyUnderWay' /\ PlacesExist'
    BY <2>1, <2>2, <2>3
  <2>6. MarkerMeansComplete'
    BY <2>1, <2>2, <2>3
  <2>. QED BY <2>4, <2>5, <2>6
<1>3. CASE \E p \in Points : Forget(p)
  <2> PICK p \in Points : Forget(p)
    BY <1>3
  <2>1. /\ mem \in Places /\ op = Idle /\ op' = op /\ mem = Served
        /\ points' = [points EXCEPT ![mem] = @ \ {p}]
        /\ owed' = [owed EXCEPT ![mem] = @ \ {p}]
    BY DEF Forget
  <2>2. /\ points'[mem] = points[mem] \ {p} /\ owed'[mem] = owed[mem] \ {p}
        /\ \A r \in Places \ {mem} : points'[r] = points[r] /\ owed'[r] = owed[r]
    BY <2>1
  <2>. QED
    BY <2>1, <2>2 DEF Forget
<1>. QED BY <1>1, <1>2, <1>3

LEMMA OpenedPolicy ==
  ASSUME PublishOpened
  PROVE  chosen' \in BOOLEAN /\ (chosen' => Target \in policy)
<1>1. chosen' <=> Target \in policy
  BY DEF PublishOpened
<1>2. chosen' \in BOOLEAN
  BY SMT DEF PublishOpened
<1>. QED BY <1>1, <1>2

(* Steps of a move: only the target is written, and it is not the served   *)
(* place before it is complete.                                            *)
LEMMA MovingKeeps ==
  ASSUME RelocationInductive,
         \/ CopyFolders \/ CopyPolicy \/ Publish \/ PublishOpened \/ Switch
         \/ \E p \in Points : CopyPoint(p)
         \/ \E r \in Places : CopyBegin(r) \/ OpenExisting(r)
  PROVE  RelocationInductive'
<1> USE RelocationAssumption
    DEF RelocationInductive, TypeOK, CatalogKept, MarkerMeansComplete, Served,
        ServedComplete, OpenIsServed, CopyUnderWay, PlacesExist, Idle, Target,
        repository, history, Ready, Copying
<1>1. CASE CopyFolders
  <2>1. /\ Target \in Places /\ points[mem] \subseteq points[Target]
        /\ owed' = [owed EXCEPT ![Target] = points[mem]]
    BY <1>1 DEF CopyFolders
  <2>2. owed'[Target] = points[mem] /\ \A r \in Places \ {Target} : owed'[r] = owed[r]
    BY <2>1
  <2>. QED
    BY <1>1, <2>1, <2>2 DEF CopyFolders
<1>2. CASE CopyPolicy
  BY <1>2 DEF CopyPolicy
<1>3. CASE Publish
  BY <1>3 DEF Publish
<1>4. CASE PublishOpened
  <2>1. /\ op.pc = "open" /\ Target \in Places /\ config' = Target
        /\ op' = [op EXCEPT !.pc = "switch"] /\ known' = points[Target]
        /\ UNCHANGED <<repository, away, mem, crashes, owed>>
    BY <1>4 DEF PublishOpened
  <2>2. chosen' \in BOOLEAN /\ (chosen' => Target \in policy)
    BY <1>4, OpenedPolicy
  <2>. QED BY <2>1, <2>2
<1>5. CASE Switch
  BY <1>5 DEF Switch
<1>6. CASE \E p \in Points : CopyPoint(p)
  <2> PICK p \in Points : CopyPoint(p)
    BY <1>6
  <2>1. /\ op.pc = "copy" /\ mem \in Places /\ Target \in Places /\ Target # mem
        /\ points' = [points EXCEPT ![Target] = @ \cup {p}]
        /\ op' = [op EXCEPT !.left = @ \ {p}]
    BY DEF CopyPoint
  <2>2. /\ points'[Target] = points[Target] \cup {p}
        /\ \A r \in Places \ {Target} : points'[r] = points[r]
        /\ op'.pc = "copy" /\ op'.target = Target /\ op'.left = op.left \ {p}
    BY <2>1
  <2>. QED
    BY <2>1, <2>2 DEF CopyPoint
<1>7. CASE \E r \in Places : CopyBegin(r)
  BY <1>7 DEF CopyBegin
<1>8. CASE \E r \in Places : OpenExisting(r)
  BY <1>8 DEF OpenExisting
<1>. QED BY <1>1, <1>2, <1>3, <1>4, <1>5, <1>6, <1>7, <1>8

LEMMA RelocationStep == RelocationInductive /\ [Next]_vars => RelocationInductive'
<1> SUFFICES ASSUME RelocationInductive, [Next]_vars PROVE RelocationInductive'
  OBVIOUS
<1>1. CASE UNCHANGED vars
  BY <1>1
     DEF vars, repository, history, RelocationInductive, TypeOK, CatalogKept,
         MarkerMeansComplete, Served, ServedComplete, OpenIsServed, CopyUnderWay,
         PlacesExist, Idle, Target
<1>2. CASE Next
  BY <1>2, OpeningKeeps, UsingKeeps, MovingKeeps DEF Next
<1>. QED BY <1>1, <1>2

(* The inductive invariant, for any places, points and number of crashes.  *)
THEOREM RelocationInvariant == Spec => []RelocationInductive
BY RelocationInit, RelocationStep, PTL DEF Spec

(* Whatever moves, failures, crashes and absent drives there were, an open *)
(* repository has every restore point and the policy the user left in it.  *)
THEOREM CatalogIsKept == Spec => []CatalogKept
<1>1. RelocationInductive => CatalogKept
  BY DEF RelocationInductive
<1>. QED BY <1>1, RelocationInvariant, PTL

(* Open existing backup never accepts a half-copied repository.            *)
THEOREM MarkerIsComplete == Spec => []MarkerMeansComplete
<1>1. RelocationInductive => MarkerMeansComplete
  BY DEF RelocationInductive
<1>. QED BY <1>1, RelocationInvariant, PTL
=============================================================================
