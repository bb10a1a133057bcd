--------------------------- MODULE MCTimeCapsule ---------------------------
(* Small instances of TimeCapsule: contents of one and two chunks that     *)
(* share one, a large file whose legacy object is none of its chunks, and  *)
(* budgets that some captures fit and others do not.                       *)
EXTENDS TimeCapsule, FiniteSetsExt

CONSTANTS a, b, w,     \* objects: two chunks and a whole file
          small, large       \* contents

MCObjects  == {a, b, w}
MCContents == {small, large}
MCChunksOf == [c \in MCContents |-> IF c = large THEN {a, b} ELSE {a}]
MCWholeOf  == [c \in MCContents |-> IF c = large THEN w ELSE a]
MCBytesOf  == [S \in SUBSET MCObjects |->
                 MapThenSumSet(LAMBDA o : IF o = w THEN 2 ELSE 1, S)]

Policy(prune, keep, budget) == [prune |-> prune, keep |-> keep, budget |-> budget]

KeepTwo     == {Policy(TRUE, 2, 3)}
TwoPolicies == {Policy(TRUE, 1, 3), Policy(FALSE, 1, 2)}

NoLegacy   == {}
SomeLegacy == {t \in Trees : \A p \in Paths : t[p] = large}
=============================================================================
