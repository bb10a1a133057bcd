---------------------------- MODULE MCRestore ----------------------------
(* Small instances of Restore: a point of two chunked files that share a   *)
(* chunk, an older whole-file point, and a point whose manifest was        *)
(* altered so that one entry contradicts its chunks.                       *)
EXTENDS Restore, TLC

CONSTANTS f, g,      \* files
          x, y, z    \* blocks; z begins with the zstd magic number

MCFiles  == {f, g}
MCBlocks == {x, y, z}
MCMagic  == {z}

Chunked(w, parts) == [whole |-> w, chunks |-> parts]
Old(w)            == [whole |-> w, chunks |-> Legacy]

NewPoint == (f :> Chunked(<<x, y>>, <<<<x>>, <<y>>>>)) @@ (g :> Chunked(<<x>>, <<<<x>>>>))
OldPoint == f :> Old(<<z, x>>)
Altered  == g :> Chunked(<<y, y>>, <<<<x>>, <<y>>>>)

SomePoints == {NewPoint, OldPoint, Altered}
AllForms == {"raw", "packed"}
==========================================================================
