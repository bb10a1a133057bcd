--------------------------- MODULE MCRecoveryScan ---------------------------
(* Small instances of RecoveryScan: four units in blocks of two or three,  *)
(* so that a candidate crosses into the next block, which is short.        *)
EXTENDS RecoveryScan

C(kind, size, run, crosses) ==
  [kind |-> kind, size |-> size, run |-> run, crosses |-> crosses]

Nothing  == C("none", 0, -1, FALSE)
Resident == C("record", 1, -1, TRUE)
Extent   == C("record", 2, 0, FALSE)
Video    == C("file", 2, -1, TRUE)
Noise    == C("noise", 0, -1, FALSE)

MCSources  == [Units -> {Nothing, Extent, Video, Noise}]
FileTables == [Units -> {Nothing, Resident, Extent}]

Undamaged  == {{}}
SomeDamage == {{}, {3}}

M(src, fast, tables) == [source |-> src, quick |-> fast, tables |-> tables]

ImageMode == {M("image", FALSE, <<>>)}
DriveMode == {M("drive", FALSE, <<>>)}
QuickMode == {M("image", TRUE, <<1, 3>>)}
AllModes  ==
  ImageMode \cup DriveMode \cup QuickMode
    \cup {M("folder", FALSE, <<>>), M("image", TRUE, <<>>)}
=============================================================================
