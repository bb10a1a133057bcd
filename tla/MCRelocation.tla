---------------------------- MODULE MCRelocation ----------------------------
(* A small instance of Relocation: the default place and two others.       *)
EXTENDS Relocation, TLC

CONSTANTS home, usb, nas, p1, p2

MCPlaces == {home, usb, nas}
MCPoints == {p1, p2}

Alike == Permutations({usb, nas}) \cup Permutations(MCPoints)
=============================================================================
