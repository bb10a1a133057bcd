-------------------------- MODULE MCOperationGate --------------------------
(* Small instances of OperationGate: one command, one scan and the daemon  *)
(* over one or two folders.                                                *)
EXTENDS OperationGate

CONSTANTS command, scan, f1, f2

MCCommands == {command}
MCScans    == {scan}
OneFolder  == {f1}
TwoFolders == {f1, f2}
=============================================================================
