------------------------------- MODULE MCFsys9 -------------------------------
(* Small instances of Fsys9 for TLC.                                       *)
EXTENDS Fsys9
=============================================================================
