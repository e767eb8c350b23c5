------------------------------ MODULE MCDebugger ------------------------------
(* Two addresses that differ in both bytes, steps of 0 and of 3 instructions. *)
EXTENDS Debugger

MCAddrs == {257, 514}
MCStepArgs == {0, 3}
===============================================================================
