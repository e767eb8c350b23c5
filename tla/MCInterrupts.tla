----------------------------- MODULE MCInterrupts -----------------------------
(* Small instances of Interrupts for TLC.                                  *)
EXTENDS Interrupts

\* VBLANK, the timer, and a bit above the five interrupts.
SmallBits     == {0, 2, 7}
SmallHardware == {0, 2}
=============================================================================
