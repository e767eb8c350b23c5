----------------------------- MODULE MCClient9p -----------------------------
(* Small instances of Client9p for TLC.                                    *)
EXTENDS Client9p, TLC

Symmetry == Permutations(Callers)
=============================================================================
