----------------------------- MODULE MCDualRHS ------------------------------
(* A small instance of DualRHS for TLC: three rows, so that the list can   *)
(* hold a row that has become feasible next to one above the cutoff and    *)
(* one below it; two structurals to enter; a cutoff of 0 or 1.             *)
EXTENDS DualRHS

MCCutoffs == {0, 1}
=============================================================================
