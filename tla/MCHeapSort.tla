----------------------------- MODULE MCHeapSort -----------------------------
(* TLC instance of HeapSort: arrays of up to MaxN entries over a few       *)
(* doubles, with and without a NaN among them.                             *)
EXTENDS HeapSort

(* Three distinct doubles and a NaN: ties, all orders of three values, and *)
(* an entry every comparison fails on.                                     *)
MCValuesWithNaN == {1, 2, 3, NaN}

(* The same doubles without NaN.                                           *)
MCValues == {1, 2, 3}
=============================================================================
