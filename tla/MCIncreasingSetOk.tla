------------------------- MODULE MCIncreasingSetOk --------------------------
(* Small instances of IncreasingSetOk for TLC.                             *)
EXTENDS IncreasingSetOk

(* The int overload on a 3-bit int: INT_MIN = -4, INT_MAX = 3, and         *)
(* -HIGHS_CONST_I_INF = -INT_MAX = -3.                                     *)
MCIntEntries == -4..3
MCMinusIInf == -3

(* The double overload: a few values and NaN; -HIGHS_CONST_INF is below   *)
(* all of them.                                                            *)
MCDoubleEntries == {1, 2, 3, NaN}
MCMinusInf == -100
=============================================================================
