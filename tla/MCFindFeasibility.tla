------------------------- MODULE MCFindFeasibility --------------------------
(* Small instances of FindFeasibility for TLC.                             *)
EXTENDS FindFeasibility

(* Entries 0 (not stored), 1 and 2; right-hand sides 0 and 1.             *)
MCCoefs == {0, 1, 2}
MCRowBounds == {0, 1}
(* A column free around 0 and a column bounded away from 0.               *)
MCColBounds == {<<0, 2>>, <<2, 3>>}
MCCosts == {0, 1}
(* The minimizer lands below, inside or above the bounds.                 *)
MCThetas == {-1, 0, 1, 3}
MCGuesses == {0, 1}
=============================================================================
