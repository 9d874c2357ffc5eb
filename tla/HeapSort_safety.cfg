CONSTANTS
  MaxN = 5
  NaN = NaN
  Values <- MCValuesWithNaN
SPECIFICATION Spec
INVARIANT TypeOK
INVARIANT IndexSafe
INVARIANT PairsConserved
INVARIANT HeapOrdered
INVARIANT SortedOnExit
PROPERTY TailFixed
CHECK_DEADLOCK FALSE
