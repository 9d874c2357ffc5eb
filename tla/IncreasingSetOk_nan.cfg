CONSTANTS
  NumMax = 3
  Entries <- MCDoubleEntries
  Lowest <- MCMinusInf
  NaN = NaN
  NULL = NULL
SPECIFICATION Spec
INVARIANT AcceptedOnlyIfOk
CHECK_DEADLOCK FALSE
