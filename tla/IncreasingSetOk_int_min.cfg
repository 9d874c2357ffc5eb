CONSTANTS
  NumMax = 2
  Entries <- MCIntEntries
  Lowest <- MCMinusIInf
  NaN = NaN
  NULL = NULL
SPECIFICATION Spec
INVARIANT AcceptedIfOk
CHECK_DEADLOCK FALSE
