CONSTANTS
  NumMax = 3
  Entries <- MCIntEntries
  Lowest <- MCMinusIInf
  NaN = NaN
  NULL = NULL
SPECIFICATION Spec
INVARIANT TypeOK
INVARIANT AcceptedOnlyIfOk
CHECK_DEADLOCK FALSE
