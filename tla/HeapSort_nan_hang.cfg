CONSTANTS
  MaxN = 3
  NaN = NaN
  Values <- MCValuesWithNaN
SPECIFICATION Spec
PROPERTY Termination
CHECK_DEADLOCK FALSE
