CONSTANTS
  MaxN = 5
  NaN = NaN
  Values <- MCValues
SPECIFICATION Spec
PROPERTY RefinesIntSort
PROPERTY RefinesSorting
CHECK_DEADLOCK FALSE
