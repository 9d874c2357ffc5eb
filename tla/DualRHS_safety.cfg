CONSTANTS
  NumRow = 3
  NumCol = 2
  MaxInf = 2
  Cutoffs <- MCCutoffs
  MaxIter = 3
SPECIFICATION Spec
INVARIANT TypeOK
INVARIANT ListConsistent
INVARIANT CandidateComplete
INVARIANT OptimalOnlyIfFeasible
INVARIANT BasisConsistent
CHECK_DEADLOCK FALSE
