CONSTANTS
  NumRow = 1
  NumCol = 2
  Coefs <- MCCoefs
  RowBounds <- MCRowBounds
  ColBounds <- MCColBounds
  Costs <- MCCosts
  Thetas <- MCThetas
  Guesses <- MCGuesses
  Sweeps = 2
  K = 3
SPECIFICATION Spec
INVARIANT SolutionConsistentOnOK
CHECK_DEADLOCK FALSE
