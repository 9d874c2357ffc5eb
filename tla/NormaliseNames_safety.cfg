CONSTANTS
  MaxNum = 3
  Lengths <- MCLengths
  Desired <- MCDesired
SPECIFICATION Spec
INVARIANT TypeOK
INVARIANT NoEmptyNameOnReturn
PROPERTY Idempotent
