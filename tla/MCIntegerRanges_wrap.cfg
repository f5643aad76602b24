SPECIFICATION Spec
CONSTANTS
  Programs <- Failure
  Half = 4
  NoBound = 20
INVARIANT
  BranchProofsHold
