CONSTANTS
  a = a
  b = b
  NPaths = 3
  Profiles = {a, b}
  Workers = 2
  BadExpansion <- OneBadExpansion
  BadParse <- OneBadParse
  MaxFaults = 2
  MaxInterrupts = 1
SPECIFICATION MCSpec
INVARIANTS SameAsSequential UnusableIsDiagnosed
PROPERTIES CallEnds
