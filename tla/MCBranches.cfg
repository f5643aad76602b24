SPECIFICATION MCSpec
CONSTANTS
  Programs <- MCPrograms
  Half = 4
  NoBound = 20
  Atoms <- MCAtoms
  MaxNodes = 6
  Sources <- MCSources
  Scenarios <- MCScenarios
  Profiles <- MCProfiles
INVARIANTS
  RangesHold
  BranchProofsHold
  VerdictsHold
  LiveBranchesAreReported
  WitnessesWork
  NoVariantIsLost
PROPERTY
  AnalysisEnds
