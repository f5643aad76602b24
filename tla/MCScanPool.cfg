CONSTANTS
  NFiles = 3
  Workers = {w1, w2}
  Outcome <- MCOutcome
  MaxFaults = 1
  MaxInterrupts = 1
SPECIFICATION FairSpec
INVARIANTS OneRowPerFile NothingLeftBehind
PROPERTIES KeepsPromise CallEnds
