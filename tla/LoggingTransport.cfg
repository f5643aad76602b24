CONSTANTS
  Contexts = {a, b}
  MaxRecords = 1
  MaxFaults = 2
SPECIFICATION FairSpec
INVARIANTS MarkerFollowsScans RecordsArrive NothingLeftRunning
PROPERTIES ContextsClose
