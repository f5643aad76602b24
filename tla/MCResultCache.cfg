CONSTANTS
  p1 = p1
  p2 = p2
  Procs = {p1, p2}
  MaxEdits = 2
  MaxScans = 3
  MaxFaults = 1
SPECIFICATION Spec
INVARIANTS EntryMatchesKey WarmFindsTheSame
PROPERTIES EntriesSurvive
