CONSTANTS
  p1 = p1
  p2 = p2
  Procs = {p1}
  MaxEdits = 0
  MaxScans = 2
  MaxFaults = 0
SPECIFICATION Spec
INVARIANT WarmIsCold
