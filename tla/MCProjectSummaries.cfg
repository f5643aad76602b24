CONSTANTS
  Paths = {1, 2, 3}
  Bodies <- UnitBodies
  Summaries <- UnitSummaries
  Exportable <- IsExportable
  Analyse <- Summary
  Fails = "fails"
  MaxRounds = 4
SPECIFICATION Spec
INVARIANTS Consistent NothingPartial CacheIsFresh
