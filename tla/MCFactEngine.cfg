CONSTANTS
  Funcs = {1, 2, 3}
  Bodies <- FlagBodies
  Facts <- FlagSets
  Bottom <- NoFlags
  Join <- Union
  Unknown <- AllFlags
  Transfer <- Flow
  MaxIterations = 3
SPECIFICATION EngineSpec
INVARIANTS FactsAreStable FactsAreLeast
PROPERTIES ImplementsAnyOrder FactsInTime
