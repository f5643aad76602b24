CONSTANTS
  Files = {1, 2}
  Standalone = {1}
  Columns = {1, 2, 3}
  Messages = {1, 2}
  DedupChoices = {TRUE, FALSE}
  MaxFindings = 3
  Profiles = {1, 2, 3}
  Inputs <- MCInputs
SPECIFICATION Spec
INVARIANTS SitesAreKept LabelsAreRight RepeatsAddNothing
