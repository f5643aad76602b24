CONSTANTS
  a = a
  b = b
  c = c
  Files <- Headers
  Kinds = {"plain", "guard", "shared", "unreadable"}
  Bodies <- Inputs
  Depths = {2, 5}
  Budgets = {2, 9}
  Scans <- Lists
SPECIFICATION MCSpec
INVARIANTS ExactlyOnce Repeatable ConditionalsAgree
