CONSTANTS
  Vars = {"p", "q"}
  Functions <- MCFunctions
SPECIFICATION MCSpec
INVARIANTS RunsFollowTheGraph ValuesAreKnown DanglingIsSeen SummaryIsRight SinksAreReported FactsHold
