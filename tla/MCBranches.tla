------------------------------ MODULE MCBranches ------------------------------
(* What decides which branches can be taken: the intervals of a translation *)
(* unit, or the conditional directives of a source.  The initial state      *)
(* decides which of the two a behaviour is about.                           *)
EXTENDS MCIntegerRanges

CONSTANTS Atoms, MaxNodes, Sources, Scenarios, Profiles

VARIABLES scenario, pos, blocks, open, faults, walk, asked, rows, retained, bdd, calls, vals, budget

TheSources == INSTANCE MCConditionalBranches
MCAtoms == TheSources!MCOrder
MCSources == TheSources!MCSources
MCScenarios == TheSources!MCScenarios
MCProfiles == TheSources!MCProfiles

Directives == INSTANCE ConditionalBranches WITH Order <- Atoms, todo <- calls

directiveVars == <<scenario, pos, blocks, open, faults, walk, asked, rows, retained, bdd, calls, vals, budget>>

NoUnit ==
  /\ phase = "none"
  /\ unit = <<>> /\ round = 0 /\ params = <<>> /\ returns = <<>> /\ todo = <<>> /\ incoming = <<>> /\ work = <<>>
  /\ takenNode = 0 /\ outgoing = <<>> /\ nextEdge = 0 /\ before = <<>>
  /\ callers = <<>> /\ running = "none" /\ stack = <<>> /\ env = <<>> /\ here = {}

NoSource ==
  /\ scenario = <<>> /\ pos = 0 /\ blocks = <<>> /\ open = <<>> /\ faults = {}
  /\ walk = <<>> /\ asked = "none" /\ rows = <<>> /\ retained = {}
  /\ bdd = <<>> /\ calls = <<>> /\ vals = <<>> /\ budget = 0

OfUnit == phase # "none"

MCInit == (Init /\ NoSource) \/ (Directives!Init /\ NoUnit)
MCNext == \/ OfUnit /\ Next /\ UNCHANGED directiveVars
          \/ ~OfUnit /\ Directives!Next /\ UNCHANGED vars
MCSpec == /\ MCInit /\ [][MCNext]_<<vars, directiveVars>>
          /\ WF_vars(TakeNode) /\ WF_vars(FlowEdge) /\ WF_vars(EndFunction) /\ WF_vars(NextRound)
          /\ WF_vars(GiveUp) /\ WF_vars(Analysed)

\* The properties of ConditionalBranches, of behaviours that are about a source.
VerdictsHold == ~OfUnit => Directives!VerdictsHold
LiveBranchesAreReported == ~OfUnit => Directives!LiveBranchesAreReported
WitnessesWork == ~OfUnit => Directives!WitnessesWork
NoVariantIsLost == ~OfUnit => Directives!NoVariantIsLost
=============================================================================
