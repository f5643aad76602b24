------------------------------ MODULE MCDataflow ------------------------------
(* The analyses of one function, or the value facts of a translation unit: *)
(* the initial state decides which.                                        *)
EXTENDS MCLegacyDataflow

VARIABLES unit, stage, sums, passed, remaining, todo, round, changed, facts, degraded,
          callers, running, frames, env, place

TheUnits == INSTANCE MCValueFacts
Values == INSTANCE ValueFacts
  WITH Units <- TheUnits!MCUnits, MaxIterations <- 2, MaxCalls <- 4,
       phase <- stage, incoming <- passed, stack <- frames, here <- place

unitVars == <<unit, stage, sums, passed, remaining, todo, round, changed, facts, degraded,
              callers, running, frames, env, place>>
functionVars == <<vars, ownership, security>>

NoFunction ==
  /\ phase = "none"
  /\ fn = <<>> /\ ins = <<>> /\ recs = <<>> /\ work = <<>> /\ block = 0 /\ cur = <<>>
  /\ pos = <<>> /\ stack = <<>> /\ mem = <<>> /\ here = <<>> /\ summary = <<>> /\ incoming = <<>>
  /\ done = <<>> /\ reported = <<>> /\ origin = <<>> /\ accepted = <<>>

NoUnit ==
  /\ stage = "none"
  /\ unit = <<>> /\ sums = <<>> /\ passed = <<>> /\ remaining = <<>> /\ todo = <<>> /\ round = <<>>
  /\ changed = <<>> /\ facts = <<>> /\ degraded = <<>> /\ callers = <<>> /\ running = <<>> /\ frames = <<>>
  /\ env = <<>> /\ place = <<>>

MCInit == (SecurityInit /\ NoUnit) \/ (Values!Init /\ NoFunction)
MCNext == (SecurityNext /\ UNCHANGED unitVars) \/ (Values!Next /\ UNCHANGED functionVars)
MCSpec == MCInit /\ [][MCNext]_<<functionVars, unitVars>>

FactsHold == Values!FactsHold
=============================================================================
