------------------------- MODULE FactEngine_proofs -------------------------
(***************************************************************************)
(* First for FixedPoint: for every lattice with the FiniteLattice          *)
(* contract, every monotone transfer function and every call graph, the    *)
(* facts the engine publishes are stable, least where nothing was          *)
(* degraded, and reached in the rounds that the height of the lattice      *)
(* allows.  Then for FactEngine: for every call graph, the two passes of   *)
(* _strongly_connected_components find its components,                     *)
(* _bottom_up_scc_order lists all of them, callees first, and the engine   *)
(* that takes them from this list is a run of FixedPoint, so that what is  *)
(* proved of FixedPoint holds of it.                                       *)
(***************************************************************************)
EXTENDS FactEngine, SequenceTheorems, FiniteSetTheorems, WellFoundedInduction, TLAPS

USE DEF Leq

\* Join is a least upper bound for the order it defines.
LEMMA JoinAbove ==
  ASSUME NEW x \in Facts, NEW y \in Facts
  PROVE  Leq(y, Join(x, y)) /\ (Join(x, y) = x => Leq(y, x))
  <1>1. Join(y, Join(x, y)) = Join(y, Join(y, x))
    BY JoinAssumption
  <1>2. Join(y, Join(y, x)) = Join(Join(y, y), x)
    BY JoinAssumption
  <1> QED BY <1>1, <1>2, JoinAssumption

LEMMA JoinBelow ==
  ASSUME NEW x \in Facts, NEW y \in Facts, NEW z \in Facts, Leq(x, z), Leq(y, z)
  PROVE  Leq(Join(x, y), z)
  BY JoinAssumption

LEMMA LeqTransitive ==
  ASSUME NEW x \in Facts, NEW y \in Facts, NEW z \in Facts, Leq(x, y), Leq(y, z)
  PROVE  Leq(x, z)
  <1>1. Join(x, Join(y, z)) = Join(Join(x, y), z)
    BY JoinAssumption
  <1> QED BY <1>1

\* A component is made of functions, and holds the one it is named after.
LEMMA ComponentOfFunctions ==
  ASSUME calls \in [Funcs -> SUBSET Funcs], NEW f \in Funcs
  PROVE  Component(calls, f) \subseteq Funcs
  BY DEF Component, Reach

-----------------------------------------------------------------------------
(* The inductive invariant.                                                *)

\* No function is finished before its callees, and the component at hand
\* calls only itself and finished functions.
CalleesDone ==
  /\ \A f \in done : calls[f] \subseteq done
  /\ \A f \in current : calls[f] \subseteq done \cup current

\* The round in progress reads the current facts.
RoundReadsFacts ==
  current # {} =>
    /\ snapshot = facts
    /\ rounds \in 1..MaxIterations
    /\ \A f \in DOMAIN updates : updates[f] = Joined(f)

IInv == TypeOK /\ CalleesDone /\ RoundReadsFacts

LEMMA SeenType ==
  ASSUME TypeOK, NEW f \in Funcs, NEW env \in [Funcs -> Facts]
  PROVE  /\ calls[f] \in SUBSET Funcs
         /\ Seen(f, env) \in [calls[f] -> Facts]
         /\ Transfer(body[f], Seen(f, env)) \in Facts
  <1>1. calls[f] \in SUBSET Funcs /\ body[f] \in Bodies
    BY DEF TypeOK
  <1>2. Seen(f, env) \in [calls[f] -> Facts]
    BY <1>1 DEF Seen
  <1> QED BY <1>1, <1>2, FactsAssumption

LEMMA JoinedType ==
  ASSUME TypeOK, NEW f \in Funcs
  PROVE  Joined(f) \in Facts
  <1>1. Transfer(body[f], Seen(f, snapshot)) \in Facts /\ snapshot[f] \in Facts
    BY SeenType DEF TypeOK
  <1> QED BY <1>1, FactsAssumption DEF Joined

LEMMA UpdatedType ==
  ASSUME TypeOK, RoundOver
  PROVE  Updated \in [Funcs -> Facts]
  BY DEF TypeOK, RoundOver, Updated

LEMMA InitInductive == Init => IInv
  <1> SUFFICES ASSUME Init PROVE IInv
    OBVIOUS
  <1>1. facts \in [Funcs -> Facts]
    BY FactsAssumption DEF Init
  <1>2. TypeOK
    BY <1>1, MaxIterationsAssumption DEF Init, TypeOK, Nothing
  <1>3. CalleesDone /\ RoundReadsFacts
    BY DEF Init, CalleesDone, RoundReadsFacts
  <1> QED BY <1>2, <1>3 DEF IInv

LEMMA StepInductive == IInv /\ [Next]_vars => IInv'
  <1> SUFFICES ASSUME IInv, [Next]_vars PROVE IInv'
    OBVIOUS
  <1> USE DEF IInv
  <1>1. CASE StartComponent
    <2> PICK f \in Funcs : IsNext(Component(calls, f)) /\ current' = Component(calls, f)
      BY <1>1 DEF StartComponent, Begin
    <2>1. current' \subseteq Funcs /\ current' \cap done = {}
      BY ComponentOfFunctions DEF TypeOK, IsNext
    <2>2. \A g \in current' : calls[g] \subseteq done \cup current'
      BY DEF IsNext, CalleesOutside
    <2>3. TypeOK'
      BY <1>1, <2>1, MaxIterationsAssumption DEF StartComponent, Begin, TypeOK, Nothing
    <2>4. CalleesDone'
      BY <1>1, <2>2 DEF StartComponent, Begin, CalleesDone
    <2>5. RoundReadsFacts'
      BY <1>1, MaxIterationsAssumption DEF StartComponent, Begin, RoundReadsFacts, Nothing
    <2> QED BY <2>3, <2>4, <2>5
  <1>2. ASSUME NEW f \in Funcs, Update(f) PROVE IInv'
    <2>1. Joined(f) \in Facts
      BY JoinedType
    <2>2. DOMAIN updates' = DOMAIN updates \cup {f}
      BY <1>2 DEF Update
    <2>3. \A g \in DOMAIN updates' : updates'[g] = IF g = f THEN Joined(f) ELSE updates[g]
      BY <1>2 DEF Update
    <2>4. TypeOK'
      BY <1>2, <2>1, <2>2, <2>3 DEF Update, TypeOK
    <2>5. CalleesDone'
      BY <1>2 DEF Update, CalleesDone
    <2>6. \A g : Joined(g)' = Joined(g)
      BY <1>2 DEF Update, Joined, Seen
    <2>7. RoundReadsFacts'
      BY <1>2, <2>2, <2>3, <2>6 DEF Update, RoundReadsFacts
    <2> QED BY <2>4, <2>5, <2>7
  <1>3. CASE NextRound
    <2>1. Updated \in [Funcs -> Facts]
      BY <1>3, UpdatedType DEF NextRound
    <2>2. current # {} /\ rounds \in 1..MaxIterations /\ rounds + 1 \in 1..MaxIterations
      BY <1>3, MaxIterationsAssumption
      DEF NextRound, RoundOver, RoundsLeft, Budget, RoundReadsFacts
    <2>3. TypeOK'
      BY <1>3, <2>1, <2>2 DEF NextRound, TypeOK, Nothing
    <2>4. CalleesDone' /\ RoundReadsFacts'
      BY <1>3, <2>2 DEF NextRound, CalleesDone, RoundReadsFacts, Nothing
    <2> QED BY <2>3, <2>4
  <1>4. CASE Converge
    <2>1. Updated \in [Funcs -> Facts]
      BY <1>4, UpdatedType DEF Converge
    <2>2. TypeOK'
      BY <1>4, <2>1, MaxIterationsAssumption DEF Converge, TypeOK, Nothing
    <2>3. CalleesDone' /\ RoundReadsFacts'
      BY <1>4 DEF Converge, CalleesDone, RoundReadsFacts
    <2> QED BY <2>2, <2>3
  <1>5. CASE Degrade
    <2>1. Updated \in [Funcs -> Facts]
      BY <1>5, UpdatedType DEF Degrade
    <2>2. facts' \in [Funcs -> Facts]
      BY <1>5, <2>1, FactsAssumption DEF Degrade, TypeOK
    <2>3. TypeOK'
      BY <1>5, <2>2, MaxIterationsAssumption DEF Degrade, TypeOK, Nothing
    <2>4. CalleesDone' /\ RoundReadsFacts'
      BY <1>5 DEF Degrade, CalleesDone, RoundReadsFacts
    <2> QED BY <2>3, <2>4
  <1>6. CASE UNCHANGED vars
    BY <1>6 DEF vars, round, TypeOK, CalleesDone, RoundReadsFacts, Joined, Seen
  <1> QED BY <1>1, <1>2, <1>3, <1>4, <1>5, <1>6 DEF Next, Compute, Terminated

\* Every variable of the engine stays in its range, and a round updates only
\* the component it was started for.
THEOREM TypeCorrect == Spec => []TypeOK
  <1>1. IInv => TypeOK
    BY DEF IInv
  <1> QED BY InitInductive, StepInductive, <1>1, PTL DEF Spec

-----------------------------------------------------------------------------
(* Stability.                                                              *)

LEMMA StableStep == IInv /\ FactsAreStable /\ [Next]_vars => FactsAreStable'
  <1> SUFFICES ASSUME IInv, FactsAreStable, [Next]_vars,
                      NEW f \in (done \ degraded)'
               PROVE  Leq(Transfer(body[f], Seen(f, facts)), facts[f])'
    BY DEF FactsAreStable
  <1> USE DEF IInv
  <1>1. calls' = calls /\ body' = body
    BY DEF Next, Compute, StartComponent, Begin, Update, NextRound, Converge, Degrade, Terminated, vars, round
  <1>2. ASSUME f \in done \ degraded, \A g \in done : facts'[g] = facts[g]
        PROVE  Leq(Transfer(body[f], Seen(f, facts)), facts[f])'
    <2>1. Seen(f, facts') = Seen(f, facts)
      BY <1>2 DEF Seen, CalleesDone
    <2> QED BY <1>1, <1>2, <2>1 DEF FactsAreStable, Seen
  <1>3. CASE UNCHANGED <<facts, done, degraded>>
    BY <1>2, <1>3
  <1>4. CASE NextRound
    <2>1. \A g \in done : facts'[g] = facts[g]
      BY <1>4 DEF NextRound, Updated, TypeOK
    <2> QED BY <1>2, <1>4, <2>1 DEF NextRound
  <1>5. CASE Converge
    <2>1. \A g \in done : facts'[g] = facts[g]
      BY <1>5 DEF Converge, Updated, TypeOK
    <2>2. CASE f \in done
      BY <1>2, <1>5, <2>1, <2>2 DEF Converge
    <2>3. CASE f \in current
      <3> DEFINE T == Transfer(body[f], Seen(f, facts))
      <3>1. f \in Funcs /\ T \in Facts /\ facts[f] \in Facts
        BY <2>3, SeenType DEF TypeOK
      <3>2. snapshot = facts /\ updates[f] = Join(facts[f], T) /\ facts'[f] = updates[f]
        BY <1>5, <2>3, <3>1 DEF Converge, RoundOver, RoundReadsFacts, Joined, Updated
      <3>3. CASE ~IsRecursive
        <4>1. calls[f] \subseteq done
          BY <2>3, <3>3 DEF IsRecursive, Recursive, CalleesDone
        <4>2. Seen(f, facts') = Seen(f, facts)
          BY <2>1, <4>1 DEF Seen
        <4>3. Leq(T, facts'[f])
          BY <3>1, <3>2, JoinAbove
        <4> QED BY <1>1, <4>2, <4>3 DEF Seen
      <3>4. CASE ~Changed
        <4>1. \A g \in current : facts'[g] = facts[g]
          BY <1>5, <2>3, <3>2, <3>4 DEF Converge, Changed, Updated, TypeOK
        <4>2. Seen(f, facts') = Seen(f, facts)
          BY <2>1, <2>3, <4>1 DEF Seen, CalleesDone
        <4>3. Leq(T, facts'[f])
          BY <2>3, <3>1, <3>2, <4>1, JoinAbove
        <4> QED BY <1>1, <4>2, <4>3 DEF Seen
      <3> QED BY <1>5, <3>3, <3>4 DEF Converge, Converged
    <2> QED BY <1>5, <2>2, <2>3 DEF Converge
  <1>6. CASE Degrade
    <2>1. \A g \in done : facts'[g] = facts[g]
      BY <1>6 DEF Degrade, TypeOK
    <2> QED BY <1>2, <1>6, <2>1 DEF Degrade
  <1> QED BY <1>3, <1>4, <1>5, <1>6
      DEF Next, Compute, StartComponent, Begin, Update, Terminated, vars

\* A finished function that was not degraded keeps no conclusion that its
\* callees' final facts do not justify.
THEOREM FinishedFactsAreStable == Spec => []FactsAreStable
  <1>1. Init => FactsAreStable
    BY DEF Init, FactsAreStable
  <1> QED BY InitInductive, StepInductive, <1>1, StableStep, PTL DEF Spec

-----------------------------------------------------------------------------
(* Leastness.                                                              *)

\* Nothing computed so far exceeds the solution g.
Below(g) ==
  /\ \A f \in Funcs : Leq(facts[f], g[f])
  /\ \A f \in DOMAIN updates : Leq(updates[f], g[f])

AllBelow == degraded = {} => \A g \in [Funcs -> Facts] : Solution(g) => Below(g)

LEMMA AllBelowInit == Init => AllBelow
  BY BottomAssumption DEF Init, AllBelow, Below, Nothing

LEMMA AllBelowStep == IInv /\ AllBelow /\ [Next]_vars => AllBelow'
  <1> SUFFICES ASSUME IInv, AllBelow, [Next]_vars, degraded' = {},
                      NEW g \in [Funcs -> Facts], Solution(g)'
               PROVE  Below(g)'
    BY DEF AllBelow
  <1> USE DEF IInv
  <1>1. calls' = calls /\ body' = body
    BY DEF Next, Compute, StartComponent, Begin, Update, NextRound, Converge, Degrade, Terminated, vars, round
  <1>2. Solution(g)
    BY <1>1 DEF Solution, Seen
  <1>3. ~Degrade /\ degraded = {}
    BY DEF Next, Compute, StartComponent, Begin, Update, NextRound, Converge, Degrade, Terminated, vars, RoundOver
  <1>4. Below(g)
    BY <1>2, <1>3 DEF AllBelow
  <1>5. ASSUME NEW f \in Funcs, Update(f) PROVE Below(g)'
    <2> DEFINE T == Transfer(body[f], Seen(f, facts))
               U == Transfer(body[f], Seen(f, g))
    <2>1. snapshot = facts /\ Joined(f) = Join(facts[f], T)
      BY <1>5 DEF Update, RoundReadsFacts, Joined
    <2>2. /\ calls[f] \in SUBSET Funcs /\ body[f] \in Bodies
          /\ Seen(f, facts) \in [calls[f] -> Facts] /\ Seen(f, g) \in [calls[f] -> Facts]
          /\ T \in Facts /\ U \in Facts /\ facts[f] \in Facts /\ g[f] \in Facts
      BY SeenType DEF TypeOK
    <2>3. \A h \in calls[f] : Leq(Seen(f, facts)[h], Seen(f, g)[h])
      BY <1>4, <2>2 DEF Below, Seen
    <2>4. Leq(T, U)
      BY <2>2, <2>3, MonotoneAssumption
    <2>5. Leq(U, g[f])
      BY <1>2 DEF Solution
    <2>6. Leq(T, g[f])
      BY <2>2, <2>4, <2>5, LeqTransitive
    <2>7. Leq(facts[f], g[f])
      BY <1>4 DEF Below
    <2>8. Leq(Joined(f), g[f])
      BY <2>1, <2>2, <2>6, <2>7, JoinBelow
    <2>9. \A h \in DOMAIN updates' : Leq(updates'[h], g[h])
      BY <1>4, <1>5, <2>8 DEF Update, Below
    <2> QED BY <1>4, <1>5, <2>9 DEF Update, Below
  <1>6. CASE NextRound \/ Converge
    <2>1. facts' = Updated /\ updates' = Nothing /\ DOMAIN updates = current
      BY <1>6 DEF NextRound, Converge, RoundOver
    <2>2. \A f \in Funcs : Leq(Updated[f], g[f])
      BY <1>4, <2>1 DEF Below, Updated
    <2> QED BY <2>1, <2>2 DEF Below, Nothing
  <1>7. CASE StartComponent
    BY <1>4, <1>7 DEF StartComponent, Begin, Below, Nothing
  <1>8. CASE UNCHANGED vars
    BY <1>4, <1>8 DEF vars, round, Below
  <1> QED BY <1>3, <1>5, <1>6, <1>7, <1>8 DEF Next, Compute, Terminated

\* Where nothing was degraded, the facts are the least solution, whatever the
\* order of components and of the functions in a round.
THEOREM UndegradedFactsAreLeast == Spec => []FactsAreLeast
  <1>1. AllBelow => FactsAreLeast
    BY DEF AllBelow, FactsAreLeast, Below
  <1> QED BY InitInductive, StepInductive, AllBelowInit, AllBelowStep, <1>1, PTL DEF Spec
-----------------------------------------------------------------------------
(* Reachability and components.                                            *)

Graph == calls \in [Funcs -> SUBSET Funcs]

\* A set that is closed under calls holds all that its members reach.
LEMMA ReachIsClosure ==
  ASSUME Graph, NEW f \in Funcs
  PROVE  /\ Reach(calls, f) \in SUBSET Funcs /\ f \in Reach(calls, f)
         /\ \A g \in Reach(calls, f) : calls[g] \subseteq Reach(calls, f)
         /\ \A S \in SUBSET Funcs : f \in S /\ (\A x \in S : calls[x] \subseteq S)
              => Reach(calls, f) \subseteq S
  BY DEF Graph, Reach, Closed

LEMMA ReachTransitive ==
  ASSUME Graph, NEW f \in Funcs, NEW g \in Reach(calls, f)
  PROVE  Reach(calls, g) \subseteq Reach(calls, f)
  BY ReachIsClosure

LEMMA ComponentIsClass ==
  ASSUME Graph, NEW f \in Funcs
  PROVE  /\ Component(calls, f) \in SUBSET Funcs /\ f \in Component(calls, f)
         /\ \A g \in Funcs : g \in Component(calls, f)
              <=> g \in Reach(calls, f) /\ f \in Reach(calls, g)
         /\ \A g \in Component(calls, f) : Component(calls, g) = Component(calls, f)
  <1>1. /\ Component(calls, f) \in SUBSET Funcs /\ f \in Component(calls, f)
        /\ \A g \in Funcs : g \in Component(calls, f)
             <=> g \in Reach(calls, f) /\ f \in Reach(calls, g)
    BY ReachIsClosure DEF Component
  <1>2. ASSUME NEW g \in Component(calls, f), NEW h \in Funcs
        PROVE  h \in Component(calls, g) <=> h \in Component(calls, f)
    <2>1. Reach(calls, g) = Reach(calls, f)
      BY <1>1, ReachTransitive
    <2>2. g \in Reach(calls, h) <=> f \in Reach(calls, h)
      BY <1>1, ReachTransitive
    <2> QED BY <2>1, <2>2, <1>1, ReachIsClosure DEF Component
  <1>3. \A g \in Component(calls, f) : Component(calls, g) \in SUBSET Funcs
    BY <1>1, ReachIsClosure DEF Component
  <1> QED BY <1>1, <1>2, <1>3

-----------------------------------------------------------------------------
(* The budget.                                                             *)

\* A rank bounds how often a fact can grow.
Ranks(rank, height) ==
  /\ rank \in [Facts -> 0..height]
  /\ \A x, y \in Facts : Leq(x, y) /\ x # y => rank[x] < rank[y]

\* How far the facts of the functions in C have climbed, one pair for each step.
Climbed(C, env, rank, height) == {p \in C \X (1..height) : p[2] <= rank[env[p[1]]]}

\* Every round but the first was made because the one before it climbed.
RoundsClimb(rank, height) ==
  /\ Graph
  /\ current # {} =>
       /\ \E f \in Funcs : current = Component(calls, f)
       /\ Cardinality(Climbed(current, snapshot, rank, height)) >= rounds - 1

LEMMA ClimbedIsBounded ==
  ASSUME NEW height \in Nat, NEW C, IsFiniteSet(C), NEW env, NEW rank
  PROVE  /\ IsFiniteSet(Climbed(C, env, rank, height))
         /\ Cardinality(Climbed(C, env, rank, height)) \in Nat
         /\ Cardinality(Climbed(C, env, rank, height)) <= Cardinality(C) * height
  <1>1. IsFiniteSet(1..height) /\ Cardinality(1..height) = height
    BY FS_Interval
  <1>2. IsFiniteSet(C \X (1..height)) /\ Cardinality(C \X (1..height)) = Cardinality(C) * height
    BY <1>1, FS_Product
  <1>3. Climbed(C, env, rank, height) \in SUBSET (C \X (1..height))
    BY DEF Climbed
  <1>4. IsFiniteSet(Climbed(C, env, rank, height))
    BY <1>2, <1>3, FS_Subset
  <1> QED BY <1>2, <1>3, <1>4, FS_Subset, FS_CardinalityType

\* A round that changes a fact climbs.
LEMMA RoundClimbs ==
  ASSUME NEW height \in Nat, NEW rank, Ranks(rank, height), IsFiniteSet(current),
         IInv, RoundOver, Changed, NEW env, \A f \in current : env[f] = updates[f]
  PROVE  Cardinality(Climbed(current, env, rank, height))
           > Cardinality(Climbed(current, snapshot, rank, height))
  <1> DEFINE before == Climbed(current, snapshot, rank, height)
             after == Climbed(current, env, rank, height)
  <1>1. \A f \in current : /\ snapshot[f] \in Facts /\ updates[f] \in Facts
                           /\ updates[f] = Joined(f)
    BY DEF IInv, TypeOK, RoundReadsFacts, RoundOver
  <1>2. \A f \in current : Leq(snapshot[f], updates[f])
    <2> SUFFICES ASSUME NEW f \in current PROVE Leq(snapshot[f], updates[f])
      OBVIOUS
    <2> DEFINE T == Transfer(body[f], Seen(f, snapshot))
    <2>1. T \in Facts /\ snapshot[f] \in Facts /\ updates[f] = Join(snapshot[f], T)
      BY <1>1, SeenType DEF IInv, TypeOK, Joined
    <2> HIDE DEF T
    <2>2. Join(snapshot[f], T) = Join(T, snapshot[f])
      BY <2>1, JoinAssumption
    <2> QED BY <2>1, <2>2, JoinAbove
  <1>3. \A f \in current : rank[snapshot[f]] \in 0..height /\ rank[updates[f]] \in 0..height
    BY <1>1 DEF Ranks
  <1>4. \A f \in current : rank[snapshot[f]] <= rank[updates[f]]
    BY <1>1, <1>2, <1>3 DEF Ranks
  <1>5. PICK f \in current : updates[f] # snapshot[f]
    BY DEF Changed
  <1>6. rank[snapshot[f]] < rank[updates[f]]
    BY <1>1, <1>2, <1>5 DEF Ranks
  <1>7. before \in SUBSET after
    BY <1>3, <1>4 DEF Climbed
  <1> DEFINE p == <<f, rank[updates[f]]>>
  <1>8. p \in after /\ p \notin before
    BY <1>3, <1>5, <1>6 DEF Climbed
  <1>9. /\ IsFiniteSet(after) /\ Cardinality(after) \in Nat
        /\ IsFiniteSet(before) /\ Cardinality(before) \in Nat
    BY ClimbedIsBounded
  <1> QED BY <1>7, <1>8, <1>9, FS_Subset

LEMMA BudgetStep ==
  ASSUME NEW height \in Nat, NEW rank, Ranks(rank, height), IsFiniteSet(Funcs),
         IInv, RoundsClimb(rank, height), BudgetSuffices(height), [Next]_vars
  PROVE  RoundsClimb(rank, height)' /\ BudgetSuffices(height)'
  <1>1. calls' = calls /\ Graph /\ Graph'
    BY DEF RoundsClimb, Graph, Next, Compute, StartComponent, Begin, Update, NextRound, Converge,
           Degrade, Terminated, vars
  <1>2. \A f : Component(calls, f)' = Component(calls, f)
    BY <1>1
  <1>3. \A C \in SUBSET Funcs : IsFiniteSet(C)
    BY FS_Subset
  <1>4. CASE StartComponent
    <2>1. PICK f \in Funcs : Begin(Component(calls, f))
      BY <1>4 DEF StartComponent
    <2>2. current' = Component(calls, f) /\ rounds' = 1 /\ degraded' = degraded
      BY <2>1 DEF Begin
    <2>3. Cardinality(Climbed(current', snapshot', rank, height)) \in Nat
      BY <1>1, <1>3, <2>2, ComponentIsClass, ClimbedIsBounded
    <2> QED BY <1>1, <1>2, <2>2, <2>3 DEF RoundsClimb, BudgetSuffices
  <1>5. CASE UNCHANGED <<current, rounds, snapshot, degraded>>
    BY <1>1, <1>2, <1>5 DEF RoundsClimb, BudgetSuffices
  <1>6. CASE NextRound
    <2>1. RoundOver /\ Changed /\ rounds' = rounds + 1 /\ snapshot' = Updated
          /\ current' = current /\ degraded' = degraded /\ current # {}
      BY <1>6 DEF NextRound, Converged, RoundOver
    <2>2. current \subseteq Funcs /\ rounds \in Nat
      BY DEF IInv, TypeOK
    <2>3. \A f \in current : Updated[f] = updates[f]
      BY <2>2 DEF Updated
    <2>4. /\ Cardinality(Climbed(current, Updated, rank, height))
               > Cardinality(Climbed(current, snapshot, rank, height))
          /\ Cardinality(Climbed(current, Updated, rank, height)) \in Nat
          /\ Cardinality(Climbed(current, snapshot, rank, height)) \in Nat
      BY <1>3, <2>1, <2>2, <2>3, RoundClimbs, ClimbedIsBounded
    <2>5. Cardinality(Climbed(current', snapshot', rank, height)) >= rounds' - 1
      BY <2>1, <2>2, <2>4 DEF RoundsClimb
    <2> QED BY <1>1, <1>2, <2>1, <2>5 DEF RoundsClimb, BudgetSuffices
  <1>7. CASE Converge
    BY <1>1, <1>2, <1>7 DEF Converge, RoundsClimb, BudgetSuffices
  <1>8. CASE Degrade
    <2>1. RoundOver /\ Changed /\ current' = {} /\ degraded' = degraded \cup current
          /\ current # {} /\ ~(rounds < MaxIterations)
      BY <1>8 DEF Degrade, Converged, RoundOver, RoundsLeft, Budget
    <2>2. current \subseteq Funcs /\ rounds \in Nat /\ MaxIterations \in Nat
      BY MaxIterationsAssumption DEF IInv, TypeOK
    <2>3. /\ Cardinality(Climbed(current, updates, rank, height))
               > Cardinality(Climbed(current, snapshot, rank, height))
          /\ Cardinality(Climbed(current, updates, rank, height)) \in Nat
          /\ Cardinality(Climbed(current, updates, rank, height)) <= Cardinality(current) * height
          /\ Cardinality(Climbed(current, snapshot, rank, height)) \in Nat
      BY <1>3, <2>1, <2>2, RoundClimbs, ClimbedIsBounded
    <2>4. Cardinality(current) \in Nat
      BY <1>3, <2>2, FS_CardinalityType
    <2>5. Cardinality(current) * height >= MaxIterations
      <3> DEFINE most == Cardinality(current) * height
      <3>1. most \in Nat
        BY <2>4
      <3> HIDE DEF most
      <3>2. Cardinality(Climbed(current, snapshot, rank, height)) >= rounds - 1
        BY <2>1 DEF RoundsClimb
      <3>3. Cardinality(Climbed(current, updates, rank, height)) <= most
        BY <2>3 DEF most
      <3>4. most >= MaxIterations
        BY <2>1, <2>2, <2>3, <3>1, <3>2, <3>3
      <3> QED BY <3>4 DEF most
    <2>6. \A f \in current : Component(calls, f) = current
      BY <1>1, <2>1, ComponentIsClass DEF RoundsClimb
    <2>7. \A f \in current : ~(MaxIterations > Cardinality(Component(calls, f)) * height)
      <3> DEFINE most == Cardinality(current) * height
      <3>1. most \in Nat /\ ~(MaxIterations > most)
        BY <2>2, <2>4, <2>5
      <3> QED BY <2>6, <3>1
    <2> QED BY <1>1, <1>2, <2>1, <2>7 DEF RoundsClimb, BudgetSuffices
  <1>9. UNCHANGED vars => UNCHANGED <<current, rounds, snapshot, degraded>>
    BY DEF vars, round
  <1>10. (\E f \in Funcs : Update(f)) => UNCHANGED <<current, rounds, snapshot, degraded>>
    BY DEF Update
  <1> QED BY <1>4, <1>5, <1>6, <1>7, <1>8, <1>9, <1>10 DEF Next, Compute, Terminated

\* In a lattice of a given height, a component is degraded only when its budget
\* is smaller than the longest climb of all its functions: one round for each
\* step up and one to see that nothing changes any more always suffice.
THEOREM BudgetIsEnough ==
  ASSUME NEW height \in Nat, NEW rank, Ranks(rank, height), IsFiniteSet(Funcs)
  PROVE  Spec => []BudgetSuffices(height)
  <1>1. Init => RoundsClimb(rank, height) /\ BudgetSuffices(height)
    BY DEF Init, RoundsClimb, Graph, BudgetSuffices
  <1>2. IInv /\ RoundsClimb(rank, height) /\ BudgetSuffices(height) /\ [Next]_vars
          => (RoundsClimb(rank, height) /\ BudgetSuffices(height))'
    BY BudgetStep
  <1> QED BY InitInductive, StepInductive, <1>1, <1>2, PTL DEF Spec

HIDE DEF Leq

-----------------------------------------------------------------------------
(* Least and greatest elements.                                            *)

LEMMA LeastExists ==
  ASSUME NEW S \in SUBSET Nat, S # {}
  PROVE  \E x \in S : \A y \in S : x <= y
  <1> DEFINE R == OpToRel(<, Nat)
  <1>1. IsWellFoundedOn(R, Nat)
    BY NatLessThanWellFounded
  <1>2. \A x, y \in Nat : <<y, x>> \in R <=> y < x
    BY DEF OpToRel
  <1> HIDE DEF R
  <1>3. PICK x \in S : \A y \in S : ~ (<<y, x>> \in R)
    BY <1>1, WFMin
  <1>4. \A y \in S : ~ (y < x)
    BY <1>2, <1>3
  <1> QED BY <1>4

LEMMA GreatestExists ==
  ASSUME NEW n \in Nat, NEW S \in SUBSET (1..n), S # {}
  PROVE  \E x \in S : \A y \in S : y <= x
  <1> DEFINE T == {n - x : x \in S}
  <1>1. \A x \in S : x \in Nat /\ n - x \in Nat
    OBVIOUS
  <1>5. T \in SUBSET Nat /\ T # {}
    BY <1>1
  <1>2. PICK t \in T : \A u \in T : t <= u
    BY <1>5, LeastExists
  <1>3. PICK x \in S : t = n - x
    OBVIOUS
  <1>4. ASSUME NEW y \in S PROVE y <= x
    <2>1. n - y \in T
      OBVIOUS
    <2>2. n - x <= n - y
      BY <1>2, <1>3, <2>1
    <2> QED BY <2>2
  <1> QED BY <1>4

LEMMA LeastIsIn ==
  ASSUME NEW S \in SUBSET Funcs, S # {}
  PROVE  Order!Least(S) \in S /\ \A y \in S : Order!Least(S) <= y
  <1>1. S \in SUBSET Nat
    BY FuncsAssumption
  <1>2. \E x \in S : \A y \in S : x <= y
    BY <1>1, LeastExists
  <1> QED BY <1>2 DEF Order!Least

-----------------------------------------------------------------------------
(* The depth-first search.                                                 *)

Frames == [node : Funcs, rest : SUBSET Funcs]
OnStack == {frames[i].node : i \in 1..Len(frames)}
LeftBy(k) == {finished[i] : i \in 1..k}
Left == LeftBy(Len(finished))

SearchTypes ==
  /\ Graph
  /\ phase \in {"search", "collect", "order", "done"}
  /\ seen \subseteq Funcs /\ frames \in Seq(Frames) /\ finished \in Seq(Funcs)

\* A node that was entered is on the stack or was left, once; what was looked at
\* of a node was entered; a node on the stack reaches those above it.
SearchShape ==
  /\ seen = OnStack \cup Left /\ OnStack \cap Left = {}
  /\ \A i, j \in 1..Len(frames) : frames[i].node = frames[j].node => i = j
  /\ \A i, j \in 1..Len(finished) : finished[i] = finished[j] => i = j
  /\ \A i \in 1..Len(frames) :
       /\ frames[i].rest \subseteq calls[frames[i].node]
       /\ calls[frames[i].node] \ frames[i].rest \subseteq seen
  /\ \A f \in Left : calls[f] \subseteq seen
  /\ \A i \in 1..Len(frames) : \A j \in i..Len(frames) :
       frames[j].node \in Reach(calls, frames[i].node)
  /\ phase # "search" => frames = <<>> /\ seen = Funcs

\* When the last node of a component is left, everything it reaches has been
\* left: what makes the second pass find components.
LastOfComponent ==
  \A k \in 1..Len(finished) :
    Component(calls, finished[k]) \subseteq LeftBy(k)
      => Reach(calls, finished[k]) \subseteq LeftBy(k)

SearchInv == SearchTypes /\ SearchShape /\ LastOfComponent

LEMMA SearchInit == Order!Init => SearchInv
  BY DEF Order!Init, SearchInv, SearchTypes, SearchShape, LastOfComponent, Graph, OnStack,
         LeftBy, Left

\* A new node is put on the stack, below it a frame with one callee less if
\* there was one.
LEMMA SearchPush ==
  ASSUME SearchInv, phase = "search", phase' = phase, calls' = calls, finished' = finished,
         NEW callee \in Funcs \ seen,
         NEW rest \in Seq(Frames), Len(rest) = Len(frames),
         \A i \in 1..Len(frames) :
           /\ rest[i].node = frames[i].node
           /\ rest[i].rest = frames[i].rest
              \/ (i = Len(frames) /\ rest[i].rest = frames[i].rest \ {callee}),
         frames # <<>> => callee \in calls[frames[Len(frames)].node],
         seen' = seen \cup {callee}, frames' = Append(rest, Order!Frame(callee))
  PROVE  SearchInv'
  <1> USE DEF SearchInv
  <1> DEFINE n == Len(frames)
             new == Order!Frame(callee)
  <1>1. new \in Frames /\ new.node = callee /\ new.rest = calls[callee]
    BY DEF Order!Frame, Frames, SearchTypes, Graph
  <1>2. /\ n \in Nat /\ Len(frames') = n + 1 /\ frames'[n + 1] = new
        /\ \A i \in 1..n : frames'[i] = rest[i] /\ frames'[i].node = frames[i].node
        /\ frames' \in Seq(Frames)
    <2>1. frames' = Append(rest, new) /\ new \in Frames
      BY <1>1
    <2> HIDE DEF new
    <2> QED BY <2>1 DEF SearchTypes
  <1> HIDE DEF new
  <1>3. SearchTypes'
    BY <1>2 DEF SearchTypes, Graph
  <1>4. Left' = Left /\ (\A k : LeftBy(k)' = LeftBy(k))
    BY DEF Left, LeftBy
  <1>5. OnStack' = OnStack \cup {callee}
    BY <1>1, <1>2 DEF OnStack
  <1>6. callee \notin OnStack /\ callee \notin Left
    BY DEF SearchShape
  <1>7. \A i, j \in 1..Len(frames') : frames'[i].node = frames'[j].node => i = j
    <2>1. \A i \in 1..n : frames[i].node # callee
      BY <1>6 DEF OnStack
    <2> QED BY <1>1, <1>2, <2>1 DEF SearchShape
  <1>8. \A i \in 1..Len(frames') :
       /\ frames'[i].rest \subseteq calls[frames'[i].node]
       /\ calls[frames'[i].node] \ frames'[i].rest \subseteq seen'
    BY <1>1, <1>2 DEF SearchShape
  <1>9. \A i \in 1..Len(frames') : \A j \in i..Len(frames') :
          frames'[j].node \in Reach(calls, frames'[i].node)
    <2>1. \A i \in 1..n : frames[i] \in Frames
      BY DEF SearchTypes
    <2>2. ASSUME NEW i \in 1..n PROVE callee \in Reach(calls, frames[i].node)
      <3>1. n \in i..n /\ frames # <<>> /\ frames[i].node \in Funcs
        BY <2>1, <2>2, <1>2 DEF Frames
      <3>2. frames[n].node \in Reach(calls, frames[i].node)
        BY <3>1 DEF SearchShape
      <3> QED BY <3>1, <3>2, ReachIsClosure DEF SearchTypes
    <2>3. callee \in Reach(calls, callee)
      BY ReachIsClosure DEF SearchTypes
    <2> QED BY <1>1, <1>2, <2>2, <2>3 DEF SearchShape
  <1>10. SearchShape'
    BY <1>4, <1>5, <1>6, <1>7, <1>8, <1>9 DEF SearchShape
  <1>11. LastOfComponent'
    BY <1>4 DEF LastOfComponent
  <1> QED BY <1>3, <1>10, <1>11

\* A callee that was entered before is only crossed off.
LEMMA SearchSkip ==
  ASSUME SearchInv, phase = "search", phase' = phase, calls' = calls, finished' = finished,
         NEW callee \in seen,
         frames' \in Seq(Frames), Len(frames') = Len(frames),
         \A i \in 1..Len(frames) :
           /\ frames'[i].node = frames[i].node
           /\ frames'[i].rest = frames[i].rest
              \/ (i = Len(frames) /\ frames'[i].rest = frames[i].rest \ {callee}),
         seen' = seen
  PROVE  SearchInv'
  <1> USE DEF SearchInv
  <1>1. SearchTypes'
    BY DEF SearchTypes, Graph
  <1>2. Left' = Left /\ (\A k : LeftBy(k)' = LeftBy(k))
    BY DEF Left, LeftBy
  <1>3. OnStack' = OnStack
    BY DEF OnStack
  <1>4. \A i \in 1..Len(frames') :
       /\ frames'[i].rest \subseteq calls[frames'[i].node]
       /\ calls[frames'[i].node] \ frames'[i].rest \subseteq seen'
    BY DEF SearchShape
  <1>5. Len(frames) \in Nat
    BY DEF SearchTypes
  <1>6. SearchShape'
    BY <1>2, <1>3, <1>4, <1>5 DEF SearchShape
  <1>7. LastOfComponent'
    BY <1>2 DEF LastOfComponent
  <1> QED BY <1>1, <1>6, <1>7

LEMMA SearchStep == SearchInv /\ Order!Next => SearchInv'
  <1> SUFFICES ASSUME SearchInv, Order!Next PROVE SearchInv'
    OBVIOUS
  <1> USE DEF SearchInv
  <1>0. frames \in Seq(Frames) /\ Len(frames) \in Nat /\ finished \in Seq(Funcs) /\ Graph
    BY DEF SearchTypes
  <1>1. CASE Order!Enter
    <2>1. Funcs \ seen \in SUBSET Funcs /\ Funcs \ seen # {}
      BY <1>1 DEF Order!Enter, SearchTypes
    <2> DEFINE start == Order!Least(Funcs \ seen)
    <2>2. start \in Funcs \ seen
      BY <2>1, LeastIsIn
    <2>3. /\ seen' = seen \cup {start} /\ frames' = <<Order!Frame(start)>> /\ frames = <<>>
          /\ phase = "search" /\ phase' = phase /\ calls' = calls /\ finished' = finished
      BY <1>1 DEF Order!Enter
    <2> HIDE DEF start
    <2>4. frames' = Append(<<>>, Order!Frame(start)) /\ <<>> \in Seq(Frames) /\ Len(<<>>) = 0
      BY <2>3
    <2> QED BY <2>2, <2>3, <2>4, SearchPush
  <1>2. CASE Order!Descend
    <2> DEFINE n == Len(frames)
               callee == Order!Least(frames[n].rest)
               rest == [frames EXCEPT ![n].rest = @ \ {callee}]
    <2>0. frames # <<>> /\ frames[n].rest # {}
      BY <1>2 DEF Order!Descend, Order!Top
    <2>1. n \in 1..n /\ frames[n] \in Frames /\ frames[n].rest \in SUBSET Funcs /\ frames[n].rest # {}
      <3>1. n \in Nat \ {0}
        BY <1>0, <2>0, EmptySeq
      <3>2. n \in 1..n
        BY <3>1
      <3>3. frames[n] \in Frames
        BY <1>0, <3>2, ElementOfSeq
      <3> QED BY <2>0, <3>2, <3>3 DEF Frames
    <2>2. callee \in frames[n].rest /\ callee \in Funcs /\ callee \in calls[frames[n].node]
      BY <2>1, LeastIsIn DEF SearchShape
    <2>3. /\ seen' = seen \cup {callee}
          /\ frames' = IF callee \in seen THEN rest ELSE Append(rest, Order!Frame(callee))
          /\ phase = "search" /\ phase' = phase /\ calls' = calls /\ finished' = finished
      BY <1>2 DEF Order!Descend, Order!Top
    <2>6. rest = [frames EXCEPT ![n] = [frames[n] EXCEPT !.rest = frames[n].rest \ {callee}]]
      BY Zenon
    <2> HIDE DEF callee
    <2>4. /\ rest \in Seq(Frames) /\ Len(rest) = n
          /\ \A i \in 1..n : rest[i].node = frames[i].node
               /\ (rest[i].rest = frames[i].rest \/ (i = n /\ rest[i].rest = frames[i].rest \ {callee}))
      <3> DEFINE g == [frames[n] EXCEPT !.rest = frames[n].rest \ {callee}]
      <3>1. g \in Frames /\ g.node = frames[n].node /\ g.rest = frames[n].rest \ {callee}
        BY <2>1 DEF Frames
      <3>2. rest = [frames EXCEPT ![n] = g]
        BY <2>6
      <3> HIDE DEF g, rest
      <3>3. /\ rest \in Seq(Frames) /\ Len(rest) = n
            /\ \A i \in 1..n : rest[i] = IF i = n THEN g ELSE frames[i]
        BY <1>0, <2>1, <3>1, <3>2, ExceptSeq
      <3> QED BY <3>1, <3>3
    <2> HIDE DEF rest
    <2>5. CASE callee \in seen
      BY <1>0, <2>2, <2>3, <2>4, <2>5, SearchSkip
    <2>7. CASE callee \notin seen
      BY <1>0, <2>2, <2>3, <2>4, <2>7, SearchPush
    <2> QED BY <2>5, <2>7
  <1>3. CASE Order!Leave
    <2> DEFINE n == Len(frames)
               x == frames[n].node
    <2>1. frames # <<>> /\ frames[n].rest = {}
      BY <1>3 DEF Order!Leave, Order!Top
    <2>2. n \in 1..n /\ n - 1 \in Nat /\ frames[n] \in Frames /\ x \in Funcs
      <3>1. n \in Nat \ {0}
        BY <1>0, <2>1, EmptySeq
      <3>2. n \in 1..n /\ n - 1 \in Nat
        BY <3>1
      <3>3. frames[n] \in Frames
        BY <1>0, <3>2, ElementOfSeq
      <3> QED BY <3>2, <3>3 DEF Frames
    <2>3. /\ frames' \in Seq(Frames) /\ Len(frames') = n - 1
          /\ \A i \in 1..n - 1 : frames'[i] = frames[i]
      <3>1. frames' = SubSeq(frames, 1, n - 1)
        BY <1>3 DEF Order!Leave, Order!Pop
      <3>2. \A i \in 1..n - 1 : frames[i] \in Frames
        BY <1>0, <2>2, ElementOfSeq
      <3>3. /\ SubSeq(frames, 1, n - 1) \in Seq(Frames)
            /\ Len(SubSeq(frames, 1, n - 1)) = IF 1 <= n - 1 THEN (n - 1) - 1 + 1 ELSE 0
            /\ \A i \in 1..(n - 1) - 1 + 1 : SubSeq(frames, 1, n - 1)[i] = frames[1 + i - 1]
        BY <2>2, <3>2, SubSeqProperties
      <3>0. \A k \in Nat : (IF 1 <= k THEN k - 1 + 1 ELSE 0) = k
        OBVIOUS
      <3>7. (IF 1 <= n - 1 THEN (n - 1) - 1 + 1 ELSE 0) = n - 1
        BY <2>2, <3>0
      <3>4. Len(frames') = n - 1
        BY <3>1, <3>3, <3>7
      <3>5. \A i \in 1..n - 1 : i \in 1..(n - 1) - 1 + 1 /\ 1 + i - 1 = i
        BY <2>2
      <3>6. \A i \in 1..n - 1 : frames'[i] = frames[i]
        BY <3>1, <3>3, <3>5
      <3> QED BY <3>1, <3>3, <3>4, <3>6
    <2> DEFINE m == Len(finished)
    <2>4. /\ m \in Nat /\ finished' \in Seq(Funcs) /\ Len(finished') = m + 1 /\ finished'[m + 1] = x
          /\ \A i \in 1..m : finished'[i] = finished[i]
      <3>1. finished' = Append(finished, x)
        BY <1>3 DEF Order!Leave, Order!Top
      <3> HIDE DEF x
      <3> QED BY <1>0, <2>2, <3>1
    <2>5. phase = "search" /\ phase' = phase /\ calls' = calls /\ seen' = seen
      BY <1>3 DEF Order!Leave
    <2>6. SearchTypes'
      BY <2>3, <2>4, <2>5 DEF SearchTypes, Graph
    <2>7. /\ \A k \in 0..m : LeftBy(k)' = LeftBy(k)
          /\ Left' = Left \cup {x}
      BY <2>4 DEF Left, LeftBy
    <2>8. OnStack' = OnStack \ {x} /\ x \in OnStack
      <3>1. \A i \in 1..n - 1 : frames[i].node # x
        BY <1>0, <2>2 DEF SearchShape
      <3>2. OnStack = {frames[i].node : i \in 1..n - 1} \cup {x}
        BY <1>0, <2>2 DEF OnStack
      <3>3. OnStack' = {frames[i].node : i \in 1..n - 1}
        BY <2>3 DEF OnStack
      <3> QED BY <3>1, <3>2, <3>3
    <2>9. calls[x] \subseteq seen
      BY <2>1, <2>2 DEF SearchShape
    <2>10. \A i, j \in 1..Len(finished') : finished'[i] = finished'[j] => i = j
      <3>1. \A i \in 1..m : finished[i] # x
        BY <2>8 DEF SearchShape, Left, LeftBy
      <3> QED BY <2>4, <3>1 DEF SearchShape
    <2>11. SearchShape'
      <3>1. seen' = OnStack' \cup Left' /\ OnStack' \cap Left' = {}
        BY <2>5, <2>7, <2>8 DEF SearchShape
      <3>2. \A f \in Left' : calls'[f] \subseteq seen'
        BY <2>5, <2>7, <2>9 DEF SearchShape
      <3>3. /\ \A i, j \in 1..Len(frames') : frames'[i].node = frames'[j].node => i = j
            /\ \A i \in 1..Len(frames') :
                 /\ frames'[i].rest \subseteq calls'[frames'[i].node]
                 /\ calls'[frames'[i].node] \ frames'[i].rest \subseteq seen'
            /\ \A i \in 1..Len(frames') : \A j \in i..Len(frames') :
                 frames'[j].node \in Reach(calls', frames'[i].node)
        <4>1. /\ 1..n - 1 \subseteq 1..Len(frames) /\ Len(frames') = n - 1
              /\ \A i \in 1..n - 1 : i..n - 1 \subseteq i..Len(frames) /\ i..n - 1 \subseteq 1..n - 1
          BY <1>0, <2>2, <2>3
        <4>2. \A i, j \in 1..n - 1 : frames'[i].node = frames'[j].node => i = j
          BY <2>3, <4>1 DEF SearchShape
        <4>3. ASSUME NEW i \in 1..n - 1
              PROVE  /\ frames'[i].rest \subseteq calls'[frames'[i].node]
                     /\ calls'[frames'[i].node] \ frames'[i].rest \subseteq seen'
          BY <2>3, <2>5, <4>1 DEF SearchShape
        <4>4. ASSUME NEW i \in 1..n - 1, NEW j \in i..n - 1
              PROVE  frames'[j].node \in Reach(calls', frames'[i].node)
          <5>1. i \in 1..Len(frames) /\ j \in i..Len(frames) /\ j \in 1..n - 1
            BY <4>1
          <5> QED BY <2>3, <2>5, <5>1 DEF SearchShape
        <4> QED BY <4>1, <4>2, <4>3, <4>4
      <3> QED BY <2>5, <2>10, <3>1, <3>2, <3>3 DEF SearchShape
    <2>12. LastOfComponent'
      <3> SUFFICES ASSUME Component(calls, x) \subseteq Left \cup {x}
                   PROVE  Reach(calls, x) \subseteq Left \cup {x}
        BY <2>4, <2>5, <2>7 DEF LastOfComponent, Left
      <3> DEFINE S == Reach(calls, x) \cap (Left \cup {x})
      <3>1. S \in SUBSET Funcs /\ x \in S
        BY <1>0, <2>2, ReachIsClosure
      <3>2. ASSUME NEW f \in S, NEW g \in calls[f] PROVE g \in S
        <4>1. g \in Reach(calls, x)
          BY <1>0, <2>2, ReachIsClosure
        <4>2. g \in seen
          BY <2>9 DEF SearchShape
        <4>3. CASE g \in OnStack
          <5>1. PICK i \in 1..n : frames[i].node = g
            BY <4>3 DEF OnStack
          <5>2. n \in i..n /\ g \in Funcs
            BY <1>0, <2>2, <4>1, ReachIsClosure
          <5>3. x \in Reach(calls, g)
            BY <5>1, <5>2 DEF SearchShape
          <5>4. g \in Component(calls, x)
            BY <1>0, <2>2, <4>1, <5>2, <5>3, ComponentIsClass
          <5> QED BY <4>1, <5>4
        <4>4. CASE g \in Left
          BY <4>1, <4>4
        <4> QED BY <4>2, <4>3, <4>4 DEF SearchShape
      <3>4. \A f \in S : calls[f] \subseteq S
        BY <3>2
      <3> HIDE DEF S
      <3>3. Reach(calls, x) \subseteq S
        BY <1>0, <2>2, <3>1, <3>4, ReachIsClosure
      <3> QED BY <3>3 DEF S
    <2> QED BY <2>6, <2>11, <2>12
  <1>4. ASSUME UNCHANGED <<calls, seen, frames, finished>>, frames = <<>>, seen = Funcs,
               phase' \in {"collect", "order", "done"}
        PROVE  SearchInv'
    <2>1. OnStack' = OnStack /\ Left' = Left /\ \A k : LeftBy(k)' = LeftBy(k)
      BY <1>4 DEF OnStack, Left, LeftBy
    <2>2. SearchTypes'
      BY <1>4 DEF SearchTypes, Graph
    <2>3. SearchShape'
      BY <1>4, <2>1 DEF SearchShape
    <2>4. LastOfComponent'
      BY <1>4, <2>1 DEF LastOfComponent
    <2> QED BY <2>2, <2>3, <2>4
  <1>5. CASE Order!Searched
    BY <1>4, <1>5 DEF Order!Searched, Order!search
  <1>6. CASE phase # "search" /\ phase' \in {"collect", "order", "done"}
             /\ UNCHANGED <<calls, Order!search>>
    BY <1>4, <1>6 DEF Order!search, SearchShape
  <1> QED BY <1>1, <1>2, <1>3, <1>5, <1>6
          DEF Order!Next, Order!Root, Order!Expand, Order!Close, Order!StartOrder, Order!PopReady,
              Order!Finish

\* The first pass leaves every node.
LEMMA AllAreLeft ==
  ASSUME SearchInv, phase # "search"
  PROVE  Left = Funcs
  <1>1. frames = <<>> /\ seen = Funcs
    BY DEF SearchInv, SearchShape
  <1>2. Len(frames) = 0
    BY <1>1
  <1>3. OnStack = {}
    BY <1>2 DEF OnStack
  <1> QED BY <1>1, <1>3 DEF SearchInv, SearchShape

LEMMA SearchUnchanged == SearchInv /\ UNCHANGED <<calls, ordering>> => SearchInv'
  <1> SUFFICES ASSUME SearchInv, UNCHANGED <<calls, ordering>> PROVE SearchInv'
    OBVIOUS
  <1>1. UNCHANGED <<calls, phase, seen, frames, finished>>
    BY DEF ordering
  <1>2. OnStack' = OnStack /\ Left' = Left /\ \A k : LeftBy(k)' = LeftBy(k)
    BY <1>1 DEF OnStack, Left, LeftBy
  <1>3. SearchTypes'
    BY <1>1 DEF SearchInv, SearchTypes, Graph
  <1>4. SearchShape'
    BY <1>1, <1>2 DEF SearchInv, SearchShape
  <1>5. LastOfComponent'
    BY <1>1, <1>2 DEF SearchInv, LastOfComponent
  <1> QED BY <1>3, <1>4, <1>5 DEF SearchInv

LEMMA SearchInvariant == EngineInit /\ [][EngineNext]_<<vars, ordering>> => []SearchInv
  <1>1. EngineInit => SearchInv
    BY SearchInit DEF EngineInit
  <1>2. SearchInv /\ [EngineNext]_<<vars, ordering>> => SearchInv'
    <2> SUFFICES ASSUME SearchInv, [EngineNext]_<<vars, ordering>> PROVE SearchInv'
      OBVIOUS
    <2>1. CASE Order!Next
      BY <2>1, SearchStep
    <2>2. CASE UNCHANGED <<calls, ordering>>
      BY <2>2, SearchUnchanged
    <2> QED BY <2>1, <2>2
        DEF EngineNext, OrderStep, TakeComponent, ComputeStep, Compute, Return, Begin, Update,
            NextRound, Converge, Degrade, vars
  <1> QED BY <1>1, <1>2, PTL

-----------------------------------------------------------------------------
(* The components.                                                         *)

Placed == UNION components
AtHand == component \cup stack

CollectTypes ==
  /\ assigned \subseteq Funcs /\ component \subseteq Funcs /\ stack \subseteq Funcs
  /\ components \subseteq SUBSET Funcs

\* The components found are components, and what is at hand belongs to the one
\* of a root after which no node was left that has not been placed.
CollectInv ==
  /\ CollectTypes
  /\ \A c \in components : c # {} /\ \A f \in c : c = Component(calls, f)
  /\ assigned = Placed \cup AtHand /\ Placed \cap AtHand = {} /\ component \cap stack = {}
  /\ phase = "search" => assigned = {}
  /\ \A f \in component : Order!Callers(f) \subseteq assigned
  /\ AtHand # {} =>
       \E k \in 1..Len(finished) :
         /\ finished[k] \in AtHand
         /\ AtHand \subseteq Component(calls, finished[k])
         /\ \A j \in k + 1..Len(finished) : finished[j] \in Placed
  /\ phase \in {"order", "done"} => AtHand = {} /\ assigned = Funcs

LEMMA CollectInit == Order!Init => CollectInv
  BY DEF Order!Init, CollectInv, CollectTypes, Placed, AtHand

\* A component that holds a placed node is placed.
LEMMA PlacedWhole ==
  ASSUME SearchInv, CollectInv, NEW f \in Funcs, NEW g \in Component(calls, f), g \in Placed
  PROVE  f \in Placed
  <1>1. PICK c \in components : g \in c
    BY DEF Placed
  <1>2. c = Component(calls, g) /\ Component(calls, g) = Component(calls, f)
    BY <1>1, ComponentIsClass DEF CollectInv, SearchInv, SearchTypes
  <1>3. f \in c
    BY <1>2, ComponentIsClass DEF SearchInv, SearchTypes
  <1> QED BY <1>3 DEF Placed

\* A caller that is not placed is in the component of its callee.
LEMMA CallerIsInComponent ==
  ASSUME SearchInv, CollectInv, phase # "search",
         NEW k \in 1..Len(finished),
         \A j \in k + 1..Len(finished) : finished[j] \in Placed,
         NEW f \in Component(calls, finished[k]), NEW g \in Funcs \ Placed, f \in calls[g]
  PROVE  g \in Component(calls, finished[k])
  <1> DEFINE n == Len(finished)
             r == finished[k]
             I == {i \in 1..n : finished[i] \in Component(calls, g)}
  <1>1. /\ Graph /\ n \in Nat /\ \A i \in 1..n : finished[i] \in Funcs
        /\ \A h \in Funcs : \E i \in 1..n : finished[i] = h
    <2>1. finished \in Seq(Funcs) /\ Graph /\ Left = Funcs
      BY AllAreLeft DEF SearchInv, SearchTypes
    <2>2. n \in Nat /\ \A i \in 1..n : finished[i] \in Funcs
      BY <2>1, ElementOfSeq
    <2> QED BY <2>1, <2>2 DEF Left, LeftBy
  <1>2. r \in Reach(calls, g)
    <2>1. r \in Funcs /\ f \in Funcs /\ r \in Reach(calls, f)
      BY <1>1, ComponentIsClass
    <2>2. f \in Reach(calls, g)
      BY <1>1, ReachIsClosure
    <2> QED BY <1>1, <2>1, <2>2, ReachTransitive
  <1>3. PICK m \in I : \A i \in I : i <= m
    <2>1. I # {} /\ I \in SUBSET (1..n)
      BY <1>1, ComponentIsClass
    <2> HIDE DEF I
    <2> QED BY <1>1, <2>1, GreatestExists
  <1> DEFINE last == finished[m]
  <1>4. last \in Funcs /\ Component(calls, last) = Component(calls, g)
    BY <1>1, ComponentIsClass
  <1>5. Component(calls, last) \subseteq LeftBy(m)
    <2> SUFFICES ASSUME NEW h \in Component(calls, g) PROVE h \in LeftBy(m)
      BY <1>4
    <2>1. PICK i \in 1..n : finished[i] = h
      BY <1>1, ComponentIsClass
    <2>2. i \in I /\ i <= m
      BY <1>3, <2>1
    <2> QED BY <1>1, <2>1, <2>2 DEF LeftBy
  <1>6. Reach(calls, last) \subseteq LeftBy(m)
    BY <1>5 DEF SearchInv, LastOfComponent
  <1>7. Reach(calls, g) \subseteq Reach(calls, last)
    <2>1. g \in Component(calls, last)
      BY <1>1, <1>4, ComponentIsClass
    <2> QED BY <1>1, <1>4, <2>1, ComponentIsClass, ReachTransitive
  <1>8. k <= m
    <2>1. PICK i \in 1..m : finished[i] = r
      BY <1>2, <1>6, <1>7 DEF LeftBy
    <2>2. i = k
      BY <1>1, <2>1 DEF SearchInv, SearchShape
    <2> QED BY <1>1, <2>1, <2>2
  <1>9. m <= k
    <2>1. last \notin Placed
      BY <1>1, PlacedWhole
    <2> QED BY <1>1, <2>1
  <1>10. r = last
    BY <1>1, <1>8, <1>9
  <1> QED BY <1>1, <1>4, <1>10, ComponentIsClass

LEMMA CollectStep == SearchInv /\ CollectInv /\ Order!Next => CollectInv'
  <1> SUFFICES ASSUME SearchInv, CollectInv, Order!Next PROVE CollectInv'
    OBVIOUS
  <1>0. Graph /\ finished \in Seq(Funcs) /\ Len(finished) \in Nat
    BY DEF SearchInv, SearchTypes
  <1>1. ASSUME phase = "search", UNCHANGED <<calls, Order!collect>>, phase' \in {"search", "collect"}
        PROVE  CollectInv'
    BY <1>1 DEF CollectInv, CollectTypes, Placed, AtHand, Order!collect, Order!Callers
  <1>2. CASE Order!Root
    <2> DEFINE n == Len(finished)
               I == {i \in 1..n : finished[i] \notin assigned}
               k == CHOOSE i \in 1..n : /\ finished[i] \notin assigned
                                        /\ \A j \in i + 1..n : finished[j] \in assigned
               r == finished[k]
    <2>1. phase = "collect" /\ AtHand = {} /\ assigned # Funcs /\ assigned = Placed
      BY <1>2 DEF Order!Root, AtHand, CollectInv
    <2>2. I # {} /\ I \in SUBSET (1..n)
      <3>1. Left = Funcs
        BY <2>1, AllAreLeft
      <3>2. PICK f \in Funcs : f \notin assigned
        BY <2>1 DEF CollectInv, CollectTypes
      <3> QED BY <3>1, <3>2 DEF Left, LeftBy
    <2>3. PICK i \in I : \A j \in I : j <= i
      <3> HIDE DEF I
      <3> QED BY <1>0, <2>2, GreatestExists
    <2>4. finished[i] \notin assigned /\ \A j \in i + 1..n : finished[j] \in assigned
      BY <1>0, <2>3
    <2>5. k \in 1..n /\ r \notin assigned /\ \A j \in k + 1..n : finished[j] \in assigned
      BY <2>4
    <2>6. /\ assigned' = assigned \cup {r} /\ stack' = {r} /\ component' = {} /\ component = {}
          /\ components' = components /\ phase' = phase /\ UNCHANGED <<calls, finished>>
      BY <1>2 DEF Order!Root, Order!NextRoot, Order!search
    <2> HIDE DEF k
    <2>7. r \in Funcs /\ r \in Component(calls, r)
      BY <1>0, <2>5, ElementOfSeq, ComponentIsClass
    <2>8. Placed' = Placed /\ AtHand' = {r}
      BY <2>6 DEF Placed, AtHand
    <2> QED BY <2>1, <2>5, <2>6, <2>7, <2>8 DEF CollectInv, CollectTypes
  <1>3. CASE Order!Expand
    <2> DEFINE f == Order!Least(stack)
               new == Order!NewCallers(f)
    <2>1. f \in stack
      BY <1>3, LeastIsIn DEF Order!Expand, CollectInv, CollectTypes
    <2>2. /\ component' = component \cup {f} /\ assigned' = assigned \cup new
          /\ stack' = (stack \ {f}) \cup new /\ components' = components
          /\ phase = "collect" /\ phase' = phase /\ UNCHANGED <<calls, finished>>
      BY <1>3 DEF Order!Expand, Order!search
    <2> HIDE DEF f
    <2>3. new = Order!Callers(f) \ assigned /\ new \in SUBSET Funcs
      BY DEF Order!NewCallers, Order!Callers
    <2> HIDE DEF new
    <2>4. PICK k \in 1..Len(finished) :
            /\ finished[k] \in AtHand
            /\ AtHand \subseteq Component(calls, finished[k])
            /\ \A j \in k + 1..Len(finished) : finished[j] \in Placed
      BY <2>1 DEF CollectInv, AtHand
    <2>5. new \subseteq Component(calls, finished[k])
      <3> SUFFICES ASSUME NEW g \in new PROVE g \in Component(calls, finished[k])
        OBVIOUS
      <3>1. g \in Funcs \ Placed /\ f \in calls[g]
        BY <2>3 DEF Order!Callers, CollectInv
      <3>2. f \in Component(calls, finished[k])
        BY <2>1, <2>4 DEF AtHand
      <3> QED BY <2>2, <2>4, <3>1, <3>2, CallerIsInComponent
    <2>6. Placed' = Placed /\ AtHand' = AtHand \cup new
      BY <2>1, <2>2 DEF Placed, AtHand
    <2>7. \E j \in 1..Len(finished') :
            /\ finished'[j] \in AtHand'
            /\ AtHand' \subseteq Component(calls', finished'[j])
            /\ \A i \in j + 1..Len(finished') : finished'[i] \in Placed'
      BY <2>2, <2>4, <2>5, <2>6
    <2>8. \A g \in component' : Order!Callers(g)' \subseteq assigned'
      BY <2>2, <2>3 DEF CollectInv, Order!Callers
    <2>9. CollectTypes'
      BY <2>1, <2>2, <2>3 DEF CollectInv, CollectTypes
    <2>10. assigned' = Placed' \cup AtHand' /\ Placed' \cap AtHand' = {} /\ component' \cap stack' = {}
      BY <2>1, <2>2, <2>3, <2>6 DEF CollectInv, AtHand
    <2> QED BY <2>2, <2>7, <2>8, <2>9, <2>10 DEF CollectInv
  <1>4. CASE Order!Close
    <2>1. /\ stack = {} /\ component # {} /\ stack' = {} /\ component' = {} /\ assigned' = assigned
          /\ components' = components \cup {component}
          /\ phase = "collect" /\ phase' = phase /\ UNCHANGED <<calls, finished>>
      BY <1>4 DEF Order!Close, Order!search
    <2>2. PICK k \in 1..Len(finished) :
            finished[k] \in component /\ component \subseteq Component(calls, finished[k])
      BY <2>1 DEF CollectInv, AtHand
    <2> DEFINE r == finished[k]
               Z == Reach(calls, r) \ component
    <2>3. r \in Funcs
      BY <2>2 DEF CollectInv, CollectTypes
    <2> HIDE DEF r
    <2>4. ASSUME NEW x \in Z, NEW y \in calls[x] PROVE y \in Z
      <3>1. x \in Funcs /\ y \in Reach(calls, r)
        BY <1>0, <2>3, ReachIsClosure
      <3> SUFFICES ASSUME y \in component PROVE FALSE
        BY <3>1
      <3>2. r \in Reach(calls, x)
        <4>1. y \in Reach(calls, x) /\ r \in Reach(calls, y) /\ y \in Funcs
          BY <1>0, <2>2, <2>3, <3>1, ReachIsClosure, ComponentIsClass DEF r
        <4> QED BY <1>0, <3>1, <4>1, ReachTransitive
      <3>3. x \in Component(calls, r)
        BY <1>0, <2>3, <3>1, <3>2, ComponentIsClass
      <3>4. x \in assigned
        BY <3>1 DEF CollectInv, Order!Callers
      <3>5. x \in Placed
        BY <2>1, <3>4 DEF CollectInv, AtHand
      <3>6. r \in Placed
        BY <2>3, <3>3, <3>5, PlacedWhole
      <3> QED BY <2>2, <3>6 DEF CollectInv, AtHand, r
    <2>5. Component(calls, r) \subseteq component
      <3> SUFFICES ASSUME NEW y \in Component(calls, r), y \notin component PROVE FALSE
        OBVIOUS
      <3>1. y \in Z /\ y \in Funcs /\ r \in Reach(calls, y)
        BY <1>0, <2>3, ComponentIsClass
      <3>2. Z \in SUBSET Funcs /\ \A x \in Z : calls[x] \subseteq Z
        BY <1>0, <2>3, <2>4, ReachIsClosure
      <3> HIDE DEF Z
      <3>3. Reach(calls, y) \subseteq Z
        BY <1>0, <3>1, <3>2, ReachIsClosure
      <3>4. r \in Z
        BY <3>1, <3>3
      <3> QED BY <2>2, <3>4 DEF Z, r
    <2>6. component = Component(calls, r)
      BY <2>2, <2>5 DEF r
    <2>7. \A f \in component : component = Component(calls, f)
      BY <1>0, <2>3, <2>6, ComponentIsClass
    <2>8. Placed' = Placed \cup component /\ AtHand' = {} /\ AtHand = component
      BY <2>1 DEF Placed, AtHand
    <2> QED BY <2>1, <2>7, <2>8 DEF CollectInv, CollectTypes
  <1>5. CASE Order!StartOrder
    BY <1>5 DEF Order!StartOrder, Order!collect, Order!search, CollectInv, CollectTypes, Placed,
                AtHand, Order!Callers
  <1>6. CASE Order!PopReady \/ Order!Finish
    BY <1>6 DEF Order!PopReady, Order!Finish, Order!collect, Order!search, CollectInv, CollectTypes,
                Placed, AtHand, Order!Callers
  <1>7. CASE Order!Enter \/ Order!Descend \/ Order!Leave \/ Order!Searched
    BY <1>1, <1>7 DEF Order!Enter, Order!Descend, Order!Leave, Order!Searched
  <1> QED BY <1>2, <1>3, <1>4, <1>5, <1>6, <1>7 DEF Order!Next

-----------------------------------------------------------------------------
(* The order.                                                              *)

Ordering == phase \in {"order", "done"}
Listed(k) == {ordered[i] : i \in 1..k}
AllListed == Listed(Len(ordered))

\* Components are listed once, after those they call; a component waits for the
\* components it calls that are not listed, and is ready when there are none.
OrderInv ==
  /\ ordered \in Seq(SUBSET Funcs) /\ AllListed \subseteq components
  /\ phase \in {"search", "collect"} => ordered = <<>>
  /\ \A i, j \in 1..Len(ordered) : ordered[i] = ordered[j] => i = j
  /\ \A k \in 1..Len(ordered) : Order!Outgoing(ordered[k]) \subseteq Listed(k - 1)
  /\ Ordering =>
       /\ outdegree = [c \in components |-> Cardinality(Order!Outgoing(c) \ AllListed)]
       /\ ready = {c \in components \ AllListed : outdegree[c] = 0}
  /\ phase = "done" => ready = {}

LEMMA OrderInit == Order!Init => OrderInv
  <1> SUFFICES ASSUME Order!Init PROVE OrderInv
    OBVIOUS
  <1>1. ordered = <<>> /\ Len(ordered) = 0 /\ phase = "search"
    BY DEF Order!Init
  <1> QED BY <1>1 DEF OrderInv, AllListed, Listed, Ordering

LEMMA HomeIsComponent ==
  ASSUME SearchInv, CollectInv, assigned = Funcs, AtHand = {}, NEW f \in Funcs
  PROVE  /\ Order!HomeOf(f) \in components
         /\ Order!HomeOf(f) = Component(calls, f)
  <1>1. \E c \in components : f \in c
    BY DEF CollectInv, Placed
  <1>2. Order!HomeOf(f) \in components /\ f \in Order!HomeOf(f)
    BY <1>1 DEF Order!HomeOf
  <1> QED BY <1>2 DEF CollectInv

\* Where the list of components is complete, a component calls others.
LEMMA OutgoingIsOther ==
  ASSUME SearchInv, CollectInv, assigned = Funcs, AtHand = {}, NEW c \in components
  PROVE  /\ Order!Outgoing(c) \subseteq components \ {c} /\ IsFiniteSet(Order!Outgoing(c))
         /\ c \subseteq Funcs
         /\ \A g \in CalleesOutside(calls, c) : Component(calls, g) \in Order!Outgoing(c)
         /\ \A d \in Order!Outgoing(c) : \E f \in c, g \in Funcs \ c :
              g \in calls[f] /\ d = Component(calls, g)
  <1>1. c \subseteq Funcs /\ Graph
    BY DEF CollectInv, CollectTypes, SearchInv, SearchTypes
  <1>2. \A g \in Order!CalleesOutside(calls, c) : g \in Funcs \ c /\ \E f \in c : g \in calls[f]
    BY <1>1 DEF Order!CalleesOutside, Graph
  <1>3. \A d \in Order!Outgoing(c) : \E g \in Order!CalleesOutside(calls, c) : d = Order!HomeOf(g)
    BY DEF Order!Outgoing
  <1>4. \A d \in Order!Outgoing(c) : \E f \in c, g \in Funcs \ c :
          g \in calls[f] /\ d = Component(calls, g) /\ d \in components
    BY <1>2, <1>3, HomeIsComponent
  <1>5. Order!Outgoing(c) \subseteq components \ {c}
    BY <1>1, <1>4, ComponentIsClass
  <1>6. \A g \in CalleesOutside(calls, c) : Component(calls, g) \in Order!Outgoing(c)
    BY <1>1, <1>2, HomeIsComponent DEF CalleesOutside, Order!CalleesOutside, Order!Outgoing
  <1>7. IsFiniteSet(Order!Outgoing(c))
    <2>1. IsFiniteSet(SUBSET Funcs)
      BY FuncsAssumption, FS_SUBSET
    <2>2. Order!Outgoing(c) \in SUBSET (SUBSET Funcs)
      BY <1>5 DEF CollectInv, CollectTypes
    <2> QED BY <2>1, <2>2, FS_Subset
  <1> QED BY <1>1, <1>4, <1>5, <1>6, <1>7

LEMMA HeapTopIsReady ==
  ASSUME CollectInv, ready \subseteq components, ready # {}
  PROVE  Order!HeapTop \in ready
  <1> DEFINE T == {Order!Least(c) : c \in ready}
  <1>1. \A c \in ready : Order!Least(c) \in Nat
    <2> TAKE c \in ready
    <2>1. c \in SUBSET Funcs /\ c # {}
      BY DEF CollectInv, CollectTypes
    <2>2. Order!Least(c) \in c
      BY <2>1, LeastIsIn
    <2> QED BY <2>1, <2>2, FuncsAssumption
  <1>2. T \in SUBSET Nat /\ T # {}
    BY <1>1
  <1>3. PICK t \in T : \A u \in T : t <= u
    <2> HIDE DEF T
    <2> QED BY <1>2, LeastExists
  <1>4. \E c \in ready : \A d \in ready : Order!Least(c) <= Order!Least(d)
    BY <1>3
  <1> QED BY <1>4 DEF Order!HeapTop

LEMMA OrderStepInv == SearchInv /\ CollectInv /\ OrderInv /\ Order!Next => OrderInv'
  <1> SUFFICES ASSUME SearchInv, CollectInv, OrderInv, Order!Next PROVE OrderInv'
    OBVIOUS
  <1>1. ASSUME UNCHANGED <<ordered>>, phase \in {"search", "collect"}, phase' \in {"search", "collect"}
        PROVE  OrderInv'
    <2>1. ordered = <<>> /\ ordered' = <<>> /\ Len(ordered') = 0
      BY <1>1 DEF OrderInv
    <2> QED BY <1>1, <2>1 DEF OrderInv, AllListed, Listed, Ordering
  <1>2. CASE Order!StartOrder
    <2>1. ordered = <<>> /\ ordered' = <<>> /\ Len(ordered') = 0 /\ phase' = "order"
      BY <1>2 DEF Order!StartOrder, OrderInv
    <2>2. AllListed' = {}
      BY <2>1 DEF AllListed, Listed
    <2>3. /\ outdegree' = [c \in components |-> Order!OutdegreeOf(c)]
          /\ ready' = {c \in components : Order!OutdegreeOf(c) = 0}
          /\ components' = components /\ calls' = calls
      BY <1>2 DEF Order!StartOrder, Order!collect
    <2>4. \A c : Order!Outgoing(c)' = Order!Outgoing(c)
      BY <2>3 DEF Order!Outgoing, Order!HomeOf, Order!CalleesOutside
    <2>5. /\ outdegree' = [c \in components' |-> Cardinality((Order!Outgoing(c) \ AllListed)')]
          /\ ready' = {c \in components' \ AllListed' : outdegree'[c] = 0}
      <3>1. \A c : (Order!Outgoing(c) \ AllListed)' = Order!Outgoing(c)
        BY <2>2, <2>4
      <3>2. outdegree' = [c \in components' |-> Cardinality((Order!Outgoing(c) \ AllListed)')]
        <4>1. \A c : Cardinality((Order!Outgoing(c) \ AllListed)') = Order!OutdegreeOf(c)
          <5>1. \A S : Order!Cardinality(S) = Cardinality(S)
            BY DEF Order!Cardinality, Cardinality
          <5> QED BY <3>1, <5>1 DEF Order!OutdegreeOf
        <4> QED BY <2>3, <4>1
      <3>3. \A c \in components : outdegree'[c] = Order!OutdegreeOf(c)
        BY <2>3
      <3> QED BY <2>2, <2>3, <3>2, <3>3
    <2> QED BY <2>1, <2>2, <2>5 DEF OrderInv
  <1>3. CASE Order!PopReady
    <2> DEFINE c == Order!HeapTop
               n == Len(ordered)
    <2>1. /\ phase = "order" /\ phase' = phase /\ ordered' = Append(ordered, c)
          /\ UNCHANGED <<calls, components>> /\ ready # {}
      BY <1>3 DEF Order!PopReady, Order!collect
    <2>2. assigned = Funcs /\ AtHand = {} /\ Ordering
      BY <2>1 DEF CollectInv, Ordering
    <2>3. c \in ready
      BY <2>1, <2>2, HeapTopIsReady DEF OrderInv
    <2>4. c \in components \ AllListed /\ outdegree[c] = 0 /\ c \in SUBSET Funcs
      BY <2>2, <2>3 DEF OrderInv, CollectInv, CollectTypes
    <2> DEFINE less == [d \in components |-> IF d \in Order!Predecessors(c) THEN outdegree[d] - 1
                                                                          ELSE outdegree[d]]
    <2>5. /\ outdegree' = less
          /\ ready' = (ready \ {c}) \cup {d \in Order!Predecessors(c) : less[d] = 0}
      BY <1>3 DEF Order!PopReady
    <2> HIDE DEF c
    <2>6. /\ n \in Nat /\ ordered' \in Seq(SUBSET Funcs) /\ Len(ordered') = n + 1
          /\ ordered'[n + 1] = c /\ \A i \in 1..n : ordered'[i] = ordered[i]
      BY <2>1, <2>4 DEF OrderInv
    <2>7. /\ \A k \in 0..n : Listed(k)' = Listed(k)
          /\ AllListed' = AllListed \cup {c}
      BY <2>6 DEF Listed, AllListed
    <2>8. \A d : Order!Outgoing(d)' = Order!Outgoing(d)
      BY <2>1 DEF Order!Outgoing, Order!HomeOf, Order!CalleesOutside
    <2>9. \A i, j \in 1..Len(ordered') : ordered'[i] = ordered'[j] => i = j
      <3>1. \A i \in 1..n : ordered[i] # c
        BY <2>4 DEF AllListed, Listed
      <3> QED BY <2>6, <3>1 DEF OrderInv
    <2>10. \A k \in 1..Len(ordered') : Order!Outgoing(ordered'[k]) \subseteq Listed(k - 1)'
      <3>1. Order!Outgoing(c) \subseteq AllListed
        <4>1. /\ Cardinality(Order!Outgoing(c) \ AllListed) = 0
              /\ IsFiniteSet(Order!Outgoing(c))
          BY <2>2, <2>4, OutgoingIsOther DEF OrderInv
        <4>2. IsFiniteSet(Order!Outgoing(c) \ AllListed)
          BY <4>1, FS_Difference
        <4> QED BY <4>1, <4>2, FS_EmptySet
      <3>2. \A k \in 1..n : k - 1 \in 0..n /\ Order!Outgoing(ordered'[k]) \subseteq Listed(k - 1)
        BY <2>6 DEF OrderInv
      <3>3. (n + 1) - 1 = n /\ n \in 0..n
        BY <2>6
      <3> QED BY <2>6, <2>7, <3>1, <3>2, <3>3 DEF AllListed
    <2>11. ASSUME NEW d \in components
           PROVE  /\ d \in Order!Predecessors(c) <=> c \in Order!Outgoing(d)
                  /\ IsFiniteSet(Order!Outgoing(d) \ AllListed)
                  /\ less[d] = Cardinality(Order!Outgoing(d) \ (AllListed \cup {c}))
      <3>1. /\ Order!Outgoing(d) \subseteq components \ {d} /\ IsFiniteSet(Order!Outgoing(d))
        BY <2>2, OutgoingIsOther
      <3>2. d \in Order!Predecessors(c) <=> c \in Order!Outgoing(d)
        BY <3>1 DEF Order!Predecessors
      <3> DEFINE W == Order!Outgoing(d) \ AllListed
      <3>3. IsFiniteSet(W)
        BY <3>1, FS_Difference
      <3>4. outdegree[d] = Cardinality(W)
        BY <2>2 DEF OrderInv
      <3>5. Cardinality(W \ {c}) = IF c \in W THEN Cardinality(W) - 1 ELSE Cardinality(W)
        BY <3>3, FS_RemoveElement
      <3>6. W \ {c} = Order!Outgoing(d) \ (AllListed \cup {c})
        OBVIOUS
      <3>7. c \in W <=> c \in Order!Outgoing(d)
        BY <2>4
      <3> QED BY <3>2, <3>3, <3>4, <3>5, <3>6, <3>7
    <2>12. outdegree' = [d \in components' |-> Cardinality((Order!Outgoing(d) \ AllListed)')]
      BY <2>1, <2>5, <2>7, <2>8, <2>11
    <2>13. ready' = {d \in components' \ AllListed' : outdegree'[d] = 0}
      <3>1. ASSUME NEW d \in components, d \in Order!Predecessors(c) PROVE d \notin AllListed
        <4> SUFFICES ASSUME d \in AllListed PROVE FALSE
          OBVIOUS
        <4>1. PICK k \in 1..n : d = ordered[k]
          BY DEF AllListed, Listed
        <4>2. c \in Listed(k - 1)
          BY <2>11, <3>1, <4>1 DEF OrderInv
        <4>3. Listed(k - 1) \subseteq AllListed
          BY <2>6 DEF Listed, AllListed
        <4> QED BY <2>4, <4>2, <4>3
      <3>2. ASSUME NEW d \in components, d \notin Order!Predecessors(c)
            PROVE  less[d] = outdegree[d]
        BY <3>2
      <3>3. Order!Predecessors(c) \subseteq components \ {c}
        BY DEF Order!Predecessors
      <3>4. ready = {d \in components \ AllListed : outdegree[d] = 0}
        BY <2>2 DEF OrderInv
      <3>5. ASSUME NEW d \in ready, d \in Order!Predecessors(c) PROVE FALSE
        <4>1. d \in components /\ Cardinality(Order!Outgoing(d) \ AllListed) = 0
          BY <2>2, <3>4 DEF OrderInv
        <4>2. Order!Outgoing(d) \ AllListed = {}
          BY <2>11, <4>1, FS_EmptySet
        <4> QED BY <2>4, <2>11, <3>5, <4>1, <4>2
      <3> HIDE DEF less
      <3> QED BY <2>1, <2>5, <2>7, <3>1, <3>2, <3>3, <3>4, <3>5
    <2>14. AllListed' \subseteq components'
      BY <2>1, <2>4, <2>7 DEF OrderInv
    <2> QED BY <2>1, <2>6, <2>8, <2>9, <2>10, <2>12, <2>13, <2>14 DEF OrderInv
  <1>4. CASE Order!Finish
    <2>1. /\ UNCHANGED <<calls, components, ordered, outdegree, ready>> /\ phase = "order"
          /\ phase' = "done" /\ ready = {}
      BY <1>4 DEF Order!Finish, Order!collect, Order!order
    <2>2. \A d : Order!Outgoing(d)' = Order!Outgoing(d)
      BY <2>1 DEF Order!Outgoing, Order!HomeOf, Order!CalleesOutside
    <2>3. AllListed' = AllListed /\ \A k : Listed(k)' = Listed(k)
      BY <2>1 DEF AllListed, Listed
    <2> QED BY <2>1, <2>2, <2>3 DEF OrderInv, Ordering
  <1>5. CASE phase \in {"search", "collect"} /\ phase' \in {"search", "collect"} /\ UNCHANGED Order!order
    BY <1>1, <1>5 DEF Order!order
  <1> QED BY <1>2, <1>3, <1>4, <1>5
      DEF Order!Next, Order!Enter, Order!Descend, Order!Leave, Order!Searched, Order!Root,
          Order!Expand, Order!Close

LEMMA CollectUnchanged == CollectInv /\ UNCHANGED <<calls, ordering>> => CollectInv'
  <1> SUFFICES ASSUME CollectInv, UNCHANGED <<calls, ordering>> PROVE CollectInv'
    OBVIOUS
  <1>1. UNCHANGED <<calls, phase, finished, assigned, stack, component, components>>
    BY DEF ordering
  <1>2. /\ AtHand' = AtHand /\ Placed' = Placed
        /\ \A f : Order!Callers(f)' = Order!Callers(f)
    BY <1>1 DEF AtHand, Placed, Order!Callers
  <1> QED BY <1>1, <1>2 DEF CollectInv, CollectTypes

LEMMA OrderUnchanged == OrderInv /\ UNCHANGED <<calls, ordering>> => OrderInv'
  <1> SUFFICES ASSUME OrderInv, UNCHANGED <<calls, ordering>> PROVE OrderInv'
    OBVIOUS
  <1>1. UNCHANGED <<calls, phase, components, outdegree, ready, ordered>>
    BY DEF ordering
  <1>2. AllListed' = AllListed /\ \A k : Listed(k)' = Listed(k)
    BY <1>1 DEF AllListed, Listed
  <1>3. \A c : Order!Outgoing(c)' = Order!Outgoing(c)
    BY <1>1 DEF Order!Outgoing, Order!HomeOf, Order!CalleesOutside
  <1> QED BY <1>1, <1>2, <1>3 DEF OrderInv, Ordering

-----------------------------------------------------------------------------
(* The components are taken in the order of the list.                      *)

\* The functions of the first k components of the list.
Covered(k) == UNION Listed(k)

\* The first k components of the list are finished, and the next one may be at
\* hand.
TakenInv ==
  /\ phase # "done" => done = {} /\ current = {}
  /\ \E k \in 0..Len(ordered) :
       /\ done = Covered(k)
       /\ current # {} => k < Len(ordered) /\ current = ordered[k + 1]

EngineInv == SearchInv /\ CollectInv /\ OrderInv /\ TakenInv

\* Two components of the list share no function.
LEMMA ListedApart ==
  ASSUME CollectInv, OrderInv, NEW i \in 1..Len(ordered), NEW j \in 1..Len(ordered), i # j
  PROVE  ordered[i] \cap ordered[j] = {} /\ ordered[i] # {}
  <1>1. ordered[i] \in components /\ ordered[j] \in components /\ ordered[i] # ordered[j]
    BY DEF OrderInv, AllListed, Listed
  <1> QED BY <1>1 DEF CollectInv

\* What is taken is a prefix of the list.
LEMMA TakenIsPrefix ==
  ASSUME CollectInv, OrderInv, NEW k \in 0..Len(ordered), done = Covered(k)
  PROVE  Taken = 1..k /\ Cardinality(Taken) = k
  <1>1. Len(ordered) \in Nat /\ DOMAIN ordered = 1..Len(ordered)
    BY DEF OrderInv
  <1>2. \A i \in 1..k : i \in 1..Len(ordered) /\ ordered[i] \subseteq done
    BY <1>1 DEF Covered, Listed
  <1>3. ASSUME NEW i \in 1..Len(ordered), ordered[i] \subseteq done
        PROVE  i \in 1..k
    <2>1. PICK x : x \in ordered[i]
      <3>1. ordered[i] \in components
        BY <1>3 DEF OrderInv, AllListed, Listed
      <3> QED BY <3>1 DEF CollectInv
    <2>2. PICK j \in 1..k : x \in ordered[j]
      BY <1>3, <2>1 DEF Covered, Listed
    <2> QED BY <1>2, <2>1, <2>2, ListedApart
  <1>4. Taken = 1..k
    BY <1>1, <1>2, <1>3 DEF Taken
  <1> QED BY <1>1, <1>4, FS_Interval

\* The component that is taken is one FixedPoint may start with.
LEMMA TakeIsStart ==
  ASSUME EngineInv, TakeComponent
  PROVE  /\ StartComponent
         /\ \E k \in 0..Len(ordered) : done = Covered(k) /\ k < Len(ordered) /\ current' = ordered[k + 1]
  <1>1. PICK k \in 0..Len(ordered) : done = Covered(k)
    BY DEF EngineInv, TakenInv
  <1>2. Len(ordered) \in Nat /\ DOMAIN ordered = 1..Len(ordered)
    BY DEF EngineInv, OrderInv
  <1>3. Taken = 1..k /\ Cardinality(Taken) = k
    BY <1>1, TakenIsPrefix DEF EngineInv
  <1>4. k < Len(ordered) /\ k + 1 \in 1..Len(ordered)
    <2>1. 1..k # 1..Len(ordered)
      BY <1>2, <1>3 DEF TakeComponent
    <2>2. k # Len(ordered)
      BY <2>1
    <2>3. \A n \in Nat : \A i \in 0..n : i # n => i < n /\ i + 1 \in 1..n
      OBVIOUS
    <2> QED BY <1>1, <1>2, <2>2, <2>3
  <1> DEFINE c == ordered[k + 1]
  <1>5. Begin(c) /\ phase = "done"
    BY <1>3, <1>4 DEF TakeComponent
  <1>6. c \in components /\ assigned = Funcs /\ AtHand = {}
    BY <1>4, <1>5 DEF EngineInv, OrderInv, AllListed, Listed, CollectInv
  <1>7. PICK f \in c : f \in Funcs /\ c = Component(calls, f)
    BY <1>6 DEF EngineInv, CollectInv, CollectTypes
  <1>8. c \cap done = {}
    <2>1. ASSUME NEW j \in 1..k PROVE c \cap ordered[j] = {}
      BY <1>2, <1>4, ListedApart DEF EngineInv
    <2> QED BY <1>1, <2>1 DEF Covered, Listed
  <1>9. CalleesOutside(calls, c) \subseteq done
    <2> SUFFICES ASSUME NEW g \in CalleesOutside(calls, c) PROVE g \in done
      OBVIOUS
    <2>1. Component(calls, g) \in Order!Outgoing(c)
      BY <1>6, OutgoingIsOther DEF EngineInv
    <2>2. Order!Outgoing(c) \subseteq Listed(k)
      <3>1. (k + 1) - 1 = k
        BY <1>2
      <3> QED BY <1>4, <3>1 DEF EngineInv, OrderInv
    <2>3. g \in Funcs
      BY <1>6, <1>7 DEF CalleesOutside, EngineInv, SearchInv, SearchTypes, Graph, CollectInv, CollectTypes
    <2>4. g \in Component(calls, g)
      BY <2>3, ComponentIsClass DEF EngineInv, SearchInv, SearchTypes
    <2> QED BY <1>1, <2>1, <2>2, <2>4 DEF Covered
  <1>10. StartComponent
    BY <1>5, <1>7, <1>8, <1>9 DEF StartComponent, IsNext
  <1> QED BY <1>1, <1>4, <1>5, <1>10 DEF Begin

\* Finishing the component at hand covers one more of the list.
LEMMA TakenNext ==
  ASSUME OrderInv, NEW k \in 0..Len(ordered), k < Len(ordered)
  PROVE  Covered(k + 1) = Covered(k) \cup ordered[k + 1] /\ k + 1 \in 0..Len(ordered)
  <1>1. Len(ordered) \in Nat
    BY DEF OrderInv
  <1>2. 1..(k + 1) = (1..k) \cup {k + 1}
    BY <1>1
  <1>3. Listed(k + 1) = Listed(k) \cup {ordered[k + 1]}
    BY <1>2 DEF Listed
  <1> QED BY <1>1, <1>3 DEF Covered

LEMMA TakenStep == EngineInv /\ [EngineNext]_<<vars, ordering>> => TakenInv'
  <1> SUFFICES ASSUME EngineInv, [EngineNext]_<<vars, ordering>> PROVE TakenInv'
    OBVIOUS
  <1>1. ASSUME UNCHANGED <<done, current, phase, ordered>> PROVE TakenInv'
    BY <1>1 DEF EngineInv, TakenInv, Covered, Listed
  <1>2. CASE OrderStep
    <2>1. phase # "done" /\ UNCHANGED <<done, current>>
      BY <1>2 DEF OrderStep, computing, Order!Next, Order!Enter, Order!Descend, Order!Leave,
                  Order!Searched, Order!Root, Order!Expand, Order!Close, Order!StartOrder,
                  Order!PopReady, Order!Finish
    <2>2. done' = {} /\ current' = {}
      BY <2>1 DEF EngineInv, TakenInv
    <2>3. OrderInv'
      BY <1>2, OrderStepInv DEF OrderStep, EngineInv
    <2>4. 0 \in 0..Len(ordered') /\ Covered(0)' = {}
      BY <2>3 DEF Covered, Listed, OrderInv
    <2> QED BY <2>2, <2>4 DEF TakenInv
  <1>3. CASE TakeComponent
    <2>1. UNCHANGED <<done, phase, ordered>> /\ phase = "done"
      BY <1>3 DEF TakeComponent, Begin, ordering
    <2>2. PICK k \in 0..Len(ordered) : done = Covered(k) /\ k < Len(ordered) /\ current' = ordered[k + 1]
      BY <1>3, TakeIsStart
    <2> QED BY <2>1, <2>2 DEF TakenInv, Covered, Listed
  <1>4. CASE ComputeStep
    <2>1. UNCHANGED <<phase, ordered>> /\ phase = "done"
      BY <1>4 DEF ComputeStep, ordering
    <2>2. CASE UNCHANGED <<done, current>>
      BY <1>1, <2>1, <2>2
    <2>3. CASE current # {} /\ done' = done \cup current /\ current' = {}
      <3>1. PICK k \in 0..Len(ordered) : done = Covered(k) /\ k < Len(ordered) /\ current = ordered[k + 1]
        BY <2>3 DEF EngineInv, TakenInv
      <3>2. done' = Covered(k + 1) /\ k + 1 \in 0..Len(ordered)
        BY <2>3, <3>1, TakenNext DEF EngineInv
      <3> QED BY <2>1, <2>3, <3>2 DEF TakenInv, Covered, Listed
    <2> QED BY <1>4, <2>2, <2>3
        DEF ComputeStep, Compute, Update, NextRound, Converge, Degrade, RoundOver
  <1> QED BY <1>1, <1>2, <1>3, <1>4 DEF EngineNext, Return, vars, ordering

LEMMA EngineInvariant == EngineInit /\ [][EngineNext]_<<vars, ordering>> => []EngineInv
  <1>1. EngineInit => EngineInv
    <2> SUFFICES ASSUME EngineInit PROVE EngineInv
      OBVIOUS
    <2>1. SearchInv /\ CollectInv /\ OrderInv
      BY SearchInit, CollectInit, OrderInit DEF EngineInit
    <2>2. ordered = <<>> /\ done = {} /\ current = {}
      BY DEF EngineInit, Order!Init, Init
    <2>3. 0 \in 0..Len(ordered) /\ Covered(0) = {}
      BY <2>2 DEF Covered, Listed
    <2> QED BY <2>1, <2>2, <2>3 DEF EngineInv, TakenInv
  <1>2. EngineInv /\ [EngineNext]_<<vars, ordering>> => EngineInv'
    <2> SUFFICES ASSUME EngineInv, [EngineNext]_<<vars, ordering>> PROVE EngineInv'
      OBVIOUS
    <2>1. TakenInv'
      BY TakenStep
    <2>2. CASE Order!Next
      BY <2>1, <2>2, SearchStep, CollectStep, OrderStepInv DEF EngineInv
    <2>3. CASE UNCHANGED <<calls, ordering>>
      BY <2>1, <2>3, SearchUnchanged, CollectUnchanged, OrderUnchanged DEF EngineInv
    <2> QED BY <2>2, <2>3
        DEF EngineNext, OrderStep, TakeComponent, ComputeStep, Compute, Return, Begin, Update,
            NextRound, Converge, Degrade, vars
  <1> QED BY <1>1, <1>2, PTL

-----------------------------------------------------------------------------
(* The theorems.                                                           *)

\* Whatever the call graph: the two passes list its components in an order that
\* FixedPoint allows, so a run of the engine is a run of FixedPoint: a step of
\* the passes changes none of its variables, and the component that is taken
\* is one all of whose callees are done.
THEOREM EngineImplementsAnyOrder == EngineSpec => ImplementsAnyOrder
  <1>1. EngineInit => Init
    BY DEF EngineInit
  <1>2. EngineInv /\ [EngineNext]_<<vars, ordering>> => [Next]_vars
    <2> SUFFICES ASSUME EngineInv, [EngineNext]_<<vars, ordering>> PROVE [Next]_vars
      OBVIOUS
    <2>1. CASE OrderStep
      <3>1. calls' = calls
        BY <2>1 DEF OrderStep, Order!Next, Order!Enter, Order!Descend, Order!Leave,
                    Order!Searched, Order!Root, Order!Expand, Order!Close, Order!StartOrder,
                    Order!PopReady, Order!Finish
      <3> QED BY <2>1, <3>1 DEF OrderStep, computing, vars, round
    <2>2. CASE TakeComponent
      BY <2>2, TakeIsStart DEF Next
    <2>3. CASE ComputeStep
      BY <2>3 DEF ComputeStep, Next
    <2> QED BY <2>1, <2>2, <2>3 DEF EngineNext, Return
  <1> QED BY <1>1, <1>2, EngineInvariant, PTL DEF EngineSpec, ImplementsAnyOrder, Spec

\* So the facts of the engine as it runs are stable.
THEOREM EngineFactsAreStable == EngineSpec => []FactsAreStable
  BY EngineImplementsAnyOrder, FinishedFactsAreStable, PTL DEF ImplementsAnyOrder

\* And, where nothing was degraded, least.
THEOREM EngineFactsAreLeast == EngineSpec => []FactsAreLeast
  BY EngineImplementsAnyOrder, UndegradedFactsAreLeast, PTL DEF ImplementsAnyOrder
\* And the engine degrades nothing that its budget covers.
THEOREM EngineBudgetIsEnough ==
  ASSUME NEW height \in Nat, NEW rank, Ranks(rank, height)
  PROVE  EngineSpec => []BudgetSuffices(height)
  <1>1. Spec => []BudgetSuffices(height)
    BY BudgetIsEnough, FuncsAssumption
  <1> QED BY <1>1, EngineImplementsAnyOrder, PTL DEF ImplementsAnyOrder

-----------------------------------------------------------------------------
(* Nothing is left out.                                                    *)

\* The components found are those of the functions, no more and no fewer.
ComponentsAreRight ==
  phase \in {"order", "done"} => components = {Component(calls, f) : f \in Funcs}

\* The heap runs empty only when every component is listed: a cycle among
\* components would leave them waiting for each other.
AllAreListed == phase = "done" => AllListed = components

\* When the engine returns it has computed a fact for every function.
AllAreDone == phase = "done" /\ current = {} /\ Taken = DOMAIN ordered => done = Funcs

\* Of the functions in Z there is one that reaches no more than any of them.
LEMMA LeastReachExists ==
  ASSUME Graph, NEW Z \in SUBSET Funcs, Z # {}
  PROVE  \E f \in Z : \A g \in Z : Reach(calls, g) \subseteq Reach(calls, f) => Reach(calls, g) = Reach(calls, f)
  <1> DEFINE R == {Reach(calls, f) : f \in Z}
             Smaller == StrictSubsetOrdering(Funcs)
  <1>1. R \subseteq SUBSET Funcs /\ R # {}
    BY ReachIsClosure
  <1>2. IsWellFoundedOn(Smaller, SUBSET Funcs)
    BY FuncsAssumption, FS_FiniteSubsetsOfFinite, FS_StrictSubsetOrderingWellFounded
  <1> HIDE DEF R
  <1>3. PICK S \in R : \A T \in R : <<T, S>> \notin Smaller
    <2> HIDE DEF Smaller
    <2> QED BY <1>1, <1>2, WFMin
  <1>4. \A T \in R : T \subseteq S => T = S
    BY <1>1, <1>3 DEF StrictSubsetOrdering
  <1> QED BY <1>3, <1>4 DEF R

LEMMA EngineInvRight == EngineInv => ComponentsAreRight /\ AllAreListed /\ AllAreDone
  <1> SUFFICES ASSUME EngineInv PROVE ComponentsAreRight /\ AllAreListed /\ AllAreDone
    OBVIOUS
  <1> USE DEF EngineInv
  <1>1. ComponentsAreRight
    <2> SUFFICES ASSUME phase \in {"order", "done"} PROVE components = {Component(calls, f) : f \in Funcs}
      BY DEF ComponentsAreRight
    <2>1. assigned = Funcs /\ AtHand = {}
      BY DEF CollectInv
    <2>2. \A f \in Funcs : Component(calls, f) \in components
      BY <2>1, HomeIsComponent
    <2>3. \A c \in components : \E f \in Funcs : c = Component(calls, f)
      BY DEF CollectInv, CollectTypes
    <2> QED BY <2>2, <2>3
  <1>2. AllAreListed
    <2> SUFFICES ASSUME phase = "done", AllListed # components PROVE FALSE
      BY DEF AllAreListed
    <2> DEFINE Z == {f \in Funcs : Component(calls, f) \notin AllListed}
    <2>1. assigned = Funcs /\ AtHand = {} /\ Graph /\ components = {Component(calls, f) : f \in Funcs}
      BY <1>1 DEF CollectInv, ComponentsAreRight, SearchInv, SearchTypes
    <2>2. Z # {}
      BY <2>1 DEF OrderInv
    <2>3. PICK f \in Z : \A g \in Z : Reach(calls, g) \subseteq Reach(calls, f) => Reach(calls, g) = Reach(calls, f)
      BY <2>1, <2>2, LeastReachExists
    <2> DEFINE c == Component(calls, f)
    <2>4. c \in components \ AllListed
      BY <2>1, <2>3
    <2>5. PICK d \in Order!Outgoing(c) : d \notin AllListed
      <3>1. outdegree = [b \in components |-> Cardinality(Order!Outgoing(b) \ AllListed)]
        BY DEF OrderInv, Ordering
      <3>2. outdegree[c] # 0
        BY <2>4 DEF OrderInv, Ordering
      <3>3. Cardinality(Order!Outgoing(c) \ AllListed) # 0
        BY <2>4, <3>1, <3>2
      <3> QED BY <3>3, FS_EmptySet
    <2>6. PICK x \in c, g \in Funcs \ c : g \in calls[x] /\ d = Component(calls, g)
      BY <2>1, <2>4, <2>5, OutgoingIsOther
    <2>7. f \in Funcs /\ x \in Reach(calls, f) /\ g \in Reach(calls, f)
      <3>1. f \in Funcs /\ x \in Reach(calls, f)
        BY <2>3, <2>6 DEF Component
      <3> QED BY <2>1, <2>6, <3>1, ReachIsClosure
    <2>8. g \in Z /\ Reach(calls, g) \subseteq Reach(calls, f)
      BY <2>1, <2>5, <2>6, <2>7, ReachTransitive
    <2>9. f \in Reach(calls, g)
      BY <2>1, <2>3, <2>7, <2>8, ReachIsClosure
    <2> QED BY <2>6, <2>7, <2>9 DEF Component
  <1>3. AllAreDone
    <2> SUFFICES ASSUME phase = "done", current = {}, Taken = DOMAIN ordered PROVE done = Funcs
      BY DEF AllAreDone
    <2>1. PICK k \in 0..Len(ordered) : done = Covered(k)
      BY DEF TakenInv
    <2>2. Taken = 1..k /\ DOMAIN ordered = 1..Len(ordered)
      BY <2>1, TakenIsPrefix DEF OrderInv
    <2>3. Listed(k) = components
      BY <1>2, <2>2 DEF AllAreListed, AllListed, Listed
    <2>4. Placed = Funcs
      <3>1. AtHand = {} /\ assigned = Funcs
        BY DEF CollectInv
      <3>2. assigned = Placed \cup AtHand
        BY DEF CollectInv
      <3> QED BY <3>1, <3>2
    <2> QED BY <2>1, <2>3, <2>4 DEF Covered, Placed
  <1> QED BY <1>1, <1>2, <1>3

\* Kosaraju's two passes, done with explicit stacks, split every call graph into
\* its strongly connected components.
THEOREM ComponentsAreFound == EngineSpec => []ComponentsAreRight
  BY EngineInvariant, EngineInvRight, PTL DEF EngineSpec

\* The sort by outdegree and heap loses no component of any call graph.
THEOREM OrderIsComplete == EngineSpec => []AllAreListed
  BY EngineInvariant, EngineInvRight, PTL DEF EngineSpec

\* The engine returns only when every function has its fact.
THEOREM EngineIsThorough == EngineSpec => []AllAreDone
  BY EngineInvariant, EngineInvRight, PTL DEF EngineSpec
=============================================================================
