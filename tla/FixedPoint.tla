----------------------------- MODULE FixedPoint -----------------------------
(***************************************************************************)
(* SCCFixedPointEngine.run: function facts computed bottom-up over the     *)
(* components of a call graph.  A recursive component is iterated in       *)
(* rounds that all read one snapshot, until a round changes nothing or the *)
(* budget is spent; then its facts are degraded to Unknown.                *)
(*                                                                         *)
(* The fact domain is a parameter, as it is in the code.  Components come  *)
(* in any order that puts callees first: SccOrder shows that the engine's  *)
(* order is one of them.                                                   *)
(***************************************************************************)
EXTENDS Integers, FiniteSets, CallGraph

CONSTANTS Funcs,            \* the functions of the translation unit
          Bodies,           \* what the transfer function knows of a function
          Facts,            \* the lattice
          Bottom,
          Join(_, _),
          Unknown(_),       \* the degraded fact, from the current one
          Transfer(_, _),   \* from a body and the facts of its callees
          MaxIterations     \* max_iterations_per_scc

Leq(x, y) == Join(x, y) = y

ASSUME MaxIterationsAssumption == MaxIterations \in Nat \ {0}
ASSUME FactsAssumption ==
  /\ Bottom \in Facts
  /\ \A x \in Facts : Unknown(x) \in Facts
  /\ \A x, y \in Facts : Join(x, y) \in Facts
  /\ \A b \in Bodies : \A S \in SUBSET Funcs : \A env \in [S -> Facts] : Transfer(b, env) \in Facts
\* The contract of FiniteLattice: join is commutative, associative and
\* idempotent, and the transfer function is monotone.
ASSUME JoinAssumption ==
  /\ \A x, y \in Facts : Join(x, y) = Join(y, x)
  /\ \A x, y, z \in Facts : Join(Join(x, y), z) = Join(x, Join(y, z))
  /\ \A x \in Facts : Join(x, x) = x
ASSUME BottomAssumption == \A x \in Facts : Leq(Bottom, x)
ASSUME MonotoneAssumption ==
  \A b \in Bodies : \A S \in SUBSET Funcs : \A low, high \in [S -> Facts] :
    (\A f \in S : Leq(low[f], high[f])) => Leq(Transfer(b, low), Transfer(b, high))

VARIABLES
  calls, body,   \* the program
  facts,         \* the current fact of each function
  done,          \* the functions of finished components
  current,       \* the component being iterated, or {}
  rounds,        \* the rounds made for it
  snapshot,      \* the facts this round reads
  updates,       \* the facts it has computed
  degraded       \* functions with a CONVERGENCE_LIMIT diagnostic

round == <<snapshot, updates>>
vars == <<calls, body, facts, done, current, rounds, round, degraded>>

Nothing == [f \in {} |-> Bottom]
IsRecursive == Recursive(calls, current)
Budget == IF IsRecursive THEN MaxIterations ELSE 1

Init ==
  /\ calls \in [Funcs -> SUBSET Funcs] /\ body \in [Funcs -> Bodies]
  /\ facts = [f \in Funcs |-> Bottom]
  /\ done = {} /\ current = {} /\ rounds = 0
  /\ snapshot = facts /\ updates = Nothing /\ degraded = {}

-----------------------------------------------------------------------------

IsNext(C) == C \cap done = {} /\ CalleesOutside(calls, C) \subseteq done

Begin(C) ==
  /\ current = {}
  /\ current' = C
  /\ rounds' = 1 /\ snapshot' = facts /\ updates' = Nothing
  /\ UNCHANGED <<calls, body, facts, done, degraded>>

StartComponent == \E f \in Funcs : IsNext(Component(calls, f)) /\ Begin(Component(calls, f))

Seen(f, env) == [g \in calls[f] |-> env[g]]

Joined(f) == Join(snapshot[f], Transfer(body[f], Seen(f, snapshot)))

Update(f) ==
  /\ f \in current \ DOMAIN updates
  /\ updates' = [g \in DOMAIN updates \cup {f} |-> IF g = f THEN Joined(f) ELSE updates[g]]
  /\ UNCHANGED <<calls, body, facts, done, current, rounds, snapshot, degraded>>

RoundOver == current # {} /\ DOMAIN updates = current
Changed == \E f \in current : updates[f] # snapshot[f]
Updated == [f \in Funcs |-> IF f \in current THEN updates[f] ELSE facts[f]]

\* Faulty: the budget ends a component as convergence does.
SpentIsConverged == ~IsRecursive \/ ~Changed \/ rounds = Budget

Converged == ~IsRecursive \/ ~Changed

RoundsLeft == rounds < Budget

NextRound ==
  /\ RoundOver /\ ~Converged /\ RoundsLeft
  /\ facts' = Updated
  /\ rounds' = rounds + 1 /\ snapshot' = Updated /\ updates' = Nothing
  /\ UNCHANGED <<calls, body, done, current, degraded>>

Converge ==
  /\ RoundOver /\ Converged
  /\ facts' = Updated
  /\ done' = done \cup current /\ current' = {}
  /\ rounds' = 0 /\ updates' = Nothing
  /\ UNCHANGED <<calls, body, snapshot, degraded>>

\* Faulty: leaves no diagnostic.
DegradeSilently ==
  /\ RoundOver /\ ~Converged /\ ~RoundsLeft
  /\ facts' = [f \in Funcs |-> IF f \in current THEN Unknown(Updated[f]) ELSE facts[f]]
  /\ done' = done \cup current /\ current' = {}
  /\ rounds' = 0 /\ updates' = Nothing
  /\ UNCHANGED <<calls, body, snapshot, degraded>>

Degrade ==
  /\ RoundOver /\ ~Converged /\ ~RoundsLeft
  /\ facts' = [f \in Funcs |-> IF f \in current THEN Unknown(Updated[f]) ELSE facts[f]]
  /\ degraded' = degraded \cup current
  /\ done' = done \cup current /\ current' = {}
  /\ rounds' = 0 /\ updates' = Nothing
  /\ UNCHANGED <<calls, body, snapshot>>

Terminated == done = Funcs /\ UNCHANGED vars

Compute == (\E f \in Funcs : Update(f)) \/ NextRound \/ Converge \/ Degrade

Next == StartComponent \/ Compute \/ Terminated

Spec == Init /\ [][Next]_vars

-----------------------------------------------------------------------------
(* Properties.                                                             *)

\* Every variable stays in its range, and a round updates only the current
\* component.
TypeOK ==
  /\ calls \in [Funcs -> SUBSET Funcs] /\ body \in [Funcs -> Bodies]
  /\ facts \in [Funcs -> Facts] /\ snapshot \in [Funcs -> Facts]
  /\ done \subseteq Funcs /\ current \subseteq Funcs \ done
  /\ degraded \subseteq done
  /\ rounds \in 0..MaxIterations
  /\ DOMAIN updates \subseteq current
  /\ \A f \in DOMAIN updates : updates[f] \in Facts

\* The fact of a finished function that was not degraded absorbs one more
\* transfer from the facts its callees ended with, degraded ones included:
\* no caller keeps a conclusion about a callee that has changed since.
FactsAreStable ==
  \A f \in done \ degraded : Leq(Transfer(body[f], Seen(f, facts)), facts[f])

\* Where nothing was degraded, the facts are the least solution: below every
\* other assignment that absorbs its own transfer, whatever the order.
Solution(g) == \A f \in Funcs : Leq(Transfer(body[f], Seen(f, g)), g[f])
FactsAreLeast ==
  degraded = {} =>
    \A g \in [Funcs -> Facts] : Solution(g) => \A f \in Funcs : Leq(facts[f], g[f])

\* A component whose longest possible climb fits the budget is never
\* degraded: one round for each step up a lattice of that height and one to see
\* that nothing changes any more.
BudgetSuffices(height) ==
  \A f \in Funcs :
    MaxIterations > Cardinality(Component(calls, f)) * height => f \notin degraded
=============================================================================
