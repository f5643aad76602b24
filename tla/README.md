# C-GULL: a verification project

TLA+ models of C-GULL, a static analyzer for C written in Python (`cgull/`),
TLC configurations that check them on small instances, and TLAPS proofs of the
properties that matter most for every instance.

C-GULL makes two kinds of promise. One is about scans: the same tree gives the
same report, whatever the number of workers, whatever is cached, whatever order
results come in, and a file that could not be analysed is said to have failed.
The other is about programs: a pointer said not to be null is not null, an
interval contains the value, a branch said to be unreachable is never entered.
The first is kept by mechanisms that run between processes; they are modelled
with their processes, faults and schedules. The second is kept by analyses that
iterate to a fixed point over a graph of the program; they are modelled beside
the meaning of the programs they analyse, so that every claim is held against
every run.

## 1. The system

A scan (`engine.py: CGullScanner.scan_path`) discovers files, prepares them as
units for one or more configuration profiles, analyses every unit, possibly in
worker processes, merges and finalises the findings, and reports.

| part | source | state it keeps | operations | what is hard | what makes it right |
| --- | --- | --- | --- | --- | --- |
| scan pool | `parallel_workers.py` | futures, worker processes, rows, progress counters | `_scan_files_parallel`, `_terminate_pool` | lost workers and results, interrupts, raising callbacks, forced shutdown | one row for each file, honest failures, nothing left running, the call ends |
| unit preparation | `project_analysis.py` | outstanding tasks, prepared units, diagnostics | `prepare_units`, `_prepare_source` | a pool that breaks between submissions, completion order | the sequential result; every unusable unit has a diagnostic |
| call graph and fixed-point engine | `cfg/call_graph.py`, `cfg/fixed_point.py` | two search stacks, a heap; facts, a snapshot, a round counter | `_strongly_connected_components`, `_bottom_up_scc_order`, `SCCFixedPointEngine.run` | hand-made recursion, counting of edges, budgets, degraded facts | callees first; stable and least facts |
| project summaries | `project_analysis.py` | outputs, imports, caches of sessions | `ProjectSummaryIndex.build`, `prepare_project` | recursive imports that never settle, an analysis that raises, stale caches | published summaries agree with each other; nothing partial stays |
| result cache | `result_cache.py`, `engine.py` | a JSON entry for each key, shared by processes | `get`, `put`, `rebind_cached_result` | races, crashes, damaged entries, edits during a scan | an entry follows from its key; a hit has the findings of a cold scan |
| profiles and finding finalisation | `engine.py` | candidates with private profile tokens, rows, counters | `_scan_file_content_profiles`, `_deduplicate_issues_by_fingerprint`, `_coalesce_same_fingerprint_sites`, `_assign_unique_occurrence_fingerprints` | completion order, being applied three times | no finding lost, doubled or merged with another; the right profiles on it |
| include expansion | `includes.py` | frames, guards, limits, cache of leaf headers | `TUIncludeExpander.expand` | cycles, guards shared by files, a cache shared by units, limits | a protected header is there once, and is there |
| logging transport | `logging_config.py` | the worker marker's count, manager, listener, queue | `_acquire_worker_logging_marker`, `_release_worker_logging_marker`, `multiprocessing_logging_context` | overlapping scans, partial set-up, interrupts, dying managers | the marker is there while children start and gone afterwards; no record lost, nothing left running |
| preprocessor reachability | `preprocessor/` | decision diagrams with a unique table, caches and a budget; directive trees | `BDD.build/negate/apply`, branch analysis, witnesses, profile reduction | budgets that run out mid-query, malformed nesting, shared caches | a verdict holds under every configuration; no variant is dropped |
| control flow graphs | `cfg/construction.py`, `cfg/graph.py`, `cfg/ast_events.py` | nodes, edges with truth and null facts, labels still to resolve | `build_cfg`, `connect`, `build_basic_blocks` | every statement of C with every jump out of it | every run follows the graph |
| dataflow analyses of a function | `cfg/legacy_dataflow.py`, `cfg/summaries.py`, `cfg/ownership.py`, `cfg/security_dataflow.py`, `cfg/security_queries.py` | lattices, block states, realloc records, worklists | `analyze_dataflow`, `ownership_effects_for_cfg`, `analyze_security_dataflow`, queries | aliases, loops, deferred outcomes of realloc, joins | what a fact says is so on every run |
| analyses of a translation unit | `cfg/integer_ranges.py`, `cfg/integer_range_summaries.py`, `cfg/value_facts.py`, `cfg/value_interprocedural.py` | ranges or value facts, summaries, parameters, rounds | worklists, widening, rounds over the call graph | conversions and wrap-around, recursion, spent budgets | intervals contain, provenance is right, branches left out are never taken |
| baseline, fixes | `baseline.py`, `fixes.py` | fingerprint counts; replacements by line | `apply_baseline`, `apply_safe_fixes` | multiplicities; sources changed since the scan | counts add up; only matching lines change |
| analysis session | `analysis_session.py` | lazily built graphs and summaries, a registry | `analysis_session_for`, `AnalysisSession` | invalidation | never a stale summary |
| front end, rules, reports, command line | `ast_analyzer/`, `rules/`, `reporter.py`, `cli*.py` | almost none between calls | parsing, queries, formatting | C itself | the repository's 370 test files |

How they interact. `scan_path` calls preparation, which fills the context of
every unit; `prepare_project` runs `ProjectSummaryIndex.build` over the units,
and each unit's session runs the fixed-point engine over the order the call
graph gives. The pool receives the units and returns one row for each file,
inside the logging context. In each file's scan, the result cache stands
between expansion and analysis; the analyses build a graph of each function
and compute its facts; findings of the profiles are merged. The rows are
finalised per file and then together. The driver and its workers share nothing
but the executor's queues and the log queue; separate runs share the cache
directory and the captures.

`PROJECT.json` lists all components with their status, and under `hazards` what
is hard to test in this code, each at its line with the properties that would
catch it.

## 2. The modules

A specification models a component; an `MC` module instantiates it for TLC with
a `.cfg` (`LoggingTransport` needs none and is run as it is); a `_proofs` module extends it with theorems (`Algorithms_proofs`
extends `Ranges` and `FindingDedup`). Definitions marked "Faulty" are variants of
the definition next to them with a plausible bug; no specification uses them.
They show that a property can fail: with the variant in place of the definition,
TLC finds the property violated.

### 2.1 Scans

**ScanPool, ScanMap.** `ScanPool` is `_scan_files_parallel` and
`_terminate_pool`, the executor's manager thread and call queue, and the worker
processes. `phase` is the coordinator's place in the function: `submit`,
`collect`, `progress`, `shutdown`, `join`, and on any exception `cancel`,
`terminate`, `grace`, `reap`, `reapjoin`. The executor is library code, modelled
from how this code uses it: a broken pool settles all outstanding futures,
refuses new submissions and makes its manager thread stop. Faults: a worker
dies at any time, a terminal interrupt reaches a worker or the coordinator, the
progress callback raises. `ScanMap` is what the call promises `scan_path`,
without any process: each file gets a row, a row stays, the call returns only
with all rows, and a file whose scan succeeds is reported failed only after a
loss. `KeepsPromise` is the refinement, with `rows` read off the result list.

**UnitPreparation.** `prepare_units` with several workers. A source's task
carries the units that are missing, incompatible or not parsed; `Room` bounds
those outstanding; a broken pool refuses a task, and a lost task is retried by
the coordinator. `Merge` is the whole of `prepared[path].update(units)` with
its diagnostics. `SameAsSequential` compares the outcome with what preparing
every source alone gives, whatever units an earlier phase left.

**CallGraph, SccOrder, FixedPoint, FactEngine.** `CallGraph` defines
reachability, components and recursion on a graph, as plain mathematics.
`SccOrder` is the code's two passes and its heap, one action for each iteration
of a loop. `FixedPoint` takes the components in any order that puts callees
first and is `SCCFixedPointEngine.run` over any lattice: a round reads one
snapshot, a recursive component runs until a round changes nothing or the
budget is spent, and is then degraded. Its assumptions on `Join` and `Transfer`
are the contract `FiniteLattice` documents. `FactEngine` composes the two: the
order the call graph computes is the one the rounds use, and
`ImplementsAnyOrder` is the refinement that carries what is proved of
`FixedPoint` over to it.

**ProjectSummaries.** `ProjectSummaryIndex.build` over the import graph of
units, and the `except` branch of `prepare_project`. The analysis of a unit is
a function of the unit and of its imports that may also raise. Unlike in
`FixedPoint`, summaries are not joined and need not settle; a component out of
rounds loses its exports, its imports and its session's cache together.
`cached` is the session's copy, so that forgetting to invalidate it is an error
the model can show.

**ResultCache.** Scans of one file that includes one header, by processes that
share a cache directory, while both are edited. A scan reads the file, expands
the header, looks its key up, and on a miss analyses and stores with a
temporary file and `os.replace`. Every finding, in the file or in the header,
comes from the text of the whole unit, so it carries both versions (`unit`), and
it has survived the suppression comments of the texts it and its related
locations point to (`suppressed`). A result has a finding of every kind (where
it is, what is related), which is the worst case for the cache; two findings are
equal when a report would show them alike. `header` is read twice by a scan, for
the text and for the suppression comments (`engine.py:1344`), as in the code.
`torn`, a history variable, has the keys of the scans during which the header
was edited between the two. A hit moves every finding to the requesting path
(`Moved`, `result_cache.py:324`), as in the code.

**FindingDedup.** Findings of one rule on one line of a header, from several
files, each analysed under several configuration profiles. Candidates carry the
private token of their profile; those of a file are finalised over its
profiles and labelled (`reachable_under`, or unconditional), then as the result
of the file, in any order of arrival, and all together at the end: coarse rows
(column 1) are paired with precise sites, what is left is aligned across
origins, clusters are merged. `of`, the findings a row stands for, is a history
variable for the properties. With `dedup_headers` off, rows are only numbered.
`Standalone` has the header itself when it is scanned as a file; its rows are
related to no other file.

**IncludeExpansion.** `TUIncludeExpander._expand_text`, a line at a time, with
an explicit stack for its recursion. Each rejection has an action of its own,
in the order of the code's tests: a rejected path, a circular or guarded file,
the size limit, an unreadable file, a guard symbol already seen, the depth
limit, the cache, and only then a new frame. A file is a sequence of lines;
what protects it is an input. Expanded lines remember where they come from.

**LoggingTransport.** `multiprocessing_logging_context` for the overlapping
scans of one process. `phase[c]` is where an activation is: taking the marker,
starting the manager process, its queue and the listener thread, the body,
putting the sentinel, joining the listener, shutting the manager down,
releasing the marker. Workers put records while they run. Every step of the
set-up may fail (`except Exception`, the scan goes on without transport) or be
interrupted (a `BaseException` passes that handler), the body may raise with
its workers still running, a manager dies at any time and takes its queue
along. `owed` is what was on the queue when the body ended.

### 2.2 Preprocessor

**Conditions, DecisionDiagrams, ConditionalBranches.** `Conditions` is the
symbolic conditions with their simplification. `DecisionDiagrams` is the BDD
manager: the recursion of build, negate and apply as a machine over a stack of
calls, with the unique table, three caches that outlive a query, and the work
budget that may run out between any two calls. `ConditionalBranches` builds the
tree of `#if` blocks from directives, malformed and unbalanced ones too, walks
it for one of two consumers (the rules, which ask whether a branch is reachable
and whether its condition is implied; witnesses, which ask for a configuration)
and reduces generated profiles to those that differ. The reference, `Entered`,
is a C preprocessor that reads the source from top to bottom.

### 2.3 Programs

**ControlFlow** is `build_cfg` and `StructuredGraph`: from the statements of a
function to nodes, edges with their truth and null facts, and basic blocks. A
node has the one effect on the tracked variables that its expression has; a
statement whose expression holds a ternary is split as in the code.
**CControl** is how a C function runs, statement by statement, on a stack of
frames, and `Follow` says which nodes of the graph stand for the next step.
**CExecution** is what statements do to pointers and objects. Both are the
language's semantics, marked external.

**LegacyDataflow** extends them with `analyze_dataflow`: a worklist over blocks
with initialisation, nullness and allocation by location, records of pending
reallocs settled on the edge that tests the result, joins; then the function is
run. **OwnershipEffects** and **FunctionSummaries** turn its facts into what
callers are told: parameters freed, given away, kept, written, returned,
dereferenced unchecked, and what a true result proves. **SecurityDataflow**
adds provenance and validation, and which sensitive calls are reported. Each
extends the one before, so that one run of the program is held against all.

**ValueFacts** is the whole-unit analysis of provenance and literalness:
summaries of what functions return, bottom-up (`value_facts.py`), then facts of
parameters passed from callers to callees in rounds with a budget
(`value_interprocedural.py`), then runs with calls. **Ranges** and
**IntegerRanges** are intervals: the arithmetic of ranges and conversions, and
the analysis with its edge constraints, widening, storage that others may
change, and rounds of argument and result ranges over the call graph, then
runs with calls. Integer types are narrow: `Half = 4` gives `int` −4..3,
`unsigned` 0..7 and `short` −2..1, with C's conversions and usual arithmetic
conversions between them.

In these modules the graph of a function, its blocks and the like are carried
in a state variable although they never change: they are functions of the
program and are computed once per behaviour.

## 3. The runs

| run | instance | shows |
| --- | --- | --- |
| `scan_pool` | 3 files (one scanned, one failed, one raising), 2 workers, 1 fault, 1 interrupt; 66 k states | one row a file, nothing left behind, the refinement of `ScanMap` with honest failures, and the call ends |
| `unit_preparation` | 3 sources, 2 profiles, 2 workers, 2 faults, 1 interrupt, 256 initial states of the units; 187 k states | the sequential result, every unusable unit diagnosed, the call ends |
| `function_facts` | every program of 3 functions: 512 call graphs, 3 bodies each, sets of two flags, 3 rounds; 504 k states | right components in an order `FixedPoint` allows, stable and least facts, nothing degraded that would have settled, an end |
| `project_summaries` | all import graphs of 3 units, 5 kinds of unit, 4 rounds; 143 k states | consistent summaries, nothing partial, fresh caches |
| `result_cache` | 2 processes, 2 edits, 3 scans, 1 fault, findings of 8 kinds in both texts; 643 k states | an entry follows from its key, a hit has the findings of a cold scan, writers never take a usable entry away |
| `result_cache_moved` | 1 process, an unchanged tree scanned twice | the finding below on `result_cache.py:324` |
| `finding_dedup` | 2 files, one of them the header, up to 3 findings each on 3 columns with 2 messages, up to 3 profiles, both modes; 467 k states | every finding in exactly one row, precise sites kept apart and complete, repeats add no row, rows labelled with the profiles they were found under |
| `include_expansion` | 3 headers with every include graph of 6 bodies each, 4 kinds of protection, pairs of limits, 3 expansions in 2 scans; and every sequence of up to 5 conditional directives; 567 k states | protected text exactly once, repeatable expansions, conditionals as in C |
| `logging_transport` | 2 overlapping scans, 1 record each, 2 faults; 89 k states | the marker follows the scans, owed records arrive, nothing stays running, contexts close |
| `dataflow` | 4,499 functions over two pointers; 3,020 translation units with up to three functions, calls nested 4 deep, 2 rounds; 588 k states | runs follow the graph; initialisation, nullness and dangling pointers; summaries; reported sinks; value facts through calls |
| `branches` | 418 translation units over 8-valued types; 100 sources of nested and broken chains over 4 atoms, both consumers, budgets that suffice and that do not; 220 k states | intervals contain, proven branches hold, the analysis ends; verdicts, completeness, witnesses, profiles |
| `integer_ranges_unsigned` | one function that compares an unsigned variable with −1 | the finding below on `integer_ranges.py:323` |

Why these bounds are enough for the questions asked. Two workers and three
files give a file that is running, one that is queued and one that is settled
when a worker is lost. Two workers and three sources make `Room` refuse a
submission. Three nodes give every shape of a recursive component with a caller
and a callee outside it. Two flags make a lattice with incomparable facts, and
three rounds are too few for some components and enough for others. Four
rounds let a recursive component of two units settle and make `flips`
oscillate out of them. Two processes and three scans let a third scan find what
two racing ones left. Three findings with two messages give coarse rows in
excess of the sites; three profiles make "all" differ from "more than one".
Three headers allow a cycle, a diamond and two files with one guard. Two
overlapping contexts are what the marker's count is about: a first, a last and
one in between are told apart. Two pointers give an alias and two names for one
object; loops run until states repeat, so runs of any length are covered. For
value facts, two rounds are too few for a function that moves its parameters
through three places and enough for the others, and four nested calls are what
it takes to see it. Eight values leave room for an interval, its widening and a
bound beyond the type. Bounds on faults, interrupts, edits, records, calls and
scans are constants named for what they bound; each stands in a guard.

The inputs of the program runs are families, in `MCLegacyDataflow`,
`MCValueFacts`, `MCIntegerRanges` and `MCConditionalBranches`: each takes the
constructs of interest in every position of a few shapes. They are not all
programs, and a property that holds of them is not proved of all. `MCDataflow`
joins two systems in one run, a function that is analysed alone and a
translation unit; the initial state decides which of them moves. `MCBranches`
does the same for what decides which branches can be taken, the intervals of a
unit and the directives of a source. Over eight values a range stops growing
without widening, so `AnalysisEnds` is about what is queued again and about
rounds that are given up; why widening ends is the theorem `WideningSpendsBounds`.

The `.cfg` files give values to constants only. `unit_preparation` lets one
source start with any pair of units and the others with equal ones;
`include_expansion` and `finding_dedup` join families of inputs. Deadlock is
checked in all runs; where a component has ended, an explicit step stutters.

### Fairness

`ScanPool`: the operating system schedules the coordinator, the manager thread
and each worker, and the scan of one file ends; no fault has to happen.
`UnitPreparation`: the same for coordinator and tasks. `LoggingTransport`: the
coordinator of each context, its listener thread and its workers go on; that
workers end is what the pool guarantees them. `FactEngine`, `IncludeExpansion`
and the analysis of `IntegerRanges` are sequential, so weak fairness of their
steps says only that the program runs; runs of the analysed program need none.
No strong fairness is used.

### Findings

`result_cache.py:324`: findings of headers on a hit. `docs/result-cache.md:74`
says that a second scan of an unchanged tree produces the same findings and
fingerprints. `rebind_cached_result` gives every finding the path of the scanned
file, also one that the first scan reported in an included header, and then
computes the fingerprints anew. The run `result_cache_moved` shows it, and
`HeaderFindingsMove` for all contents. What `WarmFindsTheSame` leaves out is just
that: where a finding of the header is shown.

`integer_ranges.py:323`: an unsigned variable compared with a negative constant.
`docs/benchmarks/cgull-049-branch-feasibility-391.md:22` says that comparisons
which C makes unsigned are not folded as mathematical integers; `_comparison`
declines a signed variable against an unsigned bound (line 318) and not the
reverse. For `if (u == -1)` the edge is left out as infeasible and the branch
is never analysed, although C takes it when `u` is the largest unsigned value.
The run `integer_ranges_unsigned` shows it; the other families of inputs leave
that comparison out.

### Observations without a run

What was met while modelling and is stated here because no run is spent on it.
In each case the property beside it says explicitly what it leaves out.

Scans:

- `parallel_workers.py:355`: a worker that dies before the last submission makes
  `pool.submit` raise out of the comprehension, and the whole call fails; after
  it, the same crash gives failed rows.
- `engine.py:1344`: an edit of a header between its expansion and the reading of
  its suppression comments gives a result that fits neither version, which is
  stored under the key of the first and found again when that version comes
  back. `EntryMatchesKey` allows it for the keys in `torn` and for these alone,
  and only of the suppression comments.
- `engine.py:313`, `860`: coarse rows with equal keys are paired with precise
  sites in completion order, and a second finalisation pairs a row the first
  had kept as excess; so what a parallel scan reports, and the number of rows,
  can differ from run to run, and a baseline of the same tree can show a row as
  new. Comments at `engine.py:159`, `304` and `880` say otherwise.
- `engine.py:331-383`, `1664`: on such crowded lines (`Crowded`: coarse findings
  in excess of the sites, or one whose site keeps another message) findings that
  are the same under every profile are reported as conditional, a second profile
  that finds the same adds a row, and coarse rows with different messages are
  aligned into one. A finding that is precise under one profile and coarse under
  another is labelled with both and not as unconditional.
- `includes.py:712`: a guarded header met at the maximal depth counts as seen
  although it is not expanded; a later include of it is blanked and its text is
  nowhere in the unit (`TooDeep`).
- `logging_config.py`: an interrupt between the steps of the set-up leaves the
  manager to the garbage collector (`cut`).
- `baseline.py:40`: a report that repeats a base fingerprint matches only the
  first of the derived fingerprints a scan now gives. `fixes.py:105`: an edit
  between reading and writing is lost, and a line with the same text that moved
  to the finding's number is changed.

Analyses, found with TLC and left out by a named condition:

- `integer_ranges.py`: values are not reduced to the type of their variable on
  assignment and `++` (runs stop there); nested writes (`y = x++`,
  `while (x++ < 3)`) keep stale facts; which edge is true is read off the order
  of successors, which is inverted for an `if` with an empty yes-branch and an
  `else` as the last statement.
- `ownership.py` (`_path_sets`) and `summaries.py`: a function that begins with
  the condition of a loop loses the loop's effects, as its entry is taken to
  have no predecessors (`NoLoopAtEntry`), against `ownership.py:40`; a `switch`
  without default as the last statement is no exit (`NoOpenSwitch`); an effect
  through one of several possible aliases is definite (`OneLocation`); stores
  are attributed by name (`ParamsAreFixed`).
- `domains.py:10`: meeting takes UNKNOWN for no information, so that
  `if (c) *p = 1; return 1;` claims that a true result proves `p`
  (`model.py:77`), and `if (c && p) ... *p` is not an unchecked dereference
  (`model.py:67`; `NoDoubtIsLost`).
- `security_dataflow.py:817`: `if (valid(x) || valid(y))` marks both as validated
  on the true edge, against `rules/trust_boundary.py:31`; `if (valid(x)) ;` and
  an `if` with an empty yes-branch count the wrong edge as true
  (`ConditionsAreSimple`).
- `value_interprocedural.py:136`: a recursive component out of rounds has its
  own parameters degraded, but its callees outside keep what half-settled rounds
  passed to them, against the diagnostic's "affected parameter facts were
  degraded" (`Doubtful`). `value_facts.py:429` does not see that a returned
  parameter was assigned to (`ReturnedParamsAreKept`).
- `legacy_dataflow.py`: a realloc whose failure edge restores the earlier states
  forgets a free that happened in between; facts kept at `graph.py:87` on
  coalesced edges when there are no summaries; nothing is degraded behind a goto
  whose label was not parsed in the security and value analyses (`Uncertain`).

By reading only: a function that is not static but has a caller in the unit, or
that only calls itself, gets the facts of those callers alone
(`value_interprocedural.py:87`; the docstring at line 61 says external entries
remain unknown); value facts of globals go stale across calls; compound
assignments count as plain ones in the value and security analyses, so
`x += 1` is TRUSTED; `valid(x) == 0` succeeds on "not that value" for two of the
models; `y = ident(recv())` is UNKNOWN, which joins with TRUSTED to TRUSTED in
`security_dataflow.py:35`; `return c ? "a" : 0` is summarised as a literal.

## 4. The proofs

Except for those about ranges and `HeaderFindingsMove`, the theorems are of the form `Spec => []P` (or
`[][A]_v`), for all values of the constants that satisfy the named assumptions.

- `ScanPool_proofs`: `TypeCorrect`, `EveryFileReportedOnce`,
  `NothingIsLeftBehind`, `PoolKeepsPromise`. `TypeInv` adds to `TypeOK` that a busy worker has a
  file and that the submission loop has one left. `OneRowPerFile` is not
  inductive: that a row is not added twice follows from `as_completed` yielding
  a future once, so `RowInv` says that rows have been yielded, and, in the
  phases of the normal path, that what was yielded has a row. `NothingLeftBehind`
  is about workers the coordinator never looks at; `PoolInv` ties them to the
  manager thread, which reaps them before it stops. `PoolKeepsPromise` is the
  refinement of `ScanMap`. `FutureInv` says where the outcome of a future, and of
  a message on its way to one, comes from: the scan of the file, an interrupt, or
  a worker that is dead and stays dead. A step that yields a future is then a
  `Deliver` of the file's own row or of a failed one after a loss; a dying worker
  is `LoseWorker`; every other step leaves rows, call and loss alone.
- `UnitPreparation_proofs`: `TypeCorrect`, `AtMostOneTaskPerWorker`,
  `ParallelIsSequential`, `UnusableUnitsAreDiagnosed`. `SeqInv` says what is
  known of a source from its task: a taken one has its final units, another has
  those the earlier phase left, and one the generator passed without a task
  needed none. `AtMostOneTaskPerWorker` needs the cardinality of finite sets
  and nothing else.
- `FactEngine_proofs`, first about `FixedPoint`: `TypeCorrect`,
  `FinishedFactsAreStable`, `UndegradedFactsAreLeast`, `BudgetIsEnough`, over any
  lattice, monotone transfer function, call graph and budget. The invariant: a
  finished function's callees are finished, the current component calls only
  itself and finished functions, and each update of the round was computed from
  the current facts. Stability of the finished part then survives because
  nothing it reads changes any more; the second carries "below every solution"
  through each update. `BudgetIsEnough` assumes a rank of the lattice's elements,
  at most `height`, that grows strictly along its order: `Climbed` adds up the
  ranks of a component's facts, every round before the last has raised the sum,
  and the sum is at most size times height.
- `FactEngine_proofs`, then about the order: `ComponentsAreFound`,
  `OrderIsComplete`, `EngineImplementsAnyOrder`, `EngineIsThorough`, for every
  finite call graph, and from the refinement `EngineFactsAreStable`,
  `EngineFactsAreLeast` and `EngineBudgetIsEnough`. `SearchInv` ties the stack of
  the first pass to paths of the graph and shows that when the last function of a
  component is left, everything it reaches has been left (`LastOfComponent`).
  `CollectInv` says that the second pass, which runs against the calls from the
  last one left, then collects whole components; `OrderInv` that a component's
  count is the number of components it calls that are not listed yet, and that the
  heap holds the unlisted ones whose count is zero, so that what it gives comes
  after all it calls; `TakenInv` that what the rounds have finished is a prefix of
  the list. The heap does not run empty early because among the components not
  listed there is one that reaches no more than any other (`LeastReachExists`).
- `ProjectSummaries_proofs`: `TypeCorrect`, `PublishedIsConsistent`,
  `NothingPartialRemains`, `SessionsAreFresh`, for any analysis. The invariant
  is the conjunction of the three properties with the same two facts about
  components and rounds, and "a unit not yet started publishes nothing",
  without which starting a component could change what a finished one imports.
- `LoggingTransport_proofs`: `TransportTypes`, `EnvironmentIsRestored`,
  `NothingIsLeftRunning`, `AllRecordsArrive`, for any finite set of contexts and
  any number of records and faults. `MarkerIsCounted` says that the counter is
  the cardinality of the open contexts and where the saved value is, from which
  `MarkerFollowsScans` follows. The other two are about each activation alone:
  `Hosted` ties its manager and listener to its phase, `Accounted` says that what
  is owed is delivered or on the queue before the sentinel; a step of one
  activation changes nothing of another (`StepsApart`).
- `ResultCache_proofs`: `UsableEntriesSurvive`, an action property that rests on
  `Whole` (only complete temporary files are renamed); `EntriesMatchTheirKeys`
  and `CachedResultsAreCold`, with findings in both texts and any edits, from
  `Right`. It adds to the entries what each process is about to store and has
  reused, and that until a scan is analysed the header is as it was expanded or
  the scan's key is torn, without which an edit in between breaks the invariant;
  `HeaderFindingsMove`, the finding above.
- `IncludeExpansion_proofs`: `GuardedExactlyOnce`, `IncludesAreActive` and
  `UnitsRepeat`, for any files, include graph, limits and list of units. At most once: `StackInv` says
  that the lines of a protected file are in one frame only, in its own while the
  file is open, in order of their numbers and before the next line; `CacheInv`
  that a cached header has lines of its own file alone. Not lost: `MarkInv` says
  that what is marked as seen, file or symbol, is on the stack, in lines already
  written, or was met at the maximal depth, and that of the files that share a
  symbol only one is; it needs that a cached protected header is not empty, which
  holds because the line that protects it is written. `IncludesAreActive` relates
  the stack of conditions of a file to the text before its next line: `CondsIn`
  says that there is one for each group open there, the outermost first, with
  `done` when a part so far holds and `taken` when the current one is the first.
  What a line does to the open groups and their parts is computed once
  (`OpenStep`, `PartsStep`, `FirstStep`), from the way a count over an interval
  grows (`CountStep`), without induction over the text. `UnitsRepeat` compares
  two expansions of a unit, of which the second finds headers in the cache. Both
  are compared with a third, of an expander that has no cache and is therefore a
  function, `Step`, of its stack, marks and budget. What it passes through from a
  start is the least set that contains it and is closed under `Step`, and there
  is at most one state in it in which a unit ends (`OneEnd`). `RepeatInv` says
  that the unit in hand is in the set of its start (`RunsOn`), that every finished
  one has the output of the end of its set (`OutsInv`), and that a cached header
  is what its lines alone come to when the only include passed in it is of the
  header itself, which is blanked (`LeavesInv`, `WholeLeavesInv`). Such a leaf expands in the same
  way under any stack (`LeafStepLifts`, `LeafFollows`), which makes the step that
  takes it from the cache equal to many of `Step` (`ReuseFollows`).
- `Algorithms_proofs`, first about ranges: `WideningSpendsBounds` (joining and widening leaves a range
  alone or gives a bound up for good, which is why the worklist runs dry),
  `ClampCoversConversion` (a range that crosses a call or an assignment covers
  the converted value), `ArithmeticCovers` (so do sums, differences and
  negations), and, of conditions, `FoldedComparisonsAreRight` (a comparison of
  constants is folded to what C makes of it in the common type, or not at all)
  and `LiveEdgesAreKept`: the bound that a comparison with a constant gives on
  a branch is exactly the set of values with that outcome (`BoundsAreExact`),
  so a branch that can be taken is not found infeasible, as long as the common
  type represents both sides. That this hypothesis is needed is
  `UnsignedEqualsMinusOneIsLost`, the disagreement of section 3 at every width.
  All of them are for types of every width. What `IntegerRanges` does with these
  operators on expressions and programs is recursive and is only model-checked.
- `Algorithms_proofs`, then about finalisation: `EverySiteIsKept`,
  `EveryLabelIsRight` and `RepeatsAreMerged`, for any number of files, profiles,
  columns, messages and findings. The invariant of the first two, `CollectedOK`, is short: the candidates collected so
  far list (`Lists`: each once) a set of rows that stand for disjoint findings,
  at their columns and naming their files (`Good`), with right labels
  (`LabelOK`), and that cover what the files that did not fail found. The work is
  in `FinalisedKeeps`, that finalising such a list gives one that covers the
  same, with one row for each precise column; it is used three times, for the
  profiles of a file, the file and the scan. It rests on what each operator does
  to a list: sorting and selecting permute (`InOrderLists`, from a count of what
  is below each element), pairing keeps clusters apart and loses no coarse row
  (`PairInv`, one message after the other), alignment puts every left-over row
  in one cluster (`AlignedClusters`), and the row that stands for a cluster has
  the column of its precise rows because those sort first (`MergedIsHonest`).
  `RepeatsAreMerged` (`RepeatsAddNothing`) adds that the candidates are exactly
  the rows of the files, each counted (`RowsCollected`), and has two halves.
  Among files, the report has one row for each precise column and at most as many
  others as one file has coarse rows (`FinalisedBound`); that a file which finds
  the same has as many is shown by running the whole finalisation on both, where
  every step takes rows that differ only in their file to rows that do
  (`Moved`, from `SortedMoves` to `FileRowsMove`). Among profiles of a file, where
  lines are not crowded, either no message is that of a coarse and of a precise
  row, and then the coarse rows of all profiles are aligned (`UnpairedRepeats`);
  or under one profile each coarse row has a site with its message only, and then
  over all profiles as many sites of a message are free as coarse rows of it are
  left (`PairedRepeats`): the rows left over are in order (`RestInLine`) and a
  later profile leaves over what an earlier one does (`LaterLeavesMore`), so that
  each stands for a different finding of the last one (`CoarseIsOfLast`,
  `CoarseIsBounded`).
  Where an argument goes along the numbers up to some n (the messages, the places
  of a list) it takes the least element of a set of them (`LeastNat`), as the
  library's induction rule cannot be used.

The assumptions are those a caller of the code meets: the contract of
`FiniteLattice` on `Join` and `Transfer`, positive limits and worker counts,
finitely many functions, numbered in the order of their names
(`FuncsAssumption`), files that are sequences of lines (`BodiesAssumption`,
`ScansAssumption`), finitely many profiles and findings (`InputsAssumption`), one
file at most that is the header itself (`FilesAssumption`: a path is scanned
once, `engine.py:579,592`), and of `IncludeExpansion`'s initial states that what
protects a file is a line of it other than an include.

Only model-checked: liveness, which the prover cannot do under fairness
(`CallEnds`, `ContextsClose`, `AnalysisEnds`, and of `FactsInTime` that the engine
gets to every function; its other half is `EngineBudgetIsEnough`); and everything
about programs and conditions beyond `Ranges` (`ControlFlow` to
`SecurityDataflow`, `ValueFacts`, `IntegerRanges`, `DecisionDiagrams`,
`ConditionalBranches`), whose definitions are recursive over syntax.

## 5. What is not modelled

The front end, most rules and the reports are pure functions of one unit about
C and text; in the models a unit parses or does not, and a rule finds something
or raises. Configuration, ignore files, compilation databases, semantic model
tables and argument parsing give values that are inputs here. Hashes appear as
what makes two keys differ. They are most of the source by size: the modelled
lines are about an eighth of it, and the part that has state, order or
iteration.

Within modelled components, left out are:

- scans: the sequential fallback of the pool and the check that a configuration
  can be pickled; binding of symbols to units (`project_analysis.py:339-394`),
  which gives the import graph; the search path of includes and the `#define`s
  that decide conditionals; fingerprints and lines other than one in
  finalisation; set-up of log handlers, capture of payloads, the pruning of old
  captures and its race (`logging_config.py:343`); `baseline.py` and `fixes.py`;
- preprocessor: parsing of conditions, include context, simplification of a
  condition under what encloses it, generation of profiles;
- graphs: Duff's device, ternaries inside `&&`, edge roles, the event cache;
- analyses of a function: realloc to size 0, members and elements as variables
  of their own, several validation properties, sources that write to several
  arguments, aliased parameters, resolution of indirect calls, how security
  summaries of callees are computed, ownership through calls in rounds;
- ranges and values: multiplication, shifts, ternaries, plain char, globals and
  evidence (which counts as a change in `ValueFacts` and is otherwise left out);
- pointer ranges, sizes and affine relations (`pointer_ranges.py`,
  `size_facts.py`, `affine_relations.py`) and the rules built on them.

## 6. Plan

Done: all modules above. What is worth doing next, most important first:

1. Proofs: that the unique table of `DecisionDiagrams` gives equal functions
   equal nodes, for which its recursive definitions of meaning have to be
   separated from the manager.
2. `LinkResolution`: bindings between units, composed with `ProjectSummaries` so
   that its import graph is computed and not chosen.
3. `PointerRanges`: offsets against the sizes of objects, on `IntegerRanges`.
4. `CaptureRetention`, `Baseline` and `SafeFixes`: small and provable
   (concurrent pruning; multiset subtraction; lines changed only where they
   match).
5. Larger families: three pointers, two loops, switches in loops in
   `IntegerRanges`.
