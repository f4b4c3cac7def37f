# recalc-engine: a TLA+ development

This directory specifies recalc-engine, a spreadsheet recalculation engine in
Rust: how it tracks which formulas depend on which cells, in which order it
recalculates them, how dynamic arrays that spill over their neighbours are kept
consistent with that order, how formulas are read and evaluated, and what the
programs around the engine (the workbook reader, `recalc verify`, the tools that
explain refusals) promise of its results. The modules are translated from the
source, checked with TLC on small instances and, where the argument is about
states and steps, proved with TLAPS for every instance. `PROJECT.json` maps
every definition to the lines it stands for.

The engine's stated principle is *never silently wrong*: a cell shows what its
formula evaluates to, or an error with a diagnostic. Most properties here are
facets of that principle.

## The system

| part (crate) | state | operations | modules |
|---|---|---|---|
| dependency graph (`xl-graph`, `DepGraph`) | nodes with their precedents, reverse edges, a range index per sheet, volatile and dynamic flags, the dirty set | `set_deps`, `remove_node`, `register_volatile`, `set_dynamic_deps`, `mark_dirty`, `mark_volatile_dirty`, `mark_all_dirty`, `clear_dirty`, `propagate`, `recalc_plan`, `take_recalc_plan`, `full_plan` | `DepGraph`, `DirtySpec`, `DepGraph_proofs` |
| range index (`xl-graph`, `SheetRanges`) | a lazily sorted array of entries and its flag | `insert`, `remove_dependent`, `query` | `RangeIndex`, `RangeIndexSpec`, `IndexedGraph`, `DepGraph_proofs` |
| components (`xl-graph`, `scc.rs`) | the search's two stacks, low-links, output | `tarjan` | `Tarjan`, `SccSpec`, `Tarjan_proofs` |
| plans (`xl-graph`, `schedule.rs`) | in-degrees, ready heap, steps, waves | `build_full_plan`, the filter of `recalc_plan`, `plan_waves` | `Schedule`, `RecalcOrder`, `Schedule_proofs` |
| driver (`xl-engine`) | the graph, the scratch sets of the spill loop | `load`, `edit`, `recalc`, `drive_recalc` | `RecalcDriver`, `DepGraph_proofs` |
| values and spilling (`xl-engine`) | programs, values, regions, owners, diagnostics, refusals | `run_cell`, `write_cell_result`, `spill_anchor`, `retract_spill`, `run_cycle_member`, `refuse_spill_nonconvergence` | `SpillEngine`, `SpillEngine_proofs` |
| parallel recalculation (`xl-engine`, feature `parallel`) | staged results of a wave | `parallel_unsafe`, `try_recalc_parallel`, `execute_parallel` | `ParallelRecalc`, `ParallelRecalc_proofs` |
| evaluator (`xl-engine`: `eval`, `lambda`, `refx`, `analyze`) | none between calls; a cell's cached value and its recorded precedents | `eval`, `eval_array`, `apply_lambda`, the reference functions, `collect_precedents` | `Evaluate`, `CallArgs` |
| formula language (`xl-ast`), shared formulas (`xl-engine`) | none | lexing, parsing, rendering, translation of a shared formula | `Formula` |
| functions (`xl-fn`) and values (`xl-value`) | none | one loop per function over its arguments | `Lookup`, `Lookup_proofs`, `Conditional`, `Arrays`, `Aggregates`, `Dates` |
| workbook reader (`xl-io`) | counters against its caps, the sheets and names loaded so far | `open`, `read_part`, `Engine::load`, name resolution | `WorkbookLoad`, `WorkbookLoad_proofs` |
| `recalc verify` (`xl-bench`) | what each opening of the candidate found; the report file | `run_v1`, `evaluate_workbook`, `decide`, `write_atomic` | `Verify`, `ReportFile`, `Verify_proofs` |
| attribution of refusals (`xl-bench`) | none | `decline.rs`, `l2site.rs`, `shared_residual.rs` | `Decline` |
| command line, facade, bindings (`recalc-cli`, `recalc-engine`, `xl-ffi`) | none of their own but a lock | wrappers | not modelled |

How they interact: `Engine` owns a `DepGraph` and calls it synchronously. An
edit rewires one node, marks it, marks the volatile cells, takes an
incremental plan, and executes it. A plan is the full order (Kahn's algorithm
over Tarjan's components) filtered by the dirty set. Executing a step evaluates
a formula, which calls the functions through their views of the arguments, and
may write cells the graph knows nothing of, when an array spills; those cells
are collected in `spill_redirty`, marked dirty after the pass, and a new plan is
taken, until nothing changes or `SPILL_FIXPOINT_CAP` passes have gone by, when
the anchors that still change are refused. There are no threads outside the
`parallel` feature, where a wave's cells are evaluated by many threads and
written by one; what is hard otherwise is a long protocol between two pieces of
state (the graph and the value store), each derived from the other. Around the
engine, `recalc verify` opens the candidate file once for each use it has for
it, so another program may write to it in between, and hands its report to a
file system that may fail at each call.

### What is hard, and what makes each part correct

* **Graph.** Three redundant representations of the edges are torn down and
  rebuilt on each edit; a marking stops at cells that are dirty already. It is
  correct when the representations agree and no mark is lost.
* **Range index.** A flag says whether the array may be searched by bisection.
  It is correct when a query answers with exactly the covering ranges.
* **Components, plans, waves.** An explicit-stack Tarjan and a counting Kahn
  must order every graph, circular ones included, in one way that depends on
  the graph alone, since arrays race for cells in plan order.
* **Driver.** Cells are marked, rewired, flagged and planned in a fixed order;
  scratch state survives from `edit` into `drive_recalc`. It is correct when no
  formula is out of date between calls and every call returns.
* **Spilling.** Arrays contend for cells with literals, formulas and each other,
  grow, shrink, oscillate, run off the sheet, and fall into circular
  references. It is correct when the user's cells are never written, no spilled
  value outlives its array, and every formula is right or loudly refused.
* **Evaluation.** Precedents are recorded from the text and not from what an
  evaluation read; array context is a flag passed down nested calls; a closure
  outlives its scope. It is correct when whatever an evaluation read is
  recorded, or the formula is volatile.
* **Language.** Ten levels of operators, three uses of a space and two of a
  comma meet in one loop. It is correct when each text has the one tree of the
  precedence table, and that tree is displayed as text that reads back.
* **Functions.** Each has a loop of its own over one of two walks: dense, or
  over stored cells only. They are correct when the walk cannot be told from
  the result, and functions that overlap agree.
* **Reader.** A package may misstate its sizes, lack parts, and hold sheets that
  are skipped, which moves every index. It is correct when nothing grows past a
  cap and a name means the sheet it was written for.
* **Verify.** Counts are taken over different maps, in several openings of one
  file, under a policy of twelve settings. It is correct when a pass means what
  the contract says and the report file is whole.

The hazards, each at its line and with the properties that cover it, are in
`PROJECT.json`.

## Modules

An operator named `X_Y` under a comment `Fault:` is a deliberately wrong variant
of `X`, used to confirm that a property notices the fault; no specification uses
it. The modules named `_proofs` hold theorems only.

### DepGraph and DirtySpec

One action per public operation. `propagate` is a worklist loop, so
`MarkDirty` only seeds `stack` and each `PropagateStep` pops one cell; no other
operation starts before the worklist is empty (`&mut self`). A range is a name
for the cells it covers. Maps from which the code prunes empty sets are total
functions. `SetDeps` detaches by the *stored* precedents, sheet by sheet, as
`detach_precedents` does. Two history variables, `edited` and `rewired`, say
what was marked since the last plan and what was rewired after a mark.
`DirtySpec` is what `mark_dirty` documents: a mark reaches all transitive
dependents at once, and a plan holds the dirty formulas. No worklist, reverse
edge or index.

### RangeIndex, RangeIndexSpec, IndexedGraph

The array, the flag, replacement of a formula's entries, and the query that
sorts if the flag is clear. The binary search is modelled by what it may return
on *any* array, so that a search of an unsorted one goes wrong as it would in
the code. `IndexedGraph` runs it under the graph's operations for one sheet; the
abstract index is the graph's range edges, and the refinement says that each
query is answered exactly.

### Tarjan and SccSpec

One action per iteration of the search's loop: discover, advance the cursor,
retreat (emitting a component when the low-link is the index). It refines a
specification that emits the components one by one, each after those it leads
to, and every one in the end.

### RecalcOrder and Schedule

`RecalcOrder` defines the canonical order as a recursive function of the graph,
from its strongly connected components.
`Schedule` composes the search with Kahn's loop, its in-degrees and heap, then
`recalc_plan`'s filter by a dirty set, then `plan_waves`.

### RecalcDriver

The graph calls of `load`, `edit`, `recalc` and `drive_recalc`, in order, with
a program counter; between two of them any other step of the same call is
impossible, as in the code. Evaluation is left open: a pass refreshes what it
planned and may change any cells outside the formulas' slots. `stale` is the
history variable that says which formulas may not match what they read. Because
evaluation is open, what holds here holds for every formula language. It
refines `DirtySpec`, with the cells a running `propagate` has yet to reach
counted as dirty.

### SpillEngine

The value store. The engine's fields are one record; `Commit`, `Retract`,
`SpillInto` and `RefuseWith` are functions from record to record, one per
function of the code, and every plan step is an action. A formula's operation
is one of ten (`Op`) that make an array's size or content depend on other cells
or on another region (`A1#`); they stand for the evaluator. Plans and dirtiness
are functions of the programs, as `Schedule` and `RecalcDriver` justify.
An edit before the first `recalc` is left out: until then values are the caches
of the file and nothing is claimed of them. `Reload` is external: a program
that saves and loads the edited workbook.

### ParallelRecalc

The waves of a full recalculation over the same engine record and the same
`ApplyResult` as the serial executor. Every cell of a wave is evaluated by an
action of its own, in any order; results are committed one by one, so every
state between two commits is checked; a wave with a circular group is one
action, since nothing runs beside it. `Unlisted` names the array operations
that the list `ARRAY_RETURNING_FNS` would miss: with it empty the fallback
could never be taken. The history variable `start` keeps the engine the waves
began from, to compare them with a serial pass. The counters of evaluations and
the list of recalculated cells, which `try_recalc_parallel` restores, are left
out, as they are in `SpillEngine`.

### Evaluate and CallArgs

One formula in one cell; the typed cells and a spilled region change around it,
and its cached value is recomputed when a *recorded* precedent changes or it is
volatile. `Eval` follows the two recursive functions of `eval.rs` (`eval` and
`eval_array`, told apart by a flag in the environment) over every kind of
expression, with LET, LAMBDA and the functions that
apply one, OFFSET, INDIRECT and `A1#`; `Precedents` and `ContainsVolatile` follow
`analyze.rs`. IF, SUM, NOT and ISBLANK stand for the registry. `CallArgs` adds
the views by which a function reads one argument (its shape, its size, the dense
walk, the stored walk, the column walk), and what the helpers of `args.rs` choose
among them.

### Formula

A text is a sequence of symbols (words, literals, marks, runs of white space):
scanning one of them is left out, what depends on the neighbours (sheet
prefixes, calls glued to their name, the space operator) is the lexer's work
here as it is there. The parser is the operator-precedence loop with its depth
limit; `Display` is the canonical text; `Translate` is the shared-formula copy,
with its wrap past one edge of the grid and its loss at the other.

### Lookup, Conditional, Arrays, Aggregates, Dates

Pure functions over two parallel lines of cells, which any edit may change, with
the two walks the engine offers over them. `Lookup` has the searches,
`Conditional` the functions with several criteria and the database sums,
`Arrays` those that reshape, filter, sort and search arrays, `Aggregates` twenty
loops and SUBTOTAL, which calls seven of them, and `Dates` the calendar and the
functions on it. Numbers are integers; a text stands for its spellings up to
case. A text is a number, no number, or one whose reading as a number the code
refuses (`Readings`), which COUNT must not take for a word.

### WorkbookLoad

Opening a package: the part count, then each part opened, read chunk by chunk
against the caps and parsed, in the order of `build_workbook`; sheets skipped by
a missing relationship id or a type that is no worksheet; then `Engine::load`
and the resolution of names and qualified references. A part says how large it
is, is as large as it is, and need not agree with itself. The archive may fail at
any of its reads: when its directory is read, when a part is opened, and at every
chunk (`ArchiveFails`).

### Verify and ReportFile

`Verify` is one run of `recalc verify` from its arguments to its exit code. The
candidate goes through any number of versions; each of the several openings sees
the one of its moment, and `seen` keeps what each found. `run_v1` reads the policy
to refuse one that does not parse, and `run_verify_internal` reads it again to
apply it: the model's policy is the one read last, and that read may fail
(`ReadBytes`). `ReportFile` is
`write_atomic` call by call, for several runs with one report path, where any
call may fail, a process may be killed and the machine may lose power.

### Decline

The tools that name one cause and one place for every refused cell, next to
what the engine did: both read the same book of sums of calls, references and
ranges, with shared groups whose formulas each rebuilds with code of its own.
`MCBench` composes it with `ReportFile` in one run.

## Runs

| run | instance | properties | shows |
|---|---|---|---|
| `graph_free` | 3 cells on 2 sheets, 4 ranges (one degenerate, one across sheets, one none), 2 formulas a cell, the index of one sheet | `EdgesMirror`, `DirtyClosed`, `EditsReachReaders`, `AnswersExactly` | any sequence of graph calls keeps the indexes exact and loses no mark; the sorted array answers as the edges do |
| `schedule` | all digraphs of 4 formulas, without and with a self-reference and input cells; every closed dirty set (198,584 states) | `EmitsComponents`, `PlanRespectsEdges`, `PlanIsComplete`, `PlanIsCanonical` | exactly the components come out, successors first; plans are complete, ordered, canonical; incremental plans are exact; waves are independent |
| `recalc_driver` | 3 cells, a range, one cell that may be volatile or spill, cap 1 | `NothingStale`, `RewiredAreMarked`, `NeverDropsPending`, `CallsReturn`, `DirtinessSpec` | nothing is stale between calls, all calls return, the graph's documentation is implemented |
| `spill_engine` | 2x3 sheet, cap 1, two workbooks (two racing arrays that feed each other's size; a chain of arrays longer than the cap), 10 formulas and 5 literals to enter (104,371 states) | `OwnershipExact`, `LiteralsSafe`, `FreshOrRefused`, `CallsReturn` | the user's cells are safe, ownership is exact, every formula fresh or refused, none refused for its size that would fit, calls return |
| `parallel_recalc` | 2x3 sheet, two workbooks, one array operation missing from the list, 7 formulas, 3 literals (7,279 states) | `ParallelIsSerial` | staged results stay current, the waves compute what a serial pass does, the fallback too |
| `bench` | 3 runs, 2 process ids; books of six cells on two sheets (20,380 states) | `NeverPartial`, `ExitCodeTellsReport`, `RefusalsAreExplained`, `ToolsReconcile` | a whole report or none, and an exit code that tells which; the causes named are causes, and the tools count alike |
| `verify` | two formula cells, some thirty policies, three sources of evidence, assertions, flags, a candidate that changes (234,430 states) | `DecisionIsSound`, `ReportExplains` | the decision is the contract's, the report explains it, exit code and report agree |
| `workbook_load` | caps of 5 parts, 3 bytes a part, 6 in all, ratio 2; sizes at, below and past each, sheets skipped, missing, out of order, names scoped to them (207,173 states) | `CapsBound`, `NamesKeepSheets` | nothing grows past a cap whatever the package claims; names keep their sheets |
| `evaluate` | 4x5 sheet, three typed cells, a region of one or two cells, some 400 formulas, six positions | `ReadsArePrecedents`, `ScopeIsLexical`, `ArraysAreCellwise`, `ViewsAgree`, `WalksArePositionFree` | cached values are current, scopes lexical, array context cell-wise, the views of an argument agree wherever the formula stands |
| `formula` | nine alphabets, texts of up to six symbols, nesting limit 4, a 3x3 grid | `ParseIsTheTree`, `DisplayReadsBack`, `CopiesCompose` | one tree or a reason, text that reads back, copies that compose |
| `lookup` | two lines of five cells with gaps, errors, mixed types; arrays of up to 8 elements | `WholeLineAgrees`, `ApproximateFindsFloor`, `TwinsAgree`, `ArraysCompose`, `AggregatesAgree`, `DaysAddUp` | walks cannot be told apart, a bisection is right or refuses, overlapping functions agree, the calendar is the one counted by hand |
| `lone_subtotal` | the same | `LoneSubtotalIsDropped` | a violation: see *Disagreements*, 1 |

**Bounds.** The graph's cells and ranges allow cycles of length 1 to 3, a
range its own reader lies in, and edges across sheets by name and by range;
formulas and flags are finite, so the state space is complete, with no cut. The
indexed sheet's rectangles start in, above and below every queried row. Four
nodes give every shape of two components with cross edges and a component of
three inside a chain. The driver's cap of 1 makes both sides of the cap, and a
second refusal in one call, reachable in a few passes; the code's 64 only delays
them. The spill sheet's 3 rows and 2 columns put the last row and column one step
from the anchors; with cap 1 an array read by one reader converges, and a chain
of two arrays and an oscillation do not. All the kinds of refusal (`Circular`,
`Blocked`, `OffSheet`, `Lambdas`, `Diverged`) occur. Two formula cells let one
be excused and the other not, which is what subtracting counts could confuse.
The reader's sizes lie on both sides of each cap, three entries of `<sheets>`
let a skipped one stand first, in the middle or last. The evaluator's sheet has
lines shorter and longer than a formula's arrays, and the position of the
formula inside and outside each. Six symbols are enough for two operators with
their operands and a bracket or a postfix; each pair of levels meets. The last
cell of a line is never filled, so that a whole line is longer than its data.

**Deadlock** is checked in all runs but `schedule` and `workbook_load`, whose
algorithms end. **Type invariants** are stated in each stateful module; those
with proofs are theorems, the others document the variables.

**Fairness.** Only weak fairness of the steps of a call already begun
(`propagate` in `DepGraph`, `EngineStep`, `Step`, the search's loop): these are
sequential loops in a `&mut self` function, which the scheduler of the operating
system cannot stop for ever. No fairness is assumed of the caller, of the file
system or of the editor of a workbook.

## Disagreements between the code and its documentation

Each is a definition beside the properties of its module, stating what the
document says; the first has a run. The others were checked apart, and TLC finds
each violated in the instance of its module's run (the first and the third of 9
with other lines: equal keys, and blanks between the values).

1. `LoneSubtotalIsDropped` (run `lone_subtotal`): the module comment of
   `func_subtotal.rs` says that a nested SUBTOTAL is dropped by the function
   SUBTOTAL delegates to; a lone cell that is one is reported as an omitted
   argument, which AVERAGE, COUNT, COUNTA, MIN and MAX evaluate and count.
2. `AlwaysClosed` (`xl-graph/src/lib.rs:268`): "The dirty set is always closed".
   Rewiring a formula after a mark so that it reads a dirty cell leaves it
   clean, and a later mark stops at the dirty cell. `DirtyClosed` states what
   holds. The engine is not affected: it always marks the cell it rewires
   (`RewiredAreMarked`).
3. `RecalcIsIdempotent` (`xl-engine/src/lib.rs:623`): "running it twice yields
   identical values". An array blocked by another array's region is not watched;
   when that region shrinks in a later pass, nothing the blocked array *reads*
   has changed, so it stays at `#SPILL!` until the next `recalc`.
4. `EditMatchesRebuild` (`lib.rs:789`): "edit≡rebuild identity". For the same
   reason, clearing the literal that blocks an array leaves it at `#SPILL!`,
   where loading the edited workbook anew spills it. In 3 and 4 the array
   carries its diagnostic, so `FreshOrRefused` holds.
5. `OmissionIsHarmless` (`xl-fn/src/registry.rs:1916`): an omission from
   `ARRAY_RETURNING_FNS` "costs parallelism, never correctness". The backstop
   guards waves without circular groups only (`lib.rs:1280`). None is known to
   be missing; `ParallelIsSerial` makes this one exception, and what holds in
   spite of it, and without it, is proved (*Proofs*, Waves).
6. `Verify`, against its contract and comments: a refused cell is labelled
   `matches_stored` whatever its cache holds (`MatchLabelsAreTrue`,
   `verify.rs:970`); a run may fail with no issue of severity error
   (`ErrorsDriveFail`, `:757`); a baseline run's decision depends on the
   candidate's cache (`BaselineIgnoresCache`, `:810`); a supplied result without
   a value counts as a difference (`GapIsUnavailable`, `:600`); a sheet called
   `baseline` is renamed in the records (`RecordsKeepSheets`, `:1128`); a
   candidate saved during the run is reported under the hash of the file before
   (`HashIdentifiesValues`, `:661`); a candidate that does not load leaves the
   older report in place (`DecisionIsReported`, `verify_cli.rs:158`).
7. `TotalNeverExceeded` (`xl-io/src/caps.rs:17`): the total is compared with a
   part's true size once the part is in memory (`package.rs:339`); what holds is
   `CapsBound`.
8. `HelperRecursionBounded` (`xl-ast/src/parser.rs:837`): a chain of operators is
   parsed by a loop, and its tree is as deep as the chain is long.
9. `CompactionIsInvisible`, `EmptyTableIsNotFound` (`func_vlookup.rs:46`, `:181`);
   `SortIsOrdered` (`dynarray.rs:133`): blanks equal 0 and the empty text, so the
   comparison is no total order; `SmallestIsMinimum` (`func_small.rs:13`).
10. Without a definition of their own: weekdays of the 1904 system disagree
    between WEEKDAY, NETWORKDAYS and WORKDAY (`func_weekday.rs:98`,
    `func_networkdays.rs:82`, `func_workday.rs:94`); the tools shift a shared
    reference past the grid's edge otherwise than the engine does
    (`decline.rs:445` and `shared.rs:329`); the comment at `eval.rs:56` lists
    functions that keep array context and leaves out LET and LAMBDA; the one at
    `args.rs:601` says that `A1#` is not detected as a reference, which
    `arg_ref_extent` does (`eval.rs:2092`).

## Proofs

Eight modules of theorems. The assumptions are the named ones on the constants:
they say of a sheet, a formula, a package or a policy what the code's own types
say, and TLC evaluates them on every run.

| module | theorem | states |
|---|---|---|
| `DepGraph_proofs` | `TypeCorrect`, `InvHolds` | the type invariant and the inductive invariant of `DepGraph` |
| | `IndexesMirrorEdges`, `DirtySetIsClosed`, `NoLostUpdate`, `OnlyFormulasAreDirty` | `EdgesMirror`, `DirtyClosed`, `EditsReachReaders`, `DirtyAreNodes` |
| | `IndexImplementsSpec` | `AnswersExactly` |
| | `IndexServesPropagate` | the array answers `propagate` as the graph's edges do |
| | `DriverInvHolds` | the inductive invariant of `RecalcDriver` |
| | `NothingIsStale`, `RewiredCellsAreMarked`, `PendingCellsAreKept` | `NothingStale`, `RewiredAreMarked`, `NeverDropsPending` |
| | `DriverImplementsDirtySpec` | `DirtinessSpec` |
| `Tarjan_proofs` | `SearchInvariant`, `SearchRefines`, `NothingLeftOut` | the search implements `SccSpec`'s steps and leaves nothing out |
| `Schedule_proofs` | `PlanInvHolds`, `PlansRespectEdges`, `PlansAreComplete` | `PlanRespectsEdges`, `PlanIsComplete` |
| | `PlansAreCanonical` | `PlanIsCanonical` |
| `SpillEngine_proofs` | `EngineInvariant`, `TypesKept`, `OwnershipIsExact`, `LiteralsAreSafe` | `TypeOK`, `OwnershipExact`, `LiteralsSafe` |
| | `FreshInvariant`, `FormulasAreRightOrRefused` | `FreshOrRefused` |
| `ParallelRecalc_proofs` | `ParallelInvariant`, `WaveTypesKept` | the inductive invariant of the waves, their type invariant |
| | `WavesAreSerial` | `ParallelIsSerial` |
| | `WavesKeepOwnership` | `OwnershipExact`, waves and all |
| | `WavesAreRightOrRefused`, `CompleteListIsSafe` | `FreshOrRefused`, waves and all, while no waves begin with an array they would not scan for; so whenever the list is complete |
| `Verify_proofs` | `RunInvariant`, `DecisionsAreSound`, `ReportsExplain` | `DecisionIsSound`, `ReportExplains` |
| | `ReportNeverPartial`, `ExitCodesTellReports` | `NeverPartial`, `ExitCodeTellsReport`, of `ReportFile` |
| `WorkbookLoad_proofs` | `LoadInvariant`, `CapsAlwaysBound`, `NamesKeepTheirSheets` | `CapsBound`, `NamesKeepSheets` |
| `Lookup_proofs` | `SearchesFindTheFloor`, `WholeLinesAgree` | `ApproximateFindsFloor`, `WholeLineAgrees` |

**The graph.** `DirtyClosed` and `EditsReachReaders` speak of the moments between
two calls and are not inductive. `Inv` strengthens them to every step of
`propagate`: a cell that is dirty or was marked either still waits on the
worklist or has all its readers dirty (`Settled`), up to formulas rewired since.
That step needs `Neighbours(x) = Readers(x)`, which is what `EdgesMirror` gives
together with `CoversAssumption` (a range covers cells of its own sheet only, so
looking in one sheet's index is enough), and `dirty \subseteq nodes`. The
argument holds for every order in which the worklist is popped. `NoLostUpdate`
then follows because `Downstream` is the *least* closed set: at an empty worklist
the dirty set is one of the closed sets, so it contains the least.

**The index.** `IndexInv`: the array holds exactly the range edges of its sheet,
and is in order whenever the flag says so. An insertion clears the flag and a
removal keeps the order of what is left, so the only fact needed about sorting is
that `Arranged` lists a set in `entry_order`. That order is shown strict and
total, and such an order numbers any finite set (`OrderNumbers`, by counting
what is below each element), which serves `Picked`, the entries at some places,
as well. In an array in order, *every* cut that `partition_point` may find has
the entries that start at or above the row before it and no others
(`ScanAnswers`). `IndexServesPropagate` adds `PlaceAssumption`, that a range
covers the cells within its corners.

**The driver.** Every step of the driver is a step of the graph or leaves edges
and marks alone, so the graph's invariant carries over. `NothingStale` needs
where each call stands (`PhaseInv`), that scratch sets hold nothing of an earlier
call (`PendingInv`), and that a stale formula is dirty, about to be marked, or in
the plan (`StaleInv`). The refinement maps `dirty` to `Waiting`, the dirty cells
and all that a worklist yet holds leads to; `WaitingKept` says that a turn of
`propagate` does not change that set, so it is a stutter.

**The search.** The proof never speaks of a path as a sequence. `ParentInv` says
that each node on the stack was discovered from its frame, so a component's root
reaches all of it; `LowInv` traces every low-link along edges, so all of it
reaches the root. Connectedness is by cuts: a set with no edge leaving it that
holds one end holds the other. When the root retreats with its low-link equal to
its index, what lies above it is connected, closed but for edges to what is
emitted, and so a component (`RootFacts`), which is the step of `SccSpec`.

**Plans.** `Schedule_proofs` instantiates `Tarjan_proofs` on the ordering edges.
`CondensationFacts`: the components are finite, disjoint, cover the formulas, and
are ranked by the order of their emission, so their graph has no cycle.
`OrderInv`: an in-degree counts the precedents not yet scheduled, and what is
ready waits for none. The loop cannot stop early: among what is left, the
component of the lowest rank would be ready. The filter is an increasing
embedding (`FilteredFacts`), and a closed dirty set takes a component whole or
not at all (`ClosedTakesWhole`), so an incremental plan is exact. Waves stay
below the number of their step, so that `Max` ranges over a bounded set.

**The canonical order.** `RecalcOrder` defines it by two recursive functions over
subsets, which `RecursionDefines` shows to exist. `LeadsTo` is the least
reflexive and transitive relation over the edges (`Through`, by induction on the
formulas a path may go by), so its components are those the search emits
(`ComponentsAreCanonical`). `CanonInv` says that what is scheduled, followed by
what the canonical order puts after it, is all of that order; a turn of Kahn's
loop moves one component over, because the components with in-degree zero are
those whose precedents are all scheduled (`ReadyIsFree`), and two with the same
least cell are one.

**Spilling.** `Sound(e)` says of one engine record that regions and owners are
inverse to each other (`Mapped`), that a cell that shows a value holds it by
right (`Accounted`), and that literals are as typed (`LiteralsKept`). Every write
*settles* some cells: soundness is kept, the cells that lost their owner shrink,
and the anchors in doubt grow only by formulas written. A pass over a circular
group and the refusal of several anchors are folds, whose values are reached by
induction on finite sets. What makes the invariant inductive is `Pending`: an
anchor that lost a cell to an edit is among the steps to come, because the edit
marks it first and the plan holds every dirty formula (`PlansAssumption`).
`Changing` says that after a first pass only formulas are in doubt, so that a
refusal never hits a literal. The grid arithmetic says that a footprint that fits
stays on the sheet.

`FreshOrRefused` rests on a second invariant, `Fresh`, kept beside the first:
while a call runs, every formula is right (`Right`: it shows its result, or an
array that leaves the sheet now shows that refusal, or it is refused for another
reason), is still to run in this pass, or lies downstream of a cell collected
for the next. Four facts make it inductive. A write leaves every other formula's
slot, region and diagnostics alone, and collects each cell it changes that is
not its own (`Wrote`); so a formula stays right unless it names a cell that was
collected, which puts it downstream. A result depends on the cells a formula
names and on their regions only (`SameReads`). The steps still to come hold all
the readers of their members (`Chained`, from the order of the plan and from the
dirty set being closed, `Followed`), so a formula that has run reads nothing
that is yet to be written, nor a region that an edit robbed. And cells are
collected together with an anchor that is still changing (`Announced`), so that
at the cap there is always an anchor to refuse ("Each bailout refuses ≥1 NEW
anchor", `lib.rs:951`): the return of `drive_recalc` that drops what is pending
because none was left is never taken. What `PlansAssumption` says of a plan,
that it is complete, that its steps are disjoint and in the order of their
reads, and that a closed set takes a step whole or not at all, is what
`Schedule_proofs` establishes (`PlansAreComplete`, `PlansRespectEdges`,
`CondensationFacts`, `ClosedTakesWhole`).

**Waves.** `ParallelIsSerial` compares the engine that the waves leave with one
they never had. The proof does not follow the serial pass beside the waves; it
shows that *both* end in the one engine on which a pass changes nothing. A step
of the plan that has run and spilled nothing is `Done`: to run it again changes
nothing. It stays so however many steps run that it does not read (`DoneKept`),
and that none of the steps to come is read by it is what the numbering of the
waves is for (`Waves`, `BucketsFacts`; `WaveOfFacts` goes by least
counterexample through the recursion of `plan_waves`). Hence when the waves are
over every step is `Done`, and a serial pass over what they left would change
nothing. On the other hand two engines that differ only in the slots of formulas
still to run are brought together by running them (`Alike`, `AlikeStep`,
`AlikeFold`), and while the waves run the engine is `Alike` the one they began
with (`UnderWay`). So a serial pass over what they left leaves the same engine
as one over what they began with. The first fact says that this is the engine as
it is; the second serves the fallback too, whose pass starts from a half-written
engine. That a staged result is current when its turn comes is `ApplyKeeps`: a
result depends on the cells a formula names (`SameReads`), and none of those is
in the same wave. An array that the gate misses in a wave with a circular group
spills unseen, and none of this holds: hence the hypothesis `Unscanned` in
`ParallelIsSerial` and `Backstopped` in `WavesAreRightOrRefused`. The spill maps
stay exact even then (`WavesKeepOwnership`), since every write settles its cells
(*Spilling*). `CompleteListIsSafe` discharges the hypothesis from the gate.

**Loading.** Reads are numbered (`Turn`, `Finished`). The total lies between the
least and the most that the finished reads can hold (`LeastSums`, `MostSums`; the
recursive function exists by a least-counterexample argument), `Blamed` ties a
refusal by a cap to a part that is over it, and `Ordered` says that the loaded
sheets are the worksheet entries passed so far, in order and with distinct
indices, from which scopes, names and references resolve to the sheets they
meant.

**Verify.** `Inv` says what each opening left in `seen`; on a candidate that does
not change all openings found one book (`JudgedIsSteady`). Then the policy is
asked about exactly the conditions that the book holds and the shortfall of
`require_comparison` (`TriggeredMeans`), because the outcomes partition the cells
and no subtraction of counts saturates; and an issue-free cell is a plain
agreeing one (`SilentCells`), so a run without issues passes.

**The report file.** The second part of `Verify_proofs` has no bound on the runs
or the process ids: a temporary file is named in at most one active run, a file
that is renamed is whole and flushed, and so is everything a power loss may
bring back.

**The searches.** `ApproximateFindsFloor` is about five functions over two
walks and two bisections. A bisection is a recursion over intervals: both halves
of an interval are smaller intervals, so the recursion defines a function
(`RecursionDefines`) and what it finds is shown by induction on the interval's
size (`SizeInduction`; both by the least counterexample, in a set of naturals).
On cells in order `Bisect` keeps the last hit in reach, and `Settle` a hit that
no later one exceeds, unless a probe touches a blank and refuses. A sparse walk
visits the stored cells in the order of their positions (`ListedFacts`,
`WalkFacts`), so the hits of the walk are the cells of the line below the key
(`WalkedHits`). The order of values, blanks, errors and texts the locale ranks
apart, is a total preorder in both directions (`OrderFacts`). The one assumption
beside the bounds is that the cells typed in and the keys are values.

`WholeLineAgrees` compares a sparse with a dense walk, which visit different
cells. Cells without a value read as blanks (`GapsAreBlank`), and beside a key a
blank differs or refuses (`BlankVerdict`): so a scan stops at the first of one
set of positions whichever walk it follows, or refuses (`ScanFinds`,
`ScansAgree`). Sums need no induction: what a walk keeps is one function along
the marked positions in their order (`KeptLists`), a set has one such list
(`OneOrder`), and where blanks add nothing both walks keep the same one, with
the same total and the same mean. COUNTIF of blanks keeps more in the dense
walk, but then the sparse one is refused unless it meets an error, and both meet
the same first error (`ErrorsAgree`).

Only model-checked, and why:

* liveness (`CallsReturn` over the graph and over the spill engine, the eventual emission of every
  component), which needs fairness and ENABLED;
* the properties of `Evaluate`, `CallArgs` and `Formula`: recursion over
  expressions and texts with RECURSIVE operators, which the provers cannot
  expand;
* `RefusalsAreExplained`, `ToolsReconcile`, `TwinsAgree`, `ArraysCompose`,
  `AggregatesAgree` and `DaysAddUp`: they compare two or more computations over
  data (a search of a graph, folds over arrays, loops that count years and
  days), so what each computes would need an induction of its own. They are
  exhausted over the inputs of the runs instead.

## Not modelled

Of the 83,600 lines of the crates some 33,000 are tests beside the code and
24,000 are comments. Of the rest, what is left out: some 75 pure functions of
the library (text, trigonometry, finance, statistics), which have no state and
mostly work on floating-point numbers or characters; number formatting; the
scanning of one token and of XML; R1C1 notation; the generator of the function
registry; HTML pages and corpus tallies; the command line and the bindings,
which wrap the engine and add an exclusive lock. 3-D references and structured
references are refused by the engine and appear as refusals. Volatile cells are
in `RecalcDriver` and `Evaluate` and not in `SpillEngine` or `ParallelRecalc`;
reads through `OFFSET` and `INDIRECT`, which no edge records, are in `Evaluate`,
where they make a formula volatile.

## Plan

1. *(done)* The graph, the index, the search, plans, the driver, spilling, the
   waves; the reader; `Verify` and its report file; attribution of refusals.
2. *(done)* The evaluator, the views of arguments, the language, and the
   functions that search, scan, reshape, aggregate and count days.
3. *(done)* Proofs of the graph, the index, the report file, the driver, the
   search, plans and their order, ownership and freshness, the waves, the reader,
   `Verify`, and the searches and sums of `Lookup`.
4. Functions that choose among their arguments (IFERROR, IFS, SWITCH, CHOOSE)
   with the property that a refusal is never laundered; text functions.
