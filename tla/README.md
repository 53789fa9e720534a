# Wakaru in TLA+

This directory holds TLA+ models of [wakaru](../src/README.md), a JavaScript decompiler written in
Rust, with the TLC configurations that check them on small instances and the TLAPS proofs of what
they say for every instance. File and line references are to `src/`; `unpack/` abbreviates
`crates/core/src/driver/unpack/`.

Contents: [the system](#1-the-system) · [what is modelled where](#2-modules) ·
[runs](#3-model-checking) · [proofs](#4-proofs) · [disagreements found](#5-disagreements-found) ·
[what is not modelled](#6-what-is-not-modelled) · [plan](#7-plan) · [how to run](#8-running)

## 1. The system

Wakaru reads JavaScript bundles. A detector recognises the bundle format and splits it into modules;
the modules of all inputs are merged into one job; three parallel phases separated by barriers
rewrite them; a last pass drops dead helper modules; the façade turns the result into output files
and reports. A browser playground drives the same engine through Web Workers.

| Component | State it keeps | Operations | Talks to |
|---|---|---|---|
| `wakaru::UnpackJob` (`crates/wakaru/src/unpack.rs`) | reports, retained inputs, first unmatched input | `push`, `push_with_unmatched`, `finish` | intake, merge, phases; converts their output |
| Detectors (`crates/core/src/unpacker/`) | none between calls | one per format; a split, a refusal, or nothing | hand modules, ids, absent ids, failures to the merge |
| Scope splitter (`crates/core/src/unpacker/scope_hoist.rs`) | a union-find, then a list of clusters | one analysis, one rendering with at most one retry | called by intake for a file no detector knows, and for single modules of a bundle |
| Intake and merge (`unpack/mod.rs`, `unpack/merge.rs`) | public paths, module list, rename tables, candidate tables | plan public paths, make names unique, follow siblings, link ids across inputs, keep and report the rest | before Phase 1; its rewrites run inside Phase 1a |
| Phases (`unpack/phases.rs`) | per-module ASTs with their `Globals`, facts, rename map, warnings | prepare (1a), facts (1b), decompile (2), assemble | `par_map_largest_first`, the plan, filename recovery, dead-module elimination |
| Scheduler (`unpack/schedule.rs`) | the queue of a Rayon `par_bridge`, the collected vector | `par_map_largest_first` | every phase runs in it |
| Interface plan (`crates/core/src/interface_plan.rs`) | written / kept providers, passthrough ends, helper owners | `build` at barrier 0, then read-only queries | reads require edges of all modules; `UnEsm` and Phase 2 read it |
| Filename recovery (`unpack/filename_recovery.rs`) | rename map | `build_rename_map`, `rewrite_import_sources` | barrier between Phase 1 and 2; each module of Phase 2 |
| Dead-module elimination (`unpack/dead_module.rs`) | two fixpoint sets | `collect_import_report`, `eliminate_dead_helper_modules` | the end of the phases |
| Playground (`playground/src/App.tsx`, `wasm/`, `producer/`) | the form, two chains of refs, timers and runs | edits, effects, timers, answers | two Web Workers |
| Rules, Vue recovery, formatter, CLI, containers | none across modules | AST rewrites, I/O | called by the above |

**Where it is hard.** The engine is parallel inside a phase and sequential between phases, so the
hazards are: a result that depends on how far another module has come; a prediction made before a
barrier and used after it; decisions taken under one file name and reported under another; graph
fixpoints over cyclic requires; a lookup by id that may meet none, one or several modules; and one
module of several failing. The playground is concurrent in the usual sense: timers, effects and
answers interleave with the user. Nothing is persisted and no message is lost, so there is no crash
recovery and no retry of delivered work to model. `PROJECT.json` lists each hazard at its line.

**What makes each component correct.**

* Scheduler: every item mapped once, larger items first, output independent of the schedule.
* Phases: results independent of the interleaving; formats agree with the facts other modules read,
  and a provider that is written to stays CommonJS; failures are reported under the emitted name.
* Plan: the sets `build` computes by worklists are exactly those its comments define, on any graph.
* Job and names: no two outputs under one name, over all inputs; references resolve after every
  renaming; each module is reported under the input it came from, and each input is accounted for, by the
  modules elimination left of it.
* Scope splitter: clusters stay a partition through every move; a binding stays with what assigns
  it; the modules import each other without a cycle; every effect runs.
* Elimination: no surviving reference to a dropped module, but for a bare import in a text that could
  not be stripped; no lost side effect.
* Merge links: a call is linked to the one healthy module that answers to its id, or kept and
  reported; [section 5](#5-disagreements-found) tells where the code does neither.
* Playground: once nothing is left to happen, both panes show what the form asks for.

## 2. Modules

Three short modules say what is promised, with no word of how it is done; the detailed ones are shown
to implement them, by a run and by a proof.

| Promise | Says | Implemented by |
|---|---|---|
| `ParMap` | results appear one at a time in any order, each what the input alone says, none changes, and when all are there they are returned by index | `Schedule`; each of the three phases of `UnpackPhases` |
| `PureCall` | one answer, given once, decided by the input alone | `UnpackPhases` as a whole; `InterfacePlan`; `DeadModule` |
| `LatestWins` | a pane's value appears when a run ends and is the result of the input as it is then | each of the two panes of `Playground` |

Every definition that models code is listed in `PROJECT.json` under `map` with its lines. Operators
commented "Bug: ..." or "Mutant of X" are altered copies of the definition that follows; no specification uses
them. They exist to show that each checked property can fail.

### Scheduler: `ParMap`, `Schedule`

`Schedule` is `par_map_largest_first`: the items sorted by decreasing size
(`Before`, stable on ties), a shared queue, and workers that `Take` the front item, `Finish` it and
push its result; `Collect` re-sorts by index. One `Take` is one `next()` under the bridge's mutex,
which is the real atomic step. `ImplementsParMap` is the refinement, with the collected pairs seen
as a function of the index.

### Unpack: `ModulePath`, `FilenameRecovery`, `UnpackOps`, `UnpackPhases`

`ModulePath` is `resolve_relative_specifier` and `relative_import_specifier` on paths as sequences
of parts. `FilenameRecovery` is `build_rename_map` (candidates, clashes with one another, with
provisional names, up to case) and the remapping of one specifier. `UnpackOps` says what a phase
computes for one module from the job and from what earlier barriers fixed; `UnpackPhases` says when
it computes it and what it may read: one action per module and phase, one per barrier, then
`Assemble` (provenance, elimination) and `Convert` (public status).

| Variable | In the code |
|---|---|
| `stage` | which `par_map` of `unpack_multi_module_with_plan` runs |
| `a1` | Phase 1a's `Pending` / `Done` per module, with suggested name and warning |
| `plan` | the `InterfacePlan` of barrier 0 |
| `b1` | Phase 1b's facts and whether a prepared AST is kept |
| `final` | the rename map applied to every name |
| `p2` | Phase 2's code, name, format, report |
| `warnings`, `out`, `status` | collected warnings, assembled modules, public module status |

The content of a module is abstracted to what the decisions read: the stage of the pipeline at which
it stops being CommonJS (`shape`), its references, its writes to required values, the modules whose
exports it passes on, whether it is or imports a helper, whether its imports are of a form the
cross-module passes repair, whether its printed text parses again (`strips`), and how its tail fares
(`fate`). Formats, facts, the adopted range, the emitted references and the failure paths are computed
from those, in the order of the code. A repair changes what a module's tail sees, never its format:
what the repairs write is AST rewriting. A module
with fate `"error"` (fixer, printer or source map) falls back to its provisional name, like one
whose lifted boundary is declined.

One thing the phases rely on has no property. Phase 2 adopts the AST that Phase 1b computed without
the facts of other modules when `range_ignores_facts` (`unpack/phases.rs:372`) says that no rule of the
range reads them. Which facts a rule reads is decided inside the rules, which are not modelled, so a
fact the check forgets could not show here; `assert_adopted_range_matches` looks for that in debug
builds.

`UnpackPromises` has the refinements. `Call` sees the whole unpack as one `PureCall` from the job to
`ReferenceAnswer`, modules, warnings and statuses as the job alone decides them; `PreparePhase`,
`FactsPhase` and `DecompilePhase` see each phase as a `ParMap` that returns at the barrier after it.
Since `Schedule` implements `ParMap`, that is where the scheduler and the phases meet.

### Interface plan: `InterfacePlanOps`, `InterfacePlan`

`InterfacePlanOps` defines by closure, without loops, what is reached, written, kept, and where a
passthrough chain ends. `InterfacePlan` is `build` as it runs: the chain walk with its `seen` set
(`StartChain`, `FollowChain`), then the worklist of each write in job order (`StartWrite`,
`VisitProvider`, `EndWrite`). The two must agree: `PlanFor` puts the definitions together, with
the first writer of each provider, as the answer of a `PureCall`. `UnpackOps` uses the definitions
directly, which that refinement justifies.

### Dead modules: `DeadModuleOps`, `DeadModule`

`DeadModuleOps` defines the drop set as a union of closed sets; `DeadModule` runs the purity
fixpoint, the cascade fixpoint, the guard against an empty output, and the stripping of side-effect
imports, round by round. Stripping parses the printed text again, with the syntax that the final
name's extension chooses; if that fails the module is emitted as it was, with its bare imports of
dropped modules (`unpack/dead_module.rs:139-145`). Which modules that happens to is an input
(`unstrippable`, in `UnpackOps` the module's `strips`), since printing and parsing are not modelled;
`NoDanglingImport` and `ReferencesResolve` name those imports as what they do not promise, and
`EffectsKept` holds all the same. Together they are a `PureCall` whose answer is `Pruned`: what is kept and
what is stripped. `UnpackOps` again uses the definitions.

### Merge links: `MergeLinks`

The two passes of `apply_numeric_rewrites` over the calls of one module. `PlainTargets`,
`StringTargets`, `ChunkTargets` are the three candidate tables, `SameBuild` and `Resolves` the
lookup, `CanRewrite` the test of `NumericRewritePlan::new` that skips the first pass. `LinkCall`
takes one call through `rewrite_async_chunk_load` and then `rewrite_plain_require`; `KeepCall` is
`UnresolvedLoaderCalls`, which replaces a string that stays by a kept id and records the reason. `args[k]`
is the id argument of call `k` as the AST has it at that moment. The detector's links to its own
table are strings among the others (`own`), told from ids only by their spelling: `Misread` names those
that are spelled like an id the factory does not have, and `Shadowed` the calls for which
`NumericRewritePlan::new` skips the first pass. No job is excluded: the properties name both as
exceptions, and the jobs of the run meet both.

### Scope splitter: `ScopeHoist`

An item is its position in the file with the names it declares, mentions and assigns, whether it is
a module declaration and whether it runs code. The seven actions `UnionDuplicateVars` to
`CrossItemWrites` are the loops of `apply_merge_signals` and `merge_cross_item_writes`, one iteration
of one loop a step, over `cls`, the union-find as the class of each item. `Extract` makes clusters
(`Established`, or `Executable` when the entry's component is pathological), `MoveBareStatements`
takes the write groups of bare statements to the entry, `FoldRound` and `FoldIntoEntry` are the
fixpoint of `fold_unreachable_effectful_clusters`, and `MergeCyclic`, `Retry` and `Collapsed` the
three ends of `render_scope_hoist_plan`. Strongly connected components, reachability, write groups
and the topological order of Kahn's algorithm are defined by closure, not by the code's traversals.
The mode is Executable; Inspect, which promises no initialization order, has cross-write policies
that are not modelled.

### Job and merge names: `MergeNames`, `UnpackJob`

`MergeNames` has the naming half of the merge: which inputs hold a public path (`Planned`, `Facades`,
`Ambiguous`), what an input becomes (`ModulesOf`, with the facade that stays whole), where its
modules would like to be (`Reservation`), the first free suffix (`FirstFree`), and how a specifier
follows (`Followed`: a sibling by any name, anything else of a facade's child formed anew from the
path where it was written). A part of a path is a stem with the suffixes it carries, so that an
invented name and one that looks invented are the same value; extensions are left out. A piece also
says whether it is a recognised helper.

`UnpackJob` is the façade's job around it. A push ends in one of six actions, by form and policy;
`Finish` returns, refuses, or goes on to `PlanPublicPaths`, `Expand` (one input a step), `NameModule`
(one module a step), `RewriteModules`, `RecoverNames` (`FilenameRecovery` again, with reserved paths),
`Eliminate`, `ConvertModule` (one module a step) and `PreserveInput` (one preserved input a step).
`Eliminate` may drop any helpers that are no entries, but not the whole output: which of them the
fixpoints choose is `DeadModule`'s, and the properties hold for any choice. A raw job has no recovery
and no elimination.

| Variable | In the code |
|---|---|
| `reports` | `UnpackJob::reports`; an id is an index in it |
| `processed`, `preserved` | `UnpackJob::retained`, listed as `finish` divides it |
| `unmatched` | `UnpackJob::unmatched_error` is set |
| `mods` | the `MultiSourceModule`s, with `links`: every specifier with the module it means and whether an author wrote it, which the code does not keep |
| `dropped` | the modules `eliminate_dead_helper_modules` leaves out |
| `seen` | the set of `assign_unique_module_filenames` |
| `out` | `UnpackOutput::modules`, with `push`: the input its text came from |

An author's specifier to another input may read, from where the split left the module, as the name of
a sibling. The rewriter looks among the siblings first and takes it for theirs. `LeadsTo` says so, and
`EdgesResolve` demands that such a specifier ends at that sibling's final name and every other one at
the module it meant.

What the phases do to the text of a module, and a module's fallback to its provisional name when it
fails, are not in `UnpackJob`, and what other inputs do to names is not in `UnpackPhases`; both use `FilenameRecovery` and `ModulePath`, which is where they meet.

### Playground: `Playground`

Two chains, `"compile"` and `"restore"`, each with its refs (`version`, `latest`, `timer`,
`active`), its run in flight and what its pane shows. `Edit` is any change of the form, together
with the commit; `FlushEffects` runs the effects whose dependencies changed, later, as React does;
`TimerFires` is the debounce; `Answer` is the `then` of a run with its version check and the
immediate rerun of an outdated one. `Formatter` and `vueSfc` act like `level` and are folded into it.

## 3. Model checking

All sets are small on purpose: each bound is the least at which the named situation occurs.
Runs in which the system stops by itself set `CHECK_DEADLOCK FALSE`; no model has another way to
stop, and the liveness property of the same run says that it gets there.

| Run | Instance | Distinct states | Properties |
|---|---|---|---|
| `schedule` | 4 items, 3 workers, all assignments of 3 sizes | 9,720 | `LargestFirst`, `ImplementsParMap`, `Returns` |
| `unpack` | 10,060 jobs of 3 modules | 261,560 | `OutputNamesDistinct`, `ProvenanceOwn`, `FailuresReported`, `ReferencesResolve`, `PredictionRight`, `WrittenStaysCommonJs`, `ImplementsPureCall`, `PhasesAreParMaps`, `Finishes` |
| `interface_plan` | 16,940 plan inputs of 3 modules | 284,967 | `WriteThroughAlias`, `ImplementsPureCall`, `BuildEnds` |
| `dead_module` | 34,608 output graphs of 3 modules | 206,172 | `NoDanglingImport`, `EffectsKept`, `ImplementsPureCall` |
| `merge_links` | 22,032 jobs of 3 inputs, 8 calls | 263,664 | `LinkedToTheOne`, `CallsAccounted` |
| `playground` | 2 sources, 2 producers, 2 levels, 3 edits | 183,694 | `SingleFlight`, `ShownFresh`, `PanesLatestWins`, `Settles` |
| `scope_hoist` | files of 6 items, 2 base graphs with 2 more references, 7 variants | 657,736 | `Partition`, `WritersWithOwners`, `NoImportCycle`, `EffectsRun`, `RegionsAcyclic` |
| `unpack_job` | 7,512 jobs of up to 3 pushes | 167,247 | `NamesUnique`, `EdgesResolve`, `InputsAccounted` |

Each but `merge_links` also checks the `TypeOK` of its module. Four further runs are expected to
fail; see [section 5](#5-disagreements-found).

**Why the bounds are enough to be interesting.**

* *schedule*: four items on three workers leave one waiting while three race, and three sizes give
  every pattern of ties, including all equal.
* *unpack*: three modules are an importer, a provider and a third party that one of them can only
  reach through the other. `NameJobs` let all three claim clashing names, case twins, an unsafe name
  and a reserved path, with every kind of failure at each module; `FactJobs` take every stage at
  which a module can become ESM, direct and indirect writes, pass-on requires, helpers used and
  pinned, repairs, parse failures and source-map mode. `StripJobs` have an
  importer that cannot be stripped. Every interleaving of each phase is explored.
* *interface_plan*: three modules give chains of length two, self-loops and cycles of two and three,
  conditional exports, a bare package and a source that names nothing; two writes in job order
  let a later one land where an earlier one did.
* *dead_module*: a helper chain of two below the application, in every mix of edges and of
  pure / entry / consumed / external, outputs with a missing report, and modules that cannot be stripped. Larger chains only
  repeat rounds, and the proof of `ImplementsPureCall` covers them.
* *merge_links*: the caller, a candidate and a rival, each in one of several builds, opaque or not,
  in the caller's chunk, another directory's, or none. Ambiguity needs two candidates, not three. Builds
  that match one another but not the caller's, and absent ids spelled like a specifier of the caller,
  are among them, so both exceptions of the properties are met.
* *scope_hoist*: six items are two clusters of two and two items between them, which may bind
  nothing, belong to either or stay alone; the two further references close cycles, make writers and
  owners of different clusters, and give singletons two anchors. `MinDeclarations`, `Window`,
  `PathologicalMin` and `Denominator` are constants of the code (10, 3, 64, 4) and are scaled down
  to 4, 2, 3 and 2, so that files are refused and accepted, windows end, and the pathological
  extraction and the retry both happen. The proofs leave all four open.
* *unpack_job*: three pushes are two inputs whose names clash and one between them that takes an
  index, an id, or neither. The paths are chosen to run into one another: `a` beside what is
  generated below it, `b` beside `B`, and `b_2` that came with an input. One input is a single
  helper, which elimination may drop whole, and one author refers to `pkg/b` where the split has a
  sibling `lib/b`, which it reads as.
* *playground*: `MaxEdits = 3` bounds the user. Three edits are one before, one during and one after
  a run, which reaches an answer that is outdated twice; the proof of `ShownFresh` has no bound.

**Fairness.** `Schedule`: each worker's next step, because Rayon workers do not stop while the bridge has
items and the closure terminates. `UnpackPhases`, `InterfacePlan`: some step while one is possible,
because each is one call on running threads. `Playground`: effects are flushed, the worker starts or
fails, a set timer fires, a worker answers what it was sent; there is none on `Edit`, so the user may
stop, and `Settles` is about a user who has. A worker that never answers is outside the assumption:
the bridges would leave the chain busy forever, which is listed among the hazards.
`DeadModule`, `MergeLinks`, `ScopeHoist` and `UnpackJob` state safety only: they are sequential loops, each
bounded by a list or by a set that only grows.

## 4. Proofs

Every theorem is checked by TLAPS to the last leaf, with constants of any size. Assumptions are the
named `ASSUME`s of the modules, which TLC evaluates in the runs, and the hypotheses written in a
theorem.

| Module | Theorems | Argument |
|---|---|---|
| `ScheduleProofs` | `ScheduleTypeCorrect`, `ItemsMappedOnce`, `LargestTakenFirst`, `ScheduleIndependence`, `ScheduleImplementsParMap` | `IInv`: the collected pairs form a function (`Paired`), items are partitioned among queue, hands and results, nothing queued precedes what was taken, each result is its item's, and the call returns last. Refinement: `Finish` maps to the abstract step, `Take` stutters. |
| `UnpackPhasesProofs` | `UnpackScheduleIndependent`, `UnpackNamesDistinct`, `UnpackPredictionRight`, `UnpackWrittenStaysCommonJs`, `UnpackTypeCorrect`, `UnpackProvenanceOwn`, `UnpackFailuresReported`, `UnpackReferencesResolve`, `UnpackImplementsPureCall`, `UnpackPhasesAreParMaps` | A barrier is passed only when its phase is complete, so every result equals the reference function of the job; the other theorems are facts about that function. Names: recovered names are claimed by one module each and differ from all provisional ones. Provenance and status: `OutputInv` says what the assembled output, the warnings and the statuses are made of; since no two modules share a provisional or final name, a name looked up in the reversed rename table or among the warnings can only be the module's own. References: a specifier leads back to its target for all paths (`RelativeResolves`; `LeastNatural` gives the last common part at which its loop stops), so the remap finds the one module it names and rewrites it to that module's new name or leaves it, which is right from an unchanged directory (`RemapFollows`); the dropped set is closed backward under what binds (`EliminatedClosed`), so a module with a binding reference to a dropped one is dropped too, and bare imports of dropped modules are stripped from every text that parses again. Refinement: the collected results of a phase grow by one entry at a step (`GrowsBy`), the barrier is passed when they are all there, and no action touches them after it; the last step gives what `OutputInv` says, which is the reference answer. |
| `InterfacePlanProofs` | `PlanTypeCorrect`, `PlanImplementsPureCall`, `PlanFirstWriter`, `PlanChainsExact`, `PlanRewriteIdempotent`, `PlanWriteThroughAlias`, `PlanHelperNotOverwritten` | The worklist stays inside the closure and is closed on what it visited, so an empty worklist is the closure. The chain walk keeps that `start` leads to `current`, and that every link out of what it has seen stays in what it has seen or is `current`, so meeting it again closes a cycle. The first writer is the least consumer, because consumers are taken in order and an entry is never replaced. With `MapInv` (the plan's maps are functions) these say all of the answer. |
| `DeadModuleProofs` | `DeadModuleTypeCorrect`, `DeadModuleImplementsPureCall`, `DeadModuleSafe`, `DeadModuleKeepsEffects`, `DroppedAreInert` | Each fixpoint set contains the greatest closed set and shrinks only by elements outside it; when no round applies it is closed itself. Effects: what the emitted imports reach, together with the transitively pure modules, is closed under the imports there were before, because a stripped edge ends in a pure module. |
| `MergeLinksProofs` | `MergeTypeCorrect`, `LinksAreUnique`, `EveryCallAccounted` | `Inv`: the passes compute a function of each call (`First`, `Second`) and the report is the union of the calls' (`Reported`). The rest is about these functions, with no hypothesis on builds or spellings: a specifier that the first pass looks up is `Misread`, a call that the skipped first pass would have linked is `Shadowed` (the candidate that answers in the caller's build does not answer in its own, so another is of one build with it), and whatever the second pass reports is either the id of a call or a specifier spelled like one. |
| `PlaygroundProofs` | `PlaygroundTypeCorrect`, `PlaygroundSingleFlight`, `PlaygroundShownFresh`, `PlaygroundPanes`, `PlaygroundBusyUntilLatest` | `FreshInv`: a chain whose effects have run and that has neither timer nor run shows its latest input. `VersionInv`: a run whose version is current captured the latest input, and what the effects last saw is the latest input. `RunInv`: flag, request and busy sign agree. A chain at rest has effects that saw the form, so it shows what the form asks for. Refinement: the pane's input is the latest its effects know; an answer that is not outdated is to that input (`VersionInv`), and one that is leaves the pane busy. `GateInv`: before the worker is ready there is no run whose error a failed start could overwrite. |
| `ScopeHoistProofs` | `TypeCorrect`, `ItemsOnceHolds`, `WritersWithOwnersHolds`, `NoImportCycleHolds`, `EffectsRunHolds`, `BareInEntryHolds`, `NothingLostHolds`, `PartitionHolds`, `RegionsAcyclicHolds` | `IInv` is `TypeOK`, `PartitionInv` and `ClusterInv`. The classes stay an equivalence that joins each item with its partners of the loops done, and of the current loop up to `at`; after the last loop they are closed under writes and repeated vars, so roots are, and every join of clusters, and what moves to the entry, keeps that. Condensing by mutual reachability leaves no cycle; a fold that adds nothing has reached every effect; a merge keeps what is reached. Nothing is lost: `Covers` is kept by every way clusters are made anew, because each root's class has a home, a singleton has a nearest anchor (the least key `2 * distance + side`) and a dissolved cluster a fold target. Regions: a finite graph without cycle always has an item all of whose dependencies are placed, so the placing is a topological order with a place for each atom; nearness splits it at the midpoints between anchors, so a region imports only regions of anchors further along it, and a cycle of regions would give an increasing cycle of positions. |
| `UnpackJobProofs` | `TypeCorrect`, `NamesUniqueHolds`, `EdgesResolveHolds`, `InputsAccountedHolds`, `RelativeRoundTrip` | `IInv` is `TypeOK` with one part per stretch of the job: `PushInv` (ids follow the pushes that succeeded), `KeptInv` (what is retained is what its report says), `MergeInv` (modules are those of the inputs expanded so far), `NameInv` (the names given are apart and all in `seen`), `EdgeInv` (a link resolves from the merged name of its module to that of the module it leads to, then from the final to the final), `OutInv` (the output is listed by the reports, under names that are apart) and `LeftInv` (the output of processed inputs is what elimination left of the modules). `FollowedNamed` is why a specifier that reads as a sibling leads to it, `FollowedAuthored` why any other of an author leads where it meant. A free suffix exists among `Cardinality(seen) + 1` tries because they have different keys, which is the one use of cardinality. `RelativeRoundTrip`: resolving the specifier that leads from one file to another gives the other back, for all paths. |

The invariants are needed because none of the properties is inductive: `ShownFresh`, for one, says
nothing of a state with a timer, from which the next step may reach one it speaks of.

**Assumptions.** `UnpackPhases`: `JobsAssumption`, that the provisional names of a job are apart
(`deduplicate_path`), that they and the recovered names are nonempty paths, that a detector failure
has one of the kinds `detector_failure_warning` gives, and that `refs` lists references to modules of
the job. `ScopeHoist`: `ConstantsAssumption`, that a file is `WellFormed` (an item does not count its own names as references, an assigned name is mentioned, and
a statement that binds nothing and is no module declaration runs), as `collect_top_level_items` and
`item_executes_startup_effects` make it. `UnpackJob`: `PathAssumption`; and `JobsAssumption`, that a split
gives at least one module and each its own name, and that a recovered name is a path or none.
`MergeLinks`: `JobsAssumption`, that the caller is one of the modules, and what kinds of argument a
call has. Nothing is assumed of how builds overlap, of how ids and specifiers are spelled, or of what
an author's specifier reads as: where the code goes wrong there, the property names the case.
`EdgesResolve` excepts a module that recovery moves to another
directory when the target keeps its name, which is disagreement 2 below.

Proved and not run, because a run of the same module checks a stronger property or because they are
close to the code: `EachItemOnce`, `ScheduleIndependent`, `FirstWriter`, `ChainsExact`, `RewriteIdempotent`,
`HelperNotOverwritten`, `BusyUntilLatest`, `BareInEntry` and the `TypeOK` of
`MergeLinks`.

Only model-checked: the liveness properties (`Returns`, `Finishes`, `BuildEnds`, `Settles`), which
rest on fairness. Every invariant and every refinement of a passing run is a theorem. No module uses a `RECURSIVE`
operator: closures are written with quantifiers over subsets, and the topological order as a
recursive function, which both TLC and TLAPS take.

## 5. Disagreements found

Each is a run that TLC refutes, stating what a comment or document says.

1. `unpack_status`, `DecompiledMeansCompleted`. A module whose lifted boundary is declined is warned
   about under its provisional file name (`unpack/phases.rs:1427`) and emitted under its recovered
   one. `convert_core_output` matches failures by file name, misses, and reports the raw body as
   `Decompiled` ("The normal rule pipeline completed", `crates/wakaru/src/output.rs:51`).
2. `unpack_moved`, `ReferencesReformed`. When filename recovery moves an importer to another
   directory, its specifiers to modules that are not renamed are left as they were
   (`unpack/filename_recovery.rs:248`) and resolve elsewhere. The comment at line 180 says they are
   re-formed. `ReferencesResolve` is the weaker promise that holds.
3. `dead_module_reexport`, `ReexportsResolve`. `ImportReport` does not list `export … from`, so a
   helper whose only user re-exports it is dropped and the re-export dangles.
4. `scope_hoist_order`, `InitializationOrder`. Bare statements return to the entry, in source order;
   a declaration whose initializer runs code stays in its cluster if the entry imports that, and an
   import runs before all of the importer, so it overtakes the entry statements above it
   (`crates/core/src/unpacker/scope_hoist.rs:2297`, `:2340`). `docs/unpacking.md:844-846` says the
   merged graph "preserves the original single-file initialization order". `EffectsRun` is the weaker
   promise that holds: each effect runs, once, at some time.

Four more have no run of their own. The properties that meet them name them as exceptions, the runs of
those properties reach them, and the proofs hold with them.

* The skipped first pass (`Shadowed`, in `CallsAccounted`). `same_build` is not transitive. With
  candidates of builds `{x}` and `{x, y}` and a caller of `{y}`, `NumericRewritePlan::new`
  (`unpack/merge.rs:320-326`) finds nothing to rewrite, because it asks whether each candidate resolves
  from its own build, and skips the first pass; the second pass finds that the call resolves and
  leaves it. The call is neither linked nor reported.
* The misread specifier (`Misread`, in `LinkedToTheOne` and `CallsAccounted`). The detector turns
  own-table ids into relative specifiers before the merge looks at them. One that is spelled like an id
  the factory does not have (`./src/t.js`, from a file at the root) is looked up as that id
  (`unpack/merge.rs:1023`): it is linked to another module, or kept and reported. The comment on
  `webpack_absent_string_ids` (`unpack/merge.rs:54-56`) says that only a call with one of these may link
  to a module of another input, and that "any other string `require` is authored or already
  rewritten".
* The failed strip (`NoDanglingImport`, `ReferencesResolve`). A module whose text does not parse again
  keeps its bare imports of dropped modules (`unpack/dead_module.rs:144`), on purpose: the comment there
  prefers that to losing the module.
* The specifier read as a sibling's (`EdgesResolve`). An author's specifier to another input that, read
  from a facade's child, names a generated sibling is redirected there
  (`unpack/filename_recovery.rs:239`, and before it the table of the input in `unpack/merge.rs:386-402`).
  No document says which should win.

## 6. What is not modelled

The rules (about 115 AST rewrites), the detectors, Vue recovery, the formatter and the container
readers transform syntax; what is correct about them is JavaScript semantics, which a finite model
of this size does not state. They are most of the source: of about 220,000 lines, the code that
keeps state across modules, takes decisions on graphs or names, or runs concurrently is a few
thousand, and that is what the modules cover. `PROJECT.json` lists every component with its reason.

Within modelled components: source-map content, link checks and import-cycle warnings (read-only);
the Inspect mode of the scope splitter and `emit_clusters`; `common_absolute_input_parent` and the
sanitizing of paths; source spans, entry status and diagnostics of the public result; rayon's fork
inside one prediction (`unpack/phases.rs:1083`), whose halves work on clones; the wording of warnings.
An id that parses to a number without spelling it (`"07"`) is kept apart by `NumberOf` but not met by
a run.

## 7. Plan

Done, in the order of importance: the scheduler, the phases with names and facts, the interface
plan, dead modules, the playground, merge links, merge names, the job, the scope splitter. What would
add most next:

| What | Properties |
|---|---|
| `ScopeHoist` in Inspect mode: the adjacent and the bounded merge of cross-cluster writes | the hulls decide the same way for any order of edges; a component stays below its bound |
| esbuild ownership (`crates/core/src/unpacker/esbuild/ownership.rs`) | each declaration has one owner; owners are closed under writes |

Composition: `UnpackPhases` takes the plan and the elimination as definitions, justified because
`InterfacePlan` and `DeadModule` implement `PureCall` with these definitions for their answer, and its
phases as parallel maps, justified because `Schedule` implements `ParMap`; `UnpackJob` takes the phases as what they do to names. `MergeLinks` works on ids and
meets `MergeNames` only in the names its links are written with.

## 8. Running

    tlc -config MCSchedule.cfg MCSchedule.tla
    tlapm ScheduleProofs.tla

Each `MC*.cfg` belongs to the `MC*` module whose name it begins with. The longest run (`MCUnpack`)
takes three to four minutes with two workers, the others at most two; all proofs
together take about fifteen minutes from nothing, most of them in `UnpackJobProofs` and
`ScopeHoistProofs`.
