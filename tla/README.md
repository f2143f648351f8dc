# apispec in TLA+

apispec reads a Go project, builds the call graph of its source, finds the HTTP
routes in it and writes an OpenAPI specification. This directory holds TLA+
models of its core, the TLC configurations that check them on small instances,
and theorems about them whose proofs TLAPS checks for every instance.

1. [Inventory of the system](#1-inventory-of-the-system)
2. [The models](#2-the-models)
3. [What the runs check](#3-what-the-runs-check)
4. [What is proved](#4-what-is-proved)
5. [Disagreements between code and comments](#5-disagreements-between-code-and-comments)
6. [What is not modelled](#6-what-is-not-modelled)
7. [Plan](#7-plan)

To check: `tlc -config <file>.cfg <module>` for the rows of section 3,
`tlapm <module>_proofs.tla` for those of section 4. `PROJECT.json` names for
every definition the source lines it stands for, and for every property a
mutation of the model (an operator kept beside the definition it would replace)
that breaks it.

## 1. Inventory of the system

A run is a pipeline, called once by a command and repeatedly by the two servers:

    cmd/apispec ----+
    cmd/apispecui --+--> internal/engine --> internal/metadata --> internal/spec --> OpenAPI
    cmd/apidiag ----+      load, filter       call graph, SCCs,     tree, routes,
        |                  packages           assignments           schemas, security
        +--> internal/diagserver --> internal/spec (visualization)

| Component | State | Operations | Hard behaviour | What makes it correct |
|---|---|---|---|---|
| UI server (`cmd/apispecui/main.go`) | `UIServer` under one mutex: directory, generation slot (`genRunning`, `genEpoch`, `genCancel`, `genStopping`, `genPhase`), last output, metadata summaries | generate, force, stop, switch project, status, save/load configuration | a goroutine per request, an engine goroutine that may outlive its handler, state read under one lock and used under another, cancellation that is only noticed at checkpoints | one owner of the slot; a run that lost it touches nothing; a stop or force reaches the run it was meant for; the slot is always recovered; output is of the project shown |
| Diagram server (`internal/diagserver`) | metadata pointer, directory, cache of diagrams by depth, cache of pages | load/refresh metadata, switch project, diagram, page, package views, statistics | analysis and drawing happen outside the lock; a page times out while its goroutine goes on and stores its result | what is cached is drawn from current metadata; nil metadata is not used; requests are answered |
| Engine (`internal/engine`) | the fields of one run's `EngineConfig`, the config object it may share with other runs, the metadata and skipped packages of the latest run | load packages, apply filters, validate, analyse framework dependencies and include their packages, generate metadata, resolve calls, choose the configuration, build the tree, map, write | filters are computed, merged and written back in four places, some of them into an object that outlives the run; the context is polled at some boundaries only; packages are found by the type checker and frameworks by a walk over files | what is analysed is what the user selected; each framework met is traced; a cancelled run delivers nothing |
| Dependency analyzer (`internal/metadata/dependency_analyzer.go`) | packages by kind, visited and processed sets | direct, dependent and imported packages | searches in the order of Go's maps, which share what they have processed under a depth limit | dependents are exact; imports are missing only for the depth limit; it ends |
| Call-graph metadata (`internal/metadata`) | string pool, packages, call-graph edges, callers/callees/parents indexes, assignments, implementations, return types, two caches of traces | one pass over `go/ast` + `go/types`; a pass over generic calls that extends what it walks; pairing of types and interfaces; tracing of variables; types of call arguments, again at every load | the order of the pass decides which edge is whose chain parent and which assignment is current; slices grow under the walk over them; results computed while a cycle was cut are cached; map order | each edge has its own caller, chain parent and assignment; indexes agree with the edges; copies have their callers' types; caches change no answer; what was resolved stays |
| Command line (`cmd/apispec`) and profiler (`internal/profiler`) | files in the project directory, open profiles, a collector goroutine | run with any flags, fail, be killed, run again | a fatal error runs no deferred Stop; measurements go on while they are saved and analysed | success means that what was asked for is on disk; report and measurements agree |
| Insight (`internal/insight`) | walk of a trace, memo of path counts | trace an endpoint, count and list call paths, grade, draw | limits reached in breadth-first order, counts remembered while recursion is cut | complete unless marked as cut; always connected; count = list |
| Condensation (`internal/metadata/scc.go`) | Tarjan's indexes, stack and explicit call stack; `Components`, `DAG`, `Recursive` | build, same component, in cycle | a hand-unrolled recursion | components are exactly the classes of mutual reachability, callees first |
| Reachability (`internal/spec/reachability.go`) | memo of wrapper middleware, path set | one-pass reachability, recursive middleware search | recursion in the analysed program | every wrapper is credited with exactly what it reaches |
| Lazy tree (`internal/spec/lazytree.go`, the default) | nodes made so far, plan cache, copies per scope and key, distinct keys | `GetChildren`, plan building, chain/receiver relations | consumers unfold it in any order, some with no visited set; chained calls are parented elsewhere than they are listed | finite, acyclic along parents, bounded copies, and no call lost |
| Eager tree (`internal/spec/tracker.go`) | nodes, four limits, variable/chain indexes | build, attach, filter | limits that cut in the middle of a build | same routes as the lazy tree within the limits |
| Route extractor (`internal/spec/extractor.go` and matchers) | visited sets, mount prefixes, mount middleware, candidates | traverse, mount, merge routes, pair responses | a route is reached on several paths; results must not depend on the order | each route once per mount prefix, with everything found on any path |
| Mapper (`internal/spec/mapper.go`, schemas, types) | components by type, used types | paths, responses, schemas of recursive types | recursive types, name clashes | references resolve; schema generation ends |
| Security (`internal/spec/security.go`) | schemes and requirements by route | map middleware to schemes, reconcile | conflicting sources | each requirement names a scheme that exists |
| Configuration (`internal/spec/config*.go`) | pattern tables | defaults by framework, merge | two frameworks' tables in one | merging loses no pattern |
| Exports, type model, patterns, detector, library | read-only views, process-wide caches | | | |

### How components interact

* The UI server owns an engine per generation, hands it a `context` and an
  `OnPhase` callback, and receives its result over a channel. It also owns a
  diagram server, whose `SetInputDir` it calls after releasing its own mutex.
* The diagram server calls the engine for metadata, and the visualization code
  for diagrams. The two servers share no lock.
* The extractor walks a tracker tree by `GetChildren`; the lazy tree makes nodes
  when asked, so that the walker's order is the order in which caps fill up.
* The extractor condenses the call graph once (`BuildCallGraphSCC`) and asks
  `reachSet` about it, which relies on the order in which components are listed.
  Wrapper middleware is resolved by a walk of its own over the same call graph.

The hazards that follow from this, each at its line, with the properties that
cover it, are in `PROJECT.json` under `hazards`.

## 2. The models

| Module | Models | Role |
|---|---|---|
| `RunSlot` | the promise of the generation slot | abstract specification |
| `UIServer` | `cmd/apispecui/main.go`, everything that changes `UIServer`'s shared state | implements `RunSlot` |
| `DiagServer` | `internal/diagserver/server.go`, metadata and the two caches | |
| `DiagView` | `internal/diagserver/server.go`, depths, pages, package view and package tree | what `DiagServer` caches and sends |
| `AnalysisJob` | the promise of a cancellable run | abstract specification |
| `Engine` | `internal/engine/engine.go`, both entry points | implements `AnalysisJob` |
| `FrameworkImports` | what the import graph says of a package | shared by the next and `Engine` |
| `FrameworkDeps` | `internal/metadata/dependency_analyzer.go`, the three passes | |
| `BuildCallGraph` | `buildCallGraph` and `processCallExpression` in `internal/metadata/metadata.go` | |
| `GenericInstances` | the last pass over a new call graph (`metadata.go:398-433`, `types.go`) | |
| `VariableOrigins` | `TraceVariableOrigin` (`analysis.go:387-616`) and its two caches | |
| `Implementations` | which types implement which interfaces (`metadata.go:2001-2295`) | |
| `ReturnTypes` | `ProcessFunctionReturnTypes` (`types.go:1131-1560`), at generation and at load | |
| `Orders` | picking from a sequence in its order, as loops that filter do | shared by `GenericInstances`, `DiagView`, `Implementations` |
| `CallGraphSCC` | `internal/metadata/scc.go`; `reachSet` of `internal/spec/reachability.go` | |
| `MiddlewareWalk` | `middlewareMatchesThrough` and its caller `expandMiddlewareRefs` | |
| `LazyTree` | `GetChildren` and its guards in `internal/spec/lazytree.go` | |
| `CallTrace` | calls, links, depths and the drawn part of an endpoint's trace, `internal/insight/metrics.go` | shared by the next two |
| `ResolvedTrace` | `analyzeResolvedCallGraph` and `analyzeAdjacency`: the trace from the call graph | |
| `TrackerTrace` | `analyzeTrackerSubtree`: the trace from the tracker tree | |
| `TracePaths` | `countPaths` and `enumeratePaths`: the call paths of a trace | |
| `CommandRun` | `cmd/apispec/main.go`, `internal/profiler`, `internal/metadata/io.go`: runs and the files they leave | |
| `MCUIServer`, `MCBuildCallGraph`, `MCEngine`, `MCCommandRun`, `MCResolvedTrace` | instances | model checking |
| `MCSpecWalks` | `MiddlewareWalk` or `LazyTree` | model checking |
| `MCTrackerTrace`, extended by `MCViews` | `TrackerTrace`; `DiagView`, `TracePaths` or that | model checking |
| `MCMetadata` | `FrameworkDeps`, `Implementations`, `GenericInstances`, `ReturnTypes` or `VariableOrigins` | model checking |
| `UIServer_proofs`, `Pages_proofs` (of `DiagServer`, `DiagView`, `ResolvedTrace`, `TrackerTrace` and `TracePaths`), `CallGraphSCC_proofs`, `SpecWalks_proofs` (of `MiddlewareWalk` and `LazyTree`), `BuildCallGraph_proofs`, `Engine_proofs`, `CommandRun_proofs`, `Metadata_proofs` (of `FrameworkDeps`, `GenericInstances`, `ReturnTypes`, `Implementations` and `VariableOrigins`) | | theorems |

### UIServer

Every variable is a field of `UIServer` or a local of a handler, under the name
it has there where it has one. A generated specification, its configuration,
metadata and response are all represented by the request that generated them:
the properties ask whose output is shown, never what is in it.

A step is one critical section of `UIServer.mu` or one visible event between two.
`handleGenerate` is thus cut into

    Resolve -> SetDir -> Propagate -> Reject | Claim -> Start
       Start -> SelectDone -> Check -> Fail | Publish -> Retain -> Finish
       Start -> SelectStop -> Drain -> Finish

which are the places where another request can come between: `setDir` unlocks
before `diag.SetInputDir` is called, the gate and the creation of the engine are
two sections, `superseded()` takes the lock for itself, and the output is stored
in two sections. `Phase` and `EngineEnds` are the engine goroutine, which goes on
after its handler has answered. `TakeCancel` and `CallCancel` are the two halves of
`handleGenerateCancel`. `SelectDone` cancels the request's own context, as
`cancel()` after `<-done` does; that this is what makes `Fail` answer "stopped"
is what the code does (section 5), not an abstraction.

### DiagServer

Metadata is represented by the directory and the version of the sources that it
was analysed from, a diagram by the metadata it was drawn from. `LoadMetadata` is
three steps (the directory is read under the lock, the analysis runs without it,
the result is stored under it); drawing is four (look up, draw, keep the diagram,
keep the page). For a page the drawing is a process of its own (`work`), since its
handler may give up on it after 30 seconds while it goes on. Reads of `s.metadata`
outside the lock are steps. History variables, read by properties only, follow
what a request goes by: it is `overtaken` from the moment another one replaces the metadata until it
reads the server anew (a diagram found in the cache is as late as whoever kept it), and
`lateMeta`, `lateData` and `latePages` say which of the stored things an overtaken request has
stored. `newest` is the newest version of each project that was ever stored.

### CallGraphSCC

A function is its position in the sorted order of BaseIDs. A step is one
iteration of a loop of `condenseSCC`: visiting a root, taking the next callee of
the top frame, retiring a frame (with the propagation of its lowlink and the
popping of its component), and the condensation at the end. `ReachSet` is the
single pass of `reachSet`, a recursive function over the components in
their order that knows only components the pass has been to.

### MiddlewareWalk

The recursion of `middlewareMatchesThrough` with an explicit path: an activation
holds the callees it has not scanned and what it has found. The order in which
callees are scanned and wrappers are asked for is arbitrary, since it is the
order of the source files. The memo is kept across questions, as in the code.

### LazyTree

A node is its line of contents along parents, and separately the keys of the
nodes that list it, because a chained call is listed by one node and parented at
that node's parent. The plan of a content (`buildPlan`) is a constant function of
the content, which is what the plan cache of the code relies on; every plan from a
set given to the model is considered, so the theorems hold for any plan that
`buildPlan` could produce. A plan lists arguments before calls, and a key at most once as an
argument (its ID has the position) and once as a call (`added`). It can be both: in
`func f() { f(g()) }` the inner `f` has `g()` as an argument and calls it. The second of the two
finds the first one counted if it was made (`CopiesSoFar`), as in the loop over the plan. Nodes are asked in any
order, any number of times, which covers the depth-first walk of the extractor,
the breadth-first search of `findTargetNode`, and both interleaved.

### BuildCallGraph

A program is the sequence of its files, assignments and calls in the order in which
`ast.Inspect` meets them, each with the node it is part of and the part it plays
there (receiver of a method call, deeper in the receiver, called expression,
argument, or something else). Everything that the code asks of `go/ast` and
`go/types` is a field of a node: whether the call is skipped, what it is called,
what it is selected from, whether its caller is a closure. Positions are nodes too: a
call begins where the innermost call of its spine begins (`Base`), which is why all calls of a
chain share one.

`entering` and `pending` are the recursion of `processCallExpression`: the call it has been
called for, and the calls that wait for their receivers. A call takes one step for
each way it can go: it is skipped, it was recorded before, it enters its receiver,
or it is recorded. `ResumeChained` is the code after the recursive
call, `IndexOutOfRange` the index -1 that the same line may produce. An edge in
the model carries the node that Inspect was at (`seen`), since argument objects are made
anew by every visit and only those of the last one are linked.

### Engine

A variable is a field of the engine, of its `EngineConfig`, of the config object, or a
local of the two entry points; a step is a phase between two places where the
context is polled or an error returns. A package is its path, its files are left out.
`filters` and `object` are apart because they are in the code: `applyConfigFilters`
reads the object into the fields, `autoIncludeFrameworkPackages` extends the fields
half way, and `mergeIncludeExcludePatterns` writes them into the object, which
the library's `Generator` gives to every run. `WalkOf` (the file walk of the detector)
and the packages of the type checker are separate inputs; `Rejected` are the packages
that the automatic filters leave nothing of. Errors of loading are chosen freely.

### FrameworkDeps and FrameworkImports

The graph of imports is an input. The second pass is one search per package, its
visits in any order, because only its answer is kept; the third is the recursion
of `findImportsRecursivelyWithDepth` with an explicit path, from the direct packages in
any order and over imports in any order. `FrameworkImports` has the pure part, of
which the engine needs the result only.

### GenericInstances, VariableOrigins, Implementations, ReturnTypes

Four parts of the metadata that share no state. In `GenericInstances` an edge is its
place in `callGraph`, as the pointers in `Callers` are; the walk's position in a slice
is an index taken before each step, since the slice may have grown. `shown` is the
ID that the copied edge still has cached. In `VariableOrigins` a trace is a loop over
the place it has come to, with `seen` as in the code; where the code ranges over a
map of files, any file is the first. A trace is one uninterrupted call, so nothing is recorded while it
is on its way. `early` is a history variable: what was remembered
before all packages were recorded. In `Implementations` a method has its signature: the type it is about,
how it is written, and the package if it is unexported; declared methods and those that come by embedding are kept
apart, because the pairing sees only the first and `types.Implements` both. The types that are collected come in any order
and go into their parts in order; in `ReturnTypes` declarations go in the order of names
and arguments in any, again after every `Reload`.

### DiagView

`calculateCallGraphDepth` is a state machine, since it adds to the map it reads; the
three views of its result are operators, and what the filters match is part of the request.

### CallTrace, ResolvedTrace, TrackerTrace and TracePaths

The page of an endpoint walks what its handler can run, from the call graph or from the
tracker tree, and then the links that the walk has left. Functions are numbers
in the order of their names, which is the order that the code sorts them in. In `ResolvedTrace` a step takes
a function from the queue, follows one call of it, or resolves that call to one
implementation (these come from a map, in any order). In `TrackerTrace` a step is one turn of
the loop. The tree is an input: each node has its children, its call and its key. `below` says which
function a node hangs below; the code has no such field, it is there for the properties. In
`TracePaths` the two recursive functions are stacks of calls, with one step for a callee and one
for a return; paths are listed by their functions, where the code has labels.

### CommandRun

The main goroutine phase by phase, the collector goroutine beside it, and the files
that both and the engine write. A file is absent or the work of some run, whole or not;
opening empties it, so a failure or a kill in between leaves it so. Any step that can
fail may fail: `log.Fatalf` ends the process without a deferred call, an error that
the code logs and passes over sets `warned`. The next run finds what is there.

## 3. What the runs check

| Run | Module, configuration | States | Question |
|---|---|---|---|
| `ui_slot` | `MCUIServer`, `UIServer_slot.cfg` | 1.8 million | Has the slot one owner at all times, and do stops, marks and summaries reach the right one? Does the server implement `RunSlot`? |
| `ui_progress` | `UIServer`, `UIServer_progress.cfg` | 126 000 | Is everybody answered, does a Force get through, and does the slot recover, with an engine that may never return? |
| `diag_caches` | `DiagServer`, `DiagServer_caches.cfg` | 67 000 | Is metadata or a diagram ever old in any other way than by a request that was overtaken? Is nil metadata met in any other way than under a switch? Is everybody answered? |
| `diag_switch` | `DiagServer`, `DiagServer_switch.cfg` | violated | Does a project switch invalidate the metadata, as its comment says? It does not (section 5). |
| `scc` | `CallGraphSCC`, `CallGraphSCC.cfg` | 1.0 million | Are components, their order, recursion flags and single-pass reachability exact? |
| `spec_walks` | `MCSpecWalks`, `SpecWalks.cfg` | 332 000 | What may wrapper resolution be relied on for? Is the lazy tree bounded, and does it lose nothing? Do both end? |
| `call_graph` | `MCBuildCallGraph`, `BuildCallGraph.cfg` | 251 000 | Has each call one edge, or is it shadowed? Are chain parent, root and assignment its own? Are arguments linked to the right edges, and closures filed under recorded ones? |
| `engine` | `MCEngine`, `Engine.cfg` | 100 000 | Is what is analysed what the user selected, is every framework in it traced, and does the engine implement `AnalysisJob`? |
| `views` | `MCViews`, `Views.cfg` | 162 000 | Are depths distances, what is on pages and trees, are the call paths of a trace counted exactly and sampled rightly? Is a trace from the tracker tree as good as one from the call graph? |
| `resolved_trace` | `MCResolvedTrace`, `ResolvedTrace.cfg` | 52 000 | Is a trace from the call graph true, complete or marked as cut, and connected, and does the walk end? |
| `metadata` | `MCMetadata`, `Metadata.cfg` | 182 000 | Do indexes, copies of generic calls, cached traces, implementations, resolved types and the list of framework packages stay right whatever the order, and does it end? |
| `command` | `MCCommandRun`, `CommandRun.cfg` | 3.9 million | Does success mean that the files are there, and does the report agree with the measurements? |

### Properties worth knowing

* `ImplementsRunSlot`: under `owner` = the run whose epoch is current while
  `genRunning`, and `retired` = the runs past their gate that are not the owner,
  every step of the server claims, supersedes, releases or does nothing to the slot. A
  retired run never owns it again, and only a new claim takes it from its owner.
* `SlotOwnership`: the run of the current epoch lives, `genCancel` is its cancel function,
  and no other run is marked as stopping. `AbandonedForACause`: a Stop reaches the run
  that held the slot when it was pressed, and no other is abandoned.
* `ForceGetsTheSlot`, `ClientsAnswered`, `SlotRecovers`: the escape hatches work
  with a wedged engine, and the slot of an engine that returns is given back.
* `OnlyLateIsStale`: loads, refreshes, switches and abandoned drawings in any mixture. `LoadMetadata` stores
  its result whatever has happened since it read the directory, and drawings are kept whatever has
  happened since they read the metadata. That these two are the only ways to old
  metadata and old diagrams is the property: everything that was not stored by a request with another one's load or switch
  between its reading and its storing is of the current project, no older than what was stored before, and
  drawn from the metadata of now. `NoNilUnlessOvertaken` says the same of nil metadata.
* `CondensationIsExact`, `ReachSetIsExact`: the results against the definition of
  reachability, over all graphs. The first includes that callees come first, which
  the second relies on.
* `AnswersAreReached`, `OnlyRecursionIsCut`: what remains true of the memoised walk, whose
  plain contract does not hold in the presence of recursion (section 5).
* `CallsAreKept`: what the cap on copies may cost. A handler that lacks a copy of a call
  has it elsewhere in its subtree, and a walk that no limit has stopped has met every
  call it could reach. `InstancesBounded`: what the cap is for.
* `ChainsAreOwn`: the edge of a chained call is right whenever its receiver has an
  edge, although every receiver is visited twice and the newest edge is taken without a
  look at it.
* `CallsAreRecorded`: no call has two edges, and those that are without are listed (`Shadowed`): their instance
  ID is taken by a call further out on their spine that did not come to them first, as in
  `a.Get().field.Get()`. Nothing demands that a shadowed call stays without. An assignment that stands directly before a call reaches it, and the
  receivers processed on the way to it; it goes to one chain at most. `assignStmt` is reset only
  by the next call, wherever that is: an assignment with a call stays with the calls in it, one without may pass to
  one later chain.
* `LinksLeadToEdges`: an argument is linked to the edge of the very call that it is, also if another call of its
  chain has the same ID; arguments that are calls are linked if the walk came to the call around them before
  a chain did (for the others: section 5); and what `ParentFunctions` leads to first is in the graph,
  although every visit makes new objects before it looks whether it is needed.
* `SelectionHolds`: on a configuration of its own, or the first time on a shared one, a run analyses
  exactly the packages that the user's patterns select and that type-check; on any, what
  the user excluded stays out, although the code goes on to add patterns of its own.
* `EveryFrameworkIsTraced`: relates two independent answers about the module, the import
  graph's and the file walk's.
* `ImplementsJob`: under a mapping of phases to "running" and "committed" (past the last
  poll), a job that is told to stop before that delivers nothing.
* `ListIsRight`: dependents are exactly the packages from which a direct one is reached; no import is listed
  beyond the depth limit, and one is missing only behind packages listed at the limit or dependents.
* `DepthIsDistance`, `ViewsAreComplete`: the breadth-first pass that reads the map it writes; pages
  that have every function once, and every call once but those between two pages, which are on
  none (section 5); a package view that has every call at the selection and hangs together; a package tree whose
  counts add up to the total, as long as no package is nested so deep that the tree is cut
  (after 20 levels).
* `ResolvedTraceIsRight`, `TrackerTraceIsRight`: no link is made up; a trace that is not
  marked as cut has everything that the handler can run, the same from both of its
  sources; cut or not, it is connected. The first says this of the drawn part too, for the second
  that is not so (section 5). The second speaks of trees that have all calls and
  no arguments, since with arguments links are made up (section 5).
* `PathsAreRight`: the sample is of call paths, all different, and as many as there are or as it
  holds; on traces without recursion the memoised count is the number of call paths, up to its limit.
  A memo made below other functions holds elsewhere only because nothing was cut on the way.
* `CallersAgree`, `InstancesAreCallers`: the index is exactly that of the edges while both
  grow under the walk; a copy has the type arguments of calls that lead to it, and no
  others.
* `AnswersAreTraced`: caches never change an answer; compared with a trace that has none.
* `ImplementationsAreFound`: pairs within the project are on both sides, and where methods are written alike
  (`WrittenAlike`) they are in agreement with Go in both directions although the spelling differs by package: a struct that declares
  what an interface asks for is paired, and what is paired implements, unless the interface embeds
  more than it names. Where they are not written alike, or come by embedding, the code pairs too much or too little
  (section 5). Interfaces from elsewhere are recorded with the types that Go says implement them, within the depth.
* `TypesDoNotFlip`: what one pass has resolved, later ones keep, for all functions and for
  arguments whose call can mean one type only.
* `SuccessMeansWritten`, `MeasurementsAgree`: see `CommandRun`; the second relates what
  was saved, what was reported on and what has been measured since.

### Bounds, and why they are enough

* `UIServer_slot`: two generate requests, a switch, a stop, two projects. A
  violation of slot ownership needs a holder and a challenger; a stale stop needs a
  stop between them; a stale summary needs a project that is left. Each request
  happens once, and a client that repeats itself is another request. Generate
  requests are interchangeable there (none is wedged), so they are symmetric; no
  temporal property other than the refinement, a safety property, is checked
  under symmetry. `UIServer_progress` drops to one directory and lets one of the
  two engines hang.
* `DiagServer_caches`: two requests of any kind, two projects, one page key,
  `MaxEdits = 1`. Two requests are what a race needs; two versions are what "older"
  needs. One request's analysis and drawing may hang. `DiagServer_switch` has the same bounds: a load and a switch
  are enough.
* `CallGraphSCC`: all 65 536 graphs over four functions. Four are needed for a
  cross edge into a finished component under a caller whose own component has more
  than one member; the theorems cover the rest.
* `SpecWalks`, wrappers: all graphs over three functions, one matching middleware at any
  subset of them. Middleware is only ever united, so one element stands for any.
* `SpecWalks`, the tree: one main function, an argument and two calls, each listing any
  of the others in the fixed order of `MCSpecWalks`, one of them also as a chained
  call, one as an argument and as a call; cap 2 (the code has 10: the cap is reached sooner, not differently),
  child limit 1 and 3, node budget 0 (none) and 2.
* `BuildCallGraph`: 25 275 programs over two names: all those with up to three
  nodes after the first file's own (one of them possibly a second file), all spines
  of four calls, spines of three behind an assignment, and spines of three with any
  node after them. Two names are what a clash of IDs needs, three calls of a spine
  what a dropped one in the middle needs, and four what shows that a root or
  a depth is handed on further than once.
* `Engine`: two runs, the first of which leaves its mark on a shared object; two modules, the
  larger with a handler package that uses a framework, one it imports, one that has nothing to do with it, one
  that the user's pattern excludes and that uses another framework, and a rejected test package with a third
  (a framework that only the file walk sees). Any set of packages may fail to type-check.
* `Metadata`, frameworks: 384 graphs over four packages (acyclic, as Go demands), two framework
  paths and one other path, with and without mocks, a disabled framework and a common prefix; depth limit 2
  (the code has 3 by default), so that both sides of it occur on paths through all four packages.
* `Views`: four functions; all call sequences up to length two and many of three, all
  sets of six upward calls with none or one back, literals and nested packages on some;
  pages of 2. Four are what a page of two with a remainder and a diamond with a tail need.
* `Views`, call paths: every graph of three functions with the links of each in every order, and every
  graph of four that goes up, with and without two links back. Counts are limited to 3, 4 or the
  code's 1 000, samples to 1, 2 or the code's 40. Four functions are what a memo that is
  used on a second way needs, three what recursion through another function needs.
* `ResolvedTrace`, `TrackerTrace`: four functions, up to three calls in any order, interface methods with one or two
  implementations. Limits that are reached (3 or 4 functions, depth 2 or 3, 2 or 3 drawn) and the
  code's own. Trees are the plain one of the calls, and that one with a node without a call, a builtin, an argument, or
  a call left out.
* `Metadata`, the rest: up to five of eight calls between four functions with clashing and differing
  type parameters; seven programs with rings of aliases, parameters and results, one with results of a package that is not
  analysed; five types and five interfaces in two packages, with embedded and unexported methods, a type that
  is no struct, a name in both packages and a result written in two ways; types nested up to six deep round the limit
  of four; five declarations of three names, methods and functions, in two files;
  two passes after the first at most.
* `CommandRun`: two runs, each with one of four flag sets that between them have every
  writer except those of memory profiles alone (which are written with any flag), one tick of the
  collector per run, two levels of measurement. Two runs are what a stale file needs.

### Fairness, and what justifies it

* `UIServer`, `DiagServer`: `net/http` runs each handler in a goroutine and no
  critical section blocks, so a handler that can go on does. Engines, analyses and drawings
  end unless listed in `Wedged` or `Hung`: nothing bounds how long they run. The 30 s
  timer fires. No client is obliged to send anything, and nothing is assumed of the
  order in which `select` takes two ready cases.
* `MiddlewareWalk`, `ResolvedTrace`: a walk is one uninterrupted call, so its steps go on.
* `LazyTree`: a walk with no visited set asks for the children of every node it is
  handed. Fairness is for the unfolding as a whole, not for each node: the
  tree is finite in whatever order it is unfolded.
* `Engine`: a run is one uninterrupted call that always returns, if only with an error
  (`WF_vars(Step)`); no caller is obliged to begin a run or to cancel one.
* `FrameworkDeps`, `MCMetadata`: passes of one goroutine that nothing blocks; weak
  fairness of their steps as a whole, none of an order in which maps are walked. Nobody
  has to ask for a trace.
* `CallGraphSCC`, `BuildCallGraph`, `DiagView`, `TrackerTrace`, `TracePaths` and `CommandRun` have none, since only
  safety is checked.

`AllAnswered`, `Quiet`, `Returned`, `AllResolved`, `Reread` and `Ended` keep TLC's deadlock check
on in `ui_slot`, `ui_progress`, `diag_caches`, `scc`, `spec_walks` and `call_graph`: whatever else stops is reported. The others stop
when their work is done (`CHECK_DEADLOCK FALSE`); that they do not stop earlier is what
`ImplementsJob`, `MetadataEnds` and `WalkEnds` say.

## 4. What is proved

All theorems hold for every value of the constants, under the assumptions that
the modules state (`ASSUME`: request kinds are disjoint, `None` is none of them, and
the like). None of them is bounded by a number of requests, functions or nodes.

| Module | Theorems | Inductive invariant |
|---|---|---|
| `UIServer_proofs` | `TypeCorrect`, `SlotHeld`, `CancelIsTheOwners`, `StoppingIsLocal`, `SlotOwned`, `NobodyAbandonedInVain`, `SummaryIsCurrent`, `Refinement` | `SlotInv`, `StopHasACause` |
| `Pages_proofs` | `TypeCorrect`, `StaleOnlyWhenLate`, `NilOnlyAfterSwitch` (of `DiagServer`) | `CurrentInv` |
| | `DepthExact`, `PagesComplete`, `NeighboursComplete`, `ViewsComplete` (of `DiagView`) | `DepthInv`; `ViewInv` over the turns of the expansion |
| | `ResolvedTraceRight` (of `ResolvedTrace`) | `ResolvedInv` |
| | `TrackerTraceRight` (of `TrackerTrace`) | `TrackerInv` |
| | `ListRight`, `CountExact`, `PathsRight` (of `TracePaths`) | `ListInv`; `CountInv` |
| `CallGraphSCC_proofs` | `SearchCorrect`, `EmittedCalleesFirst`, `TypeCorrect`, `ComponentsDisjoint`; `ConnectedCorrect`, `ReturnedFinished`, `ComponentsExact`, `RecursionExact`, `CondensationExact`, `ReachExact` | `SearchInv`, and `ConnectedInv` on top of it |
| `SpecWalks_proofs` | `WalkCorrect`, `WalkTypeCorrect`, `AnswersReached`, `OnlyRecursionCut` (of `MiddlewareWalk`) | `WalkInv`, and `CutInv` on top of it |
| | `TypeCorrect`, `LinesStayAcyclic`, `HandlersKeep`, `NothingIsLost`, `CallsKept`, `InstancesStayBounded` (of `LazyTree`) | `LinesNotEmpty`, `CountedIsListed`, `LineKeysAreNodes`; `ListersExpanded`, `CopiesCounted` |
| `BuildCallGraph_proofs` | `TypeCorrect`, `ChainParents`, `ChainRoots`, `ChainsOwn`, `NoCallTwice`, `EveryCallRecorded`, `LinksLead` | `ChainInv`, and on top of it `RootsPlaced`; `OnceInv` with `AssignInv` and `ReachInv`; `LinkInv` with `RightInv` and `FiledInv` |
| `Engine_proofs` | `TypeCorrect`, `SelectionHeld`, `FrameworksTraced`, `JobImplemented` | `Started`, `ExcludeInv`, `AloneInv`; `WalkInv` |
| `CommandRun_proofs` | `TypeCorrect`, `InvHolds`, `SuccessWritten`, `MeasurementsHeld` | `PhaseInv` with `WrittenInv`; `MeasureInv` |
| `Metadata_proofs` | `FrameworkListRight` (of `FrameworkDeps`) | `DepsInv` |
| | `CallersInStep`, `InstancesRight` (of `GenericInstances`) | `PassInv` |
| | `TypesStay` (of `ReturnTypes`) | `TypesInv` |
| | `ImplementationsFound` (of `Implementations`) | `ImplInv` |
| | `AnswersTraced` (of `VariableOrigins`) | `OriginInv` |

What the assumptions leave out: `Graphs` and sets of packages are sets of the paths that there are, and
the depth limit of the analyzer is not zero (`FrameworkDeps`); no function is named `NotResolved`
(`MiddlewareWalk`); the call graph of a page has its functions numbered, a page size is not zero, as the handler sees to, and package paths are sequences (`DiagView`); the functions of a trace are
finitely many numbers and its limits at least 1 (`CallTrace`); a node of the tracker tree without a key is above its children, as in any tree,
while one with a key may be below itself (`TrackerTrace`); a plan lists arguments first, and a key at most once as an argument and once as a call (`LazyTree`); no link is there twice or leads from a function
to itself, which `ResolvedTraceRight` and `TrackerTraceRight` show of the links that the walks leave, and the limit of a count is neither 0 nor 1
(`TracePaths`); an expression's
parts are lower than it is (`Height`, `ReturnTypes`), as in any syntax tree; the references and parts
of types are numbers of types (`Implementations`); a declaration is in a file of its package, what
a program calls, assigns and returns has a name in it, and what is asked about are variables of its functions (`VariableOrigins`). The words that a type is
spelled with are a constant, `Words`, for the sake of the provers, which know nothing of
`STRING`; TLC is given all that occur.

### The arguments

**The slot.** `SlotHeldByLiveRun` alone is not inductive: `Finish` compares
epochs, so it must be known that epochs of different runs differ, that a run before its
gate has none, and that none is ahead of the server's. `SlotInv` adds these. With it, the run of
the current epoch is unique, `genCancel` is that run, and `finishRun` clears the slot for
no other. For `AbandonedForACause` one adds that a done context has a cause as long as
the run has not reached `SelectDone`, which cancels it itself. The refinement maps
`SlotOwner`'s CHOOSE to `genCancel` (`MappingIsCancel`), and then checks step
by step.

**The diagram server.** `CurrentInv` says of every request that was not overtaken that what it goes by is
still so: the directory it analyses is the current one and what it has read there no older than anything stored
(`DraftsAreCurrent`), the diagram it is about to keep is drawn from the metadata of now (`ViewsAreCurrent`),
and the metadata it was promised is there (`PromisesHold`). Whatever it stores is then current, and whoever
replaces the metadata overtakes all others that go by something. A diagram found in the cache is the
hard case: it was drawn by another request, and is current because nothing late has kept it, or else makes the finder late.
That a handler that has given up on its page leaves a drawing behind, while no other handler does (`NotDrawing`),
is what lets a new load begin beside it.

**Tarjan's search.** `SearchInv` is the half that keeps components apart:
the stack is ordered by index, the frames of the call stack lie on it in
order, a visited function is on the stack or emitted, an emitted component calls only
emitted ones, and every function on the stack that is handled has a lowlink that
has reached it and has been handed on. Callees-first and disjointness follow.
`ConnectedInv` is the half that keeps members together: what lies above a frame
on the stack is reached from it, a lowlink is the index of a function on the stack
that is reached, so a retired function that is still there is no root. Together, at
the end, components are the classes of mutual reachability. Reachability is
defined by closed sets, so no induction over paths is needed: `ReachesByCallee` and
`ReachesFacts` are its only properties used, and "emitted components are closed
under calls" is itself such a set.

**The single pass.** `ReachExact` compares two tables of the components, `CompReaches` and what it
should be. The pass's equation asks of each component only those before it, so it has one solution
(two that differ would do so at a first component), and what a component should be is a
solution: a function that finds the target does so by a call of its own component, or in a
component that was popped before.

**The wrapper walk.** Each activation on the path is called by the one below it, so
what it finds is reached by all of them (`WalkInv`). What a cut costs is the harder half. A function that does not
recur is never met on its own path, so nothing is cut on its way
unless it calls into recursion (`ScannedIsFound`). And in the walk of the first wrapper a cut
costs an inner activation what it would have found, but the one it was cut for is
below it on the path: whatever a visited function matches is held somewhere on the path, and
its callees are visited or still to be scanned (`ScansLoseNothing`). When that walk is over, the visited
functions are closed under calls, and all they match is with the wrapper.

**The lazy tree.** A child's key is not on its parent's line, and a chained
child's line is a prefix of that line, so no key occurs twice. `CountedIsListed`
backs every count by a node of the scope: a call that the cap refuses has a copy
in the handler's subtree, which stays. What is neither made, nor on the path, nor
counted out can only be beyond the child limit, by comparing two finite cardinalities.
For the bound, the copies of a key in a scope are mapped into the count: a copy is listed
by a node that has been expanded (`ListersExpanded`), and the sum over those that were is
what the counter holds (`CopiesCounted`). One expansion may add two copies of a key, an
argument and a call: it admits the second only if the count that includes the first is
below the cap (`CopiesSoFar`), and both are counted. `PlansAssumption` says that there are no third ones, as
`buildPlan` sees to.

**The walk over the calls.** `ChainInv` follows one descent along a spine. The calls
that wait are consecutive nodes, each the receiver of the next one out (`Stacked`).
Whatever has an edge has its key taken for the rest of the file, and so have its
receiver and, unless it still waits, the call around it (`EdgesPlaced`): a chain records
all of its calls or finds them recorded. Hence no waiting call has an edge, and of its
receivers at most the one just recorded has (`WaitingClean`, `ReceiverDone`), so that the
newest edge is the receiver's if the receiver has one. For the roots, an
edge names nothing or the root of its own chain (`RootsPlaced`); a resumed call
takes the name of its parent or asks the fallback, and both are the same
variable, so no induction over the length of a chain is needed.

**Every call, and its links.** `OnceInv` counts nothing. A call that the walk has looked at has its key taken, and an
edge unless it is shadowed; calls that are shadowed are never recorded and never
wait; and chains are recorded from the innermost call out, so that an edge whose call the walk has not
come to yet has the call around it recorded or waiting (`InsideOut`). `ReachInv` follows an assignment from the
moment the walk meets it to the edge of the call behind it. For the links, the objects of the arguments
of a call are those of the visit that recorded it, if the walk came to it first (`ArgsHeld`);
and a key that a waiting call would take has been taken since the walk came to its
chain, or not at all (`WaitingFree`), so that an argument's edge is the last one with its key when the
file ends. That this edge is the argument's and not that of another call of its chain with the same key is `RightInv`:
the key of a call that begins a spine is its own from the moment it is recorded to the end of the file
(`BeginsHeld`), since its namesakes further in were recorded before it. `FiledInv` says that the calls in a literal are filed before they are recorded.

**The engine.** Two facts about the filters are followed through a run. `ExcludeInv`: what the user
excluded is in the exclude list from the moment the object is read, and only grows; since
exclusion wins in `shouldIncludePackage`, nothing excluded is analysed or even listed as skipped, in any run on any
object. `AloneInv`: on an object that no other run has written to, the include list is
the user's, or the user's and paths of packages that have passed the filter already, so
filtering by it again loses nothing and adds nothing. That an empty list includes
everything is the case to look at: automatic patterns must not be the first ones in it.
`WalkInv` says that packages come from the walk that the frameworks come from. The
refinement (`JobImplemented`) is checked step by step, with `TypeOK` as the only help; it is
the safety half of `ImplementsJob`.

**The command.** `WrittenInv` goes phase by phase: what a phase was to write is whole once it
is over, and in it is whole or still in `left`. `PhaseInv` says that `left` belongs to
the phase, so that a later phase never touches the files of an earlier one. At the end
nothing is left. `MeasureInv`: once the engine is back there is one sample of its
duration and there will be no other, so that what is saved has it, and what is
analysed later has the same one at the same place, because samples are only appended.

**The analyzer.** Dependents: the search below a package holds only what is reached, and what it has
visited imports nothing outside it (`SearchIsSound`); when it ends, it is a closed set, so a
package from which a direct one is reached cannot have been missed. Imports: the path starts at a
direct package and each next package is listed at the depth at which it stands (`PathIsListed`), and what may
be gone into has been, is on the path, or waits (`LeftToList`). No path lengths are compared: what is missing is
missing because a package listed at the limit imports it.

**Copies of generic calls.** The index and the graph grow under the walk, so `PassInv` says what is
true of the frames of the walk while they hold old slices. A call that has been left is `Explored`:
the last call of every chain that begins with it and stays clear of the functions still being
visited is covered. A chain that is not clear has a part that is, since chains never meet a function twice.

**Return types.** Resolution is a function of the expression except where a field is looked up, and that takes
the first file that has it; so each expression has at most one type (`OneTypeEach`, for the lowest
expression with two would have a part with two). `TypesInv` then is all there is to keep.

**Implementations.** Pairing follows the order of the types (`PairInv`), so that what is paired is what
`implementsInterface` says; that this agrees with Go where methods are written alike needs that two
signatures of one type have one spelling once qualifiers are dropped (`SameSpelling`). What is recorded in the end is what was collected and
satisfied (`MatchInv`). Of the walk into types,
`LayersInv` says that what has been looked into was in the layer of its depth, and that what has come up has
been looked into, waits, or occurs in the layer just beyond the limit. A type within the limit that is not seen would have a
shallowest way to it on which something occurs in the layer just beyond the limit, and then so does the type itself,
at most `MaxDepth` layers further down (`NestedBeyond`).

**Traces.** `OriginInv` says that whatever can be answered from where a trace has come to could be answered to what
was asked (`WayInv`), and that what was remembered after everything had been recorded ends a trace in one step
(`KeptInv`). So an answer that is read from the cache is one that could have been found. What a trace without caches
answers is a recursive function over keys and visited sets; it has a solution (`SomethingTraces`, the least
table closed under the equation), and the invariant speaks of every solution. The theorem has a
hypothesis, `NamesApart`, that no file declares a function and a method of one name. It was found
by the proof, and is needed (section 5).

**Depths.** `DepthInv` is the argument for breadth-first search, for a queue with repetitions: it is
sorted by depth and spans two depths at most, a call from a visited function goes down one step at most, and
every depth has a caller one step above. The distance of a function is the least `n` with `Within[n]`.

**Views.** For the pages (`PagesAreComplete`),
each place in the filtered list lies on one page, `(p - 1) * size < k <= p * size`, which is at most the
last, and the list has no function twice; so a call is on the page that has its ends, or on none. For the package view (`NeighboursAreShown`), `ViewInv`
says after each turn of the loop over the calls that those so far at a selected function are
shown, and that any part of the view with the selection that no shown call leaves is all of it: a turn adds
a call with an end in the view already. For the tree (`TreeCountsEachNodeOnce`), the functions below a path are
those of the package itself and those below each child, which are disjoint, and the
equation that the counts satisfy level by level has the number of these functions as its only solution.

**Trace walks.** `ResolvedInv` and `TrackerInv` say that every link is real, and that what has a depth hangs together: each function
but the handler is linked to by a nearer one (`NearerLeads`), or the whole is connected. Functions are added with a link from one that has a
depth, so this survives any limit. What is not cut is finished for good: whatever a function taken from the
queue leads to has a depth or is still owed, so that at the end the functions with a depth are closed
under `Leads`, and hence are `CanRun`. For the tree this goes by nodes: one that has been opened has passed its
children on, and one whose key was taken stands for the other node with that key. The drawn part of `ResolvedTrace` is
connected because of `NearerLeads`: the nearer one is drawn first.

**The sample of paths.** The stack of `enumeratePaths` is what has still to be listed: the paths that are listed, and those that
the open calls have yet to turn to, are together all call paths (`RestAhead`), and none that is ahead is
listed already (`NoneAhead`). When the stack is empty or the sample is full, that is the theorem.

**The count.** Without recursion the call paths of a function are all ways from it to functions that call nothing,
whatever is on the stack (`OnStack`: each open call is at the next one). They split by the first callee, and the part that begins with one callee is mapped
onto that callee's own paths by taking the first function off, so the sum over the
callees taken so far is the number of paths that turn to one of them (`SumsAreRight`). A memo holds that number
(`KnowsWays`), and a loop that stops early has reached the limit (`StopsAtLimit`). The
branch for a callee on the stack is never taken without recursion.

### What is only model-checked

Liveness (`ClientsAnswered`, `ForceGetsTheSlot`, `SlotRecovers`, `RequestsAreAnswered`,
`SpecWalksEnd`, `MetadataEnds`, `WalkEnds`, and that jobs end in `ImplementsJob`): temporal reasoning under
fairness needs ENABLED, which the prover does not support. Every invariant and every action property
of a passing run is a theorem as well. What `diag_switch` shows is a counterexample.

## 5. Disagreements between code and comments

Met while modelling. Where a module states the sentence as a formula, it is named. The run `diag_switch`
checks `SwitchInvalidates`; no run checks the others, and TLC finds each violated when it is added to the
configuration that is named with it.

The servers:

* `main.go:925` (`StoppedMeansStopped`, `UIServer_progress`): `cancel()` at line 913 runs before
  `genCtx.Err()` is read, so every engine failure is reported as "generation stopped"
  and `lastErr` is never set.
* `main.go:957` (`OutputIsOfThisProject`, `UIServer_slot`): a run that ends after a project switch
  publishes under the new project.
* `main.go:947`: a Force between `superseded()` and the publishing section lets the
  superseded run replace the shared output, against "a stale/abandoned run can't
  clobber a newer one's results or state" (`main.go:242`).
* `server.go:169` (`SwitchInvalidates`, run `diag_switch`): a load that began before a switch stores metadata of the old
  project after it, and no later request loads anything, against "The next request that needs metadata
  will trigger a fresh LoadMetadata" (`server.go:122`).
* `server.go:358`: a diagram or a page drawn from metadata that was replaced meanwhile is kept in the caches that the
  replacement has emptied.
* `server.go:1130`: `HasMore` is true on the last page too.
* `server.go:1105-1110`: a call between functions of two pages is on no page, though `TotalEdges` counts it.
* `server.go:702-728`: the package view pulls in neighbours of the selection without a look at the filters.

The engine and the dependency analyzer:

* `engine.go:736` (`SelectionIsTheUsers`, `Engine`): "it's safe to call more than once" holds for the
  include and exclude lists taken by themselves, but the framework packages that one run adds are
  written into the config object, are filters of the next run on it, and are part of the
  effective configuration that is saved.
* Include and exclude patterns in a configuration file are not applied to the run that
  loads it: the file is read after the packages were filtered.
* The framework detector walks excluded, test and vendored files as well.
* `dependency_analyzer.go:455` (`AllNearAreListed`, `Metadata`): imports are not found
  "recursively" down to the limit: a path first met at the limit is not gone into when it
  is met again nearer, so the list depends on the order of a map.

The metadata:

* `metadata.go:1749` (`ChainParentIsReceiver`, `BuildCallGraph`): the chain parent is the newest edge even if
  the receiver has returned early, as a conversion does; if it is the first call of the
  program, the index is -1.
* `metadata.go:1751-1758`: the root and depth of a chain are read from the parent's
  `CalleeVarName`, which is empty for a parent whose own root came from its parent, so
  the third call falls back to `extractRootVariable` and its depth starts again
  at 1, against "Depth in chain (0 = root)" (`types.go:1005`). The root is right.
* `metadata.go:1675`: of two calls of one name on a spine, joined by a field or a curried
  call, the inner one has no edge (`Shadowed`).
* `metadata.go:1625`: the arguments of a receiver that its chain recorded are replaced
  in `argMap` when the walk comes to it, so those in the graph never get their `Edge`.
* `metadata.go:1524`: an assignment without a call is kept for the next call of the file.
* `metadata.go:420` (`InstanceHasOwnID`, `Metadata`): "Reset id" leaves the cached instance ID of the copied
  edge in place, so a new instance goes by the old one's ID.
* `analysis.go:447` (`OnlyCompleteIsRemembered`, `Metadata`): "Only cache results if packages are
  populated" asks for one package; what is missing then stays missing. `methodLookupCache`
  also remembers that the first file walked had no such method, and a variable of the
  package shadows a local one.
* `analysis.go:542` (`AnswersAreTraced` without `NamesApart`): `methodLookupCache` goes by name only. In a file with a function
  `h` of one result and a method `h` of two, a trace of the second result remembers the
  method; a later trace of the first result that walks another file first is answered from the
  method's return, which no trace of its own would have looked at.
* `metadata.go:2095` (`ExternalsWithinReach`, `Metadata`): one seen set for all types, so that an interface
  in easy reach is found in one order and missed in another.
* `analysis.go:31`: `normalizeSignature` drops the qualifiers of the types it compares, so types of one name are one to it, and
  unexported methods of two packages as well: pairs are recorded that Go does not have. Others are missed
  because `any` and `interface{}`, or `(a, b int)` and `(int, int)` in results, are compared as text.
* `metadata.go:686`, `metadata.go:1115-1127`: methods that a struct gets from what it embeds are not looked at, nor are
  those of an interface embedded in an interface, so the first loses implementations and the second gains some. Only structs are paired
  (`metadata.go:2025`), not other types with methods.
* `types.go:1538` (`NoArgumentFlips`, `Metadata`): methods of one name are told apart by the order
  of a map, against "otherwise the resolved type can flip between runs" (`types.go:1379`).

Wrappers, traces and the command:

* `reachability.go:142` (`AnswersAreComplete`, `SpecWalks`): a partial answer inside a recursive cluster of wrappers
  is remembered for good.
* `metrics.go:864` (`CountsWhatIsListed`, `Views`): `countPaths` remembers counts that were made while callees on
  the stack were cut, so on a trace with recursion it may count fewer paths than `enumeratePaths` lists, against
  "Mirrors countPaths' semantics" (`metrics.go:688`). With the links 1 to 2 and 3, 2 to 3, 3 to 2 and 4, and 4 to 1 it counts two paths
  and lists three.
* `metrics.go:540-543` (`LinksAreReal`, `TrackerTrace`): a node for an argument has the edge of the call that it is an
  argument of (`tracker.go:902-911`), and hangs below the callee. The walk takes the caller of that edge for
  an implementation of the callee and adds a link from the callee to it.
* `metrics.go`: the implementations of a function at the limit depth are shown below it; more than `maxReachable` functions
  may be visited. The depths of a trace from the call graph are not distances, since an implementation is put into the
  queue before the callees that follow it, though it is a step further off. In a trace from the tracker tree the drawn part need not be
  connected: a function may be given its depth by a link from one that is drawn after it.
* `main.go:597` of the command: `log.Fatalf` skips the deferred `Stop`, so a failing run leaves no usable profile,
  and parts of split metadata may be of two runs after a kill.
* `profiler.go`: any profiling flag writes the memory, block and mutex profiles too; starting a
  CPU profile that fails is reported as a success if the file could be closed; starting a profiler twice
  leaks the first files, and stopping a collector that was started again after a stop
  panics. None of these is reached by the command.
* `analyzer.go:234`: the numbers of allocations and frees (`memory.mallocs`, `memory.frees`) are compared with the
  report's memory limit, which is in bytes.

## 6. What is not modelled

* The text of what is produced: YAML, HTML, JSON, Cytoscape layout, type strings, log lines.
* `golang.org/x/tools` (packages, VTA), `go/ast`, `go/types`, the file system and
  the network, beyond their effects on the state above.
* In `UIServer`: handlers that only read, and those that only touch files
  (downloads, browse, detect, load/save configuration, insight pages).
* In `DiagServer` and `DiagView`: what a filter matches (a set of functions in the request), diagrams of the tracker tree, layout, statistics, compression, exports.
* Of an endpoint's page: the fan-outs and chain depths, the grade made of them, and what is displayed with a function.
* In `LazyTree`: how plans are made (`buildRelations`, `buildPlan`, `edgesFor`). Any plan
  that lists arguments first, and a key once as an argument and once as a call, is covered.
* In `BuildCallGraph`: what an assignment map holds, type parameters and the generic
  suffix of an ID, which variable of a multiple assignment is taken (the last).
* In `Engine`: the files of a package and the filters on them; what is in metadata and specification. That a package is of
  the project is taken for what `keep` reads off the module's prefix (`engine.go:838-853`, `:1141`).
* In `FrameworkDeps`: `IncludeExternalPackages` (`dependency_analyzer.go:530`), which is off by default; the skip of
  single-word paths (`:524`), which a module of one word would notice for its root package; keys of framework patterns other than the built-in ones (`:374-381`).
* In `Implementations`: types declared in functions, and several types of one name in a package.
* In `CommandRun`: the contents of files other than the metrics; the analysis of functions.
* The route extractor, mapper, security reconciliation, method dispatch and configuration
  tables: sequential code over strings, types and patterns. A model of these without the strings
  would say nothing, and with them it would be the program again. The tree they walk, and that
  the walk ends, is in `LazyTree`; the middleware they resolve is in `MiddlewareWalk`.
* The eager tracker tree, which is kept for comparison and differs from the lazy one in
  how IDs are matched.
* Everything else with status `not_modelled` in `PROJECT.json`, with the reason there.

## 7. Plan

The parts with real concurrency, the passes whose order matters, the graph algorithms
they rely on and the runs as a whole are modelled. What would add most from here:

1. **LazyRelations** (`buildRelations`, `buildPlan` of `lazytree.go`): chains,
   receiver claims and producers over a set of edges, yielding the `plan` of `LazyTree`
   and with it a proof of `PlansAssumption`.
2. **Servers**: `UIServer` and `DiagServer` composed through `SetInputDir`.
3. **Proofs** of `PlansAssumption` from `LazyRelations`.
