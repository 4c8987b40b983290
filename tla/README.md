# A TLA+ model of spack-splice

`spack splice` (in `src/spack-splice/splice`) lets one develop a few packages of an
installed Spack stack without concretizing anything. From a *base spec* and the packages
the user picks it computes the set of packages that must be rebuilt, makes a spec for
each by copying the installed one, compiles them into a *dev area*, and gives them an
environment in which they shadow the installed stack.

This directory holds TLA+ modules of the parts of it that decide something, the TLC
configurations that check them on small instances, and TLAPS proofs for the parts where
a small instance says too little. Paths below are relative to `src/spack-splice/splice`.

## 1. Inventory

| Component | State it keeps | Operations | Hard about it | Correct when |
|---|---|---|---|---|
| Graph algebra, `graph.py` | none; adjacency maps of one base spec | `adjacency`, `_closure`, `dev_set`, `build_order`, `frontier`, `view_closure`, `unshadowable`, `resolve_picks` | results that are wrong on some shapes only; nodes shared with other stacks | the rebuild set is the least convex set around the picks; the order respects every path |
| Dev specs, `specbuild.py` | spec objects in memory, rebuilt by each command | `build_specs`, `new_spec`, `borrow_abi_nodes`, `frontier_of`, `assign_prefixes`, `compute` | which *object* an edge points at, and when | a dev package is compiled against the dev builds of its dependencies, in that order |
| Recipe drift, `drift.py` | the spec being reconciled, the drift found | `reconcile` and its two halves, `_resolve` | variants and dependencies condition each other; bounded number of passes | the spec is in line with the recipe, what must stay stays, every change is reported |
| Weaving, `specbuild.py` | the base spec as the splices so far have left it | `weave`, `verify_dev_nodes` | each splice changes what the next one copies | dev builds refer to dev builds; nothing is rewired but what lies above one |
| Dev view, `view.py` | `<dev>/view` (a link), staging trees, a temporary link, marker files | `regenerate` | failures and kills between system calls, incomplete removals, other writers | whoever follows the link finds a complete tree, and the tree asked for |
| Dev area state, `state.py`, `base.py` | `splice.yaml`: base hash, base source, picks | `init`, `add`, `rm`; `resolve`, `rehydrate`, `find` | read-modify-write without a lock; the source of the base changes underneath | the file holds what the user asked for, and it fits the base |
| Build, `build.py` | prefixes under `<dev>/install`, sources under `<dev>/src` | `src`, `build` (selection, `--until`) | failures half-way, edits and other picks between builds, a directory is the only sign of a build | what is there was built against what is there; a full build leaves nothing stale |
| Runtime environment, `runtime.py` | the search paths of the user's shell | `modifications`, `built`, `shell_code` | order of prepends over several evaluations; what was dropped or is not built | dev prefixes lead every search path, whatever was evaluated before |
| Pack, `pack.py` | the tarball; `SPLICE_ROOT` and the search paths of a shell on the target | `create`; the generated `setup.sh`, `run.sh`, `modulefile` | relocation of paths by text, several tarballs, a store that is not there | a script leads to its own tarball, or refuses |
| Constraint check, `check.py` | none | `check_spec` | none of its own | reports what Spack's `satisfies` says |
| Command line, `cmd/splice.py` | none | one function per command | glue: order of reads, checks and writes | see the components |

How they interact: every command but `init` loads `splice.yaml` (`state.find`) and, all
but `rm`, looks its base spec up again (`base.rehydrate`); all but `init`, `rm` and `graph` then call
`specbuild.compute`, which calls `graph.dev_set`, `graph.build_order` and, for each spec,
`drift.reconcile` with the dev specs built so far. `view` passes the frontier of the result
to `view.regenerate`; `build` passes specs and prefixes one by one to `build.build_one`;
`env` and `pack` ask `runtime.built` which prefixes exist. There are no threads. What
runs concurrently is processes: two shells in one dev area, and whatever changes
the store, the environment and the sources meanwhile. They communicate through files.

The hazards, each at its line, are listed in `PROJECT.json`.

## 2. Modules

| Module | Models | State and actions |
|---|---|---|
| `SpecDag` | `graph.py`, by what its functions mean | operators: `Reach` for `_closure`, `Children`/`Parents` for `adjacency`, `DevSet`, `Frontier`, `Unshadowable`, `IsBuildOrder` |
| `Closure` | the worklist of `_closure` | `seen`, `stack`; `Expand(h)` is one `stack.pop()` and the loop over its successors |
| `BuildOrder` | `build_order` and its recursive `visit` | `path` is the stack of active calls and `todo` what their loops have left; `Outer`, `Descend`, `Finish` are the outer loop, a recursive call and a return |
| `DevPlan` | nothing in the code: the abstract promise of choosing packages | one step, `Decide`, from the picks to a least convex set and an order of it |
| `DevSelection` | `dev_set` and `build_order` one after the other | two instances of `Closure`, and `BuildOrder`, which it extends, run in sequence; refines `DevPlan` |
| `DevSpecs` | `specbuild.compute(weave_dag=False)` | for each spec built, which *object* each edge points at: the installed node, the dev spec, a copy of the dev spec made before its prefix was set, a node of the store; `Pass` is what one pass of `reconcile` makes of a dependency and `Reconciled` all of them; `BuildSpec`, `NewSpec`, `AssignPrefixes` are the three loops of `compute`; `Frontier` and `ViewSpecs` what `splice view` takes from the result |
| `Reconcile` | `drift.reconcile` for one spec | variants, dependencies and the drift so far; one action for each half of a pass and one for the end of a pass |
| `Weave` | `specbuild.weave` and `verify_dev_nodes` | `form` says what each node is (installed, dev, rewired, absent); `SpliceIn(h)` is one turn of the loop, in which the splice may lose dev specs (`Losing`), `Vanished(h)` one that finds no node to copy, `Verify` the guard after the loop |
| `DevView` | `view.regenerate` | the disk (trees, markers, the two links) and each process's locals; one action per system call (`Rebuild` takes `rmtree`, `mkdir` and the build of the tree together, in a staging directory nobody else looks at), plus `Raise`, `Crash` |
| `DevArea` | `splice init/add/rm` over `splice.yaml` | the file, the world the base spec comes from, and each process's `State` object; a command is begin (load), `Rehydrate`, `Open` (which empties the file), `Dump` |
| `DevBuild` | `splice src` and `splice build`, between which packages are picked and dropped | prefixes with what they were compiled from; the edges of the base spec, and those of the specs to compile, of which drift or `--new` may have gained some; `Check`, `Compile`, `Install`, `Fill` for each package, `Fail`, `Stop`; edits of sources and recipes, `SpliceAdd`, `SpliceRm` |
| `Runtime` | `splice env` in one shell | `path` (a variable recipes set) and `lib` (`LD_LIBRARY_PATH`); `SpliceEnv` is one evaluation: base half, dev half, floor, pruning; `Select` and `SpliceBuild` are what happens in between |
| `Packed` | what `pack.py` generates, on the target | tarballs in places, `$SPLICE_ROOT`, a search path; `SourceSetup`, `Run`, `ModuleLoad` are one use of a script; `Unpack`, `Move`, `Mount` are the target's |

`MC...` modules give the constants their values for TLC; `..._proofs` hold the theorems.
Those about the graphs of `SpecDag`, `Closure` and `BuildOrder` are in
`DevSelection_proofs`, which most of the others take their facts about graphs from; those
about `Runtime` and `Packed`, the two ends of one search path, are in
`Environment_proofs`, and `Packed` names its specification `TargetSpec` so that both can
be extended there. `DevSelection` composes `Closure` and `BuildOrder`;
`DevSpecs` composes `BuildOrder` with the passes of `reconcile` over each spec's
dependencies, for which a recipe is the set of dependencies it wants in each pass; why it
wants one in a pass and not in another is in `Reconcile`. `DevBuild` and `Runtime` take the dev set from `SpecDag`
whenever the picks change, which `DevSelection` shows to be what the code computes.

Operators with a comment "What ... would be if" are slips a maintainer could make.
They are used in no specification; each is there to see that a property notices it.

### Conventions and abstractions

* A spec is its hash, and in `DevSpecs` its package, because `resolve_picks` refuses a
  name with two nodes. `sorted()` on hashes is an order on numbers, and graphs are
  enumerated with every labelling, so that no order is favoured.
* A traversal with a set has no order a result depends on: `Closure` may expand any member
  of the stack.
* `DevSpecs` counts origins of edges, not deptypes: `link` edges are those that propagate
  (link or run), `build` edges the build-only ones. An edge that provides a virtual stays
  whatever the recipe wants. A package of `Store` is one of which the store has exactly one
  ABI-compatible build; several raise a `DriftError`, as none does. A pass in which nothing
  changes ends the loop in the code and is repeated in the model, which changes nothing.
* `Reconcile`: a condition (`when=`) is a set of facts about the spec; one that cannot be
  evaluated does not hold. Values are absent, default or chosen.
* `DevView`: a view's content is its `_content_hash`. `rmtree(ignore_errors=True)` removes
  the tree or leaves a part of it, with or without the marker. A killed process
  runs no handler.
* `DevArea`: a dump over another process's dump yields a file that cannot be read or a
  mixture of the two. `off` records that some pick was checked against another spec than
  the recorded base, `asked` and `overlap` what the user has a right to
  expect; none of the three influences a step. That a name has several nodes in the base
  spec (`graph.py:186-198`), and that a source of the base cannot be read or is not
  concrete, are errors of commands that write nothing, and are not told apart from others.
* `Weave`: a node is named by the hash of the installed node in its place. `Spec.splice`
  is Spack's; what it does with `transitive=False` is taken from how `weave` uses it:
  it replaces the node and rewires everything above, and a rewired node has the
  binary of the node it was. From what `weave` says it has seen and guards against
  (`specbuild.py:239-244`), a splice may also put the installed node of any dev package
  spliced before back, or leave no node of a dev package. The hash of a node is not computed.
* `DevBuild`: the hash of a spec is the versions of the recipes it covers; sources
  are not part of it. Packages are numbered in build order, and `queue` is the set of those
  still to be built, the least of them first; that `compute` finds such an order is
  `DevSelection`'s; it is taken to be the same for all dev sets. Dependencies that drift or
  `--new` brought in are there from the beginning (`gained`): as copies where they name a dev
  package before their dependent, else they are installed and no edge of the model. A new
  package is no dependency of another. An edit of a recipe does not change the dependencies;
  `DevSpecs` has that. Installing over a prefix that is there replaces what it was compiled
  from; the code cleans nothing, so that files that an older source installed may stay. The compiler, installed tools and externals may be gone at any
  time and are not modelled one by one: `Stop` stands for all of them.
* `Runtime`: an entry of a search path is a package and the dev packages its hash
  covers. A recipe prepends its prefix or appends it. `EnvironmentModifications` are
  applied in order, which is external. Loops over packages in order are written in closed
  form, by the set of packages and their ranks in it (`InOrder`): what prepends to a
  search path ends up reversed in front of it, pruning keeps the entries at the
  first position of each. Every prefix that is there has libraries: the code looks for
  `lib` and `lib64` (`runtime.py:72`).
* `Packed`: an entry is where it comes from (dev area, store, user) and a name.
  Whether the dev area's path is a leading part of the store's is chosen once, and so is
  the shell; `BASH_SOURCE` is known in bash alone.

## 3. Runs

| Run | Checks | Bounds, and why they suffice |
|---|---|---|
| `dev_selection` | `StaysInBase`, `ImplementsPlan`, `Terminates` | all stores of 4 hashes, all roots, all picks: a diamond, a chain with a gap, hash orders that agree and disagree with the edges, and specs outside the base spec that depend on specs inside. The first two are proved for any size |
| `dev_specs` | `InheritedDev`, `NoOldCopyBetween`, `OrderedAfterDependencies`, `InstalledOnlyBeforeDev`, `CompilersStay`, `OldBuildsComeWithTools` | all base specs of 3 plain packages and a runtime node, 2 new packages, 2 packages of the store, one of which may be developed as a new one, and any 2 deviations (build-only edge, provider, recipe edit that drops or gains a dependency in all passes or in the later ones only, no runtime nodes): enough for an interval with an implied member, for a gained dependency in either direction, for one that is dropped in the first pass and gained again, for build tools that link a dev package, and for new packages that depend on each other |
| `reconcile` | `BreakMeansInLine`, `EnoughPasses`, `Protected`, `DriftNamesEveryChange` | 2 variants and 2 dependencies, each undeclared, unconditional or under one condition on another; a reserved variant, a compiler node, a virtual: chains, cycles that oscillate until `MAX_PASSES` (4, as in the code), and providers |
| `dev_view` | `ViewIsWhole`, `SwapsOnlyToWanted`, `LitterIsBounded`, `FailureLeavesView` | 1 process, 3 contents, one with conflicts, 4 tree names, 2 kills or incomplete removals: a kill in one call, a second in the call that meets what the first left. Any number of exceptions |
| `dev_area` | `PicksFitBase`, `RecordsChoices` | 2 processes, 2 base specs of which one has the package and one does not, 2 events (a kill, a change of environment, file or store) |
| `dev_build` | `PrefixHasItsDependencies`, `FullBuildIsCurrent`, `EnvMatchesSelection`, `OthersAreLeftAlone` | 3 packages in a chain or a triangle: as in the base spec, with an edge that is not a build dependency, with a dependency dropped, gained, or dropped and gained again by drift, and with the third package new; all picks; 1 edit of a source, a recipe or the picks; any number of failures and kills. One edit is enough for a prefix that is stale in each of the three ways |
| `weave` | `CopiedFromDev`, `OnlyAboveIsRewired` | all acyclic graphs, roots and picks on 4 hashes, every order of splices that respects dependencies, and any dev specs lost in any splice |
| `runtime` | `DevInFront`, `DroppedGoesBehind`, `OnlyLinkedIsUnbuilt`, `EvalAgainChangesNothing` | a triangle of 3 packages, one edge of which is no build dependency and one recipe of which appends; any picks, drops and builds between 3 evaluations: a pick, a drop, and the same pick again with its old prefix on the path |
| `packed` | `UsesItsOwn` | 2 tarballs of one dev area with different contents, 2 places, 3 uses of the scripts: one that leaves a root, one after the tarball has moved or another has taken its place, and one after that |

Each passing run also checks the module's type invariant. Deadlock is checked for
`dev_view`; the other systems end or reach the bound of their events.

Three runs check what a comment or a document says and the model, following the code,
refutes; `PROJECT.json` quotes the lines.

| Run | The statement | What TLC finds |
|---|---|---|
| `drift_dev_build` | a dependency gained on a package that is also being developed picks up the dev build (`drift.py:122`) | not if the build order, computed before drift, puts that package later: the installed one is taken |
| `moved_base` | every later command warns when the source was re-concretized (`claude_readme.md:129`) | with several roots every later command fails and asks for `--root` |
| `two_views` | a regeneration that fails leaves the previous view untouched (`view.py:9`) | not if another replaced the temporary link: its handler removes a tree that the other has made the view |

### Fairness

Only `DevSelection` has a liveness property. `WF_vars(Next)` says that the Python program
goes on executing its loops, which is all a sequential function needs. The other modules
state no fairness: commands may be killed, never be run again or fail for ever, and nothing
in the code retries.

## 4. Proofs

| Module | Theorem | In words |
|---|---|---|
| `DevSelection_proofs` | `DevSetConvex`, `DevSetLeast` | in any graph, the interval closure of the picks is the least convex set that holds them |
| `DevSelection_proofs` | `OrderTypes`, `OrderIsBottomUp`, `OrderCoversDevSet`, `OrderIsTransitivelyBottomUp` | of `BuildOrder` on its own: for any acyclic graph and any dev set |
| `DevSelection_proofs` | `ProgressInvariant`, `ClosureIsReach` | of `Closure` on its own: the worklist computes reachability, in any graph |
| `DevSelection_proofs` | `SelectionStaysInBase`, `SelectionIsInterval`, `SelectionImplementsPlan` | for every acyclic store, base spec and picks, the code's three loops implement `DevPlan` |
| `DevSpecs_proofs` | `SpecsInheritDev`, `SpecsNoOldCopy`, `SpecsAreOrdered`, `SpecsUseDevBuilds`, `SpecsKeepCompilers`, `ViewIsCleanBelowLinks` | for any base spec, picks, new packages, packages of the store and recipes |
| `Reconcile_proofs` | `BreakIsFixpoint`, `PassesSuffice`, `ReconcileProtects`, `DriftIsComplete` | for every recipe and every copied spec |
| `Weave_proofs` | `WovenStaysBuilt`, `WovenFromDev`, `RewiredIsAbove` | for any base spec and any dev set, whatever splices lose |
| `DevView_proofs` | `OneWriterKeepsViewWhole`, `OneWriterSwapsToWanted`, `OneWriterFailureLeavesView`, `OneWriterLittersLittle` | for any contents and any number of kills, with at most one process |
| `DevArea_proofs` | `PicksAlwaysFitBase`, `FileRecordsChoices` | for any number of processes, specs, names and events |
| `DevBuild_proofs` | `PrefixesHaveDependencies`, `FullBuildsAreCurrent`, `EnvIsConsistent`, `BuildLeavesOthersAlone` | for any base spec, drift, new packages, picks and number of edits, failures and kills |
| `Environment_proofs` | `DevAlwaysLeads`, `DroppedAlwaysBehind`, `EvaluatingAgainIsIdle`, `OnlyLinksAreMissing` | for any base spec, recipes, picks, drops and builds, and any number of evaluations |
| `Environment_proofs` | `ScriptsUseTheirOwn` | for any tarballs, places and number of uses |

Each of these modules has a `TypeInvariant` too (`Environment_proofs` a
`TargetTypeInvariant` beside it). Assumptions are the named `ASSUME`s of the modules
(`SelectionAssumption`, `PackagesAssumption`, `ScenariosAssumption`, `ReconcileAssumption`, `WeaveAssumption`, `ViewAssumption`,
`AreaAssumption`, `BuildAssumption`, `RuntimeAssumption`, `PackedAssumption`), which say that constants have the shapes their comments give, and
that specs are acyclic; TLC evaluates them in the runs.

* **Reachability.** `Reach` is defined as an intersection of closed sets, so that its
  properties (it is closed, least, monotone, transitive, and turns round with the edges)
  follow without induction. `DevSetConvex`: if `n` is between two members, it is above
  something above a pick and below something below one.
* **The worklist.** `Progress`: what has been grown is reachable, and everything not on
  the stack is expanded. When the stack is empty, `seen` is closed.
* **The order.** `BottomUp` is not inductive. `DFS` adds what makes depth-first search
  work: the stack is a path in the graph, every spec seen is placed or on the
  stack, and what the loops of the active calls have already looked at is placed or is the
  next call. The one subtle step is `ChildNotOnStack`: a child that is on the stack would
  close a cycle.
* **The selection.** `SelectionInv` carries the invariants of the three loops through the
  phases: the worklists' while they run, what their end says afterwards, and `DFS` from
  the moment `dev` is decided. The refinement is by cases: every step but the last
  return leaves `Done` false and stutters; the last one meets `Good`, by
  `DevSetConvex`, `DevSetLeast` and the theorems about the order.
* **The dev specs.** `SpecsInv` has four parts. `InputsInv`: the scenario is one that
  the assumption allows, and the graph and the dev set are computed from it. `OrderingInv`:
  the depth-first search as in `DevSelection_proofs`, finished when the copies begin.
  `BuiltInv`: what is built is a leading part of that order, followed by new packages, each
  once; prefixes are assigned to all of it at the end. `EdgesInv`: which object each edge of
  a built spec points at (`Shaped`), and that dev objects come before it. Four passes are
  four applications of `Pass` to one dependency, so what a spec may end up with follows
  by cases, without induction: an edge that every pass wants keeps what it points at, and
  one that comes back comes from `_resolve`, which finds what was built before. For
  `InheritedDev`, a child in the dev set is placed before its parent, so it is among the
  specs built when the parent is copied; `NoOldCopyBetween` is convexity, and so is
  `OldBuildsComeWithTools` for what was inherited as a link dependency.
* **The loop of `reconcile`.** `PassInv` says what `changed` means between the two halves
  of a pass: while it is false, nothing differs from what the pass began with, so what the
  first half found to be in line is still so after the second. `EnoughPasses` needs to know
  how far a pass gets: what the spec says of the facts that have settled after `k` passes is
  right from then on, whatever it held before, so that when all facts have settled nothing
  is left to change. The recursive function that counts the rounds is used through its
  recursion equation only, which is proved by a minimal counterexample (`WFMin`), because
  induction over an operator is out of reach.
* **Weaving.** `WeaveInv` gives the form of every node that was not lost as a function of
  what has been spliced so far, and what was lost stays lost: its package is not spliced
  again. So what passes `verify_dev_nodes` was never lost, and every copy was made while its
  dev dependencies were dev builds. That a dev spec is never rewired rests on the order:
  whatever lies above a spec still to be spliced and is itself in the dev set is to be
  spliced too, which needs convexity.
* **The view.** `WriterInv` says, for the one process, what the disk looks like at each
  step: before the swap the temporary link, if it is there after `SymlinkTmp`, names the
  staging tree, which is whole and marked; the view is never the staging tree
  before the swap and never the tree dropped after it. Two processes break this, as
  `two_views` shows, and the theorems assume it away explicitly. For `LitterIsBounded` each
  tree on the disk but those that the process at its step still has a name for is
  charged to one mishap: a step that gives a name up removes the tree, or spends a kill or
  an incomplete removal.
* **The file.** `AreaInv`: without overlap, at most one command is under way, one
  about to dump finds an empty file, and every `State` in memory fits its base and holds
  the picks it must hold at its step. `init` alone in the area restores all of it
  whatever the file held before.
* **The build.** `BuildInv` relates three pieces of state that the code relates only by
  names: the plan of the running command is closed (`PlanInv`: a hash names exactly the
  planned packages it covers, and contains their own hashes, because what a package covers
  is the same seen from any of its dependents, `BelowPart`); past `check_buildable`, what
  the current package needs is there (`WorkInv`); every prefix was compiled against what
  its hash names (`PrefixInv`). `PrefixHasItsDependencies` is not inductive without the first
  two, because edits go on while a build runs. `FreshInv` adds what a build of everything has
  achieved so far: what the queue has passed is current, and what the compile has seen is
  what is wanted. It uses that a dependency has a lower number, so that it is no longer in
  the queue at the turn of its dependents.
* **The environment.** First, numbers in order: the rank of a member of a finite set
  of numbers is different from every other's and reaches every position, so `InOrder`
  lists the set and is the only increasing sequence that does. Then any search path:
  pruning keeps the entries, in the order in which they first came, so what is put in
  front stays in front (`PrunedFront`), and putting the same in front and behind a second
  time leaves the path as it is (`PrunedAgain`, `LayeredAgain`).
  `RuntimeInv` holds the path and `LD_LIBRARY_PATH` of a shell that has just evaluated the
  environment to be such fixpoints; from that `DevInFront` and `DroppedGoesBehind` follow
  by the order of the two layers, and `EvalAgainChangesNothing` at once.
  `OnlyLinkedIsUnbuilt` is not inductive: it needs that the dev set is convex, that
  a spec was built after the dev builds of its build dependencies (`BuiltClosed`), and of
  every dev entry on the paths, however old, a built spec whose hash covers it
  (`Covered`).
* **The packed scripts.** `UsesItsOwn` and the types are inductive together, since each
  use records what it did and everything else erases the record. The argument is in the
  operators: what `Export` yields is a sequence of prefixes
  (`ExportIs`), and lines that prepend one by one, emitted last entry first, leave
  the entries in order (`PushedIsInFront`).

Only model-checked: `Terminates`, since liveness is out of the prover's reach, and the
three runs that expect a violation.

## 5. What the model shows beside the properties

Consequences of the code that were found when a property was tried in a stronger form
than the one kept, or that bound one of the properties. The first group disagrees with a
comment or a document; the hazards in `PROJECT.json` refer to this list.

* A dependency on a dev package that drift or a new package adds is a copy of the dev
  spec made before prefixes are assigned (`drift.py:180`). Its prefix stays the
  store's. As a build dependency it stops the build, of the whole dev set too, with "not
  built yet", against `build.py:100`; as another one it is not seen by the compile. `Gone`
  and `Sees` of `DevBuild` have both.
* A dependency on a dev package that one pass of `reconcile` drops and a later one gains
  again (`drift.py:179-189`) becomes such a copy, against `specbuild.py:301`: the
  recipe says the same as before. `InheritedDev` says when a dependency stays the dev
  build: when every pass wants it.
* A dependency gained by drift and found in the store is in the frontier but not in the
  view, because `view_closure` lists only what a traversal of the base root meets, against
  `cmd/splice.py:292`.
* An installed package on a path between a `--new` package and a picked one is not
  rebuilt, against `cmd/splice.py:124`.
* A dev package whose recipe gains a dependency on a `--new` package stops every command
  with a `DriftError`, against `specbuild.py:426`.
* A build tool in the frontier that is also linked or run by the stack, and links a dev
  package, has the installed build of that package merged into the view, against
  `view.py:3`. `OldBuildsComeWithTools` says that it comes in no other way than below
  such a tool or below what drift or a new package brought in.
* `SPACK_SPLICE_DIR`, which `splice env` exports, is looked at before the cwd: commands
  inside another area then work on the first one, against `state.py:108`.
* `splice src` fills a `--path` directory that is empty or does not exist, against
  `cmd/splice.py:362`.
* On a search path that a recipe appends to, the installed build stays in front of the dev
  build, against `runtime.py:55`.
* The prefix of an unbuilt dev package that a built one links, but does not build-depend
  on, enters the environment, against `cmd/splice.py:492` ("will be absent from the
  environment") and the docstring at `test_runtime.py:24`. `OnlyLinkedIsUnbuilt` says that
  nothing else does, over any picks, drops and builds. It asks for a built spec that
  covers the missing prefix, not for one that is still on the path or in the dev set: with
  four packages the prefix may stay in a shell after the package that brought it was
  dropped.
* Sourcing the `setup.sh` of a second tarball puts the first one's directory into its
  entries, because `SPLICE_ROOT` is kept, against `pack.py:27`. `UsesItsOwn` is stated for
  uses that find no root, or the place of the script.
* `setup.sh` exports the root before it checks it: in a shell that does not tell a script
  its place, a refused attempt in the wrong directory leaves that directory as the root,
  and later attempts are refused too, those from a bash started there included, which the
  script's own hint recommends (`pack.py:114`).
* The modulefile sets variables that are no search path to the packing machine's dev
  area, which `setup.sh` relocates, against `pack.py:148`.
* A variant that the user had chosen falls back to its default if its condition names a
  dependency that drift adds in the same pass, against `test_drift.py:96` ("must not reset
  a chosen value").
* With conditions chained further than `MAX_PASSES`, `reconcile` returns a spec that is not
  a fixpoint, against `drift.py:202`; `EnoughPasses` says how far they may chain.
* If the dev area's path is a leading part of the store's, store entries are relocated
  too and lead nowhere, against `pack.py:84`.

No comment or document says otherwise of these:

* Two commands at once can lose a pick or mangle `splice.yaml`; a kill in the middle
  of a write leaves it empty, and all commands but `init` then fail.
* A dev package that is a build-only dependency of another one is not ordered before it.
* `--until` on a fresh area stops at the second package: the first is not installed, so
  its dependents fail their check.
* `LD_LIBRARY_PATH` keeps, in front of everything, the libraries of a package that was
  dropped, in a shell that had evaluated the environment before.

## 6. Not modelled

* `Spec.splice`, the database and the concretizer: Spack's. `recanonicalize` changes no
  node, nothing loads what `save` writes, and `check_abi_preserved` compares and prints.
* `state.find`'s walk up from the cwd and the environment variable: `DevArea` starts in an
  area that was found.
* `enrich_from_prefix`, which returns another record of the same spec, and
  `host_os_mismatch`, which warns.
* The deptypes of edges that drift adds, several candidates for one in the store, and the
  architecture filter. A recipe that turns a build dependency into a link dependency is
  not noticed by the code, and cannot be told in the model.
* File conflicts in a view beyond their existence; what RUNPATH and RPATH do at load time.
* The archive `pack` writes, `splice.json`, shell quoting, and variables that are no
  search path; rendering of the environment for a shell.
* `check` and the reports, which keep no state.

## 7. Plan

Done, in this order because each next one rests on those before it: graph algebra, the
worklist and the order; selection and its refinement; dev specs; reconciliation; the view;
the dev area; the build; weaving; the environment; the packed scripts; and the theorems of
section 4.

Left, the model: deptypes of edges in `DevSpecs` and `Reconcile`; the woven DAG against
specs that drift has changed; `DevArea`, `DevBuild` and `DevView` in one area.

Left, the proofs: none of the safety properties above. What the first item of the model
brings will need its own.

## 8. Running it

    tlc -workers 2 -config DevView.cfg DevView.tla      # or any other pair in PROJECT.json
    tlapm DevView_proofs.tla
