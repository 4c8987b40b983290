------------------------------ MODULE DevSpecs ------------------------------
(***************************************************************************)
(* specbuild.compute: turning picks into the specs to compile.  The specs  *)
(* of the dev set are copied from the base spec in build order, each one's *)
(* dependencies re-pointed at dev builds and reconciled with its recipe;   *)
(* packages added with --new follow; prefixes are assigned last.           *)
(*                                                                         *)
(* A package stands for its node: the base spec has one node per name      *)
(* (resolve_picks refuses others).  What varies about a dependency is      *)
(* which node the edge points at:                                          *)
(*   "base"   the node of the installed base spec                          *)
(*   "store"  a node of the store that is not in the base spec             *)
(*   "dev"    the very dev spec being built, so its prefix is seen         *)
(*   "copy"   a copy of a dev spec made before prefixes were assigned      *)
(***************************************************************************)
EXTENDS Naturals, FiniteSets, Sequences

CONSTANTS Base,         \* the packages of the base spec
          Abi,          \* those that are ABI_NODES
          New,          \* packages with a recipe that are not in the base spec
          Store,        \* packages of which the store has one ABI-compatible build
          Scenarios,    \* the inputs considered: records of link and build-only
                        \* edges, those of them that provide a virtual, root, picks
                        \* and added (picked with --new)
          Recipes(_)    \* for each input, what its recipes may want now: sets of
                        \* <<p, q, k>>, "in pass k the recipe of p wants q"

Pkg == Base \cup New \cup Store
MaxPasses == 4
Passes == 1 .. MaxPasses

ASSUME PackagesAssumption ==
    /\ Pkg \subseteq Nat                \* sorted() orders hashes and names
    /\ Base \cap New = {} /\ Abi \subseteq Base

VARIABLES in,           \* the inputs, constant
          recipes,      \* what recipes want in each pass, once read
          children,     \* adjacency(root, PROPAGATE)
          dev,          \* dev_set(root, picks)
          pending, path, todo, visited, ordered,        \* build_order
          phase,        \* "order", "copy", "new", "prefixes", "done" or "error"
          dep,          \* the edges of each spec built so far
          order,        \* Computed.order: the specs built so far, in order
          prefixed      \* the spec objects set_prefix was called on

visiting == <<pending, path, todo, visited, ordered>>
result == <<dep, order, prefixed>>
given == <<in, children, dev>>
vars == <<given, recipes, visiting, phase, result>>

Dag == INSTANCE SpecDag WITH Hash <- Base
Order == INSTANCE BuildOrder WITH Hash <- Base

ASSUME ScenariosAssumption ==
    \A s \in Scenarios :
        /\ s.link \subseteq Base \X Base /\ s.build \subseteq Base \X Base
        /\ s.providing \subseteq s.link \cup s.build
        /\ Dag!Acyclic(s.link) /\ s.root \in Base
        /\ s.picks \subseteq Dag!Nodes(s.link, s.root) /\ s.added \subseteq New

Origin == {"none", "base", "store", "dev", "copy"}
Built == {order[i] : i \in DOMAIN order}

TypeOK ==
    /\ phase \in {"order", "copy", "new", "prefixes", "done", "error"}
    /\ Order!OrderTypeOK
    /\ dep \in [Pkg -> [Pkg -> Origin]]
    /\ order \in Seq(dev \cup in.added)
    /\ prefixed \subseteq dev \cup in.added

NoDeps == [q \in Pkg |-> "none"]
Edges == in.link \cup in.build

Init ==
    /\ in \in Scenarios
    /\ recipes = {}
    /\ children = Dag!Children(in.link, in.root)
    /\ dev = Dag!DevSet(in.link, in.root, in.picks)
    /\ pending = dev /\ path = <<>> /\ visited = {} /\ ordered = <<>>
    /\ todo = [h \in Base |-> Dag!Succ(children, h) \cap dev]
    /\ phase = "order"
    /\ dep = [h \in Pkg |-> NoDeps]
    /\ order = <<>>
    /\ prefixed = {}

BuildOrderStep ==
    /\ phase = "order"
    /\ UNCHANGED <<given, recipes, phase, result>>
    /\ Order!OrderNext

\* The recipes are what the user has made of them by the time they are read.
ReadRecipes ==
    /\ phase = "order" /\ Order!OrderDone
    /\ phase' = "copy"
    /\ recipes' \in Recipes(in)
    /\ UNCHANGED <<given, visiting, result>>

(* drift._resolve(name, prefer): a dev spec already built, else the base    *)
(* spec's node, else the only candidate of the store; "missing" raises.     *)
\* What it would be if "prefer" named the whole dev set.
ResolvePlanned(q) ==
    IF q \in dev \cup in.added THEN "copy" ELSE IF q \in Base THEN "base" ELSE "store"
\* What it would be if the base spec came first.
ResolveInstalled(q) ==
    IF q \in Base THEN "base" ELSE IF q \in Built THEN "copy"
    ELSE IF q \in Store THEN "store" ELSE "missing"
Resolve(q) ==
    IF q \in Built THEN "copy" ELSE IF q \in Base THEN "base"
    ELSE IF q \in Store THEN "store" ELSE "missing"

(* What depends_on names for p, virtuals apart, where its condition holds.  *)
(* Variants and dependencies come and go from one pass to the next and make *)
(* conditions hold or not (module Reconcile): with conditions on variants   *)
(* that condition each other, a dependency can be wanted in any of the      *)
(* passes and not in the others.                                            *)
Wants(p, k) == {q \in Pkg : <<p, q, k>> \in recipes}
Always(p) == {q \in Pkg : \A k \in Passes : q \in Wants(p, k)}
Kept(p) == Abi \cup {q \in Pkg : <<p, q>> \in in.providing}

(* What one pass of drift.reconcile makes of a dependency, which is had, as *)
(* what it is, or "none": one that the recipe wants and the spec lacks is   *)
(* resolved; one that it has and the recipe does not want goes, except      *)
(* compiler and runtime nodes and providers of virtuals.                    *)
\* What it would be without "name in ABI_NODES".
PassUnshielded(p, q, k, had) ==
    CASE had = "missing" -> "missing"
      [] had = "none" -> IF q \in Wants(p, k) THEN Resolve(q) ELSE "none"
      [] OTHER -> IF q \in Wants(p, k) \cup (Kept(p) \ Abi) THEN had ELSE "none"
Pass(p, q, k, had) ==
    CASE had = "missing" -> "missing"
      [] had = "none" -> IF q \in Wants(p, k) THEN Resolve(q) ELSE "none"
      [] OTHER -> IF q \in Wants(p, k) \cup Kept(p) THEN had ELSE "none"

\* drift.reconcile(spec, prefer): a pass in which nothing changes is repeated
\* here until MAX_PASSES is reached, which changes nothing either.
Reconciled(p, have) ==
    [q \in Pkg |-> Pass(p, q, 4, Pass(p, q, 3, Pass(p, q, 2, Pass(p, q, 1, have[q]))))]

\* Builds p from the edges it starts with, or stops with a DriftError.
Emit(p, have) ==
    LET edges == Reconciled(p, have) IN
    IF \A q \in Pkg : edges[q] # "missing"
    THEN /\ dep' = [dep EXCEPT ![p] = edges]
         /\ order' = Append(order, p)
         /\ phase' = phase
    ELSE phase' = "error" /\ UNCHANGED <<dep, order>>

\* node.copy(deps=True) alone.
CopiedAsInstalled(h) == [q \in Pkg |-> IF <<h, q>> \in Edges THEN "base" ELSE "none"]

\* node.copy(deps=True), then replace_dependency for every child in the dev set.
Copied(h) == [q \in Pkg |-> IF q \in Dag!Succ(children, h) \cap dev THEN "dev"
                             ELSE IF <<h, q>> \in Edges THEN "base" ELSE "none"]

\* The loop of build_specs takes the next hash of the build order.
BuildSpec ==
    /\ phase = "copy" /\ Len(order) < Len(ordered)
    /\ LET h == ordered[Len(order) + 1] IN Emit(h, Copied(h))
    /\ UNCHANGED <<given, recipes, visiting, prefixed>>

SpecsBuilt ==
    /\ phase = "copy" /\ Len(order) = Len(ordered)
    /\ phase' = "new"
    /\ UNCHANGED <<given, recipes, visiting, result>>

(* new_spec: the compiler nodes of some base package that has them, then    *)
(* everything the recipe wants.  Names are taken in sorted order.           *)
Donors == {d \in Base : Dag!Succ(Edges, d) \cap Abi # {}}
Borrowed(d) == [q \in Pkg |-> IF q \in Dag!Succ(Edges, d) \cap Abi THEN "base" ELSE "none"]

NewSpec ==
    /\ phase = "new"
    /\ \E n \in in.added \ Built :
          /\ Order!LeastIn(n, in.added \ Built)
          /\ \/ \E d \in Donors : Emit(n, Borrowed(d))
             \/ Donors = {} /\ phase' = "error" /\ UNCHANGED <<dep, order>>
    /\ UNCHANGED <<given, recipes, visiting, prefixed>>

NewSpecsBuilt ==
    /\ phase = "new" /\ in.added \subseteq Built
    /\ phase' = "prefixes"
    /\ UNCHANGED <<given, recipes, visiting, result>>

\* What AssignPrefixes would be over the nodes of the base spec.
PrefixEverything ==
    /\ phase = "prefixes"
    /\ phase' = "done"
    /\ prefixed' = Base
    /\ UNCHANGED <<given, recipes, visiting, dep, order>>

(* assign_prefixes: set_prefix on each spec object.  An edge that points at *)
(* the object sees it; an edge that points at a copy does not.              *)
AssignPrefixes ==
    /\ phase = "prefixes"
    /\ phase' = "done"
    /\ prefixed' = Built
    /\ UNCHANGED <<given, recipes, visiting, dep, order>>

Next == \/ BuildOrderStep \/ ReadRecipes
        \/ BuildSpec \/ SpecsBuilt
        \/ NewSpec \/ NewSpecsBuilt
        \/ AssignPrefixes

Spec == Init /\ [][Next]_vars

Done == phase = "done"

(* frontier_of: what the dev specs depend on, told apart from them by name. *)
FrontierOfAll == {q \in Pkg : \E p \in Built : dep[p][q] # "none"}
Frontier == {q \in Pkg : \E p \in Built : dep[p][q] # "none"} \ Built
(* view_closure(root, frontier): only nodes of the base spec are listed.    *)
ViewSpecs == Dag!Reach(children, Frontier \cap Base) \cap Dag!Nodes(Edges, in.root)

Position(p) == CHOOSE i \in DOMAIN order : order[i] = p

(* A dev package is never compiled against the installed build of a dev     *)
(* package it depends on through the base spec.  Unless some pass over its  *)
(* recipe found that dependency unwanted, it is compiled against the dev    *)
(* build itself, prefix and all, and after it (specbuild.py:284-303); a     *)
(* dependency dropped and gained again is a copy of it (drift.py:180).      *)
InheritedDev ==
    Done => \A p, q \in dev : <<p, q>> \in in.link =>
        /\ dep[p][q] \in {"none", "dev", "copy"}
        /\ q \in Always(p) \cup Kept(p) =>
               dep[p][q] = "dev" /\ q \in prefixed /\ Position(q) < Position(p)

(* Whatever else a dev package inherits reaches no dev package, so no       *)
(* installed library between two dev packages brings the old one back in    *)
(* (graph.py:73-91).                                                        *)
NoOldCopyBetween ==
    Done => \A p \in dev, q \in Base : (<<p, q>> \in in.link /\ dep[p][q] = "base") =>
                Dag!Reach(in.link, {q}) \cap dev = {}

(* No spec is ordered before a dev build it points at, whichever way it     *)
(* came to point at it (specbuild.py:294-308, 428-430).                     *)
OrderedAfterDependencies ==
    \A i \in DOMAIN order, q \in Pkg : dep[order[i]][q] \in {"dev", "copy"} =>
        \E j \in 1 .. i - 1 : order[j] = q

(* A spec depends on an installed build of a package that was built before  *)
(* it only through a build-only dependency it inherits: in every pass over  *)
(* every recipe, what is gained finds the dev builds there are first, on    *)
(* the base spec and in the store (drift.py:119-164, specbuild.py:294-303). *)
InstalledOnlyBeforeDev ==
    \A i \in DOMAIN order : \A j \in 1 .. i - 1 :
        (order[j] \notin Abi /\ dep[order[i]][order[j]] \in {"base", "store"}) =>
            <<order[i], order[j]>> \in in.build

(* No number of passes over any recipe takes away a compiler or runtime     *)
(* node that a spec inherits or borrows, or trades it for another one, so   *)
(* all that is compiled has the base spec's (drift.py:186,                  *)
(* specbuild.py:88-120).                                                    *)
CompilersStay ==
    \A p \in Built :
        /\ \A q \in Abi \ dev : dep[p][q] \in {"none", "base"}
        /\ p \in dev => \A q \in Dag!Succ(Edges, p) \cap Abi : dep[p][q] # "none"
        /\ p \notin dev => \E q \in Abi : dep[p][q] # "none"

(* The view merges what is not being rebuilt (view.py:3-4).  Where it holds *)
(* the installed build of a package being built, that comes from below a    *)
(* package which a spec did not inherit as a link dependency: a build tool, *)
(* or one that drift or a new package brought in; never from below the      *)
(* libraries of the dev packages (graph.py:133-142, specbuild.py:313-325).  *)
OldBuildsComeWithTools ==
    Done => \A x \in ViewSpecs \cap Built :
        \E p \in Built, t \in Frontier \cap Base :
            dep[p][t] # "none" /\ <<p, t>> \notin in.link /\ x \in Dag!Reach(children, {t})

-----------------------------------------------------------------------------
(* What a comment of the code says, and what does not hold on inputs with   *)
(* recipe drift.                                                            *)

(* drift.py:122-125: a package that gains a dependency on something you are *)
(* also developing picks up the dev build rather than the installed one.    *)
DriftPicksUpDevBuild ==
    Done => \A p, q \in Built :
                (q \in Always(p) /\ <<p, q>> \notin Edges) => dep[p][q] \in {"dev", "copy"}
=============================================================================
