--------------------------- MODULE DevSpecs_proofs ---------------------------
(***************************************************************************)
(* What compute promises of the specs it builds, for every base spec, any  *)
(* picks, new packages and recipes, with up to MAX_PASSES passes over each *)
(* recipe: what they are compiled against is the dev build wherever it     *)
(* must be, built before them, the compilers stay those of the base spec,  *)
(* and the view holds old builds of dev packages only below build tools.   *)
(***************************************************************************)
EXTENDS DevSpecs, TLAPS

\* The theory of the graph and of build_order, for the children map used here.
OrderP == INSTANCE DevSelection_proofs WITH
    Hash <- Base, Dags <- {}, edges <- in.link, root <- in.root, picks <- in.picks,
    parents <- {}, upSeen <- {}, upStack <- {}, downSeen <- {}, downStack <- {}

LEMMA SameGraph ==
    /\ OrderP!SelectionAssumption
    /\ \A E, S : Dag!Reach(E, S) = OrderP!Reach(E, S)
    /\ \A E, h : Dag!Succ(E, h) = OrderP!Succ(E, h)
    /\ \A E, r : Dag!Nodes(E, r) = OrderP!Nodes(E, r)
    /\ \A E, r : Dag!Children(E, r) = OrderP!Children(E, r)
    /\ \A E, r, P : Dag!DevSet(E, r, P) = OrderP!DevSet(E, r, P)
    /\ \A E : Dag!Acyclic(E) <=> OrderP!Acyclic(E)
<1>1. \A E, S : Dag!Reach(E, S) = OrderP!Reach(E, S)
  BY DEF Dag!Reach, OrderP!Reach, Dag!Closed, OrderP!Closed
<1>2. \A E, h : Dag!Succ(E, h) = OrderP!Succ(E, h)
  BY DEF Dag!Succ, OrderP!Succ
<1>3. \A E, r : Dag!Nodes(E, r) = OrderP!Nodes(E, r)
  BY <1>1 DEF Dag!Nodes, OrderP!Nodes
<1>4. \A E, r : /\ Dag!Children(E, r) = OrderP!Children(E, r)
                /\ Dag!Parents(E, r) = OrderP!Parents(E, r)
  BY <1>3 DEF Dag!Children, OrderP!Children, Dag!Parents, OrderP!Parents, Dag!Flip, OrderP!Flip
<1>5. \A E, r, P : Dag!DevSet(E, r, P) = OrderP!DevSet(E, r, P)
  BY <1>1, <1>4 DEF Dag!DevSet, OrderP!DevSet
<1>6. \A E : Dag!Acyclic(E) <=> OrderP!Acyclic(E)
  BY <1>1, <1>2 DEF Dag!Acyclic, OrderP!Acyclic
<1>7. OrderP!SelectionAssumption
  BY PackagesAssumption DEF OrderP!SelectionAssumption, Pkg
<1> QED
  BY <1>1, <1>2, <1>3, <1>4, <1>5, <1>6, <1>7

-----------------------------------------------------------------------------
\* What compute is given, and what it derives from that first.
InputsInv ==
    /\ in \in Scenarios
    /\ children = Dag!Children(in.link, in.root)
    /\ dev = Dag!DevSet(in.link, in.root, in.picks)

LEMMA Given ==
    ASSUME InputsInv
    PROVE  /\ in.link \in SUBSET (Base \X Base) /\ in.build \in SUBSET (Base \X Base)
           /\ in.added \in SUBSET New /\ dev \in SUBSET Base
           /\ children \in SUBSET in.link /\ OrderP!Acyclic(children)
           /\ \A p, q \in dev : <<p, q>> \in in.link => <<p, q>> \in children
           /\ OrderP!Convex(in.link, dev)
<1>1. /\ in.link \in SUBSET (Base \X Base) /\ in.build \in SUBSET (Base \X Base)
      /\ OrderP!Acyclic(in.link) /\ in.root \in Base
      /\ in.picks \in SUBSET OrderP!Nodes(in.link, in.root) /\ in.added \in SUBSET New
  BY ScenariosAssumption, SameGraph DEF InputsInv
<1>2. /\ children = OrderP!Children(in.link, in.root)
      /\ dev = OrderP!DevSet(in.link, in.root, in.picks)
  BY SameGraph DEF InputsInv
<1>3. OrderP!Acyclic(children)
  BY SameGraph, <1>1, <1>2, OrderP!ChildrenAcyclic
<1>4. dev \subseteq OrderP!Nodes(in.link, in.root) /\ dev \subseteq Base
  BY SameGraph, <1>1, <1>2, OrderP!DevSetInBase
<1>5. OrderP!Convex(in.link, dev)
  BY SameGraph, <1>1, <1>2, OrderP!DevSetConvex
<1> QED
  BY <1>1, <1>2, <1>3, <1>4, <1>5 DEF OrderP!Children

-----------------------------------------------------------------------------
\* The order is in the middle of being computed, or computed.
OrderingInv == OrderP!OrderTypeOK /\ OrderP!DFS /\ (phase # "order" => Order!OrderDone)

\* The specs built so far: the dev set in that order, then the new packages.
BuiltInv ==
    /\ order \in Seq(dev \cup in.added)
    /\ phase = "order" => order = <<>>
    /\ phase = "copy" => Len(order) <= Len(ordered)
    /\ phase \in {"new", "prefixes", "done"} => Len(order) >= Len(ordered)
    /\ phase \in {"prefixes", "done"} => in.added \subseteq Built
    /\ \A i \in DOMAIN order : i <= Len(ordered) => order[i] = ordered[i]
    /\ \A i \in DOMAIN order : i > Len(ordered) => order[i] \in in.added
    /\ \A i, j \in DOMAIN order : order[i] = order[j] => i = j
    /\ prefixed = IF phase = "done" THEN Built ELSE {}

\* One dependency of a spec that is built, or that a pass is over.
EdgeShaped(p, q, o) ==
    /\ o = "base" => q \in Base
    /\ o = "store" => q \in Store \ Base
    /\ q \in Abi \ dev => o \in {"none", "base"}
    /\ (p \in dev /\ q \in Dag!Succ(Edges, p) \cap Abi) => o # "none"
    /\ (p \in dev /\ q \in Dag!Succ(children, p) \cap dev) =>
           /\ o \in {"none", "dev", "copy"}
           /\ q \in Always(p) \cup Kept(p) => o = "dev"

Shaped(p, edges) ==
    /\ \A q \in Pkg : EdgeShaped(p, q, edges[q])
    /\ p \notin dev => \E q \in Abi : edges[q] # "none"

EdgesInv ==
    /\ dep \in [Pkg -> [Pkg -> Origin]]
    /\ \A p \in Built : Shaped(p, dep[p])
    /\ OrderedAfterDependencies
    /\ InstalledOnlyBeforeDev

SpecsInv ==
    /\ phase \in {"order", "copy", "new", "prefixes", "done", "error"}
    /\ InputsInv /\ OrderingInv /\ BuiltInv /\ EdgesInv

LEMMA SpecsInit == Init => SpecsInv
<1> SUFFICES ASSUME Init PROVE SpecsInv
  OBVIOUS
<1>1. InputsInv
  BY DEF Init, InputsInv
<1>2. /\ OrderP!Acyclic(children) /\ children \in SUBSET (Base \X Base) /\ dev \in SUBSET Base
      /\ pending = dev /\ path = <<>> /\ visited = {} /\ ordered = <<>>
      /\ todo = [h \in Base |-> OrderP!Succ(children, h) \cap dev]
  BY <1>1, Given, SameGraph DEF Init
<1>3. OrderP!OrderTypeOK
  BY <1>2 DEF OrderP!OrderTypeOK, OrderP!Succ
<1>4. OrderP!DFS
  BY <1>2
  DEF OrderP!DFS, OrderP!StackIsPath, OrderP!StackOK, OrderP!Untouched, OrderP!NoDuplicates,
      OrderP!BottomUp, OrderP!DependencyFirst, OrderP!Placed, OrderP!OnStack, OrderP!Succ
<1>5. phase = "order" /\ order = <<>> /\ Built = {} /\ prefixed = {}
      /\ dep \in [Pkg -> [Pkg -> Origin]]
  BY DEF Init, Built, NoDeps, Origin
<1> QED
  BY <1>1, <1>3, <1>4, <1>5
  DEF SpecsInv, OrderingInv, BuiltInv, EdgesInv, OrderedAfterDependencies, InstalledOnlyBeforeDev

\* The steps of the instance DevSpecs uses are those the theory is about.
LEMMA OrderSteps ==
    ASSUME OrderP!OrderTypeOK, OrderP!DFS, Order!OrderNext
    PROVE  OrderP!OrderTypeOK' /\ OrderP!DFS'
<1> USE DEF Order!OrderInputs, OrderP!OrderInputs, Order!Top, OrderP!Top, Order!LeastIn,
            OrderP!LeastIn, Order!Visit, OrderP!Visit
<1>1. ASSUME Order!Finish
      PROVE  OrderP!Finish /\ OrderP!DFS'
  <2>1. OrderP!Finish
    BY <1>1 DEF Order!Finish, OrderP!Finish
  <2> QED
    BY SameGraph, <2>1, OrderP!DFSFinish
<1>2. ASSUME NEW h \in Base, Order!Outer(h)
      PROVE  OrderP!Outer(h) /\ OrderP!DFS'
  <2>1. OrderP!Outer(h)
    BY <1>2 DEF Order!Outer, OrderP!Outer
  <2> QED
    BY SameGraph, <2>1, OrderP!DFSOuter
<1>3. ASSUME NEW k \in Base, Order!Descend(k)
      PROVE  OrderP!Descend(k) /\ OrderP!DFS'
  <2>1. OrderP!Descend(k)
    BY <1>3 DEF Order!Descend, OrderP!Descend
  <2> QED
    BY SameGraph, <2>1, OrderP!DFSDescend
<1>4. OrderP!OrderNext
  BY <1>1, <1>2, <1>3 DEF Order!OrderNext, OrderP!OrderNext
<1>5. OrderP!OrderTypeOK'
  BY SameGraph, <1>4, OrderP!OrderTypeStep
<1> QED
  BY <1>1, <1>2, <1>3, <1>5 DEF Order!OrderNext

LEMMA InputsStep == InputsInv /\ [Next]_vars => InputsInv' /\ UNCHANGED given
BY DEF InputsInv, Next, vars, given, BuildOrderStep, ReadRecipes, BuildSpec, SpecsBuilt, NewSpec,
       NewSpecsBuilt, AssignPrefixes

LEMMA OrderingStep == SpecsInv /\ [Next]_vars => OrderingInv'
<1> SUFFICES ASSUME SpecsInv, [Next]_vars PROVE OrderingInv'
  OBVIOUS
<1>1. OrderP!OrderTypeOK /\ OrderP!DFS /\ UNCHANGED given
  BY InputsStep DEF SpecsInv, OrderingInv
<1>2. CASE BuildOrderStep
  BY <1>1, <1>2, OrderSteps DEF BuildOrderStep, OrderingInv
<1>3. CASE UNCHANGED visiting
  <2>1. OrderP!OrderTypeOK' /\ OrderP!DFS'
    BY <1>1, <1>3
    DEF given, visiting, OrderP!OrderTypeOK, OrderP!DFS, OrderP!StackIsPath, OrderP!StackOK,
        OrderP!Untouched, OrderP!NoDuplicates, OrderP!BottomUp, OrderP!Placed, OrderP!OnStack,
        OrderP!Awaited
  <2>2. phase' # "order" => Order!OrderDone
    BY DEF SpecsInv, OrderingInv, Next, vars, BuildOrderStep, ReadRecipes, BuildSpec, SpecsBuilt,
           NewSpec, NewSpecsBuilt, AssignPrefixes
  <2> QED
    BY <1>3, <2>1, <2>2 DEF OrderingInv, Order!OrderDone, visiting
<1> QED
  BY <1>2, <1>3
  DEF Next, vars, ReadRecipes, BuildSpec, SpecsBuilt, NewSpec, NewSpecsBuilt, AssignPrefixes
-----------------------------------------------------------------------------
\* Once the recipes are read, the order is what build_order promises.
LEMMA OrderIsReady ==
    ASSUME SpecsInv, phase # "order"
    PROVE  /\ ordered \in Seq(dev) /\ {ordered[i] : i \in DOMAIN ordered} = dev
           /\ \A i, j \in DOMAIN ordered : ordered[i] = ordered[j] => i = j
           /\ OrderP!DependencyFirst(children, dev, ordered)
<1>1. OrderP!OrderTypeOK /\ OrderP!DFS /\ Order!OrderDone
  BY DEF SpecsInv, OrderingInv
<1> QED
  BY <1>1
  DEF OrderP!OrderTypeOK, OrderP!DFS, Order!OrderDone, OrderP!NoDuplicates, OrderP!BottomUp,
      OrderP!Placed, OrderP!OnStack

\* Who can have been built: packages of the dev set and new ones.
LEMMA BuiltFrom ==
    ASSUME SpecsInv
    PROVE  /\ order \in Seq(dev \cup in.added) /\ Built \in SUBSET (dev \cup in.added)
           /\ dev \in SUBSET Base /\ in.added \in SUBSET New
           /\ Base \cap New = {} /\ Abi \in SUBSET Base
BY Given, PackagesAssumption DEF SpecsInv, BuiltInv, Built

\* What the next spec of the build order depends on in the dev set was built.
LEMMA NextSpec ==
    ASSUME SpecsInv, phase = "copy", Len(order) < Len(ordered)
    PROVE  LET h == ordered[Len(order) + 1]
           IN  /\ h \in dev \ Built
               /\ OrderP!Succ(children, h) \cap dev \subseteq Built
<1> DEFINE n == Len(order) + 1
<1>1. n \in DOMAIN ordered /\ Len(order) \in Nat /\ DOMAIN order = 1 .. Len(order)
  BY BuiltFrom, OrderIsReady
<1>2. \A i \in 1 .. Len(order) : i \in DOMAIN ordered /\ order[i] = ordered[i] /\ i # n
  BY <1>1, OrderIsReady DEF SpecsInv, BuiltInv
<1>3. ordered[n] \notin Built
  BY <1>1, <1>2, OrderIsReady DEF Built
<1>4. ordered[n] \in dev
  BY <1>1, OrderIsReady
<1>5. OrderP!Succ(children, ordered[n]) \cap dev \subseteq {ordered[j] : j \in 1 .. n - 1}
  BY <1>1, OrderIsReady DEF OrderP!DependencyFirst, OrderP!Earlier
<1>6. {ordered[j] : j \in 1 .. n - 1} \subseteq Built
  BY <1>1, <1>2 DEF Built
<1> QED
  BY <1>3, <1>4, <1>5, <1>6

LEMMA BuiltStep == SpecsInv /\ [Next]_vars => BuiltInv'
<1> SUFFICES ASSUME SpecsInv, [Next]_vars PROVE BuiltInv'
  OBVIOUS
<1>1. BuiltInv /\ UNCHANGED <<in, children, dev>>
  BY InputsStep DEF SpecsInv, given
<1>2. order \in Seq(dev \cup in.added)
  BY <1>1 DEF BuiltInv
<1>3. CASE BuildOrderStep
  BY <1>1, <1>3 DEF BuildOrderStep, BuiltInv, result, Built
<1>4. CASE ReadRecipes
  <2>1. order = <<>> /\ ordered \in Seq(dev) /\ UNCHANGED <<ordered, order, prefixed>>
    BY <1>1, <1>4
    DEF ReadRecipes, BuiltInv, result, visiting, SpecsInv, OrderingInv, OrderP!OrderTypeOK
  <2> QED
    BY <1>1, <1>4, <2>1 DEF ReadRecipes, BuiltInv, Built
<1>5. CASE BuildSpec
  <2> DEFINE h == ordered[Len(order) + 1]
  <2>1. /\ phase = "copy" /\ Len(order) < Len(ordered) /\ Emit(h, Copied(h))
        /\ UNCHANGED <<ordered, prefixed>> /\ ordered \in Seq(dev)
    BY <1>5, OrderIsReady DEF BuildSpec, visiting
  <2>2. h \in dev /\ h \notin Built
    BY <2>1, NextSpec
  <2>3. CASE order' = Append(order, h) /\ phase' = phase
    <3> HIDE DEF h
    <3>1. /\ order' \in Seq(dev \cup in.added) /\ Len(order') = Len(order) + 1
          /\ order'[Len(order) + 1] = h
          /\ \A i \in DOMAIN order : order'[i] = order[i] /\ order[i] # h
      BY <1>2, <2>2, <2>3 DEF Built
    <3>2. DOMAIN order' = DOMAIN order \cup {Len(order) + 1}
      BY <1>2, <2>3
    <3>3. \A i \in DOMAIN order' : i <= Len(ordered) => order'[i] = ordered[i]
      BY <1>1, <3>1, <3>2 DEF BuiltInv, h
    <3>4. \A i \in DOMAIN order' : ~ (i > Len(ordered))
      BY <1>2, <2>1, <3>2
    <3>5. \A i, j \in DOMAIN order' : order'[i] = order'[j] => i = j
      BY <1>1, <3>1, <3>2 DEF BuiltInv
    <3>6. Len(order') <= Len(ordered')
      BY <1>2, <2>1, <3>1
    <3> QED
      BY <1>1, <2>1, <2>3, <3>1, <3>3, <3>4, <3>5, <3>6 DEF BuiltInv
  <2>4. CASE phase' = "error" /\ order' = order
    BY <1>1, <2>1, <2>4 DEF BuiltInv
  <2> QED
    BY <2>1, <2>3, <2>4 DEF Emit
<1>6. CASE SpecsBuilt
  BY <1>1, <1>2, <1>6 DEF SpecsBuilt, BuiltInv, result, visiting
<1>7. CASE NewSpec
  <2>1. /\ phase = "new" /\ UNCHANGED <<ordered, prefixed>> /\ ordered \in Seq(dev)
    BY <1>7, OrderIsReady DEF NewSpec, visiting
  <2>2. CASE phase' = "error" /\ order' = order
    BY <1>1, <2>1, <2>2 DEF BuiltInv
  <2>3. ASSUME NEW n \in in.added \ Built, order' = Append(order, n), phase' = phase
        PROVE  BuiltInv'
    <3>1. /\ order' \in Seq(dev \cup in.added) /\ Len(order') = Len(order) + 1
          /\ order'[Len(order) + 1] = n
          /\ \A i \in DOMAIN order : order'[i] = order[i] /\ order[i] # n
      BY <1>2, <2>3 DEF Built
    <3>2. DOMAIN order' = DOMAIN order \cup {Len(order) + 1}
      BY <1>2, <2>3
    <3>3. Len(order) >= Len(ordered) /\ Len(order) \in Nat /\ Len(ordered) \in Nat
      BY <1>1, <1>2, <2>1 DEF BuiltInv
    <3>4. /\ \A i \in DOMAIN order' : i <= Len(ordered) => order'[i] = ordered[i]
          /\ \A i \in DOMAIN order' : i > Len(ordered) => order'[i] \in in.added
      BY <1>1, <1>2, <3>1, <3>2, <3>3 DEF BuiltInv
    <3>5. \A i, j \in DOMAIN order' : order'[i] = order'[j] => i = j
      BY <1>1, <3>1, <3>2 DEF BuiltInv
    <3> QED
      BY <1>1, <2>1, <2>3, <3>1, <3>3, <3>4, <3>5 DEF BuiltInv
  <2> QED
    BY <1>7, <2>2, <2>3 DEF NewSpec, Emit
<1>8. CASE NewSpecsBuilt
  BY <1>1, <1>8 DEF NewSpecsBuilt, BuiltInv, result, visiting, Built
<1>9. CASE AssignPrefixes
  BY <1>1, <1>9 DEF AssignPrefixes, BuiltInv, visiting, Built
<1>10. CASE UNCHANGED vars
  BY <1>1, <1>10 DEF vars, visiting, result, BuiltInv, Built
<1> QED
  BY <1>3, <1>4, <1>5, <1>6, <1>7, <1>8, <1>9, <1>10 DEF Next
-----------------------------------------------------------------------------
\* A dependency of the spec that is being reconciled, before and after a pass.
PassInv(p, q, o) ==
    /\ o \in Origin \cup {"missing"}
    /\ EdgeShaped(p, q, o)
    /\ o \in {"dev", "copy"} => q \in Built
    /\ (q \in Built \ Abi /\ o \in {"base", "store"}) => <<p, q>> \in in.build

\* The edges a spec starts with.
StartsWith(p, have) ==
    /\ \A q \in Pkg : PassInv(p, q, have[q])
    /\ p \in dev => Dag!Succ(children, p) \cap dev \subseteq Built
    /\ p \notin dev => \E q \in Abi : have[q] # "none"

\* What is resolved is never an installed build of what is built.
LEMMA ResolveTakes ==
    ASSUME SpecsInv, NEW q \in Pkg
    PROVE  /\ q \in Built => Resolve(q) = "copy"
           /\ q \notin Built => Resolve(q) \in {"base", "store", "missing"}
           /\ Resolve(q) = "base" => q \in Base
           /\ Resolve(q) = "store" => q \in Store \ Base
           /\ q \in Abi \ dev => Resolve(q) = "base"
<1>1. q \in Abi \ dev => q \in Base \ Built
  BY BuiltFrom
<1> QED
  BY <1>1 DEF Resolve

\* No pass over the recipe disturbs what the edges are like.
LEMMA PassKeeps ==
    ASSUME SpecsInv, NEW p \in Pkg, NEW q \in Pkg, NEW k \in Passes, NEW o, PassInv(p, q, o),
           p \in dev => Dag!Succ(children, p) \cap dev \subseteq Built
    PROVE  /\ PassInv(p, q, Pass(p, q, k, o))
           /\ (q \in Abi /\ o # "none") => Pass(p, q, k, o) # "none"
<1> DEFINE to == Pass(p, q, k, o)
<1> SUFFICES PassInv(p, q, to) /\ ((q \in Abi /\ o # "none") => to # "none")
  OBVIOUS
<1>1. q \in Always(p) => q \in Wants(p, k)
  BY DEF Always
<1>2. Abi \in SUBSET Kept(p)
  BY DEF Kept
<1>3. CASE o = "missing"
  BY <1>3 DEF Pass
<1>4. CASE o = "none"
  <2>1. CASE q \in Wants(p, k)
    <3>1. to = Resolve(q)
      BY <1>4, <2>1 DEF Pass
    <3> HIDE DEF to
    <3>2. to \in Origin \cup {"missing"} /\ (to \in {"dev", "copy"} => q \in Built)
      BY <3>1, ResolveTakes DEF Origin
    <3>3. ~ (q \in Built /\ to \in {"base", "store"})
      BY <3>1, ResolveTakes
    <3>4. ~ (p \in dev /\ q \in Dag!Succ(Edges, p) \cap Abi)
      BY <1>4 DEF PassInv, EdgeShaped
    <3>5. (p \in dev /\ q \in Dag!Succ(children, p) \cap dev) =>
              to = "copy" /\ q \notin Always(p) \cup Kept(p)
      BY <1>4, <3>1, ResolveTakes DEF PassInv, EdgeShaped
    <3>6. EdgeShaped(p, q, to)
      BY <3>1, <3>4, <3>5, ResolveTakes DEF EdgeShaped
    <3> QED
      BY <1>4, <3>2, <3>3, <3>6 DEF PassInv
  <2>2. CASE q \notin Wants(p, k)
    BY <1>4, <2>2 DEF Pass
  <2> QED
    BY <2>1, <2>2
<1>5. CASE o \notin {"missing", "none"}
  <2>1. CASE q \in Wants(p, k) \cup Kept(p)
    <3>1. to = o
      BY <1>5, <2>1 DEF Pass
    <3> QED
      BY <3>1, <1>5
  <2>2. CASE q \notin Wants(p, k) \cup Kept(p)
    <3>1. to = "none"
      BY <1>5, <2>2 DEF Pass
    <3>2. q \notin Abi /\ q \notin Always(p) \cup Kept(p)
      BY <1>1, <1>2, <2>2
    <3> HIDE DEF to
    <3>3. EdgeShaped(p, q, to)
      BY <3>1, <3>2 DEF EdgeShaped
    <3> QED
      BY <3>1, <3>2, <3>3 DEF PassInv, Origin
  <2> QED
    BY <2>1, <2>2
<1> QED
  BY <1>3, <1>4, <1>5

\* After MAX_PASSES passes a spec is in shape, and depends on an installed
\* build of what was built only as it did before.
LEMMA ReconcileKeeps ==
    ASSUME SpecsInv, NEW p \in Pkg, NEW have, StartsWith(p, have),
           \A q \in Pkg : Reconciled(p, have)[q] # "missing"
    PROVE  /\ Reconciled(p, have) \in [Pkg -> Origin]
           /\ Shaped(p, Reconciled(p, have))
           /\ \A q \in Pkg : PassInv(p, q, Reconciled(p, have)[q])
<1> DEFINE one(q) == Pass(p, q, 1, have[q])
           two(q) == Pass(p, q, 2, one(q))
           three(q) == Pass(p, q, 3, two(q))
           four(q) == Pass(p, q, 4, three(q))
<1>1. 1 \in Passes /\ 2 \in Passes /\ 3 \in Passes /\ 4 \in Passes
  BY DEF Passes, MaxPasses
<1>2. Reconciled(p, have) = [q \in Pkg |-> four(q)]
  BY DEF Reconciled
<1>3. p \in dev => Dag!Succ(children, p) \cap dev \subseteq Built
  BY DEF StartsWith
<1>4. ASSUME NEW q \in Pkg
      PROVE  /\ PassInv(p, q, four(q))
             /\ (q \in Abi /\ have[q] # "none") => four(q) # "none"
  <2>1. PassInv(p, q, have[q])
    BY DEF StartsWith
  <2>2. /\ PassInv(p, q, one(q))
        /\ (q \in Abi /\ have[q] # "none") => one(q) # "none"
    BY <1>1, <1>3, <2>1, PassKeeps
  <2> HIDE DEF one
  <2>3. /\ PassInv(p, q, two(q))
        /\ (q \in Abi /\ one(q) # "none") => two(q) # "none"
    BY <1>1, <1>3, <2>2, PassKeeps
  <2> HIDE DEF two
  <2>4. /\ PassInv(p, q, three(q))
        /\ (q \in Abi /\ two(q) # "none") => three(q) # "none"
    BY <1>1, <1>3, <2>3, PassKeeps
  <2> HIDE DEF three
  <2>5. /\ PassInv(p, q, four(q))
        /\ (q \in Abi /\ three(q) # "none") => four(q) # "none"
    BY <1>1, <1>3, <2>4, PassKeeps
  <2> QED
    BY <2>2, <2>3, <2>4, <2>5
<1> HIDE DEF one, two, three, four
<1>5. Abi \in SUBSET Pkg
  BY BuiltFrom DEF Pkg
<1>6. \A q \in Pkg : four(q) \in Origin
  BY <1>2, <1>4 DEF PassInv
<1>7. p \notin dev => \E q \in Abi : Reconciled(p, have)[q] # "none"
  BY <1>2, <1>4, <1>5 DEF StartsWith
<1> QED
  BY <1>2, <1>4, <1>6, <1>7 DEF Shaped, PassInv

\* Adding a spec disturbs none of those built before it.
LEMMA EmitStep ==
    ASSUME SpecsInv, UNCHANGED <<given, recipes>>,
           NEW p \in Pkg \ Built, NEW have, StartsWith(p, have), Emit(p, have)
    PROVE  EdgesInv'
<1>1. /\ order \in Seq(dev \cup in.added) /\ dep \in [Pkg -> [Pkg -> Origin]]
      /\ \A q \in Built : Shaped(q, dep[q])
      /\ UNCHANGED <<in, children, dev, recipes>>
      /\ Built \in SUBSET Pkg
  BY BuiltFrom DEF SpecsInv, EdgesInv, given, Pkg
<1>2. ASSUME NEW q, NEW edges, Shaped(q, edges)
      PROVE  Shaped(q, edges)'
  BY <1>1, <1>2 DEF Shaped, EdgeShaped, Always, Kept, Wants, Edges, Dag!Succ
<1>3. CASE UNCHANGED <<dep, order>>
  BY <1>1, <1>3
  DEF SpecsInv, EdgesInv, Built, OrderedAfterDependencies, InstalledOnlyBeforeDev, Shaped,
      EdgeShaped, Always, Kept, Wants, Edges, Dag!Succ
<1>4. CASE /\ \A q \in Pkg : Reconciled(p, have)[q] # "missing"
           /\ dep' = [dep EXCEPT ![p] = Reconciled(p, have)]
           /\ order' = Append(order, p)
  <2>1. /\ Reconciled(p, have) \in [Pkg -> Origin] /\ Shaped(p, Reconciled(p, have))
        /\ \A q \in Pkg : PassInv(p, q, Reconciled(p, have)[q])
    BY <1>4, ReconcileKeeps
  <2>2. /\ dep' \in [Pkg -> [Pkg -> Origin]] /\ dep'[p] = Reconciled(p, have)
        /\ \A q \in Built : dep'[q] = dep[q]
    BY <1>1, <1>4, <2>1
  <2>3. /\ DOMAIN order' = DOMAIN order \cup {Len(order) + 1} /\ order'[Len(order) + 1] = p
        /\ \A i \in DOMAIN order : order'[i] = order[i] /\ order[i] \in Built
        /\ Built' = Built \cup {p} /\ Len(order) \in Nat /\ DOMAIN order = 1 .. Len(order)
    <3>1. /\ DOMAIN order' = DOMAIN order \cup {Len(order) + 1} /\ order'[Len(order) + 1] = p
          /\ \A i \in DOMAIN order : order'[i] = order[i]
          /\ Len(order) \in Nat /\ DOMAIN order = 1 .. Len(order)
      BY <1>1, <1>4
    <3> QED
      BY <3>1 DEF Built
  <2>4. \A q \in Built' : Shaped(q, dep'[q])
    BY <1>1, <2>1, <2>2, <2>3
  <2>5. OrderedAfterDependencies'
    <3> SUFFICES ASSUME NEW i \in DOMAIN order', NEW q \in Pkg,
                        dep'[order'[i]][q] \in {"dev", "copy"}
                 PROVE  \E j \in 1 .. i - 1 : order'[j] = q
      BY DEF OrderedAfterDependencies
    <3>1. CASE i \in DOMAIN order
      <4>1. PICK j \in 1 .. i - 1 : order[j] = q
        BY <2>2, <2>3, <3>1 DEF SpecsInv, EdgesInv, OrderedAfterDependencies
      <4> QED
        BY <2>3, <3>1, <4>1
    <3>2. CASE i = Len(order) + 1
      <4>1. q \in Built
        BY <2>1, <2>2, <2>3, <3>2 DEF PassInv
      <4>2. PICK j \in DOMAIN order : order[j] = q
        BY <4>1 DEF Built
      <4> QED
        BY <2>3, <3>2, <4>2
    <3> QED
      BY <2>3, <3>1, <3>2
  <2>6. InstalledOnlyBeforeDev'
    <3> SUFFICES ASSUME NEW i \in DOMAIN order', NEW j \in 1 .. i - 1,
                        order'[j] \notin Abi,
                        dep'[order'[i]][order'[j]] \in {"base", "store"}
                 PROVE  <<order'[i], order'[j]>> \in in.build
      BY <1>1 DEF InstalledOnlyBeforeDev
    <3>1. j \in DOMAIN order /\ order'[j] = order[j] /\ order[j] \in Built
      BY <2>3
    <3>2. CASE i \in DOMAIN order
      BY <2>2, <2>3, <3>1, <3>2 DEF SpecsInv, EdgesInv, InstalledOnlyBeforeDev
    <3>3. CASE i = Len(order) + 1
      <4>1. order[j] \in Pkg /\ Reconciled(p, have)[order[j]] \in {"base", "store"}
        BY <1>1, <2>2, <2>3, <3>1, <3>3
      <4> QED
        BY <2>1, <2>3, <3>1, <3>3, <4>1 DEF PassInv
    <3> QED
      BY <2>3, <3>2, <3>3
  <2>7. (\A q \in Built : Shaped(q, dep[q]))'
    <3> SUFFICES ASSUME NEW q \in Built', NEW edges, edges = dep'[q]
                 PROVE  Shaped(q, dep[q])'
      OBVIOUS
    <3>1. Shaped(q, edges)'
      BY <1>2, <2>4
    <3> QED
      BY <3>1 DEF Shaped, EdgeShaped
  <2> QED
    BY <2>2, <2>5, <2>6, <2>7 DEF EdgesInv
<1> QED
  BY <1>3, <1>4 DEF Emit

LEMMA EdgesStep == SpecsInv /\ [Next]_vars => EdgesInv'
<1> SUFFICES ASSUME SpecsInv, [Next]_vars PROVE EdgesInv'
  OBVIOUS
<1>1. UNCHANGED given
  BY InputsStep DEF SpecsInv
<1>2. CASE UNCHANGED <<recipes, dep, order>>
  BY <1>1, <1>2
  DEF given, SpecsInv, EdgesInv, Built, OrderedAfterDependencies, InstalledOnlyBeforeDev, Shaped,
      EdgeShaped, Always, Kept, Wants, Edges, Dag!Succ
<1>3. CASE ReadRecipes
  <2>1. order = <<>> /\ order' = <<>> /\ dep' = dep
    BY <1>3 DEF ReadRecipes, SpecsInv, BuiltInv, result
  <2> QED
    BY <2>1 DEF SpecsInv, EdgesInv, Built, OrderedAfterDependencies, InstalledOnlyBeforeDev
<1>4. CASE BuildSpec
  <2> DEFINE h == ordered[Len(order) + 1]
  <2>1. h \in dev \ Built /\ OrderP!Succ(children, h) \cap dev \subseteq Built
    BY <1>4, NextSpec DEF BuildSpec
  <2>2. UNCHANGED recipes /\ Emit(h, Copied(h))
    BY <1>4 DEF BuildSpec
  <2>3. h \in Pkg
    BY <2>1, BuiltFrom DEF Pkg
  <2> HIDE DEF h
  <2>4. StartsWith(h, Copied(h))
    <3>1. /\ in.link \in SUBSET (Base \X Base) /\ in.build \in SUBSET (Base \X Base)
          /\ Dag!Succ(children, h) = OrderP!Succ(children, h)
      BY Given, SameGraph DEF SpecsInv
    <3>2. Edges \in SUBSET (Base \X Base)
      BY <3>1 DEF Edges
    <3>3. \A q \in Pkg : Copied(h)[q] = IF q \in Dag!Succ(children, h) \cap dev THEN "dev"
                                        ELSE IF <<h, q>> \in Edges THEN "base" ELSE "none"
      BY DEF Copied
    <3>4. /\ \A q \in Built : q \in dev \/ q \notin Base
          /\ \A q \in dev : <<h, q>> \in in.link => q \in Dag!Succ(children, h) \cap dev
      BY <2>1, BuiltFrom, Given DEF SpecsInv, Dag!Succ
    <3>5. ASSUME NEW q \in Pkg, NEW o, o = Copied(h)[q]
          PROVE  PassInv(h, q, o)
      <4>1. CASE q \in Dag!Succ(children, h) \cap dev
        <5>1. o = "dev" /\ q \in Built
          BY <2>1, <3>1, <3>3, <3>5, <4>1
        <5>2. q \in dev
          BY <4>1
        <5> QED
          BY <5>1, <5>2 DEF PassInv, EdgeShaped, Origin
      <4>2. CASE q \notin Dag!Succ(children, h) \cap dev /\ <<h, q>> \in Edges
        <5>1. o = "base" /\ q \in Base
          BY <3>2, <3>3, <3>5, <4>2
        <5>2. q \in Built => <<h, q>> \in in.build
          BY <3>4, <4>2, <5>1 DEF Edges
        <5> QED
          BY <4>2, <5>1, <5>2 DEF PassInv, EdgeShaped, Origin
      <4>3. CASE q \notin Dag!Succ(children, h) \cap dev /\ <<h, q>> \notin Edges
        <5>1. o = "none" /\ q \notin Dag!Succ(Edges, h)
          BY <3>3, <3>5, <4>3 DEF Dag!Succ
        <5> QED
          BY <4>3, <5>1 DEF PassInv, EdgeShaped, Origin
      <4> QED
        BY <4>1, <4>2, <4>3
    <3> QED
      BY <2>1, <3>1, <3>5 DEF StartsWith
  <2> QED
    BY <1>1, <2>1, <2>2, <2>3, <2>4, EmitStep
<1>5. CASE NewSpec
  <2>1. PICK n \in in.added \ Built :
            \/ \E d \in Donors : Emit(n, Borrowed(d))
            \/ UNCHANGED <<dep, order>>
    BY <1>5 DEF NewSpec
  <2>2. UNCHANGED recipes
    BY <1>5 DEF NewSpec
  <2>3. ASSUME NEW d \in Donors, Emit(n, Borrowed(d))
        PROVE  EdgesInv'
    <3>1. n \in Pkg \ Built /\ n \notin dev /\ Abi \in SUBSET Base
      BY <2>1, BuiltFrom DEF Pkg
    <3>2. \A q \in Pkg : Borrowed(d)[q] = IF q \in Dag!Succ(Edges, d) \cap Abi
                                          THEN "base" ELSE "none"
      BY DEF Borrowed
    <3>3. PICK a \in Abi : a \in Dag!Succ(Edges, d)
      BY DEF Donors
    <3>4. a \in Pkg /\ Borrowed(d)[a] = "base"
      BY <3>1, <3>2, <3>3 DEF Pkg
    <3>5. ASSUME NEW q \in Pkg, NEW o, o = Borrowed(d)[q]
          PROVE  PassInv(n, q, o)
      <4>1. o \in {"none", "base"} /\ (o = "base" => q \in Abi /\ q \in Base)
        BY <3>1, <3>2, <3>5
      <4> QED
        BY <3>1, <4>1 DEF PassInv, EdgeShaped, Origin
    <3>6. StartsWith(n, Borrowed(d))
      BY <3>1, <3>3, <3>4, <3>5 DEF StartsWith
    <3> QED
      BY <1>1, <2>2, <2>3, <3>1, <3>6, EmitStep
  <2> QED
    BY <1>2, <2>1, <2>2, <2>3
<1> QED
  BY <1>2, <1>3, <1>4, <1>5
  DEF Next, vars, BuildOrderStep, SpecsBuilt, NewSpecsBuilt, AssignPrefixes, result
LEMMA SpecsInvariant == Spec => []SpecsInv
<1>1. SpecsInv /\ [Next]_vars => SpecsInv'
  <2> SUFFICES ASSUME SpecsInv, [Next]_vars PROVE SpecsInv'
    OBVIOUS
  <2>1. phase' \in {"order", "copy", "new", "prefixes", "done", "error"}
    BY DEF SpecsInv, Next, vars, BuildOrderStep, ReadRecipes, BuildSpec, SpecsBuilt, NewSpec,
           NewSpecsBuilt, AssignPrefixes, Emit
  <2>2. InputsInv'
    BY InputsStep DEF SpecsInv
  <2> QED
    BY <2>1, <2>2, OrderingStep, BuiltStep, EdgesStep DEF SpecsInv
<1> QED
  BY <1>1, SpecsInit, PTL DEF Spec

-----------------------------------------------------------------------------
\* Every value stays in its type: in particular only packages of the dev set
\* and new packages are ever built or given a prefix (specbuild.py:284-308).
THEOREM TypeInvariant == Spec => []TypeOK
<1>1. SpecsInv => TypeOK
  <2> SUFFICES ASSUME SpecsInv PROVE TypeOK
    OBVIOUS
  <2>1. Order!OrderTypeOK
    BY DEF SpecsInv, OrderingInv, OrderP!OrderTypeOK, Order!OrderTypeOK
  <2> QED
    BY <2>1, BuiltFrom DEF SpecsInv, BuiltInv, EdgesInv, TypeOK
<1> QED
  BY <1>1, SpecsInvariant, PTL

\* A finished run has built the whole dev set.
LEMMA AllBuilt ==
    ASSUME SpecsInv, Done
    PROVE  dev \subseteq Built /\ prefixed = Built
<1>1. /\ phase = "done" /\ prefixed = Built /\ Len(order) >= Len(ordered)
      /\ \A i \in DOMAIN order : i <= Len(ordered) => order[i] = ordered[i]
      /\ order \in Seq(dev \cup in.added)
  BY DEF Done, SpecsInv, BuiltInv
<1>2. ordered \in Seq(dev) /\ {ordered[i] : i \in DOMAIN ordered} = dev
  BY <1>1, OrderIsReady
<1>3. \A i \in DOMAIN ordered : i \in DOMAIN order /\ order[i] = ordered[i]
  BY <1>1, <1>2
<1> QED
  BY <1>1, <1>2, <1>3 DEF Built

\* No spec comes before a dev build it points at, inherited or gained, so
\* that build exists when the spec is compiled (specbuild.py:294-308, 428-430).
THEOREM SpecsAreOrdered == Spec => []OrderedAfterDependencies
BY SpecsInvariant, PTL DEF SpecsInv, EdgesInv

\* A dev package never goes back to the installed build of a dev package it
\* inherits, and points at the dev build itself, whose prefix it sees and which
\* comes before it, unless some pass dropped it (specbuild.py:284-303).
THEOREM SpecsInheritDev == Spec => []InheritedDev
<1>1. ASSUME SpecsInv, Done, NEW p \in dev, NEW q \in dev, <<p, q>> \in in.link
      PROVE  /\ q \in Pkg /\ p \in Built /\ q \in prefixed
             /\ dep[p][q] \in {"none", "dev", "copy"}
             /\ q \in Always(p) \cup Kept(p) => dep[p][q] = "dev"
  <2>1. p \in Built /\ q \in Built /\ q \in prefixed /\ q \in Pkg
    BY <1>1, AllBuilt, BuiltFrom DEF Pkg
  <2>2. q \in Dag!Succ(children, p) \cap dev
    BY <1>1, Given, BuiltFrom DEF SpecsInv, Dag!Succ
  <2>3. EdgeShaped(p, q, dep[p][q])
    BY <1>1, <2>1 DEF SpecsInv, EdgesInv, Shaped
  <2> QED
    BY <2>1, <2>2, <2>3 DEF EdgeShaped
<1>2. ASSUME SpecsInv, NEW p \in Built, NEW q \in Pkg, dep[p][q] = "dev"
      PROVE  Position(q) < Position(p)
  <2>4. \A i, j \in DOMAIN order : order[i] = order[j] => i = j
    BY <1>2 DEF SpecsInv, BuiltInv
  <2>5. Position(p) \in DOMAIN order /\ order[Position(p)] = p
    BY DEF Built, Position
  <2>6. PICK j \in 1 .. Position(p) - 1 : order[j] = q
    BY <1>2, <2>5 DEF SpecsInv, EdgesInv, OrderedAfterDependencies
  <2>7. j \in DOMAIN order /\ j < Position(p)
    BY <1>2, <2>5, BuiltFrom
  <2>8. Position(q) = j
    BY <2>4, <2>6, <2>7 DEF Position
  <2> QED
    BY <2>7, <2>8
<1>3. SpecsInv => InheritedDev
  BY <1>1, <1>2 DEF InheritedDev
<1> QED
  BY <1>3, SpecsInvariant, PTL

\* The installed library a dev package goes on using depends on no dev package.
LEMMA InstalledLeadsToNoDev ==
    ASSUME SpecsInv, NEW p \in dev \cap Built, NEW q \in Base,
           <<p, q>> \in in.link, dep[p][q] = "base"
    PROVE  q \notin dev /\ Dag!Reach(in.link, {q}) \cap dev = {}
<1>1. /\ dev \in SUBSET Base /\ OrderP!Convex(in.link, dev)
      /\ \A a, b \in dev : <<a, b>> \in in.link => <<a, b>> \in children
  BY Given DEF SpecsInv
<1>2. q \notin dev
  <2> SUFFICES ASSUME q \in dev PROVE FALSE
    OBVIOUS
  <2>1. q \in Dag!Succ(children, p) \cap dev
    BY <1>1 DEF Dag!Succ
  <2>2. EdgeShaped(p, q, dep[p][q])
    BY DEF SpecsInv, EdgesInv, Shaped, Pkg
  <2> QED
    BY <2>1, <2>2 DEF EdgeShaped
<1>3. q \in OrderP!Reach(in.link, {p})
  <2>1. p \in OrderP!Reach(in.link, {p})
    BY SameGraph, <1>1, OrderP!ReachSeeds
  <2> QED
    BY SameGraph, <1>1, <2>1, OrderP!ReachClosed DEF OrderP!Closed
<1>4. Dag!Reach(in.link, {q}) \cap dev = {}
  BY <1>1, <1>2, <1>3, SameGraph DEF OrderP!Convex
<1> QED
  BY <1>2, <1>4

\* Two dev packages are never linked through an installed library that was
\* built against the old copy of one of them (graph.py:73-91).
THEOREM SpecsNoOldCopy == Spec => []NoOldCopyBetween
<1>1. SpecsInv => NoOldCopyBetween
  BY AllBuilt, InstalledLeadsToNoDev DEF NoOldCopyBetween
<1> QED
  BY <1>1, SpecsInvariant, PTL

\* What was built before a spec is what it depends on, and not an installed
\* build, except through a build-only dependency it inherits; for any recipes,
\* over all the passes (drift.py:119-164).
THEOREM SpecsUseDevBuilds == Spec => []InstalledOnlyBeforeDev
BY SpecsInvariant, PTL DEF SpecsInv, EdgesInv

\* Every spec has compiler nodes, those of the base spec, whatever the passes
\* over its recipe add and remove (drift.py:186, specbuild.py:88-120).
THEOREM SpecsKeepCompilers == Spec => []CompilersStay
<1>1. SpecsInv => CompilersStay
  <2> SUFFICES ASSUME SpecsInv, NEW p \in Built
               PROVE  /\ \A q \in Abi \ dev : dep[p][q] \in {"none", "base"}
                      /\ p \in dev => \A q \in Dag!Succ(Edges, p) \cap Abi : dep[p][q] # "none"
                      /\ p \notin dev => \E q \in Abi : dep[p][q] # "none"
    BY DEF CompilersStay
  <2>1. Shaped(p, dep[p]) /\ Abi \in SUBSET Pkg
    BY BuiltFrom DEF SpecsInv, EdgesInv, Pkg
  <2>2. \A q \in Abi : EdgeShaped(p, q, dep[p][q])
    BY <2>1 DEF Shaped
  <2>3. \A q \in Abi \ dev : dep[p][q] \in {"none", "base"}
    BY <2>2 DEF EdgeShaped
  <2>4. p \in dev => \A q \in Dag!Succ(Edges, p) \cap Abi : dep[p][q] # "none"
    BY <2>2 DEF EdgeShaped
  <2>5. p \notin dev => \E q \in Abi : dep[p][q] # "none"
    BY <2>1 DEF Shaped
  <2> QED
    BY <2>3, <2>4, <2>5
<1> QED
  BY <1>1, SpecsInvariant, PTL

\* The view holds the installed build of a package being built only below
\* something a spec did not inherit as a link dependency, so never between two
\* dev packages (view.py:3-4, graph.py:133-142).
THEOREM ViewIsCleanBelowLinks == Spec => []OldBuildsComeWithTools
<1>1. SpecsInv => OldBuildsComeWithTools
  <2> SUFFICES ASSUME SpecsInv, Done, NEW x \in ViewSpecs \cap Built
               PROVE  \E p \in Built, t \in Frontier \cap Base :
                          /\ dep[p][t] # "none" /\ <<p, t>> \notin in.link
                          /\ x \in Dag!Reach(children, {t})
    BY DEF OldBuildsComeWithTools
  <2>1. /\ dev \subseteq Built /\ Built \in SUBSET (dev \cup in.added) /\ dev \in SUBSET Base
        /\ in.added \in SUBSET New /\ Base \cap New = {}
    BY AllBuilt, BuiltFrom
  <2>2. x \in OrderP!Reach(children, Frontier \cap Base) /\ x \in Base
    BY SameGraph, OrderP!ReachType DEF ViewSpecs
  <2>3. x \in dev
    BY <2>1, <2>2
  <2>4. PICK t \in Frontier \cap Base : x \in OrderP!Reach(children, {t})
    BY SameGraph, <2>2, OrderP!ReachFromOne
  <2>5. PICK p \in Built : dep[p][t] # "none" /\ t \notin Built /\ t \in Pkg
    BY <2>4 DEF Frontier
  <2>6. dep[p][t] = "base"
    <3>1. PICK i \in DOMAIN order : p = order[i]
      BY DEF Built
    <3>2. dep[p][t] \notin {"dev", "copy"}
      <4> SUFFICES ASSUME dep[p][t] \in {"dev", "copy"} PROVE FALSE
        OBVIOUS
      <4>1. PICK j \in 1 .. i - 1 : order[j] = t
        BY <2>5, <3>1 DEF SpecsInv, EdgesInv, OrderedAfterDependencies
      <4>2. j \in DOMAIN order
        BY BuiltFrom
      <4> QED
        BY <2>5, <4>1, <4>2 DEF Built
    <3>3. p \in Pkg /\ EdgeShaped(p, t, dep[p][t])
      BY <2>1, <2>5 DEF Pkg, SpecsInv, EdgesInv, Shaped
    <3>4. dep[p][t] \in Origin
      BY <2>5, <3>3 DEF SpecsInv, EdgesInv
    <3>5. dep[p][t] # "store"
      BY <2>4, <3>3 DEF EdgeShaped
    <3> QED
      BY <2>5, <3>2, <3>4, <3>5 DEF Origin
  <2>7. <<p, t>> \notin in.link
    <3> SUFFICES ASSUME <<p, t>> \in in.link PROVE FALSE
      OBVIOUS
    <3>1. p \in dev
      BY <2>1, Given DEF SpecsInv
    <3>2. OrderP!Reach(in.link, {t}) \cap dev = {}
      BY <2>4, <2>6, <3>1, InstalledLeadsToNoDev, SameGraph
    <3>3. OrderP!Closed(children, OrderP!Reach(in.link, {t}))
      BY SameGraph, Given, OrderP!ReachClosed DEF SpecsInv, OrderP!Closed
    <3>4. /\ {t} \in SUBSET Base /\ {t} \subseteq OrderP!Reach(in.link, {t})
          /\ OrderP!Reach(in.link, {t}) \in SUBSET Base
      BY SameGraph, <2>4, OrderP!ReachSeeds, OrderP!ReachType
    <3>5. OrderP!Reach(children, {t}) \subseteq OrderP!Reach(in.link, {t})
      BY SameGraph, <3>3, <3>4, OrderP!ReachLeast
    <3> QED
      BY <2>3, <2>4, <3>2, <3>5
  <2> QED
    BY <2>4, <2>5, <2>7, SameGraph
<1> QED
  BY <1>1, SpecsInvariant, PTL
=============================================================================
