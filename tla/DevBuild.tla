------------------------------ MODULE DevBuild ------------------------------
(***************************************************************************)
(* splice src and splice build: compiling the dev packages bottom-up, each *)
(* into a prefix of its own in the dev area, while sources and recipes are *)
(* edited, packages are picked and dropped (splice add, splice rm) and     *)
(* builds fail or are interrupted.  A prefix is named after the hash of    *)
(* the spec that is compiled, and nothing but its being there says that a  *)
(* package is built: splice env and splice pack take what they find.       *)
(***************************************************************************)
EXTENDS Naturals

CONSTANTS Pkg,          \* packages, numbered in build order
          Wirings,      \* dependencies among them: records of
                        \*   base     the edges of the base spec
                        \*   build    those of the specs to compile that are build
                        \*            dependencies
                        \*   other    those that are link or run dependencies only
                        \*   gained   those of build and other that drift or --new
                        \*            brought in
                        \*   new      the packages that are not in the base spec
          MaxEdits      \* bound on edits of sources, recipes and picks

ASSUME BuildAssumption ==
    /\ Pkg \subseteq Nat /\ MaxEdits \in Nat
    /\ \A w \in Wirings :
          /\ w.gained \subseteq w.build \cup w.other
          /\ (w.build \cup w.other) \ w.gained \subseteq w.base
          /\ \A e \in w.base \cup w.build \cup w.other :
                e[1] \in Pkg /\ e[2] \in Pkg /\ e[2] < e[1] /\ e[2] \notin w.new
          /\ \A e \in w.base : e[1] \notin w.new

VARIABLES wiring, below,        \* constant
          picks, dev,   \* the packages the user chose, and all to rebuild for them
          recipe, source,       \* how often each recipe and each source changed
          edited,               \* how often anything changed, the picks included
          fetched,      \* the packages with a source directory
          disk,         \* the prefixes under install/
          pc, queue, plan, until, seen,         \* locals of splice_build
          fresh         \* the last build was of everything, finished, and nothing
                        \* was edited since it began

edits == <<recipe, source, edited>>
base == <<wiring, below>>
inputs == <<base, picks, dev, edits, fetched>>
locals == <<pc, queue, plan, until, seen>>
vars == <<inputs, disk, locals, fresh>>

Dag == INSTANCE SpecDag WITH Hash <- Pkg

Version == 0 .. MaxEdits
Edges == wiring.build \cup wiring.other
Inherited == Edges \ wiring.gained
InBase == Pkg \ wiring.new
Root == CHOOSE p \in InBase : \A q \in InBase : q <= p

\* What is developed for the picks: the interval closure in the base spec of those
\* that are in it, and the others as they are.
ToDevelop(chosen) ==
    Dag!DevSet(wiring.base, Root, chosen \cap InBase) \cup (chosen \ InBase)

\* The members of S that p depends on through members of S, with itself.
Covered == [S \in SUBSET Pkg |-> [p \in Pkg |-> Dag!Reach(Edges \cap (S \X S), {p})]]
Below(S, p) == below[S][p]

\* What DagHash would be if an installed build of q had the hash of a dev build.
HashOfNames(p) == IF p \in dev THEN {<<q, recipe[q]>> : q \in Below(Pkg, p)} ELSE {}

\* The hash of the dev spec of p covers its recipe and those of the dev specs below
\* it, copies of them too; what an installed package depends on is installed, and
\* always the same.  {} is an installed package.
DagHash(p) == IF p \in dev THEN {<<q, recipe[q]>> : q \in Below(dev, p)} ELSE {}
Names(hash) == {v[1] : v \in hash}
\* The hash of p within that of a spec that depends on it.
Part(hash, p) == LET covered == Below(Names(hash), p) IN {v \in hash : v[1] \in covered}

TypeOK ==
    /\ recipe \in [Pkg -> Version] /\ source \in [Pkg -> Version]
    /\ fetched \subseteq Pkg /\ picks \subseteq dev /\ dev \subseteq Pkg /\ edited \in Version
    /\ \A x \in disk : x.pkg \in Pkg /\ x.hash \subseteq Pkg \X Version
                        /\ x.whole \in BOOLEAN /\ x.seen \subseteq Pkg \X Version
    /\ \A x, y \in disk : (x.pkg = y.pkg /\ x.hash = y.hash) => x = y
    /\ pc \in {"idle", "check", "compile", "install", "fill"}
    /\ queue \subseteq Pkg /\ (pc # "idle" => queue # {})
    /\ until \in BOOLEAN /\ fresh \in {"no", "building", "yes"}

Init ==
    /\ wiring \in Wirings
    /\ below = Covered
    /\ recipe = [p \in Pkg |-> 0] /\ source = [p \in Pkg |-> 0]
    /\ picks \in SUBSET Pkg /\ dev = ToDevelop(picks) /\ edited = 0
    /\ fetched = {}
    /\ disk = {}
    /\ pc = "idle" /\ queue = {} /\ until = FALSE
    /\ plan = [p \in Pkg |-> {}] /\ seen = {} /\ fresh = "no"

At(p, hash) == {x \in disk : x.pkg = p /\ x.hash = hash}
\* _prefix_exists, and runtime.built
Exists(p, hash) == At(p, hash) # {}

\* splice src [names]: the sources that are not there are fetched, until one cannot
\* be had.  A package that was picked with --path and has nothing there is one of them.
SpliceSrc ==
    /\ pc = "idle"
    /\ \E names \in (SUBSET (dev \ fetched)) \ {{}} : fetched' = fetched \cup names
    /\ UNCHANGED <<base, picks, dev, edits, disk, locals, fresh>>

\* splice build [names] [--until]: specs and prefixes are computed once.
SpliceBuild(names, stop) ==
    /\ pc = "idle" /\ picks # {}
    /\ names \subseteq dev
    /\ pc' = "check"
    /\ queue' = names
    /\ plan' = [p \in Pkg |-> DagHash(p)]
    /\ until' = stop
    /\ seen' = {}
    /\ fresh' = IF names = dev /\ ~stop THEN "building" ELSE "no"
    /\ UNCHANGED <<inputs, disk>>

\* The packages to build are gone through in build order.
FirstOf(S) == CHOOSE p \in S : \A q \in S : p <= q
Current == FirstOf(queue)

Leave ==
    /\ pc' = "idle" /\ queue' = {} /\ until' = FALSE /\ seen' = {}
    /\ plan' = [p \in Pkg |-> {}]

\* What Fail would be if it cleaned up.
FailAndClean ==
    /\ Leave /\ fresh' = "no" /\ UNCHANGED inputs
    /\ disk' = disk \ At(Current, plan[Current])

\* BuildError or a failing phase: the rest of the queue is not built.
Fail == Leave /\ fresh' = "no" /\ UNCHANGED <<inputs, disk>>

Advance ==
    IF queue = {Current}
    THEN Leave /\ fresh' = (IF fresh = "building" THEN "yes" ELSE "no")
    ELSE pc' = "check" /\ queue' = queue \ {Current} /\ seen' = {} /\ UNCHANGED <<plan, until, fresh>>

\* check_buildable: build dependencies in the dev area must be there; other ones
\* are not looked at.  One that was gained is a copy, made before the prefixes were
\* assigned: its prefix would be in the store, and is never there.
\* Then there must be a source.  The compiler and the installed and external tools
\* are not the dev area's: they may always be gone (Stop).
GoneByName(p) ==
    {q \in Dag!Succ(wiring.build, p) :
        plan[q] # {} /\ (<<p, q>> \in wiring.gained \/ \A x \in disk : x.pkg # q)}
Gone(p) ==
    {q \in Dag!Succ(wiring.build, p) :
        plan[q] # {} /\ (<<p, q>> \in wiring.gained \/ ~Exists(q, plan[q]))}
Buildable(p) == Gone(p) = {} /\ p \in fetched

Check ==
    /\ pc = "check"
    /\ IF Buildable(Current)
       THEN pc' = "compile" /\ UNCHANGED <<inputs, disk, queue, plan, until, seen, fresh>>
       ELSE Fail

\* What p is compiled from: its source, and what the dev builds of its dependencies
\* hold; installed dependencies never change, and where copies point nothing is.
Sees(p) ==
    {<<p, source[p]>>} \cup
    UNION {{v \in x.seen : v[1] = x.pkg} :
               x \in UNION {At(q, plan[q]) : q \in Dag!Succ(Inherited, p)}}

\* The phases before install; --until stops after one of them.
Compile ==
    /\ pc = "compile"
    /\ UNCHANGED <<inputs, disk>>
    /\ IF until THEN Advance
       ELSE pc' = "install" /\ seen' = Sees(Current) /\ UNCHANGED <<queue, plan, until, fresh>>

PutAnother(p, whole, content) ==
    disk' = disk \cup {[pkg |-> p, hash |-> plan[p], whole |-> whole, seen |-> content]}
Put(p, whole, content) ==
    disk' = (disk \ At(p, plan[p])) \cup
            {[pkg |-> p, hash |-> plan[p], whole |-> whole, seen |-> content]}

\* What Install would be if a prefix that is there counted as built.
InstallOnce ==
    /\ pc = "install"
    /\ IF Exists(Current, plan[Current])
       THEN Advance /\ UNCHANGED disk
       ELSE pc' = "fill" /\ Put(Current, FALSE, {}) /\ UNCHANGED <<queue, plan, until, seen, fresh>>
    /\ UNCHANGED inputs

\* The install phase makes the prefix, or writes into the one that is there,
Install ==
    /\ pc = "install" /\ pc' = "fill"
    /\ Put(Current, FALSE, {})
    /\ UNCHANGED <<inputs, queue, plan, until, seen, fresh>>

\* and fills it.
Fill ==
    /\ pc = "fill"
    /\ Put(Current, TRUE, seen)
    /\ Advance
    /\ UNCHANGED inputs

\* A tool is gone (spack gc), a phase raises, or the build is killed.
Stop == pc # "idle" /\ Fail

Edit == edited < MaxEdits /\ edited' = edited + 1 /\ fresh' = "no"

EditSource ==
    /\ Edit
    /\ \E p \in fetched : source' = [source EXCEPT ![p] = @ + 1]
    /\ UNCHANGED <<base, picks, dev, recipe, fetched, disk, locals>>

EditRecipe ==
    /\ Edit
    /\ \E p \in Pkg : recipe' = [recipe EXCEPT ![p] = @ + 1]
    /\ UNCHANGED <<base, picks, dev, source, fetched, disk, locals>>

\* splice add and splice rm do nothing but change the picks.
Repick(new) ==
    /\ Edit
    /\ picks' = new /\ dev' = ToDevelop(new)
    /\ UNCHANGED <<base, recipe, source, fetched, disk, locals>>
SpliceAdd == \E p \in Pkg \ picks : Repick(picks \cup {p})
SpliceRm == \E p \in picks : Repick(picks \ {p})

Next ==
    \/ SpliceSrc
    \/ \E names \in (SUBSET Pkg) \ {{}}, stop \in BOOLEAN : SpliceBuild(names, stop)
    \/ Check \/ Compile \/ Install \/ Fill \/ Stop
    \/ EditSource \/ EditRecipe \/ SpliceAdd \/ SpliceRm

Spec == Init /\ [][Next]_vars
-----------------------------------------------------------------------------
(* No prefix appears before those its package needs to build: whatever was  *)
(* edited, named, interrupted or failed, every prefix in the dev area, the  *)
(* ones of older recipes included, comes with the prefixes of the very      *)
(* specs it was compiled against (build.py:104-118, cmd/splice.py:415-424). *)
PrefixHasItsDependencies ==
    \A x \in disk : \A q \in Dag!Succ(wiring.build, x.pkg) \cap Names(x.hash) :
        Exists(q, Part(x.hash, q))

(* A build of the whole dev set that finishes leaves nothing stale: every   *)
(* package holds its current source compiled against the current sources of *)
(* all the dev packages it inherits from its base spec as dependencies      *)
(* (cmd/splice.py:403-424).                                                 *)
FullBuildIsCurrent ==
    fresh = "yes" => \A p \in dev : \E x \in At(p, DagHash(p)) :
        /\ x.whole
        /\ x.seen = {<<q, source[q]>> : q \in {p} \cup (Dag!Succ(Inherited, p) \cap dev)}

(* Whatever was picked, dropped, edited and built before, a prefix that env *)
(* and pack take for the current build of a dev package was compiled against *)
(* dev builds of packages that are dev packages now, never against one that  *)
(* was dropped since, and its own build dependencies are taken with it: the  *)
(* environment is consistent as far as it goes (runtime.py:97-99,            *)
(* cmd/splice.py:483-494, specbuild.py:353-366).                             *)
EnvMatchesSelection ==
    \A p \in dev : \A x \in At(p, DagHash(p)) :
        /\ Names(x.seen) \subseteq dev
        /\ \A q \in Dag!Succ(wiring.build, p) \cap dev : Exists(q, DagHash(q))

(* A package that did not change keeps its prefix: a step changes what is   *)
(* in at most the prefix being built, and takes none away, so what env and  *)
(* pack found built they find again until a recipe changes                  *)
(* (specbuild.py:353-366, runtime.py:97-99).                                *)
OthersAreLeftAlone ==
    [][\A x \in disk : x \in disk' \/ (/\ pc \in {"install", "fill"}
                                      /\ x.pkg = Current
                                      /\ At(x.pkg, x.hash)' # {})]_vars
=============================================================================
