------------------------------ MODULE Runtime ------------------------------
(***************************************************************************)
(* splice env: the search paths of a shell that evaluates its output, again *)
(* and again, while packages are picked, dropped and built in between.     *)
(* runtime.modifications lets Spack emit the installed base stack first and *)
(* the dev specs second, puts the libraries of the dev prefixes in front,   *)
(* and prunes duplicates.  An entry of a search path is a spec: a package   *)
(* and the dev packages its hash covers, none for the installed build.      *)
(***************************************************************************)
EXTENDS Naturals, Sequences, FiniteSets, SequencesExt

CONSTANTS Pkg,          \* the base spec, numbered dependencies first, root last
          Build, Other, \* its link and run edges, with those that are also
                        \* build edges apart from the others
          Appends,      \* packages whose recipe appends to the search path
          MaxEvals      \* bound on the evaluations of splice env

ASSUME RuntimeAssumption ==
    /\ Pkg \subseteq Nat \ {0} /\ IsFiniteSet(Pkg) /\ \E p \in Pkg : \A q \in Pkg : q <= p
    /\ Appends \subseteq Pkg /\ MaxEvals \in Nat
    /\ \A e \in Build \cup Other : e[1] \in Pkg /\ e[2] \in Pkg /\ e[2] < e[1]

VARIABLES dev,          \* the dev set
          built,        \* the prefixes in the dev area
          path, lib,    \* in the shell: what recipes set, and LD_LIBRARY_PATH
          evals,        \* how often the shell evaluated splice env
          current       \* nothing was picked, dropped or built since

vars == <<dev, built, path, lib, evals, current>>

Dag == INSTANCE SpecDag WITH Hash <- Pkg

Edges == Build \cup Other
Root == CHOOSE p \in Pkg : \A q \in Pkg : q <= p
\* A set of numbers as an increasing sequence, and a function along a sequence.
InOrder(S) ==
    [k \in 1 .. Cardinality(S) |-> CHOOSE x \in S : Cardinality({y \in S : y < x}) = k - 1]
Along(s, f) == [i \in DOMAIN s |-> f[s[i]]]

Installed(p) == <<p, {}>>
User == <<0, {}>>       \* what the user has on the path
SpecOf(p) == <<p, Dag!Reach(Edges, {p}) \cap (IF p \in dev THEN dev ELSE {})>>
Usable == {p \in dev : SpecOf(p) \in built}

TypeOK ==
    /\ dev \in SUBSET Pkg /\ built \subseteq Pkg \X ((SUBSET Pkg) \ {{}})
    /\ evals \in 0 .. MaxEvals /\ current \in BOOLEAN
    /\ \A v \in {path, lib} : /\ v \in Seq((Pkg \X SUBSET Pkg) \cup {User})
                              /\ \A i, j \in DOMAIN v : v[i] = v[j] => i = j

\* Modifications are applied one after the other, for the packages of S in
\* order: what prepends ends up in front, the last one first.
Prepended(S, entry) == Reverse(Along(InOrder(S \ Appends), entry))
Appended(S, entry) == Along(InOrder(S \cap Appends), entry)
Apply(var, S, entry) == Prepended(S, entry) \o var \o Appended(S, entry)

BaseEntry == [p \in Pkg |-> Installed(p)]
DevEntry == [p \in Pkg |-> SpecOf(p)]

\* The shell has its user's entry, and may have the base stack loaded.
Init ==
    /\ dev = {} /\ built = {}
    /\ path \in {<<User>>, Apply(<<User>>, Pkg, BaseEntry)} /\ lib = <<User>>
    /\ evals = 0 /\ current = FALSE

Select(picks) ==
    /\ dev' = Dag!DevSet(Edges, Root, picks)
    /\ current' = FALSE /\ UNCHANGED <<built, path, lib, evals>>

\* What SpliceBuild would be if it built what can be built.
SpliceBuildAnything(p) ==
    /\ p \in dev \ Usable
    /\ built' = built \cup {SpecOf(p)}
    /\ current' = FALSE /\ UNCHANGED <<dev, path, lib, evals>>

\* splice build: needs the dev builds of build dependencies only.
SpliceBuild(p) ==
    /\ p \in dev \ Usable
    /\ Dag!Succ(Build, p) \cap dev \subseteq Usable
    /\ built' = built \cup {SpecOf(p)}
    /\ current' = FALSE /\ UNCHANGED <<dev, path, lib, evals>>

\* What Spack emits for specs: everything they link or run with, dependencies
\* first, each from its own prefix, there or not.
Emitted == Dag!Reach(Edges, Usable)

\* What Pruned would be if it kept the last of each, or did nothing.
Lasts(v) == {i \in DOMAIN v : \A j \in i + 1 .. Len(v) : v[j] # v[i]}
PrunedBack(v) == Along(InOrder(Lasts(v)), v)
Unpruned(v) == v

\* prune_duplicate_paths keeps the first of each.
Firsts(v) == {i \in DOMAIN v : \A j \in 1 .. i - 1 : v[j] # v[i]}
Pruned(v) == Along(InOrder(Firsts(v)), v)

\* What Layered would be with the halves swapped.
LayeredBack(var) == Pruned(Apply(Apply(var, Emitted, DevEntry), Pkg, BaseEntry))

\* The base stack first and the dev specs second.
Layered(var) == Pruned(Apply(Apply(var, Pkg, BaseEntry), Emitted, DevEntry))

\* The floor Spack never provides: the libraries of the dev prefixes that are there.
Floor(var) == Pruned(Reverse(Along(InOrder(Usable), DevEntry)) \o var)

\* eval "$(spack splice env)"; the command dies if nothing is built.
SpliceEnv ==
    /\ evals < MaxEvals /\ Usable # {}
    /\ path' = Layered(path) /\ lib' = Floor(lib)
    /\ evals' = evals + 1 /\ current' = TRUE
    /\ UNCHANGED <<dev, built>>

Next ==
    \/ \E picks \in SUBSET Dag!Nodes(Edges, Root) : Select(picks)
    \/ \E p \in Pkg : SpliceBuild(p)
    \/ SpliceEnv

Spec == Init /\ [][Next]_vars
-----------------------------------------------------------------------------
\* No other entry of package p comes before the dev build of p.
Leads(v, p) ==
    \E i \in DOMAIN v : /\ v[i] = SpecOf(p)
                        /\ \A j \in 1 .. i - 1 : v[j][1] \notin {p, 0}

(* In a shell that has just evaluated the environment, every built dev      *)
(* package comes before its installed build, before whatever prefixes of it *)
(* earlier evaluations left, and before the user's own entries, on the      *)
(* search paths of prepending recipes and on LD_LIBRARY_PATH                *)
(* (runtime.py:55-76).                                                      *)
DevInFront ==
    current => \A p \in Usable : Leads(lib, p) /\ (p \notin Appends => Leads(path, p))

(* Evaluating the environment again after a package was dropped puts its    *)
(* installed build, on the paths that recipes prepend to, before what       *)
(* earlier evaluations left of its dev builds (runtime.py:55-58, 78-79).    *)
DroppedGoesBehind ==
    current => \A p \in Pkg \ (dev \cup Appends) : \A i, j \in DOMAIN path :
        path[i] = Installed(p) /\ path[j][1] = p => i <= j

(* Evaluating once more, with nothing changed in between, changes nothing:  *)
(* no entry is doubled and the order stays (runtime.py:75-79).              *)
EvalAgainChangesNothing == [][current /\ current' => UNCHANGED <<path, lib>>]_vars

(* The prefix of a dev spec that is not there is on a search path only      *)
(* where a spec that was built covers it, and links or runs against it      *)
(* without being compiled with it: whatever build dependencies lead to from *)
(* a built spec is there, and so it stays over any picks, drops and builds  *)
(* (cmd/splice.py:491-494, build.py:100-108).                               *)
OnlyLinkedIsUnbuilt ==
    \A x \in ToSet(path) \cup ToSet(lib) : x[2] # {} /\ x \notin built =>
        \E y \in built :
            /\ x[1] \in Dag!Reach(Edges, {y[1]}) \ Dag!Reach(Build, {y[1]})
            /\ x[2] = y[2] \cap Dag!Reach(Edges, {x[1]})
=============================================================================
