------------------------------ MODULE SpecDag ------------------------------
(***************************************************************************)
(* The graph algebra of splice/graph.py over an already concrete spec DAG. *)
(* A spec is its dag hash; an edge <<h, k>> says that h depends on k.      *)
(* Everything the code computes with a worklist or a traversal is given    *)
(* here by what it means; modules Closure and BuildOrder model how the     *)
(* code computes it.                                                       *)
(***************************************************************************)
EXTENDS Naturals, FiniteSets, Sequences

CONSTANT Hash           \* the dag hashes of the specs in the store

\* dict.get(h, ()) on an adjacency map, as a function on edges.
Succ(E, h) == {k \in Hash : <<h, k>> \in E}

\* C contains everything its members point at.
Closed(E, C) == \A h \in C, k \in Hash : <<h, k>> \in E => k \in C

\* The least closed superset of S: what a traversal from S reaches.
Reach(E, S) ==
    {n \in Hash : \A C \in SUBSET Hash : (S \subseteq C /\ Closed(E, C)) => n \in C}

\* The edges turned round: the parents map.
Flip(E) == {e \in Hash \X Hash : <<e[2], e[1]>> \in E}

(* adjacency(root, deptype): E holds the edges of that deptype.  The nodes  *)
(* reachable from root, and the edges among them; their parents map.        *)
Nodes(E, root) == Reach(E, {root})
Children(E, root) == E \cap (Nodes(E, root) \X Nodes(E, root))
AllParents(E, root) == Flip(E)     \* without "kids &= nodes.keys()"
Parents(E, root) == Flip(Children(E, root))

\* What dev_set would be without the interval.
PicksOnly(E, root, picks) == picks

(* dev_set(root, picks): the interval closure.                              *)
DevSet(E, root, picks) ==
    (Reach(Parents(E, root), picks) \cap Reach(Children(E, root), picks)) \cup picks

(* frontier(root, dev): direct dependencies that are not being developed.   *)
Frontier(E, root, dev) == (UNION {Succ(Children(E, root), h) : h \in dev}) \ dev

(* unshadowable(root, dev), E the LINK edges: each dev package with an      *)
(* installed dependent, and those dependents.                               *)
Stuck(E, root, h, dev) == Succ(Parents(E, root), h) \ dev
Unshadowable(E, root, dev) ==
    {<<h, Stuck(E, root, h, dev)>> : h \in {d \in dev : Stuck(E, root, d, dev) # {}}}

\* No spec depends on itself, however indirectly: a height function witnesses it.
Acyclic(E) == \A h \in Hash : h \notin Reach(E, Succ(E, h))

\* Every path between two members of D stays in D.
Convex(E, D) == \A a, b \in D, n \in Hash :
                   n \in Reach(E, {a}) /\ b \in Reach(E, {n}) => n \in D

\* Position i of s holds a spec all of whose dependencies in D come earlier.
Earlier(s, i) == {s[j] : j \in 1 .. i - 1}
DependencyFirst(E, D, s) == \A i \in DOMAIN s : Succ(E, s[i]) \cap D \subseteq Earlier(s, i)

\* s lists each member of D once, dependencies first.
IsBuildOrder(E, D, s) ==
    /\ {s[i] : i \in DOMAIN s} = D
    /\ \A i, j \in DOMAIN s : s[i] = s[j] => i = j
    /\ DependencyFirst(E, D, s)
=============================================================================
