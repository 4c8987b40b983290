---------------------------- MODULE MCReconcile ----------------------------
(***************************************************************************)
(* Recipes in which each ordinary variant and dependency is undeclared,    *)
(* declared, or declared under one condition on one other item; specs with *)
(* any ordinary variants and dependencies, one of them perhaps a provider, *)
(* and the items splice and Spack add by themselves.                       *)
(***************************************************************************)
EXTENDS Reconcile, TLC

CONSTANTS v1, v2, dev_path, d1, d2, gcc, mpi

On(x) == {{}, {{}}} \cup {{{f}} : f \in {g \in Fact : g[1] \in {v1, v2, d1, d2} \ {x}}}

OneCondition ==
    {(v1 :> a) @@ (v2 :> b) @@ (d1 :> c) @@ (d2 :> d) @@ (mpi :> m) @@ (dev_path :> {}) @@ (gcc :> {}) :
        a \in On(v1), b \in On(v2), c \in On(d1), d \in On(d2), m \in {{}, {{}}}}

Values == {"absent", "default", "chosen"}
Nodes == {[variants |-> (v1 :> a) @@ (v2 :> b) @@ (dev_path :> c),
           deps |-> D \cup {gcc}, providing |-> P] :
             a \in Values, b \in Values, c \in {"absent", "chosen"},
             D \in SUBSET {d1, d2}, P \in {{}, {gcc}, {d1}}}
CopiedNodes == {n \in Nodes : n.providing \subseteq n.deps}

Alike == Permutations({v1, v2})
=============================================================================
