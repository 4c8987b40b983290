----------------------------- MODULE Reconcile -----------------------------
(***************************************************************************)
(* drift.reconcile: the loop that brings a spec copied from an installed   *)
(* node into line with its recipe as it is now.  A recipe declares each    *)
(* variant and dependency under conditions; a condition is a set of facts  *)
(* about the spec, all of which must hold, and one condition is enough.    *)
(***************************************************************************)
EXTENDS Naturals, FiniteSets

CONSTANTS Variant, Dependency,
          Reserved,     \* RESERVED_VARIANTS
          Abi,          \* ABI_NODES
          Virtual,      \* names for which is_virtual holds
          Recipes,      \* the recipes considered: [Item -> SUBSET Condition]
          Starts,       \* the specs considered, as they were copied
          MAX_PASSES

Item == Variant \cup Dependency
Fact == (Variant \X {"default", "chosen"}) \cup (Dependency \X {"present"})
Condition == SUBSET Fact
Node == [variants : [Variant -> {"absent", "default", "chosen"}],
         deps : SUBSET (Dependency \ Virtual),
         providing : SUBSET Dependency]         \* edges that carry a virtual

ASSUME ReconcileAssumption ==
    /\ Variant \cap Dependency = {}
    /\ Reserved \subseteq Variant /\ Abi \subseteq Dependency
    /\ Virtual \subseteq Dependency \ Abi
    /\ \A r \in Recipes, i \in Item : r[i] \subseteq Condition
    /\ \A n \in Starts : n \in Node /\ n.providing \subseteq n.deps
    /\ MAX_PASSES \in Nat \ {0}

VARIABLES recipe, start,        \* inputs: the recipe, the spec as it was copied
          variants,             \* value of each variant, or "absent"
          deps,                 \* direct dependencies
          pass,                 \* passes completed
          phase,                \* "variants", "deps", "end", "done" or "error"
          changed,              \* whether the pass has changed anything
          added, removed        \* the Drift being accumulated

inputs == <<recipe, start>>
vars == <<inputs, variants, deps, pass, phase, changed, added, removed>>

TypeOK ==
    /\ variants \in [Variant -> {"absent", "default", "chosen"}]
    /\ deps \subseteq Dependency \ Virtual
    /\ pass \in 0 .. MAX_PASSES
    /\ phase \in {"variants", "deps", "end", "done", "error"}
    /\ changed \in BOOLEAN
    /\ added \subseteq Item /\ removed \subseteq Item

Present == {v \in Variant : variants[v] # "absent"}
Facts == {<<v, variants[v]>> : v \in Present} \cup {<<d, "present">> : d \in deps}

\* What the recipe declares for the spec as it is (_wanted_variants,
\* _wanted_dependencies).
Wanted(S) == {x \in S : \E when \in recipe[x] : when \subseteq Facts}

Init ==
    /\ recipe \in Recipes /\ start \in Starts
    /\ variants = start.variants /\ deps = start.deps
    /\ pass = 0 /\ phase = "variants" /\ changed = FALSE
    /\ added = {} /\ removed = {}

\* What ReconcileVariants would be with "removed_v = rv" for "removed_v.extend(rv)".
VariantsForgotten ==
    /\ phase = "variants"
    /\ LET new == Wanted(Variant) \ Present
           gone == (Present \ Wanted(Variant)) \ Reserved
       IN  /\ variants' = [v \in Variant |-> IF v \in new THEN "default"
                                             ELSE IF v \in gone THEN "absent" ELSE variants[v]]
           /\ added' = added \cup new
           /\ removed' = gone
           /\ changed' = (new \cup gone # {})
    /\ phase' = "deps"
    /\ UNCHANGED <<inputs, deps, pass>>

\* _reconcile_variants: both lists come from the spec as the step finds it.
ReconcileVariants ==
    /\ phase = "variants"
    /\ LET new == Wanted(Variant) \ Present
           gone == (Present \ Wanted(Variant)) \ Reserved
       IN  /\ variants' = [v \in Variant |-> IF v \in new THEN "default"
                                             ELSE IF v \in gone THEN "absent" ELSE variants[v]]
           /\ added' = added \cup new
           /\ removed' = removed \cup gone
           /\ changed' = (new \cup gone # {})
    /\ phase' = "deps"
    /\ UNCHANGED <<inputs, deps, pass>>

\* _reconcile_dependencies.  An edge that carries a virtual stays: edges added
\* here carry none, so these are the ones the copy came with.
NewDepsVirtual == Wanted(Dependency) \ deps       \* without the is_virtual test
NewDeps == Wanted(Dependency) \ (deps \cup Virtual)

\* What ReconcileDependencies would be without "name in ABI_NODES", or if the
\* loop did not look at what it has removed.
DependenciesUnshielded ==
    /\ phase = "deps"
    /\ LET gone == deps \ (Wanted(Dependency) \cup start.providing)
       IN  /\ deps' = (deps \cup NewDeps) \ gone
           /\ added' = added \cup NewDeps
           /\ removed' = removed \cup gone
           /\ changed' = (changed \/ NewDeps \cup gone # {})
    /\ phase' = "end"
    /\ UNCHANGED <<inputs, variants, pass>>
DependenciesSilent ==
    /\ phase = "deps"
    /\ LET gone == deps \ (Wanted(Dependency) \cup Abi \cup start.providing)
       IN  /\ deps' = (deps \cup NewDeps) \ gone
           /\ added' = added \cup NewDeps
           /\ removed' = removed \cup gone
           /\ changed' = (changed \/ NewDeps # {})
    /\ phase' = "end"
    /\ UNCHANGED <<inputs, variants, pass>>

ReconcileDependencies ==
    /\ phase = "deps"
    /\ LET gone == deps \ (Wanted(Dependency) \cup Abi \cup start.providing)
       IN  /\ deps' = (deps \cup NewDeps) \ gone
           /\ added' = added \cup NewDeps
           /\ removed' = removed \cup gone
           /\ changed' = (changed \/ NewDeps \cup gone # {})
    /\ phase' = "end"
    /\ UNCHANGED <<inputs, variants, pass>>

\* _resolve raises DriftError for a new dependency that it cannot find.
Unresolvable ==
    /\ phase = "deps" /\ NewDeps # {}
    /\ phase' = "error"
    /\ UNCHANGED <<inputs, variants, deps, pass, changed, added, removed>>

\* What EndPass would be with one pass too few.
EndPassShort ==
    /\ phase = "end"
    /\ pass' = pass + 1
    /\ phase' = IF changed /\ pass' + 1 < MAX_PASSES THEN "variants" ELSE "done"
    /\ UNCHANGED <<inputs, variants, deps, changed, added, removed>>

\* The loop breaks after a pass without a change, or runs out of passes.
EndPass ==
    /\ phase = "end"
    /\ pass' = pass + 1
    /\ phase' = IF changed /\ pass' < MAX_PASSES THEN "variants" ELSE "done"
    /\ UNCHANGED <<inputs, variants, deps, changed, added, removed>>

Next == ReconcileVariants \/ ReconcileDependencies \/ Unresolvable \/ EndPass

Spec == Init /\ [][Next]_vars

-----------------------------------------------------------------------------
(* The spec has what its recipe declares for it, and nothing else but what  *)
(* reconciliation must leave alone.                                         *)
InLine ==
    /\ Wanted(Variant) \subseteq Present /\ Present \subseteq Wanted(Variant) \cup Reserved
    /\ Wanted(Dependency) \subseteq deps \cup Virtual
    /\ deps \subseteq Wanted(Dependency) \cup Abi \cup start.providing

(* When the loop breaks because a pass changed nothing, the spec is in line *)
(* with its recipe: another run would find no drift (drift.py:199-227).     *)
BreakMeansInLine == phase = "done" /\ ~changed => InLine

(* MAX_PASSES is enough for every recipe whose conditions chain through no  *)
(* more than that many passes, whatever the copied spec was: the loop may   *)
(* be cut off by the bound, but the spec is in line then.  One pass settles *)
(* what depends on settled items only, and dependencies also see the        *)
(* variants of their own pass (drift.py:194-196, 202-206, 217-219).         *)
Needs(x) == {f[1] : f \in UNION recipe[x]}
SettledAfter[k \in 0 .. MAX_PASSES] ==
    IF k = 0 THEN {}
    ELSE LET before == SettledAfter[k - 1]
             now == before \cup {v \in Variant : Needs(v) \subseteq before}
         IN  now \cup {d \in Dependency : Needs(d) \subseteq now}
EnoughPasses == phase = "done" /\ SettledAfter[MAX_PASSES] = Item => InLine

(* What must survive does, with its value: variants Spack manages, compiler *)
(* and runtime nodes, providers of virtuals, and whatever the recipe        *)
(* declares unconditionally, however many passes run (drift.py:21-27,       *)
(* 101-103, 185-189).                                                       *)
Kept(v) == v \in Reserved \/ {} \in recipe[v]
Protected ==
    /\ \A v \in Variant : (Kept(v) /\ start.variants[v] # "absent") => variants[v] = start.variants[v]
    /\ start.deps \cap Abi \subseteq deps
    /\ start.providing \subseteq deps
    /\ {d \in start.deps : {} \in recipe[d]} \subseteq deps

(* The Drift reported names every difference between the copied spec and    *)
(* the reconciled one, so a caller that sees no drift has nothing to        *)
(* re-finalize (drift.py:210-211).                                          *)
DriftNamesEveryChange ==
    /\ Present \ {v \in Variant : start.variants[v] # "absent"} \subseteq added
    /\ {v \in Variant : start.variants[v] # "absent"} \ Present \subseteq removed
    /\ deps \ start.deps \subseteq added
    /\ start.deps \ deps \subseteq removed
    /\ \A v \in Present : variants[v] # start.variants[v] => v \in added

=============================================================================
