------------------------------ MODULE MCDevArea ------------------------------
(***************************************************************************)
(* Concrete specs that have a name, or do not.                             *)
(***************************************************************************)
EXTENDS DevArea, TLC

CONSTANTS r1, r2, r3, a

OneOfTwo == (r1 :> {}) @@ (r2 :> {a})
ThreeRoots == (r1 :> {a}) @@ (r2 :> {a}) @@ (r3 :> {a})

Processes == Permutations(Proc)
=============================================================================
