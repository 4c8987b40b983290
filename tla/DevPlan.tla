------------------------------ MODULE DevPlan ------------------------------
(***************************************************************************)
(* What choosing packages promises, without saying how it is computed: the *)
(* picks determine the packages to rebuild and an order to rebuild them in.*)
(***************************************************************************)
EXTENDS SpecDag

VARIABLES edges,        \* the propagating edges of every spec in the store
          picks,        \* the packages chosen by the user
          plan          \* the answer, once there is one

vars == <<edges, picks, plan>>

NoPlan == [ready |-> FALSE, dev |-> {}, order |-> <<>>]

(* The rebuild set is the least set that holds the picks and every package  *)
(* on a path between two of its members; the order respects every edge.     *)
Good(p) ==
    /\ p.ready
    /\ picks \subseteq p.dev
    /\ Convex(edges, p.dev)
    /\ \A D \in SUBSET Hash : picks \subseteq D /\ Convex(edges, D) => p.dev \subseteq D
    /\ IsBuildOrder(edges, p.dev, p.order)

Decide == plan = NoPlan /\ Good(plan') /\ UNCHANGED <<edges, picks>>

Spec == plan = NoPlan /\ [][Decide]_vars
=============================================================================
