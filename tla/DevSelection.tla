--------------------------- MODULE DevSelection ---------------------------
(***************************************************************************)
(* graph.dev_set and graph.build_order as specbuild.compute runs them one  *)
(* after the other: the closure of the picks over the parents, the closure *)
(* over the children, their intersection, then the depth-first order.      *)
(***************************************************************************)
EXTENDS BuildOrder

CONSTANT Dags           \* the stores considered: sets of propagating edges

(* Spack's specs are acyclic, and their hashes are compared by sorted().    *)
ASSUME SelectionAssumption ==
    /\ Hash \subseteq Nat
    /\ \A E \in Dags : E \subseteq Hash \X Hash /\ Acyclic(E)

\* The children map of adjacency(root), the dev set and what build_order does
\* with them are BuildOrder's variables.
VARIABLES edges, root, picks,           \* the store, the base spec, the picks
          parents,                      \* the parents map of adjacency(root)
          phase,                        \* "ancestors", "descendants" or "order"
          upSeen, upStack,              \* _closure(seeds, parents)
          downSeen, downStack           \* _closure(seeds, children)

inputs == <<edges, root, picks, children, parents>>
up == <<upSeen, upStack>>
down == <<downSeen, downStack>>
visiting == <<pending, path, todo, visited, ordered>>
vars == <<inputs, phase, up, down, dev, visiting>>

Up == INSTANCE Closure WITH adj <- parents, seeds <- picks, seen <- upSeen, stack <- upStack
Down == INSTANCE Closure WITH adj <- children, seeds <- picks,
                              seen <- downSeen, stack <- downStack

TypeOK ==
    /\ edges \subseteq Hash \X Hash /\ root \in Hash /\ picks \subseteq Hash
    /\ phase \in {"ancestors", "descendants", "order"}
    /\ Up!TypeOK /\ Down!TypeOK /\ OrderTypeOK

\* resolve_picks only lets through packages of the base spec.
Init ==
    /\ edges \in Dags
    /\ root \in Hash
    /\ picks \in SUBSET Nodes(edges, root)
    /\ children = Children(edges, root)
    /\ parents = Parents(edges, root)
    /\ phase = "ancestors"
    /\ Up!Start
    /\ downSeen = {} /\ downStack = {}
    /\ dev = {}
    /\ pending = {} /\ path = <<>> /\ todo = [h \in Hash |-> {}]
    /\ visited = {} /\ ordered = <<>>

Ancestors ==
    /\ phase = "ancestors"
    /\ UNCHANGED <<inputs, phase, down, dev, visiting>>
    /\ Up!Next

AncestorsDone ==
    /\ phase = "ancestors" /\ Up!Done
    /\ phase' = "descendants"
    /\ downSeen' = picks /\ downStack' = picks
    /\ UNCHANGED <<inputs, up, dev, visiting>>

Descendants ==
    /\ phase = "descendants"
    /\ UNCHANGED <<inputs, phase, up, dev, visiting>>
    /\ Down!Next

\* What DevSetDone would be without "if kid in dev".
DevSetLoose ==
    /\ phase = "descendants" /\ Down!Done
    /\ phase' = "order"
    /\ dev' = (upSeen \cap downSeen) \cup picks
    /\ pending' = dev'
    /\ todo' = [h \in Hash |-> Succ(children, h)]
    /\ UNCHANGED <<inputs, up, down, path, visited, ordered>>

\* dev_set returns, and build_order begins with sorted(dev).
DevSetDone ==
    /\ phase = "descendants" /\ Down!Done
    /\ phase' = "order"
    /\ dev' = (upSeen \cap downSeen) \cup picks
    /\ pending' = dev'
    /\ todo' = [h \in Hash |-> Succ(children, h) \cap dev']
    /\ UNCHANGED <<inputs, up, down, path, visited, ordered>>

OrderStep ==
    /\ phase = "order"
    /\ UNCHANGED <<inputs, phase, up, down, dev>>
    /\ OrderNext

Next == Ancestors \/ AncestorsDone \/ Descendants \/ DevSetDone \/ OrderStep

\* A function goes on until it returns.
Spec == Init /\ [][Next]_vars /\ WF_vars(Next)

Done == phase = "order" /\ OrderDone

(* The three loops together do what DevPlan promises: the rebuild set is    *)
(* the least convex set around the picks, over every path of the base DAG,  *)
(* and the order respects every edge inside it (graph.py:73-116).           *)
Plan == INSTANCE DevPlan WITH
    plan <- [ready |-> Done, dev |-> IF Done THEN dev ELSE {},
             order |-> IF Done THEN ordered ELSE <<>>]
ImplementsPlan == Plan!Spec

(* The recursion of visit() and the loops before it end, on every acyclic   *)
(* store (graph.py:61-116).                                                 *)
Terminates == <>Done

(* Nothing outside the base spec's DAG is ever considered, although other   *)
(* specs of the store point into it (graph.py:6-12).                        *)
StaysInBase == upSeen \cup downSeen \cup dev \subseteq Nodes(edges, root)

(* The interval is the one dev_set's docstring defines, whatever the order  *)
(* the closures ran in (graph.py:74-86).                                    *)
Interval == Done => dev = DevSet(edges, root, picks)
=============================================================================
