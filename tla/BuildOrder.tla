---------------------------- MODULE BuildOrder ----------------------------
(***************************************************************************)
(* graph.build_order: the depth-first postorder that decides in which      *)
(* order dev packages are woven and compiled.  The recursion of visit() is *)
(* an explicit stack of frames; sorted() always yields the least hash, so  *)
(* hashes are numbers.                                                     *)
(***************************************************************************)
EXTENDS SpecDag

VARIABLES children,     \* the children map, as a set of edges (an input)
          dev,          \* the set to order (an input)
          pending,      \* what "for h in sorted(dev)" has not reached
          path,         \* the specs with an active visit(), outermost first
          todo,         \* for each spec, the children in dev that the loop
                        \* of its visit() has still to look at
          visited,      \* specs visit() has been entered for
          ordered       \* the postorder so far

OrderVars == <<children, dev, pending, path, todo, visited, ordered>>
OrderInputs == <<children, dev>>

OrderTypeOK ==
    /\ children \subseteq Hash \X Hash
    /\ dev \subseteq Hash
    /\ pending \subseteq dev
    /\ path \in Seq(dev)
    /\ todo \in [Hash -> SUBSET dev]
    /\ visited \subseteq dev
    /\ ordered \in Seq(dev)

OrderStart ==
    /\ pending = dev
    /\ path = <<>>
    /\ todo = [h \in Hash |-> Succ(children, h) \cap dev]
    /\ visited = {}
    /\ ordered = <<>>

OrderInit ==
    /\ children \in {E \in SUBSET (Hash \X Hash) : Acyclic(E)}
    /\ dev \in SUBSET Hash
    /\ OrderStart

Top == path[Len(path)]
LeastIn(h, S) == h \in S /\ \A k \in S : h <= k

\* visit(h) returns at once if h is in seen.
Visit(h) ==
    /\ path' = IF h \in visited THEN path ELSE Append(path, h)
    /\ visited' = visited \cup {h}

\* The outer loop takes the next spec of sorted(dev).
Outer(h) ==
    /\ path = <<>>
    /\ LeastIn(h, pending)
    /\ pending' = pending \ {h}
    /\ Visit(h)
    /\ UNCHANGED <<OrderInputs, todo, ordered>>

\* What Descend would be if it looked at one child for ever.
DescendStuck(k) ==
    /\ path # <<>> /\ LeastIn(k, todo[Top])
    /\ Visit(k)
    /\ UNCHANGED <<OrderInputs, pending, todo, ordered>>

\* The innermost visit() takes the next of sorted(children) that is in dev.
Descend(k) ==
    /\ path # <<>>
    /\ LeastIn(k, todo[Top])
    /\ todo' = [todo EXCEPT ![Top] = @ \ {k}]
    /\ Visit(k)
    /\ UNCHANGED <<OrderInputs, pending, ordered>>

\* The innermost visit() has no child left: ordered.append(h), return.
Finish ==
    /\ path # <<>>
    /\ todo[Top] = {}
    /\ ordered' = Append(ordered, Top)
    /\ path' = SubSeq(path, 1, Len(path) - 1)
    /\ UNCHANGED <<OrderInputs, pending, todo, visited>>

OrderNext == Finish \/ \E h \in Hash : Outer(h) \/ Descend(h)

OrderSpec == OrderInit /\ [][OrderNext]_OrderVars

OrderDone == pending = {} /\ path = <<>>

(* At no point is a spec placed in the order before one of its dev          *)
(* dependencies: a dependent is never built against the installed build     *)
(* because its dependency's turn came later (graph.py:94-100).              *)
BottomUp == DependencyFirst(children, dev, ordered)

(* When build_order returns, every dev package is listed exactly once.      *)
CoversDevSet ==
    OrderDone => /\ {ordered[i] : i \in DOMAIN ordered} = dev
                 /\ \A i, j \in DOMAIN ordered : ordered[i] = ordered[j] => i = j

(* On a convex dev set, the direct edges inside the dev set are enough: no  *)
(* package precedes anything it depends on through any path of the whole    *)
(* DAG.                                                                     *)
TransitivelyBottomUp ==
    OrderDone /\ Convex(children, dev) =>
        \A i, j \in DOMAIN ordered :
            ordered[j] \in Reach(children, Succ(children, ordered[i])) => j < i
=============================================================================
