------------------------------ MODULE Closure ------------------------------
(***************************************************************************)
(* graph._closure: the worklist that computes a transitive closure.  The   *)
(* stack and the dict of successors have no order a result depends on, so  *)
(* any member of the stack may be popped next.                             *)
(***************************************************************************)
EXTENDS SpecDag

VARIABLES adj,          \* the adjacency map, as a set of edges (an input)
          seeds,        \* the set the closure starts from (an input)
          seen,         \* the result set being grown
          stack         \* the specs seen but not yet expanded

vars == <<adj, seeds, seen, stack>>
inputs == <<adj, seeds>>

TypeOK ==
    /\ adj \subseteq Hash \X Hash
    /\ seeds \subseteq Hash
    /\ seen \subseteq Hash
    /\ stack \subseteq seen

Start == seen = seeds /\ stack = seeds

Init == /\ adj \in SUBSET (Hash \X Hash)
        /\ seeds \in SUBSET Hash
        /\ Start

\* What Expand would be if it did not push what it adds.
ExpandShallow(h) ==
    /\ h \in stack
    /\ seen' = seen \cup Succ(adj, h)
    /\ stack' = stack \ {h}
    /\ UNCHANGED inputs

\* stack.pop(), then every successor not seen yet is added and pushed.
Expand(h) ==
    /\ h \in stack
    /\ LET new == Succ(adj, h) \ seen
       IN  /\ seen' = seen \cup new
           /\ stack' = (stack \ {h}) \cup new
    /\ UNCHANGED inputs

Next == \E h \in stack : Expand(h)

Spec == Init /\ [][Next]_vars

Done == stack = {}

(* At every step the set grown so far is reachable, and whatever is not     *)
(* expanded yet is on the stack: dropping either half makes the result      *)
(* wrong only on some graphs.                                               *)
Progress ==
    /\ seeds \subseteq seen
    /\ seen \subseteq Reach(adj, seeds)
    /\ \A h \in seen \ stack : Succ(adj, h) \subseteq seen

(* When the loop ends, seen is exactly the least closed superset of the     *)
(* seeds, for any graph, cyclic ones included (graph.py:61-70).             *)
ClosureCorrect == Done => seen = Reach(adj, seeds)
=============================================================================
