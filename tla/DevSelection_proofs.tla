------------------------ MODULE DevSelection_proofs ------------------------
(***************************************************************************)
(* The facts about the graph algebra that the other proofs rest on, for    *)
(* every set of hashes and every graph; graph.build_order, which lists     *)
(* every dev package once, dependencies first, on every acyclic graph; and *)
(* the whole of dev_set and build_order, which keeps the promise of        *)
(* DevPlan for every acyclic store, base spec and picks.                   *)
(***************************************************************************)
EXTENDS DevSelection, TLAPS

\* A traversal visits its starting points.
LEMMA ReachSeeds ==
    ASSUME NEW E, NEW S \in SUBSET Hash
    PROVE  S \subseteq Reach(E, S)
BY DEF Reach

\* What a traversal visits is closed: nothing it visits points outside it.
LEMMA ReachClosed ==
    ASSUME NEW E, NEW S
    PROVE  Closed(E, Reach(E, S))
BY DEF Reach, Closed

\* A traversal visits nothing it is not forced to.
LEMMA ReachLeast ==
    ASSUME NEW E, NEW S, NEW C \in SUBSET Hash, S \subseteq C, Closed(E, C)
    PROVE  Reach(E, S) \subseteq C
BY DEF Reach

LEMMA ReachType ==
    ASSUME NEW E, NEW S
    PROVE  Reach(E, S) \in SUBSET Hash
BY DEF Reach

\* Going on from what was reached reaches nothing new.
LEMMA ReachTransitive ==
    ASSUME NEW E, NEW S, NEW a \in Reach(E, S)
    PROVE  Reach(E, {a}) \subseteq Reach(E, S)
<1>1. {a} \subseteq Reach(E, S)
  OBVIOUS
<1> QED
  BY <1>1, ReachClosed, ReachLeast, ReachType

\* More starting points reach at least as much.
LEMMA ReachMonotone ==
    ASSUME NEW E, NEW S \in SUBSET Hash, NEW T \in SUBSET Hash, S \subseteq T
    PROVE  Reach(E, S) \subseteq Reach(E, T)
BY ReachSeeds, ReachClosed, ReachLeast, ReachType

\* Whatever a set reaches, one of its members reaches.
LEMMA ReachFromOne ==
    ASSUME NEW E, NEW S \in SUBSET Hash, NEW n \in Reach(E, S)
    PROVE  \E s \in S : n \in Reach(E, {s})
<1> DEFINE C == {m \in Hash : \E s \in S : m \in Reach(E, {s})}
<1>1. S \subseteq C
  BY ReachSeeds, \A s \in S : {s} \in SUBSET Hash
<1>2. Closed(E, C)
  BY ReachClosed DEF Closed
<1> QED
  BY <1>1, <1>2, ReachLeast

\* Walking down from a to b is walking up from b to a.
LEMMA ReachFlip ==
    ASSUME NEW E, NEW a \in Hash, NEW b \in Hash
    PROVE  b \in Reach(E, {a}) => a \in Reach(Flip(E), {b})
<1> SUFFICES ASSUME b \in Reach(E, {a}),
                    NEW C \in SUBSET Hash, b \in C, Closed(Flip(E), C), a \notin C
             PROVE  FALSE
  BY DEF Reach
<1>1. Closed(E, Hash \ C)
  BY DEF Closed, Flip
<1>2. Reach(E, {a}) \subseteq Hash \ C
  BY <1>1, ReachLeast
<1> QED
  BY <1>2

LEMMA FlipFlip ==
    ASSUME NEW E \in SUBSET (Hash \X Hash)
    PROVE  Flip(Flip(E)) = E /\ Flip(E) \in SUBSET (Hash \X Hash)
BY DEF Flip

\* On the nodes of the base spec, the restricted children map loses nothing.
LEMMA ReachChildren ==
    ASSUME NEW E, NEW base \in Hash, NEW S \in SUBSET Nodes(E, base)
    PROVE  Reach(Children(E, base), S) = Reach(E, S)
<1> DEFINE N == Nodes(E, base)
           K == Children(E, base)
<1>1. Closed(E, N) /\ N \in SUBSET Hash
  BY ReachClosed, ReachType DEF Nodes
<1>2. Closed(K, Reach(E, S))
  BY ReachClosed DEF Closed, Children
<1>3. Reach(K, S) \subseteq Reach(E, S)
  BY <1>1, <1>2, ReachLeast, ReachType, ReachSeeds
<1>4. Closed(E, Reach(K, S) \cap N)
  <2>1. Closed(K, Reach(K, S))
    BY ReachClosed
  <2> QED
    BY <1>1, <2>1 DEF Closed, Children
<1>5. S \subseteq Reach(K, S) \cap N
  BY <1>1, ReachSeeds
<1>6. Reach(E, S) \subseteq Reach(K, S)
  BY <1>1, <1>4, <1>5, ReachLeast, ReachType
<1> QED
  BY <1>3, <1>6

\* Both adjacency maps stay inside the base DAG, and so do the closures.
LEMMA InsideBase ==
    ASSUME NEW E \in SUBSET (Hash \X Hash), NEW base \in Hash, NEW S \in SUBSET Nodes(E, base)
    PROVE  /\ Reach(Parents(E, base), S) \subseteq Nodes(E, base)
           /\ Reach(Children(E, base), S) \subseteq Nodes(E, base)
           /\ S \in SUBSET Hash /\ Nodes(E, base) \in SUBSET Hash
           /\ Children(E, base) \in SUBSET (Hash \X Hash)
           /\ Parents(E, base) \in SUBSET (Hash \X Hash)
<1>1. Nodes(E, base) \in SUBSET Hash
  BY ReachType DEF Nodes
<1>2. Closed(Parents(E, base), Nodes(E, base)) /\ Closed(Children(E, base), Nodes(E, base))
  BY DEF Closed, Parents, Flip, Children
<1> QED
  BY <1>1, <1>2, ReachLeast DEF Children, Parents, Flip

LEMMA DevSetInBase ==
    ASSUME NEW E \in SUBSET (Hash \X Hash), NEW base \in Hash, NEW S \in SUBSET Nodes(E, base)
    PROVE  DevSet(E, base, S) \subseteq Nodes(E, base) /\ DevSet(E, base, S) \subseteq Hash
BY InsideBase DEF DevSet

\* A path among the nodes of the base DAG is a path.
LEMMA ChildrenAcyclic ==
    ASSUME NEW E \in SUBSET (Hash \X Hash), NEW base \in Hash, Acyclic(E)
    PROVE  Acyclic(Children(E, base))
<1> SUFFICES ASSUME NEW h \in Hash
             PROVE  h \notin Reach(Children(E, base), Succ(Children(E, base), h))
  BY DEF Acyclic
<1>1. Succ(Children(E, base), h) \subseteq Succ(E, h) /\ Succ(E, h) \in SUBSET Hash
  BY DEF Succ, Children
<1>2. Closed(Children(E, base), Reach(E, Succ(E, h)))
  BY ReachClosed DEF Closed, Children
<1>3. Reach(Children(E, base), Succ(Children(E, base), h)) \subseteq Reach(E, Succ(E, h))
  BY <1>1, <1>2, ReachSeeds, ReachLeast, ReachType
<1> QED
  BY <1>3 DEF Acyclic

\* A spec of the base DAG is in dev_set exactly when a pick reaches it and it
\* reaches a pick, over all the edges there are.
LEMMA DevSetMembers ==
    ASSUME NEW E, NEW base \in Hash, NEW chosen \in SUBSET Nodes(E, base), NEW n
    PROVE  n \in DevSet(E, base, chosen)
              <=> \E p, q \in chosen : n \in Reach(E, {p}) /\ q \in Reach(E, {n})
<1> DEFINE N == Nodes(E, base)
           K == Children(E, base)
           P == Parents(E, base)
<1>0. N \in SUBSET Hash /\ K \in SUBSET (Hash \X Hash) /\ chosen \in SUBSET Hash
  BY ReachType DEF Nodes, Children
<1>1. P \in SUBSET (Hash \X Hash) /\ Flip(P) = K /\ P = Flip(K)
  BY <1>0, FlipFlip DEF Parents
<1>2. \A m \in N : Reach(K, {m}) = Reach(E, {m}) /\ Reach(K, {m}) \subseteq N
  <2> TAKE m \in N
  <2>1. Reach(K, {m}) = Reach(E, {m})
    BY ReachChildren, {m} \in SUBSET N
  <2>2. Reach(E, {m}) \subseteq N
    BY ReachTransitive DEF Nodes
  <2> QED
    BY <2>1, <2>2
<1>3. \A m, k \in Hash : m \in Reach(P, {k}) <=> k \in Reach(K, {m})
  BY <1>1, ReachFlip
<1>4. ASSUME n \in Reach(P, chosen), n \in Reach(K, chosen)
      PROVE  \E p, q \in chosen : n \in Reach(E, {p}) /\ q \in Reach(E, {n})
  <2>1. PICK q \in chosen : n \in Reach(P, {q})
    BY <1>0, <1>4, ReachFromOne
  <2>2. PICK p \in chosen : n \in Reach(K, {p})
    BY <1>0, <1>4, ReachFromOne
  <2>3. n \in N /\ n \in Reach(E, {p})
    BY <1>2, <2>2
  <2>4. q \in Reach(E, {n})
    BY <1>0, <1>2, <1>3, <2>1, <2>3
  <2> QED
    BY <2>3, <2>4
<1>5. ASSUME NEW p \in chosen, NEW q \in chosen, n \in Reach(E, {p}), q \in Reach(E, {n})
      PROVE  n \in Reach(P, chosen) /\ n \in Reach(K, chosen)
  <2>1. n \in N /\ n \in Reach(K, {p})
    BY <1>2, <1>5
  <2>2. n \in Reach(P, {q})
    BY <1>0, <1>2, <1>3, <1>5, <2>1
  <2>3. {p} \in SUBSET chosen /\ {q} \in SUBSET chosen
    OBVIOUS
  <2> QED
    BY <1>0, <2>1, <2>2, <2>3, ReachMonotone
<1>6. ASSUME n \in chosen
      PROVE  n \in Reach(E, {n})
  BY <1>0, <1>6, ReachSeeds
<1> QED
  BY <1>4, <1>5, <1>6 DEF DevSet

\* The rebuild set leaves no gap: whatever lies on a path between two packages
\* being rebuilt is rebuilt too (graph.py:74-86).
THEOREM DevSetConvex ==
    ASSUME NEW E, NEW base \in Hash, NEW chosen \in SUBSET Nodes(E, base)
    PROVE  Convex(E, DevSet(E, base, chosen))
<1> SUFFICES ASSUME NEW a \in DevSet(E, base, chosen), NEW b \in DevSet(E, base, chosen),
                    NEW n \in Hash, n \in Reach(E, {a}), b \in Reach(E, {n})
             PROVE  n \in DevSet(E, base, chosen)
  BY DEF Convex
<1>1. PICK p \in chosen : a \in Reach(E, {p})
  BY DevSetMembers
<1>2. PICK q \in chosen : q \in Reach(E, {b})
  BY DevSetMembers
<1>3. n \in Reach(E, {p}) /\ q \in Reach(E, {n})
  BY <1>1, <1>2, ReachTransitive
<1> QED
  BY <1>3, DevSetMembers

\* The rebuild set holds nothing else: every gap-free set that contains the
\* chosen contains it (graph.py:74-86).
THEOREM DevSetLeast ==
    ASSUME NEW E, NEW base \in Hash, NEW chosen \in SUBSET Nodes(E, base),
           NEW D \in SUBSET Hash, chosen \subseteq D, Convex(E, D)
    PROVE  DevSet(E, base, chosen) \subseteq D
<1> SUFFICES ASSUME NEW n \in DevSet(E, base, chosen)
             PROVE  n \in D
  OBVIOUS
<1>1. PICK p, q \in chosen : n \in Reach(E, {p}) /\ q \in Reach(E, {n})
  BY DevSetMembers
<1>2. n \in Hash
  BY <1>1, ReachType
<1> QED
  BY <1>1, <1>2 DEF Convex

\* Dependencies first along edges is dependencies first along paths, when the
\* ordered set has no gap.
LEMMA PathsFollowEdges ==
    ASSUME NEW E, NEW D \in SUBSET Hash, Convex(E, D),
           NEW s \in Seq(Hash), DependencyFirst(E, D, s), {s[i] : i \in DOMAIN s} = D,
           NEW i \in DOMAIN s, NEW n \in Reach(E, Succ(E, s[i])), n \in D
    PROVE  n \in Earlier(s, i)
<1> DEFINE C == {m \in Reach(E, Succ(E, s[i])) : m \in D => m \in Earlier(s, i)}
<1>1. s[i] \in D /\ s[i] \in Hash /\ Succ(E, s[i]) \in SUBSET Hash /\ C \in SUBSET Hash
  BY ReachType DEF Succ
<1>2. Succ(E, s[i]) \subseteq C
  BY <1>1, ReachSeeds DEF DependencyFirst
<1>3. Reach(E, Succ(E, s[i])) \subseteq Reach(E, {s[i]})
  <2>1. Succ(E, s[i]) \subseteq Reach(E, {s[i]})
    BY <1>1, ReachSeeds, ReachClosed DEF Closed, Succ
  <2> QED
    BY <2>1, ReachClosed, ReachLeast, ReachType
<1>4. ASSUME NEW m \in C, NEW k \in Hash, <<m, k>> \in E
      PROVE  k \in C
  <2>1. k \in Reach(E, Succ(E, s[i])) /\ m \in Hash
    BY <1>1, <1>4, ReachClosed DEF Closed
  <2>2. ASSUME k \in D
        PROVE  k \in Earlier(s, i)
    <3>1. m \in D
      <4>1. m \in Reach(E, {s[i]}) /\ k \in Reach(E, {m})
        BY <1>3, <1>4, <2>1, ReachSeeds, ReachClosed DEF Closed
      <4> QED
        BY <1>1, <2>1, <2>2, <4>1 DEF Convex
    <3>2. PICK j \in 1 .. i - 1 : m = s[j]
      BY <3>1 DEF Earlier
    <3>3. j \in DOMAIN s /\ k \in Succ(E, s[j])
      BY <1>4, <3>2 DEF Succ
    <3>4. k \in Earlier(s, j)
      BY <2>2, <3>3 DEF DependencyFirst
    <3> QED
      BY <3>2, <3>4 DEF Earlier
  <2> QED
    BY <2>1, <2>2
<1>5. Closed(E, C)
  BY <1>4 DEF Closed
<1> QED
  BY <1>1, <1>2, <1>5, ReachLeast

-----------------------------------------------------------------------------

Placed == {ordered[i] : i \in DOMAIN ordered}
OnStack == {path[i] : i \in DOMAIN path}
\* The child the visit() at depth i is waiting for.
Awaited(i) == IF i < Len(path) THEN {path[i + 1]} ELSE {}

\* Each active visit() is a proper descendant of every one below it ...
StackIsPath ==
    \A i, j \in DOMAIN path : i < j => path[j] \in Reach(children, Succ(children, path[i]))

\* ... is not in the order yet, and has placed every child it is done with.
StackOK ==
    \A i \in DOMAIN path :
        /\ path[i] \notin Placed
        /\ (Succ(children, path[i]) \cap dev) \ todo[path[i]] \subseteq Placed \cup Awaited(i)

Untouched == \A h \in Hash \ visited : todo[h] = Succ(children, h) \cap dev
NoDuplicates == \A i, j \in DOMAIN ordered : ordered[i] = ordered[j] => i = j

\* The inductive invariant.  BottomUp survives Finish only because the spec
\* being finished has all its children placed, which StackOK says; and a child
\* already visited is placed only because the stack is a path of an acyclic graph.
DFS ==
    /\ Acyclic(children)
    /\ StackIsPath
    /\ StackOK
    /\ Untouched
    /\ \A h \in Hash : todo[h] \subseteq Succ(children, h)
    /\ visited = Placed \cup OnStack
    /\ dev = pending \cup visited
    /\ NoDuplicates
    /\ BottomUp

\* No step of build_order takes a variable out of its type.
LEMMA OrderTypeStep == OrderTypeOK /\ [OrderNext]_OrderVars => OrderTypeOK'
<1> SUFFICES ASSUME OrderTypeOK, [OrderNext]_OrderVars
             PROVE  OrderTypeOK'
  OBVIOUS
<1>. USE DEF OrderTypeOK
<1>1. ASSUME NEW h \in Hash, Outer(h)
      PROVE  OrderTypeOK'
  BY <1>1 DEF Outer, LeastIn, OrderInputs, Visit
<1>2. ASSUME NEW k \in Hash, Descend(k)
      PROVE  OrderTypeOK'
  <2>1. Top \in dev /\ k \in dev
    BY <1>2 DEF Descend, LeastIn, Top
  <2>2. todo' \in [Hash -> SUBSET dev]
    BY <1>2, <2>1 DEF Descend
  <2> QED
    BY <1>2, <2>1, <2>2 DEF Descend, Visit, OrderInputs
<1>3. CASE Finish
  <2>1. Top \in dev /\ path' \in Seq(dev)
    BY <1>3 DEF Finish, Top
  <2> QED
    BY <1>3, <2>1 DEF Finish, OrderInputs
<1>4. CASE UNCHANGED OrderVars
  BY <1>4 DEF OrderVars, OrderInputs
<1> QED
  BY <1>1, <1>2, <1>3, <1>4 DEF OrderNext

(* The variables always have their types (graph.py:94-116).               *)
THEOREM OrderTypes == OrderSpec => []OrderTypeOK
<1>1. OrderInit => OrderTypeOK
  BY DEF OrderInit, OrderStart, OrderTypeOK
<1> QED
  BY <1>1, OrderTypeStep, PTL DEF OrderSpec

LEMMA DFSInit == OrderInit => DFS
BY DEF OrderInit, OrderStart, DFS, StackIsPath, StackOK, Untouched, NoDuplicates, BottomUp,
       DependencyFirst, Placed, OnStack

LEMMA OrderStarts == OrderInit => OrderTypeOK /\ DFS
BY DFSInit DEF OrderInit, OrderStart, OrderTypeOK

\* Entering a spec that has no active visit() and is not visited.
LEMMA DFSOuter ==
    ASSUME OrderTypeOK, DFS, NEW h \in Hash, Outer(h)
    PROVE  DFS'
<1>1. h \in pending /\ path = <<>> /\ UNCHANGED <<children, dev, todo, ordered>>
  BY DEF Outer, LeastIn, OrderInputs
<1>2. visited = Placed /\ Placed' = Placed
  BY <1>1 DEF DFS, OnStack, Placed
<1>3. CASE h \in visited
  <2>1. path' = <<>> /\ visited' = visited
    BY <1>1, <1>3 DEF Outer, Visit
  <2>2. pending' = pending \ {h}
    BY DEF Outer
  <2> QED
    BY <1>1, <1>2, <1>3, <2>1, <2>2
    DEF DFS, StackIsPath, StackOK, Untouched, NoDuplicates, BottomUp, OnStack
<1>4. CASE h \notin visited
  <2>1. path' = <<h>> /\ visited' = visited \cup {h} /\ pending' = pending \ {h}
    BY <1>1, <1>4 DEF Outer, Visit
  <2>2. OnStack' = {h}
    BY <2>1 DEF OnStack
  <2>3. StackIsPath'
    BY <2>1 DEF StackIsPath
  <2>4. StackOK'
    <3>1. todo[h] = Succ(children, h) \cap dev
      BY <1>4 DEF DFS, Untouched
    <3> QED
      BY <1>1, <1>2, <1>4, <2>1, <3>1 DEF StackOK
  <2>5. visited' = Placed' \cup OnStack' /\ dev' = pending' \cup visited'
    BY <1>1, <1>2, <2>1, <2>2 DEF DFS
  <2> QED
    BY <1>1, <2>1, <2>3, <2>4, <2>5
    DEF DFS, Untouched, NoDuplicates, BottomUp
<1> QED
  BY <1>3, <1>4

\* A child of the innermost spec is never on the stack: that would be a cycle.
LEMMA ChildNotOnStack ==
    ASSUME OrderTypeOK, DFS, path # <<>>, NEW k \in Succ(children, Top)
    PROVE  k \notin OnStack
<1> DEFINE n == Len(path)
<1>1. n \in DOMAIN path /\ Top = path[n] /\ k \in Hash
  BY DEF OrderTypeOK, Top, Succ
<1> SUFFICES ASSUME NEW i \in DOMAIN path, path[i] = k
             PROVE  FALSE
  BY DEF OnStack
<1>2. Succ(children, k) \in SUBSET Hash
  BY DEF Succ
<1>3. CASE i = n
  BY <1>1, <1>2, <1>3, ReachSeeds DEF DFS, Acyclic
<1>4. CASE i # n
  <2>1. i < n
    BY <1>1, <1>4 DEF OrderTypeOK
  <2>2. Top \in Reach(children, Succ(children, k))
    BY <1>1, <2>1 DEF DFS, StackIsPath
  <2>3. k \in Reach(children, Succ(children, k))
    BY <1>1, <2>2, ReachClosed DEF Closed, Succ
  <2> QED
    BY <1>1, <2>3 DEF DFS, Acyclic
<1> QED
  BY <1>3, <1>4

LEMMA DFSDescend ==
    ASSUME OrderTypeOK, DFS, NEW k \in Hash, Descend(k)
    PROVE  DFS'
<1> DEFINE n == Len(path)
<1>1. /\ path # <<>> /\ n \in DOMAIN path /\ Top = path[n] /\ Top \in dev
      /\ k \in todo[Top] /\ k \in Succ(children, Top) /\ k \in dev
      /\ UNCHANGED <<children, dev, pending, ordered>>
      /\ todo' = [todo EXCEPT ![Top] = @ \ {k}]
  BY DEF Descend, LeastIn, OrderInputs, Top, OrderTypeOK, DFS
<1>2. Placed' = Placed /\ Top \in visited /\ Top \in Hash
  BY <1>1 DEF Placed, OnStack, DFS, OrderTypeOK
<1>3. k \notin OnStack
  BY <1>1, ChildNotOnStack
<1>4. \A i \in DOMAIN path : i # n => path[i] # Top
  <2> SUFFICES ASSUME NEW i \in DOMAIN path, i # n, path[i] = Top
               PROVE  FALSE
    OBVIOUS
  <2>1. i < n
    BY <1>1 DEF OrderTypeOK
  <2> QED
    BY <1>1, <1>2, <2>1 DEF DFS, StackIsPath, Acyclic
<1>5. \A h \in Hash : /\ h # Top => todo'[h] = todo[h]
                      /\ todo'[Top] = todo[Top] \ {k}
  BY <1>1, <1>2 DEF OrderTypeOK
<1>6. Untouched' /\ (\A h \in Hash : todo[h] \subseteq Succ(children, h))'
  BY <1>1, <1>2, <1>5 DEF Untouched, DFS, Descend, Visit
<1>7. CASE k \in visited
  <2>1. path' = path /\ visited' = visited /\ k \in Placed
    BY <1>3, <1>7 DEF Descend, Visit, DFS
  <2>2. OnStack' = OnStack /\ StackIsPath'
    BY <1>1, <2>1 DEF OnStack, StackIsPath, DFS
  <2>3. StackOK'
    <3> SUFFICES ASSUME NEW i \in DOMAIN path
                 PROVE  /\ path[i] \notin Placed
                        /\ (Succ(children, path[i]) \cap dev) \ todo'[path[i]]
                              \subseteq Placed \cup Awaited(i)
      BY <1>1, <1>2, <2>1 DEF StackOK, Awaited
    <3>1. path[i] \in Hash
      BY DEF OrderTypeOK
    <3>2. (Succ(children, path[i]) \cap dev) \ todo[path[i]] \subseteq Placed \cup Awaited(i)
      BY DEF DFS, StackOK
    <3> QED
      BY <1>5, <2>1, <3>1, <3>2 DEF DFS, StackOK
  <2> QED
    BY <1>1, <1>2, <1>6, <2>1, <2>2, <2>3 DEF DFS, NoDuplicates, BottomUp
<1>8. CASE k \notin visited
  <2>1. path' = Append(path, k) /\ visited' = visited \cup {k}
    BY <1>8 DEF Descend, Visit
  <2>2. /\ Len(path') = n + 1 /\ DOMAIN path' = DOMAIN path \cup {n + 1}
        /\ path'[n + 1] = k /\ \A i \in DOMAIN path : path'[i] = path[i]
        /\ \A i \in DOMAIN path : i \in 1 .. n
    BY <1>1, <2>1 DEF OrderTypeOK
  <2>3. OnStack' = OnStack \cup {k}
    BY <2>2 DEF OnStack
  <2>4. StackIsPath'
    <3> SUFFICES ASSUME NEW i \in DOMAIN path', NEW j \in DOMAIN path', i < j
                 PROVE  path'[j] \in Reach(children, Succ(children, path'[i]))
      BY <1>1 DEF StackIsPath
    <3>1. CASE j \in DOMAIN path
      BY <2>2, <3>1 DEF DFS, StackIsPath
    <3>2. CASE j = n + 1
      <4>1. i \in DOMAIN path /\ path'[i] = path[i] /\ path'[j] = k
        BY <2>2, <3>2
      <4>2. CASE i = n
        <5>1. Succ(children, Top) \in SUBSET Hash
          BY DEF Succ
        <5> QED
          BY <1>1, <4>1, <4>2, <5>1, ReachSeeds
      <4>3. CASE i # n
        <5>1. Top \in Reach(children, Succ(children, path[i]))
          BY <1>1, <2>2, <4>1, <4>3 DEF DFS, StackIsPath
        <5> QED
          BY <1>1, <4>1, <5>1, ReachClosed DEF Closed, Succ
      <4> QED
        BY <4>2, <4>3
    <3> QED
      BY <2>2, <3>1, <3>2
  <2>5. StackOK'
    <3> SUFFICES ASSUME NEW i \in DOMAIN path'
                 PROVE  /\ path'[i] \notin Placed
                        /\ (Succ(children, path'[i]) \cap dev) \ todo'[path'[i]]
                              \subseteq Placed \cup Awaited(i)'
      BY <1>1, <1>2 DEF StackOK
    <3>1. CASE i = n + 1
      <4>1. path'[i] = k /\ k \notin Placed /\ k # Top
        BY <1>2, <1>8, <2>2, <3>1 DEF DFS
      <4>2. todo'[k] = Succ(children, k) \cap dev
        BY <1>5, <1>8, <4>1 DEF DFS, Untouched
      <4> QED
        BY <4>1, <4>2
    <3>2. CASE i = n
      <4>1. path'[i] = Top /\ Awaited(i)' = {k} /\ Awaited(i) = {}
        BY <1>1, <2>2, <3>2 DEF Awaited
      <4>2. (Succ(children, Top) \cap dev) \ todo[Top] \subseteq Placed /\ Top \notin Placed
        BY <1>1, <3>2, <4>1 DEF DFS, StackOK
      <4> QED
        BY <1>2, <1>5, <4>1, <4>2
    <3>3. CASE i \in DOMAIN path /\ i # n
      <4>1. path'[i] = path[i] /\ i < n /\ i + 1 \in DOMAIN path /\ path[i] \in Hash
        BY <1>1, <2>2, <3>3 DEF OrderTypeOK
      <4>2. Awaited(i)' = Awaited(i) /\ path[i] # Top
        BY <1>4, <2>2, <3>3, <4>1 DEF Awaited
      <4> QED
        BY <1>5, <3>3, <4>1, <4>2 DEF DFS, StackOK
    <3> QED
      BY <2>2, <3>1, <3>2, <3>3
  <2> QED
    BY <1>1, <1>2, <1>6, <2>1, <2>3, <2>4, <2>5 DEF DFS, NoDuplicates, BottomUp
<1> QED
  BY <1>7, <1>8

LEMMA DFSFinish ==
    ASSUME OrderTypeOK, DFS, Finish
    PROVE  DFS'
<1> DEFINE n == Len(path)
           m == Len(ordered)
<1>1. /\ n \in DOMAIN path /\ Top = path[n] /\ Top \in dev /\ todo[Top] = {}
      /\ UNCHANGED <<children, dev, pending, todo, visited>>
  BY DEF Finish, OrderInputs, Top, OrderTypeOK
<1>2. /\ path' = SubSeq(path, 1, n - 1) /\ Len(path') = n - 1
      /\ DOMAIN path' = DOMAIN path \ {n}
      /\ \A i \in DOMAIN path' : path'[i] = path[i] /\ i < n /\ i \in 1 .. n
  <2>1. path \in Seq(dev) /\ n \in Nat /\ n >= 1 /\ DOMAIN path = 1 .. n
    BY <1>1 DEF OrderTypeOK
  <2>2. path' = SubSeq(path, 1, n - 1)
    BY DEF Finish
  <2>3. Len(path') = n - 1 /\ DOMAIN path' = 1 .. n - 1
    BY <2>1, <2>2
  <2>4. \A i \in 1 .. n - 1 : path'[i] = path[i]
    BY <2>1, <2>2
  <2> QED
    BY <2>1, <2>2, <2>3, <2>4
<1>3. /\ ordered' = Append(ordered, Top) /\ DOMAIN ordered' = DOMAIN ordered \cup {m + 1}
      /\ ordered'[m + 1] = Top
      /\ \A i \in DOMAIN ordered : ordered'[i] = ordered[i] /\ i \in 1 .. m
  BY <1>1 DEF Finish, OrderTypeOK
<1>4. Placed' = Placed \cup {Top}
  BY <1>3 DEF Placed
<1>5. \A i \in DOMAIN path' : path[i] # Top
  BY <1>1, <1>2 DEF DFS, StackIsPath, Acyclic, OrderTypeOK
<1>6. OnStack' = OnStack \ {Top}
  BY <1>1, <1>2, <1>5 DEF OnStack
<1>7. Top \notin Placed /\ Succ(children, Top) \cap dev \subseteq Placed
  BY <1>1 DEF DFS, StackOK, Awaited
<1>8. StackIsPath'
  BY <1>1, <1>2 DEF DFS, StackIsPath
<1>9. StackOK'
  <2> SUFFICES ASSUME NEW i \in DOMAIN path'
               PROVE  /\ path[i] \notin Placed'
                      /\ (Succ(children, path[i]) \cap dev) \ todo[path[i]]
                            \subseteq Placed' \cup Awaited(i)'
    BY <1>1, <1>2 DEF StackOK
  <2>1. path[i] \notin Placed
        /\ (Succ(children, path[i]) \cap dev) \ todo[path[i]] \subseteq Placed \cup Awaited(i)
    BY <1>2 DEF DFS, StackOK
  <2>2. Awaited(i) \subseteq Awaited(i)' \cup {Top}
    <3>1. CASE i = n - 1
      BY <1>1, <1>2, <3>1 DEF Awaited
    <3>2. CASE i # n - 1
      <4>1. i + 1 \in DOMAIN path' /\ i < n - 1
        BY <1>1, <1>2, <3>2 DEF OrderTypeOK
      <4> QED
        BY <1>2, <4>1 DEF Awaited
    <3> QED
      BY <3>1, <3>2
  <2> QED
    BY <1>4, <1>5, <2>1, <2>2
<1>10. NoDuplicates'
  <2>1. \A i \in DOMAIN ordered : ordered[i] # Top
    BY <1>7 DEF Placed
  <2> QED
    BY <1>3, <2>1 DEF DFS, NoDuplicates
<1>11. BottomUp'
  <2> SUFFICES ASSUME NEW i \in DOMAIN ordered'
               PROVE  Succ(children, ordered'[i]) \cap dev \subseteq Earlier(ordered', i)
    BY <1>1 DEF BottomUp, DependencyFirst
  <2>1. m \in Nat /\ DOMAIN ordered = 1 .. m
    BY DEF OrderTypeOK
  <2>2. CASE i = m + 1
    <3>1. Earlier(ordered', i) = Placed
      BY <1>3, <2>1, <2>2 DEF Earlier, Placed
    <3> QED
      BY <1>3, <1>7, <2>2, <3>1
  <2>3. CASE i \in DOMAIN ordered
    <3>1. Earlier(ordered', i) = Earlier(ordered, i)
      BY <1>3, <2>1, <2>3 DEF Earlier
    <3> QED
      BY <1>3, <2>3, <3>1 DEF DFS, BottomUp, DependencyFirst
  <2> QED
    BY <1>3, <2>2, <2>3
<1>12. Untouched' /\ (\A h \in Hash : todo[h] \subseteq Succ(children, h))'
  BY <1>1 DEF DFS, Untouched
<1>13. visited' = Placed' \cup OnStack'
  <2>1. Top \in OnStack
    BY <1>1 DEF OnStack
  <2> QED
    BY <1>1, <1>4, <1>6, <2>1 DEF DFS
<1>14. Acyclic(children)' /\ (dev = pending \cup visited)'
  BY <1>1 DEF DFS
<1> QED
  BY <1>8, <1>9, <1>10, <1>11, <1>12, <1>13, <1>14 DEF DFS

LEMMA OrderSteps ==
    ASSUME OrderTypeOK, DFS, OrderNext
    PROVE  OrderTypeOK' /\ DFS'
BY OrderTypeStep, DFSOuter, DFSDescend, DFSFinish DEF OrderNext

LEMMA DFSInvariant == OrderSpec => []DFS
<1>1. OrderTypeOK /\ DFS /\ [OrderNext]_OrderVars => DFS'
  <2> SUFFICES ASSUME OrderTypeOK, DFS, UNCHANGED OrderVars
               PROVE  DFS'
    BY DFSOuter, DFSDescend, DFSFinish DEF OrderNext
  <2> QED
    BY DEF OrderVars, DFS, StackIsPath, StackOK, Untouched, NoDuplicates, BottomUp,
           Placed, OnStack, Awaited
<1> QED
  BY <1>1, DFSInit, OrderTypes, PTL DEF OrderSpec

\* No dev package is ever placed before one it depends on (graph.py:94-100).
THEOREM OrderIsBottomUp == OrderSpec => []BottomUp
BY DFSInvariant, PTL DEF DFS

\* When build_order returns it has listed each dev package once (graph.py:94-116).
THEOREM OrderCoversDevSet == OrderSpec => []CoversDevSet
<1>1. DFS => CoversDevSet
  BY DEF DFS, CoversDevSet, OrderDone, NoDuplicates, Placed, OnStack
<1> QED
  BY <1>1, DFSInvariant, PTL

\* On a gap-free dev set the order respects paths through the whole DAG, which
\* is what compiling bottom-up needs (graph.py:94-100, specbuild.py:268-286).
THEOREM OrderIsTransitivelyBottomUp == OrderSpec => []TransitivelyBottomUp
<1>1. OrderTypeOK /\ DFS => TransitivelyBottomUp
  <2> SUFFICES ASSUME OrderTypeOK, DFS, OrderDone, Convex(children, dev),
                      NEW i \in DOMAIN ordered, NEW j \in DOMAIN ordered,
                      ordered[j] \in Reach(children, Succ(children, ordered[i]))
               PROVE  j < i
    BY DEF TransitivelyBottomUp
  <2>1. {ordered[x] : x \in DOMAIN ordered} = dev /\ dev \in SUBSET Hash
    BY DEF OrderTypeOK, DFS, OrderDone, Placed, OnStack
  <2>2. ordered \in Seq(Hash) /\ ordered[j] \in dev
    BY <2>1 DEF OrderTypeOK
  <2>3. ordered[j] \in Earlier(ordered, i)
    BY <2>1, <2>2, PathsFollowEdges DEF DFS, BottomUp
  <2>4. PICK x \in 1 .. i - 1 : ordered[j] = ordered[x]
    BY <2>3 DEF Earlier
  <2>5. x \in DOMAIN ordered /\ x < i
    BY <2>2, <2>4
  <2> QED
    BY <2>4, <2>5 DEF DFS, NoDuplicates
<1> QED
  BY <1>1, OrderTypes, DFSInvariant, PTL

-----------------------------------------------------------------------------
\* Closure's Progress, for either of the two closures.
Growing(A, S, reached, left) ==
    /\ left \subseteq reached /\ S \subseteq reached /\ reached \subseteq Reach(A, S)
    /\ \A h \in reached \ left : Succ(A, h) \subseteq reached

\* The inductive invariant: what each loop is in the middle of, and what the
\* loops before it have left.
Inputs ==
    /\ edges \subseteq Hash \X Hash /\ Acyclic(edges)
    /\ root \in Hash /\ picks \subseteq Nodes(edges, root)
    /\ children = Children(edges, root) /\ parents = Parents(edges, root)
Closing ==
    /\ Growing(parents, picks, upSeen, upStack)
    /\ phase = "ancestors" => downSeen = {} /\ downStack = {}
    /\ phase # "ancestors" =>
           upSeen = Reach(parents, picks) /\ Growing(children, picks, downSeen, downStack)
Ordering ==
    /\ phase # "order" => /\ dev = {} /\ pending = {} /\ path = <<>> /\ visited = {}
                          /\ ordered = <<>> /\ todo = [h \in Hash |-> {}]
    /\ phase = "order" => /\ upSeen \cup downSeen \subseteq Nodes(edges, root)
                          /\ dev = DevSet(edges, root, picks)
                          /\ OrderTypeOK /\ DFS
SelectionInv ==
    /\ phase \in {"ancestors", "descendants", "order"}
    /\ Inputs /\ Closing /\ Ordering

LEMMA GrowingStep ==
    ASSUME NEW A \in SUBSET (Hash \X Hash), NEW S \in SUBSET Hash, NEW reached, NEW left,
           Growing(A, S, reached, left), NEW h \in left
    PROVE  LET new == Succ(A, h) \ reached
           IN  Growing(A, S, reached \cup new, (left \ {h}) \cup new)
<1>1. h \in Reach(A, S) /\ Reach(A, S) \in SUBSET Hash
  BY ReachType DEF Growing
<1>2. Succ(A, h) \subseteq Reach(A, S)
  BY <1>1, ReachClosed DEF Closed, Succ
<1> QED
  BY <1>2 DEF Growing

LEMMA GrowingEnds ==
    ASSUME NEW A \in SUBSET (Hash \X Hash), NEW S \in SUBSET Hash, NEW reached,
           Growing(A, S, reached, {})
    PROVE  reached = Reach(A, S)
<1>1. reached \in SUBSET Hash /\ Closed(A, reached)
  BY ReachType DEF Growing, Closed, Succ
<1> QED
  BY <1>1, ReachLeast DEF Growing

\* The worklist by itself, with any graph in place of the parents map.
LEMMA ClosureProgress == Up!Spec => [](Up!TypeOK /\ Up!Progress)
<1> DEFINE G == parents \subseteq Hash \X Hash /\ picks \subseteq Hash
                /\ Growing(parents, picks, upSeen, upStack)
<1>1. Up!Init => G
  BY ReachSeeds DEF Up!Init, Up!Start, Growing
<1>2. G /\ [Up!Next]_(Up!vars) => G'
  <2> SUFFICES ASSUME G, [Up!Next]_(Up!vars) PROVE G'
    OBVIOUS
  <2>1. ASSUME NEW h \in upStack, Up!Expand(h)
        PROVE  G'
    <3>1. Up!Succ(parents, h) = Succ(parents, h)
      BY DEF Up!Succ, Succ
    <3>2. LET new == Succ(parents, h) \ upSeen
          IN  Growing(parents, picks, upSeen \cup new, (upStack \ {h}) \cup new)
      BY GrowingStep
    <3> QED
      BY <2>1, <3>1, <3>2 DEF Up!Expand, Up!inputs
  <2>2. CASE UNCHANGED Up!vars
    BY <2>2 DEF Up!vars, Growing
  <2> QED
    BY <2>1, <2>2 DEF Up!Next
<1>3. G => Up!TypeOK /\ Up!Progress
  <2> SUFFICES ASSUME G PROVE Up!TypeOK /\ Up!Progress
    OBVIOUS
  <2>1. Up!Reach(parents, picks) = Reach(parents, picks)
    BY DEF Up!Reach, Reach, Up!Closed, Closed
  <2>2. upSeen \subseteq Hash
    BY ReachType DEF Growing
  <2> QED
    BY <2>1, <2>2 DEF Growing, Up!TypeOK, Up!Progress, Up!Succ, Succ
<1> QED
  BY <1>1, <1>2, <1>3, PTL DEF Up!Spec

\* Throughout the worklist, seen lies between the seeds and what they reach, and
\* only members still on the stack may point outside it, in any graph
\* (graph.py:61-70).
THEOREM ProgressInvariant == Up!Spec => []Up!Progress
  BY ClosureProgress, PTL

\* Whenever the worklist is empty, its result is what the seeds reach, in any
\* graph, cyclic or not (graph.py:61-70).
THEOREM ClosureIsReach == Up!Spec => []Up!ClosureCorrect
<1>1. Up!TypeOK /\ Up!Progress => Up!ClosureCorrect
  <2> SUFFICES ASSUME Up!TypeOK, Up!Progress, Up!Done
               PROVE  upSeen = Up!Reach(parents, picks)
    BY DEF Up!ClosureCorrect
  <2>1. Up!Reach(parents, picks) = Reach(parents, picks)
    BY DEF Up!Reach, Reach, Up!Closed, Closed
  <2>2. Closed(parents, upSeen)
    BY DEF Up!TypeOK, Up!Progress, Up!Done, Closed, Up!Succ
  <2>3. Reach(parents, picks) \subseteq upSeen
    BY <2>2, ReachLeast DEF Up!TypeOK, Up!Progress
  <2> QED
    BY <2>1, <2>3 DEF Up!Progress
<1> QED
  BY <1>1, ClosureProgress, PTL

LEMMA SelectionInit == Init => SelectionInv
BY SelectionAssumption, InsideBase, ReachSeeds
DEF Init, SelectionInv, Inputs, Closing, Ordering, Growing, Up!Start

\* Inputs never change, and with them everything that depends on them only.
LEMMA InputsKept ==
    ASSUME Inputs, UNCHANGED inputs
    PROVE  /\ Inputs'
           /\ picks \in SUBSET Hash /\ root \in Hash /\ edges \in SUBSET (Hash \X Hash)
           /\ children \in SUBSET (Hash \X Hash) /\ parents \in SUBSET (Hash \X Hash)
           /\ Reach(parents, picks) \subseteq Nodes(edges, root)
           /\ Reach(children, picks) \subseteq Nodes(edges, root)
           /\ Acyclic(children) /\ Nodes(edges, root) \in SUBSET Hash
<1>1. UNCHANGED <<edges, root, picks, children, parents>>
  BY DEF inputs
<1>2. /\ edges \in SUBSET (Hash \X Hash) /\ root \in Hash
      /\ picks \in SUBSET Nodes(edges, root) /\ Acyclic(edges)
      /\ children = Children(edges, root) /\ parents = Parents(edges, root)
  BY DEF Inputs
<1>3. Acyclic(children)
  BY <1>2, ChildrenAcyclic
<1>4. /\ Reach(parents, picks) \subseteq Nodes(edges, root)
      /\ Reach(children, picks) \subseteq Nodes(edges, root)
      /\ picks \in SUBSET Hash /\ Nodes(edges, root) \in SUBSET Hash
      /\ children \in SUBSET (Hash \X Hash) /\ parents \in SUBSET (Hash \X Hash)
  BY <1>2, InsideBase
<1> QED
  BY <1>1, <1>2, <1>3, <1>4 DEF Inputs

LEMMA SelectionStep == SelectionInv /\ [Next]_vars => SelectionInv'
<1> SUFFICES ASSUME SelectionInv, [Next]_vars
             PROVE  SelectionInv'
  OBVIOUS
<1>1. CASE Ancestors
  <2>1. UNCHANGED <<inputs, phase, down, dev, visiting>> /\ phase = "ancestors"
    BY <1>1 DEF Ancestors
  <2>2. Inputs' /\ picks \in SUBSET Hash /\ parents \in SUBSET (Hash \X Hash)
    BY <2>1, InputsKept DEF SelectionInv
  <2>3. PICK h \in upStack :
            LET new == Succ(parents, h) \ upSeen
            IN  upSeen' = upSeen \cup new /\ upStack' = (upStack \ {h}) \cup new
    BY <1>1 DEF Ancestors, Up!Next, Up!Expand, Up!Succ, Succ
  <2>4. Growing(parents, picks, upSeen', upStack')
    BY <2>2, <2>3, GrowingStep DEF SelectionInv, Closing
  <2> QED
    BY <2>1, <2>2, <2>4 DEF SelectionInv, Closing, Ordering, inputs, down, visiting, Growing
<1>2. CASE AncestorsDone
  <2>1. /\ UNCHANGED <<inputs, up, dev, visiting>> /\ phase = "ancestors"
        /\ upStack = {} /\ phase' = "descendants" /\ downSeen' = picks /\ downStack' = picks
    BY <1>2 DEF AncestorsDone, Up!Done
  <2>2. Inputs' /\ picks \in SUBSET Hash /\ parents \in SUBSET (Hash \X Hash)
    BY <2>1, InputsKept DEF SelectionInv
  <2>3. upSeen = Reach(parents, picks)
    BY <2>1, <2>2, GrowingEnds DEF SelectionInv, Closing
  <2>4. Growing(children, picks, picks, picks)
    BY <2>2, ReachSeeds DEF Growing
  <2> QED
    BY <2>1, <2>2, <2>3, <2>4 DEF SelectionInv, Closing, Ordering, inputs, up, visiting, Growing
<1>3. CASE Descendants
  <2>1. UNCHANGED <<inputs, phase, up, dev, visiting>> /\ phase = "descendants"
    BY <1>3 DEF Descendants
  <2>2. Inputs' /\ picks \in SUBSET Hash /\ children \in SUBSET (Hash \X Hash)
    BY <2>1, InputsKept DEF SelectionInv
  <2>3. PICK h \in downStack :
            LET new == Succ(children, h) \ downSeen
            IN  downSeen' = downSeen \cup new /\ downStack' = (downStack \ {h}) \cup new
    BY <1>3 DEF Descendants, Down!Next, Down!Expand, Down!Succ, Succ
  <2>4. Growing(children, picks, downSeen', downStack')
    BY <2>1, <2>2, <2>3, GrowingStep DEF SelectionInv, Closing
  <2> QED
    BY <2>1, <2>2, <2>4 DEF SelectionInv, Closing, Ordering, inputs, up, visiting, Growing
<1>4. CASE DevSetDone
  <2>1. /\ UNCHANGED <<inputs, up, down, path, visited, ordered>> /\ phase = "descendants"
        /\ downStack = {} /\ phase' = "order" /\ dev' = (upSeen \cap downSeen) \cup picks
        /\ pending' = dev' /\ todo' = [h \in Hash |-> Succ(children, h) \cap dev']
    BY <1>4 DEF DevSetDone, Down!Done
  <2>2. /\ Inputs' /\ picks \in SUBSET Hash /\ children \in SUBSET (Hash \X Hash)
        /\ Reach(parents, picks) \subseteq Nodes(edges, root)
        /\ Reach(children, picks) \subseteq Nodes(edges, root)
        /\ Acyclic(children) /\ Nodes(edges, root) \in SUBSET Hash
    BY <2>1, InputsKept DEF SelectionInv
  <2>3. upSeen = Reach(parents, picks) /\ downSeen = Reach(children, picks)
    BY <2>1, <2>2, GrowingEnds DEF SelectionInv, Closing
  <2>4. /\ dev' = DevSet(edges, root, picks)' /\ dev' \in SUBSET Hash
        /\ (upSeen \cup downSeen \subseteq Nodes(edges, root))'
    BY <2>1, <2>2, <2>3 DEF DevSet, Inputs, SelectionInv, inputs, up, down
  <2>5. OrderInit'
    BY <2>1, <2>2, <2>4 DEF OrderInit, OrderStart, SelectionInv, Ordering, inputs
  <2>6. (OrderTypeOK /\ DFS)'
    BY <2>5, OrderStarts, PTL
  <2>7. Closing'
    BY <2>1, <2>3 DEF SelectionInv, Closing, inputs, up, down, Growing
  <2> QED
    BY <2>1, <2>2, <2>4, <2>6, <2>7 DEF SelectionInv, Ordering
<1>5. CASE OrderStep
  <2>1. UNCHANGED <<inputs, phase, up, down, dev>> /\ phase = "order"
    BY <1>5 DEF OrderStep
  <2>2. Inputs'
    BY <2>1, InputsKept DEF SelectionInv
  <2>3. OrderTypeOK' /\ DFS'
    BY <1>5, <2>1, OrderSteps DEF OrderStep, SelectionInv, Ordering
  <2> QED
    BY <2>1, <2>2, <2>3 DEF SelectionInv, Closing, Ordering, inputs, up, down, Growing
<1>6. CASE UNCHANGED vars
  <2>1. UNCHANGED <<inputs, phase, up, down, dev, visiting>>
    BY <1>6 DEF vars
  <2>2. Inputs'
    BY <2>1, InputsKept DEF SelectionInv
  <2>3. phase = "order" => OrderTypeOK' /\ DFS'
    BY <2>1 DEF SelectionInv, Ordering, inputs, visiting, OrderTypeOK, DFS,
        StackIsPath, StackOK, Untouched, NoDuplicates,
        BottomUp, Placed, OnStack, Awaited
  <2> QED
    BY <2>1, <2>2, <2>3 DEF SelectionInv, Closing, Ordering, inputs, up, down, visiting, Growing
<1> QED
  BY <1>1, <1>2, <1>3, <1>4, <1>5, <1>6 DEF Next

LEMMA SelectionInvariant == Spec => []SelectionInv
BY SelectionInit, SelectionStep, PTL DEF Spec

(* The variables of the three loops always have their types                 *)
(* (graph.py:61-116).                                                       *)
THEOREM TypeInvariant == Spec => []TypeOK
<1>1. SelectionInv => TypeOK
  <2> SUFFICES ASSUME SelectionInv
               PROVE  TypeOK
    OBVIOUS
  <2>1. /\ picks \in SUBSET Hash /\ root \in Hash /\ edges \in SUBSET (Hash \X Hash)
        /\ children \in SUBSET (Hash \X Hash) /\ parents \in SUBSET (Hash \X Hash)
        /\ Reach(parents, picks) \in SUBSET Hash /\ Reach(children, picks) \in SUBSET Hash
    <3>1. /\ edges \in SUBSET (Hash \X Hash) /\ root \in Hash
          /\ picks \in SUBSET Nodes(edges, root)
          /\ children = Children(edges, root) /\ parents = Parents(edges, root)
      BY DEF SelectionInv, Inputs
    <3> QED
      BY <3>1, InsideBase, ReachType
  <2>2. Up!TypeOK /\ Down!TypeOK
    BY <2>1 DEF SelectionInv, Closing, Growing, Up!TypeOK, Down!TypeOK
  <2>3. OrderTypeOK
    <3>1. CASE phase = "order"
      BY <3>1 DEF SelectionInv, Ordering, OrderTypeOK, OrderTypeOK
    <3>2. CASE phase # "order"
      <4>1. /\ dev = {} /\ pending = {} /\ path = <<>> /\ visited = {}
            /\ ordered = <<>> /\ todo = [h \in Hash |-> {}]
        BY <3>2 DEF SelectionInv, Ordering
      <4> QED
        BY <2>1, <4>1 DEF OrderTypeOK
    <3> QED
      BY <3>1, <3>2
  <2> QED
    BY <2>1, <2>2, <2>3 DEF TypeOK, SelectionInv
<1> QED
  BY <1>1, SelectionInvariant, PTL

\* The closures and the dev set never leave the base spec's DAG, whatever else
\* the store holds (graph.py:6-12).
THEOREM SelectionStaysInBase == Spec => []StaysInBase
<1>1. SelectionInv => StaysInBase
  <2> SUFFICES ASSUME SelectionInv
               PROVE  StaysInBase
    OBVIOUS
  <2>1. /\ Reach(parents, picks) \subseteq Nodes(edges, root)
        /\ Reach(children, picks) \subseteq Nodes(edges, root)
        /\ picks \subseteq Nodes(edges, root)
    BY InsideBase DEF SelectionInv, Inputs
  <2>2. DevSet(edges, root, picks) \subseteq Nodes(edges, root)
    BY <2>1 DEF DevSet, SelectionInv, Inputs
  <2>3. upSeen \cup downSeen \subseteq Nodes(edges, root)
    BY <2>1 DEF SelectionInv, Closing, Growing
  <2> QED
    BY <2>2, <2>3 DEF StaysInBase, SelectionInv, Ordering
<1> QED
  BY <1>1, SelectionInvariant, PTL

\* When both loops have run, the set is the interval of the docstring
\* (graph.py:74-86).
THEOREM SelectionIsInterval == Spec => []Interval
<1>1. SelectionInv => Interval
  BY DEF Interval, Done, SelectionInv, Ordering
<1> QED
  BY <1>1, SelectionInvariant, PTL

\* What is left when build_order returns satisfies the promise.
LEMMA DoneIsGood ==
    ASSUME SelectionInv, Done
    PROVE  Plan!Good([ready |-> TRUE, dev |-> dev, order |-> ordered])
<1>1. /\ edges \in SUBSET (Hash \X Hash) /\ root \in Hash /\ picks \in SUBSET Nodes(edges, root)
      /\ picks \in SUBSET Hash /\ Nodes(edges, root) \in SUBSET Hash
      /\ children = Children(edges, root)
  <2>1. /\ edges \in SUBSET (Hash \X Hash) /\ root \in Hash
        /\ picks \in SUBSET Nodes(edges, root) /\ children = Children(edges, root)
    BY DEF SelectionInv, Inputs
  <2> QED
    BY <2>1, InsideBase
<1>2. dev = DevSet(edges, root, picks) /\ OrderTypeOK /\ DFS
  BY DEF Done, SelectionInv, Ordering
<1>3. picks \subseteq dev /\ dev \subseteq Nodes(edges, root)
  BY <1>1, <1>2, InsideBase DEF DevSet, SelectionInv, Inputs
<1>4. \A D \in SUBSET Hash : Plan!Convex(edges, D) <=> Convex(edges, D)
  BY DEF Plan!Convex, Convex, Plan!Reach, Reach, Plan!Closed, Closed
<1>5. Plan!Convex(edges, dev)
  BY <1>1, <1>2, <1>3, <1>4, DevSetConvex
<1>6. \A D \in SUBSET Hash : picks \subseteq D /\ Plan!Convex(edges, D) => dev \subseteq D
  BY <1>1, <1>2, <1>4, DevSetLeast
<1>7. {ordered[i] : i \in DOMAIN ordered} = dev
  BY <1>2 DEF Done, OrderDone, DFS, Placed, OnStack
<1>8. \A i, j \in DOMAIN ordered : ordered[i] = ordered[j] => i = j
  BY <1>2 DEF DFS, NoDuplicates
<1>9. Plan!DependencyFirst(edges, dev, ordered)
  <2> SUFFICES ASSUME NEW i \in DOMAIN ordered, NEW k \in Succ(edges, ordered[i]) \cap dev
               PROVE  k \in Earlier(ordered, i)
    BY DEF Plan!DependencyFirst, Plan!Succ, Succ, Plan!Earlier, Earlier
  <2>1. ordered[i] \in Nodes(edges, root) /\ k \in Nodes(edges, root)
    BY <1>3, <1>7
  <2>2. k \in Succ(children, ordered[i])
    BY <1>1, <2>1 DEF Succ, Children
  <2> QED
    BY <1>2, <2>2
    DEF DFS, BottomUp, DependencyFirst, Succ, Earlier,
        Succ, Earlier
<1> QED
  BY <1>3, <1>5, <1>6, <1>7, <1>8, <1>9 DEF Plan!Good, Plan!IsBuildOrder

\* The three loops together implement the abstract plan: one of their steps
\* decides it, every other step is a stutter (graph.py:73-116,
\* specbuild.py:268-286).
THEOREM SelectionImplementsPlan == Spec => ImplementsPlan
<1> DEFINE plan == [ready |-> Done, dev |-> IF Done THEN dev ELSE {},
                    order |-> IF Done THEN ordered ELSE <<>>]
<1>1. Init => plan = Plan!NoPlan
  BY DEF Init, Done, Plan!NoPlan
<1>2. SelectionInv /\ SelectionInv' /\ [Next]_vars => [Plan!Decide]_Plan!vars
  <2> SUFFICES ASSUME SelectionInv, SelectionInv', [Next]_vars
               PROVE  [Plan!Decide]_Plan!vars
    OBVIOUS
  <2>1. UNCHANGED <<edges, picks>>
    BY DEF Next, vars, inputs, Ancestors, AncestorsDone, Descendants, DevSetDone, OrderStep
  <2>2. CASE Done
    <3>1. pending = {} /\ path = <<>> /\ phase = "order"
      BY <2>2 DEF Done, OrderDone
    <3>2. ~ Next
      BY <3>1 DEF Next, Ancestors, AncestorsDone, Descendants, DevSetDone, OrderStep,
          OrderNext, Finish, Outer, Descend, LeastIn
    <3> QED
      BY <2>1, <3>2 DEF vars, visiting, Plan!vars, Done, OrderDone
  <2>3. CASE ~ Done /\ ~ Done'
    BY <2>1, <2>3 DEF Plan!vars, Done
  <2>4. CASE ~ Done /\ Done'
    <3>1. plan = Plan!NoPlan
      BY <2>4 DEF Plan!NoPlan, Done
    <3>2. plan' = [ready |-> TRUE, dev |-> dev, order |-> ordered]'
      BY <2>4
    <3>3. Plan!Good([ready |-> TRUE, dev |-> dev, order |-> ordered])'
      BY <2>4, DoneIsGood, SelectionAssumption, PTL
    <3> QED
      BY <2>1, <3>1, <3>2, <3>3 DEF Plan!Decide, Plan!Good
  <2> QED
    BY <2>2, <2>3, <2>4
<1> QED
  BY <1>1, <1>2, SelectionInvariant, PTL DEF Spec, ImplementsPlan, Plan!Spec
=============================================================================
