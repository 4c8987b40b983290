----------------------------- MODULE MCDevSpecs -----------------------------
(***************************************************************************)
(* Inputs for DevSpecs: every base spec of the cfg's packages, with every  *)
(* choice of picks and of new packages, in which at most MaxUnusual things *)
(* are out of the ordinary: an edge that is build-only or provides a       *)
(* virtual, a dependency that a recipe has gained or lost, or wants from   *)
(* the second pass on only, one that a new package has, or a base spec     *)
(* that records no runtime nodes.                                          *)
(***************************************************************************)
EXTENDS DevSpecs

CONSTANT MaxUnusual

Plain == Base \ Abi

RECURSIVE NoCycle(_)
NoCycle(E) ==           \* dropping edges into sinks leaves nothing
    LET inner == {e \in E : \E f \in E : f[1] = e[2]}
    IN  E = {} \/ (inner # E /\ NoCycle(inner))

RECURSIVE AtMost(_, _)
AtMost(S, n) ==         \* the subsets of S with at most n members
    IF n = 0 THEN {{}}
    ELSE LET fewer == AtMost(S, n - 1) IN fewer \cup {T \cup {x} : T \in fewer, x \in S}

\* The dependencies among plain packages, such that a root reaches all of them.
Graphs == {E \in SUBSET {e \in Plain \X Plain : e[1] # e[2]} :
              NoCycle(E) /\ \E r \in Plain : Plain \subseteq Dag!Reach(E, {r})}

\* A base spec: its dependencies, and which of them are build-only.
BaseSpecs ==
    UNION {{[link |-> E \cup (Plain \X Abi), build |-> {}], [link |-> E, build |-> {}]}
           \cup {[link |-> (E \ B) \cup (Plain \X Abi), build |-> B] :
                     B \in AtMost(E, MaxUnusual)} : E \in Graphs}

Inputs ==
    UNION {{[link |-> b.link, build |-> b.build, providing |-> V, root |-> r,
             picks |-> P, added |-> A] : V \in AtMost(b.link \cap (Plain \X Plain), 1)} :
        <<b, r, P, A>> \in {c \in BaseSpecs \X Plain \X (SUBSET Plain) \X (SUBSET New) :
            /\ Plain \subseteq Dag!Reach(c[1].link \cup c[1].build, {c[2]})
            /\ c[3] \subseteq Dag!Nodes(c[1].link, c[2])}}

Unusual(input) ==
    Cardinality(input.build) + Cardinality(input.providing)
    + IF input.link \cap (Plain \X Abi) = {} THEN 1 ELSE 0

AllScenarios == {input \in Inputs : Unusual(input) <= MaxUnusual}

\* What recipes may gain, lose or want late; only new packages that are added matter.
Pairs(added) == {e \in (Plain \cup added) \X (Plain \cup New \cup Store) : e[1] # e[2]}
Within(E) == E \cap (Plain \X Plain)        \* no recipe names its compiler
Late == 2 .. MaxPasses

\* A depends_on that is gone, one whose condition holds from the second pass on
\* only, so that the first pass removes what it names, and one that is new.
Changes(input) ==
    {<<e, K>> \in Pairs(input.added) \X {{}, Late, Passes} :
        (K = Passes) = (e \notin Within(input.link \cup input.build))}
Recipe(input, C) ==
    UNION {{<<e[1], e[2], k>> : k \in Passes} :
               e \in Within(input.link \cup input.build) \ {c[1] : c \in C}}
    \cup UNION {{<<c[1][1], c[1][2], k>> : k \in c[2]} : c \in C}

Edited(input) ==
    {Recipe(input, C) : C \in {D \in AtMost(Changes(input), MaxUnusual - Unusual(input)) :
                                   \A c, d \in D : c[1] = d[1] => c = d}}

\* Recipes whose dependencies are acyclic, for the runs that refute a comment.
EditedAcyclic(input) == {R \in Edited(input) : NoCycle({<<c[1], c[2]>> : c \in R})}
=============================================================================
