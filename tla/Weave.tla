------------------------------- MODULE Weave -------------------------------
(***************************************************************************)
(* specbuild.weave: the dev specs are spliced into the base spec one after *)
(* the other, each copied from the DAG that the splices before it left.    *)
(* Spec.splice(dev, transitive=False) is Spack's: it replaces the node of  *)
(* that name and rewires everything above it, which then has the binary of *)
(* the node it was (its build_spec).  It may also lose a hand-built node:  *)
(* put the installed one back in its place, or leave none.  A node is named*)
(* by the hash of the installed node in its place.                         *)
(***************************************************************************)
EXTENDS SpecDag

CONSTANT Dags           \* the base specs considered: sets of propagating edges

ASSUME WeaveAssumption == Hash \subseteq Nat /\ \A E \in Dags : E \subseteq Hash \X Hash

VARIABLES kids, dev,    \* inputs: the children map and the dev set
          left,         \* dev specs not spliced yet
          form,         \* what each node is
          against,      \* the dependencies a dev spec was copied with that were dev
          verdict       \* of verify_dev_nodes

inputs == <<kids, dev>>
vars == <<inputs, left, form, against, verdict>>

TypeOK ==
    /\ kids \subseteq Hash \X Hash /\ dev \subseteq Hash /\ left \subseteq dev
    /\ form \in [Hash -> {"installed", "dev", "rewired", "rewired dev", "absent"}]
    /\ against \in [Hash -> SUBSET dev]
    /\ verdict \in {"none", "passed", "raised"}

Init ==
    /\ kids \in Dags
    /\ \E root \in Hash : \E picks \in SUBSET Nodes(kids, root) : dev = DevSet(kids, root, picks)
    /\ left = dev
    /\ form = [n \in Hash |-> "installed"] /\ against = [n \in Hash |-> {}]
    /\ verdict = "none"

IsDev(n) == form[n] \in {"dev", "rewired dev"}
Above(h) == {n \in Hash : h \in Reach(kids, Succ(kids, n))}

\* What Ready would be if dependents came first.
ReadyTopDown(h) == \A n \in left : h \notin Succ(kids, n)

\* build_order: the dev dependencies were spliced before.
Ready(h) == Succ(kids, h) \cap left = {}

Rewire(n) == CASE form[n] = "absent" -> "absent"
               [] IsDev(n) -> "rewired dev"
               [] OTHER -> "rewired"

\* What Spliced would be with transitive=True.
SplicedTransitively(h) ==
    LET sharing == {n \in Hash : Reach(kids, {n}) \cap Reach(kids, {h}) # {}}
    IN  [n \in Hash |-> IF n = h THEN "dev" ELSE IF n \in sharing THEN Rewire(n) ELSE form[n]]

\* current.splice(dev, transitive=False)
Spliced(h) ==
    [n \in Hash |-> IF n = h THEN "dev" ELSE IF n \in Above(h) THEN Rewire(n) ELSE form[n]]

\* Some dev packages come out of it as the installed node, some not at all.
Losing(nodes, back, gone) ==
    [n \in Hash |-> IF n \in gone THEN "absent"
                    ELSE IF n \in back THEN "installed" ELSE nodes[n]]

\* dev_spec(current[name]): which of the dependencies it copies are dev builds.
CopiedAll(h) == Succ(kids, h)
Copied(h) == {k \in Succ(kids, h) : IsDev(k)}

\* One turn of the loop.
SpliceIn(h) ==
    /\ h \in left /\ Ready(h) /\ form[h] # "absent" /\ verdict = "none"
    /\ left' = left \ {h}
    /\ against' = [against EXCEPT ![h] = Copied(h)]
    /\ \E back \in SUBSET (dev \ left'), gone \in SUBSET dev : form' = Losing(Spliced(h), back, gone)
    /\ UNCHANGED <<inputs, verdict>>

\* KeyError: the node to copy vanished from the DAG while splicing.
Vanished(h) ==
    /\ h \in left /\ Ready(h) /\ form[h] = "absent" /\ verdict = "none"
    /\ verdict' = "raised"
    /\ UNCHANGED <<inputs, left, form, against>>

\* verify_dev_nodes: each dev package must be there and have a dev_path.
Verify ==
    /\ left = {} /\ verdict = "none"
    /\ verdict' = IF \A h \in dev : form[h] # "absent" /\ IsDev(h) THEN "passed" ELSE "raised"
    /\ UNCHANGED <<inputs, left, form, against>>

Next == Verify \/ \E h \in Hash : SpliceIn(h) \/ Vanished(h)

Spec == Init /\ [][Next]_vars
-----------------------------------------------------------------------------
(* A dev spec that is in the DAG is never rewired by a later splice: it     *)
(* stays a spec that was compiled as it is, and provenance does not chain   *)
(* (specbuild.py:41-43, 79-82).                                             *)
DevStaysBuilt == \A n \in Hash : form[n] # "rewired dev"

(* A DAG that passed verify_dev_nodes has every dev package as a dev build  *)
(* that was copied with the dev builds of all the dev packages it depends   *)
(* on: whatever splices lost on the way, for good or while another package  *)
(* was copied, is noticed in the end (specbuild.py:224-226, 239-244,        *)
(* 446-465).                                                                *)
CopiedFromDev ==
    verdict = "passed" =>
        \A h \in dev : form[h] = "dev" /\ against[h] = Succ(kids, h) \cap dev

(* In a DAG that passed, rewired, with the installed binary, is what lies   *)
(* above a dev package and is not one; all else, compilers and runtimes     *)
(* too, is untouched (specbuild.py:235-238, 335-345, cmd/splice.py:338-346).*)
OnlyAboveIsRewired ==
    verdict = "passed" =>
        /\ {n \in Hash : form[n] = "rewired"} = (UNION {Above(h) : h \in dev}) \ dev
        /\ {n \in Hash : IsDev(n)} = dev
=============================================================================
