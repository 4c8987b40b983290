---------------------------- MODULE Weave_proofs ----------------------------
(***************************************************************************)
(* What weaving guarantees for every base spec and every dev set that      *)
(* dev_set computes, whatever dev packages its splices lose.               *)
(***************************************************************************)
EXTENDS Weave, TLAPS

\* The theory of graphs.  What it says of the traversal is not used here.
Graph == INSTANCE DevSelection_proofs WITH
    Dags <- {}, edges <- kids, root <- {}, picks <- {}, children <- kids, parents <- {},
    phase <- "order", upSeen <- {}, upStack <- {}, downSeen <- {}, downStack <- {},
    pending <- {}, path <- <<>>, todo <- <<>>, visited <- {}, ordered <- <<>>

\* Its operators are the ones of this module.
LEMMA SameGraph ==
    /\ Graph!SelectionAssumption
    /\ \A E, C : Graph!Closed(E, C) <=> Closed(E, C)
    /\ \A E, S : Graph!Reach(E, S) = Reach(E, S)
    /\ \A E, r : Graph!Nodes(E, r) = Nodes(E, r)
    /\ \A E, r, S : Graph!DevSet(E, r, S) = DevSet(E, r, S)
    /\ \A E, D : Graph!Convex(E, D) <=> Convex(E, D)
<1>1. \A E, S : Graph!Reach(E, S) = Reach(E, S)
  BY DEF Graph!Reach, Reach, Graph!Closed, Closed
<1>2. \A E, r : /\ Graph!Nodes(E, r) = Nodes(E, r)
                /\ Graph!Children(E, r) = Children(E, r)
                /\ Graph!Parents(E, r) = Parents(E, r)
  BY <1>1 DEF Graph!Nodes, Nodes, Graph!Children, Children, Graph!Parents, Parents,
              Graph!Flip, Flip
<1> QED
  BY <1>1, <1>2, WeaveAssumption
  DEF Graph!SelectionAssumption, Graph!DevSet, DevSet, Graph!Closed, Closed, Graph!Convex, Convex

Woven == dev \ left

\* Some splice has lost a dev package that was woven.  No later one brings it back.
Lost == \E n \in Woven : ~IsDev(n)

\* What the DAG is like as long as nothing is lost.
Intact ==
    /\ \A n \in Woven : form[n] = "dev" /\ against[n] = Succ(kids, n) \cap dev
    /\ \A n \in Hash \ dev : form[n] = "rewired" <=> \E h \in Woven : n \in Above(h)

\* The inductive invariant.  That no splice disturbs a dev spec that is already
\* woven needs the order (the woven ones are closed under direct dev dependencies)
\* and the convexity of the dev set, which carries it over to paths.
WeaveInv ==
    /\ TypeOK
    /\ Convex(kids, dev)
    /\ \A n \in Woven : Succ(kids, n) \cap dev \subseteq Woven
    /\ \A n \in Hash : /\ form[n] # "rewired dev" /\ (IsDev(n) => n \in Woven)
                       /\ form[n] = "absent" => n \in dev
    /\ Lost \/ Intact
    /\ verdict = "passed" => left = {} /\ ~Lost

\* Through any path, a dev package below a woven one is woven.
LEMMA BelowIsWoven ==
    ASSUME WeaveInv, NEW n \in Woven, NEW h \in dev, n \in Above(h)
    PROVE  h \in Woven
<1> DEFINE S == Succ(kids, n)
           C == {m \in Reach(kids, S) : m \in dev => m \in Woven}
<1>1. n \in Hash /\ n \in dev /\ S \in SUBSET Hash /\ C \in SUBSET Hash /\ h \in Reach(kids, S)
  BY SameGraph, Graph!ReachType DEF WeaveInv, TypeOK, Woven, Above, Succ
<1>2. S \subseteq C
  BY <1>1, SameGraph, Graph!ReachSeeds DEF WeaveInv
<1>3. Reach(kids, S) \subseteq Reach(kids, {n})
  <2>1. S \subseteq Reach(kids, {n})
    BY <1>1, SameGraph, Graph!ReachSeeds, Graph!ReachClosed DEF Closed, Succ
  <2> QED
    BY <2>1, SameGraph, Graph!ReachClosed, Graph!ReachLeast, Graph!ReachType
<1>4. ASSUME NEW m \in C, NEW k \in Hash, <<m, k>> \in kids
      PROVE  k \in C
  <2>1. k \in Reach(kids, S) /\ m \in Hash
    BY <1>1, <1>4, SameGraph, Graph!ReachClosed DEF Closed
  <2>2. ASSUME k \in dev
        PROVE  k \in Woven
    <3>1. m \in Reach(kids, {n}) /\ k \in Reach(kids, {m})
      BY <1>3, <1>4, <2>1, SameGraph, Graph!ReachSeeds, Graph!ReachClosed DEF Closed
    <3>2. m \in dev
      BY <1>1, <2>1, <2>2, <3>1 DEF WeaveInv, Convex
    <3>3. m \in Woven /\ k \in Succ(kids, m)
      BY <1>4, <3>2 DEF Succ
    <3> QED
      BY <2>2, <3>3 DEF WeaveInv
  <2> QED
    BY <2>1, <2>2
<1>5. Closed(kids, C)
  BY <1>4 DEF Closed
<1>6. h \in C
  BY <1>1, <1>2, <1>5, SameGraph, Graph!ReachLeast
<1> QED
  BY <1>6

LEMMA WeaveInit == Init => WeaveInv
<1> SUFFICES ASSUME Init PROVE WeaveInv
  OBVIOUS
<1>1. kids \subseteq Hash \X Hash
  BY WeaveAssumption DEF Init
<1>2. PICK root \in Hash : \E picks \in SUBSET Nodes(kids, root) : dev = DevSet(kids, root, picks)
  BY DEF Init
<1>3. Convex(kids, dev)
  BY <1>2, SameGraph, Graph!DevSetConvex
<1>4. dev \subseteq Hash
  BY <1>2, SameGraph, Graph!ReachType DEF DevSet, Nodes
<1> QED
  BY <1>1, <1>3, <1>4 DEF Init, WeaveInv, TypeOK, Woven, Intact, IsDev

LEMMA WeaveSplice ==
    ASSUME WeaveInv, NEW h \in Hash, SpliceIn(h)
    PROVE  WeaveInv'
<1>1. PICK back \in SUBSET (dev \ left'), gone \in SUBSET dev :
          form' = Losing(Spliced(h), back, gone)
  BY DEF SpliceIn
<1>2. /\ UNCHANGED <<kids, dev, verdict>> /\ left' = left \ {h} /\ h \in left /\ left \subseteq dev
      /\ dev \subseteq Hash /\ against' = [against EXCEPT ![h] = Copied(h)]
      /\ verdict = "none"
      /\ \A n \in Hash : form[n] \in {"installed", "dev", "rewired", "absent"}
  BY DEF SpliceIn, WeaveInv, TypeOK, inputs
<1>3. h \in dev /\ h \notin Woven /\ Woven' = Woven \cup {h} /\ Woven \subseteq dev
  BY <1>2 DEF Woven
<1>4. Succ(kids, h) \cap dev \subseteq Woven
  BY DEF SpliceIn, Ready, Woven
<1>5. \A n \in Hash : IsDev(n) <=> form[n] = "dev"
  BY DEF WeaveInv, IsDev
<1>6. \A n \in Woven : n \notin Above(h)
  BY <1>3, BelowIsWoven
<1>7. \A n \in Hash : form'[n] = IF n \in gone THEN "absent" ELSE IF n \in back THEN "installed"
                                 ELSE IF n = h THEN "dev"
                                 ELSE IF n \in Above(h) THEN Rewire(n) ELSE form[n]
  BY <1>1 DEF Losing, Spliced
<1>8. \A n \in Hash : IF n \in Woven THEN n \notin Above(h)
                      ELSE form[n] # "dev" /\ Rewire(n) \in {"rewired", "absent"}
  BY <1>5, <1>6 DEF WeaveInv, Rewire
<1>9. \A n \in Hash : form'[n] \in {"installed", "dev", "rewired", "absent"}
                      /\ (form'[n] = "dev" => n = h \/ (n \in Woven /\ form[n] = "dev"))
  BY <1>2, <1>7, <1>8
<1>10. /\ \A k : Above(k)' = Above(k)
       /\ \A n : Succ(kids, n)' = Succ(kids, n)
       /\ \A n \in Hash : IsDev(n)' <=> form'[n] = "dev"
  BY <1>2, <1>9 DEF Above, IsDev
<1>11. TypeOK'
  <2>1. form' = [n \in Hash |-> form'[n]]
    BY <1>1 DEF Losing
  <2>2. form' \in [Hash -> {"installed", "dev", "rewired", "rewired dev", "absent"}]
    BY <1>9, <2>1
  <2>3. Copied(h) \in SUBSET dev
    BY <1>3, <1>5 DEF Copied, WeaveInv, Succ
  <2>4. against' \in [Hash -> SUBSET dev]
    BY <1>2, <2>3 DEF WeaveInv, TypeOK
  <2> QED
    BY <1>2, <2>2, <2>4 DEF WeaveInv, TypeOK
<1>12. \A n \in Woven' : Succ(kids, n) \cap dev \subseteq Woven'
  BY <1>3, <1>4 DEF WeaveInv
<1>13. \A n \in Hash : /\ form'[n] # "rewired dev" /\ (IsDev(n)' => n \in Woven')
                       /\ form'[n] = "absent" => n \in dev'
  <2>1. \A n \in Hash : Rewire(n) = "absent" => form[n] = "absent"
    BY DEF Rewire
  <2>2. \A n \in Hash : form'[n] = "absent" => n \in dev
    BY <1>2, <1>7, <2>1 DEF WeaveInv
  <2> QED
    BY <1>2, <1>3, <1>9, <1>10, <2>2
<1>14. ASSUME Lost
       PROVE  Lost'
  <2>1. PICK n \in Woven : ~IsDev(n)
    BY <1>14 DEF Lost
  <2>2. n \in Hash /\ form[n] # "dev" /\ n # h /\ n \in Woven'
    BY <1>2, <1>3, <1>5, <2>1
  <2>3. form'[n] # "dev"
    BY <1>9, <2>2
  <2> QED
    BY <1>10, <2>2, <2>3 DEF Lost
<1>15. ASSUME Intact, ~Lost'
       PROVE  Intact'
  <2>1. \A n \in Woven' : n \in Hash /\ form'[n] = "dev"
    BY <1>2, <1>3, <1>10, <1>15 DEF Lost
  <2>2. Copied(h) = Succ(kids, h) \cap dev
    BY <1>3, <1>4, <1>5, <1>15 DEF Copied, Succ, WeaveInv, Intact
  <2>3. \A n \in Woven' : against'[n] = Succ(kids, n) \cap dev
    <3> TAKE n \in Woven'
    <3>1. against'[n] = IF n = h THEN Copied(h) ELSE against[n]
      BY <1>2, <2>1 DEF WeaveInv, TypeOK
    <3> QED
      BY <1>3, <1>15, <2>2, <3>1 DEF Intact
  <2>4. ASSUME NEW n \in Hash \ dev
        PROVE  form'[n] = "rewired" <=> \E k \in Woven' : n \in Above(k)
    <3>1. form'[n] = IF n \in Above(h) THEN Rewire(n) ELSE form[n]
      BY <1>2, <1>3, <1>7
    <3>2. form[n] # "absent" => Rewire(n) = "rewired"
      BY <1>3, <1>8 DEF Rewire
    <3>3. form[n] # "absent"
      BY <2>4 DEF WeaveInv
    <3>4. form[n] = "rewired" <=> \E k \in Woven : n \in Above(k)
      BY <1>15, <2>4 DEF Intact
    <3> QED
      BY <1>3, <3>1, <3>2, <3>3, <3>4
  <2> QED
    BY <1>2, <1>10, <2>1, <2>3, <2>4 DEF Intact
<1>16. Lost' \/ Intact'
  BY <1>14, <1>15 DEF WeaveInv
<1>17. Convex(kids, dev)' /\ verdict' # "passed"
  BY <1>2 DEF WeaveInv
<1> QED
  BY <1>2, <1>10, <1>11, <1>12, <1>13, <1>16, <1>17 DEF WeaveInv

LEMMA WeaveStep == WeaveInv /\ [Next]_vars => WeaveInv'
<1> SUFFICES ASSUME WeaveInv, [Next]_vars
             PROVE  WeaveInv'
  OBVIOUS
<1>1. ASSUME NEW h \in Hash, SpliceIn(h)
      PROVE  WeaveInv'
  BY <1>1, WeaveSplice
<1>2. ASSUME UNCHANGED <<kids, dev, left, form, against>>,
             verdict' \in {"none", "passed", "raised"},
             verdict' = "passed" => left = {} /\ ~Lost
      PROVE  WeaveInv'
  <2>1. Woven' = Woven /\ (\A k : Above(k)' = Above(k)) /\ (\A n : IsDev(n)' <=> IsDev(n))
    BY <1>2 DEF Woven, Above, IsDev
  <2>2. TypeOK' /\ (Lost' <=> Lost) /\ (Intact' <=> Intact)
    BY <1>2, <2>1 DEF WeaveInv, TypeOK, Lost, Intact
  <2> QED
    BY <1>2, <2>1, <2>2 DEF WeaveInv
<1>3. CASE Verify
  <2>1. verdict' = "passed" => \A n \in dev : IsDev(n)
    BY <1>3 DEF Verify
  <2>2. verdict' = "passed" => ~Lost
    BY <2>1 DEF Lost, Woven
  <2> QED
    BY <1>2, <1>3, <2>2 DEF Verify, inputs
<1>4. ASSUME NEW h \in Hash, Vanished(h)
      PROVE  WeaveInv'
  BY <1>2, <1>4 DEF Vanished, inputs
<1>5. CASE UNCHANGED vars
  <2>1. UNCHANGED <<kids, dev, left, form, against, verdict>>
    BY <1>5 DEF vars, inputs
  <2> QED
    BY <1>2, <2>1 DEF WeaveInv, TypeOK
<1> QED
  BY <1>1, <1>3, <1>4, <1>5 DEF Next

LEMMA WeaveInvariant == Spec => []WeaveInv
BY WeaveInit, WeaveStep, PTL DEF Spec

(* The variables always have their types (specbuild.py:249-265).           *)
THEOREM TypeInvariant == Spec => []TypeOK
<1>1. WeaveInv => TypeOK
  BY DEF WeaveInv
<1> QED
  BY <1>1, WeaveInvariant, PTL

(* No splice rewires a dev spec that was woven before it, for any graph     *)
(* (specbuild.py:79-82).                                                    *)
THEOREM WovenStaysBuilt == Spec => []DevStaysBuilt
<1>1. WeaveInv => DevStaysBuilt
  BY DEF WeaveInv, DevStaysBuilt
<1> QED
  BY <1>1, WeaveInvariant, PTL

(* What passes the check was woven from dev builds throughout, whatever     *)
(* splices lost on the way (specbuild.py:224-226, 446-465).                 *)
THEOREM WovenFromDev == Spec => []CopiedFromDev
<1>1. WeaveInv => CopiedFromDev
  BY DEF WeaveInv, CopiedFromDev, Intact, Woven
<1> QED
  BY <1>1, WeaveInvariant, PTL

(* Exactly what lies above the dev set is rewired and exactly the dev set   *)
(* is built from source, in what passes the check (specbuild.py:235-238).   *)
THEOREM RewiredIsAbove == Spec => []OnlyAboveIsRewired
<1>1. ASSUME WeaveInv, verdict = "passed"
      PROVE  /\ {n \in Hash : form[n] = "rewired"} = (UNION {Above(h) : h \in dev}) \ dev
             /\ {n \in Hash : IsDev(n)} = dev
  <2>1. Woven = dev /\ dev \subseteq Hash /\ Intact
    BY <1>1 DEF Woven, WeaveInv, TypeOK
  <2>2. \A n \in Hash : IsDev(n) <=> n \in dev
    BY <1>1, <2>1 DEF WeaveInv, Intact, IsDev
  <2>3. \A n \in Hash : form[n] = "rewired" <=> n \notin dev /\ \E h \in dev : n \in Above(h)
    BY <1>1, <2>1 DEF Intact
  <2>4. \A h \in dev : Above(h) \subseteq Hash
    BY DEF Above
  <2> QED
    BY <2>1, <2>2, <2>3, <2>4
<1>2. WeaveInv => OnlyAboveIsRewired
  BY <1>1 DEF OnlyAboveIsRewired
<1> QED
  BY <1>2, WeaveInvariant, PTL
=============================================================================
