-------------------------- MODULE Reconcile_proofs --------------------------
(***************************************************************************)
(* What drift.reconcile guarantees for every recipe, whatever its          *)
(* conditions, every copied spec and every bound on the passes.            *)
(***************************************************************************)
EXTENDS Reconcile, WellFoundedInduction, TLAPS

\* The inputs are what ReconcileAssumption says, and the loop stops in time.
InputsInv ==
    /\ recipe \in Recipes /\ start \in Starts
    /\ phase \notin {"done", "error"} => pass < MAX_PASSES

\* The variants, and the dependencies, are what the recipe declares for the spec.
VariantsInLine == Wanted(Variant) \subseteq Present /\ Present \subseteq Wanted(Variant) \cup Reserved
DepsInLine ==
    /\ Wanted(Dependency) \subseteq deps \cup Virtual
    /\ deps \subseteq Wanted(Dependency) \cup Abi \cup start.providing

\* BreakMeansInLine is not inductive: it needs what a half pass without a change
\* has established.
PassInv ==
    /\ phase = "deps" /\ ~changed => VariantsInLine
    /\ phase \in {"end", "done"} /\ ~changed => VariantsInLine /\ DepsInLine

TypeInv == TypeOK /\ InputsInv

LEMMA StartType ==
  ASSUME start \in Starts
  PROVE  /\ start.variants \in [Variant -> {"absent", "default", "chosen"}]
         /\ start.deps \subseteq Dependency \ Virtual
         /\ start.providing \subseteq start.deps
         /\ Reserved \subseteq Variant /\ Abi \subseteq Dependency
         /\ Variant \cap Dependency = {}
         /\ MAX_PASSES \in Nat \ {0}
  BY ReconcileAssumption DEF Node

LEMMA TypeInit == Init => TypeInv
<1> SUFFICES ASSUME Init PROVE TypeInv
  OBVIOUS
<1>1. pass \in 0 .. MAX_PASSES /\ pass < MAX_PASSES
  BY StartType DEF Init
<1> QED
  BY <1>1, StartType DEF Init, TypeInv, TypeOK, InputsInv

LEMMA TypeStep == TypeInv /\ [Next]_vars => TypeInv'
<1> SUFFICES ASSUME TypeInv, [Next]_vars PROVE TypeInv'
  OBVIOUS
<1> USE StartType DEF TypeInv, TypeOK, InputsInv, inputs
<1>1. CASE ReconcileVariants
  <2> DEFINE new == Wanted(Variant) \ Present
             gone == (Present \ Wanted(Variant)) \ Reserved
  <2>1. /\ variants' = [v \in Variant |-> IF v \in new THEN "default"
                                            ELSE IF v \in gone THEN "absent" ELSE variants[v]]
        /\ added' = added \cup new /\ removed' = removed \cup gone
        /\ changed' = (new \cup gone # {})
        /\ phase = "variants" /\ phase' = "deps" /\ UNCHANGED <<inputs, deps, pass>>
    BY <1>1 DEF ReconcileVariants
  <2>2. new \subseteq Item /\ gone \subseteq Item
    BY DEF Wanted, Present, Item
  <2> HIDE DEF new, gone
  <2>3. variants' \in [Variant -> {"absent", "default", "chosen"}]
    BY <2>1
  <2>4. (new \cup gone # {}) \in BOOLEAN
    OBVIOUS
  <2> QED
    BY <2>1, <2>2, <2>3, <2>4
<1>2. CASE ReconcileDependencies
  BY <1>2 DEF ReconcileDependencies, NewDeps, Wanted, Item
<1>3. CASE Unresolvable
  BY <1>3 DEF Unresolvable
<1>4. CASE EndPass
  BY <1>4 DEF EndPass
<1>5. CASE UNCHANGED vars
  BY <1>5 DEF vars
<1> QED
  BY <1>1, <1>2, <1>3, <1>4, <1>5 DEF Next

(* The loop always has its types, and makes at most MAX_PASSES passes       *)
(* (drift.py:216-227).                                                      *)
THEOREM TypeInvariant == Spec => []TypeOK
<1>1. TypeInv => TypeOK
  BY DEF TypeInv
<1> QED
  BY <1>1, TypeInit, TypeStep, PTL DEF Spec

-----------------------------------------------------------------------------
\* What the recipe declares depends on the facts alone.
LEMMA SameFacts ==
  ASSUME UNCHANGED <<inputs, variants, deps>>
  PROVE  /\ Present' = Present /\ Facts' = Facts
         /\ Wanted(Variant)' = Wanted(Variant) /\ Wanted(Dependency)' = Wanted(Dependency)
         /\ VariantsInLine' = VariantsInLine /\ DepsInLine' = DepsInLine
  BY DEF inputs, Present, Facts, Wanted, VariantsInLine, DepsInLine

LEMMA PassStep == TypeInv /\ PassInv /\ [Next]_vars => PassInv'
<1> SUFFICES ASSUME TypeInv, PassInv, [Next]_vars PROVE PassInv'
  OBVIOUS
<1> USE DEF PassInv
<1>1. CASE ReconcileVariants
  <2> SUFFICES ASSUME ~changed' PROVE VariantsInLine'
    BY <1>1 DEF ReconcileVariants
  <2>1. /\ Wanted(Variant) \ Present = {} /\ (Present \ Wanted(Variant)) \ Reserved = {}
        /\ UNCHANGED <<inputs, deps>>
    BY <1>1 DEF ReconcileVariants
  <2>2. variants' = variants
    BY <1>1, <2>1 DEF ReconcileVariants, TypeInv, TypeOK
  <2>3. VariantsInLine
    BY <2>1 DEF VariantsInLine
  <2> QED
    BY <2>1, <2>2, <2>3, SameFacts
<1>2. CASE ReconcileDependencies
  <2> SUFFICES ASSUME ~changed' PROVE VariantsInLine' /\ DepsInLine'
    BY <1>2 DEF ReconcileDependencies
  <2>1. /\ phase = "deps" /\ ~changed /\ NewDeps = {}
        /\ deps \ (Wanted(Dependency) \cup Abi \cup start.providing) = {}
        /\ UNCHANGED <<inputs, variants>> /\ deps' = deps
    BY <1>2 DEF ReconcileDependencies
  <2>2. VariantsInLine /\ DepsInLine
    BY <2>1 DEF DepsInLine, NewDeps
  <2> QED
    BY <2>1, <2>2, SameFacts
<1>3. CASE Unresolvable
  BY <1>3 DEF Unresolvable
<1>4. CASE EndPass
  <2>1. phase = "end" /\ phase' \in {"variants", "done"} /\ changed' = changed
        /\ UNCHANGED <<inputs, variants, deps>>
    BY <1>4 DEF EndPass
  <2> QED
    BY <2>1, SameFacts
<1>5. CASE UNCHANGED vars
  <2>1. phase' = phase /\ changed' = changed /\ UNCHANGED <<inputs, variants, deps>>
    BY <1>5 DEF vars
  <2> QED
    BY <2>1, SameFacts
<1> QED
  BY <1>1, <1>2, <1>3, <1>4, <1>5 DEF Next

(* For any recipe, a spec on which the loop breaks is in line with it: the  *)
(* four lists that it looks at are all that matters (drift.py:217-227).     *)
THEOREM BreakIsFixpoint == Spec => []BreakMeansInLine
<1>1. Init => PassInv
  BY DEF Init, PassInv
<1>2. PassInv => BreakMeansInLine
  BY DEF PassInv, BreakMeansInLine, InLine, VariantsInLine, DepsInLine
<1> QED
  BY <1>1, <1>2, TypeInit, TypeStep, PassStep, PTL DEF Spec

-----------------------------------------------------------------------------
LEMMA ProtectedStep == TypeInv /\ Protected /\ [Next]_vars => Protected'
<1> SUFFICES ASSUME TypeInv, Protected, [Next]_vars PROVE Protected'
  OBVIOUS
<1> USE StartType DEF Protected, Kept, inputs
<1>1. CASE ReconcileVariants
  <2>1. UNCHANGED <<inputs, deps>>
    BY <1>1 DEF ReconcileVariants
  <2>2. ASSUME NEW v \in Variant, Kept(v), start.variants[v] # "absent"
        PROVE  variants'[v] = start.variants[v]
    <3>1. variants[v] = start.variants[v] /\ v \in Present
      BY <2>2 DEF Present
    <3>2. v \in Wanted(Variant) \cup Reserved
      BY <2>2 DEF Wanted
    <3> QED
      BY <1>1, <2>2, <3>1, <3>2 DEF ReconcileVariants
  <2> QED
    BY <2>1, <2>2
<1>2. CASE ReconcileDependencies
  <2>1. UNCHANGED <<inputs, variants>>
    BY <1>2 DEF ReconcileDependencies
  <2>2. {d \in deps : {} \in recipe[d]} \subseteq Wanted(Dependency)
    BY DEF Wanted, TypeInv, TypeOK
  <2>3. deps \cap (Wanted(Dependency) \cup Abi \cup start.providing) \subseteq deps'
    BY <1>2 DEF ReconcileDependencies
  <2> QED
    BY <2>1, <2>2, <2>3
<1>3. CASE Unresolvable
  BY <1>3 DEF Unresolvable
<1>4. CASE EndPass
  BY <1>4 DEF EndPass
<1>5. CASE UNCHANGED vars
  BY <1>5 DEF vars
<1> QED
  BY <1>1, <1>2, <1>3, <1>4, <1>5 DEF Next

(* For any recipe and any number of passes, reserved variants, compiler and *)
(* runtime nodes, providers of virtuals and what is declared               *)
(* unconditionally are kept (drift.py:101-103, 185-189).                    *)
THEOREM ReconcileProtects == Spec => []Protected
<1>1. Init => Protected
  BY ReconcileAssumption DEF Init, Protected, Node
<1> QED
  BY <1>1, TypeInit, TypeStep, ProtectedStep, PTL DEF Spec

-----------------------------------------------------------------------------
LEMMA DriftStep == TypeInv /\ DriftNamesEveryChange /\ [Next]_vars => DriftNamesEveryChange'
<1> SUFFICES ASSUME TypeInv, DriftNamesEveryChange, [Next]_vars PROVE DriftNamesEveryChange'
  OBVIOUS
<1> USE StartType DEF DriftNamesEveryChange, inputs
<1>1. CASE ReconcileVariants
  <2> DEFINE new == Wanted(Variant) \ Present
             gone == (Present \ Wanted(Variant)) \ Reserved
  <2>1. /\ variants' = [v \in Variant |-> IF v \in new THEN "default"
                                            ELSE IF v \in gone THEN "absent" ELSE variants[v]]
        /\ added' = added \cup new /\ removed' = removed \cup gone
        /\ UNCHANGED <<inputs, deps>>
    BY <1>1 DEF ReconcileVariants
  <2>2. new \subseteq Variant /\ gone \subseteq Variant
    BY DEF Wanted, Present
  <2>3. Present' = (Present \cup new) \ gone
    BY <2>1, <2>2 DEF Present
  <2>4. \A v \in Present' : v \in new \/ (v \in Present /\ variants'[v] = variants[v])
    BY <2>1, <2>3 DEF Present
  <2> HIDE DEF new, gone
  <2> QED
    BY <2>1, <2>3, <2>4
<1>2. CASE ReconcileDependencies
  BY <1>2 DEF ReconcileDependencies, Present
<1>3. CASE Unresolvable
  BY <1>3 DEF Unresolvable, Present
<1>4. CASE EndPass
  BY <1>4 DEF EndPass, Present
<1>5. CASE UNCHANGED vars
  BY <1>5 DEF vars, Present
<1> QED
  BY <1>1, <1>2, <1>3, <1>4, <1>5 DEF Next

(* For any recipe, no drift reported means that nothing changed, and the    *)
(* drift reported names all that did (drift.py:208-227).                    *)
THEOREM DriftIsComplete == Spec => []DriftNamesEveryChange
<1>1. Init => DriftNamesEveryChange
  BY DEF Init, DriftNamesEveryChange, Present
<1> QED
  BY <1>1, TypeInit, TypeStep, DriftStep, PTL DEF Spec
-----------------------------------------------------------------------------
\* One pass over the variants, and one over the dependencies, settles ...
SettleVariants(S) == S \cup {v \in Variant : Needs(v) \subseteq S}
SettleDeps(S) == S \cup {d \in Dependency : Needs(d) \subseteq S}

\* f describes the first n passes as SettledAfter does.
Settling(f, n) ==
    f = [k \in 0 .. n |-> IF k = 0 THEN {} ELSE SettleDeps(SettleVariants(f[k - 1]))]

\* Such a description exists for any number of passes: the least number for
\* which it did not would have a predecessor to extend.
LEMMA SettlingExists == \A n \in Nat : \E f : Settling(f, n)
<1> DEFINE S == {n \in Nat : ~ \E f : Settling(f, n)}
           R == {e \in Nat \X Nat : e[1] < e[2]}
<1> SUFFICES ASSUME S # {} PROVE FALSE
  OBVIOUS
<1>1. IsWellFoundedOn(R, Nat)
  BY NatLessThanWellFounded DEF OpToRel
<1>2. PICK n \in S : \A m \in S : <<m, n>> \notin R
  BY <1>1, WFMin
<1>3. n # 0
  <2>1. Settling([k \in 0 .. 0 |-> {}], 0)
    BY DEF Settling
  <2> QED
    BY <1>2, <2>1
<1>4. PICK f : Settling(f, n - 1)
  <2>1. n \in Nat /\ n - 1 \in Nat /\ n - 1 < n
    BY <1>2, <1>3
  <2>2. <<n - 1, n>> \in R
    BY <2>1
  <2>3. n - 1 \notin S
    BY <1>2, <2>2
  <2> QED
    BY <2>1, <2>3
<1> DEFINE g == [k \in 0 .. n |-> IF k \in 0 .. n - 1 THEN f[k]
                                  ELSE SettleDeps(SettleVariants(f[n - 1]))]
<1>5. \A k \in 0 .. n - 1 :
          f[k] = IF k = 0 THEN {} ELSE SettleDeps(SettleVariants(f[k - 1]))
  BY <1>4 DEF Settling
<1>6. ASSUME NEW k \in 0 .. n
      PROVE  g[k] = IF k = 0 THEN {} ELSE SettleDeps(SettleVariants(g[k - 1]))
  <2>1. CASE k = n
    <3>1. k # 0 /\ k \notin 0 .. n - 1 /\ k - 1 = n - 1 /\ n - 1 \in 0 .. n - 1 /\ n - 1 \in 0 .. n
      BY <1>2, <1>3, <2>1
    <3> QED
      BY <2>1, <3>1
  <2>2. CASE k # n
    <3>1. k \in 0 .. n - 1 /\ (k # 0 => k - 1 \in 0 .. n - 1 /\ k - 1 \in 0 .. n)
      BY <1>2, <2>2
    <3> QED
      BY <1>5, <3>1
  <2> QED
    BY <2>1, <2>2
<1>7. Settling(g, n)
  <2> HIDE DEF g
  <2>1. g = [k \in 0 .. n |-> g[k]]
    BY DEF g
  <2> QED
    BY <1>6, <2>1 DEF Settling
<1> QED
  BY <1>2, <1>7

LEMMA SettledSteps ==
    /\ SettledAfter[0] = {}
    /\ \A k \in 0 .. MAX_PASSES - 1 :
          SettledAfter[k + 1] = SettleDeps(SettleVariants(SettledAfter[k]))
<1>0. MAX_PASSES \in Nat
  BY ReconcileAssumption
<1>1. PICK f : Settling(f, MAX_PASSES)
  BY <1>0, SettlingExists
<1>2. f = [k \in 0 .. MAX_PASSES |->
             IF k = 0 THEN {}
             ELSE LET before == f[k - 1]
                      now == before \cup {v \in Variant : Needs(v) \subseteq before}
                  IN  now \cup {d \in Dependency : Needs(d) \subseteq now}]
  BY <1>1 DEF Settling, SettleVariants, SettleDeps
<1>3. SettledAfter = [k \in 0 .. MAX_PASSES |->
             IF k = 0 THEN {}
             ELSE LET before == SettledAfter[k - 1]
                      now == before \cup {v \in Variant : Needs(v) \subseteq before}
                  IN  now \cup {d \in Dependency : Needs(d) \subseteq now}]
  BY <1>2 DEF SettledAfter
<1>4. SettledAfter[0] = {}
  BY <1>0, <1>3
<1>5. ASSUME NEW k \in 0 .. MAX_PASSES - 1
      PROVE  SettledAfter[k + 1] = SettleDeps(SettleVariants(SettledAfter[k]))
  <2>1. \A m \in 0 .. MAX_PASSES : m # 0 =>
            SettledAfter[m] = SettleDeps(SettleVariants(SettledAfter[m - 1]))
    BY <1>3 DEF SettleVariants, SettleDeps
  <2>2. k + 1 \in 0 .. MAX_PASSES /\ k + 1 # 0 /\ (k + 1) - 1 = k
    BY <1>0
  <2> QED
    BY <2>1, <2>2
<1> QED
  BY <1>4, <1>5

\* The items of S are in line, and depend on nothing outside S: they stay in line.
VariantInLine(v) ==
    /\ v \in Wanted(Variant) => v \in Present
    /\ v \in Present => v \in Wanted(Variant) \cup Reserved
DepInLine(d) ==
    /\ d \in Wanted(Dependency) => d \in deps \cup Virtual
    /\ d \in deps => d \in Wanted(Dependency) \cup Abi \cup start.providing
Settled(S) ==
    /\ S \subseteq Item
    /\ \A x \in S : Needs(x) \subseteq S
    /\ \A v \in S \cap Variant : VariantInLine(v)
    /\ \A d \in S \cap Dependency : DepInLine(d)

\* What the passes so far, and the half of a pass, have settled.
SettledInv ==
    /\ phase = "variants" => Settled(SettledAfter[pass])
    /\ phase = "deps" => Settled(SettleVariants(SettledAfter[pass]))
    /\ phase = "end" => Settled(SettledAfter[pass + 1])
    /\ phase = "done" => Settled(SettledAfter[pass]) /\ (changed => pass = MAX_PASSES)

LEMMA FactHolds ==
  TypeInv => \A f \in Fact :
      /\ f[1] \in Item
      /\ f[1] \in Variant => (f \in Facts <=> variants[f[1]] = f[2])
      /\ f[1] \in Dependency => (f \in Facts <=> f[1] \in deps)
<1> SUFFICES ASSUME TypeInv, NEW f \in Fact
             PROVE  /\ f[1] \in Item
                    /\ f[1] \in Variant => (f \in Facts <=> variants[f[1]] = f[2])
                    /\ f[1] \in Dependency => (f \in Facts <=> f[1] \in deps)
  OBVIOUS
<1>1. Variant \cap Dependency = {} /\ deps \subseteq Dependency
  BY ReconcileAssumption DEF TypeInv, TypeOK
<1>2. CASE f \in Variant \X {"default", "chosen"}
  <2>1. f[1] \in Variant /\ f[1] \notin Dependency /\ f = <<f[1], f[2]>> /\ f[2] # "absent"
    BY <1>1, <1>2
  <2> QED
    BY <1>1, <2>1 DEF Facts, Present, Item
<1>3. CASE f \in Dependency \X {"present"}
  <2>1. f[1] \in Dependency /\ f[1] \notin Variant /\ f = <<f[1], "present">>
    BY <1>1, <1>3
  <2> QED
    BY <1>1, <2>1 DEF Facts, Present, Item
<1> QED
  BY <1>2, <1>3 DEF Fact

LEMMA FactHoldsNext ==
  TypeInv' => (\A f \in Fact :
      /\ f[1] \in Variant => (f \in Facts <=> variants[f[1]] = f[2])
      /\ f[1] \in Dependency => (f \in Facts <=> f[1] \in deps))'
<1>1. TypeInv => \A f \in Fact :
          /\ f[1] \in Variant => (f \in Facts <=> variants[f[1]] = f[2])
          /\ f[1] \in Dependency => (f \in Facts <=> f[1] \in deps)
  BY FactHolds
<1> QED
  BY <1>1, PTL

\* Whether a recipe declares an item depends on the items in its conditions only.
LEMMA StillWanted ==
  ASSUME TypeInv, TypeInv', UNCHANGED recipe, NEW x \in Item,
         \A v \in Needs(x) \cap Variant : variants'[v] = variants[v],
         \A d \in Needs(x) \cap Dependency : d \in deps' <=> d \in deps
  PROVE  (\E when \in recipe[x] : when \subseteq Facts)'
            <=> \E when \in recipe[x] : when \subseteq Facts
<1>1. ASSUME NEW when \in recipe[x], NEW f \in when
      PROVE  f \in Facts' <=> f \in Facts
  <2>1. f \in Fact
    BY ReconcileAssumption DEF TypeInv, InputsInv, Condition
  <2>2. f[1] \in Needs(x)
    BY DEF Needs
  <2>3. f[1] \in Item
    BY <2>1, FactHolds
  <2>4. CASE f[1] \in Variant
    <3>1. f \in Facts <=> variants[f[1]] = f[2]
      BY <2>1, <2>4, FactHolds
    <3>2. f \in Facts' <=> variants'[f[1]] = f[2]
      BY <2>1, <2>4, FactHoldsNext
    <3> QED
      BY <2>2, <2>4, <3>1, <3>2
  <2>5. CASE f[1] \in Dependency
    <3>1. f \in Facts <=> f[1] \in deps
      BY <2>1, <2>5, FactHolds
    <3>2. f \in Facts' <=> f[1] \in deps'
      BY <2>1, <2>5, FactHoldsNext
    <3> QED
      BY <2>2, <2>5, <3>1, <3>2
  <2> QED
    BY <2>3, <2>4, <2>5 DEF Item
<1> QED
  BY <1>1

\* Half a pass leaves what was settled in line, and settles what depends on it.
LEMMA SettleVariantsStep ==
  ASSUME TypeInv, TypeInv', NEW S, Settled(S), ReconcileVariants
  PROVE  \A T : T = SettleVariants(S) => Settled(T)'
<1> DEFINE new == Wanted(Variant) \ Present
           gone == (Present \ Wanted(Variant)) \ Reserved
<1>1. /\ variants' = [v \in Variant |-> IF v \in new THEN "default"
                                        ELSE IF v \in gone THEN "absent" ELSE variants[v]]
      /\ UNCHANGED <<recipe, start, deps>>
  BY DEF ReconcileVariants, inputs
<1>2. new \subseteq Variant /\ gone \subseteq Variant /\ Present' = (Present \cup new) \ gone
  <2>1. new \subseteq Variant /\ gone \subseteq Variant
    BY DEF Wanted, Present
  <2> QED
    BY <1>1, <2>1 DEF Present
<1>3. \A v \in S \cap Variant : v \notin new /\ v \notin gone
  BY DEF Settled, VariantInLine
<1> HIDE DEF new, gone
<1>4. \A v \in S \cap Variant : variants'[v] = variants[v]
  BY <1>1, <1>3
<1>5. ASSUME NEW x \in Item, Needs(x) \subseteq S
      PROVE  /\ x \in Variant => (x \in Wanted(Variant)' <=> x \in Wanted(Variant))
             /\ x \in Dependency => (x \in Wanted(Dependency)' <=> x \in Wanted(Dependency))
  <2>1. (\E when \in recipe[x] : when \subseteq Facts)'
            <=> \E when \in recipe[x] : when \subseteq Facts
    BY <1>1, <1>4, <1>5, StillWanted
  <2> QED
    BY <2>1 DEF Wanted
<1> DEFINE T == SettleVariants(S)
<1>6. T \subseteq Item /\ \A x \in T : Needs(x) \subseteq S
  BY DEF Settled, SettleVariants, Item
<1>7. ASSUME NEW v \in T \cap Variant PROVE VariantInLine(v)'
  <2>1. v \in Wanted(Variant)' <=> v \in Wanted(Variant)
    BY <1>5, <1>6
  <2> QED
    BY <1>2, <2>1 DEF VariantInLine, new, gone
<1>8. ASSUME NEW d \in T \cap Dependency PROVE DepInLine(d)'
  <2>1. d \in S /\ d \in Item
    BY <1>6, ReconcileAssumption DEF SettleVariants
  <2>2. d \in Wanted(Dependency)' <=> d \in Wanted(Dependency)
    BY <1>5, <1>6
  <2> QED
    BY <1>1, <2>1, <2>2 DEF DepInLine, Settled
<1>9. \A x \in T : Needs(x)' \subseteq T
  BY <1>1, <1>6 DEF Needs, SettleVariants
<1> QED
  BY <1>6, <1>7, <1>8, <1>9 DEF Settled

LEMMA SettleDepsStep ==
  ASSUME TypeInv, TypeInv', NEW S, Settled(S), ReconcileDependencies
  PROVE  \A T : T = SettleDeps(S) => Settled(T)'
<1> DEFINE gone == deps \ (Wanted(Dependency) \cup Abi \cup start.providing)
<1>1. deps' = (deps \cup NewDeps) \ gone /\ UNCHANGED <<recipe, start, variants>>
  BY DEF ReconcileDependencies, inputs
<1>2. \A d \in S \cap Dependency : d \notin NewDeps /\ d \notin gone
  BY DEF Settled, DepInLine, NewDeps
<1>3. \A d \in S \cap Dependency : d \in deps' <=> d \in deps
  BY <1>1, <1>2
<1>4. ASSUME NEW x \in Item, Needs(x) \subseteq S
      PROVE  /\ x \in Variant => (x \in Wanted(Variant)' <=> x \in Wanted(Variant))
             /\ x \in Dependency => (x \in Wanted(Dependency)' <=> x \in Wanted(Dependency))
  <2>1. (\E when \in recipe[x] : when \subseteq Facts)'
            <=> \E when \in recipe[x] : when \subseteq Facts
    BY <1>1, <1>3, <1>4, StillWanted
  <2> QED
    BY <2>1 DEF Wanted
<1> DEFINE T == SettleDeps(S)
<1>5. T \subseteq Item /\ \A x \in T : Needs(x) \subseteq S
  BY DEF Settled, SettleDeps, Item
<1>6. ASSUME NEW v \in T \cap Variant PROVE VariantInLine(v)'
  <2>1. v \in S
    BY ReconcileAssumption DEF SettleDeps
  <2>2. v \in Wanted(Variant)' <=> v \in Wanted(Variant)
    BY <1>4, <1>5
  <2>3. Present' = Present
    BY <1>1 DEF Present
  <2> QED
    BY <2>1, <2>2, <2>3 DEF VariantInLine, Settled
<1>7. ASSUME NEW d \in T \cap Dependency PROVE DepInLine(d)'
  <2>1. d \in Wanted(Dependency)' <=> d \in Wanted(Dependency)
    BY <1>4, <1>5
  <2> QED
    BY <1>1, <2>1 DEF DepInLine, NewDeps
<1>8. \A x \in T : Needs(x)' \subseteq T
  BY <1>1, <1>5 DEF Needs, SettleDeps
<1> QED
  BY <1>5, <1>6, <1>7, <1>8 DEF Settled

\* SettledAfter depends on the recipe alone.
SettledFor(r) ==
    CHOOSE f : f = [k \in 0 .. MAX_PASSES |->
        IF k = 0 THEN {}
        ELSE LET needs(x) == {g[1] : g \in UNION r[x]}
                 before == f[k - 1]
                 now == before \cup {v \in Variant : needs(v) \subseteq before}
             IN  now \cup {d \in Dependency : needs(d) \subseteq now}]

LEMMA SettledFromRecipe ==
    /\ SettledAfter = SettledFor(recipe)
    /\ SettledAfter' = SettledFor(recipe')
BY DEF SettledAfter, SettledFor, Needs

LEMMA SettledKept ==
  ASSUME UNCHANGED <<inputs, variants, deps>>, NEW S
  PROVE  Settled(S)' <=> Settled(S)
<1>1. \A x : Needs(x)' = Needs(x)
  BY DEF Needs, inputs
<1> QED
  BY <1>1, SameFacts DEF Settled, VariantInLine, DepInLine, inputs

LEMMA SettledStep ==
  TypeInv /\ SettledInv /\ [Next]_vars /\ TypeInv' => SettledInv'
<1> SUFFICES ASSUME TypeInv, SettledInv, [Next]_vars, TypeInv' PROVE SettledInv'
  OBVIOUS
<1>1. UNCHANGED inputs /\ SettledAfter' = SettledAfter
  <2>1. UNCHANGED inputs
    BY DEF Next, vars, ReconcileVariants, ReconcileDependencies, Unresolvable, EndPass
  <2>2. recipe' = recipe
    BY <2>1 DEF inputs
  <2>3. SettledAfter' = SettledAfter
    BY <2>2, SettledFromRecipe
  <2> QED
    BY <2>1, <2>3
<1>2. MAX_PASSES \in Nat /\ pass \in 0 .. MAX_PASSES
      /\ (phase \notin {"done", "error"} => pass \in 0 .. MAX_PASSES - 1)
  BY ReconcileAssumption DEF TypeInv, TypeOK, InputsInv
<1>3. CASE ReconcileVariants
  <2>1. phase = "variants" /\ phase' = "deps" /\ pass' = pass
    BY <1>3 DEF ReconcileVariants
  <2> DEFINE S == SettledAfter[pass]
             T == SettleVariants(S)
  <2>2. Settled(S)
    BY <2>1 DEF SettledInv
  <2>3. ASSUME NEW T0, T0 = T PROVE Settled(T0)'
    <3>1. ASSUME NEW S0, S0 = S PROVE Settled(T0)'
      BY <1>3, <2>2, <2>3, <3>1, SettleVariantsStep
    <3> QED
      BY <3>1
  <2>4. T' = T
    BY <1>1, <2>1 DEF SettleVariants, Needs, inputs
  <2>5. Settled(T)'
    BY <2>3, <2>4 DEF Settled
  <2> QED
    BY <2>1, <2>5 DEF SettledInv
<1>4. CASE ReconcileDependencies
  <2>1. phase = "deps" /\ phase' = "end" /\ pass' = pass
    BY <1>4 DEF ReconcileDependencies
  <2> DEFINE S == SettleVariants(SettledAfter[pass])
             T == SettledAfter[pass + 1]
  <2>2. Settled(S) /\ T = SettleDeps(S)
    BY <1>2, <2>1, SettledSteps DEF SettledInv
  <2>3. ASSUME NEW T0, T0 = T PROVE Settled(T0)'
    <3>1. ASSUME NEW S0, S0 = S PROVE Settled(T0)'
      BY <1>4, <2>2, <2>3, <3>1, SettleDepsStep
    <3> QED
      BY <3>1
  <2>4. T' = T
    BY <1>1, <2>1
  <2>5. Settled(T)'
    BY <2>3, <2>4 DEF Settled
  <2> QED
    BY <2>1, <2>5 DEF SettledInv
<1>5. CASE Unresolvable
  BY <1>5 DEF Unresolvable, SettledInv
<1>6. CASE EndPass
  <2>1. /\ phase = "end" /\ pass' = pass + 1 /\ UNCHANGED <<inputs, variants, deps, changed>>
        /\ phase' = IF changed /\ pass' < MAX_PASSES THEN "variants" ELSE "done"
    BY <1>6 DEF EndPass
  <2> DEFINE S == SettledAfter[pass + 1]
  <2>2. Settled(S)
    BY <2>1 DEF SettledInv
  <2>3. ASSUME NEW S0, S0 = S PROVE Settled(S0)'
    BY <2>1, <2>2, <2>3, SettledKept
  <2>4. SettledAfter'[pass'] = S
    BY <1>1, <2>1
  <2>5. Settled(SettledAfter[pass])'
    BY <2>3, <2>4 DEF Settled
  <2>6. phase' = "done" => (changed' => pass' = MAX_PASSES)
    BY <1>2, <2>1
  <2> QED
    BY <2>1, <2>5, <2>6 DEF SettledInv
<1>7. CASE UNCHANGED vars
  <2>1. UNCHANGED <<inputs, variants, deps, phase, pass, changed>>
    BY <1>7 DEF vars
  <2>2. \A x : Needs(x)' = Needs(x)
    BY <2>1 DEF Needs, inputs
  <2>3. \A S : Settled(S)' <=> Settled(S)
    BY <2>1, SettledKept
  <2>4. \A S : SettleVariants(S)' = SettleVariants(S)
    BY <2>2 DEF SettleVariants
  <2> QED
    BY <1>1, <2>1, <2>2, <2>4, SameFacts
    DEF SettledInv, Settled, VariantInLine, DepInLine, inputs, SettleVariants
<1> QED
  BY <1>3, <1>4, <1>5, <1>6, <1>7 DEF Next

(* For every recipe whose conditions chain through no more than MAX_PASSES  *)
(* passes, the bound on the loop does no harm: a spec on which it cuts the  *)
(* loop off is in line with its recipe (drift.py:194-196, 217-219).         *)
THEOREM PassesSuffice == Spec => []EnoughPasses
<1>1. Init => SettledInv
  <2> SUFFICES ASSUME Init PROVE Settled(SettledAfter[0])
    BY DEF Init, SettledInv
  <2> QED
    BY SettledSteps DEF Settled
<1>2. TypeInv /\ PassInv /\ SettledInv => EnoughPasses
  <2> SUFFICES ASSUME TypeInv, PassInv, SettledInv, phase = "done",
                      SettledAfter[MAX_PASSES] = Item
               PROVE  InLine
    BY DEF EnoughPasses
  <2>1. CASE ~changed
    BY <2>1 DEF PassInv, InLine, VariantsInLine, DepsInLine
  <2>2. CASE changed
    <3>1. Settled(Item)
      BY <2>2 DEF SettledInv
    <3>2. Present \subseteq Variant /\ deps \subseteq Dependency
          /\ Wanted(Variant) \subseteq Variant /\ Wanted(Dependency) \subseteq Dependency
      BY DEF TypeInv, TypeOK, Present, Wanted
    <3> QED
      BY <3>1, <3>2 DEF Settled, VariantInLine, DepInLine, Item, InLine
  <2> QED
    BY <2>1, <2>2 DEF TypeInv, TypeOK
<1>3. Init => PassInv
  BY DEF Init, PassInv
<1> QED
  BY <1>1, <1>2, <1>3, TypeInit, TypeStep, PassStep, SettledStep, PTL DEF Spec
=============================================================================
