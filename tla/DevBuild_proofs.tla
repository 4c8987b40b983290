--------------------------- MODULE DevBuild_proofs ---------------------------
(***************************************************************************)
(* What is in the dev area was built against what is in the dev area, and  *)
(* a full build leaves nothing stale: for every base spec, any drift and   *)
(* new packages, any number of edits, and any sequence of partial, failed  *)
(* and interrupted builds.                                                 *)
(***************************************************************************)
EXTENDS DevBuild, WellFoundedInduction, TLAPS

LEMMA Least ==
    ASSUME NEW S \in SUBSET Pkg, S # {}
    PROVE  FirstOf(S) \in S /\ \A q \in S : FirstOf(S) <= q
<1> DEFINE R == {e \in Nat \X Nat : e[1] < e[2]}
<1>1. IsWellFoundedOn(R, Nat)
  BY NatLessThanWellFounded DEF OpToRel
<1>2. S \subseteq Nat
  BY BuildAssumption
<1>3. PICK p \in S : \A q \in S : <<q, p>> \notin R
  BY <1>1, <1>2, WFMin
<1>4. \A q \in S : p <= q
  <2> SUFFICES ASSUME NEW q \in S PROVE ~(q < p)
    BY <1>2
  <2>1. <<q, p>> \notin R
    BY <1>3
  <2>2. p \in Nat /\ q \in Nat
    BY <1>2
  <2> QED
    BY <2>1, <2>2
<1> QED
  BY <1>4 DEF FirstOf

\* The dependencies a spec can have.
LEMMA Wired ==
    ASSUME wiring \in Wirings, NEW p \in Pkg, NEW q \in Dag!Succ(Edges, p)
    PROVE  q \in Pkg /\ q < p
<1>1. q \in Pkg /\ <<p, q>> \in Edges
  BY DEF Dag!Succ
<1> QED
  BY <1>1, BuildAssumption DEF Edges

LEMMA WiredBuild ==
    ASSUME NEW p, NEW q \in Dag!Succ(wiring.build, p)
    PROVE  q \in Dag!Succ(Edges, p)
BY DEF Dag!Succ, Edges

LEMMA WiredInherited ==
    ASSUME NEW p, NEW q \in Dag!Succ(Inherited, p)
    PROVE  q \in Dag!Succ(Edges, p)
BY DEF Dag!Succ, Inherited

-----------------------------------------------------------------------------
\* below is what the recursion of dag_hash covers.
CoverInv == wiring \in Wirings /\ below = Covered

LEMMA CoverKept == CoverInv /\ UNCHANGED base => CoverInv'
<1> SUFFICES ASSUME CoverInv, UNCHANGED <<wiring, below>> PROVE CoverInv'
  BY DEF base
<1>1. Edges' = Edges
  BY DEF Edges
<1>2. Covered' = Covered
  BY <1>1 DEF Covered
<1> QED
  BY <1>2 DEF CoverInv

\* The edges among the members of S.
Inner(S) == Edges \cap (S \X S)

LEMMA BelowIs ==
    ASSUME CoverInv, NEW S \in SUBSET Pkg, NEW p \in Pkg
    PROVE  Below(S, p) = Dag!Reach(Inner(S), {p})
BY DEF CoverInv, Covered, Below, Inner

\* It has p, it stays within S, and it follows the edges within S.
LEMMA BelowCloses ==
    ASSUME CoverInv, NEW S \in SUBSET Pkg, NEW p \in S
    PROVE  /\ p \in Below(S, p) /\ Below(S, p) \subseteq S
           /\ \A r \in Below(S, p), q \in S : <<r, q>> \in Edges => q \in Below(S, p)
<1>1. Below(S, p) = Dag!Reach(Inner(S), {p})
  BY BelowIs
<1>2. p \in Dag!Reach(Inner(S), {p})
  BY DEF Dag!Reach
<1>3. Dag!Closed(Inner(S), S)
  BY DEF Dag!Closed, Inner
<1>4. Dag!Reach(Inner(S), {p}) \subseteq S
  BY <1>3 DEF Dag!Reach
<1>5. ASSUME NEW r \in Dag!Reach(Inner(S), {p}), NEW q \in S, <<r, q>> \in Edges
      PROVE  q \in Dag!Reach(Inner(S), {p})
  <2>1. <<r, q>> \in Inner(S) /\ q \in Pkg
    BY <1>4, <1>5 DEF Inner
  <2>2. ASSUME NEW C \in SUBSET Pkg, {p} \subseteq C, Dag!Closed(Inner(S), C)
        PROVE  q \in C
    <3>1. r \in C
      BY <2>2 DEF Dag!Reach
    <3> QED
      BY <2>1, <2>2, <3>1 DEF Dag!Closed
  <2> QED
    BY <2>1, <2>2 DEF Dag!Reach
<1> QED
  BY <1>1, <1>2, <1>4, <1>5

\* It is the least such set.
LEMMA BelowLeast ==
    ASSUME CoverInv, NEW S \in SUBSET Pkg, NEW p \in S, NEW C \in SUBSET Pkg, p \in C,
           \A r \in C \cap S, q \in S : <<r, q>> \in Edges => q \in C
    PROVE  Below(S, p) \subseteq C
<1>1. Dag!Closed(Inner(S), C)
  BY DEF Dag!Closed, Inner
<1> QED
  BY <1>1, BelowIs DEF Dag!Reach

\* What q covers is the same whether it is asked of all of S or of what p covers.
LEMMA BelowPart ==
    ASSUME CoverInv, NEW S \in SUBSET Pkg, NEW p \in S, NEW q \in Below(S, p)
    PROVE  /\ Below(S, q) \subseteq Below(S, p)
           /\ Below(Below(S, p), q) = Below(S, q)
<1> DEFINE T == Below(S, p)
<1>1. /\ p \in T /\ T \subseteq S /\ q \in S
      /\ \A r \in T, s \in S : <<r, s>> \in Edges => s \in T
  BY BelowCloses
<1> HIDE DEF T
<1>2. Below(S, q) \subseteq T
  BY <1>1, BelowLeast DEF T
<1>3. /\ q \in Below(S, q)
      /\ \A r \in Below(S, q), s \in S : <<r, s>> \in Edges => s \in Below(S, q)
  BY <1>1, BelowCloses
<1>4. q \in T /\ T \in SUBSET Pkg
  BY <1>1 DEF T
<1>5. /\ q \in Below(T, q) /\ Below(T, q) \subseteq T
      /\ \A r \in Below(T, q), s \in T : <<r, s>> \in Edges => s \in Below(T, q)
  BY <1>4, BelowCloses
<1>6. Below(T, q) \subseteq Below(S, q)
  <2>1. Below(S, q) \in SUBSET Pkg /\ \A r \in Below(S, q), s \in T :
            <<r, s>> \in Edges => s \in Below(S, q)
    BY <1>1, <1>2, <1>3
  <2> QED
    BY <1>3, <1>4, <2>1, BelowLeast
<1>7. Below(S, q) \subseteq Below(T, q)
  <2>1. \A r \in Below(T, q), s \in S : <<r, s>> \in Edges => s \in Below(T, q)
    BY <1>1, <1>5
  <2>2. Below(T, q) \in SUBSET Pkg
    BY <1>4, <1>5
  <2> QED
    BY <1>1, <1>5, <2>1, <2>2, BelowLeast
<1> QED
  BY <1>2, <1>6, <1>7 DEF T

LEMMA DevSetType ==
    ASSUME NEW P \in SUBSET Pkg
    PROVE  P \subseteq ToDevelop(P) /\ ToDevelop(P) \subseteq Pkg
BY DEF ToDevelop, Dag!DevSet, Dag!Reach

-----------------------------------------------------------------------------
\* The hash of p names what p covers and is a dev package, and holds the hashes
\* of those.
LEMMA HashNames ==
    ASSUME CoverInv, dev \subseteq Pkg, NEW p \in dev
    PROVE  Names(DagHash(p)) = Below(dev, p) /\ p \in Names(DagHash(p))
<1>1. DagHash(p) = {<<q, recipe[q]>> : q \in Below(dev, p)}
  BY DEF DagHash
<1>2. ASSUME NEW q \in Below(dev, p) PROVE q \in Names(DagHash(p))
  <2>1. <<q, recipe[q]>> \in DagHash(p) /\ <<q, recipe[q]>>[1] = q
    BY <1>1
  <2> QED
    BY <2>1 DEF Names
<1>3. ASSUME NEW q \in Names(DagHash(p)) PROVE q \in Below(dev, p)
  BY <1>1 DEF Names
<1>4. p \in Below(dev, p)
  BY BelowCloses
<1> QED
  BY <1>2, <1>3, <1>4

LEMMA HashPart ==
    ASSUME CoverInv, dev \subseteq Pkg, NEW p \in dev, NEW q \in Below(dev, p)
    PROVE  q \in dev /\ Part(DagHash(p), q) = DagHash(q)
<1>1. q \in dev
  BY BelowCloses
<1>2. Below(dev, q) \subseteq Below(dev, p) /\ Below(Below(dev, p), q) = Below(dev, q)
  BY BelowPart
<1>3. Part(DagHash(p), q) = {v \in DagHash(p) : v[1] \in Below(dev, q)}
  BY <1>2, HashNames DEF Part
<1>4. /\ DagHash(p) = {<<s, recipe[s]>> : s \in Below(dev, p)}
      /\ DagHash(q) = {<<s, recipe[s]>> : s \in Below(dev, q)}
  BY <1>1 DEF DagHash
<1>5. ASSUME NEW v PROVE v \in Part(DagHash(p), q) <=> v \in DagHash(q)
  BY <1>2, <1>3, <1>4
<1> QED
  BY <1>1, <1>3, <1>5

-----------------------------------------------------------------------------
\* Types, in three parts: what the user sets, what the command holds, the disk.
InputsInv ==
    /\ CoverInv
    /\ recipe \in [Pkg -> Version] /\ source \in [Pkg -> Version] /\ edited \in Version
    /\ \A p \in Pkg : recipe[p] <= edited /\ source[p] <= edited
    /\ fetched \subseteq Pkg /\ picks \subseteq dev /\ dev \subseteq Pkg
LocalsInv ==
    /\ pc \in {"idle", "check", "compile", "install", "fill"}
    /\ queue \subseteq Pkg /\ (pc # "idle" => queue # {})
    /\ plan \in [Pkg -> SUBSET (Pkg \X Version)] /\ seen \subseteq Pkg \X Version
    /\ until \in BOOLEAN /\ fresh \in {"no", "building", "yes"}
DiskInv ==
    /\ \A x \in disk : /\ x.pkg \in Pkg /\ x.hash \subseteq Pkg \X Version
                        /\ x.whole \in BOOLEAN /\ x.seen \subseteq Pkg \X Version
    /\ \A x, y \in disk : (x.pkg = y.pkg /\ x.hash = y.hash) => x = y
TypeInv == InputsInv /\ LocalsInv /\ DiskInv

LEMMA TypeInit == Init => TypeInv
<1> SUFFICES ASSUME Init PROVE TypeInv
  OBVIOUS
<1>1. 0 \in Version /\ 0 <= 0
  BY BuildAssumption DEF Version
<1>2. InputsInv
  <2>1. picks \in SUBSET Pkg /\ dev = ToDevelop(picks) /\ CoverInv
    BY DEF Init, CoverInv
  <2>2. picks \subseteq dev /\ dev \subseteq Pkg
    BY <2>1, DevSetType
  <2>3. \A p \in Pkg : recipe[p] = 0 /\ source[p] = 0 /\ edited = 0
    BY DEF Init
  <2> QED
    BY <1>1, <2>1, <2>2, <2>3 DEF Init, InputsInv
<1>3. LocalsInv
  BY DEF Init, LocalsInv
<1>4. DiskInv
  BY DEF Init, DiskInv
<1> QED
  BY <1>2, <1>3, <1>4 DEF TypeInv

LEMMA CurrentType ==
    ASSUME LocalsInv, pc # "idle"
    PROVE  Current \in queue /\ Current \in Pkg /\ \A q \in queue : Current <= q
BY Least DEF LocalsInv, Current

\* What the edits and splice src change; everything else leaves the inputs alone.
LEMMA InputsStep == TypeInv /\ [Next]_vars => InputsInv'
<1> SUFFICES ASSUME TypeInv, [Next]_vars PROVE InputsInv'
  OBVIOUS
<1> USE DEF TypeInv
<1>1. ASSUME UNCHANGED inputs PROVE InputsInv'
  BY <1>1, CoverKept DEF inputs, edits, InputsInv
<1>2. ASSUME SpliceSrc PROVE InputsInv'
  BY <1>2, CoverKept DEF SpliceSrc, edits, InputsInv
<1>3. ASSUME Edit
      PROVE  edited' \in Version /\ edited' = edited + 1 /\ edited \in Nat
  BY <1>3, BuildAssumption DEF Edit, Version, InputsInv
<1>4. ASSUME NEW f \in [Pkg -> Version], NEW p \in Pkg, Edit,
             \A r \in Pkg : f[r] <= edited
      PROVE  /\ [f EXCEPT ![p] = @ + 1] \in [Pkg -> Version]
             /\ \A r \in Pkg : [f EXCEPT ![p] = @ + 1][r] <= edited'
             /\ \A r \in Pkg : f[r] <= edited'
  <2>1. \A r \in Pkg : f[r] \in Nat /\ f[r] <= edited
    BY <1>4 DEF Version
  <2>2. f[p] + 1 \in Version
    BY <1>3, <1>4, <2>1, BuildAssumption DEF Version
  <2> QED
    BY <1>3, <1>4, <2>1, <2>2
<1>5. ASSUME EditSource PROVE InputsInv'
  <2>1. PICK p \in fetched : source' = [source EXCEPT ![p] = @ + 1]
    BY <1>5 DEF EditSource
  <2>2. p \in Pkg /\ Edit
    BY <1>5 DEF EditSource, InputsInv
  <2>3. /\ source' \in [Pkg -> Version]
        /\ \A r \in Pkg : source'[r] <= edited'
    BY <2>1, <2>2, <1>4 DEF InputsInv
  <2>4. \A r \in Pkg : recipe[r] <= edited'
    BY <2>2, <1>4 DEF InputsInv
  <2> QED
    BY <1>3, <1>5, <2>2, <2>3, <2>4, CoverKept DEF EditSource, InputsInv
<1>6. ASSUME EditRecipe PROVE InputsInv'
  <2>1. PICK p \in Pkg : recipe' = [recipe EXCEPT ![p] = @ + 1]
    BY <1>6 DEF EditRecipe
  <2>2. Edit
    BY <1>6 DEF EditRecipe
  <2>3. /\ recipe' \in [Pkg -> Version]
        /\ \A r \in Pkg : recipe'[r] <= edited'
    BY <2>1, <2>2, <1>4 DEF InputsInv
  <2>4. \A r \in Pkg : source[r] <= edited'
    BY <2>2, <1>4 DEF InputsInv
  <2> QED
    BY <1>3, <1>6, <2>2, <2>3, <2>4, CoverKept DEF EditRecipe, InputsInv
<1>7. ASSUME NEW new \in SUBSET Pkg, Repick(new) PROVE InputsInv'
  <2>1. picks' \subseteq dev' /\ dev' \subseteq Pkg
    BY <1>7, DevSetType DEF Repick
  <2>2. \A r \in Pkg : recipe[r] <= edited' /\ source[r] <= edited'
    <3> SUFFICES ASSUME NEW r \in Pkg PROVE recipe[r] <= edited' /\ source[r] <= edited'
      OBVIOUS
    <3>1. recipe[r] \in Nat /\ source[r] \in Nat /\ recipe[r] <= edited /\ source[r] <= edited
      BY DEF InputsInv, Version
    <3> QED
      BY <1>3, <1>7, <3>1 DEF Repick
  <2> QED
    BY <1>3, <1>7, <2>1, <2>2, CoverKept DEF Repick, InputsInv
<1>8. ASSUME SpliceAdd \/ SpliceRm PROVE InputsInv'
  BY <1>7, <1>8 DEF SpliceAdd, SpliceRm, InputsInv
<1>9. ASSUME UNCHANGED vars PROVE InputsInv'
  BY <1>1, <1>9 DEF vars
<1>10. ASSUME \E names \in (SUBSET Pkg) \ {{}}, stop \in BOOLEAN : SpliceBuild(names, stop)
       PROVE  InputsInv'
  BY <1>1, <1>10 DEF SpliceBuild
<1>11. ASSUME Check \/ Compile \/ Install \/ Fill \/ Stop PROVE InputsInv'
  BY <1>1, <1>11 DEF Check, Compile, Install, Fill, Stop, Fail
<1> QED
  BY <1>2, <1>5, <1>6, <1>8, <1>9, <1>10, <1>11 DEF Next

LEMMA SeesType ==
    ASSUME TypeInv, pc # "idle"
    PROVE  Sees(Current) \subseteq Pkg \X Version
<1>1. <<Current, source[Current]>> \in Pkg \X Version
  BY CurrentType DEF TypeInv, InputsInv
<1>2. \A q, h : \A x \in At(q, h) : x.seen \subseteq Pkg \X Version
  BY DEF TypeInv, DiskInv, At
<1> QED
  BY <1>1, <1>2 DEF Sees

LEMMA LocalsStep == TypeInv /\ [Next]_vars => LocalsInv'
<1> SUFFICES ASSUME TypeInv, [Next]_vars PROVE LocalsInv'
  OBVIOUS
<1> USE DEF TypeInv
<1>1. ASSUME UNCHANGED locals, fresh' \in {fresh, "no"} PROVE LocalsInv'
  BY <1>1 DEF locals, LocalsInv
<1>2. ASSUME Leave, fresh' \in {"no", "building", "yes"} PROVE LocalsInv'
  BY <1>2 DEF Leave, LocalsInv
<1>3. ASSUME Advance, pc # "idle" PROVE LocalsInv'
  <2>1. CASE queue = {Current}
    BY <1>2, <1>3, <2>1 DEF Advance
  <2>2. CASE queue # {Current}
    <3>1. queue \ {Current} # {}
      BY <1>3, <2>2, CurrentType
    <3> QED
      BY <1>3, <2>2, <3>1 DEF Advance, LocalsInv
  <2> QED
    BY <2>1, <2>2
<1>4. ASSUME NEW names \in (SUBSET Pkg) \ {{}}, NEW stop \in BOOLEAN, SpliceBuild(names, stop)
      PROVE  LocalsInv'
  <2>1. ASSUME NEW p \in Pkg PROVE DagHash(p) \subseteq Pkg \X Version
    <3>1. p \in dev => Below(dev, p) \subseteq Pkg
      BY BelowCloses DEF InputsInv
    <3> QED
      BY <3>1 DEF DagHash, InputsInv
  <2> QED
    BY <1>4, <2>1 DEF SpliceBuild, LocalsInv
<1>5. ASSUME Check PROVE LocalsInv'
  BY <1>2, <1>5 DEF Check, Fail, LocalsInv
<1>6. ASSUME Compile PROVE LocalsInv'
  BY <1>3, <1>6, SeesType DEF Compile, LocalsInv
<1>7. ASSUME Install PROVE LocalsInv'
  BY <1>7 DEF Install, LocalsInv
<1>8. ASSUME Fill PROVE LocalsInv'
  BY <1>3, <1>8 DEF Fill
<1>9. ASSUME Stop PROVE LocalsInv'
  BY <1>2, <1>9 DEF Stop, Fail
<1>10. ASSUME SpliceSrc \/ EditSource \/ EditRecipe \/ SpliceAdd \/ SpliceRm \/ UNCHANGED vars
       PROVE  LocalsInv'
  BY <1>1, <1>10 DEF SpliceSrc, EditSource, EditRecipe, SpliceAdd, SpliceRm, Repick, Edit, vars
<1> QED
  BY <1>4, <1>5, <1>6, <1>7, <1>8, <1>9, <1>10 DEF Next

\* Only the two steps of the install phase write to the disk, each to the prefix
\* of the package at hand.
Written(w, c) == [pkg |-> Current, hash |-> plan[Current], whole |-> w, seen |-> c]
LEMMA DiskStep ==
    ASSUME TypeInv, [Next]_vars
    PROVE  \/ UNCHANGED disk
           \/ /\ pc \in {"install", "fill"}
              /\ \E w \in BOOLEAN, c \in {{}, seen} : Put(Current, w, c)
<1> USE DEF TypeInv
<1>1. ASSUME Install \/ Fill
      PROVE  /\ pc \in {"install", "fill"}
             /\ \E w \in BOOLEAN, c \in {{}, seen} : Put(Current, w, c)
  BY <1>1 DEF Install, Fill
<1>2. ASSUME \E names \in (SUBSET Pkg) \ {{}}, stop \in BOOLEAN : SpliceBuild(names, stop)
      PROVE  UNCHANGED disk
  BY <1>2 DEF SpliceBuild
<1>3. ASSUME Check \/ Compile \/ Stop \/ SpliceSrc
      PROVE  UNCHANGED disk
  BY <1>3 DEF Check, Compile, Stop, Fail, SpliceSrc
<1>4. ASSUME EditSource \/ EditRecipe \/ SpliceAdd \/ SpliceRm \/ UNCHANGED vars
      PROVE  UNCHANGED disk
  BY <1>4 DEF EditSource, EditRecipe, SpliceAdd, SpliceRm, Repick, vars
<1> QED
  BY <1>1, <1>2, <1>3, <1>4 DEF Next

LEMMA PutElements ==
    ASSUME NEW w, NEW c, Put(Current, w, c)
    PROVE  /\ Written(w, c) \in disk'
           /\ \A x \in disk' : x = Written(w, c)
                             \/ (x \in disk /\ ~(x.pkg = Current /\ x.hash = plan[Current]))
           /\ \A x \in disk : x \in disk' \/ (x.pkg = Current /\ x.hash = plan[Current])
BY DEF Put, At, Written

LEMMA DiskTypeStep == TypeInv /\ [Next]_vars => DiskInv'
<1> SUFFICES ASSUME TypeInv, [Next]_vars PROVE DiskInv'
  OBVIOUS
<1> USE DEF TypeInv
<1>1. CASE UNCHANGED disk
  BY <1>1 DEF DiskInv
<1>2. ASSUME pc \in {"install", "fill"}, NEW w \in BOOLEAN, NEW c \in {{}, seen},
             Put(Current, w, c)
      PROVE  DiskInv'
  <2> DEFINE new == Written(w, c)
  <2>1. /\ new.pkg = Current /\ new.hash = plan[Current] /\ new.whole = w /\ new.seen = c
    BY DEF Written
  <2>2. /\ new.pkg \in Pkg /\ new.hash \subseteq Pkg \X Version
        /\ new.whole \in BOOLEAN /\ new.seen \subseteq Pkg \X Version
    BY <1>2, <2>1, CurrentType DEF LocalsInv
  <2>3. \A x \in disk' : x = new \/ (x \in disk /\ ~(x.pkg = new.pkg /\ x.hash = new.hash))
    BY <1>2, <2>1, PutElements
  <2> HIDE DEF new
  <2> QED
    BY <2>2, <2>3 DEF DiskInv
<1> QED
  BY <1>1, <1>2, DiskStep

(* The variables always have their types: edits stay within their bound and  *)
(* no two prefixes have one name (build.py:215-252, cmd/splice.py:403-427).  *)
THEOREM TypeInvariant == Spec => []TypeOK
<1>1. TypeInv /\ [Next]_vars => TypeInv'
  BY InputsStep, LocalsStep, DiskTypeStep DEF TypeInv
<1>2. TypeInv => TypeOK
  BY DEF TypeInv, InputsInv, LocalsInv, DiskInv, TypeOK
<1> QED
  BY TypeInit, <1>1, <1>2, PTL DEF Spec

(* Every prefix stays but for what the package at hand writes into its own   *)
(* (specbuild.py:353-366, runtime.py:97-99).                                 *)
THEOREM BuildLeavesOthersAlone == Spec => OthersAreLeftAlone
<1>1. ASSUME TypeInv, [Next]_vars, NEW x \in disk
      PROVE  \/ x \in disk'
             \/ pc \in {"install", "fill"} /\ x.pkg = Current /\ At(x.pkg, x.hash)' # {}
  <2>1. CASE UNCHANGED disk
    BY <2>1
  <2>2. ASSUME pc \in {"install", "fill"}, NEW w, NEW c, Put(Current, w, c), x \notin disk'
        PROVE  x.pkg = Current /\ At(x.pkg, x.hash)' # {}
    <3>1. x.pkg = Current /\ x.hash = plan[Current] /\ Written(w, c) \in disk'
      BY <2>2, PutElements
    <3>2. Written(w, c).pkg = x.pkg /\ Written(w, c).hash = x.hash
      BY <3>1 DEF Written
    <3> QED
      BY <3>1, <3>2 DEF At
  <2> QED
    BY <1>1, <2>1, <2>2, DiskStep
<1>2. TypeInv /\ [Next]_vars => TypeInv'
  BY InputsStep, LocalsStep, DiskTypeStep DEF TypeInv
<1>3. TypeInv /\ [Next]_vars =>
          \A x \in disk : x \in disk' \/ (/\ pc \in {"install", "fill"}
                                        /\ x.pkg = Current
                                        /\ At(x.pkg, x.hash)' # {})
  BY <1>1
<1> QED
  BY TypeInit, <1>2, <1>3, PTL DEF Spec, OthersAreLeftAlone

-----------------------------------------------------------------------------
\* The plan of a command is closed: each hash names exactly the planned packages
\* it covers, and holds their own hashes.
Planned == {p \in Pkg : plan[p] # {}}
PlanInv ==
    /\ queue \subseteq Planned
    /\ \A p \in Planned : p \in Names(plan[p]) /\ Names(plan[p]) = Below(Planned, p)
    /\ \A p \in Planned : \A q \in Below(Planned, p) : Part(plan[p], q) = plan[q]

\* Past check_buildable, the build dependencies are there; what the compile saw is
\* named in the hash.
WorkInv ==
    /\ pc \in {"compile", "install", "fill"} =>
           \A q \in Dag!Succ(wiring.build, Current) : plan[q] # {} => Exists(q, plan[q])
    /\ pc \in {"install", "fill"} => Names(seen) \subseteq Names(plan[Current])

\* What is on the disk, of whatever age, was compiled against what its hash names.
PrefixInv ==
    /\ \A x \in disk : x.pkg \in Names(x.hash) /\ Names(x.seen) \subseteq Names(x.hash)
    /\ PrefixHasItsDependencies

BuildInv == TypeInv /\ PlanInv /\ WorkInv /\ PrefixInv

LEMMA BuildInit == Init => BuildInv
<1> SUFFICES ASSUME Init PROVE BuildInv
  OBVIOUS
<1>1. Planned = {} /\ queue = {} /\ disk = {} /\ pc = "idle"
  BY DEF Init, Planned
<1> QED
  BY <1>1, TypeInit DEF BuildInv, PlanInv, WorkInv, PrefixInv, PrefixHasItsDependencies

\* The plan of splice build, for the inputs it starts with.
LEMMA PlanMade ==
    ASSUME TypeInv, NEW names, NEW stop, SpliceBuild(names, stop)
    PROVE  Planned' = dev /\ PlanInv'
<1> USE DEF TypeInv, InputsInv
<1>1. plan' = [p \in Pkg |-> DagHash(p)] /\ queue' = names /\ names \subseteq dev /\ below' = below
  BY DEF SpliceBuild, inputs, base
<1>2. \A p \in Pkg \ dev : DagHash(p) = {}
  BY DEF DagHash
<1>3. \A p \in dev : DagHash(p) # {}
  BY HashNames DEF Names
<1>4. Planned' = dev
  BY <1>1, <1>2, <1>3 DEF Planned
<1>5. ASSUME NEW p \in dev
      PROVE  p \in Names(plan'[p]) /\ Names(plan'[p]) = Below(dev, p)
  BY <1>1, HashNames
<1>6. ASSUME NEW p \in dev, NEW q \in Below(dev, p)
      PROVE  q \in dev /\ Part(plan'[p], q) = plan'[q]
  BY <1>1, HashPart
<1>7. \A S, p : below'[S][p] = Below(S, p)
  BY <1>1 DEF Below
<1>8. \A p \in Planned' : p \in Names(plan'[p]) /\ Names(plan'[p]) = below'[Planned'][p]
  BY <1>4, <1>5, <1>7
<1>9. \A h, q : Part(h, q) = {v \in h : v[1] \in below'[Names(h)][q]}
  BY <1>7 DEF Part
<1>10. ASSUME NEW p \in Planned', NEW q \in below'[Planned'][p]
       PROVE  {v \in plan'[p] : v[1] \in below'[Names(plan'[p])][q]} = plan'[q]
  BY <1>4, <1>6, <1>7, <1>9
<1> QED
  BY <1>1, <1>4, <1>8, <1>10 DEF PlanInv, Names, Part, Below

LEMMA PlanStep == BuildInv /\ [Next]_vars => PlanInv'
<1> SUFFICES ASSUME BuildInv, [Next]_vars PROVE PlanInv'
  OBVIOUS
<1> USE DEF BuildInv
<1>1. ASSUME UNCHANGED <<plan, below>>, queue' \subseteq queue PROVE PlanInv'
  <2>1. Planned' = Planned /\ plan' = plan /\ queue' \subseteq Planned
    BY <1>1 DEF Planned, PlanInv
  <2>2. \A S, p : below'[S][p] = Below(S, p)
    BY <1>1 DEF Below
  <2>3. \A h, q : Part(h, q) = {v \in h : v[1] \in below'[Names(h)][q]}
    BY <2>2 DEF Part
  <2>4. \A p \in Planned' : p \in Names(plan'[p]) /\ Names(plan'[p]) = below'[Planned'][p]
    BY <2>1, <2>2 DEF PlanInv
  <2>5. ASSUME NEW p \in Planned', NEW q \in below'[Planned'][p]
        PROVE  {v \in plan'[p] : v[1] \in below'[Names(plan'[p])][q]} = plan'[q]
    BY <2>1, <2>2, <2>3 DEF PlanInv
  <2> QED
    BY <2>1, <2>4, <2>5 DEF PlanInv, Names, Part, Below
<1>2. ASSUME Leave PROVE PlanInv'
  <2>1. Planned' = {} /\ queue' = {}
    BY <1>2 DEF Leave, Planned
  <2> QED
    BY <2>1 DEF PlanInv
<1>3. ASSUME Advance, UNCHANGED below PROVE PlanInv'
  BY <1>1, <1>2, <1>3 DEF Advance
<1>4. ASSUME \E names \in (SUBSET Pkg) \ {{}}, stop \in BOOLEAN : SpliceBuild(names, stop)
      PROVE  PlanInv'
  BY <1>4, PlanMade
<1>5. ASSUME Check \/ Compile \/ Install \/ Fill \/ Stop PROVE PlanInv'
  BY <1>1, <1>2, <1>3, <1>5 DEF Check, Compile, Install, Fill, Stop, Fail, inputs, base
<1>6. ASSUME SpliceSrc \/ EditSource \/ EditRecipe \/ SpliceAdd \/ SpliceRm \/ UNCHANGED vars
      PROVE  PlanInv'
  BY <1>1, <1>6
  DEF SpliceSrc, EditSource, EditRecipe, SpliceAdd, SpliceRm, Repick, vars, inputs, base, locals
<1> QED
  BY <1>4, <1>5, <1>6 DEF Next

\* No step takes a prefix away.
LEMMA ExistsKept ==
    ASSUME TypeInv, [Next]_vars, NEW p, NEW h, Exists(p, h)
    PROVE  \E x \in disk' : x.pkg = p /\ x.hash = h
<1>1. PICK x \in disk : x.pkg = p /\ x.hash = h
  BY DEF Exists, At
<1>2. CASE UNCHANGED disk
  BY <1>1, <1>2
<1>3. ASSUME NEW w, NEW c, Put(Current, w, c)
      PROVE  \E y \in disk' : y.pkg = p /\ y.hash = h
  <2>1. /\ Written(w, c) \in disk' /\ Written(w, c).pkg = Current
        /\ Written(w, c).hash = plan[Current]
    BY <1>3, PutElements DEF Written
  <2>2. x \in disk' \/ (x.pkg = Current /\ x.hash = plan[Current])
    BY <1>3, PutElements
  <2> QED
    BY <1>1, <2>1, <2>2
<1> QED
  BY <1>2, <1>3, DiskStep

\* What a package is compiled from is named in its hash.
LEMMA SeesNames ==
    ASSUME BuildInv, pc # "idle"
    PROVE  Names(Sees(Current)) \subseteq Names(plan[Current])
<1> USE DEF BuildInv
<1>1. Current \in Planned /\ Current \in Pkg
  BY CurrentType DEF TypeInv, PlanInv
<1>2. ASSUME NEW q \in Dag!Succ(Inherited, Current), NEW x \in At(q, plan[q])
      PROVE  q \in Names(plan[Current]) /\ x.pkg = q
  <2>1. x \in disk /\ x.pkg = q /\ x.hash = plan[q]
    BY DEF At
  <2>2. plan[q] # {}
    BY <2>1 DEF PrefixInv, Names
  <2>3. q \in Planned /\ <<Current, q>> \in Edges
    BY <2>2, WiredInherited DEF Planned, Dag!Succ
  <2>4. q \in Below(Planned, Current)
    BY <1>1, <2>3, BelowCloses DEF TypeInv, InputsInv, Planned
  <2> QED
    BY <1>1, <2>1, <2>4 DEF PlanInv
<1>3. ASSUME NEW v \in Sees(Current) PROVE v[1] \in Names(plan[Current])
  <2>1. CASE v = <<Current, source[Current]>>
    BY <1>1, <2>1 DEF PlanInv
  <2>2. CASE v # <<Current, source[Current]>>
    <3>1. PICK q \in Dag!Succ(Inherited, Current) : \E x \in At(q, plan[q]) :
                 v \in x.seen /\ v[1] = x.pkg
      BY <2>2 DEF Sees
    <3> QED
      BY <1>2, <3>1
  <2> QED
    BY <2>1, <2>2
<1> QED
  BY <1>3 DEF Names

LEMMA WorkStep == BuildInv /\ [Next]_vars => WorkInv'
<1> SUFFICES ASSUME BuildInv, [Next]_vars PROVE WorkInv'
  OBVIOUS
<1> USE DEF BuildInv
<1>1. ASSUME pc' \in {"idle", "check"} PROVE WorkInv'
  BY <1>1 DEF WorkInv
<1>2. ASSUME UNCHANGED <<wiring, disk, locals>> PROVE WorkInv'
  BY <1>2 DEF WorkInv, locals, Current, Exists, At, Names, Dag!Succ
<1>3. ASSUME Check PROVE WorkInv'
  <2>1. CASE Buildable(Current)
    <3>1. \A q \in Dag!Succ(wiring.build, Current) : plan[q] # {} => Exists(q, plan[q])
      BY <2>1 DEF Buildable, Gone
    <3>2. /\ pc' = "compile"
          /\ UNCHANGED <<wiring, disk, queue, plan, seen>>
      BY <1>3, <2>1 DEF Check, inputs, base
    <3> QED
      BY <3>1, <3>2 DEF WorkInv, Current, Exists, At, Dag!Succ
  <2>2. CASE ~Buildable(Current)
    BY <1>1, <1>3, <2>2 DEF Check, Fail, Leave
  <2> QED
    BY <2>1, <2>2
<1>4. ASSUME Compile PROVE WorkInv'
  <2>1. CASE until
    BY <1>1, <1>4, <2>1 DEF Compile, Advance, Leave
  <2>2. CASE ~until
    <3>1. /\ pc = "compile" /\ pc' = "install" /\ seen' = Sees(Current)
          /\ UNCHANGED <<wiring, disk, queue, plan>>
      BY <1>4, <2>2 DEF Compile, inputs, base
    <3>2. Names(seen') \subseteq Names(plan[Current])
      BY <3>1, SeesNames
    <3> QED
      BY <3>1, <3>2 DEF WorkInv, Current, Exists, At, Names, Dag!Succ
  <2> QED
    BY <2>1, <2>2
<1>5. ASSUME Install PROVE WorkInv'
  <2>1. /\ pc = "install" /\ pc' = "fill"
        /\ UNCHANGED <<wiring, queue, plan, seen>>
    BY <1>5 DEF Install, inputs, base
  <2>2. Current' = Current
    BY <2>1 DEF Current
  <2>3. ASSUME NEW q \in Dag!Succ(wiring.build, Current), plan[q] # {}
        PROVE  \E x \in disk' : x.pkg = q /\ x.hash = plan[q]
    BY <2>1, <2>3, ExistsKept DEF WorkInv
  <2> QED
    BY <2>1, <2>2, <2>3 DEF WorkInv, Exists, At, Names, Dag!Succ
<1>6. ASSUME Fill \/ Stop PROVE WorkInv'
  BY <1>1, <1>6 DEF Fill, Stop, Fail, Advance, Leave
<1>7. ASSUME \E names \in (SUBSET Pkg) \ {{}}, stop \in BOOLEAN : SpliceBuild(names, stop)
      PROVE  WorkInv'
  BY <1>1, <1>7 DEF SpliceBuild
<1>8. ASSUME SpliceSrc \/ EditSource \/ EditRecipe \/ SpliceAdd \/ SpliceRm \/ UNCHANGED vars
      PROVE  WorkInv'
  BY <1>2, <1>8
  DEF SpliceSrc, EditSource, EditRecipe, SpliceAdd, SpliceRm, Repick, vars, inputs, base
<1> QED
  BY <1>3, <1>4, <1>5, <1>6, <1>7, <1>8 DEF Next

LEMMA PrefixStep == BuildInv /\ [Next]_vars => PrefixInv'
<1> SUFFICES ASSUME BuildInv, [Next]_vars PROVE PrefixInv'
  OBVIOUS
<1> USE DEF BuildInv
<1>1. UNCHANGED <<wiring, below>>
  <2>1. CASE \E names \in (SUBSET Pkg) \ {{}}, stop \in BOOLEAN : SpliceBuild(names, stop)
    BY <2>1 DEF SpliceBuild, inputs, base
  <2>2. CASE Check \/ Compile \/ Install \/ Fill \/ Stop
    BY <2>2 DEF Check, Compile, Install, Fill, Stop, Fail, inputs, base
  <2>3. CASE SpliceSrc \/ EditSource \/ EditRecipe \/ SpliceAdd \/ SpliceRm \/ UNCHANGED vars
    BY <2>3
    DEF SpliceSrc, EditSource, EditRecipe, SpliceAdd, SpliceRm, Repick, vars, inputs, base
  <2> QED
    BY <2>1, <2>2, <2>3 DEF Next
<1>2. CASE UNCHANGED disk
  <2>1. ASSUME NEW h, NEW q PROVE Part(h, q)' = Part(h, q)
    BY <1>1 DEF Part, Below, Names
  <2>2. ASSUME NEW q, NEW h PROVE Exists(q, h)' = Exists(q, h)
    BY <1>2 DEF Exists, At
  <2>3. ASSUME NEW x \in disk, NEW q \in Dag!Succ(wiring.build, x.pkg) \cap Names(x.hash)
        PROVE  Exists(q, Part(x.hash, q))'
    BY <2>1, <2>2 DEF PrefixInv, PrefixHasItsDependencies
  <2>4. PrefixHasItsDependencies'
    BY <1>1, <1>2, <2>3 DEF PrefixHasItsDependencies, Names, Dag!Succ
  <2> QED
    BY <1>2, <2>4 DEF PrefixInv, Names
<1>3. ASSUME pc \in {"install", "fill"}, NEW w \in BOOLEAN, NEW c \in {{}, seen},
             Put(Current, w, c)
      PROVE  PrefixInv'
  <2> DEFINE new == Written(w, c)
  <2>1. new.pkg = Current /\ new.hash = plan[Current] /\ new.seen = c
    BY DEF Written
  <2>2. \A x \in disk' : x = new \/ x \in disk
    BY <1>3, PutElements
  <2>3. Current \in Planned /\ Current \in Pkg
    BY <1>3, CurrentType DEF TypeInv, PlanInv
  <2>4. new.pkg \in Names(new.hash) /\ Names(new.seen) \subseteq Names(new.hash)
    BY <1>3, <2>1, <2>3 DEF PlanInv, WorkInv, Names
  <2>5. ASSUME NEW q \in Dag!Succ(wiring.build, Current) \cap Names(plan[Current])
        PROVE  Exists(q, Part(plan[Current], q))
    <3>1. q \in Below(Planned, Current)
      BY <2>3 DEF PlanInv
    <3>2. q \in Planned
      BY <2>3, <3>1, BelowCloses DEF TypeInv, InputsInv, Planned
    <3>3. Part(plan[Current], q) = plan[q] /\ plan[q] # {}
      BY <2>3, <3>1, <3>2 DEF PlanInv, Planned
    <3> QED
      BY <1>3, <3>3 DEF WorkInv
  <2>6. ASSUME NEW x \in disk', NEW q \in Dag!Succ(wiring.build, x.pkg) \cap Names(x.hash)
        PROVE  \E y \in disk' : y.pkg = q /\ y.hash = Part(x.hash, q)
    <3>1. Exists(q, Part(x.hash, q))
      BY <2>1, <2>2, <2>5 DEF PrefixInv, PrefixHasItsDependencies
    <3> QED
      BY <3>1, ExistsKept
  <2>7. ASSUME NEW x \in disk'
        PROVE  x.pkg \in Names(x.hash) /\ Names(x.seen) \subseteq Names(x.hash)
    BY <2>2, <2>4 DEF PrefixInv
  <2>8. ASSUME NEW h, NEW q PROVE Part(h, q)' = Part(h, q)
    BY <1>1 DEF Part, Below, Names
  <2>9. PrefixHasItsDependencies'
    BY <1>1, <2>6, <2>8 DEF PrefixHasItsDependencies, Exists, At, Names, Dag!Succ
  <2> QED
    BY <2>7, <2>9 DEF PrefixInv, Names
<1> QED
  BY <1>2, <1>3, DiskStep

LEMMA BuildStep == BuildInv /\ [Next]_vars => BuildInv'
BY InputsStep, LocalsStep, DiskTypeStep, PlanStep, WorkStep, PrefixStep DEF BuildInv, TypeInv

(* Whatever was edited, picked, named, interrupted or failed, every prefix    *)
(* of the dev area comes with those it was compiled against                  *)
(* (build.py:104-118, cmd/splice.py:415-424).                                *)
THEOREM PrefixesHaveDependencies == Spec => []PrefixHasItsDependencies
<1>1. BuildInv => PrefixHasItsDependencies
  BY DEF BuildInv, PrefixInv
<1> QED
  BY BuildInit, BuildStep, <1>1, PTL DEF Spec

(* What env and pack take for the current builds was compiled against dev     *)
(* builds of packages that are dev packages now, and is taken with them       *)
(* (runtime.py:97-99, specbuild.py:353-366).                                 *)
THEOREM EnvIsConsistent == Spec => []EnvMatchesSelection
<1>1. BuildInv => EnvMatchesSelection
  <2> SUFFICES ASSUME BuildInv, NEW p \in dev, NEW x \in At(p, DagHash(p))
               PROVE  /\ Names(x.seen) \subseteq dev
                      /\ \A q \in Dag!Succ(wiring.build, p) \cap dev : Exists(q, DagHash(q))
    BY DEF EnvMatchesSelection
  <2> USE DEF BuildInv, TypeInv, InputsInv
  <2>1. x \in disk /\ x.pkg = p /\ x.hash = DagHash(p)
    BY DEF At
  <2>2. Names(x.hash) = Below(dev, p) /\ Below(dev, p) \subseteq dev
    BY <2>1, HashNames, BelowCloses
  <2>3. ASSUME NEW q \in Dag!Succ(wiring.build, p) \cap dev
        PROVE  Exists(q, DagHash(q))
    <3>1. <<p, q>> \in Edges /\ q \in dev
      BY WiredBuild DEF Dag!Succ
    <3>2. q \in Below(dev, p)
      BY <3>1, BelowCloses
    <3>3. Exists(q, Part(x.hash, q))
      BY <2>1, <2>2, <3>2 DEF PrefixInv, PrefixHasItsDependencies
    <3>4. Part(x.hash, q) = DagHash(q)
      BY <2>1, <3>2, HashPart
    <3> QED
      BY <3>3, <3>4
  <2> QED
    BY <2>1, <2>2, <2>3 DEF PrefixInv
<1> QED
  BY BuildInit, BuildStep, <1>1, PTL DEF Spec

-----------------------------------------------------------------------------
\* What a current build of p was compiled from, and that there is one.
Want(p) == {<<q, source[q]>> : q \in {p} \cup (Dag!Succ(Inherited, p) \cap dev)}
Settled(p) == \E x \in At(p, DagHash(p)) : x.whole /\ x.seen = Want(p)

\* While everything is built and nothing is edited, what the queue has passed is
\* current.
FreshInv ==
    /\ fresh = "building" =>
           /\ pc # "idle" /\ until = FALSE /\ plan = [p \in Pkg |-> DagHash(p)]
           /\ \A p \in dev \ queue : Settled(p)
           /\ pc \in {"install", "fill"} => seen = Want(Current)
    /\ fresh = "yes" => pc = "idle" /\ \A p \in dev : Settled(p)

\* At the turn of a package, what it depends on has been passed.
LEMMA DependenciesPassed ==
    ASSUME BuildInv, pc # "idle", NEW q \in Dag!Succ(Inherited, Current)
    PROVE  q \in Pkg /\ q \notin queue
<1>1. Current \in Pkg /\ \A r \in queue : Current <= r
  BY CurrentType DEF BuildInv, TypeInv
<1>2. q \in Pkg /\ q < Current
  BY <1>1, Wired, WiredInherited DEF BuildInv, TypeInv, InputsInv, CoverInv
<1>3. q \in Nat /\ Current \in Nat
  BY <1>1, <1>2, BuildAssumption
<1> QED
  BY <1>1, <1>2, <1>3

LEMMA SeesWhatItWants ==
    ASSUME BuildInv, FreshInv, fresh = "building"
    PROVE  Sees(Current) = Want(Current)
<1> DEFINE Of(q) == UNION {{v \in x.seen : v[1] = x.pkg} : x \in At(q, plan[q])}
<1>1. /\ pc # "idle" /\ plan = [p \in Pkg |-> DagHash(p)]
      /\ \A p \in dev \ queue : Settled(p)
  BY DEF FreshInv
<1>2. ASSUME NEW q \in Dag!Succ(Inherited, Current), q \in dev
      PROVE  Of(q) = {<<q, source[q]>>}
  <2>1. q \in Pkg /\ q \notin queue /\ plan[q] = DagHash(q)
    BY <1>1, DependenciesPassed
  <2>2. PICK x \in At(q, plan[q]) : x.seen = Want(q)
    BY <1>1, <1>2, <2>1 DEF Settled
  <2>3. At(q, plan[q]) = {x} /\ x.pkg = q
    BY <2>2 DEF At, BuildInv, TypeInv, DiskInv
  <2>4. {v \in Want(q) : v[1] = q} = {<<q, source[q]>>}
    BY DEF Want
  <2> QED
    BY <2>2, <2>3, <2>4
<1>3. ASSUME NEW q \in Dag!Succ(Inherited, Current), q \notin dev
      PROVE  Of(q) = {}
  <2>1. q \in Pkg /\ plan[q] = {}
    BY <1>1, <1>3, DependenciesPassed DEF DagHash
  <2>2. At(q, plan[q]) = {}
    BY <2>1 DEF At, BuildInv, PrefixInv, Names
  <2> QED
    BY <2>2
<1>4. Sees(Current) = {<<Current, source[Current]>>}
                      \cup UNION {Of(q) : q \in Dag!Succ(Inherited, Current)}
  BY DEF Sees
<1>5. UNION {Of(q) : q \in Dag!Succ(Inherited, Current)}
          = {<<q, source[q]>> : q \in Dag!Succ(Inherited, Current) \cap dev}
  <2> HIDE DEF Of
  <2>1. ASSUME NEW v \in UNION {Of(q) : q \in Dag!Succ(Inherited, Current)}
        PROVE  v \in {<<q, source[q]>> : q \in Dag!Succ(Inherited, Current) \cap dev}
    <3>1. PICK q \in Dag!Succ(Inherited, Current) : v \in Of(q)
      BY <2>1
    <3>2. q \in dev
      BY <3>1, <1>3
    <3> QED
      BY <3>1, <3>2, <1>2
  <2>2. ASSUME NEW q \in Dag!Succ(Inherited, Current) \cap dev
        PROVE  <<q, source[q]>> \in Of(q)
    BY <1>2
  <2> QED
    BY <2>1, <2>2
<1> HIDE DEF Of
<1>6. Want(Current) = {<<Current, source[Current]>>}
                      \cup {<<q, source[q]>> : q \in Dag!Succ(Inherited, Current) \cap dev}
  BY DEF Want
<1> QED
  BY <1>4, <1>5, <1>6

\* Without an edit, a current build stays until the package's own next turn.
Unedited == UNCHANGED <<wiring, below, dev, recipe, source>>

LEMMA UneditedSame ==
    ASSUME Unedited, NEW p
    PROVE  Want(p)' = Want(p) /\ DagHash(p)' = DagHash(p)
BY DEF Unedited, Want, DagHash, Below, Dag!Succ, Edges, Inherited

LEMMA InDisk ==
    ASSUME Unedited, NEW p, NEW x \in disk',
           x.pkg = p, x.hash = DagHash(p), x.whole, x.seen = Want(p)
    PROVE  Settled(p)'
BY UneditedSame DEF Settled, At

LEMMA SettledKept ==
    ASSUME TypeInv, Unedited, NEW p, Settled(p),
           UNCHANGED disk \/ (p # Current /\ \E w, c : Put(Current, w, c))
    PROVE  Settled(p)'
<1>1. PICK x \in disk : /\ x.pkg = p /\ x.hash = DagHash(p)
                       /\ x.whole /\ x.seen = Want(p)
  BY DEF Settled, At
<1>2. x \in disk'
  BY <1>1, PutElements
<1> QED
  BY <1>1, <1>2, UneditedSame DEF Settled, At

LEMMA FreshStep == BuildInv /\ FreshInv /\ [Next]_vars => FreshInv'
<1> SUFFICES ASSUME BuildInv, FreshInv, [Next]_vars PROVE FreshInv'
  OBVIOUS
<1>1. ASSUME fresh' = "no" PROVE FreshInv'
  BY <1>1 DEF FreshInv
<1>2. ASSUME Unedited, UNCHANGED <<disk, queue, plan, until, fresh>>, pc' # "idle" \/ pc' = pc,
             fresh = "yes" => pc' = "idle",
             fresh = "building" /\ pc' \in {"install", "fill"} => seen' = Want(Current)
      PROVE  FreshInv'
  <2>1. Current' = Current /\ \A p : Want(p)' = Want(p) /\ DagHash(p)' = DagHash(p)
    BY <1>2, UneditedSame DEF Current
  <2>2. \A p \in dev' : Settled(p) => Settled(p)'
    BY <1>2, SettledKept DEF BuildInv
  <2> QED
    BY <1>2, <2>1, <2>2 DEF FreshInv, Unedited
<1>3. ASSUME NEW names, NEW stop, SpliceBuild(names, stop) PROVE FreshInv'
  <2>1. CASE names = dev /\ ~stop
    <3>1. /\ fresh' = "building" /\ pc' = "check" /\ queue' = dev /\ until' = stop
          /\ plan' = [p \in Pkg |-> DagHash(p)] /\ Unedited /\ dev' = dev
      BY <1>3, <2>1 DEF SpliceBuild, inputs, base, edits, Unedited
    <3>2. plan' = [p \in Pkg |-> DagHash(p)]'
      BY <3>1, UneditedSame
    <3>3. until' = FALSE
      BY <1>3, <2>1, <3>1 DEF SpliceBuild
    <3> QED
      BY <3>1, <3>2, <3>3 DEF FreshInv
  <2>2. CASE ~(names = dev /\ ~stop)
    BY <1>1, <1>3, <2>2 DEF SpliceBuild
  <2> QED
    BY <2>1, <2>2
<1>4. ASSUME Check PROVE FreshInv'
  <2>1. CASE Buildable(Current)
    BY <1>2, <1>4, <2>1 DEF Check, inputs, base, edits, Unedited, FreshInv
  <2>2. CASE ~Buildable(Current)
    BY <1>1, <1>4, <2>2 DEF Check, Fail
  <2> QED
    BY <2>1, <2>2
<1>5. ASSUME Compile PROVE FreshInv'
  <2>1. CASE until
    <3>1. fresh = "no"
      BY <1>5, <2>1 DEF Compile, FreshInv, BuildInv, TypeInv, LocalsInv
    <3> QED
      BY <1>1, <1>5, <2>1, <3>1 DEF Compile, Advance
  <2>2. CASE ~until
    BY <1>2, <1>5, <2>2, SeesWhatItWants DEF Compile, inputs, base, edits, Unedited, FreshInv
  <2> QED
    BY <2>1, <2>2
<1>6. ASSUME Install PROVE FreshInv'
  <2>1. /\ pc = "install" /\ pc' = "fill" /\ Put(Current, FALSE, {}) /\ Unedited
        /\ UNCHANGED <<queue, plan, until, seen, fresh>> /\ dev' = dev
    BY <1>6 DEF Install, inputs, base, edits, Unedited
  <2>2. Current \in queue /\ Current' = Current
    BY <2>1, CurrentType DEF BuildInv, TypeInv, Current
  <2>3. \A p \in dev \ queue : Settled(p) => Settled(p)'
    BY <2>1, <2>2, SettledKept DEF BuildInv
  <2>4. Want(Current)' = Want(Current) /\ [p \in Pkg |-> DagHash(p)]' = [p \in Pkg |-> DagHash(p)]
    BY <2>1, <2>2, UneditedSame
  <2> QED
    BY <2>1, <2>2, <2>3, <2>4 DEF FreshInv
<1>7. ASSUME Fill PROVE FreshInv'
  <2>1. /\ pc = "fill" /\ Put(Current, TRUE, seen) /\ Unedited /\ Advance /\ dev' = dev
    BY <1>7 DEF Fill, inputs, base, edits, Unedited
  <2>2. CASE fresh # "building"
    BY <1>1, <2>1, <2>2 DEF FreshInv, Advance, BuildInv, TypeInv, LocalsInv
  <2>3. CASE fresh = "building"
    <3>1. Current \in queue /\ Current \in Pkg
      BY <2>1, CurrentType DEF BuildInv, TypeInv
    <3>2. \A p \in dev \ queue : Settled(p)'
      BY <2>1, <2>3, <3>1, SettledKept DEF BuildInv, FreshInv
    <3>3. \A p : p = Current => Settled(p)'
      <4> SUFFICES ASSUME NEW p, p = Current PROVE Settled(p)'
        OBVIOUS
      <4>1. PICK x : x = Written(TRUE, seen)
        OBVIOUS
      <4>2. x \in disk' /\ x.pkg = p /\ x.hash = DagHash(p) /\ x.whole /\ x.seen = Want(p)
        BY <2>1, <2>3, <3>1, <4>1, PutElements DEF Written, FreshInv
      <4> QED
        BY <2>1, <4>2, InDisk
    <3>4. CASE queue = {Current}
      BY <2>1, <2>3, <3>2, <3>3, <3>4 DEF Advance, Leave, FreshInv
    <3>5. CASE queue # {Current}
      BY <2>1, <2>3, <3>2, <3>3, <3>5, UneditedSame DEF Advance, FreshInv
    <3> QED
      BY <3>4, <3>5
  <2> QED
    BY <2>2, <2>3
<1>8. ASSUME Stop \/ EditSource \/ EditRecipe \/ SpliceAdd \/ SpliceRm PROVE FreshInv'
  BY <1>1, <1>8 DEF Stop, Fail, EditSource, EditRecipe, SpliceAdd, SpliceRm, Repick, Edit
<1>9. ASSUME SpliceSrc \/ UNCHANGED vars PROVE FreshInv'
  BY <1>2, <1>9
  DEF SpliceSrc, vars, inputs, base, edits, locals, Unedited, FreshInv
<1> QED
  BY <1>3, <1>4, <1>5, <1>6, <1>7, <1>8, <1>9 DEF Next

\* What the steps keep of a whole build.
WholeInv == BuildInv /\ FreshInv

LEMMA WholeInit == Init => WholeInv
BY BuildInit DEF WholeInv, Init, FreshInv

LEMMA WholeStep == WholeInv /\ [Next]_vars => WholeInv'
BY BuildStep, FreshStep DEF WholeInv

(* When a build of everything finishes and nothing was edited since it       *)
(* began, every dev package holds its current source compiled against the    *)
(* current sources of all the dev packages it inherits as dependencies       *)
(* (cmd/splice.py:403-424).                                                  *)
THEOREM FullBuildsAreCurrent == Spec => []FullBuildIsCurrent
<1>1. WholeInv => FullBuildIsCurrent
  BY DEF WholeInv, FreshInv, FullBuildIsCurrent, Settled, Want
<1> QED
  BY WholeInit, WholeStep, <1>1, PTL DEF Spec
=============================================================================
