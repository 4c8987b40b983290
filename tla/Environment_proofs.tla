-------------------------- MODULE Environment_proofs --------------------------
(***************************************************************************)
(* What a shell finds on its search paths, where the dev area is and where *)
(* a tarball of it was unpacked.  Of splice env: for every base spec,      *)
(* whatever the recipes do and however often packages were picked, dropped *)
(* and built between any number of evaluations.  Of splice pack: for any   *)
(* tarballs, places and uses of their scripts.  First the facts about      *)
(* numbers in order, then those about layering and pruning a search path,  *)
(* then the invariant of each.                                             *)
(***************************************************************************)
EXTENDS Runtime, Packed, FiniteSetTheorems, SequenceTheorems, TLAPS

Ahead(S, x) == {y \in S : y < x}
Increasing(s) == \A i, j \in DOMAIN s : i < j => s[i] < s[j]

\* A non-empty set of numbers has a least member.
LEMMA LeastMember ==
    ASSUME NEW S \in SUBSET Nat, S # {}
    PROVE  \E x \in S : \A y \in S : x <= y
<1> DEFINE R == {e \in Nat \X Nat : e[1] < e[2]}
<1>1. IsWellFoundedOn(R, Nat)
  BY NatLessThanWellFounded DEF OpToRel
<1>2. PICK x \in S : \A y \in S : <<y, x>> \notin R
  BY <1>1, WFMin
<1>3. \A y \in S : ~(y < x)
  BY <1>2
<1> QED
  BY <1>3

\* The members of a set of numbers are told apart by how many are ahead.
LEMMA RankIncreases ==
    ASSUME NEW S \in SUBSET Nat, IsFiniteSet(S), NEW x \in S, NEW z \in S, x < z
    PROVE  Cardinality(Ahead(S, x)) < Cardinality(Ahead(S, z))
<1>1. Ahead(S, x) \in SUBSET Ahead(S, z) /\ x \in Ahead(S, z) /\ x \notin Ahead(S, x)
  <2>1. x \in Nat /\ z \in Nat /\ \A y \in S : y \in Nat
    OBVIOUS
  <2>2. \A y \in Nat : y < x => y < z
    BY <2>1
  <2>3. ~(x < x)
    BY <2>1
  <2> QED
    BY <2>1, <2>2, <2>3 DEF Ahead
<1>2. Ahead(S, z) \in SUBSET S
  BY DEF Ahead
<1>3. IsFiniteSet(Ahead(S, z))
  BY <1>2, FS_Subset
<1>4. /\ IsFiniteSet(Ahead(S, x))
      /\ Cardinality(Ahead(S, x)) <= Cardinality(Ahead(S, z))
      /\ Cardinality(Ahead(S, z)) = Cardinality(Ahead(S, x)) => Ahead(S, z) = Ahead(S, x)
  BY <1>1, <1>3, FS_Subset
<1>5. Cardinality(Ahead(S, x)) \in Nat /\ Cardinality(Ahead(S, z)) \in Nat
  BY <1>3, <1>4, FS_CardinalityType
<1> QED
  BY <1>1, <1>4, <1>5

LEMMA RankIsBelow ==
    ASSUME NEW S \in SUBSET Nat, IsFiniteSet(S), NEW x \in S
    PROVE  Cardinality(Ahead(S, x)) \in 0 .. Cardinality(S) - 1
<1>1. Ahead(S, x) \in SUBSET S /\ Ahead(S, x) # S
  BY DEF Ahead
<1>2. /\ IsFiniteSet(Ahead(S, x)) /\ Cardinality(Ahead(S, x)) <= Cardinality(S)
      /\ Cardinality(S) # Cardinality(Ahead(S, x))
  BY <1>1, FS_Subset
<1> QED
  BY <1>2, FS_CardinalityType

\* Every number of members is ahead of exactly one.
LEMMA RankIsOnto ==
    ASSUME NEW S \in SUBSET Nat, IsFiniteSet(S), NEW k \in 1 .. Cardinality(S)
    PROVE  \E x \in S : Cardinality(Ahead(S, x)) = k - 1
<1> DEFINE n == Cardinality(S)
           T == 0 .. n - 1
           rank == [x \in S |-> Cardinality(Ahead(S, x))]
<1>1. n \in Nat
  BY FS_CardinalityType
<1>2. IsFiniteSet(T) /\ Cardinality(T) = n
  <2>1. n - 1 \in Int /\ 0 \in Int /\ (0 > n - 1 <=> n = 0)
    BY <1>1
  <2>2. /\ IsFiniteSet(0 .. n - 1)
        /\ Cardinality(0 .. n - 1) = IF 0 > n - 1 THEN 0 ELSE (n - 1) - 0 + 1
    BY <2>1, FS_Interval
  <2> QED
    BY <1>1, <2>1, <2>2
<1>3. \A x, z \in S : x # z => rank[x] # rank[z]
  <2> TAKE x, z \in S
  <2>1. x < z => rank[x] # rank[z]
    BY RankIncreases, RankIsBelow
  <2>2. z < x => rank[x] # rank[z]
    BY RankIncreases, RankIsBelow
  <2> QED
    BY <2>1, <2>2
<1>4. rank \in [S -> T]
  BY RankIsBelow
<1> HIDE DEF rank
<1>5. rank \in Injection(S, T)
  BY <1>3, <1>4 DEF Injection, IsInjective
<1>6. rank \in Surjection(S, T)
  BY <1>2, <1>5, FS_Injection
<1>7. k - 1 \in T
  BY <1>1
<1>8. \E x \in S : rank[x] = k - 1
  BY <1>6, <1>7 DEF Surjection
<1> QED
  BY <1>8 DEF rank

\* InOrder lists every member of a set of numbers, increasing.
LEMMA InOrderLists ==
    ASSUME NEW S \in SUBSET Nat, IsFiniteSet(S)
    PROVE  /\ Cardinality(S) \in Nat /\ DOMAIN InOrder(S) = 1 .. Cardinality(S)
           /\ InOrder(S) \in Seq(S) /\ Len(InOrder(S)) = Cardinality(S)
           /\ Increasing(InOrder(S)) /\ ToSet(InOrder(S)) = S
           /\ \A k \in DOMAIN InOrder(S) : Cardinality(Ahead(S, InOrder(S)[k])) = k - 1
<1> DEFINE n == Cardinality(S)
           o == InOrder(S)
<1>1. n \in Nat
  BY FS_CardinalityType
<1>2. DOMAIN o = 1 .. n
  BY DEF InOrder
<1>3. \A k \in 1 .. n : o[k] \in S /\ Cardinality(Ahead(S, o[k])) = k - 1
  BY RankIsOnto DEF InOrder, Ahead
<1>4. o \in Seq(S) /\ Len(o) = n
  <2>1. o \in [1 .. n -> S]
    BY <1>3 DEF InOrder
  <2> QED
    BY <1>1, <2>1
<1>5. Increasing(o)
  <2> SUFFICES ASSUME NEW i \in 1 .. n, NEW j \in 1 .. n, i < j, ~(o[i] < o[j])
               PROVE  FALSE
    BY <1>2 DEF Increasing
  <2>1. o[i] \in S /\ o[j] \in S /\ o[i] \in Nat /\ o[j] \in Nat
    BY <1>3
  <2>2. o[j] = o[i] \/ o[j] < o[i]
    BY <2>1
  <2>3. ~(o[j] < o[i])
    <3> SUFFICES ASSUME o[j] < o[i] PROVE FALSE
      OBVIOUS
    <3>1. Cardinality(Ahead(S, o[j])) < Cardinality(Ahead(S, o[i]))
      BY <2>1, RankIncreases
    <3> QED
      BY <1>1, <1>3, <3>1
  <2> QED
    BY <1>1, <1>3, <2>2, <2>3
<1>6. ASSUME NEW x \in S
      PROVE  \E k \in 1 .. n : o[k] = x
  <2> DEFINE k == Cardinality(Ahead(S, x)) + 1
  <2>1. k \in 1 .. n
    BY <1>1, RankIsBelow
  <2>2. o[k] \in S /\ Cardinality(Ahead(S, o[k])) = k - 1
    BY <1>3, <2>1
  <2>3. o[k] = x
    <3> DEFINE z == o[k]
    <3>0. Cardinality(Ahead(S, z)) = Cardinality(Ahead(S, x)) /\ Cardinality(Ahead(S, x)) \in Nat
      BY <2>2, RankIsBelow
    <3>1. z \in S
      BY <2>2
    <3> HIDE DEF z, k, o
    <3>2. ~(z < x)
      <4> SUFFICES ASSUME z < x PROVE FALSE
        OBVIOUS
      <4>1. Cardinality(Ahead(S, z)) < Cardinality(Ahead(S, x))
        BY <3>1, RankIncreases
      <4> QED
        BY <3>0, <4>1
    <3>3. ~(x < z)
      <4> SUFFICES ASSUME x < z PROVE FALSE
        OBVIOUS
      <4>1. Cardinality(Ahead(S, x)) < Cardinality(Ahead(S, z))
        BY <3>1, RankIncreases
      <4> QED
        BY <3>0, <4>1
    <3>4. z \in Nat /\ x \in Nat
      BY <3>1
    <3>5. z = x
      BY <3>2, <3>3, <3>4
    <3> QED
      BY <3>5 DEF z
  <2> QED
    BY <2>1, <2>3
<1>7. ToSet(o) = S
  BY <1>2, <1>3, <1>6 DEF ToSet
<1> QED
  BY <1>1, <1>2, <1>3, <1>4, <1>5, <1>7

\* An increasing sequence of the members of a set is the one InOrder gives.
LEMMA InOrderUnique ==
    ASSUME NEW n \in Nat, NEW S \in SUBSET Nat, NEW t \in [1 .. n -> S],
           Increasing(t), \A x \in S : \E k \in 1 .. n : t[k] = x
    PROVE  /\ IsFiniteSet(S) /\ Cardinality(S) = n
           /\ \A k \in 1 .. n : InOrder(S)[k] = t[k]
<1>1. \A i, j \in 1 .. n : t[i] < t[j] <=> i < j
  <2> TAKE i, j \in 1 .. n
  <2>1. t[i] \in Nat /\ t[j] \in Nat
    OBVIOUS
  <2> QED
    BY <2>1 DEF Increasing
<1>2. \A i, j \in 1 .. n : t[i] = t[j] => i = j
  <2> TAKE i, j \in 1 .. n
  <2>1. t[i] \in Nat /\ t[j] \in Nat
    OBVIOUS
  <2> QED
    BY <1>1, <2>1
<1>3. IsFiniteSet(S) /\ Cardinality(S) = n
  <2>1. t \in Bijection(1 .. n, S)
    BY <1>2 DEF Bijection, Injection, Surjection, IsInjective
  <2>2. ExistsBijection(1 .. n, S)
    BY <2>1 DEF ExistsBijection
  <2> QED
    BY <2>2, FS_NatBijection, FS_CountingElements
<1>4. ASSUME NEW k \in 1 .. n
      PROVE  Cardinality(Ahead(S, t[k])) = k - 1
  <2> DEFINE A == Ahead(S, t[k])
             f == [i \in 1 .. k - 1 |-> t[i]]
  <2>1. f \in [1 .. k - 1 -> A]
    BY <1>1 DEF Ahead
  <2>2. \A x \in A : \E i \in 1 .. k - 1 : f[i] = x
    <3> TAKE x \in A
    <3>1. PICK i \in 1 .. n : t[i] = x
      BY DEF Ahead
    <3>2. i < k
      BY <1>1, <3>1 DEF Ahead
    <3> QED
      BY <3>1, <3>2
  <2>3. \A i, j \in 1 .. k - 1 : f[i] = f[j] => i = j
    BY <1>2
  <2> HIDE DEF f, A
  <2>4. f \in Bijection(1 .. k - 1, A)
    BY <2>1, <2>2, <2>3 DEF Bijection, Injection, Surjection, IsInjective
  <2>5. ExistsBijection(1 .. k - 1, A) /\ k - 1 \in Nat
    BY <2>4 DEF ExistsBijection
  <2>6. Cardinality(A) = k - 1
    BY <2>5, FS_CountingElements
  <2> QED
    BY <2>6 DEF A
<1>5. ASSUME NEW k \in 1 .. n
      PROVE  InOrder(S)[k] = t[k]
  <2> DEFINE x == InOrder(S)[k]
  <2>1. x \in S /\ Cardinality(Ahead(S, x)) = k - 1
    BY <1>3, InOrderLists, ElementOfSeq
  <2>2. PICK i \in 1 .. n : t[i] = x
    BY <2>1
  <2>3. i = k
    BY <1>4, <2>1, <2>2
  <2> QED
    BY <2>2, <2>3
<1> QED
  BY <1>3, <1>5

-----------------------------------------------------------------------------
NoDuplicates(v) == \A i, j \in DOMAIN v : v[i] = v[j] => i = j

LEMMA FirstOccurrence ==
    ASSUME NEW A, NEW v \in Seq(A), NEW i \in DOMAIN v
    PROVE  \E j \in Firsts(v) : j <= i /\ v[j] = v[i]
<1> DEFINE S == {j \in DOMAIN v : v[j] = v[i]}
<1>1. DOMAIN v = 1 .. Len(v) /\ Len(v) \in Nat
  BY LenProperties
<1>2. S \in SUBSET Nat /\ i \in S
  BY <1>1
<1>3. PICK j \in S : \A k \in S : j <= k
  BY <1>2, LeastMember
<1>4. \A k \in 1 .. j - 1 : v[k] # v[j]
  <2> SUFFICES ASSUME NEW k \in 1 .. j - 1, v[k] = v[j] PROVE FALSE
    OBVIOUS
  <2>1. k \in S /\ k < j
    BY <1>1, <1>2
  <2> QED
    BY <1>1, <1>2, <1>3, <2>1
<1> QED
  BY <1>2, <1>3, <1>4 DEF Firsts

\* Pruning picks the first occurrences, in their order.
Picking(v, n, o) ==
    /\ o \in [1 .. n -> Firsts(v)] /\ Increasing(o)
    /\ \A i \in Firsts(v) : \E k \in 1 .. n : o[k] = i
    /\ Pruned(v) = [k \in 1 .. n |-> v[o[k]]]

LEMMA FirstsAreFinite ==
    ASSUME NEW A, NEW v \in Seq(A)
    PROVE  Firsts(v) \in SUBSET Nat /\ Firsts(v) \subseteq 1 .. Len(v) /\ IsFiniteSet(Firsts(v))
<1>1. DOMAIN v = 1 .. Len(v) /\ Len(v) \in Nat
  BY LenProperties
<1>2. Firsts(v) \in SUBSET (1 .. Len(v)) /\ Firsts(v) \in SUBSET Nat
  BY <1>1 DEF Firsts
<1>3. IsFiniteSet(1 .. Len(v))
  BY <1>1, FS_Interval
<1> QED
  BY <1>2, <1>3, FS_Subset

LEMMA PrunedPicks ==
    ASSUME NEW A, NEW v \in Seq(A)
    PROVE  \E n \in Nat, o \in Seq(Nat) : Picking(v, n, o)
<1> DEFINE n == Cardinality(Firsts(v))
           o == InOrder(Firsts(v))
<1>1. /\ n \in Nat /\ DOMAIN o = 1 .. n
      /\ o \in Seq(Firsts(v)) /\ Len(o) = n /\ Increasing(o) /\ ToSet(o) = Firsts(v)
  BY FirstsAreFinite, InOrderLists
<1>2. Pruned(v) = [k \in 1 .. n |-> v[o[k]]]
  BY <1>1 DEF Pruned, Along
<1> HIDE DEF n, o
<1>3. o \in [1 .. n -> Firsts(v)]
  BY <1>1, LenProperties
<1>4. Picking(v, n, o)
  BY <1>1, <1>2, <1>3 DEF Picking, ToSet
<1>5. o \in Seq(Nat)
  BY <1>1, FirstsAreFinite, SeqMonotonic
<1> QED
  BY <1>1, <1>4, <1>5

\* It loses no entry and leaves none twice.
LEMMA PrunedKeeps ==
    ASSUME NEW A, NEW v \in Seq(A)
    PROVE  /\ Pruned(v) \in Seq(A)
           /\ NoDuplicates(Pruned(v))
           /\ ToSet(Pruned(v)) = ToSet(v)
<1>1. PICK n \in Nat, o \in Seq(Nat) : Picking(v, n, o)
  BY PrunedPicks
<1>2. DOMAIN v = 1 .. Len(v) /\ Len(v) \in Nat /\ \A i \in DOMAIN v : v[i] \in A
  BY LenProperties, ElementOfSeq
<1>3. \A k \in 1 .. n : o[k] \in Firsts(v) /\ o[k] \in DOMAIN v /\ o[k] \in Nat
  BY <1>1, <1>2 DEF Picking, Firsts
<1>4. Pruned(v) \in [1 .. n -> A] /\ DOMAIN Pruned(v) = 1 .. n
  BY <1>1, <1>2, <1>3 DEF Picking
<1>5. ASSUME NEW i \in 1 .. n, NEW j \in 1 .. n, i < j
      PROVE  Pruned(v)[i] # Pruned(v)[j]
  <2>1. o[i] < o[j]
    BY <1>1, <1>5 DEF Picking, Increasing
  <2>2. o[i] \in 1 .. o[j] - 1
    BY <1>2, <1>3, <2>1
  <2>3. v[o[i]] # v[o[j]]
    BY <1>3, <2>2 DEF Firsts
  <2> QED
    BY <1>1, <2>3 DEF Picking
<1>6. NoDuplicates(Pruned(v))
  BY <1>4, <1>5 DEF NoDuplicates
<1>7. ASSUME NEW x \in ToSet(v)
      PROVE  x \in ToSet(Pruned(v))
  <2>1. PICK i \in DOMAIN v : v[i] = x
    BY DEF ToSet
  <2>2. PICK j \in Firsts(v) : v[j] = x
    BY <2>1, FirstOccurrence
  <2>3. PICK k \in 1 .. n : o[k] = j
    BY <1>1 DEF Picking
  <2>4. Pruned(v)[k] = x
    BY <1>1, <2>2, <2>3 DEF Picking
  <2> QED
    BY <1>4, <2>4 DEF ToSet
<1>8. ToSet(Pruned(v)) \subseteq ToSet(v)
  BY <1>1, <1>3, <1>4 DEF ToSet, Picking
<1> QED
  BY <1>4, <1>6, <1>7, <1>8

Entry == (Pkg \X SUBSET Pkg) \cup {User}

Begins(w, F) == Len(F) <= Len(w) /\ \A i \in 1 .. Len(F) : w[i] = F[i]

\* x is in s, behind members of F alone.
BehindOnly(s, x, F) ==
    \E k \in DOMAIN s : s[k] = x /\ \A j \in 1 .. k - 1 : s[j] \in ToSet(F) /\ s[j] # x

\* What is in front of a path stays in front of it, whatever follows.
LEMMA PrunedFront ==
    ASSUME NEW F \in Seq(Entry), NEW w \in Seq(Entry), Begins(w, F), NEW x \in ToSet(F)
    PROVE  BehindOnly(Pruned(w), x, F)
<1>1. /\ Len(w) \in Nat /\ Len(F) \in Nat /\ Len(F) <= Len(w)
      /\ DOMAIN F = 1 .. Len(F) /\ DOMAIN w = 1 .. Len(w)
      /\ \A i \in 1 .. Len(F) : w[i] = F[i]
  BY LenProperties DEF Begins
<1>2. PICK i \in DOMAIN F : F[i] = x
  BY DEF ToSet
<1>3. PICK j \in Firsts(w) : j <= i /\ w[j] = x
  BY <1>1, <1>2, FirstOccurrence
<1>4. PICK n \in Nat, o \in Seq(Nat) : Picking(w, n, o)
  BY <1>1, PrunedPicks
<1>5. PICK k \in 1 .. n : o[k] = j
  BY <1>3, <1>4 DEF Picking
<1>6. /\ DOMAIN Pruned(w) = 1 .. n /\ \A l \in 1 .. n : Pruned(w)[l] = w[o[l]]
      /\ \A l \in 1 .. n : o[l] \in DOMAIN w
  BY <1>4 DEF Picking, Firsts
<1>7. ASSUME NEW l \in 1 .. k - 1
      PROVE  Pruned(w)[l] \in ToSet(F) /\ Pruned(w)[l] # x
  <2>1. l \in 1 .. n /\ l < k
    BY <1>5
  <2>2. o[l] < j
    BY <1>4, <1>5, <2>1 DEF Picking, Increasing
  <2>3. o[l] \in Nat /\ 1 <= o[l] /\ j \in Nat /\ i \in Nat /\ i <= Len(F)
    BY <1>1, <1>2, <1>3, <1>6, <2>1 DEF Firsts
  <2>4. o[l] \in 1 .. Len(F) /\ o[l] \in 1 .. j - 1
    BY <1>1, <1>3, <2>2, <2>3
  <2>5. w[o[l]] = F[o[l]] /\ w[o[l]] # w[j]
    BY <1>1, <1>3, <2>4 DEF Firsts
  <2> QED
    BY <1>1, <1>3, <1>6, <2>1, <2>4, <2>5 DEF ToSet
<1>8. Pruned(w)[k] = x
  BY <1>3, <1>5, <1>6
<1> QED
  BY <1>5, <1>6, <1>7, <1>8 DEF BehindOnly

\* Pruning what the same modifications make of a pruned path gives that path.
LEMMA PrunedAgain ==
    ASSUME NEW A, NEW F \in Seq(A), NEW v \in Seq(A), NEW B \in Seq(A)
    PROVE  Pruned((F \o Pruned((F \o v) \o B)) \o B) = Pruned((F \o v) \o B)
<1> DEFINE w == (F \o v) \o B
           s == Pruned(w)
           u == (F \o s) \o B
           f == Len(F)
<1>1. /\ F \o v \in Seq(A) /\ Len(F \o v) = f + Len(v) /\ f \in Nat /\ Len(v) \in Nat
      /\ Len(B) \in Nat
      /\ \A i \in 1 .. f + Len(v) : (F \o v)[i] = IF i <= f THEN F[i] ELSE v[i - f]
  BY ConcatProperties, LenProperties
<1>2. /\ w \in Seq(A) /\ Len(w) = (f + Len(v)) + Len(B) /\ DOMAIN w = 1 .. Len(w)
      /\ \A i \in 1 .. (f + Len(v)) + Len(B) :
             w[i] = IF i <= f + Len(v) THEN (F \o v)[i] ELSE B[i - (f + Len(v))]
  BY <1>1, ConcatProperties, LenProperties
<1>3. s \in Seq(A) /\ NoDuplicates(s) /\ ToSet(s) = ToSet(w)
  BY <1>2, PrunedKeeps
<1>4. PICK n \in Nat, o \in Seq(Nat) : Picking(w, n, o)
  BY <1>2, PrunedPicks
<1>5. /\ DOMAIN s = 1 .. n /\ Len(s) = n
      /\ \A k \in 1 .. n : s[k] = w[o[k]] /\ o[k] \in Firsts(w) /\ o[k] \in DOMAIN w
  <2>1. s = [k \in 1 .. n |-> w[o[k]]]
    BY <1>4 DEF Picking
  <2>2. Len(s) = n
    BY <1>3, <2>1, LenProperties
  <2> QED
    BY <1>4, <2>1, <2>2 DEF Picking, Firsts
<1> HIDE DEF s
<1>6. /\ F \o s \in Seq(A) /\ Len(F \o s) = f + n
      /\ \A i \in 1 .. f + n : (F \o s)[i] = IF i <= f THEN F[i] ELSE s[i - f]
  BY <1>3, <1>5, ConcatProperties
<1>7. /\ u \in Seq(A) /\ Len(u) = (f + n) + Len(B) /\ DOMAIN u = 1 .. Len(u)
      /\ \A i \in 1 .. (f + n) + Len(B) :
             u[i] = IF i <= f + n THEN (F \o s)[i] ELSE B[i - (f + n)]
  <2> DEFINE Fs == F \o s
  <2>1. Fs \in Seq(A) /\ Len(Fs) = f + n /\ u = Fs \o B
    BY <1>6
  <2> HIDE DEF Fs, u, f
  <2>2. /\ Fs \o B \in Seq(A) /\ Len(Fs \o B) = Len(Fs) + Len(B)
        /\ \A i \in 1 .. Len(Fs) + Len(B) :
               (Fs \o B)[i] = IF i <= Len(Fs) THEN Fs[i] ELSE B[i - Len(Fs)]
    BY <2>1, ConcatProperties
  <2>3. u \in Seq(A) /\ DOMAIN u = 1 .. Len(u)
    BY <2>1, <2>2, LenProperties
  <2> QED
    BY <2>1, <2>2, <2>3 DEF Fs
<1>8. \A i \in 1 .. f : i \in DOMAIN w /\ i \in DOMAIN u /\ w[i] = F[i] /\ u[i] = F[i]
  BY <1>1, <1>2, <1>6, <1>7
<1>9. \A k \in 1 .. n : f + k \in DOMAIN u /\ u[f + k] = s[k]
  <2> TAKE k \in 1 .. n
  <2>1. f + k \in 1 .. f + n /\ ~(f + k <= f) /\ (f + k) - f = k
    BY <1>1
  <2>2. f + k \in 1 .. (f + n) + Len(B) /\ f + k <= f + n
    BY <1>1, <2>1
  <2> QED
    BY <1>6, <1>7, <2>1, <2>2
<1> HIDE DEF w, u, f
<1> DEFINE t == [k \in 1 .. n |-> IF o[k] <= f THEN o[k] ELSE f + k]
<1>10. \A k \in 1 .. n : o[k] \in Nat /\ 1 <= o[k]
  BY <1>1, <1>2, <1>5
<1>11. ASSUME NEW k \in 1 .. n
       PROVE  t[k] \in Firsts(u) /\ u[t[k]] = s[k]
  <2>1. CASE o[k] <= f
    <3>1. o[k] \in 1 .. f /\ t[k] = o[k]
      BY <1>1, <1>10, <2>1
    <3>2. \A j \in 1 .. o[k] - 1 : u[j] # u[o[k]]
      <4> TAKE j \in 1 .. o[k] - 1
      <4>1. j \in 1 .. f
        BY <1>1, <3>1
      <4>2. w[j] # w[o[k]]
        BY <1>5 DEF Firsts
      <4> QED
        BY <1>8, <3>1, <4>1, <4>2
    <3> QED
      BY <1>5, <1>8, <3>1, <3>2 DEF Firsts
  <2>2. CASE ~(o[k] <= f)
    <3>1. t[k] = f + k
      BY <2>2
    <3>2. ASSUME NEW j \in 1 .. (f + k) - 1, u[j] = s[k]
          PROVE  FALSE
      <4>1. CASE j <= f
        <5>1. j \in 1 .. f /\ j \in 1 .. o[k] - 1
          BY <1>1, <1>10, <2>2, <4>1
        <5>2. w[j] = w[o[k]]
          BY <1>5, <1>8, <3>2, <5>1
        <5> QED
          BY <1>5, <5>1, <5>2 DEF Firsts
      <4>2. CASE ~(j <= f)
        <5> DEFINE l == j - f
        <5>1. l \in 1 .. n /\ f + l = j /\ l # k
          BY <1>1, <4>2
        <5>2. s[l] = s[k]
          BY <1>9, <3>2, <5>1
        <5> QED
          BY <1>3, <1>5, <5>1, <5>2 DEF NoDuplicates
      <4> QED
        BY <4>1, <4>2
    <3> QED
      BY <1>9, <3>1, <3>2 DEF Firsts
  <2> QED
    BY <2>1, <2>2
<1>12. Increasing(t)
  <2> SUFFICES ASSUME NEW i \in 1 .. n, NEW j \in 1 .. n, i < j
               PROVE  t[i] < t[j]
    BY DEF Increasing
  <2>1. o[i] < o[j] /\ o[i] \in Nat /\ o[j] \in Nat
    BY <1>4, <1>10 DEF Increasing, Picking
  <2>2. t[i] = (IF o[i] <= f THEN o[i] ELSE f + i) /\ t[j] = (IF o[j] <= f THEN o[j] ELSE f + j)
    OBVIOUS
  <2>3. f \in Nat /\ i \in Nat /\ j \in Nat
    BY <1>1
  <2> HIDE DEF t
  <2>4. CASE o[i] <= f
    <3>1. t[i] = o[i]
      BY <2>2, <2>4
    <3>2. CASE o[j] <= f
      BY <2>1, <2>2, <3>1, <3>2
    <3>3. CASE ~(o[j] <= f)
      <4>1. t[j] = f + j
        BY <2>2, <3>3
      <4>2. o[i] < f + j
        BY <2>1, <2>3, <2>4
      <4> QED
        BY <3>1, <4>1, <4>2
    <3> QED
      BY <3>2, <3>3
  <2>5. CASE ~(o[i] <= f)
    <3>1. ~(o[j] <= f)
      BY <2>1, <2>3, <2>5
    <3>2. t[i] = f + i /\ t[j] = f + j
      BY <2>2, <2>5, <3>1
    <3>3. f + i < f + j
      BY <2>3
    <3> QED
      BY <3>2, <3>3
  <2> QED
    BY <2>4, <2>5
<1>13. ASSUME NEW i \in Firsts(u)
       PROVE  \E k \in 1 .. n : t[k] = i
  <2>0. i \in 1 .. (f + n) + Len(B) /\ \A j \in 1 .. i - 1 : u[j] # u[i]
    BY <1>7 DEF Firsts
  <2>1. CASE i <= f
    <3>1. i \in 1 .. f
      BY <1>1, <2>0, <2>1
    <3>2. \A j \in 1 .. i - 1 : w[j] # w[i]
      <4> TAKE j \in 1 .. i - 1
      <4>1. j \in 1 .. f
        BY <1>1, <3>1
      <4> QED
        BY <1>8, <2>0, <3>1, <4>1
    <3>3. i \in Firsts(w)
      BY <1>8, <3>1, <3>2 DEF Firsts
    <3>4. PICK k \in 1 .. n : o[k] = i
      BY <1>4, <3>3 DEF Picking
    <3> QED
      BY <2>1, <3>4
  <2>2. CASE ~(i <= f) /\ i <= f + n
    <3> DEFINE k == i - f
    <3>1. k \in 1 .. n /\ f + k = i
      BY <1>1, <2>0, <2>2
    <3>2. ~(o[k] <= f)
      <4> SUFFICES ASSUME o[k] <= f PROVE FALSE
        OBVIOUS
      <4>0. o[k] \in Nat /\ 1 <= o[k] /\ f \in Nat /\ i \in Nat
        BY <1>1, <1>10, <2>0, <3>1
      <4>1. o[k] \in 1 .. f /\ o[k] \in 1 .. i - 1
        <5> HIDE DEF k
        <5> QED
          BY <2>2, <4>0
      <4>2. u[o[k]] = s[k] /\ u[i] = s[k]
        BY <1>5, <1>8, <1>9, <3>1, <4>1
      <4> QED
        BY <2>0, <4>1, <4>2
    <3> QED
      BY <3>1, <3>2
  <2>3. CASE ~(i <= f + n)
    <3> DEFINE b == i - (f + n)
    <3>1. /\ i \in Nat /\ b \in 1 .. Len(B) /\ (f + Len(v)) + b \in DOMAIN w
          /\ ~((f + Len(v)) + b <= f + Len(v)) /\ ((f + Len(v)) + b) - (f + Len(v)) = b
      BY <1>1, <1>2, <2>0, <2>3 DEF w
    <3>2. u[i] = B[b]
      BY <1>7, <2>0, <2>3
    <3>3. w[(f + Len(v)) + b] = B[b]
      BY <1>2, <3>1
    <3>4. B[b] \in ToSet(s)
      BY <1>3, <3>1, <3>3 DEF ToSet
    <3>5. PICK k \in 1 .. n : s[k] = B[b]
      BY <1>5, <3>4 DEF ToSet
    <3>6. f + k \in 1 .. i - 1
      BY <1>1, <2>3, <3>1
    <3> QED
      BY <1>9, <2>0, <3>2, <3>5, <3>6
  <2> QED
    BY <2>1, <2>2, <2>3
<1>14. t \in [1 .. n -> Firsts(u)] /\ \A k \in 1 .. n : u[t[k]] = s[k]
  BY <1>11
<1>15. Firsts(u) \in SUBSET Nat /\ IsFiniteSet(Firsts(u))
  BY <1>7, FirstsAreFinite
<1> HIDE DEF t
<1>16. Cardinality(Firsts(u)) = n /\ \A k \in 1 .. n : InOrder(Firsts(u))[k] = t[k]
  BY <1>12, <1>13, <1>14, <1>15, InOrderUnique
<1>17. DOMAIN InOrder(Firsts(u)) = 1 .. n
  BY <1>15, <1>16, InOrderLists
<1>18. Pruned(u) = [k \in 1 .. n |-> s[k]]
  BY <1>14, <1>16, <1>17 DEF Pruned, Along
<1>19. s = [k \in 1 .. n |-> s[k]]
  BY <1>3, <1>5, LenProperties
<1> QED
  BY <1>18, <1>19 DEF u, s, w
-----------------------------------------------------------------------------
\* A function from packages to entries of theirs.
Entries == {e \in [Pkg -> Pkg \X SUBSET Pkg] : \A p \in Pkg : e[p][1] = p}

LEMMA Associates == \A s, t, u \in Seq(Entry) : (s \o t) \o u = s \o (t \o u)
BY ConcatAssociative

LEMMA ReverseKeeps ==
    ASSUME NEW A, NEW v \in Seq(A)
    PROVE  /\ Reverse(v) \in Seq(A)
           /\ ToSet(Reverse(v)) = ToSet(v)
           /\ NoDuplicates(v) => NoDuplicates(Reverse(v))
<1> DEFINE n == Len(v)
           r == Reverse(v)
<1>1. n \in Nat /\ DOMAIN v = 1 .. n /\ \A i \in 1 .. n : v[i] \in A
  BY LenProperties, ElementOfSeq
<1>2. \A i \in 1 .. n : (n - i) + 1 \in 1 .. n /\ (n - ((n - i) + 1)) + 1 = i
  BY <1>1
<1>3. r = [i \in 1 .. n |-> v[(n - i) + 1]]
  BY DEF Reverse
<1> HIDE DEF r, n
<1>4. DOMAIN r = 1 .. n /\ \A i \in 1 .. n : r[i] = v[(n - i) + 1]
  BY <1>3
<1>5. r \in [1 .. n -> A]
  BY <1>1, <1>2, <1>3
<1>6. r \in Seq(A)
  BY <1>1, <1>5
<1>7. ToSet(r) = ToSet(v)
  BY <1>1, <1>2, <1>4 DEF ToSet
<1>8. ASSUME NoDuplicates(v)
      PROVE  NoDuplicates(r)
  <2> SUFFICES ASSUME NEW i \in 1 .. n, NEW j \in 1 .. n, r[i] = r[j]
               PROVE  i = j
    BY <1>4 DEF NoDuplicates
  <2>1. (n - i) + 1 = (n - j) + 1
    BY <1>1, <1>2, <1>4, <1>8 DEF NoDuplicates
  <2> QED
    BY <1>1, <2>1
<1> QED
  BY <1>6, <1>7, <1>8 DEF r

LEMMA ConcatKeeps ==
    ASSUME NEW A, NEW v \in Seq(A), NEW w \in Seq(A)
    PROVE  /\ v \o w \in Seq(A) /\ Begins(v \o w, v)
           /\ ToSet(v \o w) = ToSet(v) \cup ToSet(w)
           /\ NoDuplicates(v) /\ NoDuplicates(w) /\ ToSet(v) \cap ToSet(w) = {}
                  => NoDuplicates(v \o w)
<1> DEFINE c == v \o w
           m == Len(v)
           n == Len(w)
<1>1. /\ m \in Nat /\ n \in Nat /\ DOMAIN v = 1 .. m /\ DOMAIN w = 1 .. n
      /\ c \in Seq(A) /\ DOMAIN c = 1 .. m + n
      /\ \A i \in 1 .. m + n : c[i] = IF i <= m THEN v[i] ELSE w[i - m]
  BY ConcatProperties, LenProperties
<1> HIDE DEF c, m, n
<1>2. \A i \in 1 .. m : i \in 1 .. m + n /\ c[i] = v[i]
  BY <1>1
<1>3. \A i \in 1 .. n : m + i \in 1 .. m + n /\ c[m + i] = w[i]
  <2> TAKE i \in 1 .. n
  <2>1. m + i \in 1 .. m + n /\ ~(m + i <= m) /\ (m + i) - m = i
    BY <1>1
  <2> QED
    BY <1>1, <2>1
<1>4. \A i \in 1 .. m + n : i \in 1 .. m \/ \E j \in 1 .. n : i = m + j
  <2> TAKE i \in 1 .. m + n
  <2>1. CASE i <= m
    BY <1>1, <2>1
  <2>2. CASE ~(i <= m)
    <3>1. i - m \in 1 .. n /\ i = m + (i - m)
      BY <1>1, <2>2
    <3> QED
      BY <3>1
  <2> QED
    BY <2>1, <2>2
<1>5. ToSet(c) = ToSet(v) \cup ToSet(w)
  <2>1. ToSet(v) \subseteq ToSet(c) /\ ToSet(w) \subseteq ToSet(c)
    <3>1. \A i \in 1 .. m : v[i] \in ToSet(c)
      BY <1>1, <1>2 DEF ToSet
    <3>2. \A i \in 1 .. n : w[i] \in ToSet(c)
      BY <1>1, <1>3 DEF ToSet
    <3> QED
      BY <1>1, <3>1, <3>2 DEF ToSet
  <2>2. ASSUME NEW i \in 1 .. m + n
        PROVE  c[i] \in ToSet(v) \cup ToSet(w)
    BY <1>1, <1>2, <1>3, <1>4 DEF ToSet
  <2> QED
    BY <1>1, <2>1, <2>2 DEF ToSet
<1>6. ASSUME NoDuplicates(v), NoDuplicates(w), ToSet(v) \cap ToSet(w) = {},
             NEW i \in 1 .. m + n, NEW j \in 1 .. m + n, c[i] = c[j]
      PROVE  i = j
  <2>1. CASE i \in 1 .. m /\ j \in 1 .. m
    BY <1>1, <1>2, <1>6, <2>1 DEF NoDuplicates
  <2>2. CASE i \notin 1 .. m /\ j \notin 1 .. m
    <3>1. PICK k \in 1 .. n : i = m + k
      BY <1>4, <2>2
    <3>2. PICK l \in 1 .. n : j = m + l
      BY <1>4, <2>2
    <3>3. k = l
      BY <1>1, <1>3, <1>6, <3>1, <3>2 DEF NoDuplicates
    <3> QED
      BY <3>1, <3>2, <3>3
  <2>3. CASE i \in 1 .. m /\ j \notin 1 .. m
    <3>1. PICK l \in 1 .. n : j = m + l
      BY <1>4, <2>3
    <3>2. c[i] \in ToSet(v) /\ c[j] \in ToSet(w)
      BY <1>1, <1>2, <1>3, <2>3, <3>1 DEF ToSet
    <3> QED
      BY <1>6, <3>2
  <2>4. CASE i \notin 1 .. m /\ j \in 1 .. m
    <3>1. PICK l \in 1 .. n : i = m + l
      BY <1>4, <2>4
    <3>2. c[j] \in ToSet(v) /\ c[i] \in ToSet(w)
      BY <1>1, <1>2, <1>3, <2>4, <3>1 DEF ToSet
    <3> QED
      BY <1>6, <3>2
  <2> QED
    BY <2>1, <2>2, <2>3, <2>4
<1>7. Begins(c, v)
  <2>1. Len(c) = m + n
    BY ConcatProperties DEF c, m, n
  <2> QED
    BY <1>1, <1>2, <2>1 DEF Begins, m
<1> QED
  BY <1>1, <1>5, <1>6, <1>7 DEF NoDuplicates, c

\* The entries of the packages of a set, each once.
LEMMA AlongLists ==
    ASSUME NEW S \in SUBSET Pkg, NEW e \in Entries
    PROVE  /\ Along(InOrder(S), e) \in Seq(Entry)
           /\ ToSet(Along(InOrder(S), e)) = {e[p] : p \in S}
           /\ NoDuplicates(Along(InOrder(S), e))
<1> DEFINE o == InOrder(S)
           n == Cardinality(S)
           a == Along(o, e)
<1>1. S \in SUBSET Nat /\ IsFiniteSet(S)
  BY RuntimeAssumption, FS_Subset
<1>2. n \in Nat /\ DOMAIN o = 1 .. n /\ o \in Seq(S) /\ Len(o) = n /\ Increasing(o) /\ ToSet(o) = S
  BY <1>1, InOrderLists
<1>3. \A k \in 1 .. n : o[k] \in S /\ o[k] \in Pkg /\ o[k] \in Nat
  BY <1>1, <1>2, ElementOfSeq
<1> HIDE DEF o, n
<1>4. DOMAIN a = 1 .. n /\ \A k \in 1 .. n : a[k] = e[o[k]]
  BY <1>2 DEF Along
<1>5. \A p \in Pkg : e[p] \in Entry /\ e[p][1] = p
  BY DEF Entry, Entries
<1>6. a \in [1 .. n -> Entry]
  BY <1>2, <1>3, <1>5 DEF Along
<1>7. a \in Seq(Entry)
  BY <1>2, <1>6
<1> HIDE DEF a
<1>8. ToSet(a) = {e[p] : p \in S}
  BY <1>2, <1>3, <1>4 DEF ToSet
<1>9. ASSUME NEW i \in 1 .. n, NEW j \in 1 .. n, a[i] = a[j]
      PROVE  i = j
  <2>1. o[i] = o[j]
    BY <1>3, <1>4, <1>5, <1>9
  <2>2. ~(i < j) /\ ~(j < i)
    BY <1>2, <1>3, <2>1 DEF Increasing
  <2> QED
    BY <1>2, <2>2
<1> QED
  BY <1>4, <1>7, <1>8, <1>9 DEF NoDuplicates, a, o

LEMMA ModificationsList ==
    ASSUME NEW S \in SUBSET Pkg, NEW e \in Entries
    PROVE  /\ Prepended(S, e) \in Seq(Entry) /\ Appended(S, e) \in Seq(Entry)
           /\ ToSet(Prepended(S, e)) = {e[p] : p \in S \ Appends}
           /\ ToSet(Appended(S, e)) = {e[p] : p \in S \cap Appends}
           /\ NoDuplicates(Prepended(S, e)) /\ NoDuplicates(Appended(S, e))
BY AlongLists, ReverseKeeps, S \ Appends \in SUBSET Pkg, S \cap Appends \in SUBSET Pkg
DEF Prepended, Appended

LEMMA EntriesAreTheirs ==
    BaseEntry \in Entries /\ (dev \in SUBSET Pkg => DevEntry \in Entries)
<1>1. \A p \in Pkg : Installed(p) \in Pkg \X SUBSET Pkg /\ Installed(p)[1] = p
  BY DEF Installed
<1>2. dev \in SUBSET Pkg =>
          \A p \in Pkg : SpecOf(p) \in Pkg \X SUBSET Pkg /\ SpecOf(p)[1] = p
  BY DEF SpecOf
<1> QED
  BY <1>1, <1>2 DEF BaseEntry, DevEntry, Entries

\* What splice env puts in front of a search path, what it puts behind, and
\* what it puts in front of LD_LIBRARY_PATH.
InFront == Prepended(Emitted, DevEntry) \o Prepended(Pkg, BaseEntry)
Behind == Appended(Pkg, BaseEntry) \o Appended(Emitted, DevEntry)
LibInFront == Reverse(Along(InOrder(Usable), DevEntry))

LEMMA FrontAndBack ==
    ASSUME dev \in SUBSET Pkg
    PROVE  /\ InFront \in Seq(Entry) /\ Behind \in Seq(Entry) /\ LibInFront \in Seq(Entry)
           /\ Prepended(Emitted, DevEntry) \in Seq(Entry)
           /\ Prepended(Pkg, BaseEntry) \in Seq(Entry)
           /\ ToSet(Prepended(Emitted, DevEntry)) = {SpecOf(p) : p \in Emitted \ Appends}
           /\ ToSet(Prepended(Pkg, BaseEntry)) = {Installed(p) : p \in Pkg \ Appends}
           /\ ToSet(InFront) = {SpecOf(p) : p \in Emitted \ Appends}
                                  \cup {Installed(p) : p \in Pkg \ Appends}
           /\ ToSet(Behind) = {Installed(p) : p \in Pkg \cap Appends}
                                \cup {SpecOf(p) : p \in Emitted \cap Appends}
           /\ ToSet(LibInFront) = {SpecOf(p) : p \in Usable}
<1>1. Emitted \in SUBSET Pkg /\ Usable \in SUBSET Pkg
  BY DEF Emitted, Usable, Dag!Reach
<1>2. BaseEntry \in Entries /\ DevEntry \in Entries
  BY EntriesAreTheirs
<1>3. /\ \A p \in Pkg : DevEntry[p] = SpecOf(p) /\ BaseEntry[p] = Installed(p)
  BY DEF DevEntry, BaseEntry
<1>4. /\ Prepended(Emitted, DevEntry) \in Seq(Entry) /\ Appended(Emitted, DevEntry) \in Seq(Entry)
      /\ ToSet(Prepended(Emitted, DevEntry)) = {DevEntry[p] : p \in Emitted \ Appends}
      /\ ToSet(Appended(Emitted, DevEntry)) = {DevEntry[p] : p \in Emitted \cap Appends}
  BY <1>1, <1>2, ModificationsList
<1>5. /\ Prepended(Pkg, BaseEntry) \in Seq(Entry) /\ Appended(Pkg, BaseEntry) \in Seq(Entry)
      /\ ToSet(Prepended(Pkg, BaseEntry)) = {BaseEntry[p] : p \in Pkg \ Appends}
      /\ ToSet(Appended(Pkg, BaseEntry)) = {BaseEntry[p] : p \in Pkg \cap Appends}
  BY <1>2, ModificationsList
<1>6. LibInFront \in Seq(Entry) /\ ToSet(LibInFront) = {DevEntry[p] : p \in Usable}
  BY <1>1, <1>2, AlongLists, ReverseKeeps DEF LibInFront
<1>7. InFront \in Seq(Entry) /\ Behind \in Seq(Entry)
  BY <1>4, <1>5, ConcatKeeps DEF InFront, Behind
<1>8. ToSet(InFront) = ToSet(Prepended(Emitted, DevEntry)) \cup ToSet(Prepended(Pkg, BaseEntry))
  BY <1>4, <1>5, ConcatKeeps DEF InFront
<1>11. ToSet(Behind) = ToSet(Appended(Pkg, BaseEntry)) \cup ToSet(Appended(Emitted, DevEntry))
  BY <1>4, <1>5, ConcatKeeps DEF Behind
<1>9. /\ {DevEntry[p] : p \in Emitted \ Appends} = {SpecOf(p) : p \in Emitted \ Appends}
      /\ {DevEntry[p] : p \in Emitted \cap Appends} = {SpecOf(p) : p \in Emitted \cap Appends}
      /\ {DevEntry[p] : p \in Usable} = {SpecOf(p) : p \in Usable}
  BY <1>1, <1>3
<1>10. /\ {BaseEntry[p] : p \in Pkg \ Appends} = {Installed(p) : p \in Pkg \ Appends}
       /\ {BaseEntry[p] : p \in Pkg \cap Appends} = {Installed(p) : p \in Pkg \cap Appends}
  BY <1>3
<1> QED
  BY <1>4, <1>5, <1>6, <1>7, <1>8, <1>9, <1>10, <1>11

\* Both halves at once: everything in front is in front of what was there.
LEMMA LayeredIs ==
    ASSUME dev \in SUBSET Pkg, NEW v \in Seq(Entry)
    PROVE  Layered(v) = Pruned((InFront \o v) \o Behind)
<1> DEFINE P == Prepended(Emitted, DevEntry)
           Q == Prepended(Pkg, BaseEntry)
           R == Appended(Pkg, BaseEntry)
           T == Appended(Emitted, DevEntry)
<1>1. P \in Seq(Entry) /\ Q \in Seq(Entry) /\ R \in Seq(Entry) /\ T \in Seq(Entry)
  <2>1. Emitted \in SUBSET Pkg
    BY DEF Emitted, Dag!Reach
  <2> QED
    BY <2>1, EntriesAreTheirs, ModificationsList
<1>2. Layered(v) = Pruned((P \o ((Q \o v) \o R)) \o T)
  BY DEF Layered, Apply
<1>3. InFront = P \o Q /\ Behind = R \o T
  BY DEF InFront, Behind
<1> HIDE DEF P, Q, R, T
<1>4. Q \o v \in Seq(Entry) /\ (P \o Q) \o v \in Seq(Entry) /\ P \o Q \in Seq(Entry)
  BY <1>1, ConcatKeeps
<1>5. P \o ((Q \o v) \o R) = (P \o (Q \o v)) \o R
  <2> DEFINE X == Q \o v
  <2>1. X \in Seq(Entry)
    BY <1>4
  <2> HIDE DEF X
  <2>2. P \in Seq(Entry) /\ R \in Seq(Entry)
    BY <1>1
  <2>3. (P \o X) \o R = P \o (X \o R)
    BY <2>1, <2>2, Associates
  <2> QED
    BY <2>3 DEF X
<1>6. P \o (Q \o v) = (P \o Q) \o v
  BY <1>1, Associates
<1>7. (((P \o Q) \o v) \o R) \o T = ((P \o Q) \o v) \o (R \o T)
  <2> DEFINE X == (P \o Q) \o v
  <2>1. X \in Seq(Entry)
    BY <1>4
  <2> HIDE DEF X
  <2>2. (X \o R) \o T = X \o (R \o T)
    BY <1>1, <2>1, Associates
  <2> QED
    BY <2>2 DEF X
<1> QED
  BY <1>2, <1>3, <1>5, <1>6, <1>7

LEMMA LayeredKeeps ==
    ASSUME dev \in SUBSET Pkg, NEW v \in Seq(Entry)
    PROVE  /\ Layered(v) \in Seq(Entry) /\ NoDuplicates(Layered(v))
           /\ ToSet(Layered(v)) = ToSet(InFront) \cup ToSet(v) \cup ToSet(Behind)
           /\ Floor(v) \in Seq(Entry) /\ NoDuplicates(Floor(v))
           /\ ToSet(Floor(v)) = ToSet(LibInFront) \cup ToSet(v)
<1>1. InFront \in Seq(Entry) /\ Behind \in Seq(Entry) /\ LibInFront \in Seq(Entry)
  BY FrontAndBack
<1>2. InFront \o v \in Seq(Entry) /\ ToSet(InFront \o v) = ToSet(InFront) \cup ToSet(v)
  BY <1>1, ConcatKeeps
<1>3. /\ (InFront \o v) \o Behind \in Seq(Entry)
      /\ ToSet((InFront \o v) \o Behind) = (ToSet(InFront) \cup ToSet(v)) \cup ToSet(Behind)
  <2> DEFINE X == InFront \o v
  <2>1. X \in Seq(Entry) /\ ToSet(X) = ToSet(InFront) \cup ToSet(v)
    BY <1>2
  <2> HIDE DEF X
  <2>2. X \o Behind \in Seq(Entry) /\ ToSet(X \o Behind) = ToSet(X) \cup ToSet(Behind)
    BY <1>1, <2>1, ConcatKeeps
  <2> QED
    BY <2>1, <2>2 DEF X
<1>4. LibInFront \o v \in Seq(Entry) /\ ToSet(LibInFront \o v) = ToSet(LibInFront) \cup ToSet(v)
  BY <1>1, ConcatKeeps
<1>5. Floor(v) = Pruned(LibInFront \o v)
  BY DEF Floor, LibInFront
<1> QED
  BY <1>2, <1>3, <1>4, <1>5, LayeredIs, PrunedKeeps

LEMMA LayeredBegins ==
    ASSUME dev \in SUBSET Pkg, NEW v \in Seq(Entry)
    PROVE  \E w \in Seq(Entry) : /\ Layered(v) = Pruned(w) /\ Begins(w, InFront)
                                  /\ Begins(w, Prepended(Emitted, DevEntry))
<1> DEFINE P == Prepended(Emitted, DevEntry)
           Q == Prepended(Pkg, BaseEntry)
           X == InFront \o v
           w == X \o Behind
<1>1. InFront \in Seq(Entry) /\ Behind \in Seq(Entry) /\ P \in Seq(Entry) /\ Q \in Seq(Entry)
  BY FrontAndBack
<1>2. X \in Seq(Entry) /\ Begins(X, InFront)
  BY <1>1, ConcatKeeps
<1>3. Begins(InFront, P)
  BY <1>1, ConcatKeeps DEF InFront
<1>4. Layered(v) = Pruned(w)
  BY LayeredIs
<1> HIDE DEF X, P, Q
<1>5. w \in Seq(Entry) /\ Begins(w, X)
  BY <1>1, <1>2, ConcatKeeps
<1> HIDE DEF w
<1>6. Len(P) \in Nat /\ Len(InFront) \in Nat /\ Len(X) \in Nat /\ Len(w) \in Nat
  BY <1>1, <1>2, <1>5, LenProperties
<1>7. Begins(w, InFront)
  BY <1>2, <1>5, <1>6 DEF Begins
<1>8. Begins(w, P)
  BY <1>3, <1>6, <1>7 DEF Begins
<1> QED
  BY <1>4, <1>5, <1>7, <1>8 DEF P

\* A second evaluation finds everything in its place.
LEMMA LayeredAgain ==
    ASSUME dev \in SUBSET Pkg, NEW v \in Seq(Entry)
    PROVE  Layered(Layered(v)) = Layered(v) /\ Floor(Floor(v)) = Floor(v)
<1>1. InFront \in Seq(Entry) /\ Behind \in Seq(Entry) /\ LibInFront \in Seq(Entry)
  BY FrontAndBack
<1>2. Layered(v) \in Seq(Entry) /\ Floor(v) \in Seq(Entry)
  BY LayeredKeeps
<1>3. Layered(Layered(v)) = Layered(v)
  <2>1. Layered(v) = Pruned((InFront \o v) \o Behind)
    BY LayeredIs
  <2>2. Layered(Layered(v)) = Pruned((InFront \o Layered(v)) \o Behind)
    BY <1>2, LayeredIs
  <2> QED
    BY <1>1, <2>1, <2>2, PrunedAgain
<1>4. Floor(Floor(v)) = Floor(v)
  <2>1. <<>> \in Seq(Entry)
    BY EmptySeq
  <2>2. \A s \in Seq(Entry) : (LibInFront \o s) \o <<>> = LibInFront \o s
    BY <1>1, ConcatKeeps, ConcatEmptySeq
  <2>3. \A s : Floor(s) = Pruned(LibInFront \o s)
    BY DEF Floor, LibInFront
  <2>4. \A B \in Seq(Entry) : Pruned((LibInFront \o Pruned((LibInFront \o v) \o B)) \o B)
                                = Pruned((LibInFront \o v) \o B)
    BY <1>1, PrunedAgain
  <2> QED
    BY <1>2, <2>1, <2>2, <2>3, <2>4
<1> QED
  BY <1>3, <1>4

\* The dev builds lead, whatever the path was before.
LEMMA DevLeads ==
    ASSUME dev \in SUBSET Pkg, NEW v \in Seq(Entry), NEW p \in Usable
    PROVE  Leads(Floor(v), p) /\ (p \notin Appends => Leads(Layered(v), p))
<1>1. p \in Pkg /\ p \in dev /\ Usable \in SUBSET Pkg /\ Emitted \in SUBSET Pkg
  BY DEF Usable, Emitted, Dag!Reach
<1>2. \A q \in Pkg : SpecOf(q)[1] = q /\ q # 0
  BY RuntimeAssumption DEF SpecOf
<1>3. ASSUME NEW F \in Seq(Entry), NEW w \in Seq(Entry), Begins(w, F), NEW S \in SUBSET Pkg,
             ToSet(F) = {SpecOf(q) : q \in S}, p \in S
      PROVE  Leads(Pruned(w), p)
  <2>1. PICK k \in DOMAIN Pruned(w) :
            /\ Pruned(w)[k] = SpecOf(p)
            /\ \A j \in 1 .. k - 1 : Pruned(w)[j] \in ToSet(F) /\ Pruned(w)[j] # SpecOf(p)
    <3>1. SpecOf(p) \in ToSet(F)
      BY <1>3
    <3>2. BehindOnly(Pruned(w), SpecOf(p), F)
      BY <1>3, <3>1, PrunedFront
    <3> QED
      BY <3>2 DEF BehindOnly
  <2>2. \A j \in 1 .. k - 1 : Pruned(w)[j][1] \notin {p, 0}
    BY <1>2, <1>3, <2>1
  <2> QED
    BY <2>1, <2>2 DEF Leads
<1>4. Leads(Floor(v), p)
  <2> DEFINE w == LibInFront \o v
  <2>1. LibInFront \in Seq(Entry) /\ ToSet(LibInFront) = {SpecOf(q) : q \in Usable}
    BY FrontAndBack
  <2>2. w \in Seq(Entry) /\ Begins(w, LibInFront)
    BY <2>1, ConcatKeeps
  <2>3. Floor(v) = Pruned(w)
    BY DEF Floor, LibInFront
  <2> HIDE DEF w
  <2> QED
    BY <1>1, <1>3, <2>1, <2>2, <2>3
<1>5. ASSUME p \notin Appends
      PROVE  Leads(Layered(v), p)
  <2> DEFINE P == Prepended(Emitted, DevEntry)
  <2>1. p \in Emitted \ Appends
    <3>1. Usable \subseteq Emitted
      BY <1>1 DEF Emitted, Dag!Reach
    <3> QED
      BY <1>5, <3>1
  <2>2. P \in Seq(Entry) /\ ToSet(P) = {SpecOf(q) : q \in Emitted \ Appends}
    BY FrontAndBack
  <2>3. PICK w \in Seq(Entry) : /\ Layered(v) = Pruned(w)
                                /\ Begins(w, InFront) /\ Begins(w, P)
    BY LayeredBegins
  <2>4. Emitted \ Appends \in SUBSET Pkg
    BY <1>1
  <2> HIDE DEF P
  <2> QED
    BY <1>3, <2>1, <2>2, <2>3, <2>4
<1> QED
  BY <1>4, <1>5

\* The installed build of a package that is not being developed comes before
\* whatever else there is of it.
LEMMA InstalledLeads ==
    ASSUME dev \in SUBSET Pkg, NEW v \in Seq(Entry), NEW p \in Pkg \ (dev \cup Appends)
    PROVE  \E k \in DOMAIN Layered(v) : /\ Layered(v)[k] = Installed(p)
                                       /\ \A j \in 1 .. k - 1 : Layered(v)[j][1] # p
<1> DEFINE x == Installed(p)
<1>1. /\ InFront \in Seq(Entry) /\ Behind \in Seq(Entry)
      /\ ToSet(InFront) = {SpecOf(q) : q \in Emitted \ Appends}
                         \cup {Installed(q) : q \in Pkg \ Appends}
  BY FrontAndBack
<1>2. SpecOf(p) = x /\ (\A q : SpecOf(q)[1] = q /\ Installed(q)[1] = q)
  BY DEF SpecOf, Installed
<1>3. x \in ToSet(InFront)
  BY <1>1
<1>4. \A f \in ToSet(InFront) : f[1] = p => f = x
  BY <1>1, <1>2
<1> HIDE DEF x
<1>5. PICK w \in Seq(Entry) : Layered(v) = Pruned(w) /\ Begins(w, InFront)
  BY LayeredBegins
<1>6. PICK k \in DOMAIN Pruned(w) :
          /\ Pruned(w)[k] = x
          /\ \A j \in 1 .. k - 1 : Pruned(w)[j] \in ToSet(InFront) /\ Pruned(w)[j] # x
  <2>1. BehindOnly(Pruned(w), x, InFront)
    BY <1>1, <1>3, <1>5, PrunedFront
  <2> QED
    BY <2>1 DEF BehindOnly
<1> QED
  BY <1>4, <1>5, <1>6 DEF x
-----------------------------------------------------------------------------
\* The theory of graphs.  What it says of the traversal is not used here.
Graph == INSTANCE DevSelection_proofs WITH
    Hash <- Pkg, Dags <- {}, edges <- {}, root <- {}, picks <- {}, children <- {}, parents <- {},
    phase <- "order", upSeen <- {}, upStack <- {}, downSeen <- {}, downStack <- {},
    dev <- {}, pending <- {}, path <- <<>>, todo <- <<>>, visited <- {}, ordered <- <<>>

\* Its operators are the ones of Dag.
LEMMA SameGraph ==
    /\ Graph!SelectionAssumption
    /\ \A E, C : Graph!Closed(E, C) <=> Dag!Closed(E, C)
    /\ \A E, S : Graph!Reach(E, S) = Dag!Reach(E, S)
    /\ \A E, r : Graph!Nodes(E, r) = Dag!Nodes(E, r)
    /\ \A E, r, S : Graph!DevSet(E, r, S) = Dag!DevSet(E, r, S)
    /\ \A E, D : Graph!Convex(E, D) <=> Dag!Convex(E, D)
<1>1. \A E, S : Graph!Reach(E, S) = Dag!Reach(E, S)
  BY DEF Graph!Reach, Dag!Reach, Graph!Closed, Dag!Closed
<1>2. \A E, r : /\ Graph!Nodes(E, r) = Dag!Nodes(E, r)
                /\ Graph!Children(E, r) = Dag!Children(E, r)
                /\ Graph!Parents(E, r) = Dag!Parents(E, r)
  BY <1>1 DEF Graph!Nodes, Dag!Nodes, Graph!Children, Dag!Children, Graph!Parents, Dag!Parents,
              Graph!Flip, Dag!Flip
<1>3. \A E, r, S : Graph!DevSet(E, r, S) = Dag!DevSet(E, r, S)
  BY <1>1, <1>2 DEF Graph!DevSet, Dag!DevSet
<1>4. \A E, D : Graph!Convex(E, D) <=> Dag!Convex(E, D)
  BY <1>1 DEF Graph!Convex, Dag!Convex
<1>5. Graph!SelectionAssumption
  BY RuntimeAssumption DEF Graph!SelectionAssumption
<1> QED
  BY <1>1, <1>2, <1>3, <1>4, <1>5 DEF Graph!Closed, Dag!Closed

\* What a package depends on, itself included.
Below(p) == Dag!Reach(Edges, {p})

LEMMA BelowFacts ==
    /\ \A p \in Pkg : p \in Below(p) /\ Below(p) \in SUBSET Pkg
    /\ \A p : \A q \in Below(p) : q \in Pkg /\ Below(q) \subseteq Below(p)
<1>1. ASSUME NEW p \in Pkg
      PROVE  p \in Below(p) /\ Below(p) \in SUBSET Pkg
  <2>1. {p} \in SUBSET Pkg
    OBVIOUS
  <2>2. {p} \subseteq Graph!Reach(Edges, {p}) /\ Graph!Reach(Edges, {p}) \in SUBSET Pkg
    BY <2>1, SameGraph, Graph!ReachSeeds, Graph!ReachType
  <2> QED
    BY <2>2, SameGraph DEF Below
<1>2. ASSUME NEW p, NEW q \in Below(p)
      PROVE  q \in Pkg /\ Below(q) \subseteq Below(p)
  <2>1. q \in Graph!Reach(Edges, {p})
    BY SameGraph DEF Below
  <2>2. Graph!Reach(Edges, {q}) \subseteq Graph!Reach(Edges, {p})
    BY <2>1, SameGraph, Graph!ReachTransitive
  <2>3. Graph!Reach(Edges, {p}) \in SUBSET Pkg
    BY SameGraph, Graph!ReachType
  <2> QED
    BY <2>1, <2>2, <2>3, SameGraph DEF Below
<1> QED
  BY <1>1, <1>2

\* The spec y was built with covers the entry x: it is the dev build of a
\* package below it, as y knew it.
Covers(y, x) == x[1] \in y[2] /\ x[2] = y[2] \cap Below(x[1])

\* A prefix that is there was built from a dev set without gaps, after the dev
\* builds of what it depends on to be compiled.
BuiltClosed ==
    \A y \in built :
        /\ y[1] \in y[2] /\ y[2] \subseteq Below(y[1]) /\ Dag!Convex(Edges, y[2])
        /\ \A k \in Dag!Succ(Build, y[1]) \cap y[2] : <<k, y[2] \cap Below(k)>> \in built

Covered == \A x \in ToSet(path) \cup ToSet(lib) : x[2] # {} => \E y \in built : Covers(y, x)

\* The inductive invariant.  That nothing but links can be missing needs to know
\* of every entry, however old, which build brought it; that an evaluation repeated
\* changes nothing, that the last one left its own fixpoint.
RuntimeInv ==
    /\ TypeOK
    /\ Dag!Convex(Edges, dev)
    /\ BuiltClosed
    /\ Covered
    /\ current => path = Layered(path) /\ lib = Floor(lib)

\* Whatever is emitted was linked or run with by something that is there.
LEMMA EmittedCovered ==
    ASSUME RuntimeInv, NEW p \in Emitted, SpecOf(p)[2] # {}
    PROVE  \E y \in built : Covers(y, SpecOf(p))
<1>1. p \in dev /\ SpecOf(p) = <<p, Below(p) \cap dev>>
  BY DEF SpecOf, Below
<1>2. Usable \in SUBSET Pkg /\ dev \in SUBSET Pkg
  BY DEF Usable, RuntimeInv, TypeOK
<1>3. p \in Graph!Reach(Edges, Usable)
  BY SameGraph DEF Emitted
<1>4. PICK u \in Usable : p \in Graph!Reach(Edges, {u})
  BY <1>2, <1>3, SameGraph, Graph!ReachFromOne
<1>5. u \in dev /\ SpecOf(u) \in built /\ p \in Below(u)
  BY <1>4, SameGraph DEF Usable, Below
<1>6. SpecOf(u) = <<u, Below(u) \cap dev>>
  BY <1>5 DEF SpecOf, Below
<1>7. Below(p) \subseteq Below(u)
  BY <1>5, BelowFacts
<1>8. Covers(SpecOf(u), SpecOf(p))
  BY <1>1, <1>5, <1>6, <1>7 DEF Covers
<1> QED
  BY <1>5, <1>8

LEMMA UserAlone == <<User>> \in Seq(Entry) /\ ToSet(<<User>>) = {User} /\ NoDuplicates(<<User>>)
BY DEF Entry, ToSet, NoDuplicates

LEMMA FreshShell ==
    ASSUME NEW v \in {<<User>>, Apply(<<User>>, Pkg, BaseEntry)}
    PROVE  v \in Seq(Entry) /\ NoDuplicates(v) /\ \A x \in ToSet(v) : x[2] = {}
<1> DEFINE P == Prepended(Pkg, BaseEntry)
           T == Appended(Pkg, BaseEntry)
           X == P \o <<User>>
<1>1. /\ P \in Seq(Entry) /\ T \in Seq(Entry) /\ NoDuplicates(P) /\ NoDuplicates(T)
      /\ ToSet(P) = {BaseEntry[p] : p \in Pkg \ Appends}
      /\ ToSet(T) = {BaseEntry[p] : p \in Pkg \cap Appends}
  BY EntriesAreTheirs, ModificationsList
<1>2. Apply(<<User>>, Pkg, BaseEntry) = X \o T
  BY DEF Apply
<1>3. \A p \in Pkg : BaseEntry[p] = <<p, {}>> /\ p # 0
  BY RuntimeAssumption DEF BaseEntry, Installed
<1>4. User = <<0, {}>>
  BY DEF User
<1> HIDE DEF P, T
<1>5. ToSet(P) \cap {User} = {} /\ (ToSet(P) \cup {User}) \cap ToSet(T) = {}
  <2>1. \A x \in ToSet(P) : \E p \in Pkg \ Appends : x = <<p, {}>>
    BY <1>1, <1>3
  <2>2. \A x \in ToSet(T) : \E p \in Pkg \cap Appends : x = <<p, {}>>
    BY <1>1, <1>3
  <2>3. \A p \in Pkg : p # 0
    BY <1>3
  <2> QED
    BY <1>4, <2>1, <2>2, <2>3
<1>6. X \in Seq(Entry) /\ NoDuplicates(X) /\ ToSet(X) = ToSet(P) \cup {User}
  <2> DEFINE U == <<User>>
  <2>1. U \in Seq(Entry) /\ ToSet(U) = {User} /\ NoDuplicates(U)
    BY UserAlone
  <2>2. X = P \o U
    OBVIOUS
  <2> HIDE DEF U, X
  <2>3. ToSet(P) \cap ToSet(U) = {}
    BY <1>5, <2>1
  <2> QED
    BY <1>1, <2>1, <2>2, <2>3, ConcatKeeps
<1> HIDE DEF X
<1>7. X \o T \in Seq(Entry) /\ NoDuplicates(X \o T) /\ ToSet(X \o T) = ToSet(X) \cup ToSet(T)
  <2>1. ToSet(X) \cap ToSet(T) = {}
    BY <1>5, <1>6
  <2> QED
    <3>1. T \in Seq(Entry) /\ NoDuplicates(T)
      BY <1>1
    <3>2. X \in Seq(Entry) /\ NoDuplicates(X)
      BY <1>6
    <3> QED
      BY <2>1, <3>1, <3>2, ConcatKeeps
<1>8. \A x \in ToSet(P) \cup {User} \cup ToSet(T) : x[2] = {}
  <2>1. \A x \in ToSet(P) \cup ToSet(T) : \E p \in Pkg : x = <<p, {}>>
    BY <1>1, <1>3
  <2> QED
    BY <1>4, <2>1
<1> QED
  BY <1>2, <1>4, <1>6, <1>7, <1>8, UserAlone

LEMMA RuntimeInit == Init => RuntimeInv
<1> SUFFICES ASSUME Init PROVE RuntimeInv
  OBVIOUS
<1>1. path \in Seq(Entry) /\ NoDuplicates(path) /\ \A x \in ToSet(path) : x[2] = {}
  BY FreshShell DEF Init
<1>2. lib \in Seq(Entry) /\ NoDuplicates(lib) /\ \A x \in ToSet(lib) : x[2] = {}
  BY FreshShell DEF Init
<1>3. TypeOK
  <2>1. dev \in SUBSET Pkg /\ built = {} /\ evals \in 0 .. MaxEvals /\ current \in BOOLEAN
    <3>1. MaxEvals \in Nat
      BY RuntimeAssumption
    <3>2. dev = {} /\ built = {} /\ evals = 0 /\ current = FALSE
      BY DEF Init
    <3>3. current \in BOOLEAN
      BY <3>2
    <3>4. evals \in 0 .. MaxEvals
      BY <3>1, <3>2
    <3> QED
      BY <3>2, <3>3, <3>4
  <2> QED
    BY <1>1, <1>2, <2>1 DEF TypeOK, Entry, NoDuplicates
<1>4. Dag!Convex(Edges, dev) /\ BuiltClosed /\ Covered
  BY <1>1, <1>2 DEF Init, Dag!Convex, BuiltClosed, Covered
<1> QED
  BY <1>3, <1>4 DEF Init, RuntimeInv

LEMMA SelectStep ==
    ASSUME RuntimeInv, NEW picks \in SUBSET Dag!Nodes(Edges, Root), Select(picks)
    PROVE  RuntimeInv'
<1>1. Root \in Pkg
  BY RuntimeAssumption DEF Root
<1>2. dev' = Graph!DevSet(Edges, Root, picks) /\ picks \in SUBSET Graph!Nodes(Edges, Root)
  BY SameGraph DEF Select
<1>3. Dag!Convex(Edges, dev')
  BY <1>1, <1>2, SameGraph, Graph!DevSetConvex
<1>4. dev' \in SUBSET Pkg
  <2>1. \A n \in dev' : \E p \in picks : n \in Graph!Reach(Edges, {p})
    BY <1>1, <1>2, SameGraph, Graph!DevSetMembers
  <2>2. \A p : Graph!Reach(Edges, {p}) \in SUBSET Pkg
    BY SameGraph, Graph!ReachType
  <2> QED
    BY <2>1, <2>2
<1>5. TypeOK' /\ BuiltClosed' /\ Covered'
  BY <1>4 DEF RuntimeInv, TypeOK, BuiltClosed, Covered, Select
<1> QED
  BY <1>3, <1>5 DEF RuntimeInv, Select

LEMMA BuildStep ==
    ASSUME RuntimeInv, NEW p \in Pkg, SpliceBuild(p)
    PROVE  RuntimeInv'
<1> DEFINE D == Below(p) \cap dev
<1>1. p \in dev /\ SpecOf(p) = <<p, D>> /\ dev \in SUBSET Pkg /\ Dag!Convex(Edges, dev)
  BY DEF SpliceBuild, SpecOf, RuntimeInv, TypeOK, Below
<1>2. p \in D /\ D \in SUBSET Pkg /\ D \subseteq Below(p)
  BY <1>1, BelowFacts
<1>3. Dag!Convex(Edges, D)
  <2> SUFFICES ASSUME NEW a \in D, NEW b \in D, NEW n \in Pkg,
                      n \in Below(a), b \in Below(n)
               PROVE  n \in D
    BY DEF Dag!Convex, Below
  <2>1. n \in dev
    BY <1>1 DEF Dag!Convex, Below
  <2>2. n \in Below(p)
    BY BelowFacts
  <2> QED
    BY <2>1, <2>2
<1>4. ASSUME NEW k \in Dag!Succ(Build, p) \cap D
      PROVE  <<k, D \cap Below(k)>> \in built'
  <2>1. k \in dev /\ k \in Usable
    BY DEF SpliceBuild
  <2>2. SpecOf(k) \in built /\ SpecOf(k) = <<k, Below(k) \cap dev>>
    BY <2>1 DEF Usable, SpecOf, Below
  <2>3. Below(k) \subseteq Below(p)
    BY BelowFacts
  <2>4. D \cap Below(k) = Below(k) \cap dev
    BY <2>3
  <2> QED
    BY <2>2, <2>4 DEF SpliceBuild
<1>5. built' = built \cup {<<p, D>>}
  BY <1>1 DEF SpliceBuild
<1> HIDE DEF D
<1>6. BuiltClosed'
  <2> SUFFICES ASSUME NEW y \in built'
               PROVE  /\ y[1] \in y[2] /\ y[2] \subseteq Below(y[1]) /\ Dag!Convex(Edges, y[2])
                      /\ \A k \in Dag!Succ(Build, y[1]) \cap y[2] :
                             <<k, y[2] \cap Below(k)>> \in built'
    BY DEF BuiltClosed
  <2>1. CASE y \in built
    BY <1>5, <2>1 DEF RuntimeInv, BuiltClosed
  <2>2. CASE y = <<p, D>>
    BY <1>2, <1>3, <1>4, <2>2
  <2> QED
    BY <1>5, <2>1, <2>2
<1>7. TypeOK'
  <2>1. <<p, D>> \in Pkg \X ((SUBSET Pkg) \ {{}})
    BY <1>2
  <2>2. built' \subseteq Pkg \X ((SUBSET Pkg) \ {{}})
    BY <1>5, <2>1 DEF RuntimeInv, TypeOK
  <2> QED
    BY <2>2 DEF RuntimeInv, TypeOK, SpliceBuild
<1>8. Covered'
  BY <1>5 DEF RuntimeInv, Covered, SpliceBuild
<1> QED
  BY <1>1, <1>6, <1>7, <1>8 DEF RuntimeInv, SpliceBuild

LEMMA EnvStep ==
    ASSUME RuntimeInv, SpliceEnv
    PROVE  RuntimeInv'
<1>1. /\ dev \in SUBSET Pkg /\ path \in Seq(Entry) /\ lib \in Seq(Entry)
      /\ dev' = dev /\ built' = built /\ path' = Layered(path) /\ lib' = Floor(lib)
  BY DEF RuntimeInv, TypeOK, SpliceEnv, Entry
<1>2. /\ path' \in Seq(Entry) /\ NoDuplicates(path')
      /\ lib' \in Seq(Entry) /\ NoDuplicates(lib')
      /\ ToSet(path') = ToSet(InFront) \cup ToSet(path) \cup ToSet(Behind)
      /\ ToSet(lib') = ToSet(LibInFront) \cup ToSet(lib)
  BY <1>1, LayeredKeeps
<1>3. TypeOK'
  <2>1. evals' \in 0 .. MaxEvals /\ current' \in BOOLEAN
    BY RuntimeAssumption DEF RuntimeInv, TypeOK, SpliceEnv
  <2> QED
    BY <1>1, <1>2, <2>1 DEF RuntimeInv, TypeOK, Entry, NoDuplicates
<1>4. Covered'
  <2> SUFFICES ASSUME NEW x \in ToSet(path') \cup ToSet(lib'), x[2] # {}
               PROVE  \E y \in built : Covers(y, x)
    BY <1>1 DEF Covered
  <2>1. \A p \in Pkg : Installed(p)[2] = {}
    BY DEF Installed
  <2>2. Usable \subseteq Emitted
    <3>1. Usable \in SUBSET Pkg
      BY DEF Usable, RuntimeInv, TypeOK
    <3> QED
      BY <3>1, SameGraph, Graph!ReachSeeds DEF Emitted
  <2>3. ToSet(InFront) \cup ToSet(Behind) \cup ToSet(LibInFront)
            \subseteq {Installed(p) : p \in Pkg} \cup {SpecOf(p) : p \in Emitted}
    <3>1. /\ ToSet(InFront) = {SpecOf(p) : p \in Emitted \ Appends}
                                  \cup {Installed(p) : p \in Pkg \ Appends}
          /\ ToSet(Behind) = {Installed(p) : p \in Pkg \cap Appends}
                                 \cup {SpecOf(p) : p \in Emitted \cap Appends}
          /\ ToSet(LibInFront) = {SpecOf(p) : p \in Usable}
      BY <1>1, FrontAndBack
    <3> QED
      BY <2>2, <3>1
  <2>4. CASE x \in ToSet(path) \cup ToSet(lib)
    BY <2>4 DEF RuntimeInv, Covered
  <2>5. CASE x \in ToSet(InFront) \cup ToSet(Behind) \cup ToSet(LibInFront)
    <3>1. PICK p \in Emitted : x = SpecOf(p)
      BY <2>1, <2>3, <2>5
    <3> QED
      BY <3>1, EmittedCovered
  <2> QED
    BY <1>2, <2>4, <2>5
<1>5. path' = Layered(path)' /\ lib' = Floor(lib)'
  <2>1. /\ Usable' = Usable /\ Emitted' = Emitted /\ DevEntry' = DevEntry
    BY <1>1 DEF Usable, Emitted, DevEntry, SpecOf
  <2>2. Layered(path)' = Layered(path') /\ Floor(lib)' = Floor(lib')
    BY <2>1 DEF Layered, Floor, Apply
  <2>3. Layered(path') = path' /\ Floor(lib') = lib'
    BY <1>1, LayeredAgain
  <2> QED
    BY <2>2, <2>3
<1>6. Dag!Convex(Edges, dev)' /\ BuiltClosed'
  BY <1>1 DEF RuntimeInv, BuiltClosed
<1> QED
  BY <1>3, <1>4, <1>5, <1>6 DEF RuntimeInv

LEMMA RuntimeStep == RuntimeInv /\ [Next]_vars => RuntimeInv'
<1> SUFFICES ASSUME RuntimeInv, [Next]_vars PROVE RuntimeInv'
  OBVIOUS
<1>1. CASE UNCHANGED vars
  BY <1>1 DEF RuntimeInv, TypeOK, BuiltClosed, Covered, Layered, Floor, Apply, Emitted, Usable,
              DevEntry, SpecOf, vars
<1>2. ASSUME NEW picks \in SUBSET Dag!Nodes(Edges, Root), Select(picks) PROVE RuntimeInv'
  BY <1>2, SelectStep
<1>3. ASSUME NEW p \in Pkg, SpliceBuild(p) PROVE RuntimeInv'
  BY <1>3, BuildStep
<1>4. CASE SpliceEnv
  BY <1>4, EnvStep
<1> QED
  BY <1>1, <1>2, <1>3, <1>4 DEF Next

LEMMA RuntimeInvariant == Spec => []RuntimeInv
BY RuntimeInit, RuntimeStep, PTL DEF Spec

\* Search paths hold entries of the base spec's packages, each once.
THEOREM TypeInvariant == Spec => []TypeOK
BY RuntimeInvariant, PTL DEF RuntimeInv

\* In a shell that has just evaluated the environment, every dev build that is
\* there comes before every other build of its package (runtime.py:55-76).
THEOREM DevAlwaysLeads == Spec => []DevInFront
<1>1. RuntimeInv => DevInFront
  <2> SUFFICES ASSUME RuntimeInv, current, NEW p \in Usable
               PROVE  Leads(lib, p) /\ (p \notin Appends => Leads(path, p))
    BY DEF DevInFront
  <2>1. dev \in SUBSET Pkg /\ path \in Seq(Entry) /\ lib \in Seq(Entry)
    BY DEF RuntimeInv, TypeOK, Entry
  <2>2. Leads(Floor(lib), p) /\ (p \notin Appends => Leads(Layered(path), p))
    BY <2>1, DevLeads
  <2> QED
    BY <2>2 DEF RuntimeInv
<1> QED
  BY <1>1, RuntimeInvariant, PTL

\* The installed build of a package that was dropped comes before whatever
\* earlier evaluations left of its dev builds (runtime.py:55-58, 78-79).
THEOREM DroppedAlwaysBehind == Spec => []DroppedGoesBehind
<1>1. RuntimeInv => DroppedGoesBehind
  <2> SUFFICES ASSUME RuntimeInv, current, NEW p \in Pkg \ (dev \cup Appends),
                      NEW i \in DOMAIN path, NEW j \in DOMAIN path,
                      path[i] = Installed(p), path[j][1] = p
               PROVE  i <= j
    BY DEF DroppedGoesBehind
  <2>1. dev \in SUBSET Pkg /\ path \in Seq(Entry) /\ path = Layered(path) /\ NoDuplicates(path)
    BY DEF RuntimeInv, TypeOK, Entry, NoDuplicates
  <2>2. PICK k \in DOMAIN path : /\ path[k] = Installed(p)
                                 /\ \A l \in 1 .. k - 1 : path[l][1] # p
    <3>1. dev \in SUBSET Pkg /\ path \in Seq(Entry) /\ p \in Pkg \ (dev \cup Appends)
      BY <2>1
    <3>2. \E k \in DOMAIN Layered(path) : /\ Layered(path)[k] = Installed(p)
                                         /\ \A l \in 1 .. k - 1 : Layered(path)[l][1] # p
      BY <3>1, InstalledLeads
    <3>3. path = Layered(path)
      BY <2>1
    <3> QED
      BY <3>2, <3>3, Zenon
  <2>3. k = i
    BY <2>1, <2>2 DEF NoDuplicates
  <2>4. i \in Nat /\ j \in Nat /\ 1 <= j
    BY <2>1, LenProperties
  <2>5. j \notin 1 .. i - 1
    BY <2>2, <2>3
  <2> QED
    BY <2>4, <2>5
<1> QED
  BY <1>1, RuntimeInvariant, PTL

\* Evaluating once more with nothing changed in between changes nothing
\* (runtime.py:75-79).
THEOREM EvaluatingAgainIsIdle == Spec => EvalAgainChangesNothing
<1>1. RuntimeInv /\ [Next]_vars => [current /\ current' => UNCHANGED <<path, lib>>]_vars
  <2> SUFFICES ASSUME RuntimeInv, Next, current, current'
               PROVE  UNCHANGED <<path, lib>>
    OBVIOUS
  <2>1. SpliceEnv
    BY DEF Next, Select, SpliceBuild
  <2> QED
    BY <2>1 DEF SpliceEnv, RuntimeInv
<1> QED
  BY <1>1, RuntimeInvariant, PTL DEF Spec, EvalAgainChangesNothing

\* A prefix that is on a search path and not there is linked or run with by a
\* build that is there, and was not needed to compile it
\* (cmd/splice.py:491-494, build.py:100-108).
THEOREM OnlyLinksAreMissing == Spec => []OnlyLinkedIsUnbuilt
<1>1. ASSUME RuntimeInv, NEW y \in built, NEW x, x[1] \in Dag!Reach(Build, {y[1]}),
             Covers(y, x), x = <<x[1], x[2]>>
      PROVE  x \in built
  <2> DEFINE q == y[1]
             D == y[2]
             C == {m \in Dag!Reach(Build, {q}) : m \in D => <<m, D \cap Below(m)>> \in built}
  <2>1. /\ q \in Pkg /\ D \in SUBSET Pkg /\ y = <<q, D>>
        /\ q \in D /\ D \subseteq Below(q) /\ Dag!Convex(Edges, D)
    BY <1>1 DEF RuntimeInv, TypeOK, BuiltClosed
  <2>2. q \in C
    <3>1. q \in Graph!Reach(Build, {q})
      BY <2>1, {q} \in SUBSET Pkg, SameGraph, Graph!ReachSeeds
    <3>2. D \cap Below(q) = D
      BY <2>1
    <3> QED
      BY <2>1, <3>1, <3>2, SameGraph
  <2>3. ASSUME NEW m \in C, NEW k \in Pkg, <<m, k>> \in Build
        PROVE  k \in C
    <3>1. Graph!Closed(Build, Graph!Reach(Build, {q})) /\ Graph!Reach(Build, {q}) \in SUBSET Pkg
      BY SameGraph, Graph!ReachClosed, Graph!ReachType
    <3>2. m \in Pkg /\ k \in Dag!Reach(Build, {q})
      BY <2>3, <3>1, SameGraph DEF Dag!Closed
    <3>3. k \in Below(m)
      <4>1. Graph!Closed(Edges, Graph!Reach(Edges, {m})) /\ m \in Graph!Reach(Edges, {m})
        BY <3>2, {m} \in SUBSET Pkg, SameGraph, Graph!ReachClosed, Graph!ReachSeeds
      <4> QED
        BY <2>3, <4>1, SameGraph DEF Dag!Closed, Below, Edges
    <3>4. ASSUME k \in D
          PROVE  <<k, D \cap Below(k)>> \in built
      <4>1. m \in Below(q)
        <5>1. Graph!Closed(Build, Graph!Reach(Edges, {q})) /\ {q} \subseteq Graph!Reach(Edges, {q})
          <6>1. Graph!Closed(Edges, Graph!Reach(Edges, {q}))
            BY SameGraph, Graph!ReachClosed
          <6>2. {q} \subseteq Graph!Reach(Edges, {q})
            BY <2>1, {q} \in SUBSET Pkg, SameGraph, Graph!ReachSeeds
          <6> QED
            BY <6>1, <6>2, SameGraph DEF Dag!Closed, Edges
        <5>2. Graph!Reach(Edges, {q}) \in SUBSET Pkg
          BY SameGraph, Graph!ReachType
        <5>3. Graph!Reach(Build, {q}) \subseteq Graph!Reach(Edges, {q})
          BY <5>1, <5>2, SameGraph, Graph!ReachLeast
        <5> QED
          BY <2>3, <5>3, SameGraph DEF Below
      <4>2. m \in D
        BY <2>1, <3>2, <3>3, <3>4, <4>1 DEF Dag!Convex, Below
      <4>3. <<m, D \cap Below(m)>> \in built
        BY <2>3, <4>2
      <4>4. k \in Dag!Succ(Build, m) /\ k \in D \cap Below(m)
        BY <2>3, <3>3, <3>4 DEF Dag!Succ
      <4>5. <<k, (D \cap Below(m)) \cap Below(k)>> \in built
        BY <1>1, <4>3, <4>4 DEF RuntimeInv, BuiltClosed
      <4>6. (D \cap Below(m)) \cap Below(k) = D \cap Below(k)
        BY <3>3, BelowFacts
      <4> QED
        BY <4>5, <4>6
    <3> QED
      BY <3>2, <3>4
  <2>4. C \in SUBSET Pkg
    BY SameGraph, Graph!ReachType
  <2>5. Graph!Closed(Build, C)
    BY <2>3, SameGraph DEF Dag!Closed
  <2>6. Graph!Reach(Build, {q}) \subseteq C
    BY <2>2, <2>4, <2>5, {q} \subseteq C, SameGraph, Graph!ReachLeast
  <2>7. x[1] \in C
    BY <1>1, <2>6, SameGraph
  <2> QED
    BY <1>1, <2>7 DEF Covers
<1>2. RuntimeInv => OnlyLinkedIsUnbuilt
  <2> SUFFICES ASSUME RuntimeInv, NEW x \in ToSet(path) \cup ToSet(lib), x[2] # {}, x \notin built
               PROVE  \E y \in built :
                          /\ x[1] \in Dag!Reach(Edges, {y[1]}) \ Dag!Reach(Build, {y[1]})
                          /\ x[2] = y[2] \cap Dag!Reach(Edges, {x[1]})
    BY DEF OnlyLinkedIsUnbuilt
  <2>1. x \in Entry
    BY LenProperties, ElementOfSeq DEF RuntimeInv, TypeOK, Entry, ToSet
  <2>2. x = <<x[1], x[2]>>
    BY <2>1 DEF Entry, User
  <2>3. PICK y \in built : Covers(y, x)
    BY DEF RuntimeInv, Covered
  <2>4. x[1] \notin Dag!Reach(Build, {y[1]})
    BY <1>1, <2>2, <2>3
  <2>5. x[1] \in Below(y[1])
    BY <2>3 DEF RuntimeInv, BuiltClosed, Covers
  <2> QED
    BY <2>3, <2>4, <2>5 DEF Covers, Below
<1> QED
  BY <1>2, RuntimeInvariant, PTL
-----------------------------------------------------------------------------
(* The scripts of a tarball on the target.                                 *)

\* Prepending keeps the front in front.
LEMMA FrontIsAdded ==
    ASSUME NEW A, NEW front \in Seq(A), NEW old \in Seq(A)
    PROVE  /\ front \o old \in Seq(A)
           /\ IsPrefix(front, front \o old)
<1> DEFINE new == front \o old
           n == Len(front)
<1>1. /\ new \in Seq(A) /\ n \in Nat /\ Len(new) = n + Len(old) /\ Len(old) \in Nat
      /\ \A i \in 1 .. n : new[i] = front[i]
      /\ DOMAIN front = 1 .. n
  BY ConcatProperties, LenProperties
<1> HIDE DEF new
<1>2. SubSeq(new, 1, n) = front
  <2>1. CASE n = 0
    BY <1>1, <2>1, SubSeqEmpty, EmptySeq
  <2>2. CASE n # 0
    <3>1. 1 \in 1 .. n /\ n \in 1 .. n
      BY <1>1, <2>2
    <3>2. SubSeq(new, 1, n) = SubSeq(front, 1, n)
      BY <3>1, SubSeqOfConcat1 DEF new
    <3> QED
      BY <3>2, SubSeqFull
  <2> QED
    BY <2>1, <2>2
<1>3. SubSeq(front, 1, n) = front
  BY SubSeqFull
<1>4. IsPrefix(front, new)
  BY <1>1, <1>2, <1>3 DEF IsPrefix
<1> QED
  BY <1>1, <1>4 DEF new

\* Lines that each prepend, the last entry's first, leave the entries in order.
LEMMA PushedIsInFront ==
    ASSUME NEW A, NEW front \in Seq(A), NEW old
    PROVE  Pushed(front, old) = front \o old
<1> DEFINE n == Len(front)
           r == Reverse(front)
<1>1. n \in Nat /\ DOMAIN front = 1 .. n /\ front = [i \in 1 .. n |-> front[i]]
  BY LenProperties
<1>2. r = [i \in 1 .. n |-> front[(n - i) + 1]]
  BY DEF Reverse
<1>3. r \in Seq(A)
  BY ReverseKeeps
<1> HIDE DEF n, r
<1>4. Len(r) = n
  BY <1>1, <1>2, <1>3, LenProperties
<1>5. Reverse(r) = [i \in 1 .. n |-> r[(n - i) + 1]]
  BY <1>4 DEF Reverse
<1>6. \A i \in 1 .. n : r[(n - i) + 1] = front[i]
  <2> TAKE i \in 1 .. n
  <2>1. (n - i) + 1 \in 1 .. n /\ (n - ((n - i) + 1)) + 1 = i
    BY <1>1
  <2> QED
    BY <1>2, <2>1
<1>7. Reverse(r) = front
  BY <1>1, <1>5, <1>6
<1> QED
  BY <1>7 DEF Pushed, PrependedEach, r

\* What a tarball exports is entries below the root and entries of the store.
LEMMA ExportIs ==
    ASSUME NEW t \in Tarball, NEW r \in Dir
    PROVE  Export(t, r) \in Seq(Prefix)
<1> DEFINE s == Resolved[t]
<1>1. /\ s \in Seq(Origin \X STRING) /\ Len(s) \in Nat /\ DOMAIN s = 1 .. Len(s)
      /\ \A i \in 1 .. Len(s) : s[i] \in Origin \X STRING
  BY PackedAssumption, LenProperties, ElementOfSeq
<1> HIDE DEF s
<1>2. ASSUME NEW e \in Origin \X STRING
      PROVE  Moved(e, r) \in Prefix
  <2>1. e = <<e[1], e[2]>> /\ e[1] \in {"area", "store"} /\ e[2] \in STRING
    BY DEF Origin
  <2>2. CASE Names(e)
    <3>1. Moved(e, r) = <<r, e[2]>>
      BY <2>2 DEF Moved
    <3> QED
      BY <2>1, <3>1 DEF Prefix
  <2>3. CASE ~Names(e)
    <3>1. Moved(e, r) = e /\ e[1] = "store"
      BY <2>1, <2>3 DEF Moved, Names
    <3>2. e \in Prefix
      BY <2>1 DEF Prefix, Origin
    <3> QED
      BY <3>1, <3>2
  <2> QED
    BY <2>2, <2>3
<1>3. Export(t, r) = [i \in 1 .. Len(s) |-> Moved(s[i], r)]
  BY <1>1 DEF Export, s
<1>4. Export(t, r) \in [1 .. Len(s) -> Prefix]
  BY <1>1, <1>2, <1>3
<1>5. Export(t, r) \in Seq(Prefix)
  BY <1>1, <1>4, IsASeq
<1> QED
  BY <1>5

\* The tarball whose scripts run is there, and so is a directory for a root.
LEMMA ScriptIsThere ==
    ASSUME TargetTypeOK, NEW l \in Place, HasInstall(l)
    PROVE  unpacked[l] \in Tarball /\ l \in Dir
BY DEF TargetTypeOK, HasInstall, Dir

\* What a use of a script leaves on the record.
LEMMA UseIs ==
    ASSUME NEW by, NEW l, NEW ok, NEW was, NEW result, Used(by, l, ok, was, result)
    PROVE  /\ last'.by = by /\ last'.at = l /\ last'.ok = ok /\ last'.was = was
           /\ last'.path = result
           /\ UNCHANGED <<unpacked, mounted, shell, storeInArea>>
BY DEF Used, target

\* Both are inductive as they stand: a use records what it has just done.
TargetInv == TargetTypeOK /\ UsesItsOwn

LEMMA TargetInitially == TargetInit => TargetInv
<1> SUFFICES ASSUME TargetInit PROVE TargetInv
  OBVIOUS
<1>1. Users \in Prefix
  BY DEF Prefix
<1>2. <<Users>> \in Seq(Prefix)
  BY <1>1
<1>3. last = None
  BY DEF TargetInit
<1>4. TargetTypeOK
  BY <1>2, <1>3, PackedAssumption DEF TargetInit, TargetTypeOK
<1> QED
  BY <1>3, <1>4 DEF TargetInv, UsesItsOwn

LEMMA SetupStep ==
    ASSUME TargetInv, NEW l \in Place, NEW cwd \in Dir, SourceSetup(l, cwd)
    PROVE  TargetInv'
<1> DEFINE r == Discovered(l, cwd)
           front == Export(unpacked[l], r)
<1>1. r \in Dir /\ unpacked[l] \in Tarball
  BY ScriptIsThere DEF TargetInv, TargetTypeOK, SourceSetup, Discovered
<1>2. front \in Seq(Prefix)
  BY <1>1, ExportIs
<1>3. Used("setup", l, Ready(r), root, search')
  BY DEF SourceSetup
<1>4. /\ last'.by = "setup" /\ last'.at = l /\ last'.ok = Ready(r) /\ last'.was = root
      /\ last'.path = search'
      /\ UNCHANGED <<unpacked, mounted, shell, storeInArea>>
  BY <1>3, UseIs
<1>5. root' = r /\ uses < MaxUses /\ uses' = uses + 1
  BY <1>3 DEF SourceSetup, Used
<1>6. search' = IF Ready(r) THEN front \o search ELSE search
  BY DEF SourceSetup, Extended
<1>7. Ready(r) \in BOOLEAN
  BY DEF Ready, HasInstall, TargetInv, TargetTypeOK
<1>8. search \in Seq(Prefix)
  BY DEF TargetInv, TargetTypeOK
<1>9. ASSUME (root = None /\ shell = "bash") \/ root = l
      PROVE  r = l
  BY <1>9, PackedAssumption DEF Discovered
<1>10. Own' = Export(unpacked[l], l)
  BY <1>4 DEF Own, Export, Moved, Names
<1> HIDE DEF r, front
<1>11. search' \in Seq(Prefix)
  BY <1>2, <1>6, <1>8, FrontIsAdded
<1>12. TargetTypeOK'
  BY <1>1, <1>4, <1>5, <1>7, <1>11, PackedAssumption DEF TargetInv, TargetTypeOK
<1>13. UsesItsOwn'
  <2> SUFFICES ASSUME Ready(r), (root = None /\ shell = "bash") \/ root = l
               PROVE  IsPrefix(Own', search')
    BY <1>4 DEF UsesItsOwn
  <2>1. front = Own'
    BY <1>9, <1>10 DEF front
  <2> QED
    BY <1>2, <1>6, <1>8, <2>1, FrontIsAdded
<1> QED
  BY <1>12, <1>13 DEF TargetInv

LEMMA RunStep ==
    ASSUME TargetInv, NEW l \in Place, Run(l)
    PROVE  TargetInv'
<1> DEFINE front == Export(unpacked[l], l)
           result == IF Ready(l) THEN front \o search ELSE search
<1>1. l \in Dir /\ unpacked[l] \in Tarball
  BY ScriptIsThere DEF TargetInv, Run
<1>2. front \in Seq(Prefix)
  BY <1>1, ExportIs
<1>3. Used("run", l, Ready(l), root, result)
  BY DEF Run, RunRoot, Extended
<1>4. /\ last'.by = "run" /\ last'.at = l /\ last'.ok = Ready(l) /\ last'.path = result
      /\ UNCHANGED <<unpacked, mounted, shell, storeInArea>>
  BY <1>3, UseIs
<1>5. UNCHANGED <<root, search>> /\ uses < MaxUses /\ uses' = uses + 1
  BY <1>3 DEF Run, Used
<1>6. Ready(l) \in BOOLEAN
  BY DEF Ready, HasInstall, TargetInv, TargetTypeOK
<1>7. search \in Seq(Prefix)
  BY DEF TargetInv, TargetTypeOK
<1>8. Own' = front
  BY <1>4 DEF Own, Export, Moved, Names
<1> HIDE DEF front
<1>9. result \in Seq(Prefix)
  BY <1>2, <1>7, FrontIsAdded
<1>10. TargetTypeOK'
  BY <1>4, <1>5, <1>6, <1>9, PackedAssumption DEF TargetInv, TargetTypeOK
<1>11. UsesItsOwn'
  <2> SUFFICES ASSUME Ready(l)
               PROVE  IsPrefix(Own', last'.path)
    BY <1>4 DEF UsesItsOwn
  <2> QED
    BY <1>2, <1>4, <1>7, <1>8, FrontIsAdded
<1> QED
  BY <1>10, <1>11 DEF TargetInv

LEMMA LoadStep ==
    ASSUME TargetInv, NEW l \in Place, ModuleLoad(l)
    PROVE  TargetInv'
<1> DEFINE front == Export(unpacked[l], l)
<1>1. l \in Dir /\ unpacked[l] \in Tarball
  BY ScriptIsThere DEF TargetInv, ModuleLoad
<1>2. front \in Seq(Prefix)
  BY <1>1, ExportIs
<1>3. search \in Seq(Prefix)
  BY DEF TargetInv, TargetTypeOK
<1>4. search' = front \o search
  BY <1>2, PushedIsInFront DEF ModuleLoad
<1>5. Used("module", l, TRUE, root, search')
  BY DEF ModuleLoad
<1>6. /\ last'.by = "module" /\ last'.at = l /\ last'.ok \in BOOLEAN /\ last'.path = search'
      /\ UNCHANGED <<unpacked, mounted, shell, storeInArea>>
  <2>1. last'.ok = TRUE
    BY <1>5, UseIs
  <2> QED
    BY <1>5, <2>1, UseIs
<1>7. UNCHANGED root /\ uses < MaxUses /\ uses' = uses + 1
  BY <1>5 DEF ModuleLoad, Used
<1>8. Own' = front
  BY <1>6 DEF Own, Export, Moved, Names
<1> HIDE DEF front
<1>9. search' \in Seq(Prefix) /\ IsPrefix(front, search')
  BY <1>2, <1>3, <1>4, FrontIsAdded
<1>10. TargetTypeOK'
  BY <1>6, <1>7, <1>9, PackedAssumption DEF TargetInv, TargetTypeOK
<1>11. UsesItsOwn'
  BY <1>6, <1>8, <1>9 DEF UsesItsOwn
<1> QED
  BY <1>10, <1>11 DEF TargetInv

LEMMA MeanwhileStep ==
    ASSUME TargetInv,
           \/ \E t \in Tarball, l \in Place : Unpack(t, l)
           \/ \E l, m \in Place : Move(l, m)
           \/ Mount
    PROVE  TargetInv'
<1>1. Meanwhile /\ unpacked' \in [Place -> Tarball \cup {None}] /\ mounted' \in BOOLEAN
  BY DEF Unpack, Move, Mount, TargetInv, TargetTypeOK
<1>2. last' = None /\ UNCHANGED <<shell, storeInArea, root, search, uses>>
  BY <1>1 DEF Meanwhile
<1>3. TargetTypeOK'
  BY <1>1, <1>2 DEF TargetInv, TargetTypeOK
<1> QED
  BY <1>2, <1>3 DEF TargetInv, UsesItsOwn

LEMMA TargetStutter ==
    ASSUME TargetInv, UNCHANGED targetvars
    PROVE  TargetInv'
BY DEF TargetInv, TargetTypeOK, UsesItsOwn, Own, Export, Moved, Names, targetvars, target

LEMMA TargetStep ==
    ASSUME TargetInv, [TargetNext]_targetvars
    PROVE  TargetInv'
<1>1. CASE \E l \in Place, cwd \in Dir : SourceSetup(l, cwd)
  BY <1>1, SetupStep
<1>2. CASE \E l \in Place : Run(l)
  BY <1>2, RunStep
<1>3. CASE \E l \in Place : ModuleLoad(l)
  BY <1>3, LoadStep
<1>4. CASE \/ \E t \in Tarball, l \in Place : Unpack(t, l)
           \/ \E l, m \in Place : Move(l, m)
           \/ Mount
  BY <1>4, MeanwhileStep
<1>5. CASE UNCHANGED targetvars
  BY <1>5, TargetStutter
<1> QED
  BY <1>1, <1>2, <1>3, <1>4, <1>5 DEF TargetNext

LEMMA TargetInvariant == TargetSpec => []TargetInv
<1>1. TargetInit => TargetInv
  BY TargetInitially
<1>2. TargetInv /\ [TargetNext]_targetvars => TargetInv'
  BY TargetStep
<1> QED
  BY <1>1, <1>2, PTL DEF TargetSpec

(* The tarballs in their places, the root, the search path and the record  *)
(* of the last use have their types (pack.py:53-179).                      *)
THEOREM TargetTypeInvariant == TargetSpec => []TargetTypeOK
<1>1. TargetInv => TargetTypeOK
  BY DEF TargetInv
<1> QED
  BY <1>1, TargetInvariant, PTL

(* Whatever was unpacked, moved and used before, a script that does not    *)
(* refuse puts its own tarball's prefixes in front, in order: run.sh and   *)
(* the modulefile always, setup.sh in a bash where no root was left and    *)
(* where the root that was left is its own place (pack.py:98-116, 126-131, *)
(* 155-156).                                                               *)
THEOREM ScriptsUseTheirOwn == TargetSpec => []UsesItsOwn
<1>1. TargetInv => UsesItsOwn
  BY DEF TargetInv
<1> QED
  BY <1>1, TargetInvariant, PTL
=============================================================================
