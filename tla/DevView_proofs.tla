--------------------------- MODULE DevView_proofs ---------------------------
(***************************************************************************)
(* With one writer the view is never half built, whatever raises, whatever *)
(* rmtree leaves behind and whenever the writer is killed.  With two it is *)
(* not: TLC finds it so in the configuration TwoViews.                     *)
(***************************************************************************)
EXTENDS DevView, FiniteSetTheorems, TLAPS

Built == {"mark", "read", "look", "unlink", "link", "rmdir", "rename"}
Marked == Built \ {"mark"}
Swapping == Marked \ {"read"}

(* The writer's program counter, tied to what it has done on disk so far.  *)
Progress(p) ==
    /\ pc[p] # "idle" => want[p] \in Content
    /\ pc[p] \in Try \cup {"clean"} => staging[p] \in exists /\ staging[p] # view
    /\ pc[p] \in Built => staging[p] \in whole
    /\ pc[p] \in Marked => marker[staging[p]] = want[p]
    /\ pc[p] \in Swapping => previous[p] = view
    /\ pc[p] \in {"rmdir", "rename"} => tmplink = staging[p]
    /\ pc[p] = "drop" => view = staging[p]

WriterInv == TypeOK /\ whole \subseteq exists /\ ViewIsWhole /\ \A p \in Proc : Progress(p)

LEMMA TypeInit == Init => TypeOK
  BY ViewAssumption DEF Init, TypeOK, Step, Try

LEMMA TypeStep == TypeOK /\ [Next]_vars => TypeOK'
  <1> SUFFICES ASSUME TypeOK, [Next]_vars PROVE TypeOK'
    OBVIOUS
  <1> USE ViewAssumption DEF TypeOK, Goto, Step, Try
  <1>1. ASSUME NEW p \in Proc, NEW c \in Content, NEW s \in BOOLEAN, Call(p, c, s)
        PROVE  TypeOK'
    BY <1>1 DEF Call, At, disk
  <1>2. ASSUME NEW p \in Proc, Mkdtemp(p) PROVE TypeOK'
    BY <1>2 DEF Mkdtemp, At
  <1>3. ASSUME NEW p \in Proc, Build(p) PROVE TypeOK'
    BY <1>3 DEF Build, At
  <1>4. ASSUME NEW p \in Proc, Rebuild(p) PROVE TypeOK'
    BY <1>4 DEF Rebuild, At
  <1>5. ASSUME NEW p \in Proc, WriteMarker(p) PROVE TypeOK'
    BY <1>5 DEF WriteMarker, At
  <1>6. ASSUME NEW p \in Proc, ReadPrevious(p) PROVE TypeOK'
    BY <1>6 DEF ReadPrevious, At, disk
  <1>7. ASSUME NEW p \in Proc, LookForTmp(p) PROVE TypeOK'
    BY <1>7 DEF LookForTmp, At, disk
  <1>8. ASSUME NEW p \in Proc, UnlinkTmp(p) PROVE TypeOK'
    BY <1>8 DEF UnlinkTmp, At
  <1>9. ASSUME NEW p \in Proc, SymlinkTmp(p) PROVE TypeOK'
    BY <1>9 DEF SymlinkTmp, At
  <1>10. ASSUME NEW p \in Proc, RmdirView(p) PROVE TypeOK'
    BY <1>10 DEF RmdirView, At
  <1>11. ASSUME NEW p \in Proc, Rename(p) PROVE TypeOK'
    BY <1>11 DEF Rename, At
  <1>12. ASSUME NEW p \in Proc, DropPrevious(p) PROVE TypeOK'
    BY <1>12 DEF DropPrevious, At, RemoveTree, Leave
  <1>13. ASSUME NEW p \in Proc, CleanStaging(p) PROVE TypeOK'
    BY <1>13 DEF CleanStaging, At, RemoveTree
  <1>14. ASSUME NEW p \in Proc, CleanTmp(p) PROVE TypeOK'
    BY <1>14 DEF CleanTmp, At, Leave
  <1>15. ASSUME NEW p \in Proc, Raise(p) PROVE TypeOK'
    BY <1>15 DEF Raise, At, disk
  <1>16. ASSUME NEW p \in Proc, Crash(p) PROVE TypeOK'
    BY <1>16 DEF Crash, At, Leave, disk
  <1>17. ASSUME UNCHANGED vars PROVE TypeOK'
    BY <1>17 DEF vars, disk, locals
  <1>. QED
    BY <1>1, <1>2, <1>3, <1>4, <1>5, <1>6, <1>7, <1>8, <1>9,
       <1>10, <1>11, <1>12, <1>13, <1>14, <1>15, <1>16, <1>17 DEF Next, Run

(* The variables always have their types (view.py:106-161).                *)
THEOREM TypeInvariant == Spec => []TypeOK
  BY TypeInit, TypeStep, PTL DEF Spec

LEMMA WriterInit == Init => WriterInv
  BY TypeInit DEF Init, WriterInv, ViewIsWhole, Progress, Built, Marked, Swapping, Try

LEMMA WriterStep ==
  ASSUME \A p, q \in Proc : p = q
  PROVE  WriterInv /\ [Next]_vars => WriterInv'
  <1> SUFFICES ASSUME WriterInv, [Next]_vars
               PROVE  (whole \subseteq exists)' /\ ViewIsWhole' /\ \A p \in Proc : Progress(p)'
    BY TypeStep DEF WriterInv
  <1> DEFINE Safe == whole \subseteq exists /\ ViewIsWhole /\ \A q \in Proc : Progress(q)
  <1> USE ViewAssumption DEF WriterInv, TypeOK, ViewIsWhole, Progress, Built, Marked, Swapping, Try, Goto
  <1>1. ASSUME NEW p \in Proc, NEW c \in Content, NEW s \in BOOLEAN, Call(p, c, s)
        PROVE  Safe'
    BY <1>1 DEF Call, At, disk
  <1>2. ASSUME NEW p \in Proc, Mkdtemp(p) PROVE Safe'
    BY <1>2 DEF Mkdtemp, At
  <1>3. ASSUME NEW p \in Proc, Build(p) PROVE Safe'
    BY <1>3 DEF Build, At
  <1>4. ASSUME NEW p \in Proc, Rebuild(p) PROVE Safe'
    BY <1>4 DEF Rebuild, At
  <1>5. ASSUME NEW p \in Proc, WriteMarker(p) PROVE Safe'
    BY <1>5 DEF WriteMarker, At
  <1>6. ASSUME NEW p \in Proc, ReadPrevious(p) PROVE Safe'
    BY <1>6 DEF ReadPrevious, At, disk
  <1>7. ASSUME NEW p \in Proc, LookForTmp(p) PROVE Safe'
    BY <1>7 DEF LookForTmp, At, disk
  <1>8. ASSUME NEW p \in Proc, UnlinkTmp(p) PROVE Safe'
    BY <1>8 DEF UnlinkTmp, At
  <1>9. ASSUME NEW p \in Proc, SymlinkTmp(p) PROVE Safe'
    BY <1>9 DEF SymlinkTmp, At
  <1>10. ASSUME NEW p \in Proc, RmdirView(p) PROVE Safe'
    BY <1>10 DEF RmdirView, At
  <1>11. ASSUME NEW p \in Proc, Rename(p) PROVE Safe'
    BY <1>11 DEF Rename, At
  <1>12. ASSUME NEW p \in Proc, DropPrevious(p) PROVE Safe'
    BY <1>12 DEF DropPrevious, At, RemoveTree, Leave
  <1>13. ASSUME NEW p \in Proc, CleanStaging(p) PROVE Safe'
    BY <1>13 DEF CleanStaging, At, RemoveTree
  <1>14. ASSUME NEW p \in Proc, CleanTmp(p) PROVE Safe'
    BY <1>14 DEF CleanTmp, At, Leave
  <1>15. ASSUME NEW p \in Proc, Raise(p) PROVE Safe'
    BY <1>15 DEF Raise, At, disk
  <1>16. ASSUME NEW p \in Proc, Crash(p) PROVE Safe'
    BY <1>16 DEF Crash, At, Leave, disk
  <1>17. ASSUME UNCHANGED vars PROVE Safe'
    BY <1>17 DEF vars, disk, locals
  <1>. QED
    BY <1>1, <1>2, <1>3, <1>4, <1>5, <1>6, <1>7, <1>8, <1>9,
       <1>10, <1>11, <1>12, <1>13, <1>14, <1>15, <1>16, <1>17 DEF Next, Run

(* One writer alone never lets a reader find anything but a complete tree: *)
(* the tree is built aside and swapped in, and what the handler and the    *)
(* clean-up remove is never the tree the link names (view.py:6-10,         *)
(* 127-162).                                                               *)
THEOREM OneWriterKeepsViewWhole ==
  ASSUME \A p, q \in Proc : p = q
  PROVE  Spec => []ViewIsWhole
  <1>1. WriterInv => ViewIsWhole
    BY DEF WriterInv
  <1>. QED
    BY <1>1, WriterInit, WriterStep, PTL DEF Spec

(* One writer alone only ever swaps in the content it was asked for        *)
(* (view.py:127-162).                                                      *)
THEOREM OneWriterSwapsToWanted ==
  ASSUME \A p, q \in Proc : p = q
  PROVE  Spec => SwapsOnlyToWanted
  <1> DEFINE Swap == view' # view => \E p \in Proc : /\ At(p, "rename") /\ pc'[p] = "drop"
                                                   /\ view' \in whole /\ marker[view'] = want[p]
  <1>1. WriterInv /\ [Next]_vars => Swap
    <2> SUFFICES ASSUME WriterInv, [Next]_vars, view' # view PROVE Swap
      OBVIOUS
    <2>1. PICK p \in Proc : Rename(p)
      BY DEF Next, Run, Call, Mkdtemp, Build, Rebuild, WriteMarker, ReadPrevious, LookForTmp,
             UnlinkTmp, SymlinkTmp, RmdirView, DropPrevious, CleanStaging, CleanTmp, Raise, Crash,
             vars, disk
    <2>2. At(p, "rename") /\ pc'[p] = "drop" /\ view' = staging[p]
      BY <2>1 DEF Rename, Goto, At, WriterInv, TypeOK, Progress
    <2>. QED
      BY <2>2 DEF At, WriterInv, Progress, Built, Marked
  <1>. QED
    BY <1>1, WriterInit, WriterStep, PTL DEF Spec, SwapsOnlyToWanted

(* One writer alone that fails leaves the view it found, and the tree that  *)
(* is behind it (view.py:9-10, 153-158).                                    *)
THEOREM OneWriterFailureLeavesView ==
  ASSUME \A p, q \in Proc : p = q
  PROVE  Spec => FailureLeavesView
  <1> DEFINE Left == \A p \in Proc : (At(p, "clean") /\ pc'[p] = "untmp") =>
                        view' = view /\ (view \in exists => view \in exists')
  <1>1. WriterInv /\ [Next]_vars => Left
    <2> SUFFICES ASSUME WriterInv, [Next]_vars, NEW p \in Proc, At(p, "clean"), pc'[p] = "untmp"
                 PROVE  view' = view /\ (view \in exists => view \in exists')
      OBVIOUS
    <2>1. CleanStaging(p)
      BY DEF Next, Run, Call, Mkdtemp, Build, Rebuild, WriteMarker, ReadPrevious, LookForTmp,
             UnlinkTmp, SymlinkTmp, RmdirView, Rename, DropPrevious, CleanTmp, Raise, Crash,
             Leave, Goto, At, Try, vars, locals, WriterInv, TypeOK
    <2>. QED
      BY <2>1 DEF CleanStaging, RemoveTree, At, WriterInv, Progress
  <1>. QED
    BY <1>1, WriterInit, WriterStep, PTL DEF Spec, FailureLeavesView
-----------------------------------------------------------------------------
\* The trees that the running call is still going to deal with: the one it is
\* making, or the one it has just replaced.
Held ==
    {staging[p] : p \in {q \in Proc : pc[q] \in Try \cup {"clean"}}}
        \cup {previous[p] : p \in {q \in Proc : pc[q] = "drop"}}
\* The trees that nobody is going to remove any more.
Litter == exists \ ({view} \cup Held)

\* LitterIsBounded speaks of idle processes only and so is not inductive.
LitterInv == IsFiniteSet(exists) /\ Cardinality(Litter) <= mishaps

LEMMA OneWriterHolds ==
  ASSUME \A p, q \in Proc : p = q, NEW p \in Proc
  PROVE  /\ Held = IF pc[p] \in Try \cup {"clean"} THEN {staging[p]}
                   ELSE IF pc[p] = "drop" THEN {previous[p]} ELSE {}
         /\ Held' = IF pc'[p] \in Try \cup {"clean"} THEN {staging'[p]}
                    ELSE IF pc'[p] = "drop" THEN {previous'[p]} ELSE {}
  BY DEF Held, Try

\* A step abandons at most one tree, and then something went wrong.
LEMMA OneMishapOneTree ==
  ASSUME \A p, q \in Proc : p = q, WriterInv, [Next]_vars
  PROVE  /\ exists' = exists \/ \E t \in Tree : exists' \subseteq exists \cup {t}
         /\ \/ Litter' \subseteq Litter /\ mishaps' = mishaps
            \/ \E t : Litter' \subseteq Litter \cup {t} /\ mishaps' = mishaps + 1
  <1> DEFINE Grows == exists' = exists \/ \E t \in Tree : exists' \subseteq exists \cup {t}
             Same == Litter' \subseteq Litter /\ mishaps' = mishaps
             More == \E t : Litter' \subseteq Litter \cup {t} /\ mishaps' = mishaps + 1
  <1> USE ViewAssumption DEF WriterInv, TypeOK, Litter, Held, Goto, At, Try
  <1>1. ASSUME NEW p \in Proc, NEW c \in Content, NEW s \in BOOLEAN, Call(p, c, s)
        PROVE  Grows /\ Same
    BY <1>1 DEF Call, disk
  <1>2. ASSUME NEW p \in Proc, Mkdtemp(p) PROVE Grows /\ Same
    BY <1>2 DEF Mkdtemp
  <1>3. ASSUME NEW p \in Proc, Build(p) PROVE Grows /\ Same
    BY <1>3 DEF Build
  <1>4. ASSUME NEW p \in Proc, Rebuild(p) PROVE Grows /\ Same
    BY <1>4 DEF Rebuild
  <1>5. ASSUME NEW p \in Proc, WriteMarker(p) PROVE Grows /\ Same
    BY <1>5 DEF WriteMarker
  <1>6. ASSUME NEW p \in Proc, ReadPrevious(p) PROVE Grows /\ Same
    BY <1>6 DEF ReadPrevious, disk
  <1>7. ASSUME NEW p \in Proc, LookForTmp(p) PROVE Grows /\ Same
    BY <1>7 DEF LookForTmp, disk
  <1>8. ASSUME NEW p \in Proc, UnlinkTmp(p) PROVE Grows /\ Same
    BY <1>8 DEF UnlinkTmp
  <1>9. ASSUME NEW p \in Proc, SymlinkTmp(p) PROVE Grows /\ Same
    BY <1>9 DEF SymlinkTmp
  <1>10. ASSUME NEW p \in Proc, RmdirView(p) PROVE Grows /\ Same
    BY <1>10 DEF RmdirView
  <1>11. ASSUME NEW p \in Proc, Rename(p) PROVE Grows /\ Same
    BY <1>11 DEF Rename, Progress, Swapping, Marked, Built
  <1>12. ASSUME NEW p \in Proc, DropPrevious(p) PROVE Grows /\ (Same \/ More)
    BY <1>12 DEF DropPrevious, RemoveTree, Leave, Progress
  <1>13. ASSUME NEW p \in Proc, CleanStaging(p) PROVE Grows /\ (Same \/ More)
    <2>1. Held = {staging[p]} /\ Held' = {} /\ view' = view
      BY <1>13, OneWriterHolds DEF CleanStaging
    <2>2. CASE exists' = exists \ {staging[p]} /\ mishaps' = mishaps
      BY <2>1, <2>2
    <2>3. CASE exists' = exists /\ mishaps' = mishaps + 1
      BY <2>1, <2>3
    <2>. QED
      BY <1>13, <2>2, <2>3 DEF CleanStaging, RemoveTree
  <1>14. ASSUME NEW p \in Proc, CleanTmp(p) PROVE Grows /\ Same
    BY <1>14 DEF CleanTmp, Leave
  <1>15. ASSUME NEW p \in Proc, Raise(p) PROVE Grows /\ Same
    BY <1>15 DEF Raise, disk
  <1>16. ASSUME NEW p \in Proc, Crash(p) PROVE Grows /\ More
    <2>1. Held' = {} /\ exists' = exists /\ view' = view /\ mishaps' = mishaps + 1
      BY <1>16, OneWriterHolds DEF Crash, Leave, disk
    <2>2. PICK t : Held \subseteq {t}
      BY OneWriterHolds
    <2>. QED
      BY <2>1, <2>2
  <1>17. ASSUME UNCHANGED vars PROVE Grows /\ Same
    BY <1>17 DEF vars, disk, locals
  <1>18. Grows /\ (Same \/ More)
    <2> HIDE DEF Grows, Same, More
    <2>. QED
      BY <1>1, <1>2, <1>3, <1>4, <1>5, <1>6, <1>7, <1>8, <1>9,
         <1>10, <1>11, <1>12, <1>13, <1>14, <1>15, <1>16, <1>17 DEF Next, Run
  <1>. QED
    BY <1>18
LEMMA LitterStep ==
  ASSUME \A p, q \in Proc : p = q, WriterInv, LitterInv, [Next]_vars
  PROVE  LitterInv'
  <1>1. IsFiniteSet(exists')
    <2>1. exists' = exists \/ \E t \in Tree : exists' \subseteq exists \cup {t}
      BY OneMishapOneTree
    <2>2. ASSUME NEW t, exists' \subseteq exists \cup {t} PROVE IsFiniteSet(exists')
      <3>1. IsFiniteSet(exists \cup {t})
        BY FS_AddElement DEF LitterInv
      <3>. QED
        BY <2>2, <3>1, FS_Subset
    <2>. QED
      BY <2>1, <2>2 DEF LitterInv
  <1>2. IsFiniteSet(Litter) /\ Cardinality(Litter) \in Nat /\ mishaps \in Nat
    <2>1. IsFiniteSet(Litter)
      BY FS_Subset, Litter \in SUBSET exists DEF LitterInv, Litter
    <2>. QED
      BY <2>1, FS_CardinalityType, ViewAssumption DEF WriterInv, TypeOK
  <1>3. ASSUME Litter' \subseteq Litter, mishaps' = mishaps
        PROVE  Cardinality(Litter') <= mishaps'
    <2>1. Cardinality(Litter') <= Cardinality(Litter) /\ IsFiniteSet(Litter')
      BY <1>2, <1>3, FS_Subset
    <2>. QED
      BY <1>2, <1>3, <2>1, FS_CardinalityType DEF LitterInv
  <1>4. ASSUME NEW t, Litter' \subseteq Litter \cup {t}, mishaps' = mishaps + 1
        PROVE  Cardinality(Litter') <= mishaps'
    <2>1. IsFiniteSet(Litter \cup {t}) /\ Cardinality(Litter \cup {t}) <= Cardinality(Litter) + 1
      BY <1>2, FS_AddElement
    <2>2. Cardinality(Litter') <= Cardinality(Litter \cup {t}) /\ IsFiniteSet(Litter')
      BY <1>4, <2>1, FS_Subset
    <2>3. Cardinality(Litter') \in Nat /\ Cardinality(Litter \cup {t}) \in Nat
      BY <2>1, <2>2, FS_CardinalityType
    <2>. QED
      BY <1>2, <1>4, <2>1, <2>2, <2>3 DEF LitterInv
  <1>. QED
    BY <1>1, <1>3, <1>4, OneMishapOneTree DEF LitterInv

(* One writer alone leaves a tree behind only where it is killed or a       *)
(* removal is incomplete, and never more than one each time: what fails     *)
(* cleans up after itself, and what succeeds removes what it replaces       *)
(* (view.py:150-162).                                                       *)
THEOREM OneWriterLittersLittle ==
  ASSUME \A p, q \in Proc : p = q
  PROVE  Spec => []LitterIsBounded
  <1>1. Init => LitterInv
    <2> SUFFICES ASSUME Init PROVE LitterInv
      OBVIOUS
    <2>1. exists = {} /\ Litter = {} /\ mishaps = 0
      BY DEF Init, Litter
    <2>. QED
      BY <2>1, FS_EmptySet DEF LitterInv
  <1>2. LitterInv => LitterIsBounded
    <2> SUFFICES ASSUME LitterInv, \A p \in Proc : At(p, "idle")
                 PROVE  Cardinality(exists \ {view}) <= mishaps
      BY DEF LitterIsBounded
    <2>1. Held = {}
      BY DEF Held, At, Try
    <2>2. Litter = exists \ {view}
      BY <2>1 DEF Litter
    <2>. QED
      BY <2>2 DEF LitterInv
  <1>. QED
    BY <1>1, <1>2, WriterInit, WriterStep, LitterStep, PTL DEF Spec
=============================================================================
