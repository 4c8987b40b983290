------------------------------ MODULE DevView ------------------------------
(***************************************************************************)
(* view.regenerate: the dev_view is a symlink to a tree that was built     *)
(* aside, and a regeneration swaps the symlink.  One step per system call  *)
(* that another process, a reader or a crash can tell apart.               *)
(***************************************************************************)
EXTENDS Naturals, FiniteSets

CONSTANTS Proc,         \* processes running "spack splice view"
          Tree,         \* names mkdtemp can give
          Content,      \* what a view can hold: the _content_hash of its specs
          Conflicting,  \* contents with file conflicts
          NoTree, NoContent,
          MaxMishaps    \* bound on crashes and incomplete removals

ASSUME ViewAssumption ==
    /\ NoTree \notin Tree /\ NoContent \notin Content
    /\ Conflicting \subseteq Content
    /\ MaxMishaps \in Nat

VARIABLES exists,       \* the trees on disk
          whole,        \* those that hold all their links
          marker,       \* content of each tree's MARKER file
          view,         \* the tree <dev>/view links to, or NoTree
          realdir,      \* whether <dev>/view is a directory: "no", "empty", "full"
          tmplink,      \* the tree <dev>/._view_link links to, or NoTree
          pc, staging, want, strict, previous,  \* locals of regenerate
          mishaps

disk == <<exists, whole, marker, view, realdir, tmplink>>
locals == <<pc, staging, want, strict, previous>>
vars == <<disk, locals, mishaps>>

\* The steps inside regenerate's try block, in program order.
Try == {"build", "rebuild", "mark", "read", "look", "unlink", "link", "rmdir", "rename"}
Step == Try \cup {"idle", "mkdtemp", "drop", "clean", "untmp"}

TypeOK ==
    /\ exists \subseteq Tree /\ whole \subseteq Tree
    /\ marker \in [Tree -> Content \cup {NoContent}]
    /\ view \in Tree \cup {NoTree} /\ tmplink \in Tree \cup {NoTree}
    /\ realdir \in {"no", "empty", "full"}
    /\ pc \in [Proc -> Step]
    /\ staging \in [Proc -> Tree \cup {NoTree}]
    /\ \A p \in Proc : pc[p] \in Try => staging[p] \in Tree
    /\ want \in [Proc -> Content \cup {NoContent}]
    /\ strict \in [Proc -> BOOLEAN]
    /\ previous \in [Proc -> Tree \cup {NoTree}]
    /\ mishaps \in 0 .. MaxMishaps

\* A dev area without a view; something may be in the way of one.
Init ==
    /\ exists = {} /\ whole = {} /\ marker = [t \in Tree |-> NoContent]
    /\ view = NoTree /\ tmplink = NoTree
    /\ realdir \in {"no", "empty", "full"}
    /\ pc = [p \in Proc |-> "idle"]
    /\ staging = [p \in Proc |-> NoTree]
    /\ want = [p \in Proc |-> NoContent]
    /\ strict = [p \in Proc |-> FALSE]
    /\ previous = [p \in Proc |-> NoTree]
    /\ mishaps = 0

At(p, step) == pc[p] = step
Goto(p, step) == pc' = [pc EXCEPT ![p] = step]

\* The call is over, and its locals are gone.
Leave(p) ==
    /\ Goto(p, "idle")
    /\ staging' = [staging EXCEPT ![p] = NoTree]
    /\ want' = [want EXCEPT ![p] = NoContent]
    /\ strict' = [strict EXCEPT ![p] = FALSE]
    /\ previous' = [previous EXCEPT ![p] = NoTree]

(* _installed_hash: the marker seen through the link.                       *)
InstalledHash == IF view \in exists THEN marker[view] ELSE NoContent

\* A call for content c returns at once if the view holds it, unless strict.
Call(p, c, s) ==
    /\ At(p, "idle")
    /\ s \/ InstalledHash # c
    /\ want' = [want EXCEPT ![p] = c]
    /\ strict' = [strict EXCEPT ![p] = s]
    /\ Goto(p, "mkdtemp")
    /\ UNCHANGED <<disk, staging, previous, mishaps>>

\* What Mkdtemp would be if the tree behind the view were built in place.
BuildInPlace(p) ==
    /\ At(p, "mkdtemp")
    /\ \E t \in IF view \in exists THEN {view} ELSE Tree \ exists :
          /\ exists' = exists \cup {t}
          /\ staging' = [staging EXCEPT ![p] = t]
    /\ Goto(p, "build")
    /\ UNCHANGED <<whole, marker, view, realdir, tmplink, want, strict, previous, mishaps>>

Mkdtemp(p) ==
    /\ At(p, "mkdtemp")
    /\ \E t \in Tree \ exists :
          /\ exists' = exists \cup {t}
          /\ staging' = [staging EXCEPT ![p] = t]
    /\ Goto(p, "build")
    /\ UNCHANGED <<whole, marker, view, realdir, tmplink, want, strict, previous, mishaps>>

\* build(ignore_conflicts=False) links everything, or stops before linking
\* anything if two packages provide the same file.
Build(p) ==
    /\ At(p, "build")
    /\ IF want[p] \in Conflicting
       THEN Goto(p, IF strict[p] THEN "clean" ELSE "rebuild") /\ whole' = whole
       ELSE Goto(p, "mark") /\ whole' = whole \cup {staging[p]}
    /\ UNCHANGED <<exists, marker, view, realdir, tmplink, staging, want, strict, previous, mishaps>>

\* The staging directory is made afresh and build(ignore_conflicts=True) run.
Rebuild(p) ==
    /\ At(p, "rebuild")
    /\ whole' = whole \cup {staging[p]}
    /\ Goto(p, "mark")
    /\ UNCHANGED <<exists, marker, view, realdir, tmplink, staging, want, strict, previous, mishaps>>

\* What it would be with the tree's path written for the hash.
WriteMarkerPath(p) ==
    /\ At(p, "mark")
    /\ marker' = [marker EXCEPT ![staging[p]] = staging[p]]
    /\ Goto(p, "read")
    /\ UNCHANGED <<exists, whole, view, realdir, tmplink, staging, want, strict, previous, mishaps>>

WriteMarker(p) ==
    /\ At(p, "mark")
    /\ marker' = [marker EXCEPT ![staging[p]] = want[p]]
    /\ Goto(p, "read")
    /\ UNCHANGED <<exists, whole, view, realdir, tmplink, staging, want, strict, previous, mishaps>>

\* previous = realpath(view_root) if it is a link.
ReadPrevious(p) ==
    /\ At(p, "read")
    /\ previous' = [previous EXCEPT ![p] = view]
    /\ Goto(p, "look")
    /\ UNCHANGED <<disk, staging, want, strict, mishaps>>

\* What LookForTmp would be if a link that is there were used.
LookAndReuse(p) ==
    /\ At(p, "look")
    /\ Goto(p, IF tmplink = NoTree THEN "link" ELSE "rmdir")
    /\ UNCHANGED <<disk, staging, want, strict, previous, mishaps>>

\* lexists(tmp_link), then unlink it; somebody else may have been faster.
LookForTmp(p) ==
    /\ At(p, "look")
    /\ Goto(p, IF tmplink = NoTree THEN "link" ELSE "unlink")
    /\ UNCHANGED <<disk, staging, want, strict, previous, mishaps>>

UnlinkTmp(p) ==
    /\ At(p, "unlink")
    /\ tmplink' = NoTree
    /\ Goto(p, IF tmplink = NoTree THEN "clean" ELSE "link")
    /\ UNCHANGED <<exists, whole, marker, view, realdir, staging, want, strict, previous, mishaps>>

SymlinkTmp(p) ==
    /\ At(p, "link")
    /\ IF tmplink = NoTree
       THEN tmplink' = staging[p] /\ Goto(p, "rmdir")
       ELSE tmplink' = tmplink /\ Goto(p, "clean")
    /\ UNCHANGED <<exists, whole, marker, view, realdir, staging, want, strict, previous, mishaps>>

\* A real directory in the way goes if it is empty and is an error if it is not.
RmdirView(p) ==
    /\ At(p, "rmdir")
    /\ realdir' = IF realdir = "empty" THEN "no" ELSE realdir
    /\ Goto(p, IF realdir = "full" THEN "clean" ELSE "rename")
    /\ UNCHANGED <<exists, whole, marker, view, tmplink, staging, want, strict, previous, mishaps>>

\* The swap: whatever tmp_link points at now becomes the view.
Rename(p) ==
    /\ At(p, "rename")
    /\ IF tmplink = NoTree
       THEN Goto(p, "clean") /\ UNCHANGED <<view, tmplink>>
       ELSE view' = tmplink /\ tmplink' = NoTree /\ Goto(p, "drop")
    /\ UNCHANGED <<exists, whole, marker, realdir, staging, want, strict, previous, mishaps>>

(* rmtree(t, ignore_errors=True): the tree goes, or part of it stays, with  *)
(* or without its marker.                                                   *)
RemoveTree(t) ==
    \/ /\ exists' = exists \ {t} /\ whole' = whole \ {t}
       /\ marker' = [marker EXCEPT ![t] = NoContent]
       /\ UNCHANGED mishaps
    \/ /\ t \in exists /\ mishaps < MaxMishaps
       /\ mishaps' = mishaps + 1
       /\ whole' = whole \ {t}
       /\ marker' \in {marker, [marker EXCEPT ![t] = NoContent]}
       /\ UNCHANGED exists

\* What DropPrevious would be if realpath(view_root) were read after the swap.
DropCurrent(p) ==
    /\ At(p, "drop")
    /\ RemoveTree(view)
    /\ Leave(p)
    /\ UNCHANGED <<view, realdir, tmplink>>

\* The tree that was replaced is dropped, and regenerate returns.
DropPrevious(p) ==
    /\ At(p, "drop")
    /\ IF previous[p] \notin {NoTree, staging[p]}
       THEN RemoveTree(previous[p])
       ELSE UNCHANGED <<exists, whole, marker, mishaps>>
    /\ Leave(p)
    /\ UNCHANGED <<view, realdir, tmplink>>

\* What CleanStaging would be without rmtree.
KeepStaging(p) ==
    /\ At(p, "clean")
    /\ Goto(p, "untmp")
    /\ UNCHANGED <<disk, staging, want, strict, previous, mishaps>>

\* The handler: rmtree(staging), then tmp_link goes if there is one, whosever.
CleanStaging(p) ==
    /\ At(p, "clean")
    /\ RemoveTree(staging[p])
    /\ Goto(p, "untmp")
    /\ UNCHANGED <<view, realdir, tmplink, staging, want, strict, previous>>

CleanTmp(p) ==
    /\ At(p, "untmp")
    /\ tmplink' = NoTree
    /\ Leave(p)
    /\ UNCHANGED <<exists, whole, marker, view, realdir, mishaps>>

\* Any system call of the try block may fail: the disk is full, say.
Raise(p) ==
    /\ pc[p] \in Try
    /\ Goto(p, "clean")
    /\ UNCHANGED <<disk, staging, want, strict, previous, mishaps>>

\* The process is killed or interrupted: "except Exception" does not run.
Crash(p) ==
    /\ ~At(p, "idle") /\ mishaps < MaxMishaps
    /\ mishaps' = mishaps + 1
    /\ Leave(p)
    /\ UNCHANGED disk

Run(p) ==
    \/ Mkdtemp(p) \/ Build(p) \/ Rebuild(p) \/ WriteMarker(p) \/ ReadPrevious(p)
    \/ LookForTmp(p) \/ UnlinkTmp(p) \/ SymlinkTmp(p) \/ RmdirView(p) \/ Rename(p)
    \/ DropPrevious(p) \/ CleanStaging(p) \/ CleanTmp(p)

Next == \E p \in Proc :
    \/ \E c \in Content, s \in BOOLEAN : Call(p, c, s)
    \/ Run(p) \/ Raise(p) \/ Crash(p)

Spec == Init /\ [][Next]_vars
-----------------------------------------------------------------------------
Served == IF view = NoTree THEN NoContent ELSE marker[view]

(* Whoever follows the link finds a complete tree, whatever failed or was   *)
(* killed and when (view.py:6-10).                                          *)
ViewIsWhole == view # NoTree => view \in whole /\ marker[view] \in Content

(* A call that returns has left the view holding what it was asked for, and *)
(* no other call can: the view never changes to anything but a content its  *)
(* caller wants, and never goes away (view.py:84-165).                      *)
SwapsOnlyToWanted ==
    [][view' # view => \E p \in Proc : /\ At(p, "rename") /\ pc'[p] = "drop"
                                      /\ view' \in whole /\ marker[view'] = want[p]]_vars

(* What view.py:9-10 says: a regeneration that fails leaves the view as it  *)
(* is.  It holds of one process, and of two it does not.                     *)
FailureLeavesView ==
    [][\A p \in Proc : (At(p, "clean") /\ pc'[p] = "untmp") =>
            view' = view /\ (view \in exists => view \in exists')]_vars

(* Every interruption leaves at most one tree behind: with no call running,  *)
(* there are no more trees than the view's and one per crash or incomplete  *)
(* removal (view.py:153-162).                                               *)
LitterIsBounded ==
    (\A p \in Proc : At(p, "idle")) => Cardinality(exists \ {view}) <= mishaps
=============================================================================
