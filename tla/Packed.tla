------------------------------- MODULE Packed -------------------------------
(***************************************************************************)
(* What splice pack leaves to the target machine: tarballs unpacked and    *)
(* moved, a Spack store that may not be mounted, and a shell in which the  *)
(* generated setup.sh, run.sh and modulefile are used one after another.   *)
(* The search path of a tarball is what runtime.modifications resolves to  *)
(* on an empty environment: prefixes of the dev area and of the store.     *)
(***************************************************************************)
EXTENDS Naturals, Sequences, FiniteSets, SequencesExt

CONSTANTS Tarball,
          Resolved,     \* the search path in each: a sequence of <<origin, prefix>>
          Place,        \* directories to unpack into
          Elsewhere, None,
          MaxUses       \* bound on uses of the scripts

Origin == {"area", "store"}

ASSUME PackedAssumption ==
    /\ Elsewhere \notin Place /\ None \notin Place \cup Tarball \cup {Elsewhere}
    /\ \A t \in Tarball : Resolved[t] \in Seq(Origin \X STRING)
    /\ MaxUses \in Nat

VARIABLES unpacked,     \* the tarball in each place
          mounted,      \* the store is there
          shell,        \* constant: "bash" or "dash"
          storeInArea,  \* constant: the dev area's path is a leading part of the store's
          root,         \* $SPLICE_ROOT
          search,       \* the search path
          uses,
          last          \* the last use of a script

target == <<unpacked, mounted, shell, storeInArea>>
targetvars == <<target, root, search, uses, last>>

Dir == Place \cup {Elsewhere}
Users == <<"user", "bin">>      \* what the user has on the path
Prefix == (Dir \cup Origin) \X STRING \cup {Users}

TargetTypeOK ==
    /\ unpacked \in [Place -> Tarball \cup {None}] /\ mounted \in BOOLEAN
    /\ shell \in {"bash", "dash"} /\ storeInArea \in BOOLEAN /\ root \in Dir \cup {None}
    /\ search \in Seq(Prefix) /\ uses \in 0 .. MaxUses
    /\ last # None => /\ last.by \in {"setup", "run", "module"} /\ last.at \in Place
                      /\ last.ok \in BOOLEAN /\ last.path \in Seq(Prefix)
                      /\ last.by = "setup" => root \in Dir

TargetInit ==
    /\ unpacked = [l \in Place |-> None] /\ mounted \in BOOLEAN
    /\ shell \in {"bash", "dash"} /\ storeInArea \in BOOLEAN /\ root = None
    /\ search = <<Users>>
    /\ uses = 0 /\ last = None

\* replace(dev_area, "${SPLICE_ROOT}"), and entry.startswith(dev_area): by text.
Names(e) == e[1] = "area" \/ (e[1] = "store" /\ storeInArea)
Moved(e, r) == IF Names(e) THEN <<r, e[2]>> ELSE e
Export(t, r) == [i \in DOMAIN Resolved[t] |-> Moved(Resolved[t][i], r)]

\* export VAR="...${VAR:+:$VAR}"
Extended(front, old) == front \o old

Used(by, l, ok, was, result) ==
    /\ uses < MaxUses /\ uses' = uses + 1
    /\ last' = [by |-> by, at |-> l, ok |-> ok, was |-> was, path |-> result]
    /\ UNCHANGED target

\* What Discovered would be without $0.
DiscoveredInBash(l, cwd) == IF root = None /\ shell = "bash" THEN l ELSE root

\* A root that is set is kept; else it is the directory of the script in bash,
\* and of $0, which is the shell's, in dash.
Discovered(l, cwd) == IF root # None THEN root ELSE IF shell = "bash" THEN l ELSE cwd

HasInstall(r) == r \in Place /\ unpacked[r] # None
Ready(r) == HasInstall(r) /\ mounted

\* . <l>/setup.sh: the root is exported before anything is checked.
SourceSetup(l, cwd) ==
    LET r == Discovered(l, cwd) IN
    /\ HasInstall(l)
    /\ root' = r
    /\ IF Ready(r)
       THEN search' = Extended(Export(unpacked[l], r), search)
       ELSE UNCHANGED search
    /\ Used("setup", l, Ready(r), root, search')

\* What RunRoot would be if it honoured a root that is set.
RunRootKept(l) == IF root # None THEN root ELSE l
\* run.sh is executed, and knows its place.
RunRoot(l) == l

\* <l>/run.sh command: the command's environment is a child's.
Run(l) ==
    LET r == RunRoot(l) IN
    /\ HasInstall(l)
    /\ UNCHANGED <<root, search>>
    /\ Used("run", l, Ready(r), root,
            IF Ready(r) THEN Extended(Export(unpacked[l], r), search) ELSE search)

\* prepend-path, one line after another: what the last one says is in front.
PrependedEach(lines, old) == Reverse(lines) \o old
\* The entries are emitted from the last to the first.
Pushed(front, old) == PrependedEach(Reverse(front), old)

\* module load <l>/modulefile: a missing store is only reported.
ModuleLoad(l) ==
    /\ HasInstall(l)
    /\ search' = Pushed(Export(unpacked[l], l), search)
    /\ UNCHANGED root
    /\ Used("module", l, TRUE, root, search')

Meanwhile == last' = None /\ UNCHANGED <<shell, storeInArea, root, search, uses>>
Unpack(t, l) ==
    /\ unpacked[l] = None /\ unpacked' = [unpacked EXCEPT ![l] = t]
    /\ UNCHANGED mounted /\ Meanwhile
Move(l, m) ==
    /\ unpacked[l] # None /\ unpacked[m] = None
    /\ unpacked' = [unpacked EXCEPT ![l] = None, ![m] = unpacked[l]]
    /\ UNCHANGED mounted /\ Meanwhile
Mount == mounted' = ~mounted /\ UNCHANGED unpacked /\ Meanwhile

TargetNext ==
    \/ \E l \in Place, cwd \in Dir : SourceSetup(l, cwd)
    \/ \E l \in Place : Run(l) \/ ModuleLoad(l)
    \/ \E t \in Tarball, l \in Place : Unpack(t, l)
    \/ \E l, m \in Place : Move(l, m)
    \/ Mount

TargetSpec == TargetInit /\ [][TargetNext]_targetvars
-----------------------------------------------------------------------------
Own == Export(unpacked[last.at], last.at)

(* A script that does not refuse puts the prefixes of its own tarball, in   *)
(* order, in front of everything else, wherever the tarball was unpacked or *)
(* moved to and whatever was used before: run.sh and the modulefile in any  *)
(* shell, whatever SPLICE_ROOT an earlier setup.sh left there; setup.sh in  *)
(* a bash in which nothing had set it, and wherever it is tried again where *)
(* an earlier use had found it (pack.py:98-116, 126-131, 155-156).          *)
UsesItsOwn ==
    (/\ last # None /\ last.ok
     /\ last.by = "setup" => (last.was = None /\ shell = "bash") \/ last.was = last.at)
        => IsPrefix(Own, last.path)
=============================================================================
