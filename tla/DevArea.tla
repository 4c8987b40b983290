------------------------------ MODULE DevArea ------------------------------
(***************************************************************************)
(* splice.yaml, the one thing a dev area remembers: the base spec it was   *)
(* made for, by hash and source, and the picks.  init, add and rm rewrite  *)
(* it; every command but init and rm looks its base spec up again first.   *)
(***************************************************************************)
EXTENDS Naturals, FiniteSets

CONSTANTS Proc,         \* processes running splice commands in the area
          Root,         \* the concrete specs there are, by hash
          Name,         \* package names
          NamesOf,      \* the names in each concrete spec (graph.names_in)
          MaxEvents     \* bound on changes of the world and on crashes

ASSUME AreaAssumption ==
    /\ Root # {} /\ Root \subseteq DOMAIN NamesOf
    /\ \A h \in Root : NamesOf[h] \subseteq Name
    /\ MaxEvents \in Nat

Source == {"env", "file", "store"}

\* What splice.yaml and a State object hold.  "off" is not in the file: it
\* says that some pick was checked against another spec than the base.
State == [base : Root, source : Source, picks : SUBSET Name, new : SUBSET Name, off : BOOLEAN]

VARIABLES form,         \* splice.yaml: "absent", "empty", "mangled" or "whole"
          saved,        \* what it holds if it is whole
          roots,        \* concrete roots of the environment
          onfile,       \* the spec in the spec file
          installed,    \* the specs in the store
          pc, mem, arg, \* where each process is, its State object, its arguments
          asked,        \* the picks asked for by the commands that succeeded
          overlap,      \* whether two of them ran at once since init was last
                        \* run alone
          events

yaml == <<form, saved>>
world == <<roots, onfile, installed>>
locals == <<pc, mem, arg>>
history == <<asked, overlap>>
vars == <<yaml, world, locals, history, events>>

Arg == [command : {"none", "init", "add", "new", "rm"}, names : SUBSET Name]
NoArg == [command |-> "none", names |-> {}]

TypeOK ==
    /\ form \in {"absent", "empty", "mangled", "whole"} /\ saved \in State
    /\ roots \subseteq Root /\ onfile \in Root /\ installed \subseteq Root
    /\ pc \in [Proc -> {"idle", "rehydrate", "open", "dump"}]
    /\ mem \in [Proc -> State] /\ arg \in [Proc -> Arg]
    /\ asked \subseteq Name /\ overlap \in BOOLEAN /\ events \in 0 .. MaxEvents

Fresh(h, source) == [base |-> h, source |-> source, picks |-> {}, new |-> {}, off |-> FALSE]
Nothing == Fresh(CHOOSE h \in Root : TRUE, "env")

Init ==
    /\ form = "absent" /\ saved = Nothing
    /\ roots \in SUBSET Root /\ onfile \in Root /\ installed \in SUBSET Root
    /\ pc = [p \in Proc |-> "idle"]
    /\ mem = [p \in Proc |-> Nothing] /\ arg = [p \in Proc |-> NoArg]
    /\ asked = {} /\ overlap = FALSE /\ events = 0

\* The one member of S, or none: a lookup that must be unambiguous.
Only(S) == IF Cardinality(S) = 1 THEN S ELSE {}

(* from_environment, from_file and from_store: the query (with --root, if   *)
(* given) matches the specs in wanted.  The empty set is BaseSpecError.     *)
FromEnvironment(wanted) == Only(roots \cap wanted)
FromFile == {onfile}
FromStore(wanted) == Only(installed \cap wanted)

Resolved(source, wanted) ==
    CASE source = "env"   -> FromEnvironment(wanted)
      [] source = "file"  -> FromFile
      [] source = "store" -> FromStore(wanted)

\* base.rehydrate: the recorded hash, else what the source has come to mean.
Rehydrated(s) ==
    CASE s.source = "env"   -> IF s.base \in roots THEN {s.base} ELSE FromEnvironment(Root)
      [] s.source = "file"  -> FromFile
      [] s.source = "store" -> {s.base} \cap installed

Alone(p) == \A q \in Proc \ {p} : pc[q] = "idle"
Goto(p, step) == pc' = [pc EXCEPT ![p] = step]
Begin(p, step, state, command, names) ==
    /\ pc[p] = "idle" /\ Goto(p, step)
    /\ mem' = [mem EXCEPT ![p] = state]
    /\ arg' = [arg EXCEPT ![p] = [command |-> command, names |-> names]]
    /\ overlap' = (overlap \/ ~Alone(p))
    /\ UNCHANGED <<yaml, world, asked, events>>
End(p) ==
    /\ Goto(p, "idle")
    /\ mem' = [mem EXCEPT ![p] = Nothing] /\ arg' = [arg EXCEPT ![p] = NoArg]

\* What SpliceInit would be if it updated the State that is there.
SpliceInitKeeps(p, source, wanted) ==
    \E h \in Resolved(source, wanted) :
        Begin(p, "open", [saved EXCEPT !.base = h, !.source = source], "init", {})

\* splice init: a new State, whatever was there before.
SpliceInit(p, source, wanted) ==
    \E h \in Resolved(source, wanted) : Begin(p, "open", Fresh(h, source), "init", {})

\* splice add: State.load; a file that is not whole raises.
SpliceAdd(p, command, names) ==
    form = "whole" /\ Begin(p, "rehydrate", saved, command, names)

\* What SpliceRm would be for plain picks only.
SpliceRmPlain(p, names) ==
    /\ form = "whole" /\ names \subseteq saved.picks \cup saved.new
    /\ Begin(p, "open", [saved EXCEPT !.picks = @ \ names], "rm", names)

\* splice rm needs no base spec.
SpliceRm(p, names) ==
    /\ form = "whole" /\ names \subseteq saved.picks \cup saved.new
    /\ Begin(p, "open", [saved EXCEPT !.picks = @ \ names, !.new = @ \ names], "rm", names)

\* add goes on if plain picks are in the spec it found, and new ones are not.
Accepts(a, h) ==
    IF a.command = "new" THEN a.names \cap NamesOf[h] = {} ELSE a.names \subseteq NamesOf[h]

\* What Picked would be with append for extend.
PickedAppend(s, a, h) == [s EXCEPT !.picks = @ \cup {a.names}, !.off = @ \/ h # s.base]

Picked(s, a, h) ==
    [s EXCEPT !.picks = IF a.command = "new" THEN @ \ a.names ELSE @ \cup a.names,
              !.new = IF a.command = "new" THEN @ \cup a.names ELSE @ \ a.names,
              !.off = @ \/ h # s.base]

Rehydrate(p) ==
    /\ pc[p] = "rehydrate"
    /\ \/ \E h \in Rehydrated(mem[p]) :
             /\ Accepts(arg[p], h)
             /\ mem' = [mem EXCEPT ![p] = Picked(mem[p], arg[p], h)]
             /\ Goto(p, "open") /\ UNCHANGED arg
       \/ /\ \A h \in Rehydrated(mem[p]) : ~Accepts(arg[p], h)
          /\ End(p)
    /\ UNCHANGED <<yaml, world, history, events>>

\* State.write opens the file, which empties it, and dumps into it.
Open(p) ==
    /\ pc[p] = "open" /\ Goto(p, "dump")
    /\ form' = "empty" /\ saved' = Nothing
    /\ overlap' = (overlap /\ ~(arg[p].command = "init" /\ Alone(p)))
    /\ UNCHANGED <<world, mem, arg, asked, events>>

Asked(a) == CASE a.command = "init" -> {}
              [] a.command \in {"add", "new"} -> asked \cup a.names
              [] a.command = "rm" -> asked \ a.names

\* A dump over another's leaves the end of the other's if that was longer.
\* Then the file cannot be read, or it has some of the other's picks too.
Overlaid(above, picks, new) ==
    [above EXCEPT !.picks = (@ \ new) \cup picks, !.new = (@ \ picks) \cup new]

Dump(p) ==
    /\ pc[p] = "dump"
    /\ asked' = Asked(arg[p])
    /\ End(p)
    /\ \/ form' = "whole" /\ saved' = mem[p]
       \/ /\ form # "empty" /\ saved # mem[p]
          /\ \/ form' = "mangled" /\ saved' = Nothing
             \/ /\ form' = "whole"
                /\ \E picks \in SUBSET saved.picks, new \in SUBSET saved.new :
                      saved' = Overlaid(mem[p], picks, new)
    /\ UNCHANGED <<world, overlap, events>>

\* The process is killed; what it has not flushed is lost.
Crash(p) ==
    /\ pc[p] # "idle" /\ events < MaxEvents
    /\ events' = events + 1
    /\ End(p)
    /\ UNCHANGED <<yaml, world, history>>

\* The environment is re-concretized, the file replaced, a spec (un)installed.
WorldChanges ==
    /\ events < MaxEvents /\ events' = events + 1
    /\ \/ roots' \in SUBSET Root /\ UNCHANGED <<onfile, installed>>
       \/ onfile' \in Root /\ UNCHANGED <<roots, installed>>
       \/ installed' \in SUBSET Root /\ UNCHANGED <<roots, onfile>>
    /\ UNCHANGED <<yaml, locals, history>>

Next ==
    \/ \E p \in Proc :
          \/ \E source \in Source, wanted \in SUBSET Root : SpliceInit(p, source, wanted)
          \/ \E names \in (SUBSET Name) \ {{}} :
                SpliceAdd(p, "add", names) \/ SpliceAdd(p, "new", names) \/ SpliceRm(p, names)
          \/ Rehydrate(p) \/ Open(p) \/ Dump(p) \/ Crash(p)
    \/ WorldChanges

Spec == Init /\ [][Next]_vars
-----------------------------------------------------------------------------
(* The picks in the file were checked against the base it names: plain ones *)
(* are in it and new ones are not, unless add went on after the warning     *)
(* that the base has been re-concretized.  It takes two commands at once to *)
(* bring in others (cmd/splice.py:104-182, base.py:217-254).                *)
PicksFitBase ==
    (form = "whole" /\ ~overlap /\ ~saved.off) =>
        /\ saved.picks \subseteq NamesOf[saved.base]
        /\ saved.new \cap NamesOf[saved.base] = {}

(* The file records what the user chose (state.py:3-5), and no more: the    *)
(* picks of the commands that succeeded since init, whatever failed or was  *)
(* killed in between, as long as no two commands ran at once.               *)
RecordsChoices == (form = "whole" /\ ~overlap) => saved.picks \cup saved.new = asked

(* claude_readme.md:129: if the environment is re-concretized underneath    *)
(* the dev area, every later command warns; none asks for --root.           *)
WarnsWhenMoved ==
    \A p \in Proc : (pc[p] = "rehydrate" /\ mem[p].source = "env" /\ roots # {}) =>
        Rehydrated(mem[p]) # {}
=============================================================================
