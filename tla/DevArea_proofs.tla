--------------------------- MODULE DevArea_proofs ---------------------------
(***************************************************************************)
(* Whatever happens to the base spec's source and to the processes, the    *)
(* picks in splice.yaml fit the base it names and are the ones the user    *)
(* asked for, unless two commands ran at once: a command alone in the area *)
(* has emptied the file before it fills it.                                *)
(***************************************************************************)
EXTENDS DevArea, TLAPS

Fits(s) == ~s.off => /\ s.picks \subseteq NamesOf[s.base]
                     /\ s.new \cap NamesOf[s.base] = {}
Chosen(s) == s.picks \cup s.new

(* Whoever is idle has no State, whoever is not runs a command, and init's  *)
(* State is fresh.                                                          *)
Local == \A p \in Proc :
    /\ pc[p] = "idle" => mem[p] = Nothing /\ arg[p] = NoArg
    /\ pc[p] # "idle" => arg[p].command \in {"init", "add", "new", "rm"}
    /\ pc[p] = "rehydrate" => arg[p].command \in {"add", "new"}
    /\ arg[p].command = "init" => Fits(mem[p]) /\ Chosen(mem[p]) = {}

(* Without overlap, there is one command at a time, it is about to fill an  *)
(* empty file, and every State fits its base and has the picks it must.     *)
OneAtATime ==
    \A p, q \in Proc : (pc[p] # "idle" /\ pc[q] # "idle") => p = q
Emptied == \A p \in Proc : pc[p] = "dump" => form = "empty"
AllFit == Fits(saved) /\ \A p \in Proc : Fits(mem[p])
AllChosen ==
    /\ form = "whole" => Chosen(saved) = asked
    /\ \A p \in Proc :
          /\ pc[p] = "rehydrate" => Chosen(mem[p]) = asked
          /\ pc[p] \in {"open", "dump"} => Chosen(mem[p]) = Asked(arg[p])
Serial == OneAtATime /\ Emptied /\ AllFit /\ AllChosen

AreaInv == TypeOK /\ Local /\ (~overlap => Serial)

LEMMA FreshFits ==
  ASSUME NEW h \in Root, NEW source \in Source
  PROVE  /\ Fresh(h, source) \in State /\ Fits(Fresh(h, source))
         /\ Chosen(Fresh(h, source)) = {}
  BY DEF Fresh, State, Fits, Chosen

LEMMA NothingFits == Nothing \in State /\ Fits(Nothing) /\ Chosen(Nothing) = {}
  <1>1. PICK h \in Root : h = CHOOSE g \in Root : TRUE
    BY AreaAssumption
  <1>. QED
    BY <1>1, FreshFits DEF Nothing, Source

LEMMA ResolvedIsRoot ==
  ASSUME TypeOK, NEW source \in Source, NEW wanted \in SUBSET Root
  PROVE  Resolved(source, wanted) \subseteq Root
  BY DEF TypeOK, Resolved, FromEnvironment, FromFile, FromStore, Only, Source

LEMMA PickedFits ==
  ASSUME NEW s \in State, NEW a \in Arg, NEW h, Fits(s), Accepts(a, h)
  PROVE  /\ Picked(s, a, h) \in State /\ Fits(Picked(s, a, h))
         /\ Chosen(Picked(s, a, h)) = Chosen(s) \cup a.names
  <1> DEFINE t == Picked(s, a, h)
  <1>1. t \in State
    BY DEF Picked, State, Arg
  <1>2. t.base = s.base /\ (~t.off => ~s.off /\ h = s.base)
    BY DEF Picked, State
  <1>3. CASE a.command = "new"
    <2>1. t.picks = s.picks \ a.names /\ t.new = s.new \cup a.names
      BY <1>3 DEF Picked, State
    <2>. QED
      BY <1>1, <1>2, <1>3, <2>1 DEF Fits, Chosen, Accepts
  <1>4. CASE a.command # "new"
    <2>1. t.picks = s.picks \cup a.names /\ t.new = s.new \ a.names
      BY <1>4 DEF Picked, State
    <2>. QED
      BY <1>1, <1>2, <1>4, <2>1 DEF Fits, Chosen, Accepts
  <1>. QED
    BY <1>3, <1>4

LEMMA AreaInit == Init => AreaInv
  <1> SUFFICES ASSUME Init PROVE AreaInv
    OBVIOUS
  <1>1. TypeOK
    <2>1. mem \in [Proc -> State] /\ arg \in [Proc -> Arg]
      BY NothingFits DEF Init, NoArg, Arg
    <2>2. events \in 0 .. MaxEvents
      BY AreaAssumption DEF Init
    <2>3. saved \in State /\ pc \in [Proc -> {"idle", "rehydrate", "open", "dump"}]
      BY NothingFits DEF Init
    <2>4. /\ roots \subseteq Root /\ onfile \in Root /\ installed \subseteq Root
          /\ asked \subseteq Name /\ overlap \in BOOLEAN
      BY Zenon DEF Init
    <2>. QED
      BY <2>1, <2>2, <2>3, <2>4, Zenon DEF Init, TypeOK
  <1>2. Local
    BY NothingFits DEF Init, Local, NoArg
  <1>3. Serial
    BY NothingFits DEF Init, Serial, OneAtATime, Emptied, AllFit, AllChosen
  <1>. QED
    BY <1>1, <1>2, <1>3 DEF AreaInv

(* What a command begins with, given what it has read.                     *)
LEMMA AreaBegin ==
  ASSUME AreaInv, NEW p \in Proc, NEW step \in {"rehydrate", "open"},
         NEW s \in State, NEW command \in {"init", "add", "new", "rm"},
         NEW names \in SUBSET Name, Begin(p, step, s, command, names),
         step = "rehydrate" => command \in {"add", "new"},
         command = "init" => Fits(s) /\ Chosen(s) = {},
         ~overlap => Fits(s),
         ~overlap /\ step = "rehydrate" => Chosen(s) = asked,
         ~overlap /\ step = "open" =>
            Chosen(s) = Asked([command |-> command, names |-> names])
  PROVE  AreaInv'
  <1> DEFINE a == [command |-> command, names |-> names]
  <1>1. /\ pc' = [pc EXCEPT ![p] = step] /\ mem' = [mem EXCEPT ![p] = s]
        /\ arg' = [arg EXCEPT ![p] = a] /\ a \in Arg
        /\ UNCHANGED <<form, saved, roots, onfile, installed, asked, events>>
    BY DEF Begin, Goto, Arg, yaml, world
  <1>2. overlap' \in BOOLEAN /\ (~overlap' => ~overlap /\ Alone(p))
    BY DEF Begin, AreaInv, TypeOK
  <1>3. TypeOK'
    BY <1>1, <1>2 DEF AreaInv, TypeOK
  <1>4. Local'
    BY <1>1 DEF AreaInv, TypeOK, Local
  <1>5. ASSUME ~overlap' PROVE Serial'
    <2>1. \A q \in Proc : q # p => pc'[q] = "idle"
      BY <1>1, <1>2, <1>5 DEF AreaInv, TypeOK, Alone
    <2>2. pc'[p] = step /\ mem'[p] = s /\ arg'[p] = a
      BY <1>1 DEF AreaInv, TypeOK
    <2>3. OneAtATime' /\ Emptied'
      BY <2>1, <2>2 DEF OneAtATime, Emptied
    <2>4. AllFit'
      BY <1>1, <1>2, <1>5 DEF AreaInv, TypeOK, Serial, AllFit
    <2>5. AllChosen'
      <3>1. (form = "whole" => Chosen(saved) = asked)'
        BY <1>1, <1>2, <1>5 DEF AreaInv, Serial, AllChosen
      <3>2. Asked(a)' = Asked(a)
        BY <1>1 DEF Asked
      <3>. QED
        BY <1>1, <1>2, <1>5, <2>1, <2>2, <3>1, <3>2 DEF AllChosen, Asked
    <2>. QED
      BY <2>3, <2>4, <2>5 DEF Serial
  <1>. QED
    BY <1>3, <1>4, <1>5 DEF AreaInv

(* A command that ends without writing, for whatever reason.               *)
LEMMA AreaEnd ==
  ASSUME AreaInv, NEW p \in Proc, End(p), events' \in 0 .. MaxEvents,
         UNCHANGED <<yaml, world, history>>
  PROVE  AreaInv'
  <1>1. /\ pc' = [pc EXCEPT ![p] = "idle"] /\ mem' = [mem EXCEPT ![p] = Nothing]
        /\ arg' = [arg EXCEPT ![p] = NoArg] /\ NoArg \in Arg
        /\ UNCHANGED <<form, saved, roots, onfile, installed, asked, overlap>>
    BY DEF End, Goto, NoArg, Arg, yaml, world, history
  <1>2. TypeOK'
    BY <1>1, NothingFits DEF AreaInv, TypeOK
  <1>3. Local'
    BY <1>1, NothingFits DEF AreaInv, TypeOK, Local, NoArg
  <1>4. ASSUME ~overlap' PROVE Serial'
    <2>1. OneAtATime' /\ Emptied'
      BY <1>1, <1>4 DEF AreaInv, TypeOK, Serial, OneAtATime, Emptied
    <2>2. AllFit'
      BY <1>1, <1>4, NothingFits DEF AreaInv, TypeOK, Serial, AllFit
    <2>3. AllChosen'
      BY <1>1, <1>4 DEF AreaInv, TypeOK, Serial, AllChosen, Asked
    <2>. QED
      BY <2>1, <2>2, <2>3 DEF Serial
  <1>. QED
    BY <1>2, <1>3, <1>4 DEF AreaInv

(* add found a base spec and accepted its arguments.                       *)
LEMMA AreaPicked ==
  ASSUME AreaInv, NEW p \in Proc, pc[p] = "rehydrate", NEW h,
         Accepts(arg[p], h), mem' = [mem EXCEPT ![p] = Picked(mem[p], arg[p], h)],
         Goto(p, "open"), UNCHANGED <<yaml, world, arg, history, events>>
  PROVE  AreaInv'
  <1> DEFINE s == Picked(mem[p], arg[p], h)
  <1>1. /\ pc' = [pc EXCEPT ![p] = "open"]
        /\ UNCHANGED <<form, saved, roots, onfile, installed, asked, overlap>>
    BY DEF Goto, yaml, world, history
  <1>2. mem[p] \in State /\ arg[p] \in Arg /\ arg[p].command \in {"add", "new"}
    BY DEF AreaInv, TypeOK, Local
  <1>3. s \in State
    BY <1>2 DEF Picked, State, Arg
  <1>4. TypeOK'
    BY <1>1, <1>3 DEF AreaInv, TypeOK
  <1>5. Local'
    BY <1>1, <1>2 DEF AreaInv, TypeOK, Local
  <1>6. ASSUME ~overlap' PROVE Serial'
    <2>1. Fits(s) /\ Chosen(s) = Asked(arg[p])
      <3>1. Fits(mem[p]) /\ Chosen(mem[p]) = asked
        BY <1>1, <1>6 DEF AreaInv, Serial, AllFit, AllChosen
      <3>2. Fits(s) /\ Chosen(s) = asked \cup arg[p].names
        BY <1>2, <3>1, PickedFits
      <3>3. Asked(arg[p]) = asked \cup arg[p].names
        BY <1>2 DEF Asked
      <3>. QED
        BY <3>2, <3>3
    <2>2. OneAtATime' /\ Emptied'
      BY <1>1, <1>6 DEF AreaInv, TypeOK, Serial, OneAtATime, Emptied
    <2>3. AllFit'
      BY <1>1, <1>6, <2>1 DEF AreaInv, TypeOK, Serial, AllFit
    <2>4. AllChosen'
      BY <1>1, <1>6, <2>1 DEF AreaInv, TypeOK, Serial, AllChosen, Asked
    <2>. QED
      BY <2>2, <2>3, <2>4 DEF Serial
  <1>. QED
    BY <1>4, <1>5, <1>6 DEF AreaInv

LEMMA AreaOpen ==
  ASSUME AreaInv, NEW p \in Proc, Open(p)
  PROVE  AreaInv'
  <1>1. /\ pc[p] = "open" /\ pc' = [pc EXCEPT ![p] = "dump"]
        /\ form' = "empty" /\ saved' = Nothing
        /\ UNCHANGED <<roots, onfile, installed, mem, arg, asked, events>>
    BY DEF Open, Goto, world
  <1>2. overlap' \in BOOLEAN /\ (~overlap' => ~overlap \/ (arg[p].command = "init" /\ Alone(p)))
    BY DEF Open, AreaInv, TypeOK
  <1>3. TypeOK'
    BY <1>1, <1>2, NothingFits DEF AreaInv, TypeOK
  <1>4. Local'
    BY <1>1 DEF AreaInv, TypeOK, Local
  <1>5. CASE ~overlap
    <2>1. OneAtATime' /\ Emptied'
      BY <1>1, <1>5 DEF AreaInv, TypeOK, Serial, OneAtATime, Emptied
    <2>2. AllFit'
      BY <1>1, <1>5, NothingFits DEF AreaInv, Serial, AllFit
    <2>3. AllChosen'
      BY <1>1, <1>5 DEF AreaInv, TypeOK, Serial, AllChosen, Asked
    <2>. QED
      BY <1>3, <1>4, <2>1, <2>2, <2>3 DEF AreaInv, Serial
  <1>6. CASE arg[p].command = "init" /\ Alone(p)
    <2>1. \A q \in Proc : q # p => pc[q] = "idle" /\ pc'[q] = "idle" /\ mem'[q] = Nothing
      BY <1>1, <1>6 DEF AreaInv, TypeOK, Alone, Local
    <2>2. Fits(mem[p]) /\ Chosen(mem[p]) = {} /\ Asked(arg[p])' = {} /\ pc'[p] = "dump"
      BY <1>1, <1>6 DEF AreaInv, TypeOK, Local, Asked
    <2>3. OneAtATime' /\ Emptied'
      BY <1>1, <2>1 DEF OneAtATime, Emptied
    <2>4. AllFit'
      BY <1>1, <2>1, <2>2, NothingFits DEF AllFit
    <2>5. AllChosen'
      BY <1>1, <2>1, <2>2 DEF AllChosen
    <2>. QED
      BY <1>3, <1>4, <2>3, <2>4, <2>5 DEF AreaInv, Serial
  <1>. QED
    BY <1>2, <1>3, <1>4, <1>5, <1>6 DEF AreaInv

LEMMA OverlaidIsState ==
  ASSUME NEW s \in State, NEW picks \in SUBSET Name, NEW new \in SUBSET Name
  PROVE  Overlaid(s, picks, new) \in State
  BY DEF Overlaid, State

LEMMA AreaDump ==
  ASSUME AreaInv, NEW p \in Proc, Dump(p)
  PROVE  AreaInv'
  <1>1. /\ pc[p] = "dump" /\ pc' = [pc EXCEPT ![p] = "idle"]
        /\ mem' = [mem EXCEPT ![p] = Nothing] /\ arg' = [arg EXCEPT ![p] = NoArg]
        /\ NoArg \in Arg /\ asked' = Asked(arg[p])
        /\ UNCHANGED <<roots, onfile, installed, overlap, events>>
    BY DEF Dump, End, Goto, NoArg, Arg, world
  <1>2. Asked(arg[p]) \subseteq Name
    BY <1>1 DEF Asked, AreaInv, TypeOK, Local, Arg
  <1>3. /\ form' \in {"mangled", "whole"} /\ saved' \in State
        /\ form = "empty" => form' = "whole" /\ saved' = mem[p]
    <2>1. mem[p] \in State /\ saved.picks \subseteq Name /\ saved.new \subseteq Name
      BY DEF AreaInv, TypeOK, State
    <2>. QED
      BY <2>1, NothingFits, OverlaidIsState DEF Dump
  <1>4. TypeOK'
    BY <1>1, <1>2, <1>3, NothingFits DEF AreaInv, TypeOK
  <1>5. Local'
    BY <1>1, NothingFits DEF AreaInv, TypeOK, Local, NoArg
  <1>6. ASSUME ~overlap' PROVE Serial'
    <2>1. \A q \in Proc : pc'[q] = "idle"
      BY <1>1, <1>6 DEF AreaInv, TypeOK, Serial, OneAtATime
    <2>2. form' = "whole" /\ saved' = mem[p]
      BY <1>1, <1>3, <1>6 DEF AreaInv, Serial, Emptied
    <2>3. OneAtATime' /\ Emptied'
      BY <2>1 DEF OneAtATime, Emptied
    <2>4. AllFit'
      BY <1>1, <1>6, <2>2, NothingFits DEF AreaInv, TypeOK, Serial, AllFit
    <2>5. AllChosen'
      <3>1. Chosen(mem[p]) = Asked(arg[p])
        BY <1>1, <1>6 DEF AreaInv, Serial, AllChosen
      <3>2. Chosen(saved') = asked'
        BY <1>1, <2>2, <3>1
      <3>. QED
        BY <2>1, <3>2 DEF AllChosen, Chosen
    <2>. QED
      BY <2>3, <2>4, <2>5 DEF Serial
  <1>. QED
    BY <1>4, <1>5, <1>6 DEF AreaInv

LEMMA AreaStep == AreaInv /\ [Next]_vars => AreaInv'
  <1> SUFFICES ASSUME AreaInv, [Next]_vars PROVE AreaInv'
    OBVIOUS
  <1>1. ASSUME NEW p \in Proc, NEW source \in Source, NEW wanted \in SUBSET Root,
               SpliceInit(p, source, wanted)
        PROVE  AreaInv'
    <2>1. PICK h \in Root : Begin(p, "open", Fresh(h, source), "init", {})
      BY <1>1, ResolvedIsRoot DEF SpliceInit, AreaInv
    <2>2. Asked([command |-> "init", names |-> {}]) = {}
      BY DEF Asked
    <2>. QED
      BY <2>1, <2>2, FreshFits, AreaBegin
  <1>2. ASSUME NEW p \in Proc, NEW command \in {"add", "new"}, NEW names \in SUBSET Name,
               SpliceAdd(p, command, names)
        PROVE  AreaInv'
    <2>1. /\ saved \in State /\ Begin(p, "rehydrate", saved, command, names)
          /\ ~overlap => Fits(saved) /\ Chosen(saved) = asked
      BY <1>2 DEF SpliceAdd, AreaInv, TypeOK, Serial, AllFit, AllChosen
    <2>. QED
      BY <2>1, AreaBegin
  <1>3. ASSUME NEW p \in Proc, NEW names \in SUBSET Name, SpliceRm(p, names)
        PROVE  AreaInv'
    <2> DEFINE s == [saved EXCEPT !.picks = @ \ names, !.new = @ \ names]
    <2>1. saved \in State /\ form = "whole" /\ Begin(p, "open", s, "rm", names)
      BY <1>3 DEF SpliceRm, AreaInv, TypeOK
    <2>2. s \in State /\ Chosen(s) = Chosen(saved) \ names /\ (Fits(saved) => Fits(s))
      BY <2>1 DEF State, Fits, Chosen
    <2>3. ~overlap => Fits(s) /\ Chosen(s) = Asked([command |-> "rm", names |-> names])
      BY <2>1, <2>2 DEF AreaInv, Serial, AllFit, AllChosen, Asked
    <2>. QED
      BY <2>1, <2>2, <2>3, AreaBegin
  <1>4. ASSUME NEW p \in Proc, Rehydrate(p) PROVE AreaInv'
    BY <1>4, AreaPicked, AreaEnd DEF Rehydrate, AreaInv, TypeOK
  <1>5. ASSUME NEW p \in Proc, Crash(p) PROVE AreaInv'
    <2>1. events' \in 0 .. MaxEvents
      BY <1>5, AreaAssumption DEF Crash, AreaInv, TypeOK
    <2>. QED
      BY <1>5, <2>1, AreaEnd DEF Crash
  <1>6. CASE WorldChanges
    <2>1. events' \in 0 .. MaxEvents
      BY <1>6, AreaAssumption DEF WorldChanges, AreaInv, TypeOK
    <2>2. /\ roots' \subseteq Root /\ onfile' \in Root /\ installed' \subseteq Root
          /\ UNCHANGED <<form, saved, pc, mem, arg, asked, overlap>>
      BY <1>6 DEF WorldChanges, AreaInv, TypeOK, yaml, locals, history
    <2>3. TypeOK'
      BY <2>1, <2>2 DEF AreaInv, TypeOK
    <2>4. Local'
      BY <2>2 DEF AreaInv, Local
    <2>5. ~overlap' => Serial'
      BY <2>2 DEF AreaInv, Serial, OneAtATime, Emptied, AllFit, AllChosen, Asked
    <2>. QED
      BY <2>3, <2>4, <2>5 DEF AreaInv
  <1>7. CASE UNCHANGED vars
    <2>1. UNCHANGED <<form, saved, roots, onfile, installed, pc, mem, arg, asked, overlap, events>>
      BY <1>7 DEF vars, yaml, world, locals, history
    <2>. QED
      BY <2>1 DEF AreaInv, TypeOK, Local, Serial, OneAtATime, Emptied, AllFit, AllChosen, Asked
  <1>. QED
    BY <1>1, <1>2, <1>3, <1>4, AreaOpen, AreaDump, <1>5, <1>6, <1>7 DEF Next

(* The variables always have their types (state.py:24-104).                *)
THEOREM TypeInvariant == Spec => []TypeOK
  <1>1. AreaInv => TypeOK
    BY DEF AreaInv
  <1>. QED
    BY <1>1, AreaInit, AreaStep, PTL DEF Spec

(* For any base specs, any number of processes and any history of the       *)
(* sources: without two commands at once, picks that were not checked       *)
(* against another spec than the recorded base fit that base                *)
(* (cmd/splice.py:104-182, base.py:217-254).                                *)
THEOREM PicksAlwaysFitBase == Spec => []PicksFitBase
  <1>1. AreaInv => PicksFitBase
    BY DEF AreaInv, Serial, AllFit, Fits, PicksFitBase
  <1>. QED
    BY <1>1, AreaInit, AreaStep, PTL DEF Spec

(* Without two commands at once, a readable splice.yaml holds exactly what  *)
(* the commands that succeeded since init asked for, wherever others failed *)
(* or were killed (state.py:3-5, 78-104).                                   *)
THEOREM FileRecordsChoices == Spec => []RecordsChoices
  <1>1. AreaInv => RecordsChoices
    BY DEF AreaInv, Serial, AllChosen, Chosen, RecordsChoices
  <1>. QED
    BY <1>1, AreaInit, AreaStep, PTL DEF Spec
=============================================================================
