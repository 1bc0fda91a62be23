----------------------------- MODULE Control_proof -----------------------------
(* What one CPU runs and drives, for every value of the constants: hooks of     *)
(* modules are called when they are due and in order, and the session of the    *)
(* instances is what their hooks have made, whichever hook fails and wherever   *)
(* an interrupt comes; drivers believe what their devices do, and do it in      *)
(* order; what is admitted works; and every state is well-formed, that of what  *)
(* runs in time (Periods_proof) included.                                       *)
(* A CPU that is routed is the parameter r of the invariants: the topics of     *)
(* MCControl have one with and one without.                                     *)
EXTENDS Periods_proof, FiniteSetTheorems

-----------------------------------------------------------------------------
(* The table of modules: its inductive invariant.                             *)

\* The frame of a traversal: the call, where it is and what it has met.
Ops == {"init", "start", "stop", "deinit"}
Stages == Ops \cup {"freeze"}
Frames ==
    [op : Stages, dom : Domains \cup {Every}, i : Nat, undo : BOOLEAN, err : BOOLEAN,
     rem : Nat, hook : Ops \cup {"none"}]

\* The phase while a call is under way, and what is real of an entry.
PhaseOf(op) ==
    CASE op = "init" -> "INITIALIZING" [] op = "deinit" -> "CLEANUP_PENDING"
      [] op = "freeze" -> "READY" [] OTHER -> "TRANSITIONING"
RealOf(s) ==
    CASE s = "UNINIT" -> "off" [] s = "STARTED" -> "running" [] OTHER -> "inited"

\* The table: no entry twice, by priority, and it tells what the hooks have made.
TableInv ==
    /\ phase \in Phases /\ frozen \in BOOLEAN
    /\ st \in [Modules -> States] /\ real = [m \in Modules |-> RealOf(st[m])]
    /\ mods \in Seq(Modules) /\ Sorted(mods)
    /\ \A i, j \in 1 .. Len(mods) : i # j => mods[i] # mods[j]
    /\ \A m \in Modules : (\A i \in 1 .. Len(mods) : mods[i] # m) => st[m] = "UNINIT"
    /\ phase = "UNINITIALIZED" => \A m \in Modules : st[m] = "UNINIT"

\* An init has done what is before it and nothing behind it; its rollback, if no hook
\* of it fails, undoes all of it.
InitPart(f) ==
    f.op = "init" =>
        /\ \A j \in 1 .. Len(mods) : Matches(mods[j], f.dom)
        /\ \A m \in Modules : st[m] \in {"UNINIT", "INITED"}
        /\ ~f.undo => \A j \in 1 .. Len(mods) :
                          IF j < f.i THEN st[mods[j]] = "INITED" ELSE st[mods[j]] = "UNINIT"
        /\ (f.undo /\ ~f.err) => \A j \in 1 .. Len(mods) : f.i < j => st[mods[j]] = "UNINIT"

\* A start leaves nothing behind that waits to be started.
StartPart(f) ==
    (f.op = "start" /\ ~f.undo) =>
        \A j \in 1 .. Len(mods) :
            (j < f.i /\ Matches(mods[j], f.dom)) => st[mods[j]] \notin {"INITED", "STOPPED"}

\* A deinit without an error leaves nothing behind, but what it counts in rem.
DeinitPart(f) ==
    (f.op = "deinit" /\ ~f.err) =>
        \A j \in 1 .. Len(mods) :
            (f.i < j /\ (Matches(mods[j], f.dom) \/ f.rem = 0)) => st[mods[j]] = "UNINIT"

\* Where a traversal can be; an init that is over is behind the table.
PlacePart(f) ==
    /\ f.i <= Len(mods) + 1
    /\ Upward(f) => f.i # 0
    /\ f.op = "freeze" => f.i \notin 1 .. Len(mods)
    /\ ~Upward(f) /\ f.op # "freeze" => f.i <= Len(mods)

\* The hook that runs, and what the table says of its module.
HookPart(f) ==
    f.hook # "none" =>
        /\ f.i \in 1 .. Len(mods) /\ Matches(mods[f.i], f.dom)
        /\ f.op # "freeze"
        /\ f.hook = "init" => f.op = "init" /\ ~f.undo
        /\ f.hook = "start" => f.op = "start" /\ ~f.undo /\ st[mods[f.i]] \in {"INITED", "STOPPED"}
        /\ f.hook = "stop" => f.op # "init" /\ ~Upward(f) /\ st[mods[f.i]] = "STARTED"
        /\ f.hook = "deinit" =>
              /\ st[mods[f.i]] \in {"INITED", "STOPPED"}
              /\ f.op = "deinit" \/ (f.op = "init" /\ f.undo)

FrameInv(f) ==
    /\ f \in Frames /\ phase = PhaseOf(f.op)
    /\ PlacePart(f) /\ HookPart(f)
    /\ InitPart(f) /\ StartPart(f) /\ DeinitPart(f)

\* Calls do not nest, and the phase is the one of the call.
CallsPart ==
    IF stack = <<>> THEN phase \notin {"INITIALIZING", "TRANSITIONING"}
    ELSE \E f \in Frames : stack = <<f>> /\ FrameInv(f)

\* A build with routed CPUs.
Freezing == \E f \in Frames : stack = <<f>> /\ f.op = "freeze" /\ f.hook = "none"
RoutedPart ==
    /\ \A f \in Frames : stack = <<f>> => f.op \in {"init", "freeze", "start"}
    /\ phase \in {"READY", "TRANSITIONING"} =>
          /\ frozen \/ Freezing
          /\ \A j \in 1 .. Len(mods) : st[mods[j]] # "UNINIT"

ModulesInv(r) ==
    TableInv /\ CallsPart /\ (r => RoutedPart)

-----------------------------------------------------------------------------
(* Lemmas about frames and tables.                                            *)

\* A stack of one frame.
LEMMA OneFrame ==
    ASSUME NEW f, stack = <<f>>
    PROVE  /\ stack # <<>> /\ Len(stack) = 1 /\ DOMAIN stack = {1} /\ stack[1] = f
           /\ \A g : [stack EXCEPT ![Len(stack)] = g] = <<g>>
           /\ SubSeq(stack, 1, Len(stack) - 1) = <<>>
OBVIOUS

\* What _sort_modules makes of a set.
LEMMA TablesAre ==
    ASSUME NEW S \in SUBSET Modules, NEW s \in Tables(S)
    PROVE  /\ s \in Seq(S) /\ Sorted(s)
           /\ \A i, j \in 1 .. Len(s) : i # j => s[i] # s[j]
<1>1. Cardinality(S) \in Nat
  BY TableAssumption, FS_Subset, FS_CardinalityType
<1>2. s \in [1 .. Cardinality(S) -> S]
  BY DEF Tables
<1>3. s \in Seq(S) /\ Len(s) = Cardinality(S) /\ DOMAIN s = 1 .. Len(s)
  BY <1>1, <1>2
<1> QED BY <1>3 DEF Tables

\* The order of a table does not depend on the build.
LEMMA SameTables ==
    ASSUME NEW r \in BOOLEAN, NEW n \in Nat, NEW S
    PROVE  Lifecycle(r, n)!Tables(S) = Tables(S)
<1>1. Lifecycle(r, n)!Cardinality(S) = Cardinality(S)
  BY DEF Lifecycle!Cardinality, Cardinality
<1> QED
  BY <1>1 DEF Lifecycle!Tables, Tables, Lifecycle!Sorted, Sorted

\* A call that may be made finds no traversal under way.
LEMMA CallsAlone ==
    ASSUME NEW r \in BOOLEAN, NEW n \in Nat, r \/ n = 0, ModulesInv(r),
           Lifecycle(r, n)!MayCall,
           ~r \/ phase \in {"UNINITIALIZED", "READY"}
    PROVE  stack = <<>>
<1> SUFFICES ASSUME NEW f \in Frames, stack = <<f>>, FrameInv(f)
             PROVE  FALSE
  BY DEF ModulesInv, CallsPart
<1>1. Len(stack) = 1
  BY OneFrame
<1>2. r
  BY <1>1 DEF Lifecycle!MayCall
<1>3. f.op \in {"init", "freeze", "start"}
  BY <1>2 DEF ModulesInv, RoutedPart
<1>4. f.op = "freeze" => f.hook = "none" /\ Lifecycle(r, n)!Top = f
  BY <1>1, OneFrame DEF FrameInv, HookPart, Frames, Lifecycle!Top
<1> QED
  BY <1>2, <1>3, <1>4, OneFrame DEF FrameInv, PhaseOf, Lifecycle!MayCall, Lifecycle!Busy

\* The frame a call begins with.
LEMMA FrameIs ==
    ASSUME NEW op \in Ops, NEW dom \in Domains \cup {Every}, NEW i \in Nat
    PROVE  /\ Frame(op, dom, i) \in Frames
           /\ Frame(op, dom, i).op = op /\ Frame(op, dom, i).dom = dom
           /\ Frame(op, dom, i).i = i /\ ~Frame(op, dom, i).undo /\ ~Frame(op, dom, i).err
           /\ Frame(op, dom, i).rem = 0 /\ Frame(op, dom, i).hook = "none"
BY DEF Frame, Frames, Ops, Stages

-----------------------------------------------------------------------------
(* Every step of the table preserves it: the calls, the traversal and its      *)
(* hooks, and the returns.                                                    *)

\* bm_module_init_*: the table is made anew.
LEMMA InitCallStep ==
    ASSUME NEW r \in BOOLEAN, NEW n \in Nat, r \/ n = 0, ModulesInv(r),
           NEW dom \in Domains \cup {Every}, NEW reset \in BOOLEAN,
           Lifecycle(r, n)!InitCall(dom, reset)
    PROVE  ModulesInv(r)'
<1> DEFINE S == {m \in Modules : Matches(m, dom)}
           f == Frame("init", dom, 1)
<1>1. stack = <<>>
  BY CallsAlone DEF Lifecycle!InitCall
<1>2. /\ phase = "UNINITIALIZED" /\ phase' = "INITIALIZING" /\ frozen' \in BOOLEAN
      /\ mods' \in Tables(S) /\ st' = [m \in Modules |-> "UNINIT"] /\ real' = real
      /\ stack' = <<f>>
  BY <1>1, SameTables
     DEF Lifecycle!InitCall, Lifecycle!Push, Lifecycle!Matches, Matches, Lifecycle!Frame, Frame,
         ModulesInv, TableInv
<1>3. /\ f \in Frames /\ f.op = "init" /\ f.dom = dom /\ f.i = 1 /\ ~f.undo /\ ~f.err
      /\ f.hook = "none"
  BY FrameIs DEF Ops
<1>4. /\ mods' \in Seq(S) /\ Sorted(mods')
      /\ \A i, j \in 1 .. Len(mods') : i # j => mods'[i] # mods'[j]
  BY <1>2, TablesAre
<1>5. \A i \in 1 .. Len(mods') : mods'[i] \in Modules /\ Matches(mods'[i], dom)
  BY <1>4
<1>6. mods' \in Seq(Modules) /\ Len(mods') \in Nat
  BY <1>4
<1> HIDE DEF f, S
<1>7. TableInv'
  <2>1. \A m \in Modules : st[m] = "UNINIT" /\ real[m] = RealOf("UNINIT")
    BY <1>2 DEF ModulesInv, TableInv
  <2>2. real' = [m \in Modules |-> RealOf(st'[m])]
    BY <1>2, <2>1 DEF ModulesInv, TableInv
  <2> QED
    BY <1>2, <1>4, <1>6, <2>2 DEF TableInv, Phases, States, Sorted
<1>8. FrameInv(f)'
  BY <1>2, <1>3, <1>5, <1>6
     DEF FrameInv, PhaseOf, PlacePart, HookPart, InitPart, StartPart, DeinitPart, Upward, Matches
<1>9. CallsPart' /\ (r => RoutedPart')
  <2>1. stack' # <<>>
    BY <1>2
  <2>2. \A g : stack' = <<g>> => g = f
    BY <1>2
  <2> QED
    BY <1>2, <1>3, <1>8, <2>1, <2>2 DEF CallsPart, RoutedPart
<1> QED
  BY <1>7, <1>9 DEF ModulesInv

\* bm_module_start_* begins at the first entry.
LEMMA StartCallStep ==
    ASSUME NEW r \in BOOLEAN, NEW n \in Nat, r \/ n = 0, ModulesInv(r),
           NEW dom \in Domains \cup {Every}, Lifecycle(r, n)!StartCall(dom)
    PROVE  ModulesInv(r)'
<1> DEFINE f == Frame("start", dom, 1)
<1>1. stack = <<>>
  BY CallsAlone DEF Lifecycle!StartCall, Lifecycle!Settled
<1>2. /\ phase = "READY" /\ phase' = "TRANSITIONING"
      /\ UNCHANGED <<mods, st, frozen, real>> /\ stack' = <<f>>
  BY <1>1 DEF Lifecycle!StartCall, Lifecycle!Push, Lifecycle!Frame, Frame, Lifecycle!Settled
<1>3. Len(mods) \in Nat
  BY DEF ModulesInv, TableInv
<1>4. /\ f \in Frames /\ f.op = "start" /\ f.dom = dom /\ f.i = 1 /\ ~f.undo /\ ~f.err
      /\ f.rem = 0 /\ f.hook = "none"
  BY <1>3, FrameIs DEF Ops
<1> HIDE DEF f
<1>5. TableInv'
  BY <1>2 DEF ModulesInv, TableInv, Phases, Sorted
<1>6. FrameInv(f)'
  BY <1>2, <1>3, <1>4
     DEF FrameInv, PhaseOf, PlacePart, HookPart, InitPart, StartPart, DeinitPart, Upward
<1>7. stack' # <<>> /\ \A g : stack' = <<g>> => g = f
  BY <1>2
<1> QED
  <2>1. ~Freezing
    BY <1>1 DEF Freezing
  <2> QED
    BY <1>2, <1>4, <1>5, <1>6, <1>7, <2>1 DEF ModulesInv, CallsPart, RoutedPart

\* bm_module_stop_* begins at the last entry.
LEMMA StopCallStep ==
    ASSUME NEW r \in BOOLEAN, NEW n \in Nat, r \/ n = 0, ModulesInv(r),
           NEW dom \in Domains \cup {Every}, Lifecycle(r, n)!StopCall(dom)
    PROVE  ModulesInv(r)'
<1>0. PICK f : f = Frame("stop", dom, Len(mods))
  OBVIOUS
<1>1. stack = <<>>
  BY CallsAlone DEF Lifecycle!StopCall, Lifecycle!Settled
<1>2. /\ ~r /\ phase' = "TRANSITIONING"
      /\ UNCHANGED <<mods, st, frozen, real>> /\ stack' = <<f>>
  BY <1>0, <1>1 DEF Lifecycle!StopCall, Lifecycle!Push, Lifecycle!Frame, Frame, Lifecycle!Settled
<1>3. Len(mods) \in Nat
  BY DEF ModulesInv, TableInv
<1>4. /\ f \in Frames /\ f.op = "stop" /\ f.dom = dom /\ f.i = Len(mods) /\ ~f.undo /\ ~f.err
      /\ f.rem = 0 /\ f.hook = "none"
  BY <1>0, <1>3, FrameIs DEF Ops
<1>5. TableInv'
  BY <1>2 DEF ModulesInv, TableInv, Phases, Sorted
<1>6. FrameInv(f)'
  BY <1>2, <1>3, <1>4
     DEF FrameInv, PhaseOf, PlacePart, HookPart, InitPart, StartPart, DeinitPart, Upward
<1>7. stack' # <<>> /\ \A g : stack' = <<g>> => g = f
  BY <1>2
<1> QED
  BY <1>2, <1>4, <1>5, <1>6, <1>7 DEF ModulesInv, CallsPart, RoutedPart

\* bm_module_deinit_* begins at the last entry, also after a failed one.
LEMMA DeinitCallStep ==
    ASSUME NEW r \in BOOLEAN, NEW n \in Nat, r \/ n = 0, ModulesInv(r),
           NEW dom \in Domains \cup {Every}, Lifecycle(r, n)!DeinitCall(dom)
    PROVE  ModulesInv(r)'
<1>0. PICK f : f = Frame("deinit", dom, Len(mods))
  OBVIOUS
<1>1. stack = <<>>
  BY CallsAlone DEF Lifecycle!DeinitCall, Lifecycle!Quiet
<1>2. /\ ~r /\ phase' = "CLEANUP_PENDING"
      /\ UNCHANGED <<mods, st, frozen, real>> /\ stack' = <<f>>
  BY <1>0, <1>1 DEF Lifecycle!DeinitCall, Lifecycle!Push, Lifecycle!Frame, Frame, Lifecycle!Quiet
<1>3. Len(mods) \in Nat
  BY DEF ModulesInv, TableInv
<1>4. /\ f \in Frames /\ f.op = "deinit" /\ f.dom = dom /\ f.i = Len(mods) /\ ~f.undo /\ ~f.err
      /\ f.rem = 0 /\ f.hook = "none"
  BY <1>0, <1>3, FrameIs DEF Ops
<1>5. TableInv'
  BY <1>2 DEF ModulesInv, TableInv, Phases, Sorted
<1>6. FrameInv(f)'
  BY <1>2, <1>3, <1>4
     DEF FrameInv, PhaseOf, PlacePart, HookPart, InitPart, StartPart, DeinitPart, Upward
<1>7. stack' # <<>> /\ \A g : stack' = <<g>> => g = f
  BY <1>2
<1> QED
  BY <1>2, <1>4, <1>5, <1>6, <1>7 DEF ModulesInv, CallsPart, RoutedPart

\* A step of the traversal leaves a frame in place of the one it found.
LEMMA FrameChanged ==
    ASSUME NEW r \in BOOLEAN, ModulesInv(r), NEW f \in Frames, NEW g \in Frames, stack = <<f>>,
           stack' = <<g>>, f.op # "freeze", g.op = f.op, UNCHANGED <<phase, mods, frozen>>,
           TableInv', FrameInv(g)',
           f.op = "start" => \A m \in Modules : st[m] # "UNINIT" => st'[m] # "UNINIT"
    PROVE  ModulesInv(r)'
<1>1. stack' # <<>> /\ \A h : stack' = <<h>> => h = g
  OBVIOUS
<1>2. CallsPart'
  BY <1>1 DEF CallsPart
<1>3. f.op \in Stages /\ g.op = f.op
  BY DEF Frames
<1>4. phase' = PhaseOf(f.op)
  BY DEF FrameInv
<1>5. ASSUME r  PROVE RoutedPart'
  <2>1. f.op \in {"init", "start"} /\ ~Freezing
    BY <1>5 DEF ModulesInv, RoutedPart, Freezing
  <2>2. CASE f.op = "init"
    BY <1>1, <1>4, <2>2 DEF RoutedPart, PhaseOf
  <2>3. CASE f.op = "start"
    <3>1. \A j \in 1 .. Len(mods) : mods[j] \in Modules
      BY DEF ModulesInv, TableInv
    <3>2. phase = "TRANSITIONING"
      BY <1>4, <2>3 DEF PhaseOf
    <3> QED
      BY <1>1, <1>5, <2>1, <2>3, <3>1, <3>2 DEF RoutedPart, ModulesInv
  <2> QED BY <2>1, <2>2, <2>3
<1> QED BY <1>2, <1>5 DEF ModulesInv

\* The traversal under way.
LEMMA OneTraversal ==
    ASSUME NEW r \in BOOLEAN, NEW n \in Nat, ModulesInv(r), stack # <<>>
    PROVE  \E f \in Frames :
               /\ stack = <<f>> /\ FrameInv(f)
               /\ Lifecycle(r, n)!Top = f /\ Lifecycle(r, n)!Entry = mods[f.i]
               /\ \A g : Lifecycle(r, n)!Change(g) => stack' = <<g>>
               /\ Lifecycle(r, n)!Pop => stack' = <<>>
<1>1. PICK f \in Frames : stack = <<f>> /\ FrameInv(f)
  BY DEF ModulesInv, CallsPart
<1>2. /\ Len(stack) = 1 /\ stack[1] = f
      /\ \A g : [stack EXCEPT ![Len(stack)] = g] = <<g>>
      /\ SubSeq(stack, 1, Len(stack) - 1) = <<>>
  BY <1>1, OneFrame
<1> QED
  BY <1>1, <1>2 DEF Lifecycle!Top, Lifecycle!Entry, Lifecycle!Change, Lifecycle!Pop

\* The hook that is called is due for the entry.
LEMMA CallHookStep ==
    ASSUME NEW r \in BOOLEAN, NEW n \in Nat, ModulesInv(r), Lifecycle(r, n)!CallHook
    PROVE  ModulesInv(r)'
<1>1. PICK f \in Frames :
               /\ stack = <<f>> /\ FrameInv(f)
               /\ Lifecycle(r, n)!Top = f /\ Lifecycle(r, n)!Entry = mods[f.i]
               /\ \A g : Lifecycle(r, n)!Change(g) => stack' = <<g>>
  BY OneTraversal DEF Lifecycle!CallHook, Lifecycle!Busy
<1>0. PICK h : h = Lifecycle(r, n)!HookFor(f, mods[f.i])
  OBVIOUS
<1> DEFINE g == [f EXCEPT !.hook = h]
<1>2. /\ stack' = <<g>> /\ UNCHANGED <<phase, mods, st, frozen, real>>
      /\ f.i \in 1 .. Len(mods) /\ Matches(mods[f.i], f.dom) /\ h # "none" /\ f.hook = "none"
  BY <1>0, <1>1 DEF Lifecycle!CallHook, Lifecycle!Busy, Lifecycle!InRange, Lifecycle!Mine,
     Lifecycle!Matches, Matches
<1>3. mods[f.i] \in Modules /\ st[mods[f.i]] \in States
  BY <1>2 DEF ModulesInv, TableInv
<1>4. /\ h \in Ops
      /\ h = "init" => f.op = "init" /\ ~f.undo
      /\ h = "start" => f.op = "start" /\ ~f.undo /\ st[mods[f.i]] \in {"INITED", "STOPPED"}
      /\ h = "stop" => f.op # "init" /\ ~Upward(f) /\ st[mods[f.i]] = "STARTED"
      /\ h = "deinit" => /\ st[mods[f.i]] \in {"INITED", "STOPPED"}
                         /\ f.op = "deinit" \/ (f.op = "init" /\ f.undo)
  BY <1>0, <1>2, <1>3 DEF Lifecycle!HookFor, Lifecycle!Startable, Ops, Upward, States
<1>5. /\ g \in Frames /\ g.op = f.op /\ g.dom = f.dom /\ g.i = f.i /\ g.undo = f.undo
      /\ g.err = f.err /\ g.rem = f.rem /\ g.hook = h
  BY <1>4 DEF Frames
<1> HIDE DEF g
<1>6. TableInv'
  BY <1>2 DEF ModulesInv, TableInv, Sorted
<1>7. FrameInv(g)'
  BY <1>1, <1>2, <1>4, <1>5
     DEF FrameInv, PlacePart, HookPart, InitPart, StartPart, DeinitPart, Upward
<1> QED
  <2>1. f.op # "freeze"
    BY <1>1, <1>2 DEF FrameInv, PlacePart
  <2> QED BY <1>1, <1>2, <1>5, <1>6, <1>7, <2>1, FrameChanged

\* Where a traversal goes next.
LEMMA StepIs ==
    ASSUME NEW r \in BOOLEAN, NEW n \in Nat, NEW f \in Frames,
           Upward(f) => f.i # 0, ~Upward(f) => f.i # 0
    PROVE  /\ Lifecycle(r, n)!Step(f) = [f EXCEPT !.i = IF Upward(f) THEN f.i + 1 ELSE f.i - 1]
           /\ Lifecycle(r, n)!Step(f) \in Frames
           /\ Lifecycle(r, n)!Upward(f) = Upward(f)
BY DEF Lifecycle!Step, Lifecycle!Upward, Upward, Frames

\* An entry that is passed over is none of the call's, or there is nothing to do for it.
LEMMA SkipStep ==
    ASSUME NEW r \in BOOLEAN, NEW n \in Nat, ModulesInv(r), Lifecycle(r, n)!Skip
    PROVE  ModulesInv(r)'
<1>1. PICK f \in Frames :
               /\ stack = <<f>> /\ FrameInv(f)
               /\ Lifecycle(r, n)!Top = f /\ Lifecycle(r, n)!Entry = mods[f.i]
               /\ \A g : Lifecycle(r, n)!Change(g) => stack' = <<g>>
  BY OneTraversal DEF Lifecycle!Skip, Lifecycle!Busy
<1>0. PICK q : q = IF ~Matches(mods[f.i], f.dom) /\ st[mods[f.i]] # "UNINIT" THEN f.rem + 1
                   ELSE f.rem
  OBVIOUS
<1> DEFINE d == [f EXCEPT !.rem = q]
           g == [d EXCEPT !.i = IF Upward(f) THEN f.i + 1 ELSE f.i - 1]
<1>2. /\ f.hook = "none" /\ f.i \in 1 .. Len(mods)
      /\ ~Matches(mods[f.i], f.dom) \/ Lifecycle(r, n)!HookFor(f, mods[f.i]) = "none"
      /\ Lifecycle(r, n)!Change(Lifecycle(r, n)!Step(d))
      /\ UNCHANGED <<phase, mods, st, frozen, real>>
  BY <1>0, <1>1 DEF Lifecycle!Skip, Lifecycle!Busy, Lifecycle!InRange, Lifecycle!Mine,
     Lifecycle!Matches, Matches
<1>3. mods[f.i] \in Modules /\ st[mods[f.i]] \in States /\ Len(mods) \in Nat
  BY <1>2 DEF ModulesInv, TableInv
<1>4. f.rem \in Nat /\ f.i \in Nat /\ f.undo \in BOOLEAN /\ f.op \in Stages
  BY DEF Frames
<1>5. d \in Frames /\ Upward(d) = Upward(f) /\ d.i = f.i
  BY <1>0, <1>4 DEF Frames, Upward
<1>6. Lifecycle(r, n)!Step(d) = g /\ g \in Frames
  <2> HIDE DEF d
  <2> QED BY <1>2, <1>5, StepIs
<1>7. stack' = <<g>>
  BY <1>1, <1>2, <1>6
<1>8. /\ g.op = f.op /\ g.dom = f.dom /\ g.undo = f.undo /\ g.err = f.err /\ g.rem = q
      /\ g.hook = "none" /\ g.i = IF Upward(f) THEN f.i + 1 ELSE f.i - 1
  BY <1>2 DEF Frames
<1>9. \/ ~Matches(mods[f.i], f.dom) /\ (q = 0 => st[mods[f.i]] = "UNINIT") /\ f.op # "init"
      \/ /\ Matches(mods[f.i], f.dom)
         /\ f.op = "init" => f.undo /\ st[mods[f.i]] # "INITED"
         /\ (f.op = "start" /\ ~f.undo) => st[mods[f.i]] \notin {"INITED", "STOPPED"}
         /\ f.op = "deinit" => st[mods[f.i]] = "UNINIT"
  BY <1>0, <1>1, <1>2, <1>3, <1>4
     DEF Lifecycle!HookFor, Lifecycle!Startable, FrameInv, InitPart, States
<1>10. q = 0 => f.rem = 0
  BY <1>0, <1>4
<1> HIDE DEF d, g
<1>11. TableInv'
  BY <1>2 DEF ModulesInv, TableInv, Sorted
<1>12. InitPart(g)'
  <2> SUFFICES ASSUME f.op = "init"  PROVE InitPart(g)'
    BY <1>8 DEF InitPart
  <2>1. f.undo /\ st[mods[f.i]] = "UNINIT" /\ ~Upward(f)
    BY <1>1, <1>3, <1>9 DEF FrameInv, InitPart, Upward
  <2> QED
    BY <1>1, <1>2, <1>4, <1>8, <2>1 DEF FrameInv, InitPart
<1>13. StartPart(g)'
  <2> SUFFICES ASSUME f.op = "start", ~f.undo  PROVE StartPart(g)'
    BY <1>8 DEF StartPart
  <2>1. Upward(f) /\ g.i = f.i + 1
    BY <1>8 DEF Upward
  <2>2. Matches(mods[f.i], f.dom) => st[mods[f.i]] \notin {"INITED", "STOPPED"}
    BY <1>9
  <2> QED
    BY <1>1, <1>2, <1>4, <1>8, <2>1, <2>2 DEF FrameInv, StartPart, Matches
<1>14. DeinitPart(g)'
  BY <1>1, <1>2, <1>4, <1>8, <1>9, <1>10 DEF FrameInv, DeinitPart, Upward
<1>15. PlacePart(g)' /\ HookPart(g)' /\ phase' = PhaseOf(g.op)
  BY <1>1, <1>2, <1>3, <1>8 DEF FrameInv, PlacePart, HookPart, Upward
<1> QED
  <2>1. f.op # "freeze"
    BY <1>1, <1>2 DEF FrameInv, PlacePart
  <2> QED
    BY <1>1, <1>2, <1>6, <1>7, <1>8, <1>11, <1>12, <1>13, <1>14, <1>15, <2>1, FrameChanged
       DEF FrameInv

\* A hook that succeeds makes of its module what the table records.
LEMMA HookSucceedsStep ==
    ASSUME NEW r \in BOOLEAN, NEW n \in Nat, ModulesInv(r), Lifecycle(r, n)!HookSucceeds
    PROVE  ModulesInv(r)'
<1>1. PICK f \in Frames :
               /\ stack = <<f>> /\ FrameInv(f)
               /\ Lifecycle(r, n)!Top = f /\ Lifecycle(r, n)!Entry = mods[f.i]
               /\ \A g : Lifecycle(r, n)!Change(g) => stack' = <<g>>
  BY OneTraversal DEF Lifecycle!HookSucceeds
<1>0. PICK e : e = mods[f.i]
  OBVIOUS
<1> DEFINE d == [f EXCEPT !.hook = "none"]
           g == IF f.op = "deinit" /\ f.hook = "stop" THEN d
                ELSE [d EXCEPT !.i = IF Upward(f) THEN f.i + 1 ELSE f.i - 1]
           s == Lifecycle(r, n)!Recorded(f)
<1>2. /\ f.hook # "none" /\ UNCHANGED <<phase, mods, frozen>>
      /\ real' = [real EXCEPT ![e] = Lifecycle(r, n)!Effect(f.hook)]
      /\ st' = [st EXCEPT ![e] = s]
      /\ Lifecycle(r, n)!Change(IF f.op = "deinit" /\ f.hook = "stop" THEN d
                                ELSE Lifecycle(r, n)!Step(d))
  BY <1>0, <1>1 DEF Lifecycle!HookSucceeds
<1>3. f.i \in 1 .. Len(mods) /\ Len(mods) \in Nat /\ e \in Modules /\ Matches(e, f.dom)
  BY <1>0, <1>1, <1>2 DEF FrameInv, HookPart, ModulesInv, TableInv
<1>4. f.i \in Nat /\ f.undo \in BOOLEAN /\ f.op \in Stages /\ f.hook \in Ops
  BY <1>2 DEF Frames
<1>5. d \in Frames /\ Upward(d) = Upward(f) /\ d.i = f.i
  BY <1>4 DEF Frames, Upward
<1>6. Lifecycle(r, n)!Step(d) = [d EXCEPT !.i = IF Upward(f) THEN f.i + 1 ELSE f.i - 1]
      /\ Lifecycle(r, n)!Step(d) \in Frames
  <2> HIDE DEF d
  <2> QED BY <1>3, <1>5, StepIs
<1>7. stack' = <<g>> /\ g \in Frames
  BY <1>1, <1>2, <1>5, <1>6
<1>8. /\ g.op = f.op /\ g.dom = f.dom /\ g.undo = f.undo /\ g.err = f.err /\ g.rem = f.rem
      /\ g.hook = "none"
      /\ g.i = IF f.op = "deinit" /\ f.hook = "stop" THEN f.i
               ELSE IF Upward(f) THEN f.i + 1 ELSE f.i - 1
  BY DEF Frames
<1>9. /\ f.hook = "init" => s = "INITED" /\ f.op = "init" /\ ~f.undo
      /\ f.hook = "start" => s = "STARTED" /\ f.op = "start" /\ ~f.undo
      /\ f.hook = "stop" => s \in {"INITED", "STOPPED"} /\ f.op # "init" /\ ~Upward(f)
      /\ f.hook = "deinit" => s = "UNINIT" /\ (f.op = "deinit" \/ (f.op = "init" /\ f.undo))
      /\ Lifecycle(r, n)!Effect(f.hook) = RealOf(s)
      /\ s \in States
  BY <1>1, <1>2, <1>4
     DEF Lifecycle!Recorded, Lifecycle!Effect, RealOf, FrameInv, HookPart, States, Ops
<1>10. \A m \in Modules : st'[m] = IF m = e THEN s ELSE st[m]
  BY <1>2, <1>3, <1>9 DEF ModulesInv, TableInv
<1>11. \A j \in 1 .. Len(mods) : mods[j] \in Modules /\ (mods[j] = e <=> j = f.i)
  BY <1>0, <1>3 DEF ModulesInv, TableInv
<1> HIDE DEF d, g, s
<1>12. TableInv'
  <2>1. st' \in [Modules -> States]
    BY <1>2, <1>9 DEF ModulesInv, TableInv
  <2>2. real' = [m \in Modules |-> RealOf(st'[m])]
    BY <1>2, <1>3, <1>9, <1>10 DEF ModulesInv, TableInv
  <2>3. \A m \in Modules : (\A i \in 1 .. Len(mods) : mods[i] # m) => st'[m] = "UNINIT"
    BY <1>0, <1>3, <1>10 DEF ModulesInv, TableInv
  <2>4. phase # "UNINITIALIZED"
    BY <1>1 DEF FrameInv, PhaseOf
  <2> QED
    BY <1>2, <2>1, <2>2, <2>3, <2>4 DEF ModulesInv, TableInv, Sorted
<1>13. InitPart(g)'
  <2> SUFFICES ASSUME f.op = "init"  PROVE InitPart(g)'
    BY <1>8 DEF InitPart
  <2>1. s \in {"INITED", "UNINIT"} /\ (f.undo <=> s = "UNINIT") /\ (Upward(f) <=> ~f.undo)
    BY <1>4, <1>9 DEF Upward, Ops
  <2> QED
    BY <1>1, <1>2, <1>3, <1>4, <1>8, <1>10, <1>11, <2>1 DEF FrameInv, InitPart, Matches
<1>14. StartPart(g)'
  <2> SUFFICES ASSUME f.op = "start", ~f.undo  PROVE StartPart(g)'
    BY <1>8 DEF StartPart
  <2>1. s = "STARTED" /\ Upward(f)
    BY <1>4, <1>9 DEF Upward, Ops
  <2> QED
    BY <1>1, <1>2, <1>3, <1>4, <1>8, <1>10, <1>11, <2>1 DEF FrameInv, StartPart, Matches
<1>15. DeinitPart(g)'
  <2> SUFFICES ASSUME f.op = "deinit", ~f.err  PROVE DeinitPart(g)'
    BY <1>8 DEF DeinitPart
  <2>1. ~Upward(f) /\ f.hook \in {"stop", "deinit"} /\ (f.hook = "deinit" => s = "UNINIT")
    BY <1>4, <1>9 DEF Upward, Ops
  <2> QED
    BY <1>1, <1>2, <1>3, <1>4, <1>8, <1>10, <1>11, <2>1 DEF FrameInv, DeinitPart, Matches
<1>16. PlacePart(g)' /\ HookPart(g)' /\ phase' = PhaseOf(g.op)
  BY <1>1, <1>2, <1>3, <1>4, <1>8 DEF FrameInv, PlacePart, HookPart, Upward
<1>17. f.op = "start" => \A m \in Modules : st[m] # "UNINIT" => st'[m] # "UNINIT"
  BY <1>4, <1>9, <1>10 DEF Ops
<1> QED
  <2>1. f.op # "freeze"
    BY <1>1, <1>2 DEF FrameInv, HookPart
  <2> QED
    BY <1>1, <1>2, <1>7, <1>8, <1>12, <1>13, <1>14, <1>15, <1>16, <1>17, <2>1, FrameChanged
       DEF FrameInv

\* A hook that fails turns an init or a start round; the others go on.
LEMMA HookFailsStep ==
    ASSUME NEW r \in BOOLEAN, NEW n \in Nat, ModulesInv(r), Lifecycle(r, n)!HookFails
    PROVE  ModulesInv(r)'
<1>1. PICK f \in Frames :
               /\ stack = <<f>> /\ FrameInv(f)
               /\ Lifecycle(r, n)!Top = f /\ Lifecycle(r, n)!Entry = mods[f.i]
               /\ \A g : Lifecycle(r, n)!Change(g) => stack' = <<g>>
  BY OneTraversal DEF Lifecycle!HookFails
<1>2. /\ f.hook # "none" /\ UNCHANGED <<phase, mods, st, frozen, real>>
      /\ f.i \in 1 .. Len(mods) /\ Len(mods) \in Nat /\ mods[f.i] \in Modules
  BY <1>1 DEF Lifecycle!HookFails, FrameInv, HookPart, ModulesInv, TableInv
<1>3. /\ f.i \in Nat /\ f.undo \in BOOLEAN /\ f.op \in Stages /\ f.hook \in Ops /\ f.rem \in Nat
  BY <1>2 DEF Frames
<1>4. TableInv'
  BY <1>2 DEF ModulesInv, TableInv, Sorted
<1>5. CASE Upward(f)
  <2>0. PICK b : b = Lifecycle(r, n)!RollbackFrom(f)
    OBVIOUS
  <2>1. b \in 0 .. Len(mods) /\ (f.op = "init" => b = f.i - 1)
    BY <1>2, <2>0 DEF Lifecycle!RollbackFrom
  <2> DEFINE g == [f EXCEPT !.hook = "none", !.undo = TRUE, !.i = b]
  <2>2. Lifecycle(r, n)!Upward(f)
    BY <1>5 DEF Lifecycle!Upward, Upward
  <2>3. stack' = <<g>>
    BY <1>1, <2>0, <2>2 DEF Lifecycle!HookFails
  <2>4. /\ g \in Frames
        /\ g.op = f.op /\ g.dom = f.dom /\ g.undo = TRUE /\ g.err = f.err /\ g.rem = f.rem
        /\ g.hook = "none" /\ g.i = b
    <3>1. b \in Nat
      BY <1>2, <2>1
    <3> QED BY <1>3, <3>1 DEF Frames
  <2>5. f.op \in {"init", "start"} /\ ~f.undo
    BY <1>5 DEF Upward
  <2> HIDE DEF g
  <2>6. InitPart(g)'
    <3> SUFFICES ASSUME f.op = "init"  PROVE InitPart(g)'
      BY <2>4 DEF InitPart
    <3> QED
      BY <1>1, <1>2, <1>3, <2>1, <2>4, <2>5 DEF FrameInv, InitPart, Matches
  <2>7. StartPart(g)' /\ DeinitPart(g)'
    BY <2>4, <2>5 DEF StartPart, DeinitPart
  <2>8. PlacePart(g)' /\ HookPart(g)' /\ phase' = PhaseOf(g.op)
    BY <1>1, <1>2, <2>1, <2>4 DEF FrameInv, PlacePart, HookPart, Upward
  <2> QED
    <3>1. f.op # "freeze"
      BY <1>1, <1>2 DEF FrameInv, HookPart
    <3> QED BY <1>1, <1>2, <1>4, <2>3, <2>4, <2>6, <2>7, <2>8, <3>1, FrameChanged DEF FrameInv
<1>6. CASE ~Upward(f)
  <2> DEFINE d == [f EXCEPT !.hook = "none", !.err = TRUE, !.rem = f.rem + 1]
             g == [d EXCEPT !.i = f.i - 1]
  <2>1. ~Lifecycle(r, n)!Upward(f)
    BY <1>6 DEF Lifecycle!Upward, Upward
  <2>2. Lifecycle(r, n)!Change(Lifecycle(r, n)!Step(d))
    BY <1>1, <2>1 DEF Lifecycle!HookFails
  <2>3. d \in Frames /\ ~Upward(d) /\ d.i = f.i
    <3>0. f.rem + 1 \in Nat
      BY <1>3
    <3>1. d \in Frames
      BY <1>3, <3>0 DEF Frames
    <3>2. d.op = f.op /\ d.undo = f.undo /\ d.i = f.i
      BY DEF Frames
    <3> QED BY <1>6, <3>1, <3>2 DEF Upward
  <2>4. Lifecycle(r, n)!Step(d) = g /\ g \in Frames
    <3> HIDE DEF d
    <3> QED BY <1>2, <2>3, StepIs
  <2>5. stack' = <<g>>
    BY <1>1, <2>2, <2>4
  <2>6. /\ g.op = f.op /\ g.dom = f.dom /\ g.undo = f.undo /\ g.err
        /\ g.hook = "none" /\ g.i = f.i - 1
    BY DEF Frames
  <2> HIDE DEF d, g
  <2>7. InitPart(g)' /\ StartPart(g)' /\ DeinitPart(g)'
    <3>1. f.op = "init" => f.undo
      BY <1>3, <1>6 DEF Upward
    <3>2. f.op = "start" => f.undo
      BY <1>3, <1>6 DEF Upward
    <3>3. InitPart(g)'
      BY <1>1, <1>2, <2>6, <3>1 DEF FrameInv, InitPart, Matches
    <3> QED BY <2>6, <3>2, <3>3 DEF StartPart, DeinitPart
  <2>8. PlacePart(g)' /\ HookPart(g)' /\ phase' = PhaseOf(g.op)
    BY <1>1, <1>2, <1>6, <2>6 DEF FrameInv, PlacePart, HookPart, Upward
  <2> QED
    <3>1. f.op # "freeze"
      BY <1>1, <1>2 DEF FrameInv, HookPart
    <3> QED
      BY <1>1, <1>2, <1>4, <2>4, <2>5, <2>6, <2>7, <2>8, <3>1, FrameChanged DEF FrameInv
<1> QED BY <1>5, <1>6

\* A traversal that has ended is out of the range of the table.
LEMMA ReturnIs ==
    ASSUME NEW r \in BOOLEAN, NEW n \in Nat, ModulesInv(r), NEW op \in Ops,
           Lifecycle(r, n)!Finished(op), Lifecycle(r, n)!Pop
    PROVE  \E f \in Frames :
               /\ stack = <<f>> /\ FrameInv(f) /\ Lifecycle(r, n)!Top = f
               /\ f.op = op /\ f.i \notin 1 .. Len(mods) /\ stack' = <<>>
BY OneTraversal DEF Lifecycle!Finished, Lifecycle!At, Lifecycle!Busy, Lifecycle!InRange

\* The table is kept when a call returns.
LEMMA ReturnStep ==
    ASSUME NEW r \in BOOLEAN, ModulesInv(r), stack' = <<>>, UNCHANGED <<mods, st, real>>,
           phase' \in {"READY", "CLEANUP_PENDING"}, frozen' \in BOOLEAN,
           (r /\ phase' = "READY") => frozen' /\ \A j \in 1 .. Len(mods) : st[mods[j]] # "UNINIT"
    PROVE  ModulesInv(r)'
<1>1. TableInv'
  BY DEF ModulesInv, TableInv, Sorted, Phases
<1>2. CallsPart'
  BY DEF CallsPart
<1>3. r => RoutedPart'
  BY DEF RoutedPart
<1> QED BY <1>1, <1>2, <1>3 DEF ModulesInv

\* The table is forgotten when nothing is left in it.
LEMMA ForgetStep ==
    ASSUME NEW r \in BOOLEAN, ModulesInv(r), stack' = <<>>, UNCHANGED <<st, frozen, real>>,
           phase' = "UNINITIALIZED", mods' = <<>>,
           \A j \in 1 .. Len(mods) : st[mods[j]] = "UNINIT"
    PROVE  ModulesInv(r)'
<1>1. \A m \in Modules : st[m] = "UNINIT"
  BY DEF ModulesInv, TableInv
<1>2. Len(mods') = 0 /\ mods' \in Seq(Modules) /\ DOMAIN mods' = {}
  OBVIOUS
<1>3. TableInv'
  BY <1>1, <1>2 DEF ModulesInv, TableInv, Sorted, Phases
<1>4. CallsPart' /\ (r => RoutedPart')
  BY DEF CallsPart, RoutedPart
<1> QED BY <1>3, <1>4 DEF ModulesInv

\* An init that is over has initialised all modules; they are not yet frozen.
LEMMA ReadyStep ==
    ASSUME NEW r \in BOOLEAN, NEW n \in Nat, ModulesInv(r), Lifecycle(r, n)!InitReady
    PROVE  ModulesInv(r)'
<1>0. Len(mods) \in Nat
  BY DEF ModulesInv, TableInv
<1>1. PICK f \in Frames :
               /\ stack = <<f>> /\ FrameInv(f) /\ Lifecycle(r, n)!Top = f
               /\ \A g : Lifecycle(r, n)!Change(g) => stack' = <<g>>
  BY OneTraversal
     DEF Lifecycle!InitReady, Lifecycle!Finished, Lifecycle!At, Lifecycle!Busy
<1> DEFINE g == [f EXCEPT !.op = "freeze"]
<1>2. /\ f.op = "init" /\ ~f.undo /\ f.hook = "none" /\ f.i \notin 1 .. Len(mods)
      /\ phase' = "READY" /\ UNCHANGED <<mods, st, frozen, real>> /\ stack' = <<g>>
  BY <1>1 DEF Lifecycle!InitReady, Lifecycle!Finished, Lifecycle!At, Lifecycle!Busy,
     Lifecycle!InRange
<1>3. f.i \in Nat /\ f.i # 0 /\ f.i <= Len(mods) + 1
  BY <1>1, <1>2 DEF Frames, FrameInv, PlacePart, Upward
<1>4. \A j \in 1 .. Len(mods) : st[mods[j]] = "INITED"
  BY <1>0, <1>1, <1>2, <1>3 DEF FrameInv, InitPart
<1>5. /\ g \in Frames /\ g.op = "freeze" /\ g.i = f.i /\ g.hook = "none"
  BY <1>2 DEF Frames, Stages
<1> HIDE DEF g
<1>6. TableInv'
  BY <1>2 DEF ModulesInv, TableInv, Sorted, Phases
<1>7. FrameInv(g)'
  BY <1>0, <1>2, <1>3, <1>5
     DEF FrameInv, PhaseOf, PlacePart, HookPart, InitPart, StartPart, DeinitPart, Upward
<1>8. stack' # <<>> /\ \A h : stack' = <<h>> => h = g
  BY <1>2
<1> QED
  BY <1>2, <1>4, <1>5, <1>6, <1>7, <1>8 DEF ModulesInv, CallsPart, RoutedPart, Freezing

\* What each call leaves behind.
LEMMA ReturnsStep ==
    ASSUME NEW r \in BOOLEAN, NEW n \in Nat, ModulesInv(r),
           \/ Lifecycle(r, n)!InitReady \/ Lifecycle(r, n)!InitReturn \/ Lifecycle(r, n)!InitRolledBack
           \/ Lifecycle(r, n)!StartReturn \/ Lifecycle(r, n)!StopReturn
           \/ Lifecycle(r, n)!DeinitReturn
    PROVE  ModulesInv(r)'
<1>0. Len(mods) \in Nat /\ frozen \in BOOLEAN /\ \A j \in 1 .. Len(mods) : mods[j] \in Modules
  BY DEF ModulesInv, TableInv
<1>1. CASE Lifecycle(r, n)!InitReady
  BY <1>1, ReadyStep
<1>6. CASE Lifecycle(r, n)!InitReturn
  <2>1. stack # <<>> /\ Lifecycle(r, n)!Top.op = "freeze" /\ Lifecycle(r, n)!Pop
        /\ frozen' = TRUE /\ UNCHANGED <<phase, mods, st, real>>
    BY <1>6 DEF Lifecycle!InitReturn, Lifecycle!At, Lifecycle!Busy
  <2>2. PICK f \in Frames : FrameInv(f) /\ f.op = "freeze" /\ stack = <<f>> /\ stack' = <<>>
    BY <2>1, OneTraversal
  <2>3. phase = "READY"
    BY <2>2 DEF FrameInv, PhaseOf
  <2> QED BY <1>0, <2>1, <2>2, <2>3, ReturnStep DEF ModulesInv, RoutedPart
<1>2. CASE Lifecycle(r, n)!InitRolledBack
  <2>1. PICK f \in Frames :
               /\ stack = <<f>> /\ FrameInv(f) /\ Lifecycle(r, n)!Top = f
               /\ f.op = "init" /\ f.i \notin 1 .. Len(mods) /\ stack' = <<>>
    BY <1>2, ReturnIs DEF Lifecycle!InitRolledBack, Ops
  <2>2. /\ f.undo /\ UNCHANGED <<st, frozen, real>>
        /\ IF f.err THEN phase' = "CLEANUP_PENDING" /\ UNCHANGED mods
           ELSE phase' = "UNINITIALIZED" /\ mods' = <<>>
    BY <1>2, <2>1 DEF Lifecycle!InitRolledBack, Lifecycle!Failed
  <2>3. CASE f.err
    BY <1>0, <2>1, <2>2, <2>3, ReturnStep
  <2>4. CASE ~f.err
    <3>1. f.i \in Nat /\ f.i <= Len(mods)
      BY <2>1, <2>2 DEF Frames, FrameInv, PlacePart, Upward
    <3>2. \A j \in 1 .. Len(mods) : st[mods[j]] = "UNINIT"
      BY <1>0, <2>1, <2>2, <2>4, <3>1 DEF FrameInv, InitPart
    <3> QED BY <2>1, <2>2, <2>4, <3>2, ForgetStep
  <2> QED BY <2>3, <2>4
<1>3. CASE Lifecycle(r, n)!StartReturn
  <2>1. PICK f \in Frames :
               /\ stack = <<f>> /\ FrameInv(f) /\ Lifecycle(r, n)!Top = f
               /\ f.op = "start" /\ f.i \notin 1 .. Len(mods) /\ stack' = <<>>
    BY <1>3, ReturnIs DEF Lifecycle!StartReturn, Ops
  <2>2. phase' \in {"READY", "CLEANUP_PENDING"} /\ UNCHANGED <<mods, st, frozen, real>>
    BY <1>3 DEF Lifecycle!StartReturn
  <2>3. phase = "TRANSITIONING"
    BY <2>1 DEF FrameInv, PhaseOf
  <2> QED BY <1>0, <2>1, <2>2, <2>3, ReturnStep DEF ModulesInv, RoutedPart, Freezing
<1>4. CASE Lifecycle(r, n)!StopReturn
  <2>1. PICK f \in Frames :
               /\ stack = <<f>> /\ FrameInv(f) /\ Lifecycle(r, n)!Top = f
               /\ f.op = "stop" /\ f.i \notin 1 .. Len(mods) /\ stack' = <<>>
    BY <1>4, ReturnIs DEF Lifecycle!StopReturn, Ops
  <2>2. phase' = "READY" /\ UNCHANGED <<mods, st, frozen, real>>
    BY <1>4 DEF Lifecycle!StopReturn
  <2>3. ~r
    BY <2>1 DEF ModulesInv, RoutedPart
  <2> QED BY <1>0, <2>1, <2>2, <2>3, ReturnStep
<1>5. CASE Lifecycle(r, n)!DeinitReturn
  <2>1. PICK f \in Frames :
               /\ stack = <<f>> /\ FrameInv(f) /\ Lifecycle(r, n)!Top = f
               /\ f.op = "deinit" /\ f.i \notin 1 .. Len(mods) /\ stack' = <<>>
    BY <1>5, ReturnIs DEF Lifecycle!DeinitReturn, Ops
  <2>2. /\ UNCHANGED <<st, frozen, real>>
        /\ IF f.err THEN UNCHANGED <<phase, mods>>
           ELSE IF f.rem = 0 \/ f.dom = Every
           THEN phase' = "UNINITIALIZED" /\ mods' = <<>>
           ELSE phase' = "READY" /\ UNCHANGED mods
    BY <1>5, <2>1 DEF Lifecycle!DeinitReturn, Lifecycle!Failed
  <2>3. ~r /\ phase = "CLEANUP_PENDING"
    BY <2>1 DEF ModulesInv, RoutedPart, FrameInv, PhaseOf
  <2>4. CASE ~f.err /\ (f.rem = 0 \/ f.dom = Every)
    <3>1. f.i \in Nat /\ f.i <= Len(mods)
      BY <2>1 DEF Frames, FrameInv, PlacePart, Upward
    <3>2. \A j \in 1 .. Len(mods) : st[mods[j]] = "UNINIT"
      BY <1>0, <2>1, <2>4, <3>1 DEF FrameInv, DeinitPart, Matches
    <3> QED BY <2>1, <2>2, <2>4, <3>2, ForgetStep
  <2>5. CASE ~(~f.err /\ (f.rem = 0 \/ f.dom = Every))
    <3>1. UNCHANGED mods /\ phase' \in {"READY", "CLEANUP_PENDING"}
      BY <2>2, <2>3, <2>5
    <3> QED BY <1>0, <2>1, <2>2, <2>3, <3>1, ReturnStep
  <2> QED BY <2>4, <2>5
<1> QED BY <1>1, <1>2, <1>3, <1>4, <1>5, <1>6

\* All steps together.
LEMMA ModulesStep ==
    ASSUME NEW r \in BOOLEAN, NEW n \in Nat, r \/ n = 0, ModulesInv(r), Lifecycle(r, n)!Next
    PROVE  ModulesInv(r)'
<1>1. ASSUME NEW dom \in Domains \cup {Every},
             \/ \E reset \in BOOLEAN : Lifecycle(r, n)!InitCall(dom, reset)
             \/ Lifecycle(r, n)!StartCall(dom) \/ Lifecycle(r, n)!StopCall(dom)
             \/ Lifecycle(r, n)!DeinitCall(dom)
      PROVE  ModulesInv(r)'
  BY <1>1, InitCallStep, StartCallStep, StopCallStep, DeinitCallStep
<1>2. Lifecycle(r, n)!Traverse => ModulesInv(r)'
  BY CallHookStep, SkipStep, HookSucceedsStep, HookFailsStep, ReturnsStep
     DEF Lifecycle!Traverse
<1>3. Lifecycle(r, n)!Filters \subseteq Domains \cup {Every}
  BY DEF Lifecycle!Filters
<1> QED
  BY <1>1, <1>2, <1>3 DEF Lifecycle!Next

\* At reset.
LEMMA ModulesInit == ASSUME Init, NEW r \in BOOLEAN  PROVE ModulesInv(r)
<1>1. Len(mods) = 0 /\ mods \in Seq(Modules) /\ DOMAIN mods = {} /\ stack = <<>>
  BY DEF Init
<1>2. TableInv
  <2>1. st \in [Modules -> States] /\ real = [m \in Modules |-> RealOf(st[m])]
    BY DEF Init, States, RealOf
  <2>2. Sorted(mods)
    BY <1>1 DEF Sorted
  <2>3. \A m \in Modules : st[m] = "UNINIT"
    BY DEF Init
  <2>4. \A i \in 1 .. Len(mods) : FALSE
    BY <1>1
  <2> QED BY <1>1, <2>1, <2>2, <2>3, <2>4 DEF Init, TableInv, Phases
<1>3. CallsPart /\ RoutedPart
  BY <1>1 DEF Init, CallsPart, RoutedPart
<1> QED BY <1>2, <1>3 DEF ModulesInv

\* What the invariant says of the hooks.
LEMMA HooksFollow ==
    ASSUME NEW r \in BOOLEAN, ModulesInv(r)
    PROVE  /\ HooksAreDue /\ StartInOrder /\ UninitializedIsOff
           /\ Len(stack) <= 1
           /\ (r /\ phase = "READY") => /\ frozen \/ Freezing
                                        /\ \A i \in DOMAIN mods : real[mods[i]] # "off"
<1>1. /\ \A m \in Modules : real[m] = RealOf(st[m]) /\ st[m] \in States
      /\ DOMAIN mods = 1 .. Len(mods) /\ Len(mods) \in Nat
      /\ \A j \in 1 .. Len(mods) : mods[j] \in Modules
  BY DEF ModulesInv, TableInv
<1>2. CASE stack = <<>>
  <2>1. DOMAIN stack = {} /\ Len(stack) = 0
    BY <1>2
  <2> QED
    BY <1>1, <2>1 DEF ModulesInv, TableInv, RoutedPart, RealOf, States, HooksAreDue, StartInOrder,
       UninitializedIsOff
<1>3. CASE stack # <<>>
  <2>1. PICK f \in Frames : stack = <<f>> /\ FrameInv(f)
    BY <1>3 DEF ModulesInv, CallsPart
  <2>2. DOMAIN stack = {1} /\ stack[1] = f /\ Len(stack) = 1
    BY <2>1, OneFrame
  <2>3. f.hook # "none" => f.i \in 1 .. Len(mods) /\ mods[f.i] \in Modules
    BY <1>1, <2>1 DEF FrameInv, HookPart
  <2>4. HooksAreDue
    <3>1. f.hook = "init" => st[mods[f.i]] = "UNINIT"
      BY <2>1, <2>3 DEF FrameInv, HookPart, InitPart
    <3>2. /\ f.hook = "start" => st[mods[f.i]] \in {"INITED", "STOPPED"}
          /\ f.hook = "stop" => st[mods[f.i]] = "STARTED"
          /\ f.hook = "deinit" => st[mods[f.i]] \in {"INITED", "STOPPED"}
      BY <2>1 DEF FrameInv, HookPart
    <3> QED
      BY <1>1, <2>2, <2>3, <3>1, <3>2 DEF HooksAreDue, Running, Target, RealOf
  <2>5. StartInOrder
    <3> SUFFICES ASSUME f.hook = "start", NEW m \in Modules, Matches(m, f.dom),
                        Prio[m] < Prio[mods[f.i]], real[m] = "inited"
                 PROVE  FALSE
      BY <2>2 DEF StartInOrder, Running, Target
    <3>1. st[m] \in {"INITED", "STOPPED"}
      BY <1>1 DEF RealOf, States
    <3>2. PICK j \in 1 .. Len(mods) : mods[j] = m
      BY <3>1 DEF ModulesInv, TableInv
    <3>3. f.op = "start" /\ ~f.undo /\ f.i \in 1 .. Len(mods)
      BY <2>1, <2>3 DEF FrameInv, HookPart
    <3>4. Prio[m] \in Nat /\ Prio[mods[f.i]] \in Nat
      BY <2>3, TableAssumption
    <3>5. ~(f.i < j) /\ f.i # j
      BY <1>1, <3>2, <3>3, <3>4 DEF ModulesInv, TableInv, Sorted
    <3>6. j < f.i
      BY <3>2, <3>3, <3>5
    <3> QED
      BY <2>1, <3>1, <3>2, <3>3, <3>6 DEF FrameInv, StartPart
  <2>6. UninitializedIsOff
    BY <1>1 DEF ModulesInv, TableInv, UninitializedIsOff, RealOf
  <2>7. (r /\ phase = "READY") => /\ frozen \/ Freezing
                                  /\ \A i \in DOMAIN mods : real[mods[i]] # "off"
    BY <1>1 DEF ModulesInv, RoutedPart, RealOf, States
  <2> QED BY <2>2, <2>4, <2>5, <2>6, <2>7
<1> QED BY <1>2, <1>3

-----------------------------------------------------------------------------
(* The session of the execution instances: its inductive invariant.           *)

\* The steps of a stop; an instance whose hooks were called; the steps of an init; a
\* session that was inited.
Stops == {"stopHrt", "unbind", "safeStop"}
IsUp(i) == hook[i] \in {"inited", "started"}
Filling == pc \in {"init", "bind"}
Opened == session \in {"INITED", "STARTED"}

\* The session in every step of the main loop.
CallsInv ==
    /\ session = "STOPPING" <=> pc \in Stops
    /\ pc \in {"assemble", "init", "bind"} => session = "NONE"
    /\ pc \in {"start", "open"} => session = "INITED"
    /\ pc = "hrt" => session \in {"INITED", "STARTED"}
    /\ pc \in {"drain", "callback"} => session = "STARTED"
    /\ pc = "returned" => session \in {"NONE", "STARTED"}
    /\ after # "idle" => pc \in Stops
    /\ (pc \in {"callback", "returned"} \/ after = "returned") => drained < Budget /\ block # 0
    /\ running # 0 => session = "STARTED"

\* Where the main loop is in the table, and what it has counted.
PlaceInv ==
    /\ pc \in {"init", "bind", "start", "drain"} => at # 0
    /\ pc \in Stops => at <= count
    /\ (Opened \/ Filling) => count = N
    /\ (Opened \/ pc = "bind") => initDone = N
    /\ pc = "init" => initDone = at - 1
    /\ (session = "NONE" /\ ~Filling) => count = 0

\* The hooks that were called; those of a stop, down to where it is.
HooksInv ==
    /\ (session = "STARTED" \/ pc \in {"hrt", "open"}) => \A i \in 1 .. N : hook[i] = "started"
    /\ (session = "INITED" \/ pc = "bind") => \A i \in 1 .. N : IsUp(i)
    /\ pc = "start" => \A i \in 1 .. N : i < at => hook[i] = "started"
    /\ pc = "init" => \A i \in 1 .. N : IsUp(i) <=> i < at
    /\ pc \in Stops => \A i \in 1 .. N : at < i => ~IsUp(i)
    /\ (session = "NONE" /\ ~Filling) => \A i \in 1 .. N : ~IsUp(i)

\* The slots that are bound, and the timer.
SlotsInv(r) ==
    /\ Opened => bound = 1 .. N
    /\ pc = "bind" => bound = 1 .. at - 1
    /\ (session = "NONE" /\ pc # "bind") => bound = {}
    /\ (session = "NONE" \/ pc \in {"unbind", "safeStop"}) => ~hrtOn
    /\ pc = "safeStop" => bound = {}
    /\ (~r /\ (session = "STARTED" \/ pc = "open")) => hrtOn

SessionInv(r) ==
    /\ Session(r)!TypeOK
    /\ CallsInv /\ PlaceInv /\ HooksInv /\ SlotsInv(r)

-----------------------------------------------------------------------------
(* Every step of the session preserves it: one step of the proof per action.   *)

\* exec_teardown_session and exec_abort_session, step by step.
LEMMA SessionStopping ==
    ASSUME NEW r \in BOOLEAN, Session(r)!ExecAssumption, SessionInv(r), Session(r)!Stopping
    PROVE  SessionInv(r)'
<1> USE DEF SessionInv, Session!TypeOK, CallsInv, PlaceInv, HooksInv, SlotsInv, Stops, IsUp,
            Filling, Opened, Session!ExecAssumption, Session!Inst, Session!Main,
            Session!Goto, Session!SetHook, Session!hrt, Session!drain
<1>1. CASE Session(r)!StopHrt
  BY <1>1 DEF Session!StopHrt
<1>2. CASE Session(r)!Unbind
  BY <1>2 DEF Session!Unbind
<1>3. CASE Session(r)!SafeStop
  BY <1>3 DEF Session!SafeStop
<1>4. CASE Session(r)!Clear
  <2>1. Session(r)!TypeOK'
    <3>1. /\ count' = 0 /\ initDone' = 0 /\ bound' = {} /\ session' = "NONE"
          /\ pc' \in {"idle", "assemble", "returned"} /\ after' = "idle"
          /\ hrtReady' \in BOOLEAN /\ hrtOn' \in BOOLEAN /\ ~hrtOn'
      BY <1>4 DEF Session!Clear
    <3>2. UNCHANGED <<hook, ready, at, drained, block, running>>
      BY <1>4 DEF Session!Clear
    <3>3. count' \in {0, N} /\ initDone' \in 0 .. count' /\ bound' \subseteq 1 .. count'
      BY <3>1
    <3> QED  BY <3>1, <3>2, <3>3
  <2>2. CallsInv'  BY <1>4 DEF Session!Clear
  <2>3. PlaceInv'  BY <1>4 DEF Session!Clear
  <2>4. HooksInv'  BY <1>4 DEF Session!Clear
  <2>5. SlotsInv(r)'  BY <1>4 DEF Session!Clear
  <2> QED BY <2>1, <2>2, <2>3, <2>4, <2>5
<1>5. CASE Session(r)!SafeStopAll
  BY <1>5 DEF Session!SafeStopAll, Session!Teardown, Session!Close
<1> QED
  BY <1>1, <1>2, <1>3, <1>4, <1>5 DEF Session!Stopping

\* bm_exec_init_all, and what it does when a hook fails.
LEMMA SessionInitialising ==
    ASSUME NEW r \in BOOLEAN, Session(r)!ExecAssumption, SessionInv(r), Session(r)!Initialising
    PROVE  SessionInv(r)'
<1> USE DEF SessionInv, Session!TypeOK, CallsInv, PlaceInv, HooksInv, SlotsInv, Stops, IsUp,
            Filling, Opened, Session!ExecAssumption, Session!Inst, Session!Main,
            Session!Goto, Session!SetHook, Session!hrt, Session!drain
<1>1. CASE Session(r)!InitAll
  BY <1>1 DEF Session!InitAll, Session!Teardown, Session!Close
<1>2. CASE Session(r)!RefuseTable
  BY <1>2 DEF Session!RefuseTable
<1>3. CASE Session(r)!Assemble
  BY <1>3 DEF Session!Assemble
<1>4. CASE Session(r)!InitOne
  BY <1>4 DEF Session!InitOne
<1>5. CASE Session(r)!FailInit
  BY <1>5 DEF Session!FailInit, Session!Abort, Session!Close, Session!AbortFrom
<1>6. CASE Session(r)!RefuseStreams
  BY <1>6 DEF Session!RefuseStreams, Session!Abort, Session!Close, Session!AbortFrom
<1>7. CASE Session(r)!AcceptStreams
  BY <1>7 DEF Session!AcceptStreams
<1>8. CASE Session(r)!BindOne
  BY <1>8 DEF Session!BindOne
<1>9. CASE Session(r)!FailBind
  BY <1>9 DEF Session!FailBind, Session!Abort, Session!Close, Session!AbortFrom
<1>10. CASE Session(r)!InitDone
  BY <1>10 DEF Session!InitDone
<1> QED
  BY <1>1, <1>2, <1>3, <1>4, <1>5, <1>6, <1>7, <1>8, <1>9, <1>10 DEF Session!Initialising

\* bm_exec_start_all and bm_exec_irq_release_all.
LEMMA SessionStarting ==
    ASSUME NEW r \in BOOLEAN, Session(r)!ExecAssumption, SessionInv(r), Session(r)!Starting
    PROVE  SessionInv(r)'
<1> USE DEF SessionInv, Session!TypeOK, CallsInv, PlaceInv, HooksInv, SlotsInv, Stops, IsUp,
            Filling, Opened, Session!ExecAssumption, Session!Inst, Session!Main,
            Session!Goto, Session!SetHook, Session!hrt, Session!drain
<1>1. CASE Session(r)!StartAll
  BY <1>1 DEF Session!StartAll
<1>2. CASE Session(r)!StartOne
  BY <1>2 DEF Session!StartOne
<1>3. CASE Session(r)!FailStart
  BY <1>3 DEF Session!FailStart, Session!Abort, Session!Close, Session!AbortFrom
<1>4. CASE Session(r)!RefuseEntry
  BY <1>4 DEF Session!RefuseEntry
<1>5. CASE Session(r)!AllStarted
  BY <1>5 DEF Session!AllStarted, Session!EveryOneStarted, Session!AfterStart
<1>6. CASE Session(r)!StartHrt
  BY <1>6 DEF Session!StartHrt
<1>7. CASE Session(r)!FailHrt
  BY <1>7 DEF Session!FailHrt, Session!Abort, Session!Close, Session!AbortFrom
<1>8. CASE Session(r)!Open
  BY <1>8 DEF Session!Open
<1>9. CASE Session(r)!IrqRelease
  BY <1>9 DEF Session!IrqRelease
<1> QED
  BY <1>1, <1>2, <1>3, <1>4, <1>5, <1>6, <1>7, <1>8, <1>9 DEF Session!Starting

\* bm_exec_drain_streams, whose callbacks may stop everything.
LEMMA SessionDraining ==
    ASSUME NEW r \in BOOLEAN, Session(r)!ExecAssumption, SessionInv(r), Session(r)!Draining
    PROVE  SessionInv(r)'
<1> USE DEF SessionInv, Session!TypeOK, CallsInv, PlaceInv, HooksInv, SlotsInv, Stops, IsUp,
            Filling, Opened, Session!ExecAssumption, Session!Inst, Session!Main,
            Session!Goto, Session!SetHook, Session!hrt, Session!drain
<1>1. CASE Session(r)!BeginDrain
  BY <1>1 DEF Session!BeginDrain
<1>2. CASE Session(r)!TakeBlock
  BY <1>2 DEF Session!TakeBlock
<1>3. CASE Session(r)!StopInCallback
  BY <1>3 DEF Session!StopInCallback, Session!Teardown, Session!Close
<1>4. CASE Session(r)!Return
  BY <1>4 DEF Session!Return
<1>5. CASE Session(r)!GoOn
  BY <1>5 DEF Session!GoOn, Session!StillOpen
<1>6. CASE Session(r)!Leave
  BY <1>6 DEF Session!Leave, Session!StillOpen
<1>7. CASE Session(r)!NextStream
  BY <1>7 DEF Session!NextStream
<1>8. CASE Session(r)!EndDrain
  BY <1>8 DEF Session!EndDrain
<1> QED
  BY <1>1, <1>2, <1>3, <1>4, <1>5, <1>6, <1>7, <1>8 DEF Session!Draining

\* At reset.
LEMMA SessionInit == ASSUME NEW r \in BOOLEAN, Session(r)!ExecAssumption, Session(r)!Init
                     PROVE  SessionInv(r)
<1>1. /\ hook = [i \in 1 .. N |-> "off"] /\ \A i \in 1 .. N : hook[i] = "off"
      /\ N \in Nat /\ MaxReady \in Nat /\ Budget \in Nat
  BY DEF Session!Init, Session!Inst, Session!ExecAssumption
<1>2. Session(r)!TypeOK
  <2>1. /\ session = "NONE" /\ count = 0 /\ initDone = 0 /\ bound = {} /\ ~hrtOn
        /\ hrtReady \in BOOLEAN /\ hrtOn \in BOOLEAN /\ ready = [i \in 1 .. N |-> 0]
        /\ pc = "idle" /\ at = 0 /\ after = "idle" /\ drained = 0 /\ block = 0 /\ running = 0
    BY DEF Session!Init, Session!Inst
  <2>2. count \in {0, N} /\ initDone \in 0 .. count /\ bound \subseteq 1 .. count
    BY <2>1
  <2>3. ready \in [1 .. N -> 0 .. MaxReady]
    BY <1>1, <2>1
  <2>4. hook \in [1 .. N -> {"off", "inited", "failed", "started", "safe"}]
    BY <1>1
  <2> QED BY <1>1, <2>1, <2>2, <2>3, <2>4 DEF Session!TypeOK, Session!Inst
<1>3. CallsInv /\ PlaceInv /\ HooksInv /\ SlotsInv(r)
  BY <1>1 DEF Session!Init, CallsInv, PlaceInv, HooksInv, SlotsInv, Stops, IsUp, Filling, Opened
<1> QED BY <1>2, <1>3 DEF SessionInv

\* The interrupts, between any two steps.
LEMMA SessionInterrupts ==
    ASSUME NEW r \in BOOLEAN, Session(r)!ExecAssumption, SessionInv(r),
           (\E i \in 1 .. N : Session(r)!Commit(i) \/ Session(r)!Enter(i)) \/ Session(r)!Exit
    PROVE  SessionInv(r)'
<1> USE DEF SessionInv, Session!TypeOK, CallsInv, PlaceInv, HooksInv, SlotsInv, Stops, IsUp,
            Filling, Opened, Session!ExecAssumption, Session!Inst, Session!hrt, Session!drain
<1>1. ASSUME NEW i \in 1 .. N, Session(r)!Commit(i)  PROVE SessionInv(r)'
  BY <1>1 DEF Session!Commit
<1>2. ASSUME NEW i \in 1 .. N, Session(r)!Enter(i)  PROVE SessionInv(r)'
  BY <1>2 DEF Session!Enter, Session!GateOpen
<1>3. CASE Session(r)!Exit
  BY <1>3 DEF Session!Exit
<1> QED BY <1>1, <1>2, <1>3

\* All steps together.
LEMMA SessionStep ==
    ASSUME NEW r \in BOOLEAN, Session(r)!ExecAssumption, SessionInv(r), Session(r)!Next
    PROVE  SessionInv(r)'
BY SessionStopping, SessionInitialising, SessionStarting, SessionDraining, SessionInterrupts
   DEF Session!Next, Session!Inst

\* What the invariant says of slots, sessions and instances.
LEMMA SessionFollows ==
    ASSUME NEW r \in BOOLEAN, SessionInv(r)
    PROVE  /\ Session(r)!RunsOnlyStarted /\ Session(r)!NothingLeft /\ Session(r)!OpenIsComplete
BY DEF SessionInv, Session!TypeOK, CallsInv, PlaceInv, HooksInv, SlotsInv, Stops, IsUp, Filling,
       Opened, Session!Inst, Session!RunsOnlyStarted, Session!NothingLeft, Session!OpenIsComplete

\* A stop goes down the table, so none behind the one it is at is still up.
LEMMA ReverseStep ==
    ASSUME NEW r \in BOOLEAN, SessionInv(r), Session(r)!Next,
           NEW i \in 1 .. N, hook[i] \in {"inited", "started"}, hook'[i] = "safe"
    PROVE  \A j \in i + 1 .. N : hook[j] \notin {"inited", "started"}
<1>1. \/ Session(r)!SafeStop
      \/ UNCHANGED hook
      \/ \E k, h : hook' = [hook EXCEPT ![k] = h] /\ h \in {"inited", "failed", "started"}
  BY DEF Session!StopHrt, Session!Unbind, Session!Clear, Session!SafeStopAll,
         Session!InitAll, Session!RefuseTable, Session!Assemble, Session!InitOne,
         Session!FailInit, Session!RefuseStreams, Session!AcceptStreams, Session!BindOne,
         Session!FailBind, Session!InitDone, Session!StartAll, Session!StartOne,
         Session!FailStart, Session!RefuseEntry, Session!AllStarted, Session!StartHrt,
         Session!FailHrt, Session!Open, Session!IrqRelease, Session!BeginDrain,
         Session!TakeBlock, Session!StopInCallback, Session!Return, Session!GoOn,
         Session!Leave, Session!NextStream, Session!EndDrain, Session!Exit,
         Session!Commit, Session!Enter, Session!Teardown, Session!Abort, Session!Close,
         Session!SetHook, Session!Stopping, Session!Initialising, Session!Starting,
         Session!Draining, Session!Next
<1>2. Session(r)!SafeStop
  BY <1>1 DEF SessionInv, Session!TypeOK, Session!Inst
<1>3. pc = "safeStop" /\ at = i /\ at \in Nat
  BY <1>2 DEF Session!SafeStop, Session!Main, Session!SetHook, SessionInv, Session!TypeOK,
     Session!Inst
<1> QED
  BY <1>3 DEF SessionInv, HooksInv, Stops, IsUp

-----------------------------------------------------------------------------
(* Synchronised sampling.                                                      *)

HwOps == {"configure", "arm", "trigger"}
HwStates == {"off", "setup", "armed", "running"}

\* Between two calls the state is the one of the hardware.
SyncRests ==
    /\ state # "TRANSITION"
    /\ state = "IDLE" => active = NoDomain /\ \A d \in SyncDomains : hw[d] = "off"
    /\ state # "IDLE" => active \in SyncDomains
    /\ state = "ARMED" => hw[active] = "armed"
    /\ state = "CONFIGURED" => hw[active] \in {"setup", "running"}

\* A call that works on the hardware, and one that stops it.
SyncWorks ==
    /\ state = "TRANSITION" /\ call.dom \in SyncDomains
    /\ call.op = "configure" => active \in {NoDomain, call.dom}
    /\ call.op # "configure" => active = call.dom
    /\ call.op = "trigger" /\ call.step = 1 => hw[call.dom] = "armed"
    /\ call.step = 2 => hw[call.dom] = Sampling!Set(call.op)
SyncStops == state = "TRANSITION" /\ active = call.dom

SyncInv ==
    /\ Sampling!TypeOK
    /\ call \in [op : HwOps \cup {"none", "stop"}, dom : SyncDomains \cup {NoDomain}, step : 0 .. 4]
    /\ \A d \in SyncDomains : hw[d] # "off" => d \in {active, call.dom}
    /\ call.step = 4 => \A d \in SyncDomains : hw[d] = "off"
    /\ call.step = 0 <=> call.op = "none"
    /\ call.step = 0 => call = Sampling!None /\ SyncRests
    /\ call.op \in HwOps => SyncWorks
    /\ call.op = "stop" => SyncStops /\ call.step \in {1, 4}

LEMMA SyncStarts ==
    ASSUME Sampling!Init
    PROVE  SyncInv
BY DEF SyncInv, SyncRests, Sampling!TypeOK, Sampling!Init, Sampling!None, HwOps, HwStates

LEMMA SyncBegins ==
    ASSUME Sampling!SyncAssumption, SyncInv,
           \/ \E d \in SyncDomains : Sampling!Configure(d) \/ Sampling!Arm(d) \/ Sampling!Trigger(d)
           \/ \E d \in SyncDomains \cup {NoDomain} : Sampling!SafeStop(d)
    PROVE  SyncInv'
<1> USE DEF SyncInv, SyncRests, SyncWorks, SyncStops, Sampling!TypeOK, Sampling!SyncAssumption, Sampling!None,
            HwOps, HwStates, Sampling!Idle, Sampling!SetState, Sampling!Begin
<1>1. ASSUME NEW d \in SyncDomains, Sampling!Configure(d)  PROVE SyncInv'
  BY <1>1 DEF Sampling!Configure, Sampling!MayConfigure
<1>2. ASSUME NEW d \in SyncDomains, Sampling!Arm(d)  PROVE SyncInv'
  BY <1>2 DEF Sampling!Arm, Sampling!MayArm
<1>3. ASSUME NEW d \in SyncDomains, Sampling!Trigger(d)  PROVE SyncInv'
  BY <1>3 DEF Sampling!Trigger, Sampling!MayTrigger
<1>4. ASSUME NEW d \in SyncDomains \cup {NoDomain}, Sampling!SafeStop(d)  PROVE SyncInv'
  BY <1>4 DEF Sampling!SafeStop, Sampling!Target
<1> QED BY <1>1, <1>2, <1>3, <1>4

LEMMA SyncGoesOn ==
    ASSUME Sampling!SyncAssumption, SyncInv,
           \/ Sampling!HalSucceeds \/ Sampling!Complete \/ Sampling!HalFails
           \/ Sampling!HalStops \/ Sampling!Release
    PROVE  SyncInv'
<1> USE DEF SyncInv, SyncRests, SyncWorks, SyncStops, Sampling!TypeOK, Sampling!SyncAssumption, Sampling!None,
            HwOps, HwStates, Sampling!SetState, Sampling!ToStep, Sampling!Set
<1>1. CASE Sampling!HalSucceeds
  BY <1>1 DEF Sampling!HalSucceeds
<1>2. CASE Sampling!Complete
  BY <1>2 DEF Sampling!Complete, Sampling!After
<1>3. CASE Sampling!HalFails
  BY <1>3 DEF Sampling!HalFails
<1>4. CASE Sampling!HalStops
  BY <1>4 DEF Sampling!HalStops, Sampling!Stopped, Sampling!In
<1>5. CASE Sampling!Release
  BY <1>5 DEF Sampling!Release
<1> QED BY <1>1, <1>2, <1>3, <1>4, <1>5

LEMMA SyncStep ==
    ASSUME Sampling!SyncAssumption, SyncInv, Sampling!Next
    PROVE  SyncInv'
BY SyncBegins, SyncGoesOn DEF Sampling!Next

LEMMA SyncFollows ==
    ASSUME Sampling!SyncAssumption, SyncInv
    PROVE  Sampling!StateIsTrue /\ Sampling!TypeOK
BY DEF SyncInv, SyncRests, SyncWorks, SyncStops, Sampling!TypeOK, HwOps, HwStates,
       Sampling!StateIsTrue, Sampling!SyncAssumption, Sampling!None

LEMMA SyncOnce ==
    ASSUME Sampling!SyncAssumption, SyncInv, Sampling!Next \/ UNCHANGED syncVars
    PROVE  Sampling!OneShot
<1> USE DEF SyncInv, SyncWorks, SyncRests, SyncStops, Sampling!TypeOK, HwOps, HwStates, Sampling!Set, Sampling!SyncAssumption
<1> SUFFICES ASSUME NEW d \in SyncDomains, hw'[d] = "running", call.op = "trigger", call.step = 1
             PROVE  hw[d] = "armed"
  BY DEF Sampling!OneShot
<1>1. Sampling!HalSucceeds \/ Sampling!HalFails \/ hw' = hw
  BY DEF Sampling!Next, Sampling!Configure, Sampling!Arm, Sampling!Trigger, Sampling!SafeStop,
         Sampling!HalStops, Sampling!Release, Sampling!Complete, Sampling!Idle, Sampling!None, Sampling!In, syncVars
<1>2. d # call.dom => hw'[d] = hw[d]
  BY <1>1 DEF Sampling!HalSucceeds, Sampling!HalFails
<1> QED BY <1>1, <1>2

-----------------------------------------------------------------------------
(* The line.                                                                   *)

LineSteps == {"rest", "drive", "start", "start_later", "undrive", "undrive_tail?",
              "undrive_timeout?", "undrive_errors?", "undrive_idle?", "transmit", "tail?",
              "timeout?", "errors?", "idle?", "abort"}

\* The steps of a poll before it has looked for a timeout.
BeforeCheck == {"transmit", "start_later", "undrive_tail?", "tail?", "undrive_timeout?", "timeout?"}
Undriving == {"abort", "undrive", "undrive_tail?", "undrive_timeout?", "undrive_errors?",
              "undrive_idle?"}

\* A call takes no longer than the poll before it is ago; what is sent began no longer
\* ago than the timeout and the time since a poll has looked for it.
LineInv ==
    /\ lineDir \in {"PRE", "TX", "TAIL", "RX"} /\ air \in {"none", "frame", "old"}
    /\ de \in BOOLEAN /\ errors \in BOOLEAN /\ fired \in BOOLEAN /\ heard \in BOOLEAN
    /\ age \in [Line({})!Clocks -> Nat] /\ \A c \in Line({})!Clocks : age[c] <= Line({})!Oldest(c)
    /\ lineMain \in [at : LineSteps, lag : Nat]
    /\ lineMain.at = "rest" => lineMain = Line({})!Rest
    /\ lineMain.lag <= age["poll"] /\ age["poll"] <= PollGap /\ cut \in 0 .. PostDelay
    /\ lineDir \in {"TX", "TAIL"} =>
          IF lineMain.at \in BeforeCheck
          THEN age["start"] <= TxTimeout + PollGap + lineMain.lag
          ELSE age["start"] <= TxTimeout + age["poll"]

\* Without errors of the port, the driver is on while the direction says so, but in the
\* calls that are about to turn it.
LineDriven ==
    /\ ~errors /\ (air = "frame" => de)
    /\ lineMain.at \notin Undriving \cup {"drive"} => (de <=> lineDir # "RX")
    /\ lineMain.at \in Undriving => lineDir = "RX" /\ air # "frame"
    /\ lineMain.at = "drive" => lineDir \in IF PreDelay = 0 THEN {"TX", "TAIL"} ELSE {"PRE"}
    /\ lineMain.at = "transmit" => lineDir = "PRE"
    /\ lineMain.at \in {"start", "start_later"} => lineDir \in {"TX", "TAIL"}

\* Without any fault, what the port sends is the frame of the direction, and not late.
LineClean ==
    /\ lineDir = "TAIL" => air # "frame"
    /\ air = "old" => lineMain.at = "abort"
    /\ lineMain.at \in {"drive", "start", "start_later"} => air = "none"
    /\ lineMain.at \in {"start", "start_later"} \/ (lineMain.at = "drive" /\ PreDelay = 0) =>
          lineDir = "TX" /\ age["start"] = lineMain.lag
    /\ air = "frame" => /\ lineDir = "TX" /\ lineMain.lag <= age["start"]
                        /\ age["start"] < TxTimeout

LEMMA LineFacts ==
    ASSUME NEW F, Line(F)!Rs485Assumption
    PROVE  /\ PreDelay \in Nat /\ PostDelay \in Nat /\ RxIdle \in Nat /\ PollGap \in Nat
           /\ TxTimeout \in Nat /\ LongestFrame \in Nat
           /\ Line({})!Clocks = {"pre", "start", "end", "rx", "poll"}
           /\ \A c \in Line({})!Clocks : Line({})!Oldest(c) \in Nat /\ PollGap < Line({})!Oldest(c)
           /\ Line({})!Oldest("start") = TxTimeout + 2 * PollGap + 1
<1>1. /\ PreDelay \in Nat /\ PostDelay \in Nat /\ RxIdle \in Nat /\ PollGap \in Nat
      /\ TxTimeout \in Nat /\ LongestFrame \in Nat
  BY DEF Line!Rs485Assumption
<1>2. /\ Line({})!Limit("pre") = PreDelay /\ Line({})!Limit("start") = TxTimeout
      /\ Line({})!Limit("end") = PostDelay /\ Line({})!Limit("rx") = RxIdle
      /\ Line({})!Limit("poll") = PollGap
  BY DEF Line!Limit
<1>3. Line({})!Clocks = {"pre", "start", "end", "rx", "poll"}
  BY DEF Line!Clocks
<1>4. \A c \in Line({})!Clocks : Line({})!Limit(c) \in Nat
  BY <1>1, <1>2, <1>3
<1> QED BY <1>1, <1>2, <1>3, <1>4 DEF Line!Oldest

\* What does not depend on the faults.
LEMMA LineSame ==
    ASSUME NEW F
    PROVE  /\ Line(F)!Clocks = Line({})!Clocks /\ Line(F)!Rest = Line({})!Rest
           /\ \A c : Line(F)!Oldest(c) = Line({})!Oldest(c)
           /\ Line({})!Clocks' = Line({})!Clocks /\ Line({})!Rest' = Line({})!Rest
           /\ \A c : Line({})!Oldest(c)' = Line({})!Oldest(c)
BY DEF Line!Clocks, Line!Rest, Line!Oldest, Line!Limit

LEMMA LineStarts ==
    ASSUME NEW F, Line(F)!Rs485Assumption, Line({})!Init
    PROVE  LineInv /\ LineDriven /\ LineClean
<1>1. /\ lineDir = "RX" /\ air = "none" /\ age = [c \in Line({})!Clocks |-> 0]
      /\ lineMain = [at |-> "rest", lag |-> 0] /\ cut = PostDelay
  BY DEF Line!Init, Line!Rest
<1>2. /\ de \in BOOLEAN /\ errors \in BOOLEAN /\ fired \in BOOLEAN /\ heard \in BOOLEAN
      /\ ~de /\ ~errors
  BY DEF Line!Init
<1>3. /\ age \in [Line({})!Clocks -> Nat] /\ \A c \in Line({})!Clocks : age[c] = 0
      /\ age["poll"] = 0 /\ age["start"] = 0
  BY <1>1, LineFacts
<1>4. /\ lineMain \in [at : LineSteps, lag : Nat] /\ lineMain.at = "rest" /\ lineMain.lag = 0
      /\ lineMain = Line({})!Rest
  BY <1>1 DEF LineSteps, Line!Rest
<1>5. \A c \in Line({})!Clocks : age[c] <= Line({})!Oldest(c)
  BY <1>3, LineFacts
<1>6. LineInv
  BY <1>1, <1>2, <1>3, <1>4, <1>5, LineFacts DEF LineInv, BeforeCheck
<1> QED BY <1>1, <1>2, <1>4, <1>6 DEF LineDriven, LineClean, Undriving

\* Time goes by.
LEMMA LineTicks ==
    ASSUME NEW F, Line(F)!Rs485Assumption, LineInv, Line(F)!Tick
    PROVE  /\ LineInv'
           /\ LineDriven => LineDriven'
           /\ LineClean /\ F = {} /\ Line({})!InTime => LineClean'
<1>1. /\ lineDir' = lineDir /\ air' = air /\ cut' = cut
      /\ de' = de /\ errors' = errors /\ fired' = fired /\ heard' = heard
  BY DEF Line!Tick
<1>2. /\ age' = [c \in Line({})!Clocks |-> IF age[c] < Line({})!Oldest(c) THEN age[c] + 1 ELSE age[c]]
      /\ age["poll"] < PollGap
  BY LineSame DEF Line!Tick
<1>3. /\ lineMain'.at = lineMain.at /\ lineMain' \in [at : LineSteps, lag : Nat]
      /\ lineMain.at = "rest" => lineMain' = lineMain
      /\ lineMain.at # "rest" => lineMain'.lag = lineMain.lag + 1
  BY DEF Line!Tick, Line!At, LineInv
<1>4. /\ age \in [Line({})!Clocks -> Nat] /\ age' \in [Line({})!Clocks -> Nat]
      /\ \A c \in Line({})!Clocks : age'[c] <= Line({})!Oldest(c)
  BY <1>2, LineFacts DEF LineInv
<1>5. age'["poll"] = age["poll"] + 1 /\ age'["poll"] <= PollGap
  BY <1>2, <1>4, LineFacts
<1>6. /\ age'["start"] \in Nat /\ age["start"] \in Nat /\ age'["start"] <= age["start"] + 1
      /\ age["start"] <= TxTimeout + 2 * PollGap => age'["start"] = age["start"] + 1
  BY <1>2, <1>4, LineFacts
<1>7. /\ lineMain.lag \in Nat /\ lineMain.lag <= age["poll"] /\ age["poll"] \in Nat
      /\ (lineMain.at = "rest" => lineMain.lag = 0) /\ PollGap \in Nat /\ TxTimeout \in Nat
  BY <1>4, LineFacts DEF LineInv, Line!Rest
<1>8. LineInv'
  <2>1. lineMain'.lag <= age'["poll"]
    BY <1>3, <1>5, <1>7
  <2>2. lineDir' \in {"TX", "TAIL"} =>
          IF lineMain'.at \in BeforeCheck
          THEN age'["start"] <= TxTimeout + PollGap + lineMain'.lag
          ELSE age'["start"] <= TxTimeout + age'["poll"]
    BY <1>1, <1>3, <1>5, <1>6, <1>7 DEF LineInv, BeforeCheck
  <2> QED BY <1>1, <1>3, <1>4, <1>5, <2>1, <2>2, LineSame DEF LineInv
<1>9. LineDriven => LineDriven'
  BY <1>1, <1>3 DEF LineDriven
<1>10. ASSUME LineClean, F = {}, Line({})!InTime PROVE LineClean'
  <2>1. air = "frame" => age["start"] < LongestFrame
    BY <1>10 DEF Line!Tick
  <2>2. LongestFrame < TxTimeout /\ PollGap < TxTimeout /\ LongestFrame \in Nat
    BY <1>10, LineFacts DEF Line!InTime
  <2>3. age["start"] = lineMain.lag \/ age["start"] < TxTimeout => age'["start"] = age["start"] + 1
    BY <1>6, <1>7, <2>2 DEF LineInv
  <2> QED BY <1>1, <1>3, <1>6, <1>7, <1>10, <2>1, <2>2, <2>3 DEF LineClean
<1> QED BY <1>8, <1>9, <1>10

\* The steps that change neither the direction nor the frame, nor read a clock.
LEMMA LineBegins ==
    ASSUME NEW F, Line(F)!Rs485Assumption, LineInv, Line(F)!Send
    PROVE  LineInv' /\ (LineDriven => LineDriven') /\ (LineClean => LineClean')
<1>1. /\ lineMain = Line({})!Rest /\ lineMain.at = "rest" /\ lineMain.lag = 0 /\ lineDir = "RX"
      /\ age["poll"] < PollGap /\ air' = air /\ cut' = cut
      /\ de' = de /\ errors' = errors /\ fired' = fired /\ heard' = heard
      /\ lineMain' = [lineMain EXCEPT !.at = "drive"]
  BY DEF Line!Send, Line!At, Line!GoTo, LineInv, Line!Rest
<1>2. /\ lineDir' = IF PreDelay = 0 THEN "TX" ELSE "PRE"
      /\ \E cs \in {{"start"}, {"pre"}} :
            /\ age' = [c \in Line({})!Clocks |-> IF c \in cs THEN 0 ELSE age[c]]
            /\ PreDelay = 0 => cs = {"start"}
  BY LineSame DEF Line!Send, Line!Began
<1>3. /\ age' \in [Line({})!Clocks -> Nat] /\ age'["poll"] = age["poll"]
      /\ \A c \in Line({})!Clocks : age'[c] <= Line({})!Oldest(c)
      /\ PreDelay = 0 => age'["start"] = 0
  BY <1>2, LineFacts DEF LineInv
<1>4. lineMain' \in [at : LineSteps, lag : Nat] /\ lineMain'.at = "drive" /\ lineMain'.lag = 0
  BY <1>1 DEF LineInv, LineSteps
<1>5. age["poll"] \in Nat /\ PollGap \in Nat /\ TxTimeout \in Nat
  BY LineFacts DEF LineInv
<1>6. LineInv'
  BY <1>1, <1>2, <1>3, <1>4, <1>5, LineSame DEF LineInv, BeforeCheck
<1>7. LineDriven => LineDriven'
  BY <1>1, <1>2, <1>4 DEF LineDriven, Undriving
<1>8. LineClean => LineClean'
  BY <1>1, <1>2, <1>3, <1>4 DEF LineClean, LineInv
<1> QED BY <1>6, <1>7, <1>8

\* A step that reads no clock anew.
LEMMA LineMoves ==
    ASSUME NEW F, Line(F)!Rs485Assumption, LineInv, age' = age,
           lineDir' \in {lineDir, "RX"}, air' \in {"none", "frame", "old"},
           de' \in BOOLEAN, errors' \in BOOLEAN, fired' \in BOOLEAN, heard' \in BOOLEAN,
           cut' \in 0 .. PostDelay, lineMain'.at \in LineSteps,
           lineMain' = Line({})!Rest \/ lineMain' = [lineMain EXCEPT !.at = lineMain'.at],
           lineMain'.at = "rest" => lineMain' = Line({})!Rest,
           lineMain'.at \in BeforeCheck => lineMain.at \in BeforeCheck,
           \/ lineDir' = "RX" \/ lineMain.at \notin BeforeCheck \/ lineMain'.at \in BeforeCheck
           \/ age["start"] <= TxTimeout + age["poll"]
    PROVE  LineInv'
<1>1. lineMain' \in [at : LineSteps, lag : Nat] /\ lineMain'.lag \in {0, lineMain.lag}
  BY DEF LineInv, LineSteps, Line!Rest
<1>2. /\ age["poll"] \in Nat /\ age["start"] \in Nat /\ lineMain.lag \in Nat
      /\ lineMain'.lag <= age["poll"]
  BY <1>1, LineFacts DEF LineInv
<1>3. lineMain'.at \in BeforeCheck => lineMain'.lag = lineMain.lag
  BY <1>1 DEF BeforeCheck, Line!Rest
<1>4. lineDir' \in {"TX", "TAIL"} =>
          IF lineMain'.at \in BeforeCheck
          THEN age["start"] <= TxTimeout + PollGap + lineMain'.lag
          ELSE age["start"] <= TxTimeout + age["poll"]
  BY <1>2, <1>3 DEF LineInv
<1>5. lineDir' \in {"PRE", "TX", "TAIL", "RX"}
  BY DEF LineInv
<1> QED BY <1>1, <1>2, <1>4, <1>5, LineSame DEF LineInv

\* What the guards and the moves of a call say.
LEMMA LineWords ==
    ASSUME NEW F, LineInv
    PROVE  /\ \A s : Line(F)!At(s) <=> lineMain.at = s
           /\ \A s : Line(F)!GoTo(s) =>
                 lineMain' = [lineMain EXCEPT !.at = s] /\ lineMain'.at = s
                 /\ lineMain'.lag = lineMain.lag
           /\ Line(F)!Return => lineMain' = Line({})!Rest /\ lineMain'.at = "rest"
                                /\ lineMain'.lag = 0
           /\ Line(F)!ToRx => lineDir' = "RX" /\ air' = IF air = "frame" THEN "old" ELSE air
BY DEF LineInv, Line!At, Line!GoTo, Line!Return, Line!Rest, Line!ToRx, Line!GivenUp

\* A send.
LEMMA LineSends ==
    ASSUME NEW F, Line(F)!Rs485Assumption, LineInv,
           \/ Line(F)!Drive \/ Line(F)!StartSending \/ Line(F)!SendRefused \/ Line(F)!Undrive
    PROVE  /\ LineInv'
           /\ LineDriven => LineDriven'
           /\ LineClean /\ LineDriven /\ Line({})!InTime => LineClean'
<1> USE LineWords DEF BeforeCheck, Undriving, LineSteps
<1>1. /\ lineDir \in {"PRE", "TX", "TAIL", "RX"} /\ air \in {"none", "frame", "old"}
      /\ de \in BOOLEAN /\ errors \in BOOLEAN /\ fired \in BOOLEAN /\ heard \in BOOLEAN
      /\ cut \in 0 .. PostDelay /\ age["end"] \in Nat /\ age["start"] \in Nat
      /\ lineMain.lag \in Nat /\ lineMain.lag <= PollGap /\ age["poll"] \in Nat
      /\ PollGap \in Nat /\ TxTimeout \in Nat
  BY LineFacts DEF LineInv
<1>2. CASE Line(F)!Drive
  <2>1. /\ lineMain.at = "drive" /\ air' = air /\ lineDir' = lineDir
        /\ errors' = errors /\ age' = age /\ fired' = fired /\ heard' = heard /\ cut' = cut
        /\ de' \in BOOLEAN /\ de'
    BY <1>2 DEF Line!Drive
  <2>2. \/ PreDelay = 0 /\ lineMain' = [lineMain EXCEPT !.at = "start"] /\ lineMain'.at = "start"
           /\ lineMain'.lag = lineMain.lag
        \/ PreDelay # 0 /\ lineMain' = Line({})!Rest /\ lineMain'.at = "rest" /\ lineMain'.lag = 0
    BY <1>2 DEF Line!Drive
  <2>3. LineInv'
    BY <1>1, <2>1, <2>2, LineMoves
  <2>4. LineDriven => LineDriven'
    BY <1>1, <2>1, <2>2 DEF LineDriven
  <2>5. LineClean => LineClean'
    BY <1>1, <2>1, <2>2 DEF LineClean
  <2> QED BY <2>3, <2>4, <2>5
<1>3. CASE Line(F)!StartSending
  <2>1. /\ lineMain.at \in {"start", "start_later"} /\ air' = "frame" /\ lineDir' = lineDir
        /\ errors' = errors /\ age' = age /\ fired' = fired /\ heard' = heard /\ cut' = cut
        /\ de' = de
    BY <1>3 DEF Line!StartSending
  <2>2. \/ /\ lineMain.at = "start" /\ lineMain' = Line({})!Rest /\ lineMain'.at = "rest"
           /\ lineMain'.lag = 0
        \/ /\ lineMain.at = "start_later" /\ lineMain' = [lineMain EXCEPT !.at = "tail?"]
           /\ lineMain'.at = "tail?" /\ lineMain'.lag = lineMain.lag
    BY <1>3 DEF Line!StartSending
  <2>3. LineInv'
    BY <1>1, <2>1, <2>2, LineMoves
  <2>4. LineDriven => LineDriven'
    BY <1>1, <2>1, <2>2 DEF LineDriven
  <2>5. LineClean /\ LineDriven /\ Line({})!InTime => LineClean'
    BY <1>1, <2>1, <2>2 DEF LineClean, LineDriven, Line!InTime
  <2> QED BY <2>3, <2>4, <2>5
<1>4. CASE Line(F)!SendRefused
  <2>1. /\ lineMain.at \in {"start", "start_later"} /\ lineDir' = "RX"
        /\ air' = IF air = "frame" THEN "old" ELSE air
        /\ errors' = errors /\ age' = age /\ fired' = fired /\ heard' = heard /\ cut' = cut
        /\ de' = de /\ air # "none"
    BY <1>4 DEF Line!SendRefused, Line!PortAccepts
  <2>2. PICK s \in {"undrive", "undrive_tail?"} :
           /\ s = (IF lineMain.at = "start" THEN "undrive" ELSE "undrive_tail?")
           /\ lineMain' = [lineMain EXCEPT !.at = s] /\ lineMain'.at = s
           /\ lineMain'.lag = lineMain.lag
    BY <1>4 DEF Line!SendRefused
  <2>3. LineInv'
    BY <1>1, <2>1, <2>2, LineMoves
  <2>4. LineDriven => LineDriven'
    BY <1>1, <2>1, <2>2 DEF LineDriven
  <2>5. ~LineClean
    BY <2>1 DEF LineClean
  <2> QED BY <2>3, <2>4, <2>5
<1>5. CASE Line(F)!Undrive
  <2>1. /\ lineMain.at \in Undriving \ {"abort"} /\ lineDir' = lineDir /\ air' = air
        /\ errors' = errors /\ age' = age /\ fired' = fired /\ heard' = heard
        /\ cut' \in 0 .. PostDelay /\ de' \in BOOLEAN /\ ~de'
    <3>1. \/ cut' = PostDelay
          \/ cut' = age["end"] /\ age["end"] < PostDelay
      BY <1>5 DEF Line!Undrive
    <3>2. cut' \in 0 .. PostDelay
      BY <1>1, <3>1, LineFacts
    <3>3. /\ lineMain.at \in Undriving \ {"abort"} /\ lineDir' = lineDir /\ air' = air
          /\ errors' = errors /\ age' = age /\ fired' = fired /\ heard' = heard
      BY <1>5 DEF Line!Undrive
    <3>4. de' \in BOOLEAN /\ ~de'
      BY <1>5 DEF Line!Undrive, Line!Released
    <3> QED BY <3>2, <3>3, <3>4
  <2>2. PICK s \in {"rest", "tail?", "timeout?", "errors?", "idle?"} :
           /\ s \in {"tail?", "timeout?"} <=> lineMain.at \in {"undrive_tail?", "undrive_timeout?"}
           /\ \/ s = "rest" /\ lineMain' = Line({})!Rest /\ lineMain'.at = "rest"
                 /\ lineMain'.lag = 0
              \/ s # "rest" /\ lineMain' = [lineMain EXCEPT !.at = s] /\ lineMain'.at = s
                 /\ lineMain'.lag = lineMain.lag
    <3>1. CASE lineMain.at = "undrive"
      BY <1>5, <3>1 DEF Line!Undrive
    <3>2. CASE lineMain.at = "undrive_tail?"
      BY <1>5, <3>2 DEF Line!Undrive
    <3>3. CASE lineMain.at = "undrive_timeout?"
      BY <1>5, <3>3 DEF Line!Undrive
    <3>4. CASE lineMain.at = "undrive_errors?"
      BY <1>5, <3>4 DEF Line!Undrive
    <3>5. CASE lineMain.at = "undrive_idle?"
      BY <1>5, <3>5 DEF Line!Undrive
    <3> QED BY <2>1, <3>1, <3>2, <3>3, <3>4, <3>5
  <2>3. LineInv'
    BY <1>1, <2>1, <2>2, LineMoves
  <2>4. LineDriven => LineDriven'
    BY <1>1, <2>1, <2>2 DEF LineDriven
  <2>5. LineClean => LineClean'
    BY <1>1, <2>1, <2>2 DEF LineClean
  <2> QED BY <2>3, <2>4, <2>5
<1> QED BY <1>2, <1>3, <1>4, <1>5

\* A poll.
LEMMA LinePolls ==
    ASSUME NEW F, Line(F)!Rs485Assumption, LineInv,
           Line(F)!Poll \/ Line(F)!Transmit
    PROVE  /\ LineInv'
           /\ LineDriven => LineDriven'
           /\ LineClean /\ LineDriven /\ Line({})!InTime => LineClean'
<1> USE LineWords DEF BeforeCheck, Undriving, LineSteps
<1>1. /\ age["poll"] \in Nat /\ age["start"] \in Nat /\ age["poll"] <= PollGap
      /\ lineMain.lag \in Nat /\ lineMain.lag <= age["poll"]
      /\ PollGap \in Nat /\ TxTimeout \in Nat
  BY LineFacts DEF LineInv
<1>2. CASE Line(F)!Poll
  <2>1. /\ lineMain.at = "rest" /\ lineDir' = lineDir /\ air' = air /\ de' = de
        /\ errors' = errors /\ fired' = fired /\ heard' = heard /\ cut' = cut
        /\ lineMain'.at \in {"transmit", "tail?"} /\ lineMain'.lag = 0
        /\ lineMain' \in [at : LineSteps, lag : Nat]
        /\ lineMain'.at = "transmit" => lineDir = "PRE"
    BY <1>2 DEF Line!Poll
  <2>2. age' = [c \in Line({})!Clocks |-> IF c \in {"poll"} THEN 0 ELSE age[c]]
    BY <1>2, LineSame DEF Line!Poll, Line!Began
  <2>3. /\ age' \in [Line({})!Clocks -> Nat] /\ age'["poll"] = 0 /\ age'["start"] = age["start"]
        /\ \A c \in Line({})!Clocks : age'[c] <= Line({})!Oldest(c)
    BY <2>2, LineFacts DEF LineInv
  <2>4. LineInv'
    BY <1>1, <2>1, <2>3, LineSame DEF LineInv
  <2>5. LineDriven => LineDriven'
    BY <2>1 DEF LineDriven
  <2>6. LineClean => LineClean'
    BY <1>1, <2>1, <2>3 DEF LineClean
  <2> QED BY <2>4, <2>5, <2>6
<1>3. CASE Line(F)!Transmit
  <2>1. /\ lineMain.at = "transmit" /\ lineDir' = "TX" /\ air' = air /\ de' = de
        /\ errors' = errors /\ fired' = fired /\ heard' = heard /\ cut' = cut
        /\ lineMain' = [lineMain EXCEPT !.at = "start_later"]
        /\ lineMain'.at = "start_later" /\ lineMain'.lag = lineMain.lag
        /\ age' = [age EXCEPT !["start"] = lineMain.lag]
    BY <1>3 DEF Line!Transmit
  <2>2. /\ age' \in [Line({})!Clocks -> Nat] /\ age'["poll"] = age["poll"]
        /\ age'["start"] = lineMain.lag
        /\ \A c \in Line({})!Clocks : age'[c] <= Line({})!Oldest(c)
    BY <1>1, <2>1, LineFacts DEF LineInv
  <2>3. lineMain' \in [at : LineSteps, lag : Nat]
    BY <2>1 DEF LineInv
  <2>4. LineInv'
    BY <1>1, <2>1, <2>2, <2>3, LineSame DEF LineInv
  <2>5. LineDriven => LineDriven'
    BY <2>1 DEF LineDriven
  <2>6. LineClean /\ LineDriven => LineClean'
    BY <1>1, <2>1, <2>2 DEF LineClean, LineDriven, LineInv
  <2> QED BY <2>4, <2>5, <2>6
<1> QED BY <1>2, <1>3

LEMMA LineLooks ==
    ASSUME NEW F, Line(F)!Rs485Assumption, LineInv,
           \/ Line(F)!Tail \/ Line(F)!GiveUp \/ Line(F)!Errors \/ Line(F)!IdleCheck
           \/ Line(F)!Reset \/ Line(F)!Abort
    PROVE  /\ LineInv'
           /\ LineDriven => LineDriven'
           /\ LineClean /\ LineDriven /\ Line({})!InTime => LineClean'
<1> USE LineWords DEF BeforeCheck, Undriving, LineSteps
<1>1. /\ lineDir \in {"PRE", "TX", "TAIL", "RX"} /\ air \in {"none", "frame", "old"}
      /\ de \in BOOLEAN /\ errors \in BOOLEAN /\ fired \in BOOLEAN /\ heard \in BOOLEAN
      /\ cut \in 0 .. PostDelay /\ age["start"] \in Nat
      /\ lineMain.lag \in Nat /\ lineMain.lag <= age["poll"] /\ age["poll"] \in Nat
      /\ PollGap \in Nat /\ TxTimeout \in Nat
  BY LineFacts DEF LineInv
<1>2. CASE Line(F)!Tail
  <2>1. /\ lineMain.at = "tail?" /\ de' = de /\ errors' = errors /\ age' = age /\ fired' = fired
        /\ heard' = heard /\ cut' = cut
    BY <1>2 DEF Line!Tail
  <2>2. PICK s \in {"undrive_timeout?", "timeout?"} :
           /\ lineMain' = [lineMain EXCEPT !.at = s] /\ lineMain'.at = s
           /\ lineMain'.lag = lineMain.lag
           /\ IF s = "timeout?" THEN lineDir' = lineDir /\ air' = air
              ELSE /\ lineDir' = "RX" /\ air' = IF air = "frame" THEN "old" ELSE air
                   /\ lineDir = "TAIL"
    <3>1. CASE Line(F)!TailOver
      BY <1>2, <3>1 DEF Line!Tail, Line!TailOver
    <3>2. CASE ~Line(F)!TailOver
      BY <1>2, <3>2 DEF Line!Tail
    <3> QED BY <3>1, <3>2
  <2>3. air' \in {"none", "frame", "old"} /\ lineDir' \in {lineDir, "RX"}
    BY <1>1, <2>2
  <2>4. LineInv'
    BY <1>1, <2>1, <2>2, <2>3, LineMoves
  <2>5. LineDriven => LineDriven'
    BY <1>1, <2>1, <2>2 DEF LineDriven
  <2>6. LineClean => LineClean'
    BY <1>1, <2>1, <2>2 DEF LineClean
  <2> QED BY <2>4, <2>5, <2>6
<1>3. CASE Line(F)!GiveUp
  <2>1. /\ lineMain.at = "timeout?" /\ de' = de /\ errors' = errors /\ age' = age
        /\ fired' = fired /\ heard' = heard /\ cut' = cut
    BY <1>3 DEF Line!GiveUp
  <2>2. PICK s \in {"undrive_errors?", "errors?"} :
           /\ lineMain' = [lineMain EXCEPT !.at = s] /\ lineMain'.at = s
           /\ lineMain'.lag = lineMain.lag
           /\ IF s = "errors?" THEN lineDir' = lineDir /\ air' = air /\ ~Line(F)!Late
              ELSE /\ lineDir' = "RX" /\ air' = IF air = "frame" THEN "old" ELSE air
                   /\ Line(F)!Late
    <3>1. CASE Line(F)!Late
      BY <1>3, <3>1 DEF Line!GiveUp
    <3>2. CASE ~Line(F)!Late
      BY <1>3, <3>2 DEF Line!GiveUp
    <3> QED BY <3>1, <3>2
  <2>3. air' \in {"none", "frame", "old"} /\ lineDir' \in {lineDir, "RX"}
    BY <1>1, <2>2
  <2>4. Line(F)!Late <=> /\ lineDir \in {"TX", "TAIL"}
                         /\ \/ age["start"] < lineMain.lag
                            \/ age["start"] - lineMain.lag >= TxTimeout
    BY <1>1, LineFacts, LineSame DEF Line!Late, Line!Since
  <2>5. lineDir' = "RX" \/ lineDir' \notin {"TX", "TAIL"} \/ age["start"] <= TxTimeout + age["poll"]
    BY <1>1, <2>2, <2>4
  <2>6. LineInv'
    <3>1. CASE lineDir' \in {"TX", "TAIL", "RX"}
      BY <1>1, <2>1, <2>2, <2>3, <2>5, <3>1, LineMoves
    <3>2. CASE lineDir' \notin {"TX", "TAIL", "RX"}
      <4>1. lineMain' \in [at : LineSteps, lag : Nat] /\ lineDir' = lineDir
        BY <2>2, <2>3, <3>2 DEF LineInv
      <4> QED BY <1>1, <2>1, <2>2, <2>3, <3>2, <4>1, LineSame DEF LineInv
    <3> QED BY <3>1, <3>2
  <2>7. LineDriven => LineDriven'
    BY <1>1, <2>1, <2>2, <2>4 DEF LineDriven
  <2>8. LineClean => LineClean'
    BY <1>1, <2>1, <2>2, <2>4 DEF LineClean
  <2> QED BY <2>6, <2>7, <2>8
<1>4. CASE Line(F)!Errors
  <2>1. /\ lineMain.at = "errors?" /\ de' = de /\ errors' \in BOOLEAN /\ ~errors'
        /\ age' = age /\ fired' = fired /\ heard' = heard /\ cut' = cut
    BY <1>4 DEF Line!Errors
  <2>2. PICK s \in {"undrive_idle?", "idle?"} :
           /\ lineMain' = [lineMain EXCEPT !.at = s] /\ lineMain'.at = s
           /\ lineMain'.lag = lineMain.lag
           /\ IF s = "idle?" THEN lineDir' = lineDir /\ air' = air
              ELSE lineDir' = "RX" /\ air' = (IF air = "frame" THEN "old" ELSE air) /\ errors
    <3>1. CASE errors /\ lineDir \in Line(F)!Sending
      BY <1>4, <3>1 DEF Line!Errors
    <3>2. CASE ~(errors /\ lineDir \in Line(F)!Sending)
      BY <1>4, <3>2 DEF Line!Errors
    <3> QED BY <3>1, <3>2
  <2>3. air' \in {"none", "frame", "old"} /\ lineDir' \in {lineDir, "RX"}
    BY <1>1, <2>2
  <2>4. LineInv'
    BY <1>1, <2>1, <2>2, <2>3, LineMoves
  <2>5. LineDriven => LineDriven'
    BY <1>1, <2>1, <2>2 DEF LineDriven
  <2>6. LineClean /\ LineDriven => LineClean'
    BY <1>1, <2>1, <2>2 DEF LineClean, LineDriven
  <2> QED BY <2>4, <2>5, <2>6
<1>5. CASE Line(F)!IdleCheck
  <2>1. /\ lineMain.at = "idle?" /\ de' = de /\ errors' = errors /\ lineDir' = lineDir
        /\ air' = air /\ age' = age /\ fired' \in BOOLEAN /\ heard' = heard /\ cut' = cut
        /\ lineMain' = Line({})!Rest /\ lineMain'.at = "rest" /\ lineMain'.lag = 0
    BY <1>1, <1>5 DEF Line!IdleCheck, Line!IdleFor
  <2>2. LineInv'
    BY <1>1, <2>1, LineMoves
  <2>3. LineDriven => LineDriven'
    BY <1>1, <2>1 DEF LineDriven
  <2>4. LineClean => LineClean'
    BY <1>1, <2>1 DEF LineClean
  <2> QED BY <2>2, <2>3, <2>4
<1>6. CASE Line(F)!Reset
  <2>1. /\ lineMain.at = "rest" /\ de' = de /\ errors' = errors /\ lineDir' = "RX"
        /\ air' = (IF air = "frame" THEN "old" ELSE air)
        /\ age' = age /\ fired' = fired /\ heard' \in BOOLEAN /\ cut' = cut
        /\ lineMain' = [lineMain EXCEPT !.at = "abort"]
        /\ lineMain'.at = "abort" /\ lineMain'.lag = lineMain.lag
    BY <1>6 DEF Line!Reset
  <2>2. LineInv'
    BY <1>1, <2>1, LineMoves
  <2>3. LineDriven => LineDriven'
    BY <1>1, <2>1 DEF LineDriven
  <2>4. LineClean => LineClean'
    BY <1>1, <2>1 DEF LineClean
  <2> QED BY <2>2, <2>3, <2>4
<1>7. CASE Line(F)!Abort
  <2>1. /\ lineMain.at = "abort" /\ de' = de /\ errors' = errors /\ lineDir' = lineDir
        /\ air' = "none" /\ age' = age /\ fired' = fired /\ heard' = heard /\ cut' = cut
        /\ lineMain' = [lineMain EXCEPT !.at = "undrive"]
        /\ lineMain'.at = "undrive" /\ lineMain'.lag = lineMain.lag
    BY <1>7 DEF Line!Abort, Line!Aborted
  <2>2. LineInv'
    BY <1>1, <2>1, LineMoves
  <2>3. LineDriven => LineDriven'
    BY <1>1, <2>1 DEF LineDriven
  <2>4. LineClean => LineClean'
    BY <1>1, <2>1 DEF LineClean
  <2> QED BY <2>2, <2>3, <2>4
<1> QED BY <1>2, <1>3, <1>4, <1>5, <1>6, <1>7

\* The interrupts of the port.
LEMMA LineInterrupts ==
    ASSUME NEW F, Line(F)!Rs485Assumption, LineInv,
           Line(F)!TxComplete \/ Line(F)!RxFrame \/ Line(F)!PortError
    PROVE  /\ LineInv'
           /\ LineDriven /\ "error" \notin F => LineDriven'
           /\ LineClean /\ LineDriven /\ "error" \notin F => LineClean'
<1> USE DEF BeforeCheck, Undriving, LineSteps
<1>1. /\ lineDir \in {"PRE", "TX", "TAIL", "RX"} /\ air \in {"none", "frame", "old"}
      /\ de \in BOOLEAN /\ errors \in BOOLEAN /\ fired \in BOOLEAN /\ heard \in BOOLEAN
      /\ age["start"] \in Nat
  BY LineFacts DEF LineInv
<1>2. CASE Line(F)!TxComplete
  <2>1. /\ air # "none" /\ air' = "none" /\ fired' = fired /\ heard' = heard
        /\ lineMain' = lineMain /\ cut' = cut
    BY <1>2 DEF Line!TxComplete
  <2>2. CASE /\ ~errors /\ lineDir = "TX"
             /\ lineDir' = "TAIL" /\ Line(F)!Began({"end"})
             /\ UNCHANGED <<de, errors>>
    <3>1. age' = [c \in Line({})!Clocks |-> IF c \in {"end"} THEN 0 ELSE age[c]]
      BY <2>2, LineSame DEF Line!Began
    <3>2. /\ age' \in [Line({})!Clocks -> Nat] /\ age'["poll"] = age["poll"]
          /\ age'["start"] = age["start"]
          /\ \A c \in Line({})!Clocks : age'[c] <= Line({})!Oldest(c)
      BY <3>1, LineFacts DEF LineInv
    <3>3. LineInv'
      BY <1>1, <2>1, <2>2, <3>2, LineSame DEF LineInv
    <3>4. LineDriven => LineDriven'
      BY <1>1, <2>1, <2>2 DEF LineDriven
    <3>5. LineClean => LineClean'
      BY <1>1, <2>1, <2>2, <3>2 DEF LineClean
    <3> QED BY <3>3, <3>4, <3>5
  <2>3. CASE ~errors /\ lineDir # "TX" /\ UNCHANGED <<lineDir, de, errors, age>>
    <3>1. LineInv'
      BY <1>1, <2>1, <2>3, LineSame DEF LineInv
    <3>2. LineDriven => LineDriven'
      BY <1>1, <2>1, <2>3 DEF LineDriven
    <3>3. LineClean => LineClean'
      BY <1>1, <2>1, <2>3 DEF LineClean
    <3> QED BY <3>1, <3>2, <3>3
  <2>4. CASE /\ errors \/ "error" \in F
             /\ errors' = FALSE
             /\ IF lineDir \in Line(F)!Sending THEN lineDir' = "RX" /\ de' = FALSE
                ELSE UNCHANGED <<lineDir, de>>
             /\ UNCHANGED age
    <3>1. /\ errors' \in BOOLEAN /\ de' \in BOOLEAN /\ age' = age
          /\ lineDir' = lineDir \/ lineDir' = "RX"
      BY <1>1, <2>4
    <3>2. LineInv'
      BY <1>1, <2>1, <3>1, LineSame DEF LineInv
    <3>3. ~(LineDriven /\ "error" \notin F)
      BY <2>4 DEF LineDriven
    <3> QED BY <3>2, <3>3
  <2> QED BY <1>2, <2>2, <2>3, <2>4 DEF Line!TxComplete
<1>3. CASE Line(F)!RxFrame
  <2>1. /\ lineDir' = lineDir /\ air' = air /\ de' = de /\ errors' = errors /\ cut' = cut
        /\ lineMain' = lineMain /\ fired' \in BOOLEAN /\ heard' \in BOOLEAN
        /\ age' = [c \in Line({})!Clocks |-> IF c \in {"rx"} THEN 0 ELSE age[c]]
    BY <1>1, <1>3, LineSame DEF Line!RxFrame, Line!Began
  <2>2. /\ age' \in [Line({})!Clocks -> Nat] /\ age'["poll"] = age["poll"]
        /\ age'["start"] = age["start"]
        /\ \A c \in Line({})!Clocks : age'[c] <= Line({})!Oldest(c)
    BY <2>1, LineFacts DEF LineInv
  <2>3. LineInv'
    BY <1>1, <2>1, <2>2, LineSame DEF LineInv
  <2>4. LineDriven => LineDriven'
    BY <1>1, <2>1 DEF LineDriven
  <2>5. LineClean => LineClean'
    BY <1>1, <2>1, <2>2 DEF LineClean
  <2> QED BY <2>3, <2>4, <2>5
<1>4. CASE Line(F)!PortError
  <2>1. /\ lineDir' = lineDir /\ air' = air /\ de' = de /\ age' = age /\ fired' = fired
        /\ heard' = heard /\ lineMain' = lineMain /\ cut' = cut /\ errors' \in BOOLEAN
        /\ "error" \in F
    BY <1>4 DEF Line!PortError
  <2>2. LineInv'
    BY <1>1, <2>1, LineSame DEF LineInv
  <2> QED BY <2>1, <2>2
<1> QED BY <1>2, <1>3, <1>4

LEMMA LineStep ==
    ASSUME NEW F, Line(F)!Rs485Assumption, LineInv, Line(F)!Next
    PROVE  /\ LineInv'
           /\ LineDriven /\ "error" \notin F => LineDriven'
           /\ LineClean /\ LineDriven /\ F = {} /\ Line({})!InTime => LineClean'
<1>1. CASE Line(F)!Tick
  BY <1>1, LineTicks
<1>2. CASE Line(F)!Send
  BY <1>2, LineBegins
<1>3. CASE Line(F)!Drive \/ Line(F)!StartSending \/ Line(F)!SendRefused \/ Line(F)!Undrive
  BY <1>3, LineSends
<1>4. CASE Line(F)!Poll \/ Line(F)!Transmit
  BY <1>4, LinePolls
<1>5. CASE \/ Line(F)!Tail \/ Line(F)!GiveUp \/ Line(F)!Errors \/ Line(F)!IdleCheck
           \/ Line(F)!Reset \/ Line(F)!Abort
  BY <1>5, LineLooks
<1>6. CASE Line(F)!TxComplete \/ Line(F)!RxFrame \/ Line(F)!PortError
  BY <1>6, LineInterrupts
<1> QED BY <1>1, <1>2, <1>3, <1>4, <1>5, <1>6 DEF Line!Next

LEMMA LineFollows ==
    ASSUME NEW F, Line(F)!Rs485Assumption, LineInv
    PROVE  /\ Line({})!TypeOK /\ Line({})!SendingEnds
           /\ LineDriven => Line({})!DriverIsTrue
           /\ (Line({})!InTime => LineClean) => Line({})!TailAfterSending
<1>1. {de, errors, fired, heard} \subseteq BOOLEAN
  BY Zenon DEF LineInv
<1>2. /\ lineDir \in Line({})!Sending \cup {"RX"} /\ air \in {"none", "frame", "old"}
      /\ \A c \in Line({})!Clocks : age[c] \in 0 .. Line({})!Oldest(c)
      /\ lineMain.lag \in 0 .. PollGap /\ cut \in 0 .. PostDelay
  BY LineFacts DEF LineInv, Line!Sending
<1>3. Line({})!TypeOK
  BY <1>1, <1>2 DEF Line!TypeOK
<1>4. Line({})!SendingEnds
  BY LineFacts DEF LineInv, Line!SendingEnds
<1>5. LineDriven => Line({})!DriverIsTrue
  BY LineWords DEF LineDriven, Line!DriverIsTrue, Undriving
<1>6. (Line({})!InTime => LineClean) => Line({})!TailAfterSending
  BY DEF LineClean, Line!TailAfterSending
<1> QED BY <1>3, <1>4, <1>5, <1>6

-----------------------------------------------------------------------------
(* The axis.                                                                   *)

Steps == {"rest", "begin", "lower", "turn", "hold", "arm_hold", "dir", "arm"}

\* DIR is turned only in a call, with STEP low, or at the end of a hold.  An axis that
\* runs is stepped in its direction; when its timer expires, STEP has been high for
\* min_high_us, and DIR steady for dir_setup_us, but in a hold or a wait.
AxisInv(h) ==
    /\ half \in Axis(h)!Times /\ MinHigh <= half /\ (Axis(h)!Unhurried => DirSetup <= half)
    /\ dir \in {1, -1} /\ pin \in {1, -1} /\ step \in {0, 1}
    /\ axisRunning \in BOOLEAN /\ wait \in BOOLEAN /\ hold \in BOOLEAN /\ fault \in BOOLEAN
    /\ position \in Int /\ moved = position
    /\ due \in {-1} \cup 0 .. Axis(h)!Longest
    /\ main \in [at : Steps, dir : {1, -1}] /\ (main.at = "rest" => main = Axis(h)!Rest)
    /\ high \in Nat /\ since \in Nat
    /\ fault => ~axisRunning
    /\ axisRunning /\ main.at = "rest" => due # -1
    /\ ~axisRunning \/ hold \/ wait => step = 0
    /\ main.at \in {"begin", "turn", "hold", "arm_hold", "dir"} => step = 0
    /\ main.at = "arm_hold" => hold
    /\ axisRunning /\ ~hold /\ main.at \in {"rest", "arm", "lower"} => pin = dir
    /\ step = 1 /\ due # -1 => high + due >= MinHigh
    /\ /\ Axis(h)!Unhurried /\ axisRunning /\ ~hold /\ ~wait /\ due # -1
       /\ main.at \in {"rest", "arm", "lower"}
       => since + due >= DirSetup

LEMMA AxisFacts ==
    ASSUME NEW h \in Nat, Axis(h)!StepperAssumption
    PROVE  /\ MinHigh \in Nat /\ DirSetup \in Nat /\ MaxPosition \in Nat
           /\ Halves \subseteq Nat /\ Axis(h)!Times \subseteq Nat
           /\ Axis(h)!Longest \in Axis(h)!Times /\ Axis(h)!Longest > 0
           /\ \A u \in Axis(h)!Times : u <= Axis(h)!Longest
           /\ {MinHigh, DirSetup, h} \subseteq Axis(h)!Times /\ Halves \subseteq Axis(h)!Times
<1>1. /\ MinHigh \in Nat /\ DirSetup \in Nat /\ MaxPosition \in Nat
      /\ Halves \subseteq Nat \ {0} /\ \E t \in Halves : \A u \in Halves : u <= t
  BY DEF Axis!StepperAssumption
<1>2. PICK t \in Halves : \A u \in Halves : u <= t
  BY <1>1
<1>3. \E m \in {t, MinHigh, DirSetup, h} : \A u \in {t, MinHigh, DirSetup, h} : u <= m
  <2>1. PICK a \in {t, MinHigh} : t <= a /\ MinHigh <= a
    BY <1>1
  <2>2. PICK b \in {DirSetup, h} : DirSetup <= b /\ h <= b
    BY <1>1
  <2>3. PICK m \in {a, b} : a <= m /\ b <= m
    BY <1>1, <2>1, <2>2
  <2> QED BY <1>1, <2>1, <2>2, <2>3
<1>4. PICK m \in {t, MinHigh, DirSetup, h} : \A u \in {t, MinHigh, DirSetup, h} : u <= m
  BY <1>3
<1>5. m \in Axis(h)!Times /\ \A u \in Axis(h)!Times : u <= m
  BY <1>1, <1>2, <1>4 DEF Axis!Times
<1>6. Axis(h)!Longest \in Axis(h)!Times /\ \A u \in Axis(h)!Times : u <= Axis(h)!Longest
  BY <1>5 DEF Axis!Longest
<1>7. Axis(h)!Times \subseteq Nat /\ t \in Axis(h)!Times /\ t > 0
  BY <1>1 DEF Axis!Times
<1>8. Axis(h)!Longest > 0
  BY <1>6, <1>7
<1>9. {MinHigh, DirSetup, h} \subseteq Axis(h)!Times /\ Halves \subseteq Axis(h)!Times
  BY DEF Axis!Times
<1> QED BY <1>1, <1>6, <1>7, <1>8, <1>9

LEMMA AxisStarts ==
    ASSUME NEW h \in Nat, Axis(h)!StepperAssumption, Axis(0)!StepperAssumption, Axis(0)!Init
    PROVE  AxisInv(h)
<1> DEFINE l == Axis(0)!Longest
<1>1. l \in Axis(0)!Times /\ l > 0 /\ l \in Nat /\ MinHigh <= l /\ DirSetup <= l
  BY AxisFacts
<1>2. l \in Axis(h)!Times
  BY <1>1 DEF Axis!Times
<1>3. /\ half = l /\ dir = 1 /\ position = 0 /\ step = 0 /\ pin = 1 /\ due = -1
      /\ high = l /\ since = l /\ moved = 0 /\ main = [at |-> "rest", dir |-> 1]
  BY DEF Axis!Init, Axis!Off, Axis!Rest
<1>4. /\ axisRunning \in BOOLEAN /\ wait \in BOOLEAN /\ hold \in BOOLEAN /\ fault \in BOOLEAN
      /\ ~axisRunning
  BY DEF Axis!Init
<1>5. main \in [at : Steps, dir : {1, -1}] /\ main = Axis(h)!Rest /\ main.at = "rest"
  BY <1>3 DEF Steps, Axis!Rest
<1> HIDE DEF l
<1> QED BY <1>1, <1>2, <1>3, <1>4, <1>5 DEF AxisInv

\* A pin or the timer refuses: the axis halts.
LEMMA AxisHalts ==
    ASSUME NEW h \in Nat, Axis(h)!StepperAssumption, AxisInv(h), Axis(h)!Halts,
           half' = half, position' \in Int, moved' = position', high' \in Nat, since' \in Nat,
           pin' \in {1, -1}, dir' \in {1, -1}, main' = main \/ main' = Axis(h)!Rest,
           main.at = "rest" \/ main' = Axis(h)!Rest
    PROVE  AxisInv(h)'
<1>1. /\ fault' \in BOOLEAN /\ axisRunning' \in BOOLEAN /\ wait' \in BOOLEAN /\ hold' \in BOOLEAN
      /\ ~axisRunning'
  BY DEF Axis!Halts
<1>2. step' = 0 /\ due' = -1
  BY DEF Axis!Halts, Axis!Off
<1>3. Axis(h)!Unhurried' = Axis(h)!Unhurried /\ Axis(h)!Times' = Axis(h)!Times
      /\ Axis(h)!Longest' = Axis(h)!Longest /\ Axis(h)!Rest' = Axis(h)!Rest
  BY DEF Axis!Unhurried, Axis!HalfPeriod, Axis!Times, Axis!Longest, Axis!Rest
<1>4. main' = Axis(h)!Rest
  BY DEF AxisInv
<1>5. main' \in [at : Steps, dir : {1, -1}] /\ main'.at = "rest"
  BY <1>4 DEF Axis!Rest, Steps
<1> QED BY <1>1, <1>2, <1>3, <1>4, <1>5 DEF AxisInv

\* One that latches loses no step.
LEMMA AxisLatches ==
    ASSUME NEW h \in Nat, Axis(h)!StepperAssumption, AxisInv(h), Axis(h)!Latch, dir' = dir,
           main' = main \/ main' = Axis(h)!Rest,
           main.at = "rest" \/ main' = Axis(h)!Rest
    PROVE  AxisInv(h)' /\ pin' = pin /\ ~(step' > step) /\ ~axisRunning'
<1>1. /\ Axis(h)!Halts /\ half' = half /\ pin' = pin /\ since' = since
      /\ position' = position /\ moved' = moved
  BY DEF Axis!Latch
<1>2. high' \in Nat
  BY DEF Axis!Latch, Axis!Lowers, AxisInv
<1>3. AxisInv(h)'
  BY <1>1, <1>2, AxisHalts DEF AxisInv
<1>4. step' = 0 /\ step \in {0, 1} /\ ~axisRunning'
  BY <1>1 DEF Axis!Halts, AxisInv
<1> QED BY <1>1, <1>3, <1>4

LEMMA AxisTicks ==
    ASSUME NEW h \in Nat, Axis(h)!StepperAssumption, AxisInv(h), Axis(h)!Tick
    PROVE  AxisInv(h)' /\ Axis(h)!PinsInTime
<1>1. /\ half' = half /\ dir' = dir /\ axisRunning' = axisRunning /\ wait' = wait
      /\ hold' = hold /\ fault' = fault /\ position' = position /\ step' = step /\ pin' = pin
      /\ main' = main /\ moved' = moved
  BY DEF Axis!Tick, Axis!axis
<1>2. /\ due # 0 /\ due' = (IF due = -1 THEN -1 ELSE due - 1)
      /\ high' = (IF high < Axis(h)!Longest THEN high + 1 ELSE high)
      /\ since' = (IF since < Axis(h)!Longest THEN since + 1 ELSE since)
  BY DEF Axis!Tick, Axis!Older, Axis!Off
<1>3. /\ Axis(h)!Longest \in Nat /\ MinHigh <= Axis(h)!Longest /\ DirSetup <= Axis(h)!Longest
      /\ MinHigh \in Nat /\ DirSetup \in Nat
  BY AxisFacts
<1>4. /\ due' \in {-1} \cup 0 .. Axis(h)!Longest /\ high' \in Nat /\ since' \in Nat
      /\ (due # -1 <=> due' # -1)
      /\ due' # -1 /\ high + due >= MinHigh => high' + due' >= MinHigh
      /\ due' # -1 /\ since + due >= DirSetup => since' + due' >= DirSetup
  BY <1>2, <1>3 DEF AxisInv
<1>5. AxisInv(h)'
  <2>1. Axis(h)!Unhurried' = Axis(h)!Unhurried /\ Axis(h)!Times' = Axis(h)!Times
        /\ Axis(h)!Longest' = Axis(h)!Longest /\ Axis(h)!Rest' = Axis(h)!Rest
    BY DEF Axis!Unhurried, Axis!HalfPeriod, Axis!Times, Axis!Longest, Axis!Rest
  <2> QED BY <1>1, <1>4, <2>1 DEF AxisInv
<1> QED BY <1>1, <1>5 DEF Axis!PinsInTime, AxisInv

\* The constants that follow from others.
LEMMA AxisRigid ==
    ASSUME NEW h \in Nat
    PROVE  /\ Axis(h)!Unhurried' = Axis(h)!Unhurried /\ Axis(h)!Times' = Axis(h)!Times
           /\ Axis(h)!Longest' = Axis(h)!Longest /\ Axis(h)!Rest' = Axis(h)!Rest
BY DEF Axis!Unhurried, Axis!HalfPeriod, Axis!Times, Axis!Longest, Axis!Rest

\* The steps of the main loop.
LEMMA AxisCalls ==
    ASSUME NEW h \in Nat, Axis(h)!StepperAssumption, AxisInv(h),
           \/ \E d \in {1, -1}, p \in Halves : Axis(h)!SetVelocity(d, p)
           \/ Axis(h)!Begin \/ Axis(h)!Lower \/ Axis(h)!Turn \/ Axis(h)!AskHold
           \/ Axis(h)!TurnPin \/ Axis(h)!Arm \/ Axis(h)!Stop \/ Axis(h)!ClearFault
           \/ Axis(h)!Reset \/ Axis(h)!Enable
    PROVE  AxisInv(h)' /\ Axis(h)!PinsInTime
<1>1. ASSUME NEW d \in {1, -1}, NEW p \in Halves, Axis(h)!SetVelocity(d, p)
      PROVE  AxisInv(h)' /\ Axis(h)!PinsInTime
  <2>1. /\ half' = Axis(h)!HalfPeriod(p) /\ axisRunning' = TRUE
        /\ dir' = dir /\ wait' = wait /\ hold' = hold /\ fault' = fault
        /\ position' = position /\ due' = due /\ step' = step /\ pin' = pin /\ high' = high
        /\ since' = since /\ moved' = moved /\ ~fault /\ main = Axis(h)!Rest
    BY <1>1 DEF Axis!SetVelocity, Axis!pins
  <2>2. /\ main'.at = (IF ~axisRunning THEN "begin" ELSE IF d # dir THEN "lower" ELSE "arm")
        /\ main' \in [at : Steps, dir : {1, -1}] /\ main.at = "rest"
    BY <1>1 DEF Axis!SetVelocity, Axis!Rest, Steps
  <2>3. /\ half' \in Axis(h)!Times /\ MinHigh <= half'
        /\ Axis(h)!Unhurried => DirSetup <= half'
    BY <2>1, AxisFacts DEF Axis!HalfPeriod, Axis!Unhurried
  <2>4. axisRunning' \in BOOLEAN /\ axisRunning'
    BY <2>1
  <2>5. AxisInv(h)'
    BY <2>1, <2>2, <2>3, <2>4, AxisRigid DEF AxisInv
  <2> QED BY <2>1, <2>5 DEF Axis!PinsInTime, AxisInv
<1>2. CASE Axis(h)!Begin
  <2>1. CASE Axis(h)!Latch /\ Axis(h)!Return /\ UNCHANGED dir
    BY <2>1, AxisLatches DEF Axis!Return, Axis!PinsInTime
  <2>2. CASE ~(Axis(h)!Latch /\ Axis(h)!Return /\ UNCHANGED dir)
    <3>1. /\ main.at = "begin" /\ main'.at = "arm" /\ main' \in [at : Steps, dir : {1, -1}]
          /\ main.dir \in {1, -1}
      BY <1>2, <2>2 DEF Axis!Begin, Axis!Go, AxisInv, Steps
    <3>2. /\ pin' = main.dir /\ dir' = main.dir /\ since' = IF main.dir # pin THEN 0 ELSE since
          /\ half' = half /\ axisRunning' = axisRunning /\ hold' = hold /\ fault' = fault
          /\ position' = position /\ step' = step /\ high' = high /\ moved' = moved
          /\ due' = due
      BY <1>2, <2>2 DEF Axis!Begin, Axis!Direction
    <3>3. wait' \in BOOLEAN /\ wait'
      BY <1>2, <2>2 DEF Axis!Begin
    <3>4. since' \in Nat /\ step = 0
      BY <3>1, <3>2 DEF AxisInv
    <3>5. AxisInv(h)'
      BY <3>1, <3>2, <3>3, <3>4, AxisRigid DEF AxisInv
    <3> QED BY <3>2, <3>4, <3>5 DEF Axis!PinsInTime
  <2> QED BY <2>1, <2>2
<1>3. CASE Axis(h)!Lower
  <2>1. CASE step = 1 /\ Axis(h)!Latch /\ Axis(h)!Return /\ UNCHANGED dir
    BY <2>1, AxisLatches DEF Axis!Return, Axis!PinsInTime
  <2>2. CASE ~(step = 1 /\ Axis(h)!Latch /\ Axis(h)!Return /\ UNCHANGED dir)
    <3>1. /\ main.at = "lower" /\ main'.at = "turn" /\ main' \in [at : Steps, dir : {1, -1}]
      BY <1>3, <2>2 DEF Axis!Lower, Axis!Go, AxisInv, Steps
    <3>2. /\ pin' = pin /\ dir' = dir /\ since' = since /\ wait' = wait
          /\ half' = half /\ axisRunning' = axisRunning /\ hold' = hold /\ fault' = fault
          /\ position' = position /\ step' = 0 /\ due' = due
          /\ high' = IF 0 # step THEN 0 ELSE high
          /\ moved' = moved
      BY <1>3, <2>2 DEF Axis!Lower, Axis!Level, Axis!axis
    <3>3. high' \in Nat
      BY <3>2 DEF AxisInv
    <3>4. AxisInv(h)'
      BY <3>1, <3>2, <3>3, AxisRigid DEF AxisInv
    <3> QED BY <3>2, <3>4, AxisFacts DEF Axis!PinsInTime, AxisInv
  <2> QED BY <2>1, <2>2
<1>4. CASE Axis(h)!Turn
  <2>1. /\ main.at = "turn" /\ main'.at \in {"hold", "dir"}
        /\ main' \in [at : Steps, dir : {1, -1}] /\ dir' \in {1, -1}
    BY <1>4 DEF Axis!Turn, Axis!TurnBy, Axis!Go, AxisInv, Steps
  <2>2. /\ pin' = pin /\ since' = since /\ half' = half /\ axisRunning' = axisRunning
        /\ fault' = fault /\ position' = position /\ step' = step /\ due' = due
        /\ high' = high /\ moved' = moved
    BY <1>4 DEF Axis!Turn, Axis!pins
  <2>3. hold' \in BOOLEAN /\ wait' \in BOOLEAN /\ ~hold' /\ ~wait'
    BY <1>4 DEF Axis!Turn
  <2>4. AxisInv(h)'
    BY <2>1, <2>2, <2>3, AxisRigid DEF AxisInv
  <2> QED BY <2>2, <2>4 DEF Axis!PinsInTime, AxisInv
<1>5. CASE Axis(h)!AskHold
  <2>1. /\ main.at = "hold" /\ main'.at = "arm_hold" /\ main' \in [at : Steps, dir : {1, -1}]
    BY <1>5 DEF Axis!AskHold, Axis!Go, AxisInv, Steps
  <2>2. /\ pin' = pin /\ since' = since /\ half' = half /\ axisRunning' = axisRunning
        /\ fault' = fault /\ position' = position /\ step' = step /\ due' = due
        /\ high' = high /\ moved' = moved /\ dir' = dir /\ wait' = wait
    BY <1>5 DEF Axis!AskHold, Axis!pins
  <2>3. hold' \in BOOLEAN /\ hold'
    BY <1>5 DEF Axis!AskHold
  <2>4. AxisInv(h)'
    BY <2>1, <2>2, <2>3, AxisRigid DEF AxisInv
  <2> QED BY <2>2, <2>4 DEF Axis!PinsInTime, AxisInv
<1>6. CASE Axis(h)!TurnPin
  <2>1. CASE Axis(h)!Latch /\ Axis(h)!Return /\ UNCHANGED dir
    BY <2>1, AxisLatches DEF Axis!Return, Axis!PinsInTime
  <2>2. CASE ~(Axis(h)!Latch /\ Axis(h)!Return /\ UNCHANGED dir)
    <3>1. /\ main.at = "dir" /\ main'.at = "arm" /\ main' \in [at : Steps, dir : {1, -1}]
      BY <1>6, <2>2 DEF Axis!TurnPin, Axis!Go, AxisInv, Steps
    <3>2. /\ pin' = dir /\ dir' = dir /\ since' = IF dir # pin THEN 0 ELSE since
          /\ half' = half /\ axisRunning' = axisRunning /\ hold' = hold /\ fault' = fault
          /\ position' = position /\ step' = step /\ high' = high /\ moved' = moved
          /\ due' = due
      BY <1>6, <2>2 DEF Axis!TurnPin, Axis!Direction
    <3>3. wait' \in BOOLEAN /\ wait'
      BY <1>6, <2>2 DEF Axis!TurnPin
    <3>4. since' \in Nat /\ step = 0
      BY <3>1, <3>2 DEF AxisInv
    <3>5. AxisInv(h)'
      BY <3>1, <3>2, <3>3, <3>4, AxisRigid DEF AxisInv
    <3> QED BY <3>2, <3>4, <3>5 DEF Axis!PinsInTime
  <2> QED BY <2>1, <2>2
<1>7. CASE Axis(h)!Arm
  <2>1. main' = Axis(h)!Rest /\ main.at \in {"arm", "arm_hold"}
    BY <1>7 DEF Axis!Arm, Axis!Return
  <2>2. CASE Axis(h)!Latch /\ UNCHANGED dir
    BY <2>1, <2>2, AxisLatches DEF Axis!PinsInTime
  <2>3. CASE ~(Axis(h)!Latch /\ UNCHANGED dir)
    <3> DEFINE t == IF main.at = "arm" THEN half ELSE h
    <3>1. /\ due' = (IF due = -1 \/ t < due THEN t ELSE due)
          /\ pin' = pin /\ since' = since /\ half' = half /\ axisRunning' = axisRunning
          /\ fault' = fault /\ position' = position /\ step' = step /\ hold' = hold
          /\ high' = high /\ moved' = moved /\ dir' = dir /\ wait' = wait
      BY <1>7, <2>3 DEF Axis!Arm, Axis!pins, Axis!axis, Axis!NoLater, Axis!Off
    <3>2. main' \in [at : Steps, dir : {1, -1}] /\ main'.at = "rest"
      BY <2>1 DEF Axis!Rest, Steps
    <3>3. /\ t \in Axis(h)!Times /\ t \in Nat /\ t <= Axis(h)!Longest
          /\ (main.at = "arm" => t = half) /\ Axis(h)!Longest \in Nat
      BY AxisFacts DEF AxisInv
    <3> HIDE DEF t
    <3>4. /\ due' \in 0 .. Axis(h)!Longest
          /\ \/ due' = t /\ (main.at = "arm" => due' = half)
             \/ due' = due /\ due # -1
      BY <3>1, <3>3 DEF AxisInv
    <3>5. /\ MinHigh \in Nat /\ DirSetup \in Nat /\ half \in Nat /\ high \in Nat
          /\ since \in Nat /\ MinHigh <= half /\ (Axis(h)!Unhurried => DirSetup <= half)
      BY AxisFacts DEF AxisInv
    <3>6. step' = 1 => high' + due' >= MinHigh
      BY <2>1, <3>1, <3>4, <3>5 DEF AxisInv
    <3>7. Axis(h)!Unhurried /\ axisRunning' /\ ~hold' /\ ~wait' => since' + due' >= DirSetup
      BY <2>1, <3>1, <3>4, <3>5 DEF AxisInv
    <3>8. AxisInv(h)'
      BY <2>1, <3>1, <3>2, <3>4, <3>6, <3>7, AxisRigid DEF AxisInv
    <3> QED BY <3>1, <3>8 DEF Axis!PinsInTime, AxisInv
  <2> QED BY <2>2, <2>3
<1>8. CASE Axis(h)!Stop
  <2>1. main = Axis(h)!Rest /\ main.at = "rest"
    BY <1>8 DEF Axis!Stop, Axis!Rest
  <2>2. CASE Axis(h)!Latch /\ UNCHANGED <<dir, main>>
    BY <2>1, <2>2, AxisLatches DEF Axis!PinsInTime
  <2>3. CASE ~(Axis(h)!Latch /\ UNCHANGED <<dir, main>>)
    <3>1. /\ step' = 0 /\ high' = (IF 0 # step THEN 0 ELSE high) /\ moved' = moved
          /\ due' = -1 /\ half' = half /\ dir' = dir /\ fault' = fault
          /\ position' = position /\ pin' = pin /\ since' = since /\ main' = main
      BY <1>8, <2>3 DEF Axis!Stop, Axis!Level, Axis!Off
    <3>2. /\ wait' \in BOOLEAN /\ hold' \in BOOLEAN /\ axisRunning' \in BOOLEAN
          /\ ~axisRunning'
      BY <1>8 DEF Axis!Stop
    <3>3. high' \in Nat
      BY <3>1 DEF AxisInv
    <3>4. AxisInv(h)'
      BY <2>1, <3>1, <3>2, <3>3, AxisRigid DEF AxisInv
    <3> QED BY <3>1, <3>2, <3>4 DEF Axis!PinsInTime, AxisInv
  <2> QED BY <2>2, <2>3
<1>9. CASE Axis(h)!ClearFault
  <2>1. /\ main.at = "rest" /\ main' = main /\ due' = due
        /\ step' = step /\ high' = high /\ moved' = moved /\ half' = half /\ dir' = dir
        /\ position' = position /\ pin' = pin /\ since' = since
        /\ wait' = wait /\ hold' = hold /\ axisRunning' = axisRunning
    BY <1>9 DEF Axis!ClearFault, Axis!pins, Axis!Rest
  <2>2. fault' \in BOOLEAN /\ ~fault'
    BY <1>9 DEF Axis!ClearFault
  <2>3. AxisInv(h)'
    BY <2>1, <2>2, AxisRigid DEF AxisInv
  <2> QED BY <2>1, <2>3 DEF Axis!PinsInTime, AxisInv
<1>10. CASE Axis(h)!Reset
  <2>1. /\ main.at = "rest" /\ main' = main /\ due' = -1 /\ dir' = 1
        /\ step' = 0 /\ moved' = 0 /\ position' = 0 /\ half' = half
        /\ high' = (IF step = 1 THEN 0 ELSE high) /\ pin' = pin /\ since' = since
    BY <1>10 DEF Axis!Reset, Axis!Lowers, Axis!Rest, Axis!Off
  <2>2. /\ fault' \in BOOLEAN /\ wait' \in BOOLEAN /\ hold' \in BOOLEAN
        /\ axisRunning' \in BOOLEAN /\ ~axisRunning'
    BY <1>10 DEF Axis!Reset
  <2>3. high' \in Nat
    BY <2>1 DEF AxisInv
  <2>4. AxisInv(h)'
    BY <2>1, <2>2, <2>3, AxisRigid DEF AxisInv
  <2> QED BY <2>1, <2>2, <2>4 DEF Axis!PinsInTime, AxisInv
<1>11. CASE Axis(h)!Enable
  <2>1. main.at = "rest"
    BY <1>11 DEF Axis!Enable, Axis!Rest
  <2> QED BY <1>11, <2>1, AxisLatches DEF Axis!Enable, Axis!PinsInTime
<1> QED BY <1>1, <1>2, <1>3, <1>4, <1>5, <1>6, <1>7, <1>8, <1>9, <1>10, <1>11

\* The interrupt of the timer, which finds no call in progress.
LEMMA AxisExpires ==
    ASSUME NEW h \in Nat, Axis(h)!StepperAssumption, AxisInv(h),
           \/ Axis(h)!Ignored \/ Axis(h)!EndHold \/ Axis(h)!EndWait
           \/ Axis(h)!Rise \/ Axis(h)!Fall
    PROVE  AxisInv(h)' /\ Axis(h)!PinsInTime
<1>1. due = 0 /\ main' = main /\ main = Axis(h)!Rest /\ main.at = "rest"
  BY DEF Axis!Ignored, Axis!EndHold, Axis!EndWait, Axis!Rise, Axis!Fall, Axis!Stepping,
     Axis!Expires, Axis!Rest
<1>2. /\ half \in Nat /\ MinHigh <= half /\ (Axis(h)!Unhurried => DirSetup <= half)
      /\ half <= Axis(h)!Longest /\ DirSetup \in Nat /\ MinHigh \in Nat
      /\ DirSetup <= Axis(h)!Longest /\ Axis(h)!Longest \in Nat
  BY AxisFacts DEF AxisInv
<1>3. /\ Axis(h)!AfterTurn \in 0 .. Axis(h)!Longest /\ DirSetup <= Axis(h)!AfterTurn
  BY <1>2 DEF Axis!AfterTurn
<1>4. CASE Axis(h)!Ignored
  <2>1. /\ due' = -1
        /\ step' = step /\ high' = high /\ moved' = moved /\ half' = half /\ dir' = dir
        /\ position' = position /\ pin' = pin /\ since' = since /\ fault' = fault
        /\ wait' = wait /\ hold' = hold /\ axisRunning' = axisRunning
    BY <1>4 DEF Axis!Ignored, Axis!axis, Axis!pins, Axis!Off
  <2>2. ~axisRunning
    BY <1>4 DEF Axis!Ignored, Axis!NotRunning, AxisInv
  <2>3. AxisInv(h)'
    BY <1>1, <2>1, <2>2, AxisRigid DEF AxisInv
  <2> QED BY <2>1, <2>3 DEF Axis!PinsInTime, AxisInv
<1>5. CASE Axis(h)!EndHold
  <2>1. hold /\ step = 0 /\ axisRunning
    BY <1>5 DEF Axis!EndHold, Axis!NotRunning, AxisInv
  <2>2. CASE Axis(h)!Latch /\ UNCHANGED dir
    BY <1>1, <2>2, AxisLatches DEF Axis!PinsInTime
  <2>3. CASE Axis(h)!Halts /\ Axis(h)!Direction(dir) /\ Axis(h)!Lowers
             /\ UNCHANGED <<half, dir, position, moved>>
    <3>1. /\ pin' = dir /\ dir' = dir /\ half' = half /\ position' = position
          /\ moved' = moved /\ since' = (IF dir # pin THEN 0 ELSE since)
          /\ high' = (IF step = 1 THEN 0 ELSE high)
      BY <2>3 DEF Axis!Direction, Axis!Lowers
    <3>2. /\ since' \in Nat /\ high' \in Nat /\ dir \in {1, -1} /\ position \in Int
          /\ moved' = position'
      BY <3>1 DEF AxisInv
    <3>3. AxisInv(h)'
      BY <1>1, <2>3, <3>1, <3>2, AxisHalts
    <3>4. step' = 0
      BY <2>3 DEF Axis!Halts
    <3> QED BY <2>1, <3>3, <3>4 DEF Axis!PinsInTime
  <2>4. CASE /\ hold' = FALSE /\ Axis(h)!Direction(dir)
             /\ due' = Axis(h)!AfterTurn
             /\ UNCHANGED <<half, dir, axisRunning, wait, fault, position, step, high, moved>>
    <3>1. /\ pin' = dir /\ dir' = dir /\ half' = half /\ position' = position
          /\ moved' = moved /\ since' = (IF dir # pin THEN 0 ELSE since)
          /\ high' = high /\ step' = step /\ axisRunning' = axisRunning /\ wait' = wait
          /\ fault' = fault /\ due' = Axis(h)!AfterTurn
      BY <2>4 DEF Axis!Direction
    <3>2. since' \in Nat /\ hold' \in BOOLEAN /\ ~hold'
      BY <2>4, <3>1 DEF AxisInv
    <3>3. since' + due' >= DirSetup
      BY <1>2, <1>3, <3>1, <3>2
    <3>4. AxisInv(h)'
      BY <1>1, <1>3, <2>1, <3>1, <3>2, <3>3, AxisRigid DEF AxisInv
    <3> QED BY <2>1, <3>1, <3>4 DEF Axis!PinsInTime
  <2> QED BY <1>5, <2>2, <2>3, <2>4 DEF Axis!EndHold
<1>6. CASE Axis(h)!EndWait
  <2>1. wait /\ step = 0 /\ axisRunning
    BY <1>6 DEF Axis!EndWait, Axis!NotRunning, Axis!MustWait, AxisInv
  <2>2. CASE Axis(h)!Latch /\ UNCHANGED dir
    BY <1>1, <2>2, AxisLatches DEF Axis!PinsInTime
  <2>3. CASE /\ wait' = FALSE /\ due' = Axis(h)!AfterTurn
             /\ UNCHANGED <<half, dir, axisRunning, hold, fault, position, Axis(h)!pins>>
    <3>1. /\ pin' = pin /\ dir' = dir /\ half' = half /\ position' = position
          /\ moved' = moved /\ since' = since
          /\ high' = high /\ step' = step /\ axisRunning' = axisRunning /\ hold' = hold
          /\ fault' = fault /\ due' = Axis(h)!AfterTurn
      BY <2>3 DEF Axis!pins
    <3>2. wait' \in BOOLEAN /\ ~wait'
      BY <2>3
    <3>3. since' + due' >= DirSetup
      BY <1>2, <1>3, <3>1 DEF AxisInv
    <3>4. AxisInv(h)'
      BY <1>1, <1>3, <2>1, <3>1, <3>2, <3>3, AxisRigid DEF AxisInv
    <3> QED BY <2>1, <3>1, <3>4 DEF Axis!PinsInTime
  <2> QED BY <1>6, <2>2, <2>3 DEF Axis!EndWait
<1>7. ASSUME Axis(h)!Stepping PROVE axisRunning /\ ~fault /\ ~hold /\ ~wait
  BY <1>7 DEF Axis!Stepping, Axis!NotRunning, Axis!MustWait
<1>8. CASE Axis(h)!Rise
  <2>1. axisRunning /\ ~hold /\ ~wait /\ step = 0 /\ pin = dir
    BY <1>1, <1>7, <1>8 DEF Axis!Rise, AxisInv
  <2>2. CASE Axis(h)!Latch /\ UNCHANGED dir
    BY <1>1, <2>2, AxisLatches DEF Axis!PinsInTime
  <2>3. Axis(h)!Unhurried => since >= DirSetup
    BY <1>1, <1>2, <2>1 DEF AxisInv
  <2>4. CASE /\ Axis(h)!Halts
             /\ position' = position + dir /\ moved' = moved + pin /\ high' = 0
             /\ UNCHANGED <<half, dir, pin, since>>
    <3>1. position' \in Int /\ moved' = position' /\ high' \in Nat
      BY <2>1, <2>4 DEF AxisInv
    <3>2. AxisInv(h)'
      BY <1>1, <2>4, <3>1, AxisHalts DEF AxisInv
    <3>3. step' = 0 /\ pin' = pin
      BY <2>4 DEF Axis!Halts
    <3> QED BY <2>1, <3>2, <3>3 DEF Axis!PinsInTime
  <2>5. CASE /\ Axis(h)!Level(1) /\ position' = position + dir /\ due' = half
             /\ UNCHANGED <<half, dir, axisRunning, wait, hold, fault, pin, since>>
    <3>1. /\ step' = 1 /\ high' = 0 /\ moved' = moved + pin /\ due' = half
          /\ pin' = pin /\ dir' = dir /\ half' = half /\ since' = since
          /\ axisRunning' = axisRunning /\ hold' = hold /\ wait' = wait /\ fault' = fault
          /\ position' = position + dir
      BY <2>1, <2>5 DEF Axis!Level
    <3>2. /\ position' \in Int /\ moved' = position'
          /\ high' + due' >= MinHigh
          /\ (Axis(h)!Unhurried => since' + due' >= DirSetup)
      BY <1>2, <2>1, <3>1 DEF AxisInv
    <3>3. AxisInv(h)'
      BY <1>1, <1>2, <2>1, <3>1, <3>2, AxisRigid DEF AxisInv
    <3> QED BY <2>1, <2>3, <3>1, <3>3 DEF Axis!PinsInTime
  <2> QED BY <1>8, <2>2, <2>4, <2>5 DEF Axis!Rise
<1>9. CASE Axis(h)!Fall
  <2>1. axisRunning /\ ~hold /\ ~wait /\ step = 1 /\ high >= MinHigh
    BY <1>1, <1>2, <1>7, <1>9 DEF Axis!Fall, AxisInv
  <2>2. CASE Axis(h)!Latch /\ UNCHANGED dir
    BY <1>1, <2>2, AxisLatches DEF Axis!PinsInTime
  <2>3. CASE Axis(h)!Level(0) /\ due' = half /\ UNCHANGED <<Axis(h)!axis, pin, since>>
    <3>1. /\ step' = 0 /\ high' = 0 /\ moved' = moved /\ due' = half
          /\ pin' = pin /\ dir' = dir /\ half' = half /\ since' = since
          /\ axisRunning' = axisRunning /\ hold' = hold /\ wait' = wait /\ fault' = fault
          /\ position' = position
      BY <2>1, <2>3 DEF Axis!Level, Axis!axis
    <3>2. (Axis(h)!Unhurried => since' + due' >= DirSetup)
      BY <1>2, <3>1 DEF AxisInv
    <3>3. AxisInv(h)'
      BY <1>1, <1>2, <2>1, <3>1, <3>2, AxisRigid DEF AxisInv
    <3> QED BY <2>1, <3>1, <3>3 DEF Axis!PinsInTime
  <2> QED BY <1>9, <2>2, <2>3 DEF Axis!Fall
<1> QED BY <1>4, <1>5, <1>6, <1>8, <1>9

LEMMA AxisStep ==
    ASSUME NEW h \in Nat, Axis(h)!StepperAssumption, AxisInv(h), Axis(h)!Next
    PROVE  AxisInv(h)' /\ Axis(h)!PinsInTime
BY AxisTicks, AxisCalls, AxisExpires DEF Axis!Next

LEMMA AxisFollows ==
    ASSUME NEW h \in Nat, Axis(h)!StepperAssumption, AxisInv(h)
    PROVE  /\ Axis(h)!TypeOK
           /\ Axis(0)!PositionIsTrue /\ Axis(0)!KeepsStepping
<1>1. {axisRunning, wait, hold, fault} \subseteq BOOLEAN
  BY Zenon DEF AxisInv
<1>2. /\ half \in Axis(h)!Times /\ {dir, pin} \subseteq {1, -1} /\ step \in {0, 1}
      /\ due \in {-1} \cup 0 .. Axis(h)!Longest
  BY DEF AxisInv
<1>3. Axis(h)!TypeOK
  BY <1>1, <1>2 DEF Axis!TypeOK, Axis!Off
<1>4. axisRunning /\ main = [at |-> "rest", dir |-> 1] => due # -1
  BY DEF AxisInv
<1>5. Axis(0)!KeepsStepping
  BY <1>4 DEF Axis!KeepsStepping, Axis!Off, Axis!Rest
<1> QED BY <1>3, <1>5 DEF Axis!PositionIsTrue, AxisInv

\* Where the interrupt of the timer is not masked, it may come between two steps of a
\* call.  An axis that runs and holds nothing then still has its pin at its direction,
\* but while a call that starts or turns it is on its way to the pin.
Turning == {"begin", "hold", "dir"}
BareInv(h) ==
    /\ half \in BareAxis(h)!Times
    /\ dir \in {1, -1} /\ pin \in {1, -1} /\ step \in {0, 1}
    /\ axisRunning \in BOOLEAN /\ wait \in BOOLEAN /\ hold \in BOOLEAN /\ fault \in BOOLEAN
    /\ position \in Int /\ moved \in Int
    /\ due \in {-1} \cup 0 .. BareAxis(h)!Longest
    /\ main \in [at : Steps, dir : {1, -1}]
    /\ main.at = "rest" => main = BareAxis(h)!Rest
    /\ fault => ~axisRunning
    /\ axisRunning /\ main.at = "rest" => due # -1
    /\ axisRunning /\ ~hold /\ main.at \notin Turning => pin = dir

\* No step of the motor, or one that is counted as the motor made it.
Counts ==
    \/ moved' = moved /\ position' = position
    \/ moved' = position'
    \/ moved' = moved + pin /\ position' = position + dir /\ (pin = dir \/ main.at \in Turning)

LEMMA CountsIsCounted ==
    ASSUME position \in Int, moved \in Int, dir \in {1, -1}, pin \in {1, -1}, Counts
    PROVE  BareAxis(0)!StepsAreCounted
BY DEF Counts, Turning, BareAxis!StepsAreCounted, BareAxis!Turning

\* The constants are those of the axis that is masked.
LEMMA BareFacts ==
    ASSUME NEW h \in Nat, Axis(h)!StepperAssumption
    PROVE  /\ BareAxis(h)!Times = Axis(h)!Times /\ BareAxis(h)!Longest = Axis(h)!Longest
           /\ BareAxis(h)!Rest = Axis(h)!Rest
           /\ BareAxis(h)!Times' = BareAxis(h)!Times
           /\ BareAxis(h)!Longest' = BareAxis(h)!Longest
           /\ BareAxis(h)!Rest' = BareAxis(h)!Rest
           /\ BareAxis(h)!Longest \in Nat
           /\ BareAxis(h)!Times \subseteq 0 .. BareAxis(h)!Longest
           /\ {MinHigh, DirSetup, h} \subseteq BareAxis(h)!Times
           /\ Halves \subseteq BareAxis(h)!Times
<1>1. /\ BareAxis(h)!Times = Axis(h)!Times /\ BareAxis(h)!Times' = BareAxis(h)!Times
      /\ BareAxis(h)!Rest = Axis(h)!Rest /\ BareAxis(h)!Rest' = BareAxis(h)!Rest
  BY DEF BareAxis!Times, Axis!Times, BareAxis!Rest, Axis!Rest
<1>2. BareAxis(h)!Longest = Axis(h)!Longest /\ BareAxis(h)!Longest' = BareAxis(h)!Longest
  BY <1>1 DEF BareAxis!Longest, Axis!Longest
<1>3. /\ Axis(h)!Longest \in Nat /\ Axis(h)!Times \subseteq Nat
      /\ \A u \in Axis(h)!Times : u <= Axis(h)!Longest
      /\ {MinHigh, DirSetup, h} \subseteq Axis(h)!Times /\ Halves \subseteq Axis(h)!Times
  BY AxisFacts
<1>4. Axis(h)!Times \subseteq 0 .. Axis(h)!Longest
  BY <1>3
<1> QED BY <1>1, <1>2, <1>3, <1>4

LEMMA BareStarts ==
    ASSUME NEW h \in Nat, Axis(h)!StepperAssumption, AxisInv(h), ~axisRunning
    PROVE  BareInv(h)
BY BareFacts DEF AxisInv, BareInv

\* A pin or the timer refuses, in a call or in the interrupt.
LEMMA BareHalts ==
    ASSUME NEW h \in Nat, Axis(h)!StepperAssumption, BareInv(h), BareAxis(h)!Halts,
           half' = half, position' \in Int, moved' \in Int, pin' \in {1, -1},
           dir' \in {1, -1}, main' = main \/ main' = BareAxis(h)!Rest
    PROVE  BareInv(h)'
<1>1. /\ fault' \in BOOLEAN /\ axisRunning' \in BOOLEAN /\ wait' \in BOOLEAN /\ hold' \in BOOLEAN
      /\ ~axisRunning' /\ step' = 0 /\ due' = -1
  BY DEF BareAxis!Halts, BareAxis!Off
<1>2. /\ main' \in [at : Steps, dir : {1, -1}]
      /\ main'.at = "rest" => main' = BareAxis(h)!Rest
  BY DEF BareInv, BareAxis!Rest, Steps
<1> QED BY <1>1, <1>2, BareFacts DEF BareInv

LEMMA BareLatches ==
    ASSUME NEW h \in Nat, Axis(h)!StepperAssumption, BareInv(h), BareAxis(h)!Latch,
           dir' = dir, main' = main \/ main' = BareAxis(h)!Rest
    PROVE  BareInv(h)' /\ Counts
<1>1. /\ BareAxis(h)!Halts /\ half' = half /\ pin' = pin
      /\ position' = position /\ moved' = moved
  BY DEF BareAxis!Latch
<1> QED BY <1>1, BareHalts DEF BareInv, Counts

LEMMA BareCalls ==
    ASSUME NEW h \in Nat, Axis(h)!StepperAssumption, BareInv(h),
           \/ \E d \in {1, -1}, p \in Halves : BareAxis(h)!SetVelocity(d, p)
           \/ BareAxis(h)!Begin \/ BareAxis(h)!Lower \/ BareAxis(h)!Turn
           \/ BareAxis(h)!AskHold \/ BareAxis(h)!TurnPin \/ BareAxis(h)!Arm
           \/ BareAxis(h)!Stop \/ BareAxis(h)!ClearFault \/ BareAxis(h)!Reset
           \/ BareAxis(h)!Enable
    PROVE  BareInv(h)' /\ Counts
<1> USE DEF Counts
<1>1. ASSUME NEW d \in {1, -1}, NEW p \in Halves, BareAxis(h)!SetVelocity(d, p)
      PROVE  BareInv(h)' /\ Counts
  <2>1. /\ half' = BareAxis(h)!HalfPeriod(p) /\ axisRunning' = TRUE
        /\ dir' = dir /\ wait' = wait /\ hold' = hold /\ fault' = fault
        /\ position' = position /\ due' = due /\ step' = step /\ pin' = pin
        /\ moved' = moved /\ ~fault /\ main = BareAxis(h)!Rest
    BY <1>1 DEF BareAxis!SetVelocity, BareAxis!pins
  <2>2. /\ main'.at = (IF ~axisRunning THEN "begin" ELSE IF d # dir THEN "lower" ELSE "arm")
        /\ main' \in [at : Steps, dir : {1, -1}] /\ main.at = "rest"
    BY <1>1 DEF BareAxis!SetVelocity, BareAxis!Rest, Steps
  <2>3. half' \in BareAxis(h)!Times
    BY <2>1, BareFacts DEF BareAxis!HalfPeriod
  <2>4. axisRunning' \in BOOLEAN /\ axisRunning'
    BY <2>1
  <2> QED BY <2>1, <2>2, <2>3, <2>4, BareFacts DEF BareInv, Turning
<1>2. CASE BareAxis(h)!Begin
  <2>1. CASE BareAxis(h)!Latch /\ BareAxis(h)!Return /\ UNCHANGED dir
    BY <2>1, BareLatches DEF BareAxis!Return
  <2>2. CASE ~(BareAxis(h)!Latch /\ BareAxis(h)!Return /\ UNCHANGED dir)
    <3>1. /\ main'.at = "arm" /\ main' \in [at : Steps, dir : {1, -1}] /\ main.dir \in {1, -1}
      BY <1>2, <2>2 DEF BareAxis!Begin, BareAxis!Go, BareInv, Steps
    <3>2. /\ pin' = main.dir /\ dir' = main.dir
          /\ half' = half /\ axisRunning' = axisRunning /\ hold' = hold /\ fault' = fault
          /\ position' = position /\ step' = step /\ moved' = moved /\ due' = due
      BY <1>2, <2>2 DEF BareAxis!Begin, BareAxis!Direction
    <3>3. wait' \in BOOLEAN
      BY <1>2, <2>2 DEF BareAxis!Begin
    <3> QED BY <3>1, <3>2, <3>3, BareFacts DEF BareInv
  <2> QED BY <2>1, <2>2
<1>3. CASE BareAxis(h)!Lower
  <2>1. CASE step = 1 /\ BareAxis(h)!Latch /\ BareAxis(h)!Return /\ UNCHANGED dir
    BY <2>1, BareLatches DEF BareAxis!Return
  <2>2. CASE ~(step = 1 /\ BareAxis(h)!Latch /\ BareAxis(h)!Return /\ UNCHANGED dir)
    <3>1. main.at = "lower" /\ main'.at = "turn" /\ main' \in [at : Steps, dir : {1, -1}]
      BY <1>3, <2>2 DEF BareAxis!Lower, BareAxis!Go, BareInv, Steps
    <3>2. /\ pin' = pin /\ dir' = dir /\ wait' = wait
          /\ half' = half /\ axisRunning' = axisRunning /\ hold' = hold /\ fault' = fault
          /\ position' = position /\ step' = 0 /\ due' = due /\ moved' = moved
      BY <1>3, <2>2 DEF BareAxis!Lower, BareAxis!Level, BareAxis!axis
    <3> QED BY <3>1, <3>2, BareFacts DEF BareInv, Turning
  <2> QED BY <2>1, <2>2
<1>4. CASE BareAxis(h)!Turn
  <2>1. /\ main'.at \in {"hold", "dir"}
        /\ main' \in [at : Steps, dir : {1, -1}] /\ dir' \in {1, -1}
    BY <1>4 DEF BareAxis!Turn, BareAxis!TurnBy, BareAxis!Go, BareInv, Steps
  <2>2. /\ pin' = pin /\ half' = half /\ axisRunning' = axisRunning
        /\ fault' = fault /\ position' = position /\ step' = step /\ due' = due
        /\ moved' = moved
    BY <1>4 DEF BareAxis!Turn, BareAxis!pins
  <2>3. hold' \in BOOLEAN /\ wait' \in BOOLEAN
    BY <1>4 DEF BareAxis!Turn
  <2> QED BY <2>1, <2>2, <2>3, BareFacts DEF BareInv, Turning
<1>5. CASE BareAxis(h)!AskHold
  <2>1. main'.at = "arm_hold" /\ main' \in [at : Steps, dir : {1, -1}]
    BY <1>5 DEF BareAxis!AskHold, BareAxis!Go, BareInv, Steps
  <2>2. /\ pin' = pin /\ half' = half /\ axisRunning' = axisRunning
        /\ fault' = fault /\ position' = position /\ step' = step /\ due' = due
        /\ moved' = moved /\ dir' = dir /\ wait' = wait
    BY <1>5 DEF BareAxis!AskHold, BareAxis!pins
  <2>3. hold' \in BOOLEAN /\ hold'
    BY <1>5 DEF BareAxis!AskHold
  <2> QED BY <2>1, <2>2, <2>3, BareFacts DEF BareInv
<1>6. CASE BareAxis(h)!TurnPin
  <2>1. CASE BareAxis(h)!Latch /\ BareAxis(h)!Return /\ UNCHANGED dir
    BY <2>1, BareLatches DEF BareAxis!Return
  <2>2. CASE ~(BareAxis(h)!Latch /\ BareAxis(h)!Return /\ UNCHANGED dir)
    <3>1. main'.at = "arm" /\ main' \in [at : Steps, dir : {1, -1}]
      BY <1>6, <2>2 DEF BareAxis!TurnPin, BareAxis!Go, BareInv, Steps
    <3>2. /\ pin' = dir /\ dir' = dir
          /\ half' = half /\ axisRunning' = axisRunning /\ hold' = hold /\ fault' = fault
          /\ position' = position /\ step' = step /\ moved' = moved /\ due' = due
      BY <1>6, <2>2 DEF BareAxis!TurnPin, BareAxis!Direction
    <3>3. wait' \in BOOLEAN
      BY <1>6, <2>2 DEF BareAxis!TurnPin
    <3> QED BY <3>1, <3>2, <3>3, BareFacts DEF BareInv
  <2> QED BY <2>1, <2>2
<1>7. CASE BareAxis(h)!Arm
  <2>1. main' = BareAxis(h)!Rest /\ main.at \in {"arm", "arm_hold"}
    BY <1>7 DEF BareAxis!Arm, BareAxis!Return
  <2>2. CASE BareAxis(h)!Latch /\ UNCHANGED dir
    BY <2>1, <2>2, BareLatches
  <2>3. CASE ~(BareAxis(h)!Latch /\ UNCHANGED dir)
    <3> DEFINE t == IF main.at = "arm" THEN half ELSE h
    <3>1. /\ due' = (IF due = -1 \/ t < due THEN t ELSE due)
          /\ pin' = pin /\ half' = half /\ axisRunning' = axisRunning
          /\ fault' = fault /\ position' = position /\ step' = step /\ hold' = hold
          /\ moved' = moved /\ dir' = dir /\ wait' = wait
      BY <1>7, <2>3 DEF BareAxis!Arm, BareAxis!pins, BareAxis!axis, BareAxis!NoLater, BareAxis!Off
    <3>2. main' \in [at : Steps, dir : {1, -1}] /\ main'.at = "rest"
      BY <2>1 DEF BareAxis!Rest, Steps
    <3>3. t \in 0 .. BareAxis(h)!Longest /\ BareAxis(h)!Longest \in Nat
      BY BareFacts DEF BareInv
    <3> HIDE DEF t
    <3>4. due' \in 0 .. BareAxis(h)!Longest
      BY <3>1, <3>3 DEF BareInv
    <3>5. due' # -1
      BY <3>3, <3>4
    <3> QED BY <2>1, <3>1, <3>2, <3>4, <3>5, BareFacts DEF BareInv, Turning
  <2> QED BY <2>2, <2>3
<1>8. CASE BareAxis(h)!Stop
  <2>1. CASE BareAxis(h)!Latch /\ UNCHANGED <<dir, main>>
    BY <2>1, BareLatches
  <2>2. CASE ~(BareAxis(h)!Latch /\ UNCHANGED <<dir, main>>)
    <3>1. /\ step' = 0 /\ moved' = moved
          /\ due' = -1 /\ half' = half /\ dir' = dir /\ fault' = fault
          /\ position' = position /\ pin' = pin /\ main' = main
      BY <1>8, <2>2 DEF BareAxis!Stop, BareAxis!Level, BareAxis!Off
    <3>2. /\ wait' \in BOOLEAN /\ hold' \in BOOLEAN /\ axisRunning' \in BOOLEAN
          /\ ~axisRunning'
      BY <1>8 DEF BareAxis!Stop
    <3> QED BY <3>1, <3>2, BareFacts DEF BareInv
  <2> QED BY <2>1, <2>2
<1>9. CASE BareAxis(h)!ClearFault
  <2>1. /\ main' = main /\ due' = due
        /\ step' = step /\ moved' = moved /\ half' = half /\ dir' = dir
        /\ position' = position /\ pin' = pin
        /\ wait' = wait /\ hold' = hold /\ axisRunning' = axisRunning
    BY <1>9 DEF BareAxis!ClearFault, BareAxis!pins
  <2>2. fault' \in BOOLEAN /\ ~fault'
    BY <1>9 DEF BareAxis!ClearFault
  <2> QED BY <2>1, <2>2, BareFacts DEF BareInv
<1>10. CASE BareAxis(h)!Reset
  <2>1. /\ main' = main /\ due' = -1 /\ dir' = 1
        /\ step' = 0 /\ moved' = 0 /\ position' = 0 /\ half' = half /\ pin' = pin
    BY <1>10 DEF BareAxis!Reset, BareAxis!Off
  <2>2. /\ fault' \in BOOLEAN /\ wait' \in BOOLEAN /\ hold' \in BOOLEAN
        /\ axisRunning' \in BOOLEAN /\ ~axisRunning'
    BY <1>10 DEF BareAxis!Reset
  <2> QED BY <2>1, <2>2, BareFacts DEF BareInv
<1>11. CASE BareAxis(h)!Enable
  BY <1>11, BareLatches DEF BareAxis!Enable
<1> QED BY <1>1, <1>2, <1>3, <1>4, <1>5, <1>6, <1>7, <1>8, <1>9, <1>10, <1>11

\* Time goes on, or the interrupt comes, wherever the call is.
LEMMA BareExpires ==
    ASSUME NEW h \in Nat, Axis(h)!StepperAssumption, BareInv(h),
           \/ BareAxis(h)!Tick \/ BareAxis(h)!Ignored \/ BareAxis(h)!EndHold
           \/ BareAxis(h)!EndWait \/ BareAxis(h)!Rise \/ BareAxis(h)!Fall
    PROVE  BareInv(h)' /\ Counts
<1>1. main' = main /\ (due # 0 \/ due = 0)
  BY DEF BareAxis!Tick, BareAxis!Ignored, BareAxis!EndHold, BareAxis!EndWait, BareAxis!Rise, BareAxis!Fall,
     BareAxis!Stepping, BareAxis!Expires
<1>2. /\ half \in 0 .. BareAxis(h)!Longest /\ BareAxis(h)!Longest \in Nat
      /\ BareAxis(h)!AfterTurn \in 0 .. BareAxis(h)!Longest
  BY BareFacts DEF BareInv, BareAxis!AfterTurn
<1>3. -1 \notin 0 .. BareAxis(h)!Longest
  BY <1>2
<1>4. CASE BareAxis(h)!Tick
  <2>1. /\ half' = half /\ dir' = dir /\ axisRunning' = axisRunning /\ wait' = wait
        /\ hold' = hold /\ fault' = fault /\ position' = position /\ step' = step
        /\ pin' = pin /\ moved' = moved
        /\ due # 0 /\ due' = (IF due = -1 THEN -1 ELSE due - 1)
    BY <1>4 DEF BareAxis!Tick, BareAxis!axis, BareAxis!Off
  <2>2. due' \in {-1} \cup 0 .. BareAxis(h)!Longest /\ (due # -1 => due' # -1)
    BY <1>2, <2>1 DEF BareInv
  <2> QED BY <1>1, <2>1, <2>2, BareFacts DEF BareInv, Counts
<1>5. CASE BareAxis(h)!Ignored
  <2>1. /\ due' = -1 /\ step' = step /\ moved' = moved /\ half' = half /\ dir' = dir
        /\ position' = position /\ pin' = pin /\ fault' = fault
        /\ wait' = wait /\ hold' = hold /\ axisRunning' = axisRunning
    BY <1>5 DEF BareAxis!Ignored, BareAxis!axis, BareAxis!pins, BareAxis!Off
  <2>2. ~axisRunning
    BY <1>5 DEF BareAxis!Ignored, BareAxis!NotRunning, BareInv
  <2> QED BY <1>1, <2>1, <2>2, BareFacts DEF BareInv, Counts
<1>6. CASE BareAxis(h)!EndHold
  <2>1. CASE BareAxis(h)!Latch /\ UNCHANGED dir
    BY <1>1, <2>1, BareLatches
  <2>2. CASE BareAxis(h)!Halts /\ BareAxis(h)!Direction(dir) /\ BareAxis(h)!Lowers
             /\ UNCHANGED <<half, dir, position, moved>>
    BY <1>1, <2>2, BareHalts DEF BareAxis!Direction, BareInv, Counts
  <2>3. CASE /\ hold' = FALSE /\ BareAxis(h)!Direction(dir)
             /\ due' = BareAxis(h)!AfterTurn
             /\ UNCHANGED <<half, dir, axisRunning, wait, fault, position, step, high, moved>>
    <3>1. /\ pin' = dir /\ dir' = dir /\ half' = half /\ position' = position
          /\ moved' = moved /\ step' = step /\ axisRunning' = axisRunning /\ wait' = wait
          /\ fault' = fault /\ due' = BareAxis(h)!AfterTurn
      BY <2>3 DEF BareAxis!Direction
    <3>2. hold' \in BOOLEAN /\ due' # -1
      BY <1>2, <1>3, <2>3
    <3> QED BY <1>1, <1>2, <3>1, <3>2, BareFacts DEF BareInv, Counts
  <2> QED BY <1>6, <2>1, <2>2, <2>3 DEF BareAxis!EndHold
<1>7. CASE BareAxis(h)!EndWait
  <2>1. CASE BareAxis(h)!Latch /\ UNCHANGED dir
    BY <1>1, <2>1, BareLatches
  <2>2. CASE /\ wait' = FALSE /\ due' = BareAxis(h)!AfterTurn
             /\ UNCHANGED <<half, dir, axisRunning, hold, fault, position,
                            BareAxis(h)!pins>>
    <3>1. /\ pin' = pin /\ dir' = dir /\ half' = half /\ position' = position
          /\ moved' = moved /\ step' = step /\ axisRunning' = axisRunning /\ hold' = hold
          /\ fault' = fault /\ due' = BareAxis(h)!AfterTurn
      BY <2>2 DEF BareAxis!pins
    <3>2. wait' \in BOOLEAN /\ due' # -1
      BY <1>2, <1>3, <2>2
    <3> QED BY <1>1, <1>2, <3>1, <3>2, BareFacts DEF BareInv, Counts
  <2> QED BY <1>7, <2>1, <2>2 DEF BareAxis!EndWait
<1>8. ASSUME BareAxis(h)!Stepping PROVE axisRunning /\ ~fault /\ ~hold
  BY <1>8 DEF BareAxis!Stepping, BareAxis!NotRunning
<1>9. CASE BareAxis(h)!Rise
  <2>1. /\ axisRunning /\ ~hold /\ step = 0 /\ (pin = dir \/ main.at \in Turning)
        /\ position + dir \in Int /\ moved + pin \in Int
    BY <1>8, <1>9 DEF BareAxis!Rise, BareInv
  <2>2. CASE BareAxis(h)!Latch /\ UNCHANGED dir
    BY <1>1, <2>2, BareLatches
  <2>3. CASE /\ BareAxis(h)!Halts
             /\ position' = position + dir /\ moved' = moved + pin /\ high' = 0
             /\ UNCHANGED <<half, dir, pin, since>>
    BY <1>1, <2>1, <2>3, BareHalts DEF BareInv, Counts
  <2>4. CASE /\ BareAxis(h)!Level(1) /\ position' = position + dir /\ due' = half
             /\ UNCHANGED <<half, dir, axisRunning, wait, hold, fault, pin, since>>
    <3>1. /\ step' = 1 /\ moved' = moved + pin /\ due' = half
          /\ pin' = pin /\ dir' = dir /\ half' = half
          /\ axisRunning' = axisRunning /\ hold' = hold /\ wait' = wait /\ fault' = fault
          /\ position' = position + dir
      BY <2>1, <2>4 DEF BareAxis!Level
    <3>2. due' # -1
      BY <1>2, <1>3, <3>1
    <3> QED BY <1>1, <1>2, <2>1, <3>1, <3>2, BareFacts DEF BareInv, Counts
  <2> QED BY <1>9, <2>2, <2>3, <2>4 DEF BareAxis!Rise
<1>10. CASE BareAxis(h)!Fall
  <2>1. axisRunning /\ ~hold /\ step = 1
    BY <1>8, <1>10 DEF BareAxis!Fall
  <2>2. CASE BareAxis(h)!Latch /\ UNCHANGED dir
    BY <1>1, <2>2, BareLatches
  <2>3. CASE BareAxis(h)!Level(0) /\ due' = half /\ UNCHANGED <<BareAxis(h)!axis, pin, since>>
    <3>1. /\ step' = 0 /\ moved' = moved /\ due' = half
          /\ pin' = pin /\ dir' = dir /\ half' = half
          /\ axisRunning' = axisRunning /\ hold' = hold /\ wait' = wait /\ fault' = fault
          /\ position' = position
      BY <2>1, <2>3 DEF BareAxis!Level, BareAxis!axis
    <3>2. due' # -1
      BY <1>2, <1>3, <3>1
    <3> QED BY <1>1, <1>2, <3>1, <3>2, BareFacts DEF BareInv, Counts
  <2> QED BY <1>10, <2>2, <2>3 DEF BareAxis!Fall
<1> QED BY <1>4, <1>5, <1>6, <1>7, <1>9, <1>10

LEMMA BareStep ==
    ASSUME NEW h \in Nat, Axis(h)!StepperAssumption, BareInv(h), BareAxis(h)!Next
    PROVE  BareInv(h)' /\ BareAxis(0)!StepsAreCounted
<1>1. BareInv(h)' /\ Counts
  BY BareCalls, BareExpires DEF BareAxis!Next
<1> QED BY <1>1, CountsIsCounted DEF BareInv

LEMMA BareFollows ==
    ASSUME NEW h \in Nat, Axis(h)!StepperAssumption, BareInv(h)
    PROVE  Axis(h)!TypeOK /\ Axis(0)!KeepsStepping
<1>1. {axisRunning, wait, hold, fault} \subseteq BOOLEAN
  BY Zenon DEF BareInv
<1>2. /\ half \in Axis(h)!Times /\ {dir, pin} \subseteq {1, -1} /\ step \in {0, 1}
      /\ due \in {-1} \cup 0 .. Axis(h)!Longest
  BY BareFacts DEF BareInv
<1>3. Axis(h)!TypeOK
  BY <1>1, <1>2 DEF Axis!TypeOK, Axis!Off
<1>4. axisRunning /\ main = [at |-> "rest", dir |-> 1] => due # -1
  BY DEF BareInv
<1> QED BY <1>3, <1>4 DEF Axis!KeepsStepping, Axis!Off, Axis!Rest

-----------------------------------------------------------------------------
(* The inputs that stop the machine.                                           *)

Inputs == Switches \cup {"stop"}

\* While the filtered level is not the one that is read, the time since the raw one
\* changed is the time the reads were the same; a polled input that is active at 1 is
\* reported as it is filtered, and one with both edges as the last of them found it.
InputInv(t) ==
    /\ level \in {0, 1} /\ raw \in {0, 1} /\ filtered \in {0, 1}
    /\ stable \in BOOLEAN /\ triggered \in BOOLEAN /\ inLatched \in BOOLEAN
    /\ edge \in BOOLEAN /\ seen \in BOOLEAN /\ reported \in BOOLEAN
    /\ sinceRaw \in 0 .. LongestInput /\ sameFor \in 0 .. LongestInput /\ samples \in 0 .. 2
    /\ filtered # raw => samples > 0 /\ sinceRaw = sameFor
    /\ samples > 0 => sameFor <= sinceRaw
    /\ Input(t)!Polled /\ Input(t)!ActiveLevel = 1 => (triggered <=> filtered = 1)
    /\ t = "edges" /\ ~edge /\ seen => (triggered <=> level = 1)
    /\ inLatched <=> reported

\* The time a level is held until it is taken.
HeldFor(t) == IF t = "edges" THEN 0 ELSE StableTime

LEMMA InputFacts ==
    ASSUME NEW t \in Inputs, Input(t)!InputAssumption
    PROVE  /\ StableTime \in Nat \/ t = "edges"
           /\ HeldFor(t) \in Nat /\ LongestInput \in Nat /\ HeldFor(t) < LongestInput
           /\ Input(t)!Polled <=> HeldFor(t) > 0
           /\ \A n : Input(t)!Settled(n) <=> n >= HeldFor(t)
           /\ t = "edges" => Input(t)!ActiveLevel = 1 /\ ~Input(t)!Polled
<1>1. {HeldFor(t), LongestInput} \subseteq Nat /\ LongestInput > HeldFor(t)
  BY DEF HeldFor, Input!InputAssumption
<1>2. Input(t)!Polled <=> HeldFor(t) > 0
  BY DEF HeldFor, Input!Polled
<1>3. \A n : Input(t)!Settled(n) <=> n >= HeldFor(t)
  BY DEF HeldFor, Input!Settled
<1>4. t = "edges" => Input(t)!ActiveLevel = 1
  BY DEF Input!ActiveLevel
<1>5. t = "edges" => HeldFor(t) = 0
  BY DEF HeldFor
<1>6. StableTime \in Nat \/ t = "edges"
  BY <1>1 DEF HeldFor
<1> QED BY <1>1, <1>2, <1>3, <1>4, <1>5, <1>6

LEMMA InputStarts ==
    ASSUME NEW t \in Inputs, Input(t)!InputAssumption, level \in {0, 1}, Input("stop")!Init
    PROVE  InputInv(t)
<1>1. /\ raw = 0 /\ filtered = 0 /\ sinceRaw = LongestInput /\ sameFor = 0 /\ samples = 0
  BY DEF Input!Init
<1>2. /\ stable \in BOOLEAN /\ triggered \in BOOLEAN /\ inLatched \in BOOLEAN
      /\ edge \in BOOLEAN /\ seen \in BOOLEAN /\ reported \in BOOLEAN
  BY DEF Input!Init
<1>3. ~triggered /\ ~inLatched /\ ~seen /\ ~reported
  BY DEF Input!Init
<1>4. LongestInput \in Nat
  BY InputFacts
<1> QED BY <1>1, <1>2, <1>3, <1>4 DEF InputInv

\* One sample of a polled input.
LEMMA InputSamples ==
    ASSUME NEW t \in Inputs, Input(t)!InputAssumption, InputInv(t), Input(t)!Poll
    PROVE  InputInv(t)' /\ Input(t)!BouncesAreIgnored /\ Input(t)!HeldIsReported
<1> DEFINE isActive == Input(t)!AsRead(level)
<1>1. /\ HeldFor(t) \in Nat /\ LongestInput \in Nat /\ Input(t)!Polled /\ t # "edges"
      /\ HeldFor(t) > 0
  BY InputFacts DEF Input!Poll
<1>2. /\ level' = level /\ raw' = level /\ edge' = edge /\ seen' = seen
      /\ samples' = IF level = raw THEN (IF samples < 2 THEN samples + 1 ELSE 2) ELSE 1
      /\ sameFor' = IF level = raw /\ samples > 0 THEN sameFor ELSE 0
  BY DEF Input!Poll, Input!Sample, Input!UpTo
<1>3. isActive \in BOOLEAN /\ (Input(t)!ActiveLevel = 1 => (isActive <=> level = 1))
  BY DEF Input!AsRead
<1> HIDE DEF isActive
<1>4. ASSUME level # raw
      PROVE  /\ sinceRaw' = 0 /\ stable' \in BOOLEAN
             /\ filtered' = filtered /\ triggered' = triggered
             /\ inLatched' = inLatched /\ reported' = reported
  BY <1>4 DEF Input!Poll, Input!Sample
<1>5. ASSUME level = raw
      PROVE  /\ sinceRaw' = sinceRaw /\ stable' \in BOOLEAN
             /\ \/ /\ filtered' = filtered /\ triggered' = triggered
                   /\ inLatched' = inLatched /\ reported' = reported
                   /\ filtered = level \/ ~(sinceRaw >= HeldFor(t))
                \/ /\ filtered # level /\ sinceRaw >= HeldFor(t) /\ filtered' = level
                   /\ triggered' = isActive /\ inLatched' = (inLatched \/ isActive)
                   /\ reported' = (reported \/ isActive)
  <2>1. CASE (stable /\ filtered = level) \/ ~Input(t)!Settled(sinceRaw)
    BY <1>5, <2>1, InputFacts DEF Input!Poll, Input!Sample, InputInv
  <2>2. CASE ~((stable /\ filtered = level) \/ ~Input(t)!Settled(sinceRaw))
    <3>1. sinceRaw' = sinceRaw /\ stable' = TRUE /\ filtered' = level /\ sinceRaw >= HeldFor(t)
      BY <1>5, <2>2, InputFacts DEF Input!Poll, Input!Sample
    <3>2. CASE filtered = level
      BY <1>5, <2>2, <3>1, <3>2 DEF Input!Poll, Input!Sample
    <3>3. CASE filtered # level
      BY <1>5, <2>2, <3>1, <3>3 DEF Input!Poll, Input!Sample, Input!Report, isActive
    <3> QED BY <3>2, <3>3
  <2> QED BY <2>1, <2>2
<1>6. InputInv(t)'
  <2>1. Input(t)!Polled' = Input(t)!Polled /\ Input(t)!ActiveLevel' = Input(t)!ActiveLevel
    BY DEF Input!Polled, Input!ActiveLevel
  <2>2. CASE level # raw
    BY <1>1, <1>2, <1>4, <2>2, <2>1 DEF InputInv
  <2>3. CASE level = raw
    BY <1>1, <1>2, <1>3, <1>5, <2>3, <2>1 DEF InputInv
  <2> QED BY <2>2, <2>3
<1>7. Input(t)!BouncesAreIgnored
  <2>1. ASSUME triggered' # triggered, triggered'
        PROVE  samples' = 2 /\ sameFor' >= HeldFor(t)
    <3>1. level = raw /\ filtered # level /\ sinceRaw >= HeldFor(t)
      BY <1>4, <1>5, <2>1
    <3>2. samples > 0 /\ sinceRaw = sameFor /\ samples \in 0 .. 2
      BY <3>1 DEF InputInv
    <3> QED BY <1>2, <3>1, <3>2
  <2> QED BY <2>1 DEF Input!BouncesAreIgnored, HeldFor
<1>8. Input(t)!HeldIsReported
  <2>1. ASSUME samples' = 2, sameFor' >= HeldFor(t)
        PROVE  filtered' = level /\ (Input(t)!ActiveLevel = 1 => (triggered' <=> isActive))
    <3>1. level = raw /\ samples > 0 /\ sameFor >= HeldFor(t)
      BY <1>1, <1>2, <2>1 DEF InputInv
    <3>2. sinceRaw >= HeldFor(t)
      BY <1>1, <3>1 DEF InputInv
    <3> QED BY <1>1, <1>3, <1>5, <3>1, <3>2 DEF InputInv
  <2>2. triggered' \in BOOLEAN
    BY <1>6 DEF InputInv
  <2>3. ASSUME samples' = 2, sameFor' >= HeldFor(t)
        PROVE  filtered' = level /\ (Input(t)!ActiveLevel = 1 => triggered' = isActive)
    BY <1>3, <2>1, <2>2, <2>3
  <2> QED BY <2>3 DEF Input!HeldIsReported, HeldFor, isActive
<1> QED BY <1>6, <1>7, <1>8

\* The steps that are no sample: what is reported falls, or an edge is followed.
LEMMA InputOthers ==
    ASSUME NEW t \in Inputs, Input(t)!InputAssumption, InputInv(t),
           \/ Input(t)!Move \/ Input(t)!Elapse \/ Input(t)!Edge
           \/ Input(t)!ClearLatch \/ Input(t)!Reset
    PROVE  InputInv(t)' /\ (Input(t)!Polled /\ triggered' => triggered)
<1>1. Input(t)!Polled' = Input(t)!Polled /\ Input(t)!ActiveLevel' = Input(t)!ActiveLevel
  BY DEF Input!Polled, Input!ActiveLevel
<1>2. LongestInput \in Nat /\ (t = "edges" => Input(t)!ActiveLevel = 1 /\ ~Input(t)!Polled)
  BY InputFacts
<1>3. CASE Input(t)!Move
  <2>1. /\ level' = 1 - level /\ edge' \in BOOLEAN
        /\ raw' = raw /\ filtered' = filtered /\ stable' = stable /\ sinceRaw' = sinceRaw
        /\ triggered' = triggered /\ inLatched' = inLatched /\ sameFor' = sameFor
        /\ samples' = samples /\ seen' = seen /\ reported' = reported
    BY <1>3 DEF Input!Move, Input!debounce, InputInv
  <2>2. t = "edges" => edge'
    BY <1>2, <1>3 DEF Input!Move, InputInv
  <2>3. level' \in {0, 1}
    BY <2>1 DEF InputInv
  <2> QED BY <1>1, <2>1, <2>2, <2>3 DEF InputInv
<1>4. CASE Input(t)!Elapse
  <2>1. /\ level' = level /\ edge' = edge /\ raw' = raw /\ filtered' = filtered
        /\ stable' = stable /\ triggered' = triggered /\ inLatched' = inLatched
        /\ samples' = samples /\ seen' = seen /\ reported' = reported
        /\ samples > 0 => sameFor < LongestInput
        /\ sinceRaw' = IF sinceRaw < LongestInput THEN sinceRaw + 1 ELSE LongestInput
        /\ sameFor' = IF samples = 0 THEN 0
                      ELSE IF sameFor < LongestInput THEN sameFor + 1 ELSE LongestInput
    BY <1>4 DEF Input!Elapse, Input!UpTo
  <2> QED BY <1>1, <1>2, <2>1 DEF InputInv
<1>5. CASE Input(t)!Edge
  <2>1. /\ level' = level /\ raw' = raw /\ filtered' = filtered /\ stable' = stable
        /\ sinceRaw' = sinceRaw /\ sameFor' = sameFor /\ samples' = samples
        /\ ~Input(t)!Polled /\ edge' \in BOOLEAN
    BY <1>5 DEF Input!Edge, Input!debounce
  <2>2. CASE Input(t)!Report(Input(t)!AsRead(level)) /\ seen' = TRUE
    <3>1. /\ triggered' \in BOOLEAN
          /\ inLatched' = (inLatched \/ Input(t)!AsRead(level))
          /\ reported' = (reported \/ Input(t)!AsRead(level))
          /\ Input(t)!ActiveLevel = 1 => (triggered' <=> level = 1)
      BY <2>2 DEF Input!Report, Input!AsRead
    <3>2. Input(t)!AsRead(level) \in BOOLEAN
      BY DEF Input!AsRead
    <3> QED BY <1>1, <1>2, <2>1, <2>2, <3>1, <3>2 DEF InputInv
  <2>3. CASE seen' = FALSE /\ UNCHANGED <<triggered, inLatched, reported>>
    BY <1>1, <1>2, <2>1, <2>3 DEF InputInv
  <2> QED BY <1>5, <2>2, <2>3 DEF Input!Edge
<1>6. CASE Input(t)!ClearLatch
  <2>1. /\ level' = level /\ edge' = edge /\ raw' = raw /\ filtered' = filtered
        /\ stable' = stable /\ sinceRaw' = sinceRaw /\ triggered' = triggered
        /\ samples' = samples /\ sameFor' = sameFor /\ seen' = seen
    BY <1>6 DEF Input!ClearLatch, Input!debounce
  <2>2. inLatched' \in BOOLEAN /\ reported' \in BOOLEAN /\ ~inLatched' /\ ~reported'
    BY <1>6 DEF Input!ClearLatch
  <2> QED BY <1>1, <2>1, <2>2 DEF InputInv
<1>7. CASE Input(t)!Reset
  <2>1. /\ level' = level /\ edge' = edge /\ raw' = 0 /\ filtered' = 0
        /\ sinceRaw' = LongestInput /\ sameFor' = 0 /\ samples' = 0
    BY <1>7 DEF Input!Reset
  <2>2. /\ stable' \in BOOLEAN /\ triggered' \in BOOLEAN /\ inLatched' \in BOOLEAN
        /\ seen' \in BOOLEAN /\ reported' \in BOOLEAN
        /\ ~triggered' /\ ~inLatched' /\ ~seen' /\ ~reported'
    BY <1>7 DEF Input!Reset
  <2> QED BY <1>1, <1>2, <2>1, <2>2 DEF InputInv
<1> QED BY <1>3, <1>4, <1>5, <1>6, <1>7

LEMMA InputStep ==
    ASSUME NEW t \in Inputs, Input(t)!InputAssumption, InputInv(t), Input(t)!Next
    PROVE  /\ InputInv(t)'
           /\ Input(t)!BouncesAreIgnored /\ Input(t)!HeldIsReported
<1>1. CASE Input(t)!Poll
  BY <1>1, InputSamples
<1>2. CASE ~Input(t)!Poll
  <2>1. InputInv(t)' /\ (Input(t)!Polled /\ triggered' => triggered)
    BY <1>2, InputOthers DEF Input!Next
  <2>2. triggered \in BOOLEAN /\ triggered' \in BOOLEAN
    BY <2>1 DEF InputInv
  <2>3. Input(t)!BouncesAreIgnored
    BY <2>1, <2>2 DEF Input!BouncesAreIgnored
  <2> QED BY <1>2, <2>1, <2>3 DEF Input!HeldIsReported
<1> QED BY <1>1, <1>2

LEMMA InputFollows ==
    ASSUME NEW t \in Inputs, Input(t)!InputAssumption, InputInv(t)
    PROVE  Input("stop")!TypeOK /\ (t = "edges" => Input("edges")!EdgesAreFollowed)
<1>1. Input("stop")!TypeOK
  <2>1. {stable, triggered, inLatched, edge, seen, reported} \subseteq BOOLEAN
    BY Zenon DEF InputInv
  <2>2. /\ {level, raw, filtered} \subseteq {0, 1}
        /\ {sinceRaw, sameFor} \subseteq 0 .. LongestInput /\ samples \in 0 .. 2
    BY DEF InputInv
  <2> QED BY <2>1, <2>2 DEF Input!TypeOK
<1>2. ASSUME t = "edges" PROVE Input("edges")!EdgesAreFollowed
  <2>1. Input("edges")!AsRead(level) \in BOOLEAN /\ (Input("edges")!AsRead(level) <=> level = 1)
    BY <1>2, InputFacts DEF Input!AsRead
  <2>2. /\ triggered \in BOOLEAN /\ (~edge /\ seen => (triggered <=> level = 1))
        /\ inLatched \in BOOLEAN /\ reported \in BOOLEAN /\ (inLatched <=> reported)
    BY <1>2 DEF InputInv
  <2> QED BY <2>1, <2>2 DEF Input!EdgesAreFollowed
<1> QED BY <1>1, <1>2

-----------------------------------------------------------------------------
(* The motor without a sensor.                                                 *)

Places == {"away", "applied", "latch", "latch_2", "latch_3", "begin", "begin_2",
           "reset_2", "reset_3", "stopped"}

\* The timer of a phase counts no more than the steps that were made in it, but after a
\* fault that came between two stores of a begin: then no more than the interrupts of the
\* call.  It is 0 in idle, but between two stores of a reset.
MotorInv(f) ==
    /\ focPhase \in Motor(f)!Phases
    /\ focLatched \in BOOLEAN /\ duty \in BOOLEAN /\ outputs \in BOOLEAN
    /\ focMain \in Places /\ (~f => focMain \in {"away", "stopped"})
    /\ within \in 0 .. PerCall /\ (focMain = "away" => within = 0)
    /\ timer \in 0 .. AlignSteps + RampSteps /\ lockTimer \in 0 .. LockSteps
    /\ aligned \in 0 .. AlignSteps /\ ramped \in 0 .. RampSteps /\ slow \in 0 .. LockSteps
    /\ focLatched /\ focMain # "latch_3" => ~duty /\ ~outputs
    /\ focPhase = "idle" /\ focMain # "reset_2" => timer = 0
    /\ focPhase = "align" => timer < AlignSteps /\ (focMain # "begin_2" => timer <= aligned)
    /\ focMain \in {"begin", "begin_2"} =>
          timer <= within /\ focPhase \in {"idle", "align", "fault"}
    /\ focPhase = "open_loop" => aligned = AlignSteps /\ timer <= ramped /\ timer < RampSteps
    /\ focPhase = "observer" =>
          /\ aligned = AlignSteps /\ ramped = RampSteps
          /\ timer < RampSteps /\ lockTimer < LockSteps
    /\ ~f => /\ focPhase \in {"align", "open_loop"} => slow = 0
             /\ focPhase = "observer" => slow <= lockTimer

LEMMA MotorFacts ==
    ASSUME NEW f \in BOOLEAN, Motor(f)!FocAssumption
    PROVE  /\ AlignSteps \in Nat /\ AlignSteps > 0 /\ RampSteps \in Nat /\ RampSteps > 0
           /\ LockSteps \in Nat /\ LockSteps > 0 /\ PerCall \in Nat /\ PerCall < AlignSteps
BY DEF Motor!FocAssumption

LEMMA MotorStarts ==
    ASSUME NEW f \in BOOLEAN, Motor(f)!FocAssumption, Motor(TRUE)!Init
    PROVE  MotorInv(f)
<1>1. /\ focPhase = "idle" /\ timer = 0 /\ lockTimer = 0 /\ focMain = "away" /\ within = 0
      /\ aligned = 0 /\ ramped = 0 /\ slow = 0
  BY DEF Motor!Init
<1>2. focLatched \in BOOLEAN /\ duty \in BOOLEAN /\ outputs \in BOOLEAN /\ ~focLatched
  BY DEF Motor!Init
<1> QED BY <1>1, <1>2, MotorFacts DEF MotorInv, Places, Motor!Phases

\* Two counters that are stepped together keep their order.
LEMMA CountTogether ==
    ASSUME NEW n \in Nat, NEW a \in Nat, NEW b \in Nat, a <= b, a < n
    PROVE  a + 1 <= IF b < n THEN b + 1 ELSE n
OBVIOUS

LEMMA CountBehind ==
    ASSUME NEW n \in Nat, NEW a \in Nat, NEW b \in Nat, b <= a, b <= n
    PROVE  (IF b < n THEN b + 1 ELSE n) <= a + 1
OBVIOUS

\* What a command of the loop does not say anything about.
LEMMA NotFaulted ==
    ASSUME NEW f \in BOOLEAN, NEW c, ~Motor(f)!Faulted(c)
    PROVE  ~focLatched /\ focPhase # "fault"
BY DEF Motor!Faulted

\* The phase, the timers, the latch and the bridge after a step of the loop.
LEMMA LoopSteps ==
    ASSUME NEW f \in BOOLEAN, Motor(f)!FocAssumption, MotorInv(f), NEW c,
           \/ Motor(f)!StepInFault(c) \/ Motor(f)!StepDisabled(c) \/ Motor(f)!ReadFails(c)
           \/ Motor(f)!StepAlign(c) \/ Motor(f)!StepOpenLoop(c)
           \/ \E s \in BOOLEAN : Motor(f)!StepObserver(c, s),
           focMain' = focMain, focMain # "stopped", focMain # "away" => within < PerCall,
           within' = IF focMain = "away" THEN 0 ELSE within + 1
    PROVE  MotorInv(f)'
<1>1. within' \in 0 .. PerCall /\ (focMain # "away" => within' = within + 1)
  BY MotorFacts DEF MotorInv
<1>2. CASE Motor(f)!StepInFault(c)
  <2>1. /\ focPhase' = "fault" /\ focLatched' \in BOOLEAN /\ duty' \in BOOLEAN
        /\ outputs' \in BOOLEAN /\ ~duty' /\ ~outputs'
    BY <1>2 DEF Motor!StepInFault, Motor!LatchFault
  <2>2. /\ timer' = timer /\ lockTimer' = lockTimer
        /\ aligned' = aligned /\ ramped' = ramped /\ slow' = slow
    BY <1>2 DEF Motor!StepInFault, Motor!history
  <2> QED BY <1>1, <2>1, <2>2, MotorFacts DEF MotorInv, Motor!Phases, Places
<1>3. CASE Motor(f)!StepDisabled(c)
  <2>1. /\ focPhase' = "idle" /\ focLatched' = focLatched /\ duty' \in BOOLEAN
        /\ outputs' = outputs /\ ~focLatched
    BY <1>3, NotFaulted DEF Motor!StepDisabled
  <2>2. /\ timer' = IF focPhase = "idle" THEN timer ELSE 0
        /\ lockTimer' = lockTimer /\ aligned' = aligned /\ ramped' = ramped /\ slow' = slow
    BY <1>3 DEF Motor!StepDisabled, Motor!history
  <2> QED BY <1>1, <2>1, <2>2, MotorFacts DEF MotorInv, Motor!Phases, Places
<1>4. CASE Motor(f)!ReadFails(c)
  <2>1. /\ focPhase' = "fault" /\ focLatched' \in BOOLEAN /\ duty' \in BOOLEAN
        /\ outputs' \in BOOLEAN /\ ~duty' /\ ~outputs' /\ focPhase # "fault"
    BY <1>4, NotFaulted DEF Motor!ReadFails, Motor!LatchFault
  <2>2. /\ timer' = (IF focPhase = "idle" THEN 0 ELSE timer) + 1
        /\ lockTimer' = IF focPhase = "idle" THEN 0 ELSE lockTimer
        /\ aligned' = aligned /\ ramped' = ramped /\ slow' = slow
    BY <1>4 DEF Motor!ReadFails, Motor!history, Motor!Begun
  <2>3. timer' \in 0 .. AlignSteps + RampSteps /\ lockTimer' \in 0 .. LockSteps
    BY <2>1, <2>2, MotorFacts DEF MotorInv, Motor!Phases
  <2>4. focMain \in {"begin", "begin_2"} => timer' <= within'
    BY <1>1, <2>2, <2>3, MotorFacts DEF MotorInv
  <2> QED BY <1>1, <2>1, <2>2, <2>3, <2>4, MotorFacts DEF MotorInv, Motor!Phases, Places
<1>5. CASE Motor(f)!StepAlign(c)
  <2> DEFINE t == (IF focPhase = "idle" THEN 0 ELSE timer) + 1
  <2>1. /\ focLatched' = focLatched /\ outputs' = outputs /\ duty' \in BOOLEAN
        /\ ~focLatched /\ focPhase \in {"idle", "align"}
    BY <1>5, NotFaulted DEF Motor!StepAlign, Motor!Drives, Motor!Begun
  <2>2. /\ aligned' = IF focPhase = "idle" THEN 1
                     ELSE IF aligned < AlignSteps THEN aligned + 1 ELSE AlignSteps
        /\ ramped' = 0 /\ slow' = 0
        /\ lockTimer' = IF focPhase = "idle" THEN 0 ELSE lockTimer
        /\ IF t >= AlignSteps THEN focPhase' = "open_loop" /\ timer' = 0
           ELSE focPhase' = "align" /\ timer' = t
    BY <1>5 DEF Motor!StepAlign, Motor!Begun, Motor!UpTo, Motor!AlignTime
  <2>3. t \in 1 .. AlignSteps /\ aligned' \in 0 .. AlignSteps
    BY <2>1, <2>2, MotorFacts DEF MotorInv
  <2>4. focMain \in {"begin", "begin_2"} => t <= within' /\ t < AlignSteps
    BY <1>1, <2>1, MotorFacts DEF MotorInv
  <2>5. focMain # "begin_2" => t <= aligned'
    <3>1. CASE focPhase = "idle"
      BY <2>2, <3>1
    <3>2. CASE focPhase = "align"
      <4>1. focMain # "begin_2" => timer <= aligned
        BY <3>2 DEF MotorInv
      <4>2. /\ timer \in Nat /\ aligned \in Nat /\ timer < AlignSteps
            /\ t = timer + 1
            /\ aligned' = IF aligned < AlignSteps THEN aligned + 1 ELSE AlignSteps
        BY <2>2, <3>2, MotorFacts DEF MotorInv
      <4> HIDE DEF t
      <4>3. (focMain # "begin_2") => timer + 1 <= aligned'
        BY <4>1, <4>2, MotorFacts, CountTogether
      <4> QED BY <4>2, <4>3
    <3> QED BY <2>1, <3>1, <3>2
  <2>6. lockTimer' \in 0 .. LockSteps
    BY <2>2, MotorFacts DEF MotorInv
  <2> HIDE DEF t
  <2> QED
    BY <1>1, <2>1, <2>2, <2>3, <2>4, <2>5, <2>6, MotorFacts DEF MotorInv, Motor!Phases, Places
<1>6. CASE Motor(f)!StepOpenLoop(c)
  <2>1. /\ focLatched' = focLatched /\ outputs' = outputs /\ duty' \in BOOLEAN
        /\ ~focLatched /\ focPhase = "open_loop"
    BY <1>6, NotFaulted DEF Motor!StepOpenLoop, Motor!Drives
  <2>2. /\ ramped' = IF ramped < RampSteps THEN ramped + 1 ELSE RampSteps
        /\ aligned' = aligned /\ slow' = slow
        /\ IF timer + 1 >= RampSteps
           THEN focPhase' = "observer" /\ timer' = 0 /\ lockTimer' = 0
           ELSE focPhase' = "open_loop" /\ timer' = timer + 1 /\ lockTimer' = lockTimer
    BY <1>6, <2>1 DEF Motor!StepOpenLoop, Motor!UpTo, Motor!RampTime
  <2>3. focMain \notin {"begin", "begin_2"}
    BY <2>1 DEF MotorInv
  <2> QED BY <1>1, <2>1, <2>2, <2>3, MotorFacts DEF MotorInv, Motor!Phases, Places
<1>7. ASSUME NEW s \in BOOLEAN, Motor(f)!StepObserver(c, s) PROVE MotorInv(f)'
  <2> DEFINE k == IF s THEN lockTimer + 1 ELSE 0
  <2>1. ~focLatched /\ focPhase = "observer"
    BY <1>7, NotFaulted DEF Motor!StepObserver
  <2>2. /\ lockTimer' = k /\ timer' = timer /\ aligned' = aligned /\ ramped' = ramped
        /\ slow' = IF s THEN (IF slow < LockSteps THEN slow + 1 ELSE LockSteps) ELSE 0
    BY <1>7 DEF Motor!StepObserver, Motor!Lock, Motor!UpTo
  <2>3. k \in 0 .. LockSteps /\ slow' \in 0 .. LockSteps
    BY <2>1, <2>2, MotorFacts DEF MotorInv
  <2>4. ~f => slow' <= k
    <3>1. /\ slow \in 0 .. LockSteps /\ lockTimer \in 0 .. LockSteps
          /\ ~f => slow <= lockTimer
      BY <2>1 DEF MotorInv
    <3>2. CASE s
      <4>1. /\ slow' = IF slow < LockSteps THEN slow + 1 ELSE LockSteps
            /\ k = lockTimer + 1
        BY <2>2, <3>2
      <4> HIDE DEF k
      <4>2. ASSUME ~f PROVE slow' <= lockTimer + 1
        <5>1. /\ slow \in Nat /\ slow <= LockSteps /\ lockTimer \in Nat
              /\ slow <= lockTimer /\ LockSteps \in Nat
          BY <3>1, <4>2, MotorFacts
        <5>2. (IF slow < LockSteps THEN slow + 1 ELSE LockSteps) <= lockTimer + 1
          BY <5>1, CountBehind
        <5> QED BY <4>1, <5>2
      <4> QED BY <4>1, <4>2
    <3>3. CASE ~s
      BY <2>2, <3>3
    <3> QED BY <3>2, <3>3
  <2>5. focMain \notin {"begin", "begin_2"}
    BY <2>1 DEF MotorInv
  <2>6. /\ focLatched' \in BOOLEAN /\ duty' \in BOOLEAN /\ outputs' \in BOOLEAN
        /\ \/ k >= LockSteps /\ focPhase' = "fault" /\ ~duty' /\ ~outputs'
           \/ k < LockSteps /\ focPhase' = "observer" /\ ~focLatched'
    <3>1. CASE k >= LockSteps
      BY <1>7, <2>1, <3>1 DEF Motor!StepObserver, Motor!Lock, Motor!LatchFault
    <3>2. CASE ~(k >= LockSteps)
      <4>1. /\ focPhase' = focPhase /\ focLatched' = focLatched /\ outputs' = outputs
            /\ duty' \in BOOLEAN
        BY <1>7, <3>2 DEF Motor!StepObserver, Motor!Lock, Motor!Drives
      <4>2. k < LockSteps
        BY <2>3, <3>2, MotorFacts
      <4> QED BY <2>1, <4>1, <4>2 DEF MotorInv
    <3> QED BY <3>1, <3>2
  <2> HIDE DEF k
  <2> QED
    BY <1>1, <2>1, <2>2, <2>3, <2>4, <2>5, <2>6, MotorFacts DEF MotorInv, Motor!Phases, Places
<1> QED BY <1>2, <1>3, <1>4, <1>5, <1>6, <1>7

\* The steps of the main loop.
LEMMA MainSteps ==
    ASSUME NEW f \in BOOLEAN, Motor(f)!FocAssumption, MotorInv(f), Motor(f)!MainLoop
    PROVE  MotorInv(f)'
<1> USE MotorFacts DEF MotorInv, Motor!Phases, Places, Motor!MoveTo, Motor!Goes,
        Motor!history, Motor!bridge
<1>1. CASE Motor(f)!ApplyCommand
  BY <1>1 DEF Motor!ApplyCommand
<1>2. CASE Motor(f)!Examine
  BY <1>2 DEF Motor!Examine
<1>3. CASE Motor(f)!LatchPhase
  BY <1>3 DEF Motor!LatchPhase
<1>4. CASE Motor(f)!LatchFlag
  BY <1>4 DEF Motor!LatchFlag
<1>5. CASE Motor(f)!LatchBridge
  <2>1. /\ focPhase' = focPhase /\ timer' = timer /\ lockTimer' = lockTimer
        /\ focMain = "latch_3" /\ focMain' = "away" /\ within' = 0
        /\ aligned' = aligned /\ ramped' = ramped /\ slow' = slow
    BY <1>5 DEF Motor!LatchBridge
  <2>2. /\ focLatched' \in BOOLEAN /\ duty' \in BOOLEAN /\ outputs' \in BOOLEAN
        /\ ~duty' /\ ~outputs'
    BY <1>5 DEF Motor!LatchBridge
  <2> QED BY <2>1, <2>2
<1>6. CASE Motor(f)!BeginPhase
  BY <1>6 DEF Motor!BeginPhase
<1>7. CASE Motor(f)!BeginTimers
  BY <1>7 DEF Motor!BeginTimers
<1>8. CASE Motor(f)!ResetPhase
  BY <1>8 DEF Motor!ResetPhase
<1>9. CASE Motor(f)!ResetTimers
  BY <1>9 DEF Motor!ResetTimers
<1>10. CASE Motor(f)!ResetLatch
  <2>1. /\ focPhase' = focPhase /\ timer' = timer /\ lockTimer' = lockTimer
        /\ focMain = "reset_3" /\ focMain' = "away" /\ within' = 0
        /\ aligned' = aligned /\ ramped' = ramped /\ slow' = slow
    BY <1>10 DEF Motor!ResetLatch
  <2>2. focLatched' \in BOOLEAN /\ ~focLatched' /\ duty' \in BOOLEAN /\ outputs' \in BOOLEAN
    BY <1>10 DEF Motor!ResetLatch
  <2> QED BY <2>1, <2>2
<1>11. CASE Motor(f)!SafeStop
  BY <1>11 DEF Motor!SafeStop
<1>12. CASE Motor(f)!Reopen
  <2>1. /\ focPhase' = "idle" /\ timer' = 0 /\ lockTimer' = 0
        /\ focMain = "stopped" /\ focMain' = "away" /\ within' = 0
        /\ aligned' = aligned /\ ramped' = ramped /\ slow' = slow
    BY <1>12 DEF Motor!Reopen
  <2>2. focLatched' \in BOOLEAN /\ ~focLatched' /\ duty' \in BOOLEAN /\ outputs' \in BOOLEAN
    BY <1>12 DEF Motor!Reopen
  <2> QED BY <2>1, <2>2
<1> QED
  BY <1>1, <1>2, <1>3, <1>4, <1>5, <1>6, <1>7, <1>8, <1>9, <1>10, <1>11, <1>12
  DEF Motor!MainLoop

LEMMA MotorStep ==
    ASSUME NEW f \in BOOLEAN, Motor(f)!FocAssumption, MotorInv(f), Motor(f)!Next
    PROVE  MotorInv(f)'
<1>1. CASE Motor(f)!Interrupt
  <2>1. PICK c : \/ Motor(f)!StepInFault(c) \/ Motor(f)!StepDisabled(c)
                 \/ Motor(f)!ReadFails(c) \/ Motor(f)!StepAlign(c) \/ Motor(f)!StepOpenLoop(c)
                 \/ \E s \in BOOLEAN : Motor(f)!StepObserver(c, s)
    BY <1>1 DEF Motor!Interrupt
  <2>2. /\ focMain' = focMain /\ focMain # "stopped" /\ (focMain # "away" => within < PerCall)
        /\ within' = IF focMain = "away" THEN 0 ELSE within + 1
    BY <1>1 DEF Motor!Interrupt
  <2> QED BY <2>1, <2>2, LoopSteps
<1> QED BY <1>1, MainSteps DEF Motor!Next

LEMMA MotorFollows ==
    ASSUME NEW f \in BOOLEAN, Motor(f)!FocAssumption, MotorInv(f)
    PROVE  Motor(TRUE)!FaultIsSafe /\ Motor(f)!StartIsWhole
<1>1. Motor(TRUE)!FaultIsSafe
  BY DEF MotorInv, Motor!FaultIsSafe
<1>2. ~f /\ slow = LockSteps => focLatched \/ focPhase # "observer"
  BY MotorFacts DEF MotorInv
<1> QED BY <1>1, <1>2 DEF MotorInv, Motor!StartIsWhole

-----------------------------------------------------------------------------
(* The supervision of a battery.                                               *)

\* The factor lies between the target and 1; it is down as far as the samples outside
\* the limits took it; a time to recover has begun after the last of them.
BatteryInv ==
    /\ derLatched \in BOOLEAN /\ flags \in BOOLEAN /\ healthy \in Nat
    /\ faulty \in 0 .. Battery!Ticks /\ elapsed \in 0 .. Battery!Ticks /\ failed \in 0 .. Failures
    /\ factor \in Derated .. Full
    /\ faulty > 0 => factor <= Battery!Most(Derated, Full - faulty * RampRate)
    /\ IF derLatched THEN healthy = 0 ELSE elapsed <= healthy

LEMMA TicksAreNumbers ==
    ASSUME Battery!DeratingAssumption
    PROVE  /\ Battery!Ticks \in Nat
           /\ Full \in Nat /\ Derated \in 0 .. Full /\ RampRate \in Nat
           /\ RecoverySteps \in Nat /\ Failures \in Nat
<1>1. Full \div RampRate \in Nat
  BY DEF Battery!DeratingAssumption
<1> QED BY <1>1 DEF Battery!DeratingAssumption, Battery!Ticks

LEMMA BatteryStarts ==
    ASSUME Battery!DeratingAssumption, Battery!Init
    PROVE  BatteryInv
<1>1. Full - 0 * RampRate = Full
  BY TicksAreNumbers
<1>2. derLatched \in BOOLEAN /\ flags \in BOOLEAN /\ ~derLatched
  BY DEF Battery!Init
<1>3. /\ elapsed = 0 /\ factor = Full /\ failed = 0 /\ healthy = 0 /\ faulty = 0
  BY DEF Battery!Init
<1> QED
  BY <1>1, <1>2, <1>3, TicksAreNumbers DEF BatteryInv

\* What a sample does, and that the ramp goes up only after the time to recover.
LEMMA BatterySamples ==
    ASSUME Battery!DeratingAssumption, BatteryInv,
           NEW sick \in BOOLEAN, Battery!Sample(sick)
    PROVE  BatteryInv' /\ Battery!RisesWhenRecovered
<1> USE TicksAreNumbers DEF BatteryInv, Battery!DeratingAssumption, Battery!Sample, Battery!UpTo
<1>1. CASE sick
  <2>1. factor' = Battery!Most(factor - RampRate, Derated)
    BY <1>1 DEF Battery!Ramp
  <2>2. factor' \in Derated .. Full /\ factor' <= factor
    BY <2>1 DEF Battery!Most
  <2>3. (faulty + 1) * RampRate = faulty * RampRate + RampRate /\ faulty * RampRate \in Nat
    <3>1. faulty \in Nat /\ RampRate \in Nat
      OBVIOUS
    <3>2. ASSUME NEW f \in Nat, NEW r \in Nat PROVE (f + 1) * r = f * r + r /\ f * r \in Nat
      BY <3>2
    <3> HIDE DEF BatteryInv
    <3> QED BY <3>1, <3>2
  <2>4. faulty' = faulty \/ faulty' = faulty + 1
    <3>1. faulty' = IF faulty < Battery!Ticks THEN faulty + 1 ELSE Battery!Ticks
      BY <1>1
    <3>2. faulty \in Nat /\ faulty <= Battery!Ticks /\ Battery!Ticks \in Nat
      OBVIOUS
    <3> HIDE DEF BatteryInv
    <3> QED BY <3>1, <3>2
  <2>5. factor' <= Battery!Most(Derated, Full - faulty' * RampRate) /\ faulty' \in 0 .. Battery!Ticks
    <3>1. CASE faulty' = faulty
      BY <1>1, <2>2, <3>1 DEF Battery!Most
    <3>2. CASE faulty' = faulty + 1
      <4>1. factor <= Battery!Most(Derated, Full - faulty * RampRate)
        BY <2>3 DEF Battery!Most
      <4>2. factor' <= Battery!Most(Derated, Full - (faulty * RampRate + RampRate))
        BY <2>1, <2>2, <2>3, <4>1 DEF Battery!Most
      <4> QED BY <2>3, <3>2, <4>2
    <3> QED BY <2>4, <3>1, <3>2
  <2>6. derLatched' /\ healthy' = 0 /\ elapsed' = 0 /\ failed' = 0 /\ flags'
    BY <1>1 DEF Battery!After
  <2> QED BY <2>2, <2>5, <2>6 DEF Battery!RisesWhenRecovered, Battery!Ticks
<1>2. CASE ~sick
  <2>1. faulty' = 0 /\ ~derLatched' /\ ~flags' /\ failed' = 0
    BY <1>2
  <2>2. elapsed' \in Nat /\ healthy' \in Nat /\ elapsed' <= healthy' /\ elapsed' <= Battery!Ticks
    BY <1>2 DEF Battery!After
  <2>3. factor' \in Derated .. Full
    BY <1>2 DEF Battery!Ramp, Battery!Least, Battery!Most
  <2>4. factor' > factor => healthy' >= RecoverySteps
    BY <1>2, <2>2 DEF Battery!Recovered
  <2> QED BY <2>1, <2>2, <2>3, <2>4 DEF Battery!RisesWhenRecovered, Battery!Ticks
<1> QED BY <1>1, <1>2

LEMMA BatteryStep ==
    ASSUME Battery!DeratingAssumption, BatteryInv, Battery!Next
    PROVE  BatteryInv' /\ Battery!RisesWhenRecovered
<1>1. ASSUME NEW sick \in BOOLEAN, Battery!Sample(sick)
      PROVE  BatteryInv' /\ Battery!RisesWhenRecovered
  BY <1>1, BatterySamples
<1>2. CASE Battery!ReadFails
  <2>1. BatteryInv'
    BY <1>2, TicksAreNumbers DEF Battery!ReadFails, BatteryInv, Battery!Most, Battery!Ticks
  <2> QED BY <1>2, <2>1 DEF Battery!ReadFails, Battery!RisesWhenRecovered, BatteryInv
<1>3. CASE Battery!Stop
  <2>1. derLatched' \in BOOLEAN /\ ~derLatched' /\ flags' \in BOOLEAN
    BY <1>3 DEF Battery!Stop, BatteryInv
  <2>3. elapsed' = 0 /\ factor' = Full /\ failed' = 0 /\ healthy' = 0 /\ faulty' = 0
    BY <1>3 DEF Battery!Stop, BatteryInv
  <2>2. Full \in Nat /\ Derated \in Nat /\ Derated <= Full
    BY TicksAreNumbers DEF Battery!DeratingAssumption
  <2> QED
    BY <2>1, <2>2, <2>3, TicksAreNumbers DEF BatteryInv, Battery!RisesWhenRecovered
<1> QED BY <1>1, <1>2, <1>3 DEF Battery!Next

LEMMA BatteryFollows ==
    ASSUME Battery!DeratingAssumption, BatteryInv
    PROVE  Battery!TypeOK /\ Battery!LimitsAreFelt
BY TicksAreNumbers DEF BatteryInv, Battery!TypeOK, Battery!LimitsAreFelt,
   Battery!DeratingAssumption

-----------------------------------------------------------------------------
(* The bucket of a transport.                                                  *)

\* What the bucket holds when it is refilled now, and what was admitted over the rate
\* since any moment, are no more than the burst; what waits waits since it was sent, and
\* no longer than the alarm time and the time since the last step.
BucketInv ==
    /\ ms \in 0 .. ClockMod - 1 /\ last \in 0 .. ClockMod - 1 /\ sentAt \in 0 .. ClockMod - 1
    /\ tokens \in 0 .. Burst /\ excess \in Nat /\ idle \in 0 .. MaxIdle
    /\ haveTime \in BOOLEAN /\ havePending \in BOOLEAN
    /\ excess + Bucket!Refilled <= Burst
    /\ waiting \in Nat
    /\ havePending => Bucket!Elapsed(sentAt, ms) = waiting /\ waiting <= Alarm + idle

\* The constants, one by one.
LEMMA BucketFacts ==
    ASSUME Bucket!BucketAssumption
    PROVE  /\ TokenRate \in Nat /\ Burst \in Nat /\ Alarm \in Nat /\ MaxIdle \in Nat
           /\ ClockMod \in Nat \ {0} /\ ClockMod \div 2 \in Nat
           /\ Alarm + MaxIdle < ClockMod \div 2 /\ ClockMod \div 2 <= ClockMod - 1
           /\ Sizes \subseteq Nat
<1>1. /\ TokenRate \in Nat /\ Burst \in Nat /\ Alarm \in Nat /\ MaxIdle \in Nat
      /\ ClockMod \in Nat /\ Sizes \subseteq Nat /\ Alarm + MaxIdle < ClockMod \div 2
  BY DEF Bucket!BucketAssumption
<1>2. \A m \in Nat : m \div 2 > 0 => m > 0 /\ m \div 2 <= m - 1 /\ m \div 2 \in Nat
  OBVIOUS
<1>3. \A m \in Nat : m \div 2 \in Nat
  OBVIOUS
<1> QED BY <1>1, <1>2, <1>3

\* A value is at most one round of the clock too large.
LEMMA RoundOnce ==
    ASSUME NEW m \in Nat \ {0}, NEW a \in 0 .. 2 * m - 1
    PROVE  a % m = IF a < m THEN a ELSE a - m
OBVIOUS

\* The difference of two values of the clock, and how it grows.
LEMMA ElapsedIs ==
    ASSUME Bucket!BucketAssumption, NEW a \in 0 .. ClockMod - 1, NEW b \in 0 .. ClockMod - 1
    PROVE  /\ Bucket!Elapsed(a, b) = IF b >= a THEN b - a ELSE b + ClockMod - a
           /\ Bucket!Elapsed(a, b) \in 0 .. ClockMod - 1
<1> DEFINE e == b + ClockMod - a
<1>1. e \in 0 .. 2 * ClockMod - 1 /\ (e < ClockMod <=> b < a) /\ e = b + ClockMod - a
  BY BucketFacts
<1> HIDE DEF e
<1>2. e % ClockMod = IF e < ClockMod THEN e ELSE e - ClockMod
  BY <1>1, BucketFacts, RoundOnce
<1>3. e % ClockMod = IF b >= a THEN b - a ELSE b + ClockMod - a
  BY <1>1, <1>2, BucketFacts
<1>4. Bucket!Elapsed(a, b) = e % ClockMod
  BY DEF Bucket!Elapsed, e
<1>5. Bucket!Elapsed(a, b) = IF b >= a THEN b - a ELSE b + ClockMod - a
  BY <1>3, <1>4
<1> QED BY <1>5, BucketFacts

LEMMA ClockTurns ==
    ASSUME Bucket!BucketAssumption, NEW a \in 0 .. ClockMod - 1, NEW b \in 0 .. ClockMod - 1
    PROVE  /\ (b + 1) % ClockMod \in 0 .. ClockMod - 1
           /\ Bucket!Elapsed(a, (b + 1) % ClockMod) =
                 IF Bucket!Elapsed(a, b) = ClockMod - 1 THEN 0 ELSE Bucket!Elapsed(a, b) + 1
<1> DEFINE c == (b + 1) % ClockMod
<1>1. c = IF b + 1 = ClockMod THEN 0 ELSE b + 1
  <2> DEFINE d == b + 1
  <2>1. d \in 0 .. 2 * ClockMod - 1 /\ d <= ClockMod /\ d = b + 1
    BY BucketFacts
  <2> HIDE DEF d
  <2>2. d % ClockMod = IF d < ClockMod THEN d ELSE d - ClockMod
    BY <2>1, BucketFacts, RoundOnce
  <2>3. d % ClockMod = IF d = ClockMod THEN 0 ELSE d
    BY <2>1, <2>2, BucketFacts
  <2> QED BY <2>3 DEF d
<1> HIDE DEF c
<1>2. c \in 0 .. ClockMod - 1
  BY <1>1, BucketFacts
<1>3. Bucket!Elapsed(a, c) = IF c >= a THEN c - a ELSE c + ClockMod - a
  BY <1>2, ElapsedIs
<1>4. Bucket!Elapsed(a, b) = IF b >= a THEN b - a ELSE b + ClockMod - a
  BY ElapsedIs
<1>5. Bucket!Elapsed(a, c) =
          IF Bucket!Elapsed(a, b) = ClockMod - 1 THEN 0 ELSE Bucket!Elapsed(a, b) + 1
  BY <1>1, <1>3, <1>4, BucketFacts
<1> QED BY <1>2, <1>5 DEF c

LEMMA BucketStarts ==
    ASSUME Bucket!BucketAssumption, ms = 0 \/ ms = ClockMod - 1, Bucket!Init
    PROVE  BucketInv
<1>1. /\ tokens = Burst /\ last = 0 /\ sentAt = 0 /\ excess = 0 /\ idle = 0 /\ waiting = 0
      /\ ms \in 0 .. ClockMod - 1 /\ 0 \in 0 .. ClockMod - 1
  BY BucketFacts DEF Bucket!Init
<1>2. haveTime \in BOOLEAN /\ havePending \in BOOLEAN /\ ~haveTime /\ ~havePending
  BY DEF Bucket!Init
<1>3. Bucket!Refilled = Burst
  BY <1>1, <1>2 DEF Bucket!Refilled
<1> QED BY <1>1, <1>2, <1>3, BucketFacts DEF BucketInv

\* What the bucket would hold.
LEMMA RefilledIs ==
    ASSUME Bucket!BucketAssumption, BucketInv
    PROVE  Bucket!Refilled \in 0 .. Burst
<1>1. Bucket!Elapsed(last, ms) \in Nat /\ TokenRate \in Nat
  BY ElapsedIs, BucketFacts DEF BucketInv
<1>2. \A r, e \in Nat : r * e \in Nat
  OBVIOUS
<1>3. TokenRate * Bucket!Elapsed(last, ms) \in Nat
  BY <1>1, <1>2
<1> QED BY <1>3, BucketFacts DEF BucketInv, Bucket!Refilled, Bucket!Least

\* A refill takes what there is: it counts once.
LEMMA RefillCounts ==
    ASSUME Bucket!BucketAssumption, BucketInv, UNCHANGED ms,
           NEW content \in 0 .. Burst, Bucket!Refill(content)
    PROVE  /\ Bucket!Refilled' = content
           /\ tokens' = content /\ last' \in 0 .. ClockMod - 1 /\ haveTime' \in BOOLEAN
<1>1. tokens' = content /\ last' = ms /\ ms' = ms /\ ms \in 0 .. ClockMod - 1
  BY DEF Bucket!Refill, BucketInv
<1>2. haveTime' /\ haveTime' \in BOOLEAN
  BY DEF Bucket!Refill
<1>3. Bucket!Elapsed(ms, ms) = 0
  BY <1>1, ElapsedIs, BucketFacts
<1>4. Bucket!Elapsed(last, ms)' = 0
  BY <1>1, <1>3 DEF Bucket!Elapsed
<1>5. Bucket!Refilled' = Bucket!Least(content + TokenRate * 0, Burst)
  BY <1>1, <1>2, <1>4 DEF Bucket!Refilled
<1>6. TokenRate * 0 = 0
  BY BucketFacts
<1>7. Bucket!Refilled' = content
  BY <1>5, <1>6, BucketFacts DEF Bucket!Least
<1> QED BY <1>1, <1>2, <1>7

\* A millisecond brings no more than the rate.
LEMMA BucketElapses ==
    ASSUME Bucket!BucketAssumption, BucketInv, Bucket!Elapse
    PROVE  BucketInv'
<1> DEFINE e == Bucket!Elapsed(last, ms)
           f == Bucket!Elapsed(last, (ms + 1) % ClockMod)
<1>1. ms' = (ms + 1) % ClockMod /\ ms' \in 0 .. ClockMod - 1
  BY ClockTurns DEF BucketInv, Bucket!Elapse
<1>2. e \in Nat /\ (f = 0 \/ f = e + 1)
  BY ClockTurns, ElapsedIs, BucketFacts DEF BucketInv
<1>3. Bucket!Elapsed(last, ms)' = f
  BY <1>1 DEF Bucket!Elapse, Bucket!Elapsed
<1> HIDE DEF e, f
<1>4. Bucket!Refilled' \in 0 .. Burst /\ Bucket!Refilled' <= Bucket!Refilled + TokenRate
  <2>1. TokenRate \in Nat /\ tokens \in 0 .. Burst /\ Burst \in Nat
    BY BucketFacts DEF BucketInv
  <2>2. CASE ~haveTime
    BY <2>1, <2>2 DEF Bucket!Elapse, Bucket!Refilled
  <2>3. CASE haveTime
    <3>1. /\ Bucket!Refilled = Bucket!Least(tokens + TokenRate * e, Burst)
          /\ Bucket!Refilled' = Bucket!Least(tokens + TokenRate * f, Burst)
      BY <2>3, <1>3 DEF Bucket!Elapse, Bucket!Refilled, e
    <3>2. \A r, n \in Nat : r * (n + 1) = r * n + r /\ r * n \in Nat /\ r * 0 = 0
      OBVIOUS
    <3>3. TokenRate * e \in Nat
      BY <1>2, <2>1, <3>2
    <3>4. TokenRate * f = 0 \/ TokenRate * f = TokenRate * e + TokenRate
      BY <1>2, <2>1, <3>2
    <3> QED BY <2>1, <3>1, <3>3, <3>4 DEF Bucket!Least
  <2> QED BY <2>2, <2>3
<1>5. excess' \in Nat /\ excess' + Bucket!Refilled' <= Burst
  <2>1. excess' = IF excess > TokenRate THEN excess - TokenRate ELSE 0
    BY DEF Bucket!Elapse
  <2>2. excess \in Nat /\ excess + Bucket!Refilled <= Burst
    BY DEF BucketInv
  <2> QED BY <1>4, <2>1, <2>2, RefilledIs, BucketFacts
<1>6. /\ last' \in 0 .. ClockMod - 1 /\ sentAt' \in 0 .. ClockMod - 1
      /\ tokens' \in 0 .. Burst /\ idle' \in 0 .. MaxIdle /\ idle' = idle + 1
  BY BucketFacts DEF BucketInv, Bucket!Elapse
<1>7. haveTime' \in BOOLEAN /\ havePending' \in BOOLEAN
  BY DEF BucketInv, Bucket!Elapse
<1>8. waiting' \in Nat
  BY DEF BucketInv, Bucket!Elapse
<1>9. havePending' => Bucket!Elapsed(sentAt, ms)' = waiting' /\ waiting' <= Alarm + idle'
  <2>1. SUFFICES ASSUME havePending'
                 PROVE  Bucket!Elapsed(sentAt, ms)' = waiting' /\ waiting' <= Alarm + idle'
    OBVIOUS
  <2>2. havePending /\ waiting' = waiting + 1 /\ sentAt' = sentAt
    BY <2>1 DEF Bucket!Elapse
  <2>3. Bucket!Elapsed(sentAt, ms) = waiting /\ waiting <= Alarm + idle /\ waiting \in Nat
    BY <2>2 DEF BucketInv
  <2>4. waiting # ClockMod - 1
    BY <2>3, BucketFacts DEF BucketInv
  <2>5. Bucket!Elapsed(sentAt, (ms + 1) % ClockMod) = waiting + 1
    BY <2>3, <2>4, ClockTurns DEF BucketInv
  <2>6. Bucket!Elapsed(sentAt, ms)' = waiting + 1
    BY <1>1, <2>2, <2>5 DEF Bucket!Elapsed
  <2> QED BY <1>6, <2>2, <2>3, <2>6, BucketFacts DEF BucketInv
<1> QED BY <1>1, <1>4, <1>5, <1>6, <1>7, <1>8, <1>9 DEF BucketInv

LEMMA BucketAdmits ==
    ASSUME Bucket!BucketAssumption, BucketInv, NEW n \in Sizes, Bucket!Enqueue(n)
    PROVE  BucketInv'
<1> DEFINE r == Bucket!Refilled
<1>1. r \in 0 .. Burst /\ n \in Nat /\ Burst \in Nat /\ excess \in Nat
  BY RefilledIs, BucketFacts DEF BucketInv
<1>2. ms' = ms /\ excess + r <= Burst
  BY DEF Bucket!Enqueue, BucketInv
<1>3. PICK content \in 0 .. Burst :
          /\ Bucket!Refill(content) /\ excess' \in Nat /\ excess' + content = excess + r
  <2> HIDE DEF r
  <2>1. CASE r < n
    BY <1>1, <2>1 DEF Bucket!Enqueue, r
  <2>2. CASE ~(r < n)
    <3>1. Bucket!Refill(r - n) /\ excess' = excess + n
      BY <2>2 DEF Bucket!Enqueue, r
    <3>2. r - n \in 0 .. Burst
      BY <1>1, <2>2
    <3> QED BY <1>1, <3>1, <3>2
  <2> QED BY <2>1, <2>2
<1>4. /\ Bucket!Refilled' = content
      /\ tokens' = content /\ last' \in 0 .. ClockMod - 1 /\ haveTime' \in BOOLEAN
  BY <1>2, <1>3, RefillCounts
<1>5. /\ sentAt' = sentAt /\ idle' = idle /\ waiting' = waiting
      /\ Bucket!Elapsed(sentAt, ms)' = Bucket!Elapsed(sentAt, ms)
  BY DEF Bucket!Enqueue, Bucket!Elapsed
<1>6. havePending' \in BOOLEAN /\ (havePending' => havePending)
  BY DEF Bucket!Enqueue, BucketInv
<1>7. excess' + Bucket!Refilled' <= Burst
  BY <1>1, <1>2, <1>3, <1>4
<1> HIDE DEF r
<1> QED BY <1>2, <1>3, <1>4, <1>5, <1>6, <1>7 DEF BucketInv

LEMMA BucketSteps ==
    ASSUME Bucket!BucketAssumption, BucketInv, Bucket!Step
    PROVE  BucketInv' /\ (havePending' => waiting <= Alarm)
<1>1. Bucket!Refilled \in 0 .. Burst /\ Bucket!Refill(Bucket!Refilled) /\ ms' = ms
  BY RefilledIs DEF Bucket!Step
<1>2. /\ Bucket!Refilled' = Bucket!Refilled
      /\ tokens' \in 0 .. Burst /\ last' \in 0 .. ClockMod - 1 /\ haveTime' \in BOOLEAN
  BY <1>1, RefillCounts
<1>3. havePending' \in BOOLEAN /\ (havePending' => havePending /\ ~Bucket!GivenUp)
  BY DEF Bucket!Step
<1>4. idle' = 0 /\ excess' = excess /\ sentAt' \in 0 .. ClockMod - 1 /\ waiting' \in Nat
  BY BucketFacts DEF Bucket!Step, BucketInv
<1>5. havePending' => /\ Bucket!Elapsed(sentAt, ms)' = waiting'
                      /\ waiting' = waiting /\ waiting' <= Alarm
  <2>1. SUFFICES ASSUME havePending'
                 PROVE  /\ Bucket!Elapsed(sentAt, ms)' = waiting'
                        /\ waiting' = waiting /\ waiting' <= Alarm
    OBVIOUS
  <2>2. havePending /\ ~(Bucket!Elapsed(sentAt, ms) > Alarm)
    BY <1>3, <2>1 DEF Bucket!GivenUp
  <2>3. sentAt' = sentAt /\ waiting' = waiting /\ ms' = ms
    BY <1>3, <2>1 DEF Bucket!Step
  <2>4. Bucket!Elapsed(sentAt, ms)' = Bucket!Elapsed(sentAt, ms)
    BY <2>3 DEF Bucket!Elapsed
  <2>5. Bucket!Elapsed(sentAt, ms) = waiting /\ waiting \in Nat
    BY <2>2 DEF BucketInv
  <2> QED BY <2>2, <2>3, <2>4, <2>5, BucketFacts
<1> QED BY <1>1, <1>2, <1>3, <1>4, <1>5, BucketFacts DEF BucketInv

\* The other steps do not refill.
LEMMA BucketRests ==
    ASSUME Bucket!BucketAssumption, BucketInv, Bucket!OnTx \/ Bucket!OnRx \/ Bucket!Reset
    PROVE  BucketInv'
<1>1. CASE Bucket!OnTx
  <2>1. ms' = ms /\ sentAt' = ms /\ waiting' = 0 /\ ms \in 0 .. ClockMod - 1
    BY <1>1 DEF Bucket!OnTx, BucketInv
  <2>2. Bucket!Elapsed(ms, ms) = 0
    BY <2>1, ElapsedIs, BucketFacts
  <2>3. Bucket!Elapsed(sentAt, ms)' = 0
    BY <2>1, <2>2 DEF Bucket!Elapsed
  <2>4. Bucket!Refilled' = Bucket!Refilled
    BY <1>1 DEF Bucket!OnTx, Bucket!Refilled, Bucket!Elapsed
  <2>5. havePending' \in BOOLEAN /\ haveTime' \in BOOLEAN
    BY <1>1 DEF Bucket!OnTx, BucketInv
  <2>6. tokens' = tokens /\ last' = last /\ excess' = excess /\ idle' = idle
    BY <1>1 DEF Bucket!OnTx
  <2> QED BY <2>1, <2>3, <2>4, <2>5, <2>6, BucketFacts DEF BucketInv
<1>2. CASE Bucket!OnRx
  <2>1. ms' = ms /\ waiting' = 0 /\ sentAt' \in 0 .. ClockMod - 1
    BY <1>2, BucketFacts DEF Bucket!OnRx, BucketInv
  <2>2. Bucket!Refilled' = Bucket!Refilled
    BY <1>2 DEF Bucket!OnRx, Bucket!Refilled, Bucket!Elapsed
  <2>3. havePending' \in BOOLEAN /\ haveTime' \in BOOLEAN /\ ~havePending'
    BY <1>2 DEF Bucket!OnRx, BucketInv
  <2>4. tokens' = tokens /\ last' = last /\ excess' = excess /\ idle' = idle
    BY <1>2 DEF Bucket!OnRx
  <2> QED BY <2>1, <2>2, <2>3, <2>4, BucketFacts DEF BucketInv
<1>3. CASE Bucket!Reset
  <2>1. /\ ms' = ms /\ tokens' = 0 /\ last' = 0 /\ sentAt' = 0 /\ waiting' = 0
        /\ excess' = excess /\ idle' = idle
    BY <1>3 DEF Bucket!Reset
  <2>2. havePending' \in BOOLEAN /\ haveTime' \in BOOLEAN /\ ~havePending' /\ ~haveTime'
    BY <1>3 DEF Bucket!Reset
  <2>3. Bucket!Refilled' = 0
    BY <2>1, <2>2 DEF Bucket!Refilled
  <2> QED BY <2>1, <2>2, <2>3, RefilledIs, BucketFacts DEF BucketInv
<1> QED BY <1>1, <1>2, <1>3

LEMMA BucketStep ==
    ASSUME Bucket!BucketAssumption, BucketInv, Bucket!Next
    PROVE  BucketInv'
BY BucketElapses, BucketAdmits, BucketSteps, BucketRests DEF Bucket!Next

LEMMA BucketFollows ==
    ASSUME Bucket!BucketAssumption, BucketInv
    PROVE  Bucket!TypeOK /\ Bucket!WithinRate
BY RefilledIs, BucketFacts DEF BucketInv, Bucket!TypeOK, Bucket!WithinRate

\* The latency is the time that went by since the send.
LEMMA LatencyHolds ==
    ASSUME Bucket!BucketAssumption, BucketInv
    PROVE  Bucket!LatencyIsTrue
<1>1. ASSUME Bucket!OnRx, havePending PROVE latency' = waiting
  <2>1. latency' = Bucket!Signed(Bucket!Elapsed(sentAt, ms))
    BY <1>1 DEF Bucket!OnRx
  <2>2. Bucket!Elapsed(sentAt, ms) = waiting /\ waiting \in Nat /\ waiting < ClockMod \div 2
    BY <1>1, BucketFacts DEF BucketInv
  <2> QED BY <2>1, <2>2 DEF Bucket!Signed
<1> QED BY <1>1, BucketSteps DEF Bucket!LatencyIsTrue

-----------------------------------------------------------------------------
(* The claims on resources.                                                    *)

\* What was claimed stands, and the verdict is that of the check.
ClaimsInv ==
    /\ \E n \in Nat : claims \in [1 .. n -> Session(FALSE)!Claim]
    /\ verdict \in {"none", Session(FALSE)!Verdict}

\* Two claims on one resource that may stand beside each other.
LEMMA CompatibleIs ==
    ASSUME NEW a \in Session(FALSE)!Claim, NEW b \in Session(FALSE)!Claim
    PROVE  /\ Session(FALSE)!Compatible(a, b) <=>
                \/ a.access = "OWNER" /\ b.access = "READ" /\ Session(FALSE)!SameGroup(a, b)
                \/ a.access = "READ" /\ b.access = "OWNER" /\ Session(FALSE)!SameGroup(a, b)
                \/ a.access = "READ" /\ b.access = "READ"
                \/ a.access = "COORDINATED" /\ b.access = "COORDINATED"
                   /\ Session(FALSE)!SameGroup(a, b)
           /\ Session(FALSE)!SameGroup(a, b) => Session(FALSE)!SameGroup(b, a)
<1>1. /\ a.access \in {"EXCLUSIVE", "OWNER", "READ", "COORDINATED"}
      /\ b.access \in {"EXCLUSIVE", "OWNER", "READ", "COORDINATED"}
  BY DEF Session!Claim, Session!Accesses
<1>2. /\ {a.access, b.access} = {"OWNER", "READ"} <=>
            \/ a.access = "OWNER" /\ b.access = "READ"
            \/ a.access = "READ" /\ b.access = "OWNER"
      /\ {a.access, b.access} = {"READ"} <=> a.access = "READ" /\ b.access = "READ"
      /\ {a.access, b.access} = {"COORDINATED"} <=>
            a.access = "COORDINATED" /\ b.access = "COORDINATED"
  BY <1>1
<1>3. Session(FALSE)!SameGroup(a, b) => Session(FALSE)!SameGroup(b, a)
  BY DEF Session!SameGroup
<1>4. CASE {a.access, b.access} = {"OWNER", "READ"}
  <2>1. {a.access, b.access} # {"READ"} /\ {a.access, b.access} # {"COORDINATED"}
    BY <1>1, <1>2, <1>4
  <2>2. Session(FALSE)!Compatible(a, b) <=> Session(FALSE)!SameGroup(a, b)
    BY <1>4, <2>1 DEF Session!Compatible
  <2> QED BY <1>2, <1>3, <1>4, <2>1, <2>2
<1>5. CASE {a.access, b.access} = {"READ"}
  <2>1. {a.access, b.access} # {"OWNER", "READ"} /\ {a.access, b.access} # {"COORDINATED"}
    BY <1>1, <1>2, <1>5
  <2>2. Session(FALSE)!Compatible(a, b)
    BY <1>5, <2>1 DEF Session!Compatible
  <2> QED BY <1>2, <1>3, <1>5, <2>1, <2>2
<1>6. CASE {a.access, b.access} = {"COORDINATED"}
  <2>1. {a.access, b.access} # {"OWNER", "READ"} /\ {a.access, b.access} # {"READ"}
    BY <1>1, <1>2, <1>6
  <2>2. Session(FALSE)!Compatible(a, b) <=> Session(FALSE)!SameGroup(a, b)
    BY <1>6, <2>1 DEF Session!Compatible
  <2> QED BY <1>2, <1>3, <1>6, <2>1, <2>2
<1>7. CASE /\ {a.access, b.access} # {"OWNER", "READ"} /\ {a.access, b.access} # {"READ"}
           /\ {a.access, b.access} # {"COORDINATED"}
  <2>1. ~Session(FALSE)!Compatible(a, b)
    BY <1>7 DEF Session!Compatible
  <2> QED BY <1>2, <1>3, <1>7, <2>1
<1> QED BY <1>4, <1>5, <1>6, <1>7

\* What the three passes let through, for any two claims and for each.
LEMMA PassesAre ==
    ASSUME NEW n \in Nat, claims \in [1 .. n -> Session(FALSE)!Claim],
           Session(FALSE)!Of(Undefined) = {}, ~Session(FALSE)!Duplicate
    PROVE  /\ \A i \in 1 .. n, j \in 1 .. n :
                 i # j /\ claims[i].res = claims[j].res => claims[i].inst # claims[j].inst
           /\ ~Session(FALSE)!Conflict <=>
                 \A i \in 1 .. n, j \in 1 .. n :
                    i # j /\ claims[i].res = claims[j].res =>
                        Session(FALSE)!Compatible(claims[i], claims[j])
<1>1. DOMAIN claims = 1 .. n /\ \A i \in 1 .. n : claims[i] \in Session(FALSE)!Claim
  OBVIOUS
<1>2. \A i \in 1 .. n, j \in 1 .. n : i # j => <<i, j>> \in Session(FALSE)!Pairs
                                               \/ <<j, i>> \in Session(FALSE)!Pairs
  BY <1>1 DEF Session!Pairs
<1>3. \A p \in Session(FALSE)!Pairs : p[1] \in 1 .. n /\ p[2] \in 1 .. n /\ p[1] # p[2]
  BY <1>1 DEF Session!Pairs
<1>4. \A i \in 1 .. n, j \in 1 .. n :
         i # j /\ claims[i].res = claims[j].res => claims[i].inst # claims[j].inst
  BY <1>2 DEF Session!Duplicate
<1>5. \A i \in 1 .. n, j \in 1 .. n :
         Session(FALSE)!Compatible(claims[i], claims[j])
         <=> Session(FALSE)!Compatible(claims[j], claims[i])
  BY <1>1, CompatibleIs
<1>6. ASSUME ~Session(FALSE)!Conflict,
             NEW i \in 1 .. n, NEW j \in 1 .. n, i # j, claims[i].res = claims[j].res
      PROVE  Session(FALSE)!Compatible(claims[i], claims[j])
  BY <1>2, <1>4, <1>5, <1>6 DEF Session!Conflict
<1>7. ASSUME \A i \in 1 .. n, j \in 1 .. n :
                i # j /\ claims[i].res = claims[j].res =>
                    Session(FALSE)!Compatible(claims[i], claims[j])
      PROVE  ~Session(FALSE)!Conflict
  BY <1>3, <1>7 DEF Session!Conflict
<1> QED BY <1>4, <1>6, <1>7

\* What is accepted is shared in one of the three ways.
LEMMA AcceptedIsShared ==
    ASSUME NEW n \in Nat, claims \in [1 .. n -> Session(FALSE)!Claim],
           NEW r, NEW k \in Session(FALSE)!Of(r),
           \A i \in 1 .. n, j \in 1 .. n :
              i # j /\ claims[i].res = claims[j].res =>
                  Session(FALSE)!Compatible(claims[i], claims[j]),
           ~Session(FALSE)!Uncoordinated, \A i \in 1 .. n : ~Session(FALSE)!Unowned(i)
    PROVE  Session(FALSE)!Shared(r)
<1> DEFINE O == Session(FALSE)!Of(r)
<1>1. O = {i \in 1 .. n : claims[i].res = r} /\ k \in O
  BY DEF Session!Of
<1>2. \A i \in O : claims[i] \in Session(FALSE)!Claim
                   /\ claims[i].access \in {"EXCLUSIVE", "OWNER", "READ", "COORDINATED"}
  BY <1>1 DEF Session!Claim, Session!Accesses
<1>3. \A i \in O, j \in O : i # j => Session(FALSE)!Compatible(claims[i], claims[j])
  BY <1>1
<1> HIDE DEF O
<1>4. ASSUME NEW i \in O, claims[i].access = "EXCLUSIVE"
      PROVE  Session(FALSE)!Shared(r)
  <2>1. \A j \in O : j = i
    BY <1>2, <1>3, <1>4, CompatibleIs
  <2>2. O = {i}
    BY <2>1
  <2> QED BY <1>4, <2>2 DEF Session!Shared, O
<1>5. ASSUME NEW i \in O, claims[i].access = "OWNER"
      PROVE  Session(FALSE)!Shared(r)
  <2>1. \A j \in O \ {i} : /\ claims[j].access = "READ"
                           /\ Session(FALSE)!SameGroup(claims[i], claims[j])
    BY <1>2, <1>3, <1>5, CompatibleIs
  <2>2. O # {i} => Session(FALSE)!OneGroup(O)
    BY <2>1, <1>5 DEF Session!OneGroup, Session!SameGroup
  <2> QED BY <1>5, <2>1, <2>2 DEF Session!Shared, O
<1>6. ASSUME NEW i \in O, claims[i].access = "READ"
      PROVE  \E o \in O : claims[o].access = "OWNER"
  <2>1. i \in 1 .. n /\ i \in Session(FALSE)!With(i, "READ")
    BY <1>1, <1>6 DEF Session!With
  <2>2. \E o \in Session(FALSE)!With(i, "OWNER") : TRUE
    BY <2>1 DEF Session!Unowned
  <2> QED BY <2>2, <1>1, <2>1 DEF Session!With
<1>7. ASSUME \A i \in O : claims[i].access = "COORDINATED"
      PROVE  Session(FALSE)!Shared(r)
  <2>1. \A i \in O : claims[i].group # 0
    BY <1>1, <1>7 DEF Session!Uncoordinated, Session!Coordinated
  <2>2. \A i \in O, j \in O : i # j => Session(FALSE)!SameGroup(claims[i], claims[j])
    BY <1>2, <1>3, <1>7, CompatibleIs
  <2>3. Session(FALSE)!OneGroup(O)
    BY <2>1, <2>2 DEF Session!OneGroup, Session!SameGroup
  <2> QED BY <1>7, <2>3 DEF Session!Shared, O
<1> QED BY <1>2, <1>4, <1>5, <1>6, <1>7

\* And what is shared in one of them passes.
LEMMA SharedIsAccepted ==
    ASSUME NEW n \in Nat, claims \in [1 .. n -> Session(FALSE)!Claim],
           NEW i \in 1 .. n, NEW r, claims[i].res = r, Session(FALSE)!Shared(r)
    PROVE  /\ \A j \in 1 .. n : i # j /\ claims[j].res = r =>
                 Session(FALSE)!Compatible(claims[i], claims[j])
           /\ claims[i].access = "COORDINATED" => claims[i].group # 0
           /\ ~Session(FALSE)!Unowned(i)
<1> DEFINE O == Session(FALSE)!Of(r)
<1>1. O = {j \in 1 .. n : claims[j].res = r} /\ i \in O
  BY DEF Session!Of
<1>2. \A j \in O : claims[j] \in Session(FALSE)!Claim
  BY <1>1
<1>3. \A a : Session(FALSE)!With(i, a) = {j \in O : claims[j].access = a}
  BY <1>1 DEF Session!With
<1>4. \/ \E o \in O : /\ claims[o].access = "OWNER"
                      /\ \A j \in O \ {o} : claims[j].access = "READ"
                      /\ O # {o} => Session(FALSE)!OneGroup(O)
      \/ \A j \in O : claims[j].access = "COORDINATED" /\ Session(FALSE)!OneGroup(O)
      \/ \E o \in O : O = {o} /\ claims[o].access = "EXCLUSIVE"
  BY DEF Session!Shared
<1>5. \A j \in 1 .. n : claims[j].res = r => j \in O
  BY <1>1
<1> HIDE DEF O
<1>6. CASE \E o \in O : /\ claims[o].access = "OWNER"
                        /\ \A j \in O \ {o} : claims[j].access = "READ"
                        /\ O # {o} => Session(FALSE)!OneGroup(O)
  <2>1. PICK o \in O : /\ claims[o].access = "OWNER"
                       /\ \A j \in O \ {o} : claims[j].access = "READ"
                       /\ O # {o} => Session(FALSE)!OneGroup(O)
    BY <1>6
  <2>2. \A j \in O : i # j => /\ Session(FALSE)!SameGroup(claims[i], claims[j])
                              /\ Session(FALSE)!Compatible(claims[i], claims[j])
    <3>1. ASSUME NEW j \in O, i # j  PROVE Session(FALSE)!SameGroup(claims[i], claims[j])
      BY <1>1, <2>1, <3>1 DEF Session!OneGroup
    <3> QED BY <1>1, <1>2, <2>1, <3>1, CompatibleIs
  <2>3. claims[i].access # "COORDINATED"
    BY <1>1, <2>1
  <2>4. ~Session(FALSE)!Unowned(i)
    <3>1. Session(FALSE)!With(i, "OWNER") = {o}
      <4>1. Session(FALSE)!With(i, "OWNER") = {j \in O : claims[j].access = "OWNER"}
        BY <1>3
      <4>2. \A j \in O : claims[j].access = "OWNER" <=> j = o
        BY <2>1
      <4> QED BY <4>1, <4>2
    <3>2. Session(FALSE)!With(i, "READ") # {} => O # {o}
      BY <1>3, <2>1
    <3>3. O # {o} => \A j \in O : claims[j].group # 0
      BY <2>1 DEF Session!OneGroup, Session!SameGroup
    <3> QED BY <1>3, <3>1, <3>2, <3>3 DEF Session!Unowned
  <2> QED BY <1>5, <2>2, <2>3, <2>4
<1>7. CASE \A j \in O : claims[j].access = "COORDINATED" /\ Session(FALSE)!OneGroup(O)
  <2>1. \A j \in O : Session(FALSE)!SameGroup(claims[i], claims[j])
    BY <1>1, <1>7 DEF Session!OneGroup
  <2>2. claims[i].group # 0
    BY <1>1, <2>1 DEF Session!SameGroup
  <2>3. Session(FALSE)!With(i, "READ") = {}
    <3>1. \A j \in O : claims[j].access # "READ"
      BY <1>7
    <3> QED BY <1>3, <3>1
  <2>4. \A j \in O : Session(FALSE)!Compatible(claims[i], claims[j])
    BY <1>1, <1>2, <1>7, <2>1, CompatibleIs
  <2> QED BY <1>5, <2>2, <2>3, <2>4 DEF Session!Unowned
<1>8. CASE \E o \in O : O = {o} /\ claims[o].access = "EXCLUSIVE"
  <2>1. O = {i} /\ claims[i].access = "EXCLUSIVE"
    BY <1>1, <1>8
  <2>2. Session(FALSE)!With(i, "READ") = {}
    <3>1. \A j \in O : claims[j].access # "READ"
      BY <2>1
    <3> QED BY <1>3, <3>1
  <2> QED BY <1>5, <2>1, <2>2 DEF Session!Unowned
<1> QED BY <1>4, <1>6, <1>7, <1>8

LEMMA ClaimsFollow ==
    ASSUME Session(FALSE)!ResourceAssumption, ClaimsInv
    PROVE  Session(FALSE)!AcceptsDisjoint
<1>1. PICK n \in Nat : claims \in [1 .. n -> Session(FALSE)!Claim]
  BY DEF ClaimsInv
<1>2. DOMAIN claims = 1 .. n
      /\ \A i \in 1 .. n : claims[i].res \in Resources \cup {Undefined}
  BY <1>1 DEF Session!Claim
<1> DEFINE Apart == \A p \in Session(FALSE)!Pairs :
                      claims[p[1]].inst = claims[p[2]].inst => claims[p[1]].res # claims[p[2]].res
<1>3. ~Session(FALSE)!Duplicate <=> Apart
  BY DEF Session!Duplicate
<1>4. Session(FALSE)!Of(Undefined) = {} <=> ~\E i \in DOMAIN claims : claims[i].res = Undefined
  BY DEF Session!Of
<1>5. Session(FALSE)!Verdict = "OK" <=>
        /\ Session(FALSE)!Of(Undefined) = {} /\ ~Session(FALSE)!Duplicate
        /\ ~Session(FALSE)!Conflict /\ ~Session(FALSE)!Uncoordinated
        /\ \A i \in 1 .. n : ~Session(FALSE)!Unowned(i)
  BY <1>2, <1>4 DEF Session!Verdict
<1>6. Session(FALSE)!Verdict # "none"
  BY DEF Session!Verdict
<1>7. ASSUME Session(FALSE)!Of(Undefined) = {}, ~Session(FALSE)!Duplicate,
             \A r \in Resources : Session(FALSE)!Shared(r)
      PROVE  Session(FALSE)!Verdict = "OK"
  <2>1. \A i \in 1 .. n : claims[i].res \in Resources
    BY <1>2, <1>4, <1>7
  <2>2. \A i \in 1 .. n :
          /\ \A j \in 1 .. n : i # j /\ claims[j].res = claims[i].res =>
                Session(FALSE)!Compatible(claims[i], claims[j])
          /\ claims[i].access = "COORDINATED" => claims[i].group # 0
          /\ ~Session(FALSE)!Unowned(i)
    BY <1>1, <1>7, <2>1, SharedIsAccepted
  <2>3. ~Session(FALSE)!Conflict
    BY <1>1, <1>7, <2>2, PassesAre
  <2>4. ~Session(FALSE)!Uncoordinated
    BY <1>2, <2>2 DEF Session!Uncoordinated, Session!Coordinated
  <2> QED BY <1>5, <1>7, <2>2, <2>3, <2>4
<1>8. ASSUME Session(FALSE)!Verdict = "OK", NEW r \in Resources
      PROVE  Session(FALSE)!Shared(r)
  <2>1. CASE Session(FALSE)!Of(r) = {}
    BY <2>1 DEF Session!Shared
  <2>2. ASSUME NEW k \in Session(FALSE)!Of(r)  PROVE Session(FALSE)!Shared(r)
    BY <1>1, <1>5, <1>8, PassesAre, AcceptedIsShared
  <2> QED BY <2>1, <2>2
<1>9. Session(FALSE)!Verdict = "OK" <=>
        /\ Session(FALSE)!Of(Undefined) = {} /\ Apart
        /\ \A r \in Resources : Session(FALSE)!Shared(r)
  BY <1>3, <1>5, <1>7, <1>8
<1> HIDE DEF Apart
<1>10. verdict # "none" => verdict = Session(FALSE)!Verdict
  BY DEF ClaimsInv
<1> QED BY <1>9, <1>10 DEF Session!AcceptsDisjoint, Apart

-----------------------------------------------------------------------------
(* The slots of a CPU.                                                         *)

\* Until it is built the table holds what the application registered.
FillingInv == mpBuilt \/ mpSlots \in Seq(Offered)

LEMMA FillingStarts == ASSUME Deadlines!Init  PROVE FillingInv
BY DEF Deadlines!Init, FillingInv

\* What is rolled back is what was there.
LEMMA RestoreIs ==
    ASSUME mpSlots \in Seq(Offered)
    PROVE  Deadlines!Restore(Append(mpSlots, Overhead)) \in Seq(Offered)
<1> DEFINE t == Append(mpSlots, Overhead)
           k == Len(mpSlots)
<1>1. k \in Nat /\ \A i \in 1 .. k : t[i] = mpSlots[i] /\ mpSlots[i] \in Offered
  OBVIOUS
<1>2. t \in Seq(Offered \cup {Overhead}) /\ k \in 0 .. Len(t)
  OBVIOUS
<1> HIDE DEF t, k
<1>3. \A i \in 1 .. k : t[i] \in Offered
  BY <1>1
<1>4. SubSeq(t, 1, k) \in Seq(Offered)
  <2>1. /\ Len(SubSeq(t, 1, k)) = k
        /\ \A i \in 1 .. k : SubSeq(t, 1, k)[i] = t[i]
        /\ SubSeq(t, 1, k) \in Seq(Offered \cup {Overhead})
    BY <1>1, <1>2
  <2> QED BY <1>1, <1>3, <2>1
<1> QED BY <1>4 DEF Deadlines!Restore, t, k

LEMMA FillingStep ==
    ASSUME FillingInv, Deadlines!Next  PROVE FillingInv'
<1>1. ASSUME NEW s \in Offered, Deadlines!Register(s)  PROVE FillingInv'
  BY <1>1 DEF Deadlines!Register, FillingInv
<1>2. CASE Deadlines!Build
  BY <1>2, RestoreIs DEF Deadlines!Build, FillingInv
<1>3. CASE Deadlines!Unit
  BY <1>3 DEF Deadlines!Unit, FillingInv
<1> QED BY <1>1, <1>2, <1>3 DEF Deadlines!Next

LEMMA FillingFollows ==
    ASSUME Deadlines!ScheduleAssumption, FillingInv  PROVE Deadlines!OverheadOnlyBuilt
<1>1. ASSUME mpSlots \in Seq(Offered), NEW i \in DOMAIN mpSlots  PROVE mpSlots[i] # Overhead
  BY <1>1 DEF Deadlines!ScheduleAssumption
<1> QED BY <1>1 DEF FillingInv, Deadlines!OverheadOnlyBuilt, Deadlines!Slots

-----------------------------------------------------------------------------
(* The partition.                                                              *)

\* A partition that stands was checked, and its owners are those that were dealt out;
\* the instances of a profile are checked against the topology that stands.
PartitionInv ==
    /\ modTable \in ModuleTables /\ divided \in BOOLEAN
    /\ DOMAIN declared \subseteq 0 .. NTypes - 1
    /\ \A t \in DOMAIN declared : declared[t] \in Partition!Cpus \cup {AnyCpu}
    /\ divided =>
          /\ Partition!BuildOk
          /\ eventOwner = Partition!EventOwners /\ moduleOwner = Partition!ModuleOwners
    /\ \A i \in DOMAIN admitted :
          divided /\ Partition!ClaimOk(admitted[i].owner, admitted[i].claim)

LEMMA PartitionStarts == ASSUME Partition!Init  PROVE PartitionInv
<1>1. modTable \in ModuleTables /\ ~divided /\ divided \in BOOLEAN
  BY DEF Partition!Init
<1>2. declared = <<>> /\ admitted = <<>>
  BY DEF Partition!Init
<1>3. DOMAIN declared = {} /\ DOMAIN admitted = {}
  BY <1>2
<1> QED BY <1>1, <1>3 DEF PartitionInv

LEMMA PartitionStep == ASSUME PartitionInv, Partition!Next  PROVE PartitionInv'
<1> USE DEF PartitionInv
<1>1. ASSUME NEW t \in Partition!Types, NEW c \in Partition!Cpus \cup {AnyCpu},
             Partition!RegisterEventOwner(t, c)
      PROVE  PartitionInv'
  <2>1. /\ modTable' = modTable /\ divided' = divided /\ ~divided /\ admitted' = admitted
        /\ declared' = [u \in DOMAIN declared \cup {t} |-> IF u = t THEN c ELSE declared[u]]
    BY <1>1 DEF Partition!RegisterEventOwner
  <2>2. DOMAIN admitted = {}
    BY <2>1
  <2>3. DOMAIN declared' \subseteq 0 .. NTypes - 1
        /\ \A u \in DOMAIN declared' : declared'[u] \in Partition!Cpus \cup {AnyCpu}
    BY <2>1 DEF Partition!Types
  <2> QED BY <2>1, <2>2, <2>3 DEF Partition!Cpus
<1>2. ASSUME NEW m \in 1 .. MaxModules, NEW t \in Partition!Types,
             Partition!RegisterModuleEvent(m, t)
      PROVE  PartitionInv'
  BY <1>2 DEF Partition!RegisterModuleEvent, Partition!Cpus
<1>3. ASSUME NEW r \in Partition!AllResources, NEW mask \in SUBSET Partition!Cpus,
             Partition!RegisterTopology(r, mask)
      PROVE  PartitionInv'
  BY <1>3 DEF Partition!RegisterTopology, Partition!Cpus
<1>4. CASE Partition!Build
  <2>1. /\ modTable' = modTable /\ declared' = declared /\ bindings' = bindings
        /\ topology' = topology /\ admitted' = admitted /\ ~divided
        /\ divided' = Partition!BuildOk
        /\ eventOwner' = Partition!EventOwners /\ moduleOwner' = Partition!ModuleOwners
    BY <1>4 DEF Partition!Build
  <2>2. /\ Partition!BuildOk' = Partition!BuildOk
        /\ Partition!EventOwners' = Partition!EventOwners
        /\ Partition!ModuleOwners' = Partition!ModuleOwners
    BY <2>1 DEF Partition!BuildOk, Partition!TopologyOk, Partition!SingleCpu,
       Partition!EventsClosed, Partition!Subscriptions, Partition!EventOwners,
       Partition!ModuleOwners, Partition!Undeclared, Partition!Cpus, Partition!Types
  <2>3. DOMAIN admitted = {} /\ Partition!BuildOk \in BOOLEAN
    BY <2>1 DEF Partition!BuildOk, Partition!TopologyOk, Partition!EventsClosed
  <2> QED BY <2>1, <2>2, <2>3 DEF Partition!Cpus
<1>5. CASE Partition!Reset
  <2>1. modTable' = modTable /\ ~divided' /\ divided' \in BOOLEAN
    BY <1>5 DEF Partition!Reset
  <2>2. declared' = <<>> /\ admitted' = <<>>
    BY <1>5 DEF Partition!Reset
  <2>3. DOMAIN declared' = {} /\ DOMAIN admitted' = {}
    BY <2>2
  <2> QED BY <2>1, <2>3
<1>6. ASSUME NEW instances \in Partition!Instances, Partition!ValidateExecs(instances)
      PROVE  PartitionInv'
  <2>1. /\ modTable' = modTable /\ declared' = declared /\ bindings' = bindings
        /\ topology' = topology /\ admitted' = instances /\ divided' = divided /\ divided
        /\ eventOwner' = eventOwner /\ moduleOwner' = moduleOwner
        /\ \A i \in DOMAIN instances :
              Partition!ClaimOk(instances[i].owner, instances[i].claim)
    BY <1>6 DEF Partition!ValidateExecs
  <2>2. /\ Partition!BuildOk' = Partition!BuildOk
        /\ Partition!EventOwners' = Partition!EventOwners
        /\ Partition!ModuleOwners' = Partition!ModuleOwners
    BY <2>1 DEF Partition!BuildOk, Partition!TopologyOk, Partition!SingleCpu,
       Partition!EventsClosed, Partition!Subscriptions, Partition!EventOwners,
       Partition!ModuleOwners, Partition!Undeclared, Partition!Cpus, Partition!Types
  <2>3. \A i \in DOMAIN instances :
           Partition!ClaimOk(instances[i].owner, instances[i].claim)'
    BY <2>1 DEF Partition!ClaimOk, Partition!EntriesOf, Partition!First, Partition!Cpus
  <2> QED BY <2>1, <2>2, <2>3 DEF Partition!Cpus
<1> QED BY <1>1, <1>2, <1>3, <1>4, <1>5, <1>6 DEF Partition!Next

LEMMA SameCardinality == \A S : Partition!Cardinality(S) = Cardinality(S)
BY Zenon DEF Partition!Cardinality, Cardinality

\* What is dealt out is dealt to a CPU.
LEMMA DealtToCpus ==
    ASSUME Partition!PartitionAssumption, PartitionInv, Partition!BuildOk
    PROVE  /\ \A t \in DOMAIN declared : Partition!EventOwners[t] \in Partition!Cpus
           /\ \A m \in DOMAIN modTable : Partition!ModuleOwners[m] \in Partition!Cpus
<1>1. NCpus \in Nat /\ NCpus > 0 /\ NTypes \in Nat
  BY DEF Partition!PartitionAssumption
<1>2. \A k \in Nat : k % NCpus \in 0 .. NCpus - 1
  BY <1>1
<1>3. ASSUME NEW t \in DOMAIN declared  PROVE Partition!EventOwners[t] \in Partition!Cpus
  BY <1>1, <1>2 DEF PartitionInv, Partition!EventOwners, Partition!Cpus, Partition!Types
<1>4. ASSUME NEW m \in DOMAIN modTable  PROVE Partition!ModuleOwners[m] \in Partition!Cpus
  <2>1. m \in Nat
    BY DEF PartitionInv, Partition!PartitionAssumption
  <2>2. Cardinality(Partition!Undeclared(m)) \in Nat
    <3>1. IsFiniteSet(1 .. m - 1)
      BY <2>1, FS_Interval
    <3>2. Partition!Undeclared(m) \subseteq 1 .. m - 1
      BY DEF Partition!Undeclared
    <3> QED BY <3>1, <3>2, FS_Subset, FS_CardinalityType
  <2>3. modTable[m].owner \in Partition!Cpus \cup {AnyCpu}
    BY DEF Partition!BuildOk
  <2>4. Partition!ModuleOwners[m] =
          IF modTable[m].owner = AnyCpu THEN Cardinality(Partition!Undeclared(m)) % NCpus
          ELSE modTable[m].owner
    BY SameCardinality DEF Partition!ModuleOwners
  <2>5. Cardinality(Partition!Undeclared(m)) % NCpus \in Partition!Cpus
    BY <1>2, <2>2 DEF Partition!Cpus
  <2> QED BY <2>3, <2>4, <2>5
<1> QED BY <1>3, <1>4

LEMMA PartitionFollows ==
    ASSUME Partition!PartitionAssumption, PartitionInv
    PROVE  Partition!OneOwner /\ Partition!PeripheralsHaveOneCpu
<1>1. ASSUME divided  PROVE Partition!OneOwner
  <2>1. /\ Partition!BuildOk
        /\ eventOwner = Partition!EventOwners /\ moduleOwner = Partition!ModuleOwners
        /\ AnyCpu \notin Partition!Cpus
    BY <1>1 DEF PartitionInv, Partition!PartitionAssumption
  <2>2. \A c \in Partition!Cpus, m \in DOMAIN modTable :
           m \in Partition!Loads(c) <=> moduleOwner[m] = c
    BY <1>1, <2>1, DealtToCpus DEF Partition!Loads, Partition!OwnerOfModule
  <2>3. \A c \in Partition!Cpus, t \in DOMAIN declared :
           t \in Partition!Registers(c) <=> eventOwner[t] = c
    BY <1>1 DEF Partition!Registers
  <2>4. ASSUME NEW m \in DOMAIN modTable
        PROVE  Cardinality({c \in Partition!Cpus : m \in Partition!Loads(c)}) = 1
    <3>1. {c \in Partition!Cpus : m \in Partition!Loads(c)} = {moduleOwner[m]}
      BY <2>1, <2>2, DealtToCpus
    <3> QED BY <3>1, FS_Singleton
  <2>5. ASSUME NEW t \in DOMAIN declared
        PROVE  Cardinality({c \in Partition!Cpus : t \in Partition!Registers(c)}) = 1
    <3>1. {c \in Partition!Cpus : t \in Partition!Registers(c)} = {eventOwner[t]}
      BY <2>1, <2>3, DealtToCpus
    <3> QED BY <3>1, FS_Singleton
  <2>6. ASSUME NEW c \in Partition!Cpus, NEW m \in Partition!Loads(c)
        PROVE  Partition!Subscriptions(m) \cap DOMAIN declared \subseteq Partition!Registers(c)
    <3>1. m \in DOMAIN modTable /\ moduleOwner[m] = c
      BY <2>2 DEF Partition!Loads
    <3>2. \A t \in Partition!Subscriptions(m) : eventOwner[t] = c
      BY <2>1, <3>1 DEF Partition!BuildOk, Partition!EventsClosed
    <3> QED BY <2>3, <3>2
  <2> QED BY <1>1, <2>4, <2>5, <2>6, SameCardinality DEF Partition!OneOwner
<1>2. ASSUME NEW i \in DOMAIN admitted, NEW j \in DOMAIN admitted,
             admitted[i].claim = admitted[j].claim, admitted[i].claim \in Peripherals,
             Partition!EntriesOf(admitted[i].claim) # {} \/ (HardRt /\ topology # <<>>)
      PROVE  admitted[i].owner = admitted[j].owner
  <2>1. /\ Partition!ClaimOk(admitted[i].owner, admitted[i].claim)
        /\ Partition!ClaimOk(admitted[j].owner, admitted[i].claim)
    BY <1>2 DEF PartitionInv
  <2>2. admitted[i].claim \notin AppResources
    BY <1>2 DEF Partition!PartitionAssumption
  <2> QED BY <1>2, <2>1, <2>2 DEF Partition!ClaimOk
<1>3. ~divided => Partition!OneOwner
  BY DEF Partition!OneOwner
<1> QED BY <1>1, <1>2, <1>3 DEF Partition!PeripheralsHaveOneCpu

-----------------------------------------------------------------------------
(* The components together, as MCControl composes them.                       *)

\* One component moves at a time, in its own topic.
LEMMA WhoMoves ==
    ASSUME [ControlNext]_allVars
    PROVE  /\ topic' = topic
           /\ \/ topic = "modules" /\ Lifecycle(Routed, MaxNest)!Next
              \/ topic = "routed_modules" /\ Lifecycle(TRUE, 1)!Next
              \/ UNCHANGED vars
           /\ \/ topic = "session" /\ Session(FALSE)!Next
              \/ topic = "routed_session" /\ Session(TRUE)!Next
              \/ UNCHANGED sessionVars
           /\ (topic = "pipeline" /\ Chain!Next) \/ UNCHANGED pipeVars
BY DEF ControlNext, RunNext, PlanNext, DeviceNext, ComponentNext, allVars, runVars, planVars,
       deviceVars, componentVars

\* The same for the devices and the components of an application.
LEMMA WhichDevice ==
    ASSUME [ControlNext]_allVars
    PROVE  /\ (topic = "sync" /\ Sampling!Next) \/ UNCHANGED syncVars
           /\ \/ topic = "line" /\ Line({})!Next
              \/ topic = "late_line" /\ Line({"late"})!Next
              \/ topic = "failing_line" /\ Line({"error"})!Next
              \/ UNCHANGED lineVars
           /\ \/ topic = "axis" /\ Axis(DirHold)!Next
              \/ topic = "swift_axis" /\ Axis(0)!Next
              \/ topic = "bare_axis" /\ BareAxis(DirHold)!Next
              \/ topic = "bare_swift_axis" /\ BareAxis(0)!Next
              \/ UNCHANGED axisVars
BY DEF ControlNext, RunNext, PlanNext, DeviceNext, ComponentNext, allVars, runVars, planVars,
       deviceVars, componentVars

LEMMA WhichComponent ==
    ASSUME [ControlNext]_allVars
    PROVE  /\ (\E t \in Inputs : topic = t /\ Input(t)!Next) \/ UNCHANGED inputVars
           /\ \/ topic = "motor" /\ Motor(TRUE)!Next
              \/ topic = "motor_loop" /\ Motor(FALSE)!Next
              \/ UNCHANGED motorVars
           /\ (topic = "battery" /\ Battery!Next) \/ UNCHANGED batteryVars
           /\ (topic = "bucket" /\ Bucket!Next) \/ UNCHANGED bucketVars
BY DEF ControlNext, RunNext, PlanNext, DeviceNext, ComponentNext, allVars, runVars, planVars,
       deviceVars, componentVars, Inputs

\* The same for what is checked before anything runs.
LEMMA WhichPlan ==
    ASSUME [ControlNext]_allVars
    PROVE  /\ (topic = "claims" /\ Session(FALSE)!Check) \/ UNCHANGED claimVars
           /\ (topic = "deadlines" /\ Deadlines!Next) \/ UNCHANGED deadlineVars
           /\ (topic = "partition" /\ Partition!Next) \/ UNCHANGED partitionVars
BY DEF ControlNext, RunNext, PlanNext, DeviceNext, ComponentNext, allVars, runVars, planVars,
       deviceVars, componentVars

\* A component that rests keeps its invariant.
LEMMA ModulesRest ==
    ASSUME NEW r \in BOOLEAN, ModulesInv(r), UNCHANGED vars
    PROVE  ModulesInv(r)'
<1>1. UNCHANGED <<phase, frozen, mods, st, real, stack>>
  BY DEF vars
<1>2. \A f \in Frames : FrameInv(f) => FrameInv(f)'
  BY <1>1 DEF FrameInv, PlacePart, HookPart, InitPart, StartPart, DeinitPart
<1>3. TableInv'
  BY <1>1 DEF ModulesInv, TableInv, Sorted
<1>4. CallsPart'
  BY <1>1, <1>2 DEF ModulesInv, CallsPart
<1>5. r => RoutedPart'
  BY <1>1 DEF ModulesInv, RoutedPart, Freezing
<1> QED BY <1>3, <1>4, <1>5 DEF ModulesInv

\* The same for the session.
LEMMA SessionRests ==
    ASSUME NEW r \in BOOLEAN, SessionInv(r), UNCHANGED sessionVars
    PROVE  SessionInv(r)'
BY DEF sessionVars, SessionInv, Session!TypeOK, CallsInv, PlaceInv, HooksInv, SlotsInv, Stops,
       IsUp, Filling, Opened, Session!Inst

\* Each topic has its own build.
RoutedModules == topic = "routed_modules"
RoutedSession == topic = "routed_session"
ModulesHold == \A r \in BOOLEAN : r = (Routed \/ RoutedModules) => ModulesInv(r)
SessionsHold == \A r \in BOOLEAN : r = RoutedSession => SessionInv(r)

\* The assumption of Exec does not depend on the build.
LEMMA ExecAssumed == ASSUME NEW r \in BOOLEAN  PROVE Session(r)!ExecAssumption
BY ControlAssumption DEF Session!ExecAssumption

\* The invariant of the table holds at first, and in every step of the composition.
LEMMA ModulesStart ==
    ASSUME ControlInit  PROVE ModulesHold
BY ModulesInit DEF ControlInit, ModulesHold

\* Hooks that call in are routed ones: a build for one CPU refuses calls from its hooks.
LEMMA ModulesGoOn ==
    ASSUME Routed \/ MaxNest = 0, ModulesHold, [ControlNext]_allVars
    PROVE  ModulesHold'
<1> SUFFICES ASSUME NEW r \in BOOLEAN, r = (Routed \/ RoutedModules)', ModulesInv(r)
             PROVE  ModulesInv(r)'
  BY WhoMoves DEF ModulesHold, RoutedModules
<1>1. CASE topic = "modules" /\ Lifecycle(Routed, MaxNest)!Next
  <2>1. r = Routed /\ MaxNest \in Nat
    BY <1>1, WhoMoves, RouteAssumption DEF RoutedModules
  <2> QED BY <1>1, <2>1, ModulesStep
<1>2. CASE topic = "routed_modules" /\ Lifecycle(TRUE, 1)!Next
  <2>1. r = TRUE
    BY <1>2, WhoMoves DEF RoutedModules
  <2> QED BY <1>2, <2>1, ModulesStep
<1>3. CASE UNCHANGED vars
  BY <1>3, ModulesRest
<1> QED BY <1>1, <1>2, <1>3, WhoMoves

\* The same for the session.
LEMMA SessionsStart ==
    ASSUME ControlInit  PROVE SessionsHold
<1>1. ASSUME NEW r \in BOOLEAN  PROVE Session(r)!Init
  BY DEF ControlInit, Session!Init, Session!Inst
<1> QED BY <1>1, ExecAssumed, SessionInit DEF SessionsHold

\* Only its own topics move it.
LEMMA SessionsGoOn ==
    ASSUME SessionsHold, [ControlNext]_allVars
    PROVE  SessionsHold'
<1> SUFFICES ASSUME NEW r \in BOOLEAN, r = RoutedSession', SessionInv(r)
             PROVE  SessionInv(r)'
  BY WhoMoves DEF SessionsHold, RoutedSession
<1>1. CASE topic = "session" /\ Session(FALSE)!Next
  <2>1. r = FALSE
    BY <1>1, WhoMoves DEF RoutedSession
  <2> QED BY <1>1, <2>1, SessionStep, ExecAssumed
<1>2. CASE topic = "routed_session" /\ Session(TRUE)!Next
  <2>1. r = TRUE
    BY <1>2, WhoMoves DEF RoutedSession
  <2> QED BY <1>2, <2>1, SessionStep, ExecAssumed
<1>3. CASE UNCHANGED sessionVars
  BY <1>3, SessionRests
<1> QED BY <1>1, <1>2, <1>3, WhoMoves

-----------------------------------------------------------------------------
(* The theorems.                                                              *)

(* With any number of instances, whichever hook fails and wherever interrupts   *)
(* and stops come in: slots and callbacks run only while every instance is      *)
(* started, an open session is complete, and a closed one leaves nothing        *)
(* behind (bm_exec.c:441-486, 882-909).                                         *)
THEOREM SessionHolds == ControlSpec => []SessionIsTrue
<1>1. SessionsHold => SessionIsTrue
  <2> SUFFICES ASSUME NEW r \in BOOLEAN, r = RoutedSession, SessionInv(r)
               PROVE  SessionIsTrue
    BY RoutedSession \in BOOLEAN DEF SessionsHold, RoutedSession
  <2>1. Session(r)!RunsOnlyStarted /\ Session(r)!NothingLeft /\ Session(r)!OpenIsComplete
    BY SessionFollows
  <2>2. Session(FALSE)!RunsOnlyStarted /\ Session(FALSE)!NothingLeft
    BY <2>1 DEF Session!RunsOnlyStarted, Session!NothingLeft, Session!Inst
  <2>3. topic = "session" => r = FALSE
    BY DEF RoutedSession
  <2>4. topic = "routed_session" => r = TRUE
    BY DEF RoutedSession
  <2> QED BY <2>1, <2>2, <2>3, <2>4 DEF SessionIsTrue
<1> QED BY <1>1, SessionsStart, SessionsGoOn, PTL DEF ControlSpec

(* Instances are stopped in the reverse order of their table, also by the       *)
(* rollback of an init or a start that failed (bm_exec.c:449-454, 465-471).     *)
THEOREM StopsGoDown == ControlSpec => [][Session(FALSE)!ReverseCleanup]_allVars
<1>1. SessionsHold /\ [ControlNext]_allVars => [Session(FALSE)!ReverseCleanup]_allVars
  <2> SUFFICES ASSUME NEW r \in BOOLEAN, r = RoutedSession, SessionInv(r),
                      [ControlNext]_allVars
               PROVE  Session(FALSE)!ReverseCleanup
    BY RoutedSession \in BOOLEAN DEF SessionsHold, RoutedSession
  <2>1. Session(r)!Next \/ UNCHANGED sessionVars
    BY WhoMoves DEF RoutedSession
  <2>2. CASE Session(r)!Next
    BY <2>2, ReverseStep DEF Session!ReverseCleanup, Session!Inst
  <2>3. CASE UNCHANGED sessionVars
    BY <2>3 DEF Session!ReverseCleanup, sessionVars
  <2> QED BY <2>1, <2>2, <2>3
<1> QED BY <1>1, SessionsStart, SessionsGoOn, PTL DEF ControlSpec

(* For every table of modules, domains and priorities: each hook is called only *)
(* when it is due, modules are started by priority, UNINITIALIZED tells that    *)
(* nothing is left, and a routed build is READY only when everything is         *)
(* initialised (bm_module.c:252-279, 381-442).                                  *)
THEOREM HooksHold == ASSUME Routed \/ MaxNest = 0  PROVE ControlSpec => []HooksInOrder
<1>1. ModulesHold => HooksInOrder
  <2> SUFFICES ASSUME NEW r \in BOOLEAN, r = (Routed \/ RoutedModules), ModulesInv(r)
               PROVE  HooksInOrder
    BY RouteAssumption DEF ModulesHold, RoutedModules
  <2>1. /\ HooksAreDue /\ StartInOrder /\ UninitializedIsOff
        /\ Len(stack) <= 1
        /\ (r /\ phase = "READY") => /\ frozen \/ Freezing
                                     /\ \A i \in DOMAIN mods : real[mods[i]] # "off"
    BY HooksFollow
  <2>2. topic = "routed_modules" => r
    BY DEF RoutedModules
  <2>3. topic = "routed_modules" =>
            Lifecycle(TRUE, 1)!ReadyIsComplete /\ Lifecycle(TRUE, 1)!NoReentry
    <3>1. Freezing => Lifecycle(TRUE, 1)!At("freeze")
      BY OneFrame DEF Freezing, Lifecycle!At, Lifecycle!Busy, Lifecycle!Top
    <3> QED
      BY <2>1, <2>2, <3>1 DEF Lifecycle!ReadyIsComplete, Lifecycle!NoReentry
  <2> QED BY <2>1, <2>3 DEF HooksInOrder
<1>2. [ControlNext]_allVars /\ ModulesHold => ModulesHold'
  BY ModulesGoOn
<1> QED BY <1>1, <1>2, ModulesStart, PTL DEF ControlSpec

-----------------------------------------------------------------------------
(* The devices, each in its own topics.                                       *)

\* What the assumptions say of each device.
LEMMA DevicesAssumed ==
    /\ Sampling!SyncAssumption /\ \A F : Line(F)!Rs485Assumption
    /\ \A h \in {0, DirHold} : h \in Nat /\ Axis(h)!StepperAssumption
    /\ \A t \in Inputs : Input(t)!InputAssumption
    /\ \A f \in BOOLEAN : Motor(f)!FocAssumption
    /\ Battery!DeratingAssumption /\ Bucket!BucketAssumption
<1>1. \A F : Line(F)!Rs485Assumption
  BY ControlAssumption DEF Line!Rs485Assumption
<1>2. \A h \in {0, DirHold} : h \in Nat
  BY ControlAssumption DEF Axis!StepperAssumption
<1> QED BY <1>1, <1>2, ControlAssumption DEF Inputs

\* The axis of the topic: "axis" and "bare_axis" hold before a reversal.
TopicHold == IF topic \in {"axis", "bare_axis"} THEN DirHold ELSE 0

\* A motor is commanded from the main loop, but in "motor_loop"; inputs are read in
\* their own topics only.
LinesHold ==
    /\ LineInv
    /\ topic # "failing_line" => LineDriven
    /\ topic = "line" => (Line({})!InTime => LineClean)
AxesHold ==
    \A h \in {0, DirHold} : h = TopicHold =>
        /\ topic \notin BareAxes => AxisInv(h)
        /\ topic \in BareAxes => BareInv(h)
InputsHold == \A t \in Inputs : topic = t => InputInv(t)
MotorsHold == \A f \in BOOLEAN : (f <=> topic # "motor_loop") => MotorInv(f)
DevicesHold ==
    /\ SyncInv /\ LinesHold /\ AxesHold /\ InputsHold
    /\ MotorsHold /\ BatteryInv /\ BucketInv

LEMMA DevicesStart ==
    ASSUME ControlInit  PROVE DevicesHold
<1>1. SyncInv
  BY SyncStarts DEF ControlInit
<1>2. LinesHold
  BY DevicesAssumed, LineStarts DEF ControlInit, LinesHold
<1>3. AxesHold
  <2>1. ~axisRunning
    BY DEF ControlInit, Axis!Init
  <2> QED BY <2>1, DevicesAssumed, AxisStarts, BareStarts DEF ControlInit, AxesHold
<1>4. InputsHold
  <2>1. level \in {0, 1} /\ Input("stop")!Init
    BY DEF ControlInit, Input!Init
  <2> QED BY <2>1, DevicesAssumed, InputStarts DEF InputsHold
<1>5. MotorsHold
  BY DevicesAssumed, MotorStarts DEF ControlInit, MotorsHold
<1>6. BatteryInv
  BY DevicesAssumed, BatteryStarts DEF ControlInit
<1>7. BucketInv
  <2>1. Bucket!Init /\ (ms = 0 \/ ms = ClockMod - 1)
    BY DEF ControlInit, Bucket!Init
  <2> QED BY <2>1, DevicesAssumed, BucketStarts
<1> QED BY <1>1, <1>2, <1>3, <1>4, <1>5, <1>6, <1>7 DEF DevicesHold

\* A device that rests keeps its invariant.
LEMMA LineStays ==
    ASSUME UNCHANGED lineVars
    PROVE  LineInv => LineInv' /\ (LineDriven => LineDriven') /\ (LineClean => LineClean')
BY DEF lineVars, LineInv, LineDriven, LineClean, Line!Clocks, Line!Oldest, Line!Rest

LEMMA LinesGoOn ==
    ASSUME LinesHold, [ControlNext]_allVars  PROVE LinesHold'
<1>1. topic' = topic /\ (Line({})!InTime)' = Line({})!InTime
  BY WhoMoves DEF Line!InTime
<1>2. CASE topic = "line" /\ Line({})!Next
  BY <1>1, <1>2, LineStep, DevicesAssumed DEF LinesHold
<1>3. CASE topic = "late_line" /\ Line({"late"})!Next
  BY <1>1, <1>3, LineStep, DevicesAssumed DEF LinesHold
<1>4. CASE topic = "failing_line" /\ Line({"error"})!Next
  BY <1>1, <1>4, LineStep, DevicesAssumed DEF LinesHold
<1>5. CASE UNCHANGED lineVars
  BY <1>1, <1>5, LineStays DEF LinesHold
<1> QED BY <1>2, <1>3, <1>4, <1>5, WhichDevice

\* What the axis does in a step: its pins keep their times where its timer is masked,
\* and its steps are counted.
AxisSteps ==
    /\ topic \notin BareAxes => Axis(0)!PinsInTime
    /\ BareAxis(0)!StepsAreCounted

\* The axis keeps its invariants, masked or not.
LEMMA AxesGoOn ==
    ASSUME AxesHold, [ControlNext]_allVars  PROVE AxesHold' /\ AxisSteps
<1>1. topic' = topic
  BY WhoMoves
<1> SUFFICES ASSUME NEW h \in {0, DirHold}, h = TopicHold,
                    topic \notin BareAxes => AxisInv(h), topic \in BareAxes => BareInv(h)
             PROVE  /\ topic \notin BareAxes => AxisInv(h)'
                    /\ topic \in BareAxes => BareInv(h)'
                    /\ AxisSteps
  BY <1>1, TopicHold \in {0, DirHold} DEF AxesHold, TopicHold
<1>2. position \in Int /\ moved \in Int /\ step \in Int /\ dir \in {1, -1} /\ pin \in {1, -1}
  BY DEF AxisInv, BareInv
<1>3. CASE topic \notin BareAxes /\ Axis(h)!Next
  <2>1. AxisInv(h)' /\ Axis(h)!PinsInTime
    BY <1>3, DevicesAssumed, AxisStep
  <2>2. Counts
    BY <2>1 DEF AxisInv, Counts
  <2>3. Axis(0)!PinsInTime
    BY <2>1 DEF Axis!PinsInTime, Axis!Unhurried, Axis!HalfPeriod
  <2> QED BY <1>2, <1>3, <2>1, <2>2, <2>3, CountsIsCounted DEF AxisSteps
<1>4. CASE topic \in BareAxes /\ BareAxis(h)!Next
  BY <1>4, DevicesAssumed, BareStep DEF AxisSteps
<1>5. CASE UNCHANGED axisVars
  <2>1. AxisInv(h) => AxisInv(h)'
    BY <1>5 DEF axisVars, AxisInv, Axis!Times, Axis!Unhurried, Axis!HalfPeriod, Axis!Longest,
       Axis!Rest
  <2>2. BareInv(h) => BareInv(h)'
    BY <1>5 DEF axisVars, BareInv, BareAxis!Times, BareAxis!Longest, BareAxis!Rest
  <2>3. Axis(0)!PinsInTime
    BY <1>2, <1>5 DEF axisVars, Axis!PinsInTime
  <2>4. Counts
    BY <1>5 DEF axisVars, Counts
  <2> QED BY <1>2, <2>1, <2>2, <2>3, <2>4, CountsIsCounted DEF AxisSteps
<1> QED BY <1>3, <1>4, <1>5, WhichDevice DEF TopicHold, BareAxes

\* The inputs keep theirs, and what they report.
LEMMA InputsGoOn ==
    ASSUME InputsHold, [ControlNext]_allVars
    PROVE  InputsHold' /\ InputSteps
<1>1. topic' = topic
  BY WhoMoves
<1> SUFFICES ASSUME NEW t \in Inputs, topic = t, InputInv(t)
             PROVE  /\ InputInv(t)'
                    /\ Input(t)!BouncesAreIgnored /\ Input(t)!HeldIsReported
  BY <1>1 DEF InputsHold, InputSteps, Inputs
<1>2. CASE Input(t)!Next
  BY <1>2, DevicesAssumed, InputStep
<1>3. CASE UNCHANGED inputVars
  <2>1. InputInv(t)'
    BY <1>3 DEF inputVars, InputInv, Input!Polled, Input!ActiveLevel
  <2>2. Input(t)!BouncesAreIgnored /\ Input(t)!HeldIsReported
    <3>1. triggered' = triggered
      BY <1>3 DEF inputVars
    <3>2. CASE Input(t)!Poll
      BY <3>2, DevicesAssumed, InputStep DEF Input!Next
    <3>3. CASE ~Input(t)!Poll
      BY <3>1, <3>3 DEF Input!BouncesAreIgnored, Input!HeldIsReported
    <3> QED BY <3>2, <3>3
  <2> QED BY <2>1, <2>2
<1> QED BY <1>2, <1>3, WhichComponent

LEMMA MotorsGoOn ==
    ASSUME MotorsHold, [ControlNext]_allVars  PROVE MotorsHold'
<1>1. topic' = topic
  BY WhoMoves
<1> SUFFICES ASSUME NEW f \in BOOLEAN, f <=> topic # "motor_loop", MotorInv(f)
             PROVE  MotorInv(f)'
  BY <1>1 DEF MotorsHold
<1>2. CASE topic = "motor" /\ Motor(TRUE)!Next
  <2>1. f = TRUE
    BY <1>2
  <2> QED BY <1>2, <2>1, DevicesAssumed, MotorStep
<1>3. CASE topic = "motor_loop" /\ Motor(FALSE)!Next
  <2>1. f = FALSE
    BY <1>3
  <2> QED BY <1>3, <2>1, DevicesAssumed, MotorStep
<1>4. CASE UNCHANGED motorVars
  BY <1>4 DEF motorVars, MotorInv, Motor!Phases
<1> QED BY <1>2, <1>3, <1>4, WhichComponent

LEMMA DevicesGoOn ==
    ASSUME DevicesHold, [ControlNext]_allVars  PROVE DevicesHold'
<1>1. SyncInv'
  <2>1. CASE Sampling!Next
    BY <2>1, DevicesAssumed, SyncStep DEF DevicesHold
  <2>2. CASE UNCHANGED syncVars
    BY <2>2 DEF DevicesHold, syncVars, SyncInv, SyncRests, SyncWorks, SyncStops,
       Sampling!TypeOK, Sampling!None, Sampling!Set
  <2> QED BY <2>1, <2>2, WhichDevice
<1>2. BatteryInv'
  <2>1. CASE Battery!Next
    BY <2>1, DevicesAssumed, BatteryStep DEF DevicesHold
  <2>2. CASE UNCHANGED batteryVars
    BY <2>2 DEF DevicesHold, batteryVars, BatteryInv, Battery!Ticks, Battery!Most
  <2> QED BY <2>1, <2>2, WhichComponent
<1>3. BucketInv'
  <2>1. CASE Bucket!Next
    BY <2>1, DevicesAssumed, BucketStep DEF DevicesHold
  <2>2. CASE UNCHANGED bucketVars
    BY <2>2 DEF DevicesHold, bucketVars, BucketInv, Bucket!Refilled, Bucket!Elapsed
  <2> QED BY <2>1, <2>2, WhichComponent
<1> QED
  BY <1>1, <1>2, <1>3, LinesGoOn, AxesGoOn, InputsGoOn, MotorsGoOn DEF DevicesHold

(* What the drivers believe is what their hardware does, for all times,       *)
(* limits and numbers of domains: the domain that samples; the driver of the  *)
(* line, where its port reports no error; the position of the axis, where its *)
(* timer's interrupt is masked during the calls; its timer, masked or not; a  *)
(* switch driven by edges, the bridge of a motor, the factor of a battery and *)
(* the bucket of a transport.  Sending ends although the port of the line     *)
(* fails (bm_sync.c:180-299; bm_rs485.c:107-132, 481-555;                     *)
(* stepper_pulse.c:225-259, 325-378; bm_limit_switch.c:53-82;                 *)
(* motor_foc_sensorless.c:142-154, 319-481; fault_derating.c:97-158;          *)
(* transport_qos.c:158-277).                                                  *)
THEOREM DevicesHoldTrue == ControlSpec => []DevicesAreTrue
<1>1. DevicesHold => DevicesAreTrue
  <2> SUFFICES ASSUME DevicesHold  PROVE DevicesAreTrue
    OBVIOUS
  <2>1. Sampling!StateIsTrue
    BY DevicesAssumed, SyncFollows DEF DevicesHold
  <2>2. /\ Line({})!SendingEnds
        /\ topic # "failing_line" => Line({})!DriverIsTrue
        /\ topic = "line" => Line({})!TailAfterSending
    BY DevicesAssumed, LineFollows DEF DevicesHold, LinesHold
  <2>3. /\ topic \notin BareAxes => Axis(0)!PositionIsTrue
        /\ Axis(0)!KeepsStepping
    BY DevicesAssumed, AxisFollows, BareFollows, TopicHold \in {0, DirHold}
    DEF DevicesHold, AxesHold, TopicHold
  <2>4. topic = "edges" => Input("edges")!EdgesAreFollowed
    BY DevicesAssumed, InputFollows, "edges" \in Inputs
    DEF DevicesHold, InputsHold, Inputs, Switches
  <2>5. /\ Motor(TRUE)!FaultIsSafe
        /\ topic = "motor_loop" => Motor(FALSE)!StartIsWhole
        /\ topic # "motor_loop" => Motor(TRUE)!StartIsWhole
    BY DevicesAssumed, MotorFollows DEF DevicesHold, MotorsHold
  <2>6. Battery!LimitsAreFelt /\ Bucket!WithinRate
    BY DevicesAssumed, BatteryFollows, BucketFollows DEF DevicesHold
  <2> QED BY <2>1, <2>2, <2>3, <2>4, <2>5, <2>6 DEF DevicesAreTrue
<1> QED BY <1>1, DevicesStart, DevicesGoOn, PTL DEF ControlSpec

(* And what they do, they do in order: instances stop from the last to the    *)
(* first, a domain is triggered once for each time it is armed, the pins of   *)
(* an axis keep their times where the timer's interrupt is masked during the  *)
(* calls, and where it is not, a step is counted wrong only while a call that *)
(* starts or turns the axis is on its way to the DIR pin; a failed init       *)
(* leaves no node prepared, bounces are not reported and held levels are, a   *)
(* load comes back only after the time to recover, and a latency is the time  *)
(* since the last send (bm_exec.c:449-471; bm_sync.c:239-259;                 *)
(* stepper_pulse.c:225-259, 325-378; bm_pipeline.c:131-149;                   *)
(* bm_input_debounce.h:82-110; fault_derating.c:97-158;                       *)
(* transport_qos.c:96-146, 220-228).                                          *)
THEOREM DevicesStepInOrder == ControlSpec => StepsInOrder
<1>1. ASSUME DevicesHold, [ControlNext]_allVars
      PROVE  /\ Sampling!OneShot /\ AxisSteps /\ Chain!NoneLeftPrepared
             /\ InputSteps /\ (topic = "battery" => Battery!RisesWhenRecovered)
             /\ topic = "bucket" => Bucket!LatencyIsTrue
  <2>1. Sampling!OneShot
    BY <1>1, WhichDevice, DevicesAssumed, SyncOnce DEF DevicesHold
  <2>2. AxisSteps /\ InputSteps
    BY <1>1, AxesGoOn, InputsGoOn DEF DevicesHold
  <2>3. Chain!NoneLeftPrepared
    <3>1. CASE Chain!Next
      BY <3>1 DEF Chain!Next, Chain!InitRefused, Chain!InitDone, Chain!Reset, Chain!InitFails,
         Chain!SetBypass, Chain!Process, Chain!RolledBack, Chain!vars, Chain!NoneLeftPrepared
    <3>2. CASE UNCHANGED pipeVars
      BY <3>2 DEF pipeVars, Chain!NoneLeftPrepared
    <3> QED BY <1>1, <3>1, <3>2, WhoMoves
  <2>4. Battery!RisesWhenRecovered
    <3>1. CASE Battery!Next
      BY <1>1, <3>1, DevicesAssumed, BatteryStep DEF DevicesHold
    <3>2. CASE UNCHANGED batteryVars
      BY <1>1, <3>2, TicksAreNumbers, DevicesAssumed
      DEF DevicesHold, BatteryInv, batteryVars, Battery!RisesWhenRecovered
    <3> QED BY <1>1, <3>1, <3>2, WhichComponent
  <2>5. Bucket!LatencyIsTrue
    BY <1>1, DevicesAssumed, LatencyHolds DEF DevicesHold
  <2> QED BY <2>1, <2>2, <2>3, <2>4, <2>5
<1>2. DevicesHold /\ [ControlNext]_allVars =>
        [/\ Sampling!OneShot /\ AxisSteps /\ Chain!NoneLeftPrepared
         /\ InputSteps /\ (topic = "battery" => Battery!RisesWhenRecovered)
         /\ topic = "bucket" => Bucket!LatencyIsTrue]_allVars
  BY <1>1
<1>3. ControlSpec =>
        [][/\ Sampling!OneShot /\ AxisSteps /\ Chain!NoneLeftPrepared
           /\ InputSteps /\ (topic = "battery" => Battery!RisesWhenRecovered)
           /\ topic = "bucket" => Bucket!LatencyIsTrue]_allVars
  BY <1>2, DevicesStart, DevicesGoOn, PTL DEF ControlSpec
<1> QED BY <1>3, StopsGoDown, PTL DEF StepsInOrder, AxisSteps

-----------------------------------------------------------------------------
(* What is checked before anything runs.                                       *)

PlansHold == (topic = "claims" => ClaimsInv) /\ FillingInv /\ PartitionInv

LEMMA PlansStart ==
    ASSUME ControlInit  PROVE PlansHold
<1>1. ASSUME topic = "claims"  PROVE ClaimsInv
  <2>1. Session(FALSE)!ClaimsInit /\ MaxClaims \in Nat
    BY <1>1, ControlAssumption DEF ControlInit, Session!ResourceAssumption
  <2>2. PICK n \in 1 .. MaxClaims : claims \in [1 .. n -> Session(FALSE)!Claim]
    BY <2>1 DEF Session!ClaimsInit
  <2>3. n \in Nat
    BY <2>1, <2>2
  <2>4. verdict = "none"
    BY <2>1 DEF Session!ClaimsInit
  <2> QED BY <2>2, <2>3, <2>4 DEF ClaimsInv
<1>2. FillingInv
  BY FillingStarts DEF ControlInit
<1>3. PartitionInv
  BY PartitionStarts DEF ControlInit
<1> QED BY <1>1, <1>2, <1>3 DEF PlansHold

LEMMA PlansGoOn ==
    ASSUME PlansHold, [ControlNext]_allVars  PROVE PlansHold'
<1>1. topic' = topic
  BY WhoMoves
<1>2. topic = "claims" => ClaimsInv'
  <2>1. CASE Session(FALSE)!Check
    <3>1. claims' = claims /\ verdict' = Session(FALSE)!Verdict
      BY <2>1 DEF Session!Check
    <3>2. Session(FALSE)!Verdict' = Session(FALSE)!Verdict
      BY <3>1 DEF Session!Verdict, Session!Duplicate, Session!Conflict, Session!Pairs,
         Session!Uncoordinated, Session!Coordinated, Session!Unowned, Session!With
    <3> QED BY <3>1, <3>2 DEF PlansHold, ClaimsInv, Session!Claim
  <2>2. CASE UNCHANGED claimVars
    <3>1. claims' = claims /\ verdict' = verdict
      BY <2>2 DEF claimVars
    <3>2. Session(FALSE)!Verdict' = Session(FALSE)!Verdict
      BY <3>1 DEF Session!Verdict, Session!Duplicate, Session!Conflict, Session!Pairs,
         Session!Uncoordinated, Session!Coordinated, Session!Unowned, Session!With
    <3> QED BY <3>1, <3>2 DEF PlansHold, ClaimsInv, Session!Claim
  <2> QED BY <2>1, <2>2, WhichPlan
<1>3. FillingInv'
  <2>1. CASE Deadlines!Next
    BY <2>1, FillingStep DEF PlansHold
  <2>2. CASE UNCHANGED deadlineVars
    BY <2>2 DEF PlansHold, deadlineVars, FillingInv
  <2> QED BY <2>1, <2>2, WhichPlan
<1>4. PartitionInv'
  <2>1. CASE Partition!Next
    BY <2>1, PartitionStep DEF PlansHold
  <2>2. CASE UNCHANGED partitionVars
    <3>1. /\ modTable' = modTable /\ declared' = declared /\ bindings' = bindings
          /\ topology' = topology /\ divided' = divided /\ eventOwner' = eventOwner
          /\ moduleOwner' = moduleOwner /\ admitted' = admitted
      BY <2>2 DEF partitionVars
    <3>2. /\ Partition!BuildOk' = Partition!BuildOk
          /\ Partition!EventOwners' = Partition!EventOwners
          /\ Partition!ModuleOwners' = Partition!ModuleOwners
      BY <3>1 DEF Partition!BuildOk, Partition!TopologyOk, Partition!SingleCpu,
         Partition!EventsClosed, Partition!Subscriptions, Partition!EventOwners,
         Partition!ModuleOwners, Partition!Undeclared, Partition!Cpus, Partition!Types
    <3> QED
      BY <3>1, <3>2 DEF PlansHold, PartitionInv, Partition!ClaimOk, Partition!EntriesOf,
         Partition!First, Partition!Cpus
  <2> QED BY <2>1, <2>2, WhichPlan
<1> QED BY <1>1, <1>2, <1>3, <1>4 DEF PlansHold

(* For every table of claims, of slots and of modules: claims are accepted      *)
(* exactly if nothing that writes can disturb another user, a refused table of  *)
(* slots is left as it was, and in a partition that stands every module and     *)
(* every event has one CPU, on which they meet, and every peripheral one        *)
(* (bm_resource.c:54-147; bm_mp_profile.c:107, 194-196;                         *)
(* bm_mp_partition.c:200-340; bm_mp_resource_topology.c:79-131).                *)
THEOREM AdmissionHolds == ControlSpec => []AdmitsWhatWorks
<1>1. PlansHold => AdmitsWhatWorks
  <2>1. Session(FALSE)!ResourceAssumption /\ Deadlines!ScheduleAssumption
        /\ Partition!PartitionAssumption
    BY ControlAssumption
  <2> QED
    BY <2>1, ClaimsFollow, FillingFollows, PartitionFollows DEF PlansHold, AdmitsWhatWorks
<1> QED BY <1>1, PlansStart, PlansGoOn, PTL DEF ControlSpec

-----------------------------------------------------------------------------
(* Every component is well-formed.                                             *)

LEMMA TableTyped ==
    ASSUME NEW r \in BOOLEAN, ModulesInv(r)  PROVE TypeOK
<1>1. /\ phase \in Phases /\ frozen \in BOOLEAN
      /\ st \in [Modules -> States] /\ real = [m \in Modules |-> RealOf(st[m])]
      /\ mods \in Seq(Modules)
  BY DEF ModulesInv, TableInv
<1>2. \A i \in DOMAIN mods : mods[i] \in Modules
  BY <1>1
<1>3. real \in [Modules -> {"off", "inited", "running"}]
  BY <1>1 DEF RealOf, States
<1>4. ASSUME NEW k \in DOMAIN stack
      PROVE  /\ stack[k].i \in 0 .. Len(mods) + 1 /\ stack[k].rem \in Nat
             /\ stack[k].hook \in {"none", "init", "start", "stop", "deinit"}
  <2>1. stack # <<>>
    BY <1>4
  <2>2. PICK f \in Frames : stack = <<f>> /\ FrameInv(f)
    BY <2>1 DEF ModulesInv, CallsPart
  <2>3. stack[k] = f
    BY <1>4, <2>2, OneFrame
  <2>4. f.i \in Nat /\ f.rem \in Nat /\ f.hook \in Ops \cup {"none"}
    BY DEF Frames
  <2>5. f.i <= Len(mods) + 1
    BY <2>2 DEF FrameInv, PlacePart
  <2> QED BY <1>1, <2>3, <2>4, <2>5 DEF Ops
<1> QED BY <1>1, <1>2, <1>3, <1>4 DEF TypeOK

\* The commands of a motor are its application's.
CommandIs == cmd \in Motor(TRUE)!Commands

LEMMA CommandsGoOn ==
    ASSUME CommandIs, [ControlNext]_allVars  PROVE CommandIs'
<1>1. ASSUME NEW f \in BOOLEAN, Motor(f)!Next  PROVE CommandIs'
  <2> USE DEF CommandIs, Motor!Commands
  <2>1. CASE Motor(f)!Interrupt
    BY <2>1 DEF Motor!Interrupt
  <2>2. CASE Motor(f)!ApplyCommand
    BY <2>2 DEF Motor!ApplyCommand
  <2>3. CASE cmd' = cmd
    BY <2>3
  <2> QED
    BY <1>1, <2>1, <2>2, <2>3
    DEF Motor!Next, Motor!MainLoop, Motor!Examine, Motor!LatchPhase, Motor!LatchFlag,
        Motor!LatchBridge, Motor!BeginPhase, Motor!BeginTimers, Motor!ResetPhase,
        Motor!ResetTimers, Motor!ResetLatch, Motor!SafeStop, Motor!Reopen
<1>2. CASE UNCHANGED motorVars
  BY <1>2 DEF CommandIs, motorVars, Motor!Commands
<1> QED BY <1>1, <1>2, WhichComponent

LEMMA TypesFollow ==
    ASSUME ModulesHold, SessionsHold, PeriodsHold, DevicesHold, CommandIs
    PROVE  TypesOK
<1>1. topic \in {"modules", "routed_modules"} => TypeOK
  BY TableTyped, RouteAssumption DEF ModulesHold, RoutedModules
<1>2. Session(FALSE)!TypeOK
  <2>1. Session(RoutedSession)!TypeOK
    BY RoutedSession \in BOOLEAN DEF SessionsHold, RoutedSession, SessionInv
  <2> QED BY <2>1 DEF Session!TypeOK, Session!Inst
<1>3. /\ topic = "schedule" => Schedule(Plan)!TypeOK
      /\ topic = "long_ticks" => Schedule(LongPlan)!TypeOK
      /\ Slots!TypeOK
  BY PlansAre, TtFollows, TickerFollows DEF PeriodsHold
<1>4. Sampling!TypeOK /\ Line({})!TypeOK
  BY DevicesAssumed, SyncFollows, LineFollows DEF DevicesHold, LinesHold
<1>5. /\ topic \in {"axis", "bare_axis"} => Axis(DirHold)!TypeOK
      /\ topic \in {"swift_axis", "bare_swift_axis"} => Axis(0)!TypeOK
  BY DevicesAssumed, AxisFollows, BareFollows DEF DevicesHold, AxesHold, TopicHold
<1>6. topic \in Switches \cup {"stop"} => Input("stop")!TypeOK
  BY DevicesAssumed, InputFollows DEF DevicesHold, InputsHold, Inputs
<1>7. Motor(TRUE)!TypeOK
  <2>1. MotorInv(topic # "motor_loop")
    BY (topic # "motor_loop") \in BOOLEAN DEF DevicesHold, MotorsHold
  <2>2. {focLatched, duty, outputs} \subseteq BOOLEAN
    BY <2>1, Zenon DEF MotorInv
  <2>3. /\ focPhase \in Motor(TRUE)!Phases
        /\ timer \in 0 .. AlignSteps + RampSteps /\ lockTimer \in 0 .. LockSteps
    BY <2>1 DEF MotorInv, Motor!Phases
  <2> QED BY <2>2, <2>3 DEF Motor!TypeOK, CommandIs
<1>8. Battery!TypeOK /\ Bucket!TypeOK
  BY DevicesAssumed, BatteryFollows, BucketFollows DEF DevicesHold
<1> QED BY <1>1, <1>2, <1>3, <1>4, <1>5, <1>6, <1>7, <1>8 DEF TypesOK

(* For all values of the constants every component keeps its types: the place   *)
(* of a traversal lies in its table, queues, counters and timers keep within    *)
(* their limits (bm_module.c:252-442, bm_exec.c:882-1046).                      *)
THEOREM TypesHold == ASSUME Routed \/ MaxNest = 0  PROVE ControlSpec => []TypesOK
<1>1. ControlInit => CommandIs
  BY DEF ControlInit, Motor!Init, CommandIs, Motor!Commands
<1>2. [ControlNext]_allVars /\ ModulesHold => ModulesHold'
  BY ModulesGoOn
<1> QED
  BY <1>1, <1>2, ModulesStart, SessionsStart, SessionsGoOn, PeriodsStart, PeriodsGoOn,
     DevicesStart, DevicesGoOn, CommandsGoOn, TypesFollow, PTL DEF ControlSpec
================================================================================
