--------------------------- MODULE ModuleLifecycle ---------------------------
(* bm_module on one CPU (Source/core/bm_module.c): the modules of the static   *)
(* table are initialised, started, stopped and de-initialised through their    *)
(* hooks, in order of priority, with a rollback when a hook fails.             *)
(*                                                                             *)
(* A hook is a call into the application: it takes time, may fail, and may     *)
(* itself call the API.  A missing hook (NULL) is one that does nothing and    *)
(* succeeds.  A traversal under way is a frame of the stack.                   *)
EXTENDS Naturals, Sequences, FiniteSets

CONSTANTS
    Modules,     \* the entries of _bm_module_table
    Prio,        \* their priorities, smaller first
    DomainOf,    \* their domains, bm_domain_t
    Domains,     \* the domains the application passes to ..._for_domain
    Common,      \* BM_DOMAIN_COMMON
    Every,       \* the filter of the calls without a domain
    Routed,      \* BM_CPU_LOCAL_ENABLE_ROUTE: only init and start exist
    MaxNest      \* bound: API calls nested through hooks

ASSUME TableAssumption ==
    /\ IsFiniteSet(Modules)
    /\ Prio \in [Modules -> Nat]
    /\ Every \notin Domains /\ Common \notin Domains
    /\ DomainOf \in [Modules -> Domains \cup {Common}]
ASSUME RouteAssumption == Routed \in BOOLEAN /\ MaxNest \in Nat

VARIABLES
    phase,    \* initialized
    mods,     \* modules[], the working table
    st,       \* the state of the entries of modules[]
    frozen,   \* subscriptions_frozen of the event bus
    real,     \* what the hooks have really made of each module
    stack     \* the traversals under way, the innermost last

vars == <<phase, mods, st, frozen, real, stack>>

Phases == {"UNINITIALIZED", "INITIALIZING", "READY", "TRANSITIONING", "CLEANUP_PENDING"}
States == {"UNINIT", "INITED", "STARTED", "STOPPED"}
Filters == IF Routed THEN {Every} ELSE Domains \cup {Every}

Init ==
    /\ phase = "UNINITIALIZED" /\ mods = <<>>
    /\ st = [m \in Modules |-> "UNINIT"]
    /\ frozen = FALSE
    /\ real = [m \in Modules |-> "off"]
    /\ stack = <<>>

-----------------------------------------------------------------------------
Matches(m, dom) == dom = Every \/ DomainOf[m] = dom \/ DomainOf[m] = Common

Unsorted(s) == TRUE
Sorted(s) == \A i, j \in DOMAIN s : i < j => Prio[s[i]] <= Prio[s[j]]
\* What _sort_modules can make of a set; equal priorities may end in any order.
Tables(S) == {s \in [1 .. Cardinality(S) -> S] :
                 Sorted(s) /\ \A i, j \in DOMAIN s : i # j => s[i] # s[j]}

\* op: the call, "freeze" at the end of an init; dom: its filter; i: the entry it is
\* at; undo: it is rolling back; err: a hook failed; rem: modules deinit left; hook:
\* the hook that is running.
Frame(op, dom, i) ==
    [op |-> op, dom |-> dom, i |-> i, undo |-> FALSE, err |-> FALSE, rem |-> 0,
     hook |-> "none"]

Top == stack[Len(stack)]
Entry == mods[Top.i]
Busy == stack # <<>> /\ Top.hook = "none"     \* the traversal itself is at work
At(op) == Busy /\ Top.op = op
Push(f) == stack' = Append(stack, f)
Pop == stack' = SubSeq(stack, 1, Len(stack) - 1)
Change(f) == stack' = [stack EXCEPT ![Len(stack)] = f]

\* The application calls, or a hook that is running does.
MayCall == ~Busy /\ Len(stack) <= MaxNest

\* The critical section with which start and stop begin; deinit lets one more in.
ForgetCleanup == phase \in {"READY", "CLEANUP_PENDING"}
Settled == phase = "READY"
Quiet == phase \notin {"INITIALIZING", "TRANSITIONING"}

-----------------------------------------------------------------------------
(* bm_module_init_all, ..._for_domain, ..._on_this_cpu; reset: bm_module_boot. *)

InitCall(dom, reset) ==
    /\ MayCall
    /\ phase = "UNINITIALIZED"
    /\ reset => dom = Every
    /\ phase' = "INITIALIZING"
    /\ frozen' = (frozen /\ ~reset)
    /\ mods' \in Tables({m \in Modules : Matches(m, dom)})
    /\ st' = [m \in Modules |-> "UNINIT"]
    /\ Push(Frame("init", dom, 1))
    /\ UNCHANGED real

StartCall(dom) ==
    /\ MayCall
    /\ Settled
    /\ phase' = "TRANSITIONING"
    /\ Push(Frame("start", dom, 1))
    /\ UNCHANGED <<mods, st, frozen, real>>

StopCall(dom) ==
    /\ MayCall /\ ~Routed
    /\ Settled
    /\ phase' = "TRANSITIONING"
    /\ Push(Frame("stop", dom, Len(mods)))
    /\ UNCHANGED <<mods, st, frozen, real>>

DeinitCall(dom) ==
    /\ MayCall /\ ~Routed
    /\ Quiet
    /\ phase' = "CLEANUP_PENDING"
    /\ Push(Frame("deinit", dom, Len(mods)))
    /\ UNCHANGED <<mods, st, frozen, real>>

-----------------------------------------------------------------------------
(* One step of the innermost traversal: call a hook, skip, turn or return.     *)

InRange == Top.i \in 1 .. Len(mods)
Mine == Matches(Entry, Top.dom)
StartTwice == {"INITED", "STARTED", "STOPPED"}
Startable == {"INITED", "STOPPED"}

\* Which hook the entry needs now, "none" if the loop passes it by.
HookFor(f, m) ==
    IF f.op = "init" THEN
        IF ~f.undo THEN "init" ELSE IF st[m] = "INITED" THEN "deinit" ELSE "none"
    ELSE IF f.op = "start" /\ ~f.undo THEN
        IF st[m] \in Startable THEN "start" ELSE "none"
    ELSE IF st[m] = "STARTED" THEN "stop"
    ELSE IF f.op = "deinit" /\ st[m] # "UNINIT" THEN "deinit" ELSE "none"

Upward(f) == f.op \in {"init", "start"} /\ ~f.undo
Step(f) == [f EXCEPT !.i = IF Upward(f) THEN @ + 1 ELSE @ - 1]

CallHook ==
    /\ Busy /\ InRange /\ Mine
    /\ HookFor(Top, Entry) # "none"
    /\ Change([Top EXCEPT !.hook = HookFor(Top, Entry)])
    /\ UNCHANGED <<phase, mods, st, frozen, real>>

Skip ==
    /\ Busy /\ InRange
    /\ ~Mine \/ HookFor(Top, Entry) = "none"
    /\ Change(Step([Top EXCEPT !.rem =
                       IF ~Mine /\ st[Entry] # "UNINIT" THEN @ + 1 ELSE @]))
    /\ UNCHANGED <<phase, mods, st, frozen, real>>

\* What a successful hook makes of the module, and what the table records.
Effect(hook) ==
    CASE hook = "init" -> "inited"
      [] hook = "start" -> "running"
      [] hook = "stop" -> "inited"
      [] hook = "deinit" -> "off"
Recorded(f) ==
    CASE f.hook = "init" -> "INITED"
      [] f.hook = "start" -> "STARTED"
      [] f.hook = "stop" -> IF f.op = "start" THEN "INITED" ELSE "STOPPED"
      [] f.hook = "deinit" -> "UNINIT"

\* After a stop inside deinit the same entry goes on to its deinit hook.
HookSucceeds ==
    /\ stack # <<>> /\ Top.hook # "none"
    /\ real' = [real EXCEPT ![Entry] = Effect(Top.hook)]
    /\ st' = [st EXCEPT ![Entry] = Recorded(Top)]
    /\ LET f == [Top EXCEPT !.hook = "none"]
       IN  Change(IF Top.op = "deinit" /\ Top.hook = "stop" THEN f ELSE Step(f))
    /\ UNCHANGED <<phase, mods, frozen>>

\* start rolls back the whole filtered table, routed builds what came before.
RollbackFrom(f) == IF f.op = "init" \/ Routed THEN f.i - 1 ELSE Len(mods)

\* A failing init or start turns the loop round; the others note it and go on.
HookFails ==
    /\ stack # <<>> /\ Top.hook # "none"
    /\ Change(IF Upward(Top)
              THEN [Top EXCEPT !.hook = "none", !.undo = TRUE, !.i = RollbackFrom(Top)]
              ELSE Step([Top EXCEPT !.hook = "none", !.err = TRUE, !.rem = @ + 1]))
    /\ UNCHANGED <<phase, mods, st, frozen, real>>

-----------------------------------------------------------------------------
(* The critical section that ends a call.                                     *)

Finished(op) == At(op) /\ ~InRange

\* The init is over: the state is stored, and what follows is no longer guarded by it.
InitReady ==
    /\ Finished("init") /\ ~Top.undo
    /\ phase' = "READY"
    /\ Change([Top EXCEPT !.op = "freeze"])
    /\ UNCHANGED <<mods, st, frozen, real>>

\* The subscription table is frozen and the freeze hook runs.
InitReturn ==
    /\ At("freeze")
    /\ frozen' = TRUE
    /\ Pop
    /\ UNCHANGED <<phase, mods, st, real>>

ForgetError(err) == FALSE
Failed(err) == err

InitRolledBack ==
    /\ Finished("init") /\ Top.undo
    /\ IF Failed(Top.err)
       THEN phase' = "CLEANUP_PENDING" /\ UNCHANGED mods
       ELSE phase' = "UNINITIALIZED" /\ mods' = <<>>
    /\ Pop
    /\ UNCHANGED <<st, frozen, real>>

StartReturn ==
    /\ Finished("start")
    /\ phase' = IF Top.undo /\ Failed(Top.err) THEN "CLEANUP_PENDING" ELSE "READY"
    /\ Pop
    /\ UNCHANGED <<mods, st, frozen, real>>

StopReturn ==
    /\ Finished("stop")
    /\ phase' = "READY"
    /\ Pop
    /\ UNCHANGED <<mods, st, frozen, real>>

DeinitReturn ==
    /\ Finished("deinit")
    /\ IF Failed(Top.err) THEN UNCHANGED <<phase, mods>>
       ELSE IF Top.rem = 0 \/ Top.dom = Every
       THEN phase' = "UNINITIALIZED" /\ mods' = <<>>
       ELSE phase' = "READY" /\ UNCHANGED mods
    /\ Pop
    /\ UNCHANGED <<st, frozen, real>>

Traverse ==
    \/ CallHook \/ Skip \/ HookSucceeds \/ HookFails
    \/ InitReady \/ InitReturn \/ InitRolledBack \/ StartReturn \/ StopReturn \/ DeinitReturn

Next ==
    \/ \E dom \in Filters :
        \/ \E reset \in BOOLEAN : InitCall(dom, reset)
        \/ StartCall(dom) \/ StopCall(dom) \/ DeinitCall(dom)
    \/ Traverse

Spec == Init /\ [][Next]_vars

-----------------------------------------------------------------------------
(* The state of the CPU, the table and the traversals keep their ranges.      *)
TypeOK ==
    /\ phase \in Phases /\ frozen \in BOOLEAN
    /\ \A i \in DOMAIN mods : mods[i] \in Modules
    /\ st \in [Modules -> States] /\ real \in [Modules -> {"off", "inited", "running"}]
    /\ \A k \in DOMAIN stack :
        /\ stack[k].i \in 0 .. Len(mods) + 1 /\ stack[k].rem \in Nat
        /\ stack[k].hook \in {"none", "init", "start", "stop", "deinit"}

Running(k) == stack[k].hook
Target(k) == mods[stack[k].i]

(* Whatever fails and is rolled back or retried, a hook is called only when it *)
(* is due: init on a module that is off, start on one that is initialised,     *)
(* stop on one that runs, deinit on one that is initialised and does not run.  *)
HooksAreDue ==
    \A k \in DOMAIN stack :
        /\ Running(k) = "init" => real[Target(k)] = "off"
        /\ Running(k) = "start" => real[Target(k)] = "inited"
        /\ Running(k) = "stop" => real[Target(k)] = "running"
        /\ Running(k) = "deinit" => real[Target(k)] = "inited"

(* When a module is started, no module of a smaller priority that the call     *)
(* covers is still waiting to be started.                                      *)
StartInOrder ==
    \A k \in DOMAIN stack : Running(k) = "start" =>
        \A m \in Modules :
            Matches(m, stack[k].dom) /\ Prio[m] < Prio[Target(k)] => real[m] # "inited"

(* The table is declared uninitialised, so that it may be initialised again,   *)
(* only when no hook left a module behind, after every failure and rollback.   *)
UninitializedIsOff ==
    phase = "UNINITIALIZED" => \A m \in Modules : real[m] = "off"

(* READY is reached only through an init that went through: all modules of the *)
(* table are initialised, and the subscriptions are frozen by the time the     *)
(* call returns; it stores READY first (bm_module.c:266-274, 1006-1013).       *)
ReadyIsComplete ==
    phase = "READY" =>
        /\ frozen \/ At("freeze")
        /\ \A i \in DOMAIN mods : real[mods[i]] # "off"

(* Lifecycle calls do not nest: while one traverses the table, no hook can     *)
(* begin another.                                                              *)
NoReentry == Len(stack) <= 1
=============================================================================
